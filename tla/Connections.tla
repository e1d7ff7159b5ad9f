----------------------------- MODULE Connections -----------------------------
(***************************************************************************)
(* The server's connections: the loop of recv_message that accepts and     *)
(* reads them all, a thread of newConnection for each, the threads of the  *)
(* requests, and clientConnfdUnconnect, which all of them call.  A slot is *)
(* an index of clientConnfd; it is looked for and taken without the lock.  *)
(*                                                                         *)
(* The i-th connection made is connection i; the loop accepts them in that *)
(* order.  A connection's first message is its login, the second a request *)
(* (SERVICE) and the third what its thread reads; one recv returns one     *)
(* message (Mailbox has the leftovers).  past is history, as in Rooms.     *)
(***************************************************************************)
EXTENDS Integers, Sequences, FiniteSets

CONSTANTS
    MAX_CLIENT,     \* the slots
    MaxConns,       \* bound on the connections made
    Quiet,          \* the numbers of slots that clients who stay and say nothing may have at first
    Requesting      \* bound on the requests: the connections that make one

Conns == 1 .. MaxConns

ASSUME ConnectionsAssumption ==
    /\ {MAX_CLIENT, MaxConns} \subseteq Nat \ {0}
    /\ Quiet \subseteq 0 .. MAX_CLIENT
    /\ Requesting \subseteq Conns

Slots == 1 .. MAX_CLIENT
Fds == 1 .. MaxConns            \* accept returns the lowest that is free
QuietFd(k) == MaxConns + k      \* the descriptor of a quiet client in slot k
Out == MAX_CLIENT + 1           \* what the search ends with when no slot is free

None == 0                       \* no connection, no message, no slot
CLIENT_MESSAGE == 1             \* the type of what is read; slots are counted from 1 here
Login == 1
Service == 2
Text == 3

VARIABLES
    up,             \* the server runs
    conn,           \* the clients' ends
    own,            \* the connection of each descriptor, or None if it is closed
    connfd,         \* of the loop: what accept has returned last
    clientConnfd, clientNum,
    mail,           \* whose message is in a slot: client_messageReady and messageRecv_fromClient
    pipe,           \* recvThreadPipe has something to read
    loop,           \* recv_message
    thr,            \* the newConnection of each connection
    svc,            \* the thread of each connection's request
    past            \* history: races and ends of the server

slotVars == <<clientConnfd, clientNum>>
vars == <<up, conn, own, connfd, slotVars, mail, pipe, loop, thr, svc, past>>

NewConn == [st |-> "new", ended |-> FALSE, told |-> 0, sent |-> 0, got |-> 0]
\* recv_message where it starts again
NoLoop == [pc |-> "scan", fds |-> {}, listen |-> FALSE, pipe |-> FALSE, k |-> Out]
NoThread == [pc |-> "none", fd |-> -1, i |-> Out, idx |-> None, num |-> 0]
NoService == [pc |-> "none", k |-> None, idx |-> None]

Init ==
    /\ up = TRUE
    /\ conn = [n \in Conns |-> NewConn]
    /\ own = [f \in Fds |-> None]
    /\ connfd = -1
    /\ clientNum \in Quiet
    /\ clientConnfd = [k \in Slots |-> IF k <= clientNum THEN QuietFd(k) ELSE -1]
    /\ mail = [k \in Slots |-> None]
    /\ pipe = FALSE
    /\ loop = NoLoop
    /\ thr = [n \in Conns |-> NoThread]
    /\ svc = [n \in Conns |-> NoService]
    /\ past = {}

Open(fd) == fd # -1 /\ (fd \in Fds => own[fd] # None)

\* Something to recv, or the end of the connection
Readable(fd) == fd \in Fds /\ Open(fd) /\ LET c == conn[own[fd]] IN c.got < c.sent \/ c.ended

Pending == {n \in Conns : conn[n].st = "pending"}

First(ks) == CHOOSE k \in ks : \A j \in ks : k <= j

\* getConnfdIndex: for -1 it is a free slot
ConnfdIndex(fd) ==
    LET ks == {k \in Slots : clientConnfd[k] = fd} IN IF ks = {} THEN None ELSE First(ks)

FreeSlots == {k \in Slots : clientConnfd[k] = -1}

\* mutant: no slot found is told by 0
MutFreeSlot == IF FreeSlots = {} THEN None ELSE First(FreeSlots)

FreeSlot == IF FreeSlots = {} THEN Out ELSE First(FreeSlots)

\* The process ends, for the reason why: nothing is left of its state.
Dies(why) ==
    /\ up' = FALSE
    /\ past' = past \cup {why}
    /\ conn' = [n \in Conns |-> NewConn] /\ own' = [f \in Fds |-> None] /\ connfd' = -1
    /\ clientConnfd' = [k \in Slots |-> -1] /\ clientNum' = 0 /\ mail' = [k \in Slots |-> None]
    /\ pipe' = FALSE /\ loop' = NoLoop
    /\ thr' = [n \in Conns |-> NoThread] /\ svc' = [n \in Conns |-> NoService]

-----------------------------------------------------------------------------
(***************************************************************************)
(* The clients.                                                            *)
(***************************************************************************)

Arrive(n) ==
    /\ up /\ conn[n].st = "new" /\ \A m \in 1 .. n - 1 : conn[m].st # "new"
    /\ conn' = [conn EXCEPT ![n].st = "pending"]
    /\ UNCHANGED <<up, own, connfd, slotVars, mail, pipe, loop, thr, svc, past>>

\* A client that ends while it waits for accept is one that ends right after.
HangUp(n) ==
    /\ up /\ conn[n].st = "accepted" /\ ~conn[n].ended
    /\ conn' = [conn EXCEPT ![n].ended = TRUE]
    /\ UNCHANGED <<up, own, connfd, slotVars, mail, pipe, loop, thr, svc, past>>

\* The login after the greeting, a request after the login's answer, and what
\* it asks for
SendMessage(n) ==
    LET c == conn[n] IN
    /\ up /\ ~c.ended
    /\ \/ c.sent = 0 /\ c.told >= 1
       \/ c.sent = 1 /\ c.told = 2 /\ n \in Requesting
       \/ c.sent = 2 /\ c.got = 2
    /\ conn' = [conn EXCEPT ![n].sent = @ + 1]
    /\ UNCHANGED <<up, own, connfd, slotVars, mail, pipe, loop, thr, svc, past>>

-----------------------------------------------------------------------------
(***************************************************************************)
(* clientConnfdUnconnect, and the threads that are still at a slot.        *)
(***************************************************************************)

AtSlot(k) ==
    \/ \E n \in Conns : thr[n].pc \notin {"none", "born", "search", "done"} /\ k \in {thr[n].i, thr[n].idx}
    \/ \E n \in Conns : svc[n].pc \notin {"none", "done"} /\ k \in {svc[n].k, svc[n].idx}

\* mutant: the slot keeps the descriptor
MutCleared(k) == clientConnfd

Cleared(k) == IF k = Out THEN clientConnfd ELSE [clientConnfd EXCEPT ![k] = -1]

\* Slot Out is memory after the array.
Unconnect(k) ==
    /\ own' = IF k # Out /\ clientConnfd[k] \in Fds THEN [own EXCEPT ![clientConnfd[k]] = None] ELSE own
    /\ clientConnfd' = Cleared(k)
    /\ clientNum' = clientNum - 1

\* A thread of a slot finds its connection closed, and closes the slot.
UnconnectAgain(k) == Unconnect(k) /\ past' = past \cup {"twice"}

-----------------------------------------------------------------------------
(***************************************************************************)
(* The loop.                                                               *)
(***************************************************************************)

LoopAt(pc) == up /\ loop.pc = pc

Select ==
    /\ LoopAt("select")
    /\ LET ready == {fd \in loop.fds : Readable(fd)} IN
       /\ ready # {} \/ Pending # {} \/ pipe
       /\ loop' = [pc |-> "listen", fds |-> ready, listen |-> Pending # {}, pipe |-> pipe, k |-> 1]
    /\ UNCHANGED <<up, conn, own, connfd, slotVars, mail, pipe, thr, svc, past>>

TableFull == clientNum >= MAX_CLIENT

Used == Cardinality({k \in Slots : clientConnfd[k] # -1})

\* Threads that have not counted their connection yet
Uncounted == Cardinality({n \in Conns : thr[n].pc \in {"load", "store"}})
Seeking == Cardinality({n \in Conns : thr[n].pc \in {"born", "search", "take"}})

\* With a full table the loop starts again and reads nobody.  The thread is
\* given the address of connfd.
Accept ==
    /\ LoopAt("listen")
    /\ IF loop.listen /\ TableFull
         THEN loop' = NoLoop /\ UNCHANGED <<conn, own, connfd, pipe, thr, past>>
         ELSE /\ loop' = [loop EXCEPT !.pc = "scan", !.listen = FALSE, !.pipe = FALSE]
              /\ pipe' = (pipe /\ ~loop.pipe)
              /\ IF ~loop.listen THEN UNCHANGED <<conn, own, connfd, thr, past>>
                 ELSE LET n == First(Pending)
                          fd == First({f \in Fds : own[f] = None})
                      IN  /\ conn' = [conn EXCEPT ![n].st = "accepted"]
                          /\ own' = [own EXCEPT ![fd] = n]
                          /\ connfd' = fd
                          /\ thr' = [thr EXCEPT ![n].pc = "born"]
                          /\ past' = IF Used + Seeking >= MAX_CLIENT /\ Seeking + Uncounted > 0 THEN past \cup {"crowd"} ELSE past
    /\ UNCHANGED <<up, slotVars, mail, svc>>

\* After the last slot the loop starts again: FD_SET for every slot, and
\* select, which fails if one of them is closed.
SetFds ==
    /\ LoopAt("scan") /\ loop.k = Out
    /\ LET fds == {clientConnfd[k] : k \in Slots} \ {-1} IN
       IF \E fd \in fds : ~Open(fd) THEN Dies("badf")
       ELSE /\ loop' = [NoLoop EXCEPT !.pc = "select", !.fds = fds]
            /\ UNCHANGED <<up, conn, own, connfd, slotVars, mail, pipe, thr, svc, past>>

IsSet(k) == clientConnfd[k] \in loop.fds

Scan ==
    /\ LoopAt("scan") /\ loop.k \in Slots
    /\ loop' = IF IsSet(loop.k) THEN [loop EXCEPT !.pc = "recv"] ELSE [loop EXCEPT !.k = @ + 1]
    /\ UNCHANGED <<up, conn, own, connfd, slotVars, mail, pipe, thr, svc, past>>

Ended(c) == c.got = c.sent /\ c.ended

\* The mailbox has been awaited empty; recv waits for what is not there yet,
\* and returns -1 if the client's end has reset the connection.
Recv ==
    /\ LoopAt("recv")
    /\ LET k == loop.k
           fd == clientConnfd[k]
           n == own[fd]                \* a quiet client is not read
           kind == conn[n].got + 1
       IN
       /\ mail[k] = None
       /\ \/ ~Open(fd) /\ Dies("badf")
          \/ Open(fd) /\ conn[n].ended /\ Dies("reset")
          \/ /\ Readable(fd)
             /\ loop' = [loop EXCEPT !.pc = "scan", !.k = @ + 1, !.fds = IF Ended(conn[n]) THEN @ \ {fd} ELSE @]
             /\ IF Ended(conn[n])
                  THEN /\ Unconnect(k)
                       /\ conn' = [conn EXCEPT ![n] = [NewConn EXCEPT !.st = "accepted", !.ended = TRUE]]
                       /\ past' = IF AtSlot(k) THEN past \cup {"left"} ELSE past
                       /\ UNCHANGED <<mail, svc>>
                  ELSE /\ conn' = [conn EXCEPT ![n].got = kind]
                       /\ mail' = IF kind = Service THEN mail ELSE [mail EXCEPT ![k] = n]
                       /\ svc' = IF kind = Service THEN [svc EXCEPT ![n].pc = "find", ![n].k = k] ELSE svc
                       /\ UNCHANGED <<own, slotVars, past>>
             /\ UNCHANGED <<up, connfd, pipe, thr>>

Loop == SetFds \/ Select \/ Accept \/ Scan \/ Recv

-----------------------------------------------------------------------------
(***************************************************************************)
(* newConnection of connection n.                                          *)
(***************************************************************************)

At(n, pc) == up /\ thr[n].pc = pc
Ends(n) == thr' = [thr EXCEPT ![n] = [NoThread EXCEPT !.pc = "done", !.i = thr[n].i]]

\* *(actual_args->int1): the loop may have accepted another since.
ReadArgs(n) ==
    /\ At(n, "born")
    /\ thr' = [thr EXCEPT ![n].pc = "search", ![n].fd = connfd]
    /\ past' = IF own[connfd] # n THEN past \cup {"late"} ELSE past
    /\ UNCHANGED <<up, conn, own, connfd, slotVars, mail, pipe, loop, svc>>

Search(n) ==
    /\ At(n, "search")
    /\ thr' = [thr EXCEPT ![n].pc = IF FreeSlot \in Slots THEN "take" ELSE "greet", ![n].i = FreeSlot]
    /\ past' = IF FreeSlot \in Slots THEN past ELSE past \cup {"over"}
    /\ UNCHANGED <<up, conn, own, connfd, slotVars, mail, pipe, loop, svc>>

Take(n) ==
    /\ At(n, "take")
    /\ clientConnfd' = [clientConnfd EXCEPT ![thr[n].i] = thr[n].fd]
    /\ past' = IF clientConnfd[thr[n].i] # -1 THEN past \cup {"same"} ELSE past
    /\ thr' = [thr EXCEPT ![n].pc = "load"]
    /\ UNCHANGED <<up, conn, own, connfd, clientNum, mail, pipe, loop, svc>>

\* clientNum++
LoadNum(n) ==
    /\ At(n, "load")
    /\ thr' = [thr EXCEPT ![n].pc = "store", ![n].num = clientNum]
    /\ UNCHANGED <<up, conn, own, connfd, slotVars, mail, pipe, loop, svc, past>>

\* mutant: the connection is not counted
MutCounted(num) == num

Counted(num) == num + 1

StoreNum(n) ==
    /\ At(n, "store")
    /\ clientNum' = Counted(thr[n].num)
    /\ past' = IF clientNum # thr[n].num THEN past \cup {"torn"} ELSE past
    /\ thr' = [thr EXCEPT ![n].pc = "greet", ![n].num = 0]
    /\ UNCHANGED <<up, conn, own, connfd, clientConnfd, mail, pipe, loop, svc>>

\* What a send to fd does: it fails, or the client learns something (told), or
\* the end of the client ends the server (SIGPIPE).
SendFails(fd) == ~Open(fd)
SendPipes(fd) == fd \in Fds /\ Open(fd) /\ conn[own[fd]].ended /\ Dies("pipe")
SendGoes(fd, told) ==
    /\ Open(fd)
    /\ conn' = [conn EXCEPT ![own[fd]].told = IF @ = told - 1 THEN told ELSE @]

Greet(n) ==
    /\ At(n, "greet")
    /\ \/ /\ SendFails(thr[n].fd) /\ UnconnectAgain(thr[n].i)
          /\ Ends(n)
          /\ UNCHANGED <<up, conn, connfd, mail, pipe, loop, svc>>
       \/ SendPipes(thr[n].fd)
       \/ /\ SendGoes(thr[n].fd, 1)
          /\ thr' = [thr EXCEPT ![n].pc = "wake"]
          /\ UNCHANGED <<up, own, connfd, slotVars, mail, pipe, loop, svc, past>>

\* mutant: nothing is written
MutWoken == pipe

Woken == TRUE

\* The loop is woken up, so that it asks for the new slot too.
Wake(n) ==
    /\ At(n, "wake")
    /\ pipe' = Woken
    /\ thr' = [thr EXCEPT ![n].pc = "find"]
    /\ UNCHANGED <<up, conn, own, connfd, slotVars, mail, loop, svc, past>>

\* getMessage looks for the slot of the descriptor.  With none the thread
\* closes slot i and cancels itself, and until it is cancelled uses a buffer
\* that was never written: it may follow the NULL of an account of no name.
Find(n) ==
    /\ At(n, "find")
    /\ LET k == ConnfdIndex(thr[n].fd) IN
       \/ /\ k # None
          /\ thr' = [thr EXCEPT ![n].pc = "wait", ![n].idx = k]
          /\ UNCHANGED <<up, conn, own, connfd, slotVars, mail, pipe, loop, svc, past>>
       \/ /\ k = None /\ UnconnectAgain(thr[n].i) /\ Ends(n)
          /\ UNCHANGED <<up, conn, connfd, mail, pipe, loop, svc>>
       \/ k = None /\ Dies("garbage")

\* mutant: the flag stays up
MutEmptied(k) == mail

\* getMessage lowers the flag of the slot, and then the flag whose number is
\* the type of the message: the second slot's.
Emptied(k) == [j \in Slots |-> IF j \in {k, CLIENT_MESSAGE + 1} THEN None ELSE mail[j]]

\* The message of a slot is taken by whoever waits there.
Takes(k, n) ==
    /\ mail[k] # None
    /\ mail' = Emptied(k)
    /\ past' = IF mail[k] # n THEN past \cup {"others"} ELSE past

ReadLogin(n) ==
    /\ At(n, "wait")
    /\ Takes(thr[n].idx, n)
    /\ thr' = [thr EXCEPT ![n].pc = "answer"]
    /\ UNCHANGED <<up, conn, own, connfd, slotVars, pipe, loop, svc>>

Answer(n) ==
    /\ At(n, "answer")
    /\ \/ SendPipes(thr[n].fd)
       \/ /\ Ends(n)
          /\ \/ SendFails(thr[n].fd) /\ UnconnectAgain(thr[n].i) /\ UNCHANGED conn
             \/ SendGoes(thr[n].fd, 2) /\ UNCHANGED <<own, slotVars, past>>
          /\ UNCHANGED <<up, connfd, mail, pipe, loop, svc>>

Connecting(n) ==
    \/ ReadArgs(n) \/ Search(n) \/ Take(n) \/ LoadNum(n) \/ StoreNum(n) \/ Greet(n) \/ Wake(n)
    \/ Find(n) \/ ReadLogin(n) \/ Answer(n)

-----------------------------------------------------------------------------
(***************************************************************************)
(* The thread of the request of connection n: it knows its slot only, and  *)
(* getMessage is given the descriptor the slot has by then; if that is -1, *)
(* what is found is a free slot.                                           *)
(***************************************************************************)

FindSlot(n) ==
    /\ up /\ svc[n].pc = "find"
    /\ LET k == ConnfdIndex(clientConnfd[svc[n].k]) IN
       svc' = [svc EXCEPT ![n].pc = "wait", ![n].idx = k]
    /\ UNCHANGED <<up, conn, own, connfd, slotVars, mail, pipe, loop, thr, past>>

ReadText(n) ==
    /\ up /\ svc[n].pc = "wait"
    /\ Takes(svc[n].idx, n)
    /\ svc' = [svc EXCEPT ![n].pc = "reply"]
    /\ UNCHANGED <<up, conn, own, connfd, slotVars, pipe, loop, thr>>

Reply(n) ==
    /\ up /\ svc[n].pc = "reply"
    /\ LET fd == clientConnfd[svc[n].k] IN
       \/ SendPipes(fd)
       \/ /\ svc' = [svc EXCEPT ![n] = [NoService EXCEPT !.pc = "done"]]
          /\ \/ SendFails(fd) /\ UnconnectAgain(svc[n].k)
             \/ Open(fd) /\ UNCHANGED <<own, slotVars, past>>
          /\ UNCHANGED <<up, conn, connfd, mail, pipe, loop, thr>>

Serving(n) == FindSlot(n) \/ ReadText(n) \/ Reply(n)

Next ==
    \/ Loop
    \/ \E n \in Conns :
         Arrive(n) \/ SendMessage(n) \/ HangUp(n) \/ Connecting(n) \/ Serving(n)

Spec == Init /\ [][Next]_vars

\* The loop and the threads go on; nothing is asked of the clients.
FairSpec ==
    /\ Spec /\ WF_vars(Loop)
    /\ \A n \in Conns : WF_vars(Connecting(n))
    /\ \A n \in Requesting : WF_vars(Serving(n))
-----------------------------------------------------------------------------
(***************************************************************************)
(* Properties.                                                             *)
(***************************************************************************)

Never(events) == past \cap events = {}

ThreadAt == {"none", "born", "search", "take", "load", "store", "greet", "wake", "find", "wait",
             "answer", "done"}

ClientState == [st : {"new", "pending", "accepted"}, ended : BOOLEAN, told : 0 .. 2, sent : 0 .. 3, got : 0 .. 3]
LoopState == [pc : {"select", "listen", "scan", "recv"}, fds : SUBSET (Fds \cup {QuietFd(k) : k \in Slots}),
              listen : BOOLEAN, pipe : BOOLEAN, k : Slots \cup {Out}]
ThreadState == [pc : ThreadAt, fd : Fds \cup {-1}, i : Slots \cup {Out}, idx : Slots \cup {None}, num : Int]
ServiceState == [pc : {"none", "find", "wait", "reply", "done"}, k : Slots \cup {None}, idx : Slots \cup {None}]

TypeOK ==
    /\ up \in BOOLEAN /\ pipe \in BOOLEAN
    /\ conn \in [Conns -> ClientState] /\ \A n \in Conns : conn[n].got <= conn[n].sent
    /\ own \in [Fds -> Conns \cup {None}] /\ connfd \in Fds \cup {-1}
    /\ clientConnfd \in [Slots -> Int] /\ \A k \in Slots : clientConnfd[k] \in Fds \cup {-1, QuietFd(k)}
    /\ clientNum \in Int
    /\ mail \in [Slots -> Conns \cup {None}]
    /\ loop \in LoopState
    /\ thr \in [Conns -> ThreadState]
    /\ svc \in [Conns -> ServiceState]
    /\ past \subseteq {"crowd", "late", "over", "same", "torn", "twice", "left", "others", "badf",
                 "garbage", "reset", "pipe"}

\* clientNum is the number of the slots in use, but for the connections whose
\* threads are counting them, and the search for a slot finds one unless
\* connections were accepted faster than their threads count them; unless two
\* threads took one slot, an increment met another change of clientNum, or a
\* thread closed what was closed.
CountIsUsed ==
    Never({"same", "torn", "twice"}) =>
        /\ clientNum + Uncounted = Used
        /\ "over" \in past => "crowd" \in past

\* A descriptor is in one slot, it is open, and the thread of its connection
\* has put it there.
OneOwner ==
    \A k \in Slots : clientConnfd[k] \in Fds =>
        /\ Open(clientConnfd[k])
        /\ thr[own[clientConnfd[k]]].i = k
        /\ \A j \in Slots \ {k} : clientConnfd[j] # clientConnfd[k]

\* The loop calls neither select nor recv with a closed descriptor, and does
\* not wait in recv for what has not come.
LoopGoesOn ==
    /\ "badf" \notin past
    /\ up /\ loop.pc = "recv" => Readable(clientConnfd[loop.k])

\* What a thread reads is from its own client, unless a client left before
\* its threads had ended or got no slot.
OwnMessage == "others" \in past => ~Never({"left", "over"})

\* Slots, descriptors and threads agree, unless a thread read connfd late,
\* took another's slot or closed a slot a second time.
SlotsAgree == Never({"late", "same", "twice"}) => OneOwner /\ LoopGoesOn /\ OwnMessage

\* While the loop sleeps without the descriptor of a slot, something wakes it
\* up: the pipe is full, or the thread of the slot is going to write to it.
WokenUp ==
    \A k \in Slots : up /\ loop.pc = "select" /\ clientConnfd[k] # -1 /\ clientConnfd[k] \notin loop.fds =>
        \/ pipe
        \/ \E n \in Conns : thr[n].i = k /\ thr[n].pc \in {"load", "store", "greet", "wake"}

\* What a client has sent is received, unless the client ends, the server ends,
\* or a race has happened, or the table is full and somebody waits for a place
\* for ever.
Heard ==
    \A n \in Conns :
        conn[n].got < conn[n].sent ~>
            \/ conn[n].got = conn[n].sent \/ conn[n].ended \/ ~up
            \/ ~Never({"late", "same", "twice", "left", "over"})
            \/ [](Pending # {})
===============================================================================
