-------------------------------- MODULE Mailbox --------------------------------
(***************************************************************************)
(* How a request reaches a thread of the server.  recv_message of          *)
(* Server/src/recvMessage.c, the only reader of every connection, leaves   *)
(* what it receives in the one-message mailbox of the connection; a        *)
(* SERVICE message makes it start a thread (serviceOrder of server.c),     *)
(* and that thread takes the CLIENT_MESSAGEs that follow out of the        *)
(* mailbox (getMessage).  The mailbox is two unlocked globals, a buffer    *)
(* and a flag.                                                             *)
(*                                                                         *)
(* The clients follow Client/src/client.c: one request at a time, most of  *)
(* them with an answer to wait for.  They stay connected here.  Who enters *)
(* a room leaves the menu and this module.                                 *)
(***************************************************************************)
EXTENDS Integers, Sequences, FiniteSets

CONSTANTS
    Slots,          \* the indexes of the connections, in 0 .. MAX_CLIENT - 1
    Menu,           \* the requests the players choose from
    MaxRequests,    \* bounds on the requests of each client
    TypeReadable,   \* FALSE: firstMessageType may not compare equal, see HasType
    MAX_ROOM,       \* room.c makes none once it has counted so many
    MaxSent         \* bound on the messages of a client: room numbers it tries

ASSUME SlotsAssumption == Slots \subseteq 0 .. 9 /\ Slots # {}
ASSUME MenuAssumption ==
    /\ Menu \subseteq {"signup", "login", "changePass", "newRoom", "joinRoom", "signOut"}
    /\ MaxRequests \in [Slots -> Nat]
    /\ TypeReadable \in BOOLEAN
    /\ {MAX_ROOM, MaxSent} \subseteq Nat

CLIENT_MESSAGE == 1     \* the enum's value, also used as an index

Services == {"connect", "signup", "login", "newRoom", "joinRoom"}

\* mutant: the client does not wait to be told whether it is logged in
MutClientScript ==
    [connect    |-> <<"message">>,
     signup     |-> <<"service", "message", "await", "message", "await">>,
     login      |-> <<"service", "message", "await", "message", "await">>,
     changePass |-> <<"message", "message">>,
     newRoom    |-> <<"service", "message", "message", "await">>,
     joinRoom   |-> <<"service", "await", "message", "await">>,
     signOut    |-> <<"await">>,
     inroom     |-> <<>>,
     none       |-> <<>>]

\* The client's side of a request; await: blocked until the next MESSAGE.
ClientScript ==
    [connect    |-> <<"message", "await">>,
     signup     |-> <<"service", "message", "await", "message", "await">>,
     login      |-> <<"service", "message", "await", "message", "await">>,
     changePass |-> <<"message", "message">>,
     newRoom    |-> <<"service", "message", "message", "await">>,
     joinRoom   |-> <<"service", "await", "message", "await">>,
     signOut    |-> <<"await">>,
     inroom     |-> <<>>,
     none       |-> <<>>]

\* The thread's side; ask: the answer may end the request; last: it does;
\* room: it does, or the thread goes back for another room number.
\* newConnection welcomes the client before it sets the account.
ServerScript ==
    [connect  |-> <<"get", "ask", "account">>,
     signup   |-> <<"get", "ask", "get", "last">>,
     login    |-> <<"get", "ask", "get", "last">>,
     newRoom  |-> <<"get", "get", "last">>,
     joinRoom |-> <<"ask", "get", "room">>]

VARIABLES
    client,     \* what the client is doing: its request, by number, and where
    logged,     \* client.logedIn
    account,    \* client_account[k] # NULL
    net,        \* sent by the client and not received
    replies,    \* MESSAGEs of the server the client has not taken
    buf,        \* messageRecv_fromClient, a message or several
    ready,      \* client_messageReady
    loop, todo, \* recv_message: where it is, slots of the select not scanned
    roomNum,    \* rooms there are
    threads,    \* every thread that was started
    sent, got,  \* history: messages sent by a client and read by a thread
    past        \* history: the ways the code breaks its own mailbox, below

\* In past: "coalesced", one recv returned several messages; "late", the args
\* of a thread were overwritten before it had read them.

clientVars == <<client, logged>>
vars == <<clientVars, account, net, replies, buf, ready, loop, todo, roomNum,
          threads, sent, got, past>>

\* The i-th thread that was started for connection c runs step Step(c, i) of
\* its script, on the mailbox of slot Idx(c, i).
Idx(c, i) == threads[c][i].idx
Step(c, i) == ServerScript[threads[c][i].svc][threads[c][i].at]
At(c, i, phase) == threads[c][i].phase = phase

Thread(k, m, phase) ==
    [req |-> m.req, svc |-> m.svc, idx |-> k, at |-> 1,
     phase |-> phase, took |-> <<>>]

\* The connections are made: newConnection has greeted every client.
Init ==
    /\ client = [k \in Slots |-> [svc |-> "connect", at |-> 1, req |-> 0]]
    /\ logged = [k \in Slots |-> FALSE]
    /\ account = [k \in Slots |-> FALSE]
    /\ net = [k \in Slots |-> <<>>]
    /\ replies = [k \in Slots |-> <<>>]
    /\ buf = [k \in Slots |-> <<>>]
    /\ ready = [k \in Slots |-> -1]
    /\ loop = "select" /\ todo = {}
    /\ roomNum = 0
    /\ threads = [k \in Slots |-> <<[req |-> 0, svc |-> "connect", idx |-> k, at |-> 1,
                                      phase |-> "run", took |-> <<>>]>>]
    /\ sent = [k \in Slots |-> <<>>]
    /\ got = [k \in Slots |-> <<>>]
    /\ past = {}

-----------------------------------------------------------------------------
(***************************************************************************)
(* The clients.                                                            *)
(***************************************************************************)

Op(k) == ClientScript[client[k].svc][client[k].at]
Busy(k) == client[k].at \in DOMAIN ClientScript[client[k].svc]

\* The menu offers the account services before the login, the rest after it.
Choose(k) ==
    /\ ~Busy(k) /\ client[k].svc # "inroom"
    /\ client[k].req < MaxRequests[k]
    /\ \E s \in Menu :
         /\ s \in {"signup", "login"} <=> ~logged[k]
         /\ client' = [client EXCEPT ![k] = [svc |-> s, at |-> 1, req |-> @.req + 1]]
    /\ UNCHANGED <<logged, account, roomNum, net, replies, buf, ready, loop, todo,
                   threads, sent, got, past>>

ClientSend(k) ==
    /\ Busy(k) /\ Op(k) \in {"service", "message"}
    /\ LET m == [kind |-> Op(k), svc |-> client[k].svc, req |-> client[k].req,
                 at |-> client[k].at]
       IN  /\ net' = [net EXCEPT ![k] = Append(@, m)]
           /\ sent' = [sent EXCEPT ![k] = Append(@, m)]
    /\ client' = [client EXCEPT ![k].at = @ + 1]
    /\ UNCHANGED <<logged, account, roomNum, replies, buf, ready, loop, todo, threads, got, past>>

\* getMessage of the client, and what the request does with the answer; after
\* a sign-out it drops every answer but one that nobody sends.
ClientTake(k) ==
    /\ Busy(k) /\ Op(k) = "await" /\ client[k].svc # "signOut"
    /\ replies[k] # <<>>
    /\ replies' = [replies EXCEPT ![k] = Tail(@)]
    /\ LET r == Head(replies[k]) IN
       /\ client' = [client EXCEPT
            ![k].at  = CASE r = "on" -> @ + 1 [] r = "again" -> @ - 1 [] OTHER -> @,
            ![k].svc = CASE r \in {"on", "again"} -> @ [] r = "in" -> "inroom" [] OTHER -> "none"]
       /\ logged' = [logged EXCEPT ![k] = @ \/ r = "welcome"]
    /\ UNCHANGED <<account, roomNum, net, buf, ready, loop, todo, threads, sent, got, past>>

Clients == \E k \in Slots : Choose(k) \/ ClientSend(k) \/ ClientTake(k)

-----------------------------------------------------------------------------
(***************************************************************************)
(* What the receive loop and the threads share.                            *)
(***************************************************************************)

\* checkFirstMessage_type: only the first message of the buffer counts.
HasType(k, kind) == buf[k] # <<>> /\ Head(buf[k]).kind = kind

\* What its check for a SERVICE may say: firstMessageType is never ended, so
\* that the comparison may fail on what the stack held before.
SaysService(k) ==
    {HasType(k, "service")} \cup (IF TypeReadable THEN {} ELSE {FALSE})

\* mutant: the flag stays as it is
MutFlagAfter(k) == ready[k]

\* getMessage: what it leaves in the flag.  With more than one message in
\* the buffer it stays up, and strcmp leaves the buffer as it was.
FlagAfter(k) == IF Len(buf[k]) = 1 THEN -1 ELSE ready[k]

NeedsAccount(svc) == svc \in {"newRoom", "joinRoom"}

\* getMessage(SERVICE) and serviceOrder.  A room service of a client without
\* an account follows a NULL pointer; ts are the threads but for the new one,
\* which starts in the given phase.
Serve(k, ts, phase, goOn) ==
    LET m == Head(buf[k]) IN
    /\ got' = [got EXCEPT ![k] = Append(@, m)]
    /\ ready' = [ready EXCEPT ![k] = FlagAfter(k)]
    /\ IF NeedsAccount(m.svc) /\ ~account[k]
         THEN loop' = "crash" /\ threads' = ts
         ELSE loop' = goOn /\ threads' = [ts EXCEPT ![k] = Append(@, Thread(k, m, phase))]

-----------------------------------------------------------------------------
(***************************************************************************)
(* recv_message.                                                           *)
(***************************************************************************)

Select ==
    /\ loop = "select"
    /\ todo' = {k \in Slots : net[k] # <<>>}
    /\ todo' # {}
    /\ loop' = "scan"
    /\ UNCHANGED <<clientVars, account, roomNum, net, replies, buf, ready, threads, sent, got, past>>

Scanned == CHOOSE k \in todo : \A j \in todo : k <= j

\* mutant: the loop does not wait for the mailbox
MutReceive ==
    /\ loop = "scan"
    /\ \E n \in 1 .. Len(net[Scanned]) :
         /\ past' = IF n > 1 THEN past \cup {"coalesced"} ELSE past
         /\ buf' = [buf EXCEPT ![Scanned] = SubSeq(net[Scanned], 1, n)]
         /\ net' = [net EXCEPT ![Scanned] = SubSeq(@, n + 1, Len(@))]
    /\ ready' = [ready EXCEPT ![Scanned] = 1]
    /\ loop' = "check"
    /\ UNCHANGED <<clientVars, account, roomNum, replies, todo, threads, sent, got>>

\* The loop spins until the mailbox is empty, whoever has to empty it.
Receive ==
    /\ loop = "scan"
    /\ ready[Scanned] # 1
    /\ \E n \in 1 .. Len(net[Scanned]) :
         /\ past' = IF n > 1 THEN past \cup {"coalesced"} ELSE past
         /\ buf' = [buf EXCEPT ![Scanned] = SubSeq(net[Scanned], 1, n)]
         /\ net' = [net EXCEPT ![Scanned] = SubSeq(@, n + 1, Len(@))]
    /\ ready' = [ready EXCEPT ![Scanned] = 1]
    /\ loop' = "check"
    /\ UNCHANGED <<clientVars, account, roomNum, replies, todo, threads, sent, got>>

\* args is a local of serviceOrder: a call for slot k lays it where the last
\* one had it, and every thread that has not read its own reads k.
Reused(k) ==
    [c \in Slots |-> [i \in DOMAIN threads[c] |->
        IF At(c, i, "born") THEN [threads[c][i] EXCEPT !.idx = k] ELSE threads[c][i]]]

\* checkFirstMessage_type(k, SERVICE), then the next slot of the select
Check ==
    /\ loop = "check"
    /\ LET scan == IF todo = {Scanned} THEN "select" ELSE "scan" IN
       \E service \in SaysService(Scanned) :
         IF service
           THEN /\ Serve(Scanned, Reused(Scanned), "born", scan)
                /\ past' = IF Reused(Scanned) = threads THEN past ELSE past \cup {"late"}
           ELSE /\ loop' = scan
                /\ UNCHANGED <<ready, got, threads, past>>
    /\ todo' = todo \ {Scanned}
    /\ UNCHANGED <<clientVars, account, roomNum, net, replies, buf, sent>>

Loop == Select \/ Receive \/ Check

-----------------------------------------------------------------------------
(***************************************************************************)
(* The threads.                                                            *)
(***************************************************************************)

\* The thread reads its args.
Born(c, i) ==
    /\ At(c, i, "born")
    /\ threads' = [threads EXCEPT ![c][i].phase = "run"]
    /\ UNCHANGED <<clientVars, account, roomNum, net, replies, buf, ready, loop, todo, sent, got, past>>

\* the end of the spin in getMessage
See(c, i) ==
    /\ At(c, i, "run") /\ Step(c, i) = "get"
    /\ ready[Idx(c, i)] = 1
    /\ HasType(Idx(c, i), "message")
    /\ threads' = [threads EXCEPT ![c][i].phase = "copy"]
    /\ UNCHANGED <<clientVars, account, roomNum, net, replies, buf, ready, loop, todo, sent, got, past>>

\* the first message of the buffer
Copy(c, i) ==
    /\ At(c, i, "copy")
    /\ LET k == Idx(c, i)  m == Head(buf[k]) IN
       /\ got' = [got EXCEPT ![k] = Append(@, m)]
       /\ threads' = [threads EXCEPT ![c][i].phase = "lower", ![c][i].took = <<k, m.req>>]
    /\ UNCHANGED <<clientVars, account, roomNum, net, replies, buf, ready, loop, todo, sent, past>>

Lower(c, i) ==
    /\ At(c, i, "lower")
    /\ ready' = [ready EXCEPT ![Idx(c, i)] = FlagAfter(Idx(c, i))]
    /\ threads' = [threads EXCEPT ![c][i].phase = "clear"]
    /\ UNCHANGED <<clientVars, account, roomNum, net, replies, buf, loop, todo, sent, got, past>>

\* mutant: the flags of all slots are cleared
MutClear(c, i) ==
    /\ At(c, i, "clear")
    /\ ready' = [k \in Slots |-> 0]
    /\ threads' = [threads EXCEPT ![c][i].phase = "tail"]
    /\ UNCHANGED <<clientVars, account, roomNum, net, replies, buf, loop, todo, sent, got, past>>

\* client_messageReady[type] = 0: the type is no index
Clear(c, i) ==
    /\ At(c, i, "clear")
    /\ ready' = [k \in Slots |-> IF k = CLIENT_MESSAGE THEN 0 ELSE ready[k]]
    /\ threads' = [threads EXCEPT ![c][i].phase = "tail"]
    /\ UNCHANGED <<clientVars, account, roomNum, net, replies, buf, loop, todo, sent, got, past>>

\* The check for a SERVICE at the end of getMessage: it looks at what the
\* buffer holds by now.  Only calls for the same connection come where the
\* args of a thread that it starts were.
TailCheck(c, i) ==
    /\ At(c, i, "tail")
    /\ LET k == Idx(c, i)
           next == [threads EXCEPT ![c][i].at = @ + 1, ![c][i].phase = "run"]
       IN  \E service \in SaysService(k) :
             IF service THEN Serve(k, next, "run", loop)
                        ELSE threads' = next /\ UNCHANGED <<ready, loop, got>>
    /\ UNCHANGED <<clientVars, account, roomNum, net, replies, buf, todo, sent, past>>

\* newRoom counts the rooms before it takes the lock, and no more after that;
\* it has no answer when no more room can be created.
CountRooms(c, i) ==
    /\ At(c, i, "run") /\ Step(c, i) = "last" /\ threads[c][i].svc = "newRoom"
    /\ threads' = [threads EXCEPT ![c][i].phase = IF roomNum < MAX_ROOM THEN "making" ELSE "end"]
    /\ UNCHANGED <<clientVars, account, roomNum, net, replies, buf, ready, loop, todo, sent, got, past>>

\* The thread is where it answers: newRoom when it has made its room.
Answering(c, i) ==
    \/ At(c, i, "making")
    \/ /\ At(c, i, "run") /\ Step(c, i) \in {"ask", "last", "room"}
       /\ Step(c, i) = "last" => threads[c][i].svc # "newRoom"

Answers(svc, step) ==
    CASE step = "room"                              -> {"in", "again"}
      [] step = "ask" /\ svc = "connect"            -> {"welcome", "end"}
      [] step = "ask" /\ svc = "joinRoom"           -> {IF roomNum = 0 THEN "end" ELSE "on"}
      [] step = "ask" /\ svc \in {"signup", "login"} -> {"on", "end"}
      [] step = "last" /\ svc = "login"             -> {"welcome", "end"}
      [] step = "last" /\ svc = "signup"            -> {"end"}
      [] step = "last" /\ svc = "newRoom"           -> {"in"}

\* mutant: the thread goes on after an answer that ended the request
MutAfter(th, r) ==
    CASE r = "again" -> [th EXCEPT !.at = @ - 1]
      [] r = "on" \/ (th.svc = "connect" /\ r = "welcome")
           \/ (r = "end" /\ th.svc \in {"signup", "login"} /\ th.at = 2)
         -> [th EXCEPT !.at = @ + 1]
      [] OTHER -> [th EXCEPT !.phase = "end"]

\* mutant: the thread goes on after the last answer of a failed login
MutGoOn(th, r) ==
    CASE r = "again" -> [th EXCEPT !.at = @ - 1]
      [] r = "on" \/ (th.svc = "connect" /\ r = "welcome")
           \/ (th.svc = "login" /\ r = "end" /\ th.at = 4)
         -> [th EXCEPT !.at = @ + 1]
      [] OTHER -> [th EXCEPT !.phase = "end"]

\* After an answer r the thread goes on, back, or has returned.
After(th, r) ==
    CASE r = "again" -> [th EXCEPT !.at = @ - 1]
      [] r = "on" \/ (th.svc = "connect" /\ r = "welcome") -> [th EXCEPT !.at = @ + 1]
      [] OTHER -> [th EXCEPT !.phase = "end"]

Reply(c, i) ==
    /\ Answering(c, i)
    /\ LET k == Idx(c, i)  svc == threads[c][i].svc IN
       \E r \in Answers(svc, Step(c, i)) :
         /\ r = "again" => Len(sent[k]) < MaxSent
         /\ replies' = [replies EXCEPT ![k] = Append(@, r)]
         /\ account' = [account EXCEPT ![k] = @ \/ (svc = "login" /\ r = "welcome")]
         /\ roomNum' = IF svc = "newRoom" THEN roomNum + 1 ELSE roomNum
         /\ threads' = [threads EXCEPT ![c][i] = After(@, r)]
    /\ UNCHANGED <<clientVars, net, buf, ready, loop, todo, sent, got, past>>

\* mutant: newConnection forgets the account
MutSetAccount(c, i) ==
    /\ At(c, i, "run") /\ Step(c, i) = "account"
    /\ threads' = [threads EXCEPT ![c][i].phase = "end"]
    /\ UNCHANGED <<clientVars, account, roomNum, net, replies, buf, ready, loop, todo, sent,
                   got, past>>

\* the end of newConnection
SetAccount(c, i) ==
    /\ At(c, i, "run") /\ Step(c, i) = "account"
    /\ account' = [account EXCEPT ![Idx(c, i)] = TRUE]
    /\ threads' = [threads EXCEPT ![c][i].phase = "end"]
    /\ UNCHANGED <<clientVars, roomNum, net, replies, buf, ready, loop, todo, sent, got, past>>

RunThread(c, i) ==
    Born(c, i) \/ See(c, i) \/ Copy(c, i) \/ Lower(c, i) \/ Clear(c, i) \/ TailCheck(c, i) \/ Reply(c, i)
    \/ CountRooms(c, i) \/ SetAccount(c, i)

-----------------------------------------------------------------------------

Next ==
    /\ loop # "crash"
    /\ Clients \/ Loop \/ \E c \in Slots : \E i \in DOMAIN threads[c] : RunThread(c, i)

Spec == Init /\ [][Next]_vars

\* The threads and the loop run, and a client that waits sees its answer.
\* Nothing makes a player type.
FairSpec ==
    /\ Spec
    /\ WF_vars(loop # "crash" /\ Loop)
    /\ \A k \in Slots : WF_vars(loop # "crash" /\ ClientTake(k))
    /\ \A c \in Slots : \A i \in 1 .. MaxRequests[c] + 1 :
         WF_vars(loop # "crash" /\ i \in DOMAIN threads[c] /\ RunThread(c, i))

-----------------------------------------------------------------------------
(***************************************************************************)
(* Properties.                                                             *)
(***************************************************************************)

MostRequests == CHOOSE n \in {MaxRequests[k] : k \in Slots} : \A k \in Slots : MaxRequests[k] <= n
\* What a client may send
Requests == {m \in [kind : {"service", "message"}, svc : DOMAIN ClientScript, req : 0 .. MostRequests, at : 1 .. 5] :
                /\ m.at \in DOMAIN ClientScript[m.svc]
                /\ m.kind = ClientScript[m.svc][m.at]}
Started == {t \in Slots \X (1 .. 2 * (MostRequests + 1)) : t[2] \in DOMAIN threads[t[1]]}
Live == {t \in Started : ~At(t[1], t[2], "end")}

ClientState == [svc : DOMAIN ClientScript, at : 1 .. 6, req : 0 .. MostRequests]
Phases == {"born", "run", "copy", "lower", "clear", "tail", "making", "end"}
ThreadState == [req : 0 .. MostRequests, svc : Services, idx : Slots, at : 1 .. 4,
                phase : Phases, took : {<<>>} \cup (Slots \X (0 .. MostRequests))]

\* Every variable has its type.
TypeOK ==
    /\ client \in [Slots -> ClientState]
    /\ logged \in [Slots -> BOOLEAN] /\ account \in [Slots -> BOOLEAN]
    /\ net \in [Slots -> Seq(Requests)] /\ buf \in [Slots -> Seq(Requests)]
    /\ replies \in [Slots -> Seq({"on", "end", "again", "in", "welcome"})]
    /\ ready \in [Slots -> {-1, 0, 1}]
    /\ loop \in {"select", "scan", "check", "crash"}
    /\ todo \subseteq Slots /\ (loop \in {"scan", "check"} => todo # {})
    /\ roomNum \in Nat
    /\ threads \in [Slots -> Seq(ThreadState)]
    /\ sent \in [Slots -> Seq(Requests)] /\ got \in [Slots -> Seq(Requests)]
    /\ past \subseteq {"coalesced", "late"}

\* The slots whose number is not a type: their flag is their own.
OwnSlots == Slots \ {CLIENT_MESSAGE}

\* As long as every recv returned one message and every thread read its own
\* args, the unlocked one-message mailboxes and the threads that poll them are
\* a channel: what a client sends is read in order, nothing is lost or
\* overwritten, and no SERVICE is served twice by the check at the end of
\* getMessage, which looks at the buffer after the flag is down.
Fifo == INSTANCE Channel WITH
            Conns    <- OwnSlots,
            Messages <- Requests,
            sent     <- [k \in OwnSlots |-> sent[k]],
            got      <- [k \in OwnSlots |-> got[k]]
Delivered == Fifo!Init /\ [][past' # {} \/ Fifo!Next]_(Fifo!vars)

\* Under the same condition no two threads ever poll the same mailbox.
OneReader ==
    past = {} => \A t, u \in Live : Idx(t[1], t[2]) = Idx(u[1], u[2]) => t = u

\* Under the same condition a thread reads what its client sent for the
\* request the thread serves.
ConversationsApart ==
    past = {} => \A c \in Slots : \A i \in DOMAIN threads[c] :
      threads[c][i].took \in {<<>>, <<c, threads[c][i].req>>}

\* newConnection has welcomed client k and has not set its account.
Welcomed(k) ==
    ~account[k] /\ \E i \in DOMAIN threads[k] : ~At(k, i, "end") /\ Step(k, i) = "account"

\* Under the same condition the server follows the account of a client that
\* has none only in one window: a client that was welcomed on its connection
\* asks for a room before newConnection has set the account (recvMessage.c,
\* 322 and 330).
AccountKnown == past = {} /\ loop = "crash" => \E k \in Slots : Welcomed(k)

\* The loop spins on a message of a changed password: nobody reads those.
HeldUp == loop = "scan" /\ ready[Scanned] = 1 /\ Head(buf[Scanned]).svc = "changePass"

\* What keeps the clients from being served for good
Disturbed == past # {} \/ loop = "crash" \/ []HeldUp

\* What a client has sent is received, but for the disturbances: no mailbox
\* holds up the loop for ever but that of a client that changes its password.
Heard == \A k \in Slots : net[k] # <<>> ~> (net[k] = <<>> \/ Disturbed)

\* newRoom has ended without a word: no more room can be created.
NoRoom(k) ==
    /\ client[k].svc = "newRoom" /\ replies[k] = <<>>
    /\ \E i \in DOMAIN threads[k] : At(k, i, "end") /\ threads[k][i].req = client[k].req

\* Every request whose player has typed what it takes gets its answer, whatever
\* becomes of the client whose flag the others clear: but for a sign-out, which
\* nobody answers, a room too many, and the disturbances.
Answered ==
    \A k \in OwnSlots :
      (Busy(k) /\ Op(k) = "await") ~>
        (~(Busy(k) /\ Op(k) = "await") \/ client[k].svc = "signOut" \/ NoRoom(k) \/ Disturbed)

(***************************************************************************)
(* What comments of the code and the notes beside it say, and the code     *)
(* does not do.                                                            *)
(***************************************************************************)

\* What one recv leaves over is read next (the end of Document/Note): with
\* several messages in the buffer, the first is read again instead.
LeftoverReadNext ==
    \A k \in OwnSlots :
      /\ Len(got[k]) <= Len(sent[k])
      /\ got[k] = SubSeq(sent[k], 1, Len(got[k]))

\* A thread is started with the args of its user ("Prepare user args for
\* thread", server.c): they are gone before it reads them.
OwnArgs == \A t \in Started : ~At(t[1], t[2], "born") => Idx(t[1], t[2]) = t[1]
================================================================================
