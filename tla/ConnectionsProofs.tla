-------------------------- MODULE ConnectionsProofs --------------------------
(***************************************************************************)
(* Theorems about Connections, for every number of slots, connections,     *)
(* quiet clients and requests.                                             *)
(***************************************************************************)
EXTENDS Connections, FiniteSetTheorems, WellFoundedInduction, TLAPS

USE DEF slotVars, vars

\* Where a thread of newConnection has a descriptor, and where it has a slot.
Started == ThreadAt \ {"none", "born", "done"}
Seated == Started \ {"search", "take"}

\* The threads hold what they are going to index with.
Indices ==
    /\ \A n \in Conns : thr[n].pc = "born" => connfd \in Fds
    /\ \A n \in Conns : thr[n].pc \in Started => thr[n].fd \in Fds
    /\ \A n \in Conns : thr[n].pc \in {"take", "load", "store"} => thr[n].i \in Slots
    /\ \A n \in Conns : thr[n].pc = "wait" => thr[n].idx \in Slots
    /\ \A n \in Conns : svc[n].pc \in {"find", "wait", "reply"} => svc[n].k \in Slots
    /\ \A n \in Conns : svc[n].pc = "wait" => svc[n].idx \in Slots
    /\ loop.pc = "recv" => loop.k \in Slots
    /\ loop.pc # "select" => loop.fds \subseteq Fds

\* A connection that is accepted has one descriptor at most, and only those
\* have one: accept, then, finds a descriptor that is free.  And it is not
\* called in vain: nobody else takes a connection that is pending.
Descriptors ==
    /\ \A f \in Fds : own[f] # None => conn[own[f]].st = "accepted"
    /\ \A f, g \in Fds : own[f] = own[g] /\ own[f] # None => f = g
    /\ loop.pc = "listen" /\ loop.listen => Pending # {}

TypeInv == TypeOK /\ Indices /\ Descriptors

\* A thread is the thread of a connection that has been accepted.
Born == \A n \in Conns : thr[n].pc # "none" => conn[n].st = "accepted"

\* What CountIsUsed needs: the count is right, and while no accept has been too
\* early, nobody has searched in vain and there is a slot for all that search.
CountsRight ==
    /\ clientNum + Uncounted = Used
    /\ "crowd" \notin past => "over" \notin past /\ Used + Seeking <= MAX_CLIENT

SlotsLeft == Never({"same", "torn", "twice"}) => CountsRight

SlotOwners ==
    /\ \A k \in Slots : clientConnfd[k] \in Fds =>
          LET n == own[clientConnfd[k]] IN n \in Conns /\ thr[n].i = k /\ thr[n].pc \in Seated \cup {"done"}
    /\ \A n \in Conns : thr[n].pc \in {"search", "take"} => own[thr[n].fd] = n

\* What the loop has still to read has something to read.
LoopReads ==
    /\ \A fd \in loop.fds : \E k \in Slots : clientConnfd[k] = fd
    /\ loop.pc # "select" =>
          \A k \in Slots : k >= loop.k /\ clientConnfd[k] \in loop.fds => Readable(clientConnfd[k])
    /\ loop.pc = "recv" => clientConnfd[loop.k] \in loop.fds
    /\ "badf" \notin past

\* While no client has left its threads behind, a thread's slot is its own
\* client's, and so is the message in it.
ThreadSlots ==
    /\ \A k \in Slots : mail[k] # None => clientConnfd[k] \in Fds /\ own[clientConnfd[k]] = mail[k]
    /\ \A n \in Conns : thr[n].pc \in Seated =>
          /\ thr[n].i \in Slots /\ clientConnfd[thr[n].i] = thr[n].fd /\ own[thr[n].fd] = n
          /\ thr[n].pc = "wait" => thr[n].idx = thr[n].i
    /\ \A n \in Conns : svc[n].pc \in {"find", "wait", "reply"} =>
          /\ clientConnfd[svc[n].k] \in Fds /\ own[clientConnfd[svc[n].k]] = n
          /\ svc[n].pc = "wait" => svc[n].idx = svc[n].k
    /\ "others" \notin past

SlotInv ==
    Never({"late", "same", "twice"}) =>
        /\ SlotOwners /\ LoopReads
        /\ Never({"left", "over"}) => ThreadSlots

-----------------------------------------------------------------------------
\* The lowest of a set of numbers is one of them.
LEMMA FirstIsIn ==
    ASSUME NEW ks \in SUBSET Nat, ks # {}
    PROVE  First(ks) \in ks
<1> DEFINE Less == {ss \in Nat \X Nat : ss[1] < ss[2]}
<1>1. IsWellFoundedOn(Less, Nat)
  BY NatLessThanWellFounded, Zenon DEF OpToRel
<1>2. PICK k \in ks : \A j \in ks : <<j, k>> \notin Less
  BY <1>1, WFMin
<1>3. ASSUME NEW j \in ks PROVE k <= j
  <2>1. j < k => <<j, k>> \in Less
    OBVIOUS
  <2> QED BY <1>2, <2>1
<1> QED BY <1>3 DEF First

LEMMA SlotsFinite ==
    /\ IsFiniteSet(Slots) /\ Cardinality(Slots) = MAX_CLIENT
    /\ IsFiniteSet(Conns) /\ Cardinality(Conns) = MaxConns
    /\ Slots \subseteq Nat /\ Fds \subseteq Nat /\ Conns \subseteq Nat
    /\ -1 \notin Fds /\ None \notin Conns /\ None \notin Slots /\ Out \notin Slots
<1>1. MAX_CLIENT \in Nat /\ MAX_CLIENT >= 1 /\ MaxConns \in Nat /\ MaxConns >= 1
  BY ConnectionsAssumption
<1>2. IsFiniteSet(1 .. MAX_CLIENT) /\ Cardinality(1 .. MAX_CLIENT) = MAX_CLIENT
  BY <1>1, FS_Interval
<1>3. IsFiniteSet(1 .. MaxConns) /\ Cardinality(1 .. MaxConns) = MaxConns
  BY <1>1, FS_Interval
<1> QED BY <1>1, <1>2, <1>3 DEF Slots, Conns, Fds, None, Out

\* A slot that holds a descriptor is found for it.
LEMMA ConnfdIndexFinds ==
    ASSUME NEW fd
    PROVE  /\ ConnfdIndex(fd) \in Slots \cup {None}
           /\ ConnfdIndex(fd) # None => clientConnfd[ConnfdIndex(fd)] = fd
           /\ (\E k \in Slots : clientConnfd[k] = fd) => ConnfdIndex(fd) \in Slots
<1> DEFINE ks == {k \in Slots : clientConnfd[k] = fd}
<1>1. ks \subseteq Nat
  BY SlotsFinite
<1>2. ks # {} => First(ks) \in ks
  BY <1>1, FirstIsIn
<1>3. ConnfdIndex(fd) = IF ks = {} THEN None ELSE First(ks)
  BY DEF ConnfdIndex
<1> QED BY <1>2, <1>3

LEMMA FreeSlotFinds ==
    /\ FreeSlot \in Slots \cup {Out}
    /\ FreeSlots # {} => FreeSlot \in FreeSlots
<1>1. FreeSlots \subseteq Nat
  BY SlotsFinite DEF FreeSlots
<1>2. FreeSlots # {} => First(FreeSlots) \in FreeSlots
  BY <1>1, FirstIsIn
<1> QED BY <1>2 DEF FreeSlot, FreeSlots

\* accept has a descriptor to return.
LEMMA FreeFd ==
    ASSUME TypeInv, Pending # {}
    PROVE  /\ First(Pending) \in Conns /\ conn[First(Pending)].st = "pending"
           /\ LET fd == First({f \in Fds : own[f] = None}) IN fd \in Fds /\ own[fd] = None
<1>1. First(Pending) \in Pending
  BY SlotsFinite, FirstIsIn DEF Pending
<1> DEFINE free == {f \in Fds : own[f] = None}
<1>2. free # {}
  <2> SUFFICES ASSUME free = {} PROVE FALSE
    OBVIOUS
  <2> DEFINE rest == Conns \ {First(Pending)}
  <2>1. own \in [Fds -> rest]
    BY <1>1 DEF TypeInv, TypeOK, Descriptors, Pending
  <2>2. IsFiniteSet(rest) /\ Cardinality(rest) = MaxConns - 1
    BY <1>1, SlotsFinite, FS_RemoveElement DEF Pending
  <2>3. IsFiniteSet(Fds) /\ Cardinality(Fds) = MaxConns
    BY SlotsFinite DEF Fds, Conns
  <2>4. Cardinality(rest) < Cardinality(Fds)
    BY <2>2, <2>3, ConnectionsAssumption
  <2>5. \E f, g \in Fds : f # g /\ own[f] = own[g]
    BY <2>1, <2>2, <2>3, <2>4, FS_PigeonHole
  <2> QED BY <2>1, <2>5, SlotsFinite DEF TypeInv, Descriptors, None, Conns
<1>3. First(free) \in free
  BY <1>2, SlotsFinite, FirstIsIn
<1> QED BY <1>1, <1>3 DEF Pending

-----------------------------------------------------------------------------
LEMMA InitialStates ==
    /\ NewConn \in ClientState /\ [NewConn EXCEPT !.st = "accepted", !.ended = TRUE] \in ClientState
    /\ NewConn.got <= NewConn.sent
    /\ NoLoop \in LoopState
    /\ NoThread \in ThreadState
    /\ NoService \in ServiceState
<1>1. NewConn \in ClientState /\ NewConn.got <= NewConn.sent
  BY DEF NewConn, ClientState
<1>2. [NewConn EXCEPT !.st = "accepted", !.ended = TRUE] \in ClientState
  BY <1>1 DEF ClientState
<1>3. NoLoop \in LoopState
  BY DEF NoLoop, LoopState
<1>4. NoThread \in ThreadState
  BY DEF NoThread, ThreadState, ThreadAt
<1>5. NoService \in ServiceState
  BY DEF NoService, ServiceState
<1> QED BY <1>1, <1>2, <1>3, <1>4, <1>5

LEMMA TypeInit == Init => TypeInv
<1> SUFFICES ASSUME Init PROVE TypeInv
  OBVIOUS
<1>1. clientNum \in Int /\ clientConnfd \in [Slots -> Int]
      /\ \A k \in Slots : clientConnfd[k] \in Fds \cup {-1, QuietFd(k)}
  BY ConnectionsAssumption DEF Init, Slots, QuietFd
<1>2. TypeOK
  BY <1>1, InitialStates DEF Init, TypeOK
<1>3. Indices /\ Descriptors
  BY DEF Init, Indices, Descriptors, Started, NoLoop, NoThread, NoService, None, Pending
<1> QED BY <1>2, <1>3 DEF TypeInv

LEMMA TypeDies ==
    ASSUME TypeInv, NEW why \in {"badf", "garbage", "reset", "pipe"}, Dies(why)
    PROVE  TypeInv'
<1>1. TypeOK'
  <2>1. conn' \in [Conns -> ClientState] /\ \A n \in Conns : conn'[n].got <= conn'[n].sent
    BY InitialStates DEF Dies
  <2>2. /\ up' \in BOOLEAN /\ pipe' \in BOOLEAN
        /\ own' \in [Fds -> Conns \cup {None}] /\ connfd' \in Fds \cup {-1}
    BY DEF Dies
  <2>5. /\ clientConnfd' \in [Slots -> Int] /\ \A k \in Slots : clientConnfd'[k] \in Fds \cup {-1, QuietFd(k)}
        /\ clientNum' \in Int
        /\ mail' \in [Slots -> Conns \cup {None}]
    BY DEF Dies
  <2>3. loop' \in LoopState /\ thr' \in [Conns -> ThreadState] /\ svc' \in [Conns -> ServiceState]
    BY InitialStates DEF Dies
  <2>4. past' \subseteq past \cup {"badf", "garbage", "reset", "pipe"}
    BY DEF Dies
  <2> QED BY <2>1, <2>2, <2>3, <2>4, <2>5 DEF TypeInv, TypeOK
<1>2. Indices' /\ Descriptors'
  BY DEF Dies, Indices, Descriptors, Started, NoLoop, NoThread, NoService, None, Pending
<1> QED BY <1>1, <1>2 DEF TypeInv

LEMMA ClientUpdate ==
    ASSUME TypeOK, NEW n \in Conns, NEW c \in ClientState, c.got <= c.sent,
           conn' = [conn EXCEPT ![n] = c]
    PROVE  conn' \in [Conns -> ClientState] /\ \A m \in Conns : conn'[m].got <= conn'[m].sent
BY DEF TypeOK

LEMMA EndedClient ==
    ASSUME NEW c \in ClientState, c.got <= c.sent
    PROVE  LET e == [c EXCEPT !.ended = TRUE] IN e \in ClientState /\ e.got <= e.sent /\ e.st = c.st
BY DEF ClientState

LEMMA TypeClients ==
    ASSUME TypeInv, NEW n \in Conns, Arrive(n) \/ HangUp(n) \/ SendMessage(n)
    PROVE  TypeInv'
<1> USE DEF TypeInv, TypeOK, Indices, Descriptors, Pending
<1>1. CASE Arrive(n)
  <2>1. conn' \in [Conns -> ClientState] /\ \A m \in Conns : conn'[m].got <= conn'[m].sent
    BY <1>1 DEF Arrive, ClientState
  <2> QED BY <1>1, <2>1 DEF Arrive
<1>2. CASE HangUp(n)
  <2>1. conn' \in [Conns -> ClientState] /\ \A m \in Conns : conn'[m].got <= conn'[m].sent
    <3>1. conn[n] \in ClientState /\ conn[n].got <= conn[n].sent
      OBVIOUS
    <3> QED BY <1>2, <3>1, EndedClient, ClientUpdate DEF HangUp
  <2> QED BY <1>2, <2>1 DEF HangUp
<1>3. CASE SendMessage(n)
  <2>1. conn[n].sent \in 0 .. 2
    BY <1>3 DEF SendMessage, ClientState
  <2>2. conn' \in [Conns -> ClientState] /\ \A m \in Conns : conn'[m].got <= conn'[m].sent
    BY <1>3, <2>1 DEF SendMessage, ClientState
  <2> QED BY <1>3, <2>2 DEF SendMessage
<1> QED BY <1>1, <1>2, <1>3

LEMMA UnconnectType ==
    ASSUME TypeInv, NEW k \in Slots \cup {Out}, Unconnect(k)
    PROVE  /\ own' \in [Fds -> Conns \cup {None}]
           /\ \A f \in Fds : own'[f] = None \/ own'[f] = own[f]
           /\ clientConnfd' \in [Slots -> Int]
           /\ \A j \in Slots : clientConnfd'[j] \in Fds \cup {-1, QuietFd(j)}
           /\ \A j \in Slots : clientConnfd'[j] = IF j = k THEN -1 ELSE clientConnfd[j]
           /\ clientNum' \in Int
<1>1. Out \notin Slots
  BY ConnectionsAssumption DEF Out, Slots
<1> QED BY <1>1 DEF TypeInv, TypeOK, Unconnect, Cleared

LEMMA SendGoesType ==
    ASSUME TypeInv, NEW fd \in Fds, NEW told \in 1 .. 2, SendGoes(fd, told)
    PROVE  /\ conn' \in [Conns -> ClientState] /\ \A n \in Conns : conn'[n].got <= conn'[n].sent
           /\ \A n \in Conns : conn'[n].st = conn[n].st /\ conn'[n].got = conn[n].got
                               /\ conn'[n].sent = conn[n].sent /\ conn'[n].ended = conn[n].ended
<1> DEFINE n == own[fd]
           c == IF conn[n].told = told - 1 THEN [conn[n] EXCEPT !.told = told] ELSE conn[n]
<1>1. n \in Conns
  BY SlotsFinite DEF TypeInv, TypeOK, SendGoes, Open
<1>2. conn[n] \in ClientState /\ conn[n].got <= conn[n].sent
  BY <1>1 DEF TypeInv, TypeOK
<1>3. c \in ClientState /\ c.got <= c.sent /\ c.st = conn[n].st /\ c.got = conn[n].got /\ c.sent = conn[n].sent
      /\ c.ended = conn[n].ended
  BY <1>2 DEF ClientState
<1>4. conn' = [conn EXCEPT ![n] = c]
  BY <1>1, <1>2 DEF SendGoes, TypeInv, TypeOK, ClientState
<1> HIDE DEF c, n
<1> QED BY <1>1, <1>3, <1>4, ClientUpdate DEF TypeInv, TypeOK

LEMMA ThreadUpdate ==
    ASSUME NEW t \in ThreadState, NEW pc \in ThreadAt
    PROVE  /\ \A num \in Int : [t EXCEPT !.pc = pc, !.num = num] \in ThreadState
           /\ \A i \in Slots \cup {Out} : [t EXCEPT !.pc = pc, !.i = i] \in ThreadState
BY DEF ThreadState

\* What the steps of a thread leave of it.
LEMMA ThreadSteps ==
    ASSUME TypeInv, NEW n \in Conns
    PROVE  /\ ReadArgs(n) \/ Search(n) \/ Take(n) \/ LoadNum(n) \/ StoreNum(n) \/ Wake(n) \/ ReadLogin(n)
                 => thr' \in [Conns -> ThreadState]
           /\ [thr EXCEPT ![n].pc = "wake"] \in [Conns -> ThreadState]
           /\ \A k \in Slots : [thr EXCEPT ![n].pc = "wait", ![n].idx = k] \in [Conns -> ThreadState]
           /\ Ends(n) => thr' \in [Conns -> ThreadState]
<1>1. thr \in [Conns -> ThreadState]
  BY DEF TypeInv, TypeOK
<1>2. connfd \in Fds \cup {-1} /\ clientNum \in Int
  BY DEF TypeInv, TypeOK
<1>3. ReadArgs(n) => thr' \in [Conns -> ThreadState]
  <2>1. [thr[n] EXCEPT !.pc = "search", !.fd = connfd] \in ThreadState
    BY <1>1, <1>2 DEF ThreadState, ThreadAt
  <2> QED BY <1>1, <2>1 DEF ReadArgs
<1>4. Search(n) => thr' \in [Conns -> ThreadState]
  <2>1. \A pc \in {"take", "greet"} : [thr[n] EXCEPT !.pc = pc, !.i = FreeSlot] \in ThreadState
    BY <1>1, FreeSlotFinds DEF ThreadState, ThreadAt
  <2> QED BY <1>1, <2>1 DEF Search
<1>5. Take(n) => thr' \in [Conns -> ThreadState]
  BY <1>1 DEF Take, ThreadState, ThreadAt
<1>6. LoadNum(n) => thr' \in [Conns -> ThreadState]
  <2>1. [thr[n] EXCEPT !.pc = "store", !.num = clientNum] \in ThreadState
    BY <1>1, <1>2 DEF ThreadState, ThreadAt
  <2> QED BY <1>1, <2>1 DEF LoadNum
<1>7. StoreNum(n) => thr' \in [Conns -> ThreadState]
  <2>1. "greet" \in ThreadAt /\ 0 \in Int /\ thr[n] \in ThreadState
    BY <1>1 DEF ThreadAt
  <2>2. [thr[n] EXCEPT !.pc = "greet", !.num = 0] \in ThreadState
    BY <2>1, ThreadUpdate
  <2> QED BY <1>1, <2>2 DEF StoreNum
<1>8. Wake(n) \/ ReadLogin(n) => thr' \in [Conns -> ThreadState]
  <2>1. [thr[n] EXCEPT !.pc = "find"] \in ThreadState /\ [thr[n] EXCEPT !.pc = "answer"] \in ThreadState
    BY <1>1 DEF ThreadState, ThreadAt
  <2> QED BY <1>1, <2>1 DEF Wake, ReadLogin
<1>9. [thr EXCEPT ![n].pc = "wake"] \in [Conns -> ThreadState]
  BY <1>1 DEF ThreadState, ThreadAt
<1>10. ASSUME NEW k \in Slots PROVE [thr EXCEPT ![n].pc = "wait", ![n].idx = k] \in [Conns -> ThreadState]
  <2>1. [thr[n] EXCEPT !.pc = "wait", !.idx = k] \in ThreadState
    BY <1>1 DEF ThreadState, ThreadAt
  <2> QED BY <1>1, <2>1
<1>11. Ends(n) => thr' \in [Conns -> ThreadState]
  <2>1. thr[n].i \in Slots \cup {Out}
    BY <1>1 DEF ThreadState
  <2>2. [NoThread EXCEPT !.pc = "done", !.i = thr[n].i] \in ThreadState
    <3>1. "done" \in ThreadAt
      BY DEF ThreadAt
    <3> QED BY <2>1, <3>1, InitialStates, ThreadUpdate
  <2> QED BY <1>1, <2>2 DEF Ends
<1> QED BY <1>3, <1>4, <1>5, <1>6, <1>7, <1>8, <1>9, <1>10, <1>11

LEMMA ServiceSteps ==
    ASSUME TypeInv, NEW n \in Conns, Serving(n), up'
    PROVE  svc' \in [Conns -> ServiceState]
<1>1. svc \in [Conns -> ServiceState]
  BY DEF TypeInv, TypeOK
<1>2. CASE FindSlot(n)
  BY <1>1, <1>2, ConnfdIndexFinds DEF FindSlot, ServiceState
<1>3. CASE ReadText(n)
  BY <1>1, <1>3 DEF ReadText, ServiceState
<1>4. CASE Reply(n)
  BY <1>1, <1>4 DEF Reply, SendPipes, Dies, NoService, ServiceState
<1> QED BY <1>2, <1>3, <1>4 DEF Serving

\* The steps of a thread that change nothing but the thread and the races.
LEMMA TypeOwnSteps ==
    ASSUME TypeInv, NEW n \in Conns, ReadArgs(n) \/ Search(n) \/ LoadNum(n)
    PROVE  TypeInv'
<1> USE DEF TypeInv, TypeOK
<1>1. thr' \in [Conns -> ThreadState] /\ Indices'
  <2>1. CASE ReadArgs(n)
    <3>1. connfd \in Fds
      BY <2>1 DEF ReadArgs, At, Indices
    <3>2. thr' \in [Conns -> ThreadState]
      BY <2>1, <3>1, ThreadSteps
    <3> QED BY <2>1, <3>1, <3>2 DEF ReadArgs, Indices, Started, ThreadAt, ThreadState
  <2>2. CASE Search(n)
    <3>1. thr' \in [Conns -> ThreadState]
      BY <2>2, FreeSlotFinds, ThreadSteps
    <3>2. thr[n].fd \in Fds
      BY <2>2 DEF Search, At, Indices, Started, ThreadAt
    <3> QED BY <2>2, <3>1, <3>2, FreeSlotFinds DEF Search, Indices, Started, ThreadAt, ThreadState
  <2>3. CASE LoadNum(n)
    <3>1. thr' \in [Conns -> ThreadState]
      BY <2>3, ThreadSteps
    <3>2. thr[n].fd \in Fds /\ thr[n].i \in Slots
      BY <2>3 DEF LoadNum, At, Indices, Started, ThreadAt
    <3> QED BY <2>3, <3>1, <3>2 DEF LoadNum, Indices, Started, ThreadAt, ThreadState
  <2> QED BY <2>1, <2>2, <2>3
<1>2. UNCHANGED <<up, conn, own, connfd, slotVars, mail, pipe, loop, svc>> /\ past' \subseteq past \cup {"late", "over"}
  BY DEF ReadArgs, Search, LoadNum
<1>3. Descriptors'
  BY <1>2 DEF Descriptors, Pending
<1> QED BY <1>1, <1>2, <1>3

LEMMA TypeTake ==
    ASSUME TypeInv, NEW n \in Conns, Take(n)
    PROVE  TypeInv'
<1> USE DEF TypeInv, TypeOK
<1>1. thr[n].i \in Slots /\ thr[n].fd \in Fds
  BY DEF Take, At, Indices, Started, ThreadAt
<1>2. clientConnfd' \in [Slots -> Int] /\ \A k \in Slots : clientConnfd'[k] \in Fds \cup {-1, QuietFd(k)}
  BY <1>1, SlotsFinite DEF Take
<1>3. thr' \in [Conns -> ThreadState]
  BY ThreadSteps
<1>4. Indices'
  BY <1>1, <1>3 DEF Take, Indices, Started, ThreadAt, ThreadState
<1>5. Descriptors'
  BY DEF Take, Descriptors, Pending
<1> QED BY <1>2, <1>3, <1>4, <1>5 DEF Take

LEMMA TypeStoreNum ==
    ASSUME TypeInv, NEW n \in Conns, StoreNum(n)
    PROVE  TypeInv'
<1> USE DEF TypeInv, TypeOK
<1>1. thr[n].fd \in Fds
  BY DEF StoreNum, At, Indices, Started, ThreadAt
<1>2. clientNum' \in Int
  BY DEF StoreNum, Counted, ThreadState
<1>3. thr' \in [Conns -> ThreadState]
  BY ThreadSteps
<1>4. Indices'
  BY <1>1, <1>3 DEF StoreNum, Indices, Started, ThreadAt, ThreadState
<1>5. Descriptors'
  BY DEF StoreNum, Descriptors, Pending
<1> QED BY <1>2, <1>3, <1>4, <1>5 DEF StoreNum

LEMMA TypeWake ==
    ASSUME TypeInv, NEW n \in Conns, Wake(n)
    PROVE  TypeInv'
<1> USE DEF TypeInv, TypeOK
<1>1. thr[n].fd \in Fds
  BY DEF Wake, At, Indices, Started, ThreadAt
<1>2. thr' \in [Conns -> ThreadState]
  BY ThreadSteps
<1>3. Indices'
  BY <1>1, <1>2 DEF Wake, Indices, Started, ThreadAt, ThreadState
<1>4. Descriptors'
  BY DEF Wake, Descriptors, Pending
<1>5. pipe' \in BOOLEAN
  BY DEF Wake, Woken
<1> QED BY <1>2, <1>3, <1>4, <1>5 DEF Wake

\* A thread ends with the slot it had; what it closed is closed.
LEMMA TypeEnds ==
    ASSUME TypeInv, NEW n \in Conns, Ends(n),
           UNCHANGED <<own, slotVars, past>> \/ UnconnectAgain(thr[n].i),
           UNCHANGED <<up, connfd, mail, pipe, loop, svc>>,
           conn' \in [Conns -> ClientState], \A m \in Conns : conn'[m].got <= conn'[m].sent,
           \A m \in Conns : conn'[m].st = conn[m].st
    PROVE  TypeInv'
<1> USE DEF TypeInv, TypeOK
<1>1. thr[n].i \in Slots \cup {Out}
  BY DEF ThreadState
<1>2. /\ own' \in [Fds -> Conns \cup {None}]
      /\ \A f \in Fds : own'[f] = None \/ own'[f] = own[f]
      /\ clientConnfd' \in [Slots -> Int]
      /\ \A j \in Slots : clientConnfd'[j] \in Fds \cup {-1, QuietFd(j)}
      /\ clientNum' \in Int
      /\ past' \subseteq past \cup {"twice"}
  BY <1>1, UnconnectType DEF UnconnectAgain
<1>3. thr' \in [Conns -> ThreadState]
  BY <1>1, ThreadSteps
<1>4. Indices'
  BY <1>3 DEF Ends, Indices, Started, ThreadAt, ThreadState, NoThread
<1>5. Descriptors'
  BY <1>2 DEF Descriptors, Pending
<1> QED BY <1>2, <1>3, <1>4, <1>5

LEMMA TypeSends ==
    ASSUME TypeInv, NEW n \in Conns, Greet(n) \/ Answer(n)
    PROVE  TypeInv'
<1> USE DEF TypeInv, TypeOK
<1>1. thr[n].fd \in Fds
  BY DEF Greet, Answer, At, Indices, Started, ThreadAt
<1>2. CASE SendPipes(thr[n].fd)
  BY <1>2, TypeDies DEF SendPipes
<1>3. CASE Ends(n) /\ SendFails(thr[n].fd) /\ UnconnectAgain(thr[n].i) /\ UNCHANGED <<up, conn, connfd, mail, pipe, loop, svc>>
  BY <1>3, TypeEnds
<1>4. CASE Ends(n) /\ SendGoes(thr[n].fd, 2) /\ UNCHANGED <<up, connfd, own, slotVars, past, mail, pipe, loop, svc>>
  BY <1>1, <1>4, TypeEnds, SendGoesType
<1>5. CASE /\ At(n, "greet") /\ SendGoes(thr[n].fd, 1)
           /\ thr' = [thr EXCEPT ![n].pc = "wake"]
           /\ UNCHANGED <<up, own, connfd, slotVars, mail, pipe, loop, svc, past>>
  <2>1. /\ conn' \in [Conns -> ClientState] /\ \A m \in Conns : conn'[m].got <= conn'[m].sent
        /\ \A m \in Conns : conn'[m].st = conn[m].st
    BY <1>1, <1>5, SendGoesType
  <2>2. thr' \in [Conns -> ThreadState]
    BY <1>5, ThreadSteps
  <2>3. Indices'
    BY <1>1, <1>5, <2>2 DEF Indices, Started, ThreadAt, ThreadState
  <2>4. Descriptors'
    BY <1>5, <2>1 DEF Descriptors, Pending
  <2> QED BY <1>5, <2>1, <2>2, <2>3, <2>4
<1> QED BY <1>2, <1>3, <1>4, <1>5 DEF Greet, Answer

LEMMA TypeReads ==
    ASSUME TypeInv, NEW n \in Conns, Find(n) \/ ReadLogin(n)
    PROVE  TypeInv'
<1> USE DEF TypeInv, TypeOK
<1>1. thr[n].fd \in Fds
  BY DEF Find, ReadLogin, At, Indices, Started, ThreadAt
<1> DEFINE k == ConnfdIndex(thr[n].fd)
<1>2. CASE At(n, "find") /\ k = None /\ Dies("garbage")
  BY <1>2, TypeDies
<1>3. CASE /\ At(n, "find") /\ UnconnectAgain(thr[n].i) /\ Ends(n)
           /\ UNCHANGED <<up, conn, connfd, mail, pipe, loop, svc>>
  BY <1>3, TypeEnds
<1>4. CASE /\ At(n, "find") /\ k # None /\ thr' = [thr EXCEPT ![n].pc = "wait", ![n].idx = k]
           /\ UNCHANGED <<up, conn, own, connfd, slotVars, mail, pipe, loop, svc, past>>
  <2>1. k \in Slots
    BY <1>4, ConnfdIndexFinds
  <2>2. thr' \in [Conns -> ThreadState]
    BY <1>4, <2>1, ThreadSteps
  <2>3. Indices'
    BY <1>1, <1>4, <2>1, <2>2 DEF Indices, Started, ThreadAt, ThreadState
  <2>4. Descriptors'
    BY <1>4 DEF Descriptors, Pending
  <2> QED BY <1>4, <2>2, <2>3, <2>4
<1>5. CASE ReadLogin(n)
  <2>1. thr' \in [Conns -> ThreadState]
    BY <1>5, ThreadSteps
  <2>2. Indices'
    BY <1>1, <1>5, <2>1 DEF ReadLogin, Indices, Started, ThreadAt, ThreadState
  <2>3. Descriptors'
    BY <1>5 DEF ReadLogin, Descriptors, Pending
  <2>4. thr[n].idx \in Slots /\ mail' \in [Slots -> Conns \cup {None}] /\ past' \subseteq past \cup {"others"}
    BY <1>5 DEF ReadLogin, At, Indices, Takes, Emptied
  <2> QED BY <1>5, <2>1, <2>2, <2>3, <2>4 DEF ReadLogin
<1> QED BY <1>2, <1>3, <1>4, <1>5 DEF Find

LEMMA TypeServing ==
    ASSUME TypeInv, NEW n \in Conns, Serving(n)
    PROVE  TypeInv'
<1> USE DEF TypeInv, TypeOK
<1>1. svc[n].k \in Slots
  BY DEF Serving, FindSlot, ReadText, Reply, Indices
<1>2. CASE FindSlot(n)
  <2>1. ConnfdIndex(clientConnfd[svc[n].k]) \in Slots
    BY <1>1, ConnfdIndexFinds
  <2>2. svc' \in [Conns -> ServiceState]
    BY <1>2, <2>1, ServiceSteps DEF Serving, FindSlot
  <2>3. Indices'
    BY <1>1, <1>2, <2>1, <2>2 DEF FindSlot, Indices, ServiceState
  <2>4. Descriptors'
    BY <1>2 DEF FindSlot, Descriptors, Pending
  <2> QED BY <1>2, <2>2, <2>3, <2>4 DEF FindSlot
<1>3. CASE ReadText(n)
  <2>1. svc[n].idx \in Slots /\ mail' \in [Slots -> Conns \cup {None}] /\ past' \subseteq past \cup {"others"}
    BY <1>3 DEF ReadText, Indices, Takes, Emptied
  <2>2. svc' \in [Conns -> ServiceState]
    BY <1>3, ServiceSteps DEF Serving, ReadText
  <2>3. Indices'
    BY <1>1, <1>3, <2>2 DEF ReadText, Indices, ServiceState
  <2>4. Descriptors'
    BY <1>3 DEF ReadText, Descriptors, Pending
  <2> QED BY <1>3, <2>1, <2>2, <2>3, <2>4 DEF ReadText
<1>4. CASE Reply(n)
  <2>1. CASE SendPipes(clientConnfd[svc[n].k])
    BY <2>1, TypeDies DEF SendPipes
  <2>2. CASE /\ svc' = [svc EXCEPT ![n] = [NoService EXCEPT !.pc = "done"]]
             /\ UnconnectAgain(svc[n].k) \/ UNCHANGED <<own, slotVars, past>>
             /\ UNCHANGED <<up, conn, connfd, mail, pipe, loop, thr>>
    <3>1. /\ own' \in [Fds -> Conns \cup {None}]
          /\ \A f \in Fds : own'[f] = None \/ own'[f] = own[f]
          /\ clientConnfd' \in [Slots -> Int]
          /\ \A j \in Slots : clientConnfd'[j] \in Fds \cup {-1, QuietFd(j)}
          /\ clientNum' \in Int
          /\ past' \subseteq past \cup {"twice"}
      BY <1>1, <2>2, UnconnectType DEF UnconnectAgain
    <3>2. svc' \in [Conns -> ServiceState]
      BY <2>2 DEF ServiceState, NoService
    <3>3. Indices'
      BY <1>1, <2>2, <3>2 DEF Indices, ServiceState, NoService
    <3>4. Descriptors'
      BY <2>2, <3>1 DEF Descriptors, Pending
    <3> QED BY <2>2, <3>1, <3>2, <3>3, <3>4
  <2> QED BY <1>4, <2>1, <2>2 DEF Reply
<1> QED BY <1>2, <1>3, <1>4 DEF Serving

\* The steps of the loop that change nothing but the loop.
LEMMA TypeSelect ==
    ASSUME TypeInv, Select \/ Scan
    PROVE  TypeInv'
<1>1. loop \in LoopState /\ pipe \in BOOLEAN /\ 1 \in Slots \cup {Out}
  BY ConnectionsAssumption DEF TypeInv, TypeOK, Slots
<1>2. CASE Select
  <2> DEFINE ready == {fd \in loop.fds : Readable(fd)}
  <2>1. ready \subseteq Fds
    BY DEF Readable
  <2>2. loop' \in LoopState
    BY <1>1, <1>2, <2>1 DEF Select, LoopState
  <2>3. Indices'
    BY <1>2, <2>1 DEF TypeInv, Indices, Select
  <2> QED BY <1>2, <2>2, <2>3 DEF Select, TypeInv, TypeOK, Descriptors, Pending
<1>3. CASE Scan
  <2>1. loop.k \in Slots /\ loop.k + 1 \in Slots \cup {Out}
    BY <1>3, ConnectionsAssumption DEF Scan, Slots, Out
  <2>2. [loop EXCEPT !.pc = "recv"] \in LoopState
    BY <1>1 DEF LoopState
  <2>3. [loop EXCEPT !.k = @ + 1] \in LoopState
    BY <1>1, <2>1 DEF LoopState
  <2>4. loop' \in LoopState
    BY <1>3, <2>2, <2>3 DEF Scan
  <2>5. Indices'
    BY <1>1, <1>3, <2>1 DEF TypeInv, Indices, Scan, LoopAt, LoopState
  <2> QED BY <1>3, <2>4, <2>5 DEF Scan, TypeInv, TypeOK, Descriptors, Pending
<1> QED BY <1>2, <1>3

LEMMA TypeSetFds ==
    ASSUME TypeInv, SetFds
    PROVE  TypeInv'
<1> DEFINE fds == {clientConnfd[k] : k \in Slots} \ {-1}
<1>1. fds \subseteq Fds \cup {QuietFd(k) : k \in Slots}
  BY DEF TypeInv, TypeOK
<1>2. CASE Dies("badf")
  BY <1>2, TypeDies
<1>3. CASE loop' = [NoLoop EXCEPT !.pc = "select", !.fds = fds] /\ UNCHANGED <<up, conn, own, connfd, slotVars, mail, pipe, thr, svc, past>>
  <2>1. loop' \in LoopState
    BY <1>1, <1>3 DEF NoLoop, LoopState
  <2>2. Indices'
    BY <1>3 DEF TypeInv, Indices, NoLoop
  <2> QED BY <1>3, <2>1, <2>2 DEF TypeInv, TypeOK, Descriptors, Pending
<1> QED BY <1>2, <1>3 DEF SetFds

LEMMA TypeAccept ==
    ASSUME TypeInv, Accept
    PROVE  TypeInv'
<1>1. CASE loop' = NoLoop /\ UNCHANGED <<conn, own, connfd, pipe, thr, past>> /\ UNCHANGED <<up, slotVars, mail, svc>>
  <2>1. Indices'
    BY <1>1 DEF TypeInv, Indices, NoLoop
  <2> QED BY <1>1, <2>1, InitialStates DEF TypeInv, TypeOK, Descriptors, Pending, NoLoop
<1> DEFINE next == [loop EXCEPT !.pc = "scan", !.listen = FALSE, !.pipe = FALSE]
<1>2. /\ next \in LoopState /\ next.pc = "scan" /\ (loop.pc # "select" => next.fds \subseteq Fds)
      /\ (pipe /\ ~loop.pipe) \in BOOLEAN
  <2>1. loop \in LoopState
    BY DEF TypeInv, TypeOK
  <2>2. next \in LoopState
    BY <2>1 DEF LoopState
  <2>3. next.pc = "scan" /\ next.fds = loop.fds
    BY <2>1 DEF LoopState
  <2> QED BY <2>2, <2>3 DEF TypeInv, Indices
<1>3. CASE /\ LoopAt("listen") /\ loop' = next /\ pipe' = (pipe /\ ~loop.pipe)
           /\ UNCHANGED <<conn, own, connfd, thr, past>> /\ UNCHANGED <<up, slotVars, mail, svc>>
  <2>1. Indices'
    BY <1>2, <1>3 DEF TypeInv, Indices, LoopAt
  <2> QED BY <1>2, <1>3, <2>1 DEF TypeInv, TypeOK, Descriptors, Pending
<1> DEFINE n == First(Pending)
           fd == First({f \in Fds : own[f] = None})
<1>4. CASE /\ Pending # {}
           /\ LoopAt("listen") /\ loop' = next /\ pipe' = (pipe /\ ~loop.pipe)
           /\ conn' = [conn EXCEPT ![n].st = "accepted"] /\ own' = [own EXCEPT ![fd] = n] /\ connfd' = fd
           /\ thr' = [thr EXCEPT ![n].pc = "born"] /\ past' \subseteq past \cup {"crowd"}
           /\ UNCHANGED <<up, slotVars, mail, svc>>
  <2>1. n \in Conns /\ conn[n].st = "pending" /\ fd \in Fds /\ own[fd] = None
    BY <1>4, FreeFd
  <2> HIDE DEF n, fd, next
  <2>2. conn \in [Conns -> ClientState] /\ thr \in [Conns -> ThreadState]
    BY DEF TypeInv, TypeOK
  <2>3. /\ conn' \in [Conns -> ClientState] /\ \A m \in Conns : conn'[m].got <= conn'[m].sent
        /\ conn'[n].st = "accepted" /\ \A m \in Conns \ {n} : conn'[m] = conn[m]
    <3>1. LET c == [conn[n] EXCEPT !.st = "accepted"] IN
             c \in ClientState /\ c.st = "accepted" /\ c.got = conn[n].got /\ c.sent = conn[n].sent
      BY <2>1, <2>2 DEF ClientState
    <3>2. conn[n].got <= conn[n].sent
      BY <2>1 DEF TypeInv, TypeOK
    <3> QED BY <1>4, <2>1, <2>2, <3>1, <3>2, ClientUpdate DEF TypeInv
  <2>4. thr' \in [Conns -> ThreadState]
    BY <1>4, <2>1, <2>2 DEF ThreadState, ThreadAt
  <2>5. TypeOK'
    BY <1>2, <1>4, <2>1, <2>3, <2>4 DEF TypeInv, TypeOK
  <2>6. Indices'
    BY <1>2, <1>4, <2>1, <2>2 DEF TypeInv, Indices, LoopAt, ThreadState, ThreadAt, Started
  <2>7. Descriptors'
    BY <1>2, <1>4, <2>1, <2>3 DEF TypeInv, TypeOK, Descriptors, Pending
  <2> QED BY <2>5, <2>6, <2>7 DEF TypeInv
<1>5. LoopAt("listen") /\ loop.listen => Pending # {}
  BY DEF LoopAt, TypeInv, Descriptors, Pending
<1> QED
  BY <1>1, <1>3, <1>4, <1>5 DEF Accept

\* recv at a slot whose descriptor is readable: the end of a client, or its
\* next message.
LEMMA RecvCases ==
    ASSUME TypeInv, Recv, up'
    PROVE  LET k == loop.k
               fd == clientConnfd[k]
               n == own[fd]
           IN  /\ k \in Slots /\ fd \in Fds /\ n \in Conns /\ Readable(fd) /\ mail[k] = None
               /\ k + 1 \in Slots \cup {Out}
               /\ UNCHANGED <<up, connfd, pipe, thr>>
               /\ loop' = [loop EXCEPT !.pc = "scan", !.k = @ + 1, !.fds = IF Ended(conn[n]) THEN @ \ {fd} ELSE @]
               /\ \/ /\ Ended(conn[n]) /\ Unconnect(k)
                     /\ conn' = [conn EXCEPT ![n] = [NewConn EXCEPT !.st = "accepted", !.ended = TRUE]]
                     /\ past' = IF AtSlot(k) THEN past \cup {"left"} ELSE past
                     /\ UNCHANGED <<mail, svc>>
                  \/ /\ ~Ended(conn[n]) /\ conn[n].got < conn[n].sent
                     /\ conn' = [conn EXCEPT ![n].got = conn[n].got + 1]
                     /\ \/ mail' = [mail EXCEPT ![k] = n] /\ svc' = svc
                        \/ mail' = mail /\ svc' = [svc EXCEPT ![n].pc = "find", ![n].k = k]
                     /\ UNCHANGED <<own, slotVars, past>>
<1>1. loop.k \in Slots
  BY Zenon DEF TypeInv, Indices, Recv, LoopAt
<1>2. loop.k + 1 \in Slots \cup {Out}
  BY <1>1, ConnectionsAssumption DEF Slots, Out
<1>3. Readable(clientConnfd[loop.k])
  BY DEF Recv, Dies
<1>4. clientConnfd[loop.k] \in Fds /\ own[clientConnfd[loop.k]] \in Conns
  BY <1>3 DEF Readable, Open, TypeInv, TypeOK
<1>5. LET c == conn[own[clientConnfd[loop.k]]] IN ~Ended(c) => c.got < c.sent
  <2>1. conn[own[clientConnfd[loop.k]]] \in ClientState
    BY <1>4 DEF TypeInv, TypeOK
  <2>2. conn[own[clientConnfd[loop.k]]].got < conn[own[clientConnfd[loop.k]]].sent \/ conn[own[clientConnfd[loop.k]]].ended
    BY <1>3 DEF Readable
  <2> QED BY <1>4, <2>1, <2>2 DEF TypeInv, TypeOK, Ended, ClientState
<1> QED BY <1>1, <1>2, <1>3, <1>4, <1>5, Zenon DEF Recv, Dies

LEMMA TypeRecv ==
    ASSUME TypeInv, Recv
    PROVE  TypeInv'
<1>1. CASE \E why \in {"badf", "reset"} : Dies(why)
  BY <1>1, TypeDies
<1>2. CASE up'
  <2> DEFINE k == loop.k
             fd == clientConnfd[k]
             n == own[fd]
  <2>1. /\ k \in Slots /\ fd \in Fds /\ n \in Conns /\ k + 1 \in Slots \cup {Out}
        /\ UNCHANGED <<up, connfd, pipe, thr>>
    BY <1>2, RecvCases, Zenon
  <2>2. loop' \in LoopState /\ loop'.pc = "scan" /\ loop'.fds \subseteq Fds
    <3>1. loop \in LoopState /\ loop.fds \subseteq Fds
      BY Zenon DEF TypeInv, TypeOK, Indices, Recv, LoopAt
    <3>2. loop' = [loop EXCEPT !.pc = "scan", !.k = @ + 1, !.fds = IF Ended(conn[n]) THEN @ \ {fd} ELSE @]
      BY <1>2, RecvCases, Zenon
    <3> QED BY <2>1, <3>1, <3>2 DEF LoopState
  <2>3. CASE /\ Ended(conn[n]) /\ Unconnect(k)
             /\ conn' = [conn EXCEPT ![n] = [NewConn EXCEPT !.st = "accepted", !.ended = TRUE]]
             /\ past' = IF AtSlot(k) THEN past \cup {"left"} ELSE past
             /\ UNCHANGED <<mail, svc>>
    <3>1. LET c == [NewConn EXCEPT !.st = "accepted", !.ended = TRUE] IN c.st = "accepted" /\ c.got <= c.sent
      BY DEF NewConn
    <3>2. /\ conn' \in [Conns -> ClientState] /\ \A m \in Conns : conn'[m].got <= conn'[m].sent
          /\ conn'[n].st = "accepted" /\ \A m \in Conns \ {n} : conn'[m] = conn[m]
      BY <2>1, <2>3, <3>1, InitialStates, ClientUpdate DEF TypeInv, TypeOK
    <3>3. /\ own' \in [Fds -> Conns \cup {None}]
          /\ \A f \in Fds : own'[f] = None \/ own'[f] = own[f]
          /\ clientConnfd' \in [Slots -> Int]
          /\ \A j \in Slots : clientConnfd'[j] \in Fds \cup {-1, QuietFd(j)}
          /\ clientNum' \in Int
      BY <2>1, <2>3, UnconnectType
    <3>4. past' \subseteq past \cup {"left"}
      BY <2>3
    <3>5. Indices'
      BY <2>1, <2>2, <2>3 DEF TypeInv, Indices
    <3> HIDE DEF k, fd, n
    <3> QED BY <2>1, <2>2, <2>3, <3>2, <3>3, <3>4, <3>5 DEF TypeInv, TypeOK, Descriptors
  <2>4. CASE /\ ~Ended(conn[n]) /\ conn[n].got < conn[n].sent
             /\ conn' = [conn EXCEPT ![n].got = conn[n].got + 1]
             /\ \/ mail' = [mail EXCEPT ![k] = n] /\ svc' = svc
                \/ mail' = mail /\ svc' = [svc EXCEPT ![n].pc = "find", ![n].k = k]
             /\ UNCHANGED <<own, slotVars, past>>
    <3>1. conn[n] \in ClientState /\ svc \in [Conns -> ServiceState]
      BY <2>1 DEF TypeInv, TypeOK
    <3>2. /\ conn' \in [Conns -> ClientState] /\ \A m \in Conns : conn'[m].got <= conn'[m].sent
          /\ \A m \in Conns : conn'[m].st = conn[m].st
      <4>0. conn[n].got + 1 \in 0 .. 3 /\ conn[n].got + 1 <= conn[n].sent
        BY <2>4, <3>1, <2>1 DEF ClientState
      <4>1. LET c == [conn[n] EXCEPT !.got = conn[n].got + 1] IN
               c \in ClientState /\ c.st = conn[n].st /\ c.got <= c.sent
        BY <4>0, <3>1 DEF ClientState
      <4> QED BY <2>1, <2>4, <4>1, ClientUpdate, ZenonT(30) DEF TypeInv, TypeOK
    <3>3. svc' \in [Conns -> ServiceState]
      <4>1. [svc[n] EXCEPT !.pc = "find", !.k = k] \in ServiceState
        BY <2>1, <3>1 DEF ServiceState
      <4> QED BY <2>1, <2>4, <3>1, <4>1
    <3>4. mail' \in [Slots -> Conns \cup {None}]
      BY <2>1, <2>4 DEF TypeInv, TypeOK
    <3>5. Indices'
      BY <2>1, <2>2, <2>4, <3>1 DEF TypeInv, Indices, ServiceState
    <3>6. Descriptors'
      BY <2>2, <2>4, <3>2, ZenonT(30) DEF TypeInv, TypeOK, Descriptors
    <3> HIDE DEF k, fd, n
    <3> QED BY <2>1, <2>2, <2>4, <3>2, <3>3, <3>4, <3>5, <3>6 DEF TypeInv, TypeOK
  <2> QED BY <1>2, <2>3, <2>4, RecvCases, Zenon
<1> QED BY <1>1, <1>2, Zenon DEF Recv, LoopAt

LEMMA TypeNext == TypeInv /\ [Next]_vars => TypeInv'
<1> SUFFICES ASSUME TypeInv, [Next]_vars PROVE TypeInv'
  OBVIOUS
<1>1. CASE Loop
  BY <1>1, TypeSelect, TypeSetFds, TypeAccept, TypeRecv DEF Loop
<1>2. CASE \E n \in Conns : Arrive(n) \/ SendMessage(n) \/ HangUp(n)
  BY <1>2, TypeClients
<1>3. CASE \E n \in Conns : Connecting(n)
  BY <1>3, TypeOwnSteps, TypeTake, TypeStoreNum, TypeWake, TypeSends, TypeReads DEF Connecting
<1>4. CASE \E n \in Conns : Serving(n)
  BY <1>4, TypeServing
<1>5. CASE UNCHANGED vars
  BY <1>5 DEF TypeInv, TypeOK, Indices, Descriptors, Pending
<1> QED BY <1>1, <1>2, <1>3, <1>4, <1>5 DEF Next

\* What a step that lets the server go on does to the others' clients and threads.
LEMMA AcceptedKept ==
    ASSUME TypeInv, Next, up', ~Accept
    PROVE  /\ \A n \in Conns : conn[n].st = "accepted" => conn'[n].st = "accepted"
           /\ \A n \in Conns : thr'[n].pc # "none" => thr[n].pc # "none"
<1>1. conn \in [Conns -> ClientState] /\ thr \in [Conns -> ThreadState]
  BY DEF TypeInv, TypeOK
<1>2. CASE UNCHANGED <<conn, thr>>
  BY <1>2
<1>3. CASE Recv
  <2> DEFINE n == own[clientConnfd[loop.k]]
             left == [NewConn EXCEPT !.st = "accepted", !.ended = TRUE]
             read == [conn[n] EXCEPT !.got = conn[n].got + 1]
  <2>1. n \in Conns /\ thr' = thr /\ (conn' = [conn EXCEPT ![n] = left] \/ conn' = [conn EXCEPT ![n] = read])
    BY <1>3, RecvCases, Zenon
  <2>2. left.st = "accepted" /\ read.st = conn[n].st
    BY <1>1, <2>1 DEF NewConn, ClientState
  <2> HIDE DEF n, left, read
  <2> QED BY <1>1, <2>1, <2>2
<1>4. CASE \E n \in Conns : Arrive(n) \/ SendMessage(n) \/ HangUp(n)
  <2>1. PICK n \in Conns : Arrive(n) \/ SendMessage(n) \/ HangUp(n)
    BY <1>4
  <2>2. /\ [conn[n] EXCEPT !.ended = TRUE].st = conn[n].st
        /\ [conn[n] EXCEPT !.sent = @ + 1].st = conn[n].st
    BY <1>1 DEF ClientState
  <2> QED BY <1>1, <2>1, <2>2 DEF Arrive, SendMessage, HangUp
<1>5. CASE \E n \in Conns : Connecting(n)
  <2>1. PICK n \in Conns : Connecting(n)
    BY <1>5
  <2>2. /\ \A m \in Conns \ {n} : thr'[m] = thr[m]
        /\ thr[n].pc # "none"
    BY <1>1, <2>1 DEF Connecting, ReadArgs, Search, Take, LoadNum, StoreNum, Greet, Wake, Find, ReadLogin, Answer,
           SendPipes, Dies, Ends, At
  <2>3. thr[n].pc \in {"greet", "answer"} => thr[n].fd \in Fds
    BY DEF TypeInv, Indices, Started, ThreadAt
  <2>4. conn' = conn \/ \A m \in Conns : conn'[m].st = conn[m].st
    <3>1. CASE Greet(n)
      BY <2>3, <3>1, SendGoesType DEF Greet, At, SendPipes, Dies
    <3>2. CASE Answer(n)
      BY <2>3, <3>2, SendGoesType DEF Answer, At, SendPipes, Dies
    <3>3. CASE ~(Greet(n) \/ Answer(n))
      BY <2>1, <3>3 DEF Connecting, ReadArgs, Search, Take, LoadNum, StoreNum, Wake, Find, ReadLogin, Dies
    <3> QED BY <3>1, <3>2, <3>3
  <2> QED BY <2>2, <2>4
<1> QED
  BY <1>2, <1>3, <1>4, <1>5
     DEF Next, Loop, Select, SetFds, Scan, Serving, FindSlot, ReadText, Reply, SendPipes, Dies

\* The server goes on, or ends for one of its reasons.
LEMMA DiesOrNot ==
    ASSUME Next, ~up'
    PROVE  \E why \in {"badf", "garbage", "reset", "pipe"} : Dies(why)
BY Zenon DEF Next, Loop, Select, SetFds, Scan, Recv, Accept, LoopAt, Arrive, SendMessage, HangUp, Connecting, ReadArgs, Search,
       Take, LoadNum, StoreNum, Greet, Wake, Find, ReadLogin, Answer, At, SendPipes,
       Serving, FindSlot, ReadText, Reply

LEMMA BornNext == TypeInv /\ Born /\ [Next]_vars => Born'
<1> SUFFICES ASSUME TypeInv, Born, [Next]_vars PROVE Born'
  OBVIOUS
<1>1. CASE UNCHANGED vars
  BY <1>1 DEF Born
<1>2. CASE Accept
  <2>1. conn \in [Conns -> ClientState] /\ thr \in [Conns -> ThreadState]
    BY DEF TypeInv, TypeOK
  <2>2. LoopAt("listen") /\ loop.listen => Pending # {}
    BY DEF LoopAt, TypeInv, Descriptors
  <2> DEFINE n == First(Pending)
  <2>3. CASE UNCHANGED <<conn, thr>>
    BY <2>3 DEF Born
  <2>4. CASE /\ Pending # {}
             /\ conn' = [conn EXCEPT ![n].st = "accepted"]
             /\ thr' = [thr EXCEPT ![n].pc = "born"]
    <3>1. n \in Conns
      BY <2>4, FreeFd
    <3>2. [conn[n] EXCEPT !.st = "accepted"].st = "accepted"
      BY <2>1, <3>1 DEF ClientState
    <3> HIDE DEF n
    <3> QED BY <2>1, <2>4, <3>1, <3>2 DEF Born
  <2> QED BY <1>2, <2>2, <2>3, <2>4 DEF Accept
<1>3. CASE ~up' /\ Next
  <2>1. \E why \in {"badf", "garbage", "reset", "pipe"} : Dies(why)
    BY <1>3, DiesOrNot
  <2> QED BY <2>1 DEF Dies, NoThread, Born
<1>4. CASE up' /\ Next /\ ~Accept
  BY <1>4, AcceptedKept DEF Born
<1> QED BY <1>1, <1>2, <1>3, <1>4

LEMMA TypeInvariant == Spec => [](TypeInv /\ Born)
<1>1. Init => Born
  BY DEF Init, Born, NoThread
<1> QED BY <1>1, TypeInit, TypeNext, BornNext, PTL DEF Spec

\* The state of every part of the server has its type: among others, a thread
\* that indexes clientConnfd or the mailboxes has a slot to do it with, and
\* clientNum is an integer that nothing bounds from below.
THEOREM TypeCorrect == Spec => []TypeOK
<1>1. TypeInv => TypeOK
  BY DEF TypeInv
<1> QED BY <1>1, TypeInvariant, PTL

-----------------------------------------------------------------------------
\* The threads that will write to the pipe
Waking == {"load", "store", "greet", "wake"}

\* A thread that is going to wake the loop up keeps its slot covered, or wakes
\* it up, or closes the slot.
LEMMA WokenConnecting ==
    ASSUME TypeInv, WokenUp, NEW n \in Conns, Connecting(n), up'
    PROVE  WokenUp'
<1>1. /\ loop' = loop /\ (pipe => pipe')
      /\ \A m \in Conns \ {n} : thr'[m] = thr[m]
  BY DEF Connecting, ReadArgs, Search, Take, LoadNum, StoreNum, Greet, Wake, Find, ReadLogin, Answer,
         SendPipes, Dies, Ends, Woken, TypeInv, TypeOK
<1>0. up
  BY DEF Connecting, ReadArgs, Search, Take, LoadNum, StoreNum, Greet, Wake, Find, ReadLogin, Answer, At
<1>2. ASSUME UNCHANGED clientConnfd, thr[n].pc \notin Waking \/ (thr'[n].i = thr[n].i /\ thr'[n].pc \in Waking)
      PROVE  WokenUp'
  BY <1>0, <1>1, <1>2 DEF Waking, WokenUp
<1>3. ASSUME UnconnectAgain(thr[n].i)
      PROVE  WokenUp'
  <2>1. thr[n].i \in Slots \cup {Out}
    BY DEF TypeInv, TypeOK, ThreadState
  <2>2. \A k \in Slots : clientConnfd'[k] # -1 => clientConnfd'[k] = clientConnfd[k] /\ k # thr[n].i
    BY <1>3, <2>1, UnconnectType DEF UnconnectAgain
  <2> QED BY <1>0, <1>1, <2>2 DEF WokenUp
<1> USE DEF WokenUp
<1>4. CASE Take(n)
  <2>1. thr[n].i \in Slots /\ thr'[n].i = thr[n].i /\ thr'[n].pc = "load" /\ up
    BY <1>4 DEF Take, At, TypeInv, TypeOK, Indices, ThreadState
  <2>2. \A k \in Slots : k # thr[n].i => clientConnfd'[k] = clientConnfd[k]
    BY <1>4 DEF Take, TypeInv, TypeOK
  <2> QED BY <1>1, <1>4, <2>1, <2>2 DEF Take, At
<1>5. CASE Wake(n)
  BY <1>5 DEF Wake, Woken
<1>6. CASE ReadArgs(n) \/ Search(n) \/ ReadLogin(n)
  <2>1. UNCHANGED clientConnfd /\ thr[n].pc \notin Waking
    BY <1>6 DEF ReadArgs, Search, ReadLogin, At, Waking
  <2> QED BY <1>2, <2>1
<1>7. CASE LoadNum(n) \/ StoreNum(n)
  <2>1. thr \in [Conns -> ThreadState]
    BY DEF TypeInv, TypeOK
  <2>2. UNCHANGED clientConnfd /\ thr'[n].i = thr[n].i /\ thr'[n].pc \in Waking
    <3>1. CASE LoadNum(n)
      BY <2>1, <3>1 DEF LoadNum, Waking, ThreadState
    <3>2. CASE StoreNum(n)
      BY <2>1, <3>2 DEF StoreNum, Waking, ThreadState
    <3> QED BY <1>7, <3>1, <3>2
  <2> QED BY <1>2, <2>2
<1>8. CASE Greet(n)
  <2>1. CASE UnconnectAgain(thr[n].i)
    BY <1>3, <2>1
  <2>2. CASE thr' = [thr EXCEPT ![n].pc = "wake"] /\ UNCHANGED clientConnfd
    <3>1. thr'[n].i = thr[n].i /\ thr'[n].pc \in Waking
      BY <2>2 DEF Waking, TypeInv, TypeOK, ThreadState
    <3> QED BY <1>2, <2>2, <3>1
  <2> QED BY <1>8, <2>1, <2>2 DEF Greet, SendPipes, Dies
<1>9. CASE Find(n) \/ Answer(n)
  <2>1. CASE UnconnectAgain(thr[n].i)
    BY <1>3, <2>1
  <2>2. CASE UNCHANGED clientConnfd
    BY <1>2, <1>9, <2>2 DEF Find, Answer, At, Waking
  <2> QED BY <1>9, <2>1, <2>2 DEF Find, Answer, SendPipes, Dies
<1> QED BY <1>4, <1>5, <1>6, <1>7, <1>8, <1>9 DEF Connecting

LEMMA WokenServing ==
    ASSUME TypeInv, WokenUp, NEW n \in Conns, Serving(n), up'
    PROVE  WokenUp'
<1>1. UNCHANGED <<loop, pipe, thr>> /\ up
  BY DEF Serving, FindSlot, ReadText, Reply, SendPipes, Dies
<1>2. \A k \in Slots : clientConnfd'[k] # -1 => clientConnfd'[k] = clientConnfd[k]
  <2>1. CASE UnconnectAgain(svc[n].k)
    <3>1. svc[n].k \in Slots
      BY DEF Serving, FindSlot, ReadText, Reply, TypeInv, Indices
    <3> QED BY <2>1, <3>1, UnconnectType DEF UnconnectAgain
  <2>2. CASE UNCHANGED clientConnfd
    BY <2>2
  <2> QED BY <2>1, <2>2 DEF Serving, FindSlot, ReadText, Reply, SendPipes, Dies
<1> QED BY <1>1, <1>2 DEF WokenUp

LEMMA WokenLoop ==
    ASSUME TypeInv, Loop, up'
    PROVE  WokenUp'
<1>1. CASE SetFds
  <2>1. \A k \in Slots : clientConnfd'[k] # -1 => clientConnfd'[k] \in loop'.fds
    <3>1. /\ loop' = [NoLoop EXCEPT !.pc = "select", !.fds = {clientConnfd[k] : k \in Slots} \ {-1}]
          /\ clientConnfd' = clientConnfd
      BY <1>1 DEF SetFds, Dies
    <3> QED BY <3>1 DEF NoLoop
  <2> QED BY <2>1 DEF WokenUp
<1>2. CASE Select \/ Accept \/ Scan \/ Recv
  <2>1. loop \in LoopState
    BY DEF TypeInv, TypeOK
  <2>2. CASE Select
    BY <2>2 DEF Select, WokenUp
  <2>3. CASE Accept
    <3>1. loop' = NoLoop \/ loop' = [loop EXCEPT !.pc = "scan", !.listen = FALSE, !.pipe = FALSE]
      BY <2>3 DEF Accept
    <3>2. NoLoop.pc = "scan"
      BY DEF NoLoop
    <3>3. [loop EXCEPT !.pc = "scan", !.listen = FALSE, !.pipe = FALSE].pc = "scan"
      BY <2>1 DEF LoopState
    <3>4. loop'.pc = "scan"
      BY <3>1, <3>2, <3>3
    <3> QED BY <3>4 DEF WokenUp
  <2>4. CASE Scan
    BY <2>1, <2>4 DEF Scan, LoopAt, LoopState, WokenUp
  <2>5. CASE Recv
    BY <2>1, <2>5, RecvCases DEF LoopState, WokenUp
  <2> QED BY <1>2, <2>2, <2>3, <2>4, <2>5
<1> QED BY <1>1, <1>2 DEF Loop

\* The loop never sleeps without the descriptor of a slot, and with nobody to
\* wake it up: the pipe is written, or the slot's thread has still to write,
\* whatever the interleaving of recv_message, the threads of newConnection and
\* those of the requests, damaged slots included.
THEOREM NeverAsleep == Spec => []WokenUp
<1>1. Init => WokenUp
  BY DEF Init, WokenUp, NoLoop
<1>2. TypeInv /\ WokenUp /\ [Next]_vars => WokenUp'
  <2> SUFFICES ASSUME TypeInv, WokenUp, [Next]_vars PROVE WokenUp'
    OBVIOUS
  <2>1. CASE ~ up'
    BY <2>1 DEF WokenUp
  <2>2. CASE up' /\ Loop
    BY <2>2, WokenLoop
  <2>3. CASE \E n \in Conns : Arrive(n) \/ SendMessage(n) \/ HangUp(n)
    <3>1. UNCHANGED <<up, slotVars, loop, pipe, thr>>
      BY <2>3 DEF Arrive, SendMessage, HangUp
    <3> QED BY <3>1 DEF WokenUp
  <2>4. CASE up' /\ \E n \in Conns : Connecting(n)
    BY <2>4, WokenConnecting
  <2>5. CASE up' /\ \E n \in Conns : Serving(n)
    BY <2>5, WokenServing
  <2>6. CASE UNCHANGED vars
    BY <2>6 DEF WokenUp
  <2> QED BY <2>1, <2>2, <2>3, <2>4, <2>5, <2>6 DEF Next
<1> QED BY <1>1, <1>2, TypeInvariant, PTL DEF Spec

-----------------------------------------------------------------------------
\* What the counters count
UsedSlots == {k \in Slots : clientConnfd[k] # -1}
CountingThreads == {n \in Conns : thr[n].pc \in {"load", "store"}}
SeekingThreads == {n \in Conns : thr[n].pc \in {"born", "search", "take"}}

LEMMA Counters ==
    /\ IsFiniteSet(UsedSlots) /\ Used = Cardinality(UsedSlots) /\ Used \in Nat /\ Used <= MAX_CLIENT
    /\ (Used = MAX_CLIENT => UsedSlots = Slots)
    /\ IsFiniteSet(CountingThreads) /\ Uncounted = Cardinality(CountingThreads) /\ Uncounted \in Nat
    /\ IsFiniteSet(SeekingThreads) /\ Seeking = Cardinality(SeekingThreads) /\ Seeking \in Nat
<1>1. UsedSlots \in SUBSET Slots /\ CountingThreads \in SUBSET Conns /\ SeekingThreads \in SUBSET Conns
  BY DEF UsedSlots, CountingThreads, SeekingThreads
<1>2. IsFiniteSet(UsedSlots) /\ Cardinality(UsedSlots) <= MAX_CLIENT /\ (Cardinality(UsedSlots) = MAX_CLIENT => UsedSlots = Slots)
  BY <1>1, SlotsFinite, FS_Subset
<1>3. IsFiniteSet(CountingThreads) /\ IsFiniteSet(SeekingThreads)
  BY <1>1, SlotsFinite, FS_Subset
<1>4. MAX_CLIENT \in Nat
  BY ConnectionsAssumption
<1> QED
  BY <1>2, <1>3, <1>4, FS_CardinalityType DEF UsedSlots, CountingThreads, SeekingThreads, Used, Uncounted, Seeking

\* How a step of one thread changes the counts of threads.
LEMMA ThreadCounts ==
    ASSUME TypeInv, TypeInv', NEW n \in Conns, \A m \in Conns \ {n} : thr'[m] = thr[m]
    PROVE  /\ Seeking' = Seeking + (IF n \in SeekingThreads' \ SeekingThreads THEN 1
                                    ELSE IF n \in SeekingThreads \ SeekingThreads' THEN -1 ELSE 0)
           /\ Uncounted' = Uncounted + (IF n \in CountingThreads' \ CountingThreads THEN 1
                                        ELSE IF n \in CountingThreads \ CountingThreads' THEN -1 ELSE 0)
<1>1. SeekingThreads' = IF n \in SeekingThreads' THEN SeekingThreads \cup {n} ELSE SeekingThreads \ {n}
  BY DEF SeekingThreads
<1>2. CountingThreads' = IF n \in CountingThreads' THEN CountingThreads \cup {n} ELSE CountingThreads \ {n}
  BY DEF CountingThreads
<1>3. /\ IsFiniteSet(SeekingThreads) /\ Seeking = Cardinality(SeekingThreads) /\ Seeking \in Nat
      /\ Seeking' = Cardinality(SeekingThreads')
  BY Counters DEF Seeking, SeekingThreads
<1>4. /\ IsFiniteSet(CountingThreads) /\ Uncounted = Cardinality(CountingThreads) /\ Uncounted \in Nat
      /\ Uncounted' = Cardinality(CountingThreads')
  BY Counters DEF Uncounted, CountingThreads
<1> QED BY <1>1, <1>2, <1>3, <1>4, FS_AddElement, FS_RemoveElement

\* How a step that changes one slot changes the number of those in use.
LEMMA UsedCount ==
    ASSUME NEW k \in Slots, \A j \in Slots \ {k} : clientConnfd'[j] = clientConnfd[j]
    PROVE  Used' = Used + (IF clientConnfd'[k] # -1 /\ clientConnfd[k] = -1 THEN 1
                           ELSE IF clientConnfd'[k] = -1 /\ clientConnfd[k] # -1 THEN -1 ELSE 0)
<1>1. UsedSlots' = IF clientConnfd'[k] # -1 THEN UsedSlots \cup {k} ELSE UsedSlots \ {k}
  BY DEF UsedSlots
<1>2. IsFiniteSet(UsedSlots) /\ Used = Cardinality(UsedSlots) /\ Used \in Nat
  BY Counters
<1>3. Used' = Cardinality(UsedSlots')
  BY DEF Used, UsedSlots
<1>4. k \in UsedSlots <=> clientConnfd[k] # -1
  BY DEF UsedSlots
<1>5. Cardinality(UsedSlots \cup {k}) = IF clientConnfd[k] # -1 THEN Used ELSE Used + 1
  BY <1>2, <1>4, FS_AddElement
<1>6. Cardinality(UsedSlots \ {k}) = IF clientConnfd[k] # -1 THEN Used - 1 ELSE Used
  BY <1>2, <1>4, FS_RemoveElement
<1> HIDE DEF UsedSlots, Used
<1>7. CASE clientConnfd'[k] # -1
  BY <1>1, <1>2, <1>3, <1>5, <1>7
<1>8. CASE clientConnfd'[k] = -1
  BY <1>1, <1>2, <1>3, <1>6, <1>8
<1> QED BY <1>7, <1>8

LEMMA CountConnecting ==
    ASSUME TypeInv, TypeInv', CountsRight, NEW n \in Conns, Connecting(n), up',
           Never({"same", "torn", "twice"})'
    PROVE  CountsRight'
<1>1. /\ thr \in [Conns -> ThreadState] /\ \A m \in Conns \ {n} : thr'[m] = thr[m]
      /\ Used \in Nat /\ Seeking \in Nat /\ Uncounted \in Nat /\ clientNum \in Int /\ MAX_CLIENT \in Nat
  <2>1. \A m \in Conns \ {n} : thr'[m] = thr[m]
    BY DEF Connecting, ReadArgs, Search, Take, LoadNum, StoreNum, Greet, Wake, Find, ReadLogin, Answer,
           SendPipes, Dies, Ends, TypeInv, TypeOK
  <2> QED BY <2>1, Counters, ConnectionsAssumption DEF TypeInv, TypeOK
<1>2. ASSUME UNCHANGED <<slotVars, past>>,
             thr[n].pc \in {"load", "store"} <=> thr'[n].pc \in {"load", "store"},
             thr[n].pc \in {"born", "search", "take"} <=> thr'[n].pc \in {"born", "search", "take"}
      PROVE  CountsRight'
  <2>1. Seeking' = Seeking /\ Uncounted' = Uncounted
    BY <1>1, <1>2, ThreadCounts DEF SeekingThreads, CountingThreads
  <2>2. Used' = Used
    BY <1>2 DEF Used
  <2> QED BY <1>2, <2>1, <2>2 DEF CountsRight
<1>3. ~UnconnectAgain(thr[n].i)
  BY DEF UnconnectAgain, Never
<1>4. CASE ReadArgs(n)
  <2>1. thr[n].pc = "born" /\ thr'[n].pc = "search"
    BY <1>1, <1>4 DEF ReadArgs, At, ThreadState
  <2>2. Seeking' = Seeking /\ Uncounted' = Uncounted
    BY <1>1, <2>1, ThreadCounts DEF SeekingThreads, CountingThreads
  <2>3. Used' = Used /\ clientNum' = clientNum /\ past' \subseteq past \cup {"late"} /\ past \subseteq past'
    BY <1>4 DEF ReadArgs, Used
  <2> QED BY <2>2, <2>3 DEF CountsRight
<1>5. CASE Search(n)
  <2>1. thr[n].pc = "search" /\ thr'[n].pc = IF FreeSlot \in Slots THEN "take" ELSE "greet"
    BY <1>1, <1>5 DEF Search, At, ThreadState
  <2>2. Used' = Used /\ clientNum' = clientNum
    BY <1>5 DEF Search, Used
  <2>3. Uncounted' = Uncounted /\ Seeking' = Seeking + IF FreeSlot \in Slots THEN 0 ELSE -1
    BY <1>1, <2>1, ThreadCounts DEF SeekingThreads, CountingThreads
  <2>4. CASE FreeSlot \in Slots
    BY <1>1, <1>5, <2>2, <2>3, <2>4 DEF Search, CountsRight
  <2>5. CASE FreeSlot \notin Slots
    <3>1. Used = MAX_CLIENT
      <4>1. FreeSlots = {}
        BY <2>5, FreeSlotFinds DEF FreeSlots
      <4>2. UsedSlots = Slots
        BY <4>1 DEF UsedSlots, FreeSlots
      <4> QED BY <4>2, Counters, SlotsFinite
    <3>2. Seeking >= 1
      <4>1. n \in SeekingThreads
        BY <2>1 DEF SeekingThreads
      <4> QED BY <4>1, Counters, FS_EmptySet
    <3>3. "crowd" \in past /\ past' = past \cup {"over"}
      BY <1>1, <1>5, <2>5, <3>1, <3>2 DEF CountsRight, Search
    <3> QED BY <2>2, <2>3, <3>3 DEF CountsRight
  <2> QED BY <2>4, <2>5
<1>6. CASE Take(n)
  <2>1. thr[n].pc = "take" /\ thr'[n].pc = "load" /\ thr[n].i \in Slots /\ thr[n].fd \in Fds
    BY <1>1, <1>6 DEF Take, At, ThreadState, TypeInv, Indices, Started, ThreadAt
  <2>2. past' = past /\ clientConnfd[thr[n].i] = -1 /\ clientNum' = clientNum
    BY <1>6 DEF Take, Never
  <2>3. clientConnfd' = [clientConnfd EXCEPT ![thr[n].i] = thr[n].fd] /\ thr[n].fd # -1
    BY <1>6, <2>1, SlotsFinite DEF Take
  <2>4. Used' = Used + 1
    BY <2>1, <2>2, <2>3, UsedCount DEF TypeInv, TypeOK
  <2>5. Seeking' = Seeking - 1 /\ Uncounted' = Uncounted + 1
    BY <1>1, <2>1, ThreadCounts DEF SeekingThreads, CountingThreads
  <2> QED BY <1>1, <2>2, <2>4, <2>5 DEF CountsRight
<1>7. CASE LoadNum(n)
  <2>1. thr[n].pc = "load" /\ thr'[n].pc = "store"
    BY <1>1, <1>7 DEF LoadNum, At, ThreadState
  <2> QED BY <1>2, <1>7, <2>1 DEF LoadNum
<1>8. CASE StoreNum(n)
  <2>1. thr[n].pc = "store" /\ thr'[n].pc = "greet"
    BY <1>1, <1>8 DEF StoreNum, At, ThreadState
  <2>2. past' = past /\ clientNum' = clientNum + 1
    BY <1>8 DEF StoreNum, Never, Counted
  <2>3. Used' = Used
    BY <1>8 DEF StoreNum, Used
  <2>4. Seeking' = Seeking /\ Uncounted' = Uncounted - 1
    BY <1>1, <2>1, ThreadCounts DEF SeekingThreads, CountingThreads
  <2> QED BY <1>1, <2>2, <2>3, <2>4 DEF CountsRight
<1>9. CASE Greet(n)
  <2>1. thr[n].pc = "greet" /\ thr'[n].pc = "wake" /\ UNCHANGED <<slotVars, past>>
    BY <1>1, <1>3, <1>9 DEF Greet, At, ThreadState, SendPipes, Dies
  <2> QED BY <1>2, <2>1
<1>10. CASE Wake(n)
  <2>1. thr[n].pc = "wake" /\ thr'[n].pc = "find"
    BY <1>1, <1>10 DEF Wake, At, ThreadState
  <2> QED BY <1>2, <1>10, <2>1 DEF Wake
<1>11. CASE Find(n)
  <2>1. thr[n].pc = "find" /\ thr'[n].pc = "wait" /\ UNCHANGED <<slotVars, past>>
    BY <1>1, <1>3, <1>11 DEF Find, At, ThreadState, Dies
  <2> QED BY <1>2, <2>1
<1>12. CASE ReadLogin(n)
  <2>1. thr[n].pc = "wait" /\ thr'[n].pc = "answer"
    BY <1>1, <1>12 DEF ReadLogin, At, ThreadState
  <2>2. Seeking' = Seeking /\ Uncounted' = Uncounted
    BY <1>1, <2>1, ThreadCounts DEF SeekingThreads, CountingThreads
  <2>3. Used' = Used /\ clientNum' = clientNum /\ past' \subseteq past \cup {"others"} /\ past \subseteq past'
    BY <1>12 DEF ReadLogin, Takes, Used
  <2> QED BY <2>2, <2>3 DEF CountsRight
<1>13. CASE Answer(n)
  <2>1. thr[n].pc = "answer" /\ thr'[n].pc = "done" /\ UNCHANGED <<slotVars, past>>
    BY <1>1, <1>3, <1>13 DEF Answer, At, ThreadState, SendPipes, Dies, Ends, NoThread
  <2> QED BY <1>2, <2>1
<1> QED BY <1>4, <1>5, <1>6, <1>7, <1>8, <1>9, <1>10, <1>11, <1>12, <1>13 DEF Connecting


LEMMA CountServing ==
    ASSUME CountsRight, NEW n \in Conns, Serving(n), up', Never({"same", "torn", "twice"})'
    PROVE  CountsRight'
<1>1. UNCHANGED <<slotVars, thr>> /\ past \subseteq past' /\ past' \subseteq past \cup {"others"}
  BY DEF Serving, FindSlot, ReadText, Reply, Takes, UnconnectAgain, SendPipes, Dies, Never
<1> QED BY <1>1 DEF CountsRight, Used, Seeking, Uncounted

\* With a full table the loop accepts nobody; with a place left that somebody
\* is still going to take, it may be one too many.
LEMMA CountAccept ==
    ASSUME TypeInv, TypeInv', Born, CountsRight, Accept
    PROVE  CountsRight'
<1>1. /\ Used \in Nat /\ Seeking \in Nat /\ Uncounted \in Nat /\ clientNum \in Int /\ MAX_CLIENT \in Nat
      /\ UNCHANGED slotVars /\ Used' = Used
  BY Counters, ConnectionsAssumption DEF TypeInv, TypeOK, Accept, Used
<1>2. CASE thr' = thr /\ past' = past
  BY <1>1, <1>2 DEF CountsRight, Seeking, Uncounted
<1> DEFINE n == First(Pending)
<1>3. CASE /\ Pending # {} /\ ~TableFull /\ thr' = [thr EXCEPT ![n].pc = "born"]
           /\ past' = IF Used + Seeking >= MAX_CLIENT /\ Seeking + Uncounted > 0 THEN past \cup {"crowd"} ELSE past
  <2>1. n \in Conns /\ thr \in [Conns -> ThreadState]
    BY <1>3, FreeFd DEF TypeInv, TypeOK
  <2>2. thr'[n].pc = "born" /\ \A m \in Conns \ {n} : thr'[m] = thr[m]
    BY <1>3, <2>1 DEF ThreadState
  <2>3. thr[n].pc = "none"
    BY <1>3, <2>1, FreeFd DEF Born, ThreadState
  <2>4. Seeking' = Seeking + 1 /\ Uncounted' = Uncounted
    BY <1>1, <2>1, <2>2, <2>3, ThreadCounts DEF SeekingThreads, CountingThreads
  <2>5. clientNum < MAX_CLIENT
    BY <1>1, <1>3 DEF TableFull
  <2> QED BY <1>1, <1>3, <2>4, <2>5 DEF CountsRight
<1>4. LoopAt("listen") /\ loop.listen => Pending # {}
  BY DEF LoopAt, TypeInv, Descriptors
<1> QED BY <1>2, <1>3, <1>4 DEF Accept

LEMMA CountRecv ==
    ASSUME TypeInv, CountsRight, Recv, up'
    PROVE  CountsRight'
<1> DEFINE k == loop.k
<1>1. /\ Used \in Nat /\ Seeking \in Nat /\ Uncounted \in Nat /\ clientNum \in Int /\ MAX_CLIENT \in Nat
      /\ k \in Slots /\ clientConnfd[k] \in Fds /\ thr' = thr
  BY Counters, ConnectionsAssumption, RecvCases, Zenon DEF TypeInv, TypeOK
<1>2. Seeking' = Seeking /\ Uncounted' = Uncounted
  BY <1>1 DEF Seeking, Uncounted
<1>3. past \subseteq past' /\ past' \subseteq past \cup {"left"}
  BY RecvCases, Zenon
<1>4. CASE UNCHANGED slotVars
  BY <1>2, <1>3, <1>4 DEF CountsRight, Used
<1>5. CASE Unconnect(k)
  <2>1. clientNum' = clientNum - 1
    BY <1>5 DEF Unconnect
  <2>2. \A j \in Slots : clientConnfd'[j] = IF j = k THEN -1 ELSE clientConnfd[j]
    BY <1>1, <1>5, UnconnectType
  <2>3. clientConnfd[k] # -1
    BY <1>1, SlotsFinite
  <2>4. Used' = Used - 1
    BY <1>1, <2>2, <2>3, UsedCount
  <2> QED BY <1>1, <1>2, <1>3, <2>1, <2>4 DEF CountsRight
<1> QED BY <1>4, <1>5, RecvCases, Zenon

LEMMA CountDies ==
    ASSUME CountsRight, NEW why \in {"badf", "garbage", "reset", "pipe"}, Dies(why)
    PROVE  CountsRight'
<1>1. UsedSlots' = {} /\ SeekingThreads' = {} /\ CountingThreads' = {}
  BY DEF Dies, UsedSlots, SeekingThreads, CountingThreads, NoThread
<1>2. Used' = 0 /\ Seeking' = 0 /\ Uncounted' = 0
  BY <1>1, FS_EmptySet DEF Used, Seeking, Uncounted, UsedSlots, SeekingThreads, CountingThreads
<1> QED BY <1>2, ConnectionsAssumption DEF Dies, CountsRight

LEMMA PastKept ==
    ASSUME [Next]_vars
    PROVE  past \subseteq past'
BY Zenon DEF Next, Loop, Select, SetFds, Accept, Scan, Recv, Arrive, SendMessage, HangUp, Connecting, ReadArgs, Search, Take,
       LoadNum, StoreNum, Greet, Wake, Find, ReadLogin, Answer, Serving, FindSlot, ReadText, Reply, SendPipes, Dies,
       UnconnectAgain, Takes

\* clientNum and the table agree, and no thread searches in vain, for as long as
\* no two threads took one slot, no increment met another change of clientNum
\* and no slot was closed twice: what makes the count wrong is one of these
\* three, and what makes the table overflow is an accept ahead of the threads.
THEOREM CountTheorem == Spec => []CountIsUsed
<1>1. Init => CountsRight
  <2> SUFFICES ASSUME Init PROVE CountsRight
    OBVIOUS
  <2>1. UsedSlots = 1 .. clientNum /\ clientNum \in 0 .. MAX_CLIENT
    BY ConnectionsAssumption DEF Init, UsedSlots, Slots, QuietFd
  <2>2. SeekingThreads = {} /\ CountingThreads = {}
    BY DEF Init, NoThread, SeekingThreads, CountingThreads
  <2>3. Cardinality(1 .. clientNum) = clientNum
    BY <2>1, FS_Interval
  <2>4. Used = clientNum /\ Seeking = 0 /\ Uncounted = 0
    BY <2>1, <2>2, <2>3, Counters, FS_EmptySet
  <2> QED BY <2>1, <2>4, ConnectionsAssumption DEF CountsRight, Init
<1>2. TypeInv /\ TypeInv' /\ Born /\ SlotsLeft /\ [Next]_vars => SlotsLeft'
  <2> SUFFICES ASSUME TypeInv, TypeInv', Born, CountsRight, [Next]_vars, Never({"same", "torn", "twice"})'
               PROVE  CountsRight'
    BY PastKept DEF SlotsLeft, Never
  <2>1. CASE UNCHANGED vars
    BY <2>1 DEF CountsRight, Used, Seeking, Uncounted
  <2>2. CASE Next /\ ~up'
    BY <2>2, DiesOrNot, CountDies
  <2>3. CASE up' /\ Loop
    <3>1. CASE Accept
      BY <3>1, CountAccept
    <3>2. CASE Recv
      BY <2>3, <3>2, CountRecv
    <3>3. CASE Select \/ SetFds \/ Scan
      <4>1. UNCHANGED <<slotVars, thr, past>>
        BY <2>3, <3>3 DEF Select, SetFds, Scan, Dies
      <4> QED BY <4>1 DEF CountsRight, Used, Seeking, Uncounted
    <3> QED BY <2>3, <3>1, <3>2, <3>3 DEF Loop
  <2>4. CASE \E n \in Conns : Arrive(n) \/ SendMessage(n) \/ HangUp(n)
    <3>1. UNCHANGED <<slotVars, thr, past>>
      BY <2>4 DEF Arrive, SendMessage, HangUp
    <3> QED BY <3>1 DEF CountsRight, Used, Seeking, Uncounted
  <2>5. CASE up' /\ \E n \in Conns : Connecting(n) \/ Serving(n)
    BY <2>5, CountConnecting, CountServing
  <2> QED BY <2>1, <2>2, <2>3, <2>4, <2>5 DEF Next
<1>3. SlotsLeft => CountIsUsed
  BY DEF SlotsLeft, CountsRight, CountIsUsed
<1> QED BY <1>1, <1>2, <1>3, TypeInvariant, PTL DEF Spec, SlotsLeft


-----------------------------------------------------------------------------
\* Without a slot closed twice, a thread of newConnection changes the table
\* where it takes its slot only, and a mailbox where it reads its login only.
LEMMA ConnectingKeeps ==
    ASSUME TypeInv, NEW n \in Conns, Connecting(n), up', Never({"twice"})'
    PROVE  /\ up /\ UNCHANGED <<own, loop, svc>>
           /\ \A m \in Conns \ {n} : thr'[m] = thr[m]
           /\ clientConnfd' = clientConnfd \/ Take(n)
           /\ mail' = mail \/ ReadLogin(n)
<1>1. ~UnconnectAgain(thr[n].i)
  BY DEF UnconnectAgain, Never
<1>2. \A m \in Conns \ {n} : thr'[m] = thr[m]
  BY DEF Connecting, ReadArgs, Search, Take, LoadNum, StoreNum, Greet, Wake, Find, ReadLogin, Answer,
         SendPipes, Dies, Ends, TypeInv, TypeOK
<1>3. up /\ UNCHANGED <<own, loop, svc>>
  BY <1>1 DEF Connecting, ReadArgs, Search, Take, LoadNum, StoreNum, Greet, Wake, Find, ReadLogin, Answer, At, SendPipes, Dies
<1>4. clientConnfd' = clientConnfd \/ Take(n)
  BY <1>1 DEF Connecting, ReadArgs, Search, LoadNum, StoreNum, Greet, Wake, Find, ReadLogin, Answer, SendPipes, Dies
<1>5. mail' = mail \/ ReadLogin(n)
  BY DEF Connecting, ReadArgs, Search, Take, LoadNum, StoreNum, Greet, Wake, Find, Answer, SendPipes, Dies
<1> QED BY <1>2, <1>3, <1>4, <1>5

\* The ways of a thread, while no descriptor is read late.
LEMMA ConnectingMoves ==
    ASSUME TypeInv, NEW n \in Conns, Connecting(n), up', Never({"late", "twice"})'
    PROVE  \/ thr[n].pc = "born" /\ thr'[n].pc = "search" /\ own[thr'[n].fd] = n
           \/ /\ thr[n].pc = "search" /\ thr'[n].fd = thr[n].fd
              /\ thr'[n].pc = "take" \/ (thr'[n].pc = "greet" /\ "over" \in past')
           \/ /\ Take(n) /\ thr'[n].pc = "load" /\ thr'[n].fd = thr[n].fd /\ thr'[n].i = thr[n].i
           \/ /\ thr[n].pc \in Seated /\ thr'[n].pc \in Seated \cup {"done"} /\ thr'[n].i = thr[n].i
              /\ thr'[n].pc # "done" => thr'[n].fd = thr[n].fd
              /\ thr'[n].pc = "wait" => thr[n].pc = "find" /\ thr'[n].idx = ConnfdIndex(thr[n].fd) /\ thr'[n].idx # None
<1>1. thr \in [Conns -> ThreadState]
  BY DEF TypeInv, TypeOK
<1>2. ~UnconnectAgain(thr[n].i)
  BY DEF UnconnectAgain, Never
<1>3. CASE ReadArgs(n)
  BY <1>1, <1>3 DEF ReadArgs, At, Never, ThreadState
<1>4. CASE Search(n)
  BY <1>1, <1>4 DEF Search, At, ThreadState
<1>5. CASE Take(n)
  BY <1>1, <1>5 DEF Take, ThreadState
<1>6. CASE LoadNum(n)
  BY <1>1, <1>6 DEF LoadNum, At, ThreadState, Seated, Started, ThreadAt
<1>7. CASE StoreNum(n)
  BY <1>1, <1>7 DEF StoreNum, At, ThreadState, Seated, Started, ThreadAt
<1>8. CASE Greet(n)
  BY <1>1, <1>2, <1>8 DEF Greet, At, ThreadState, Seated, Started, ThreadAt, SendPipes, Dies
<1>9. CASE Wake(n)
  BY <1>1, <1>9 DEF Wake, At, ThreadState, Seated, Started, ThreadAt
<1>10. CASE Find(n)
  BY <1>1, <1>2, <1>10 DEF Find, At, ThreadState, Seated, Started, ThreadAt, Dies
<1>11. CASE ReadLogin(n)
  BY <1>1, <1>11 DEF ReadLogin, At, ThreadState, Seated, Started, ThreadAt
<1>12. CASE Answer(n)
  BY <1>1, <1>2, <1>12, Zenon DEF Answer, At, ThreadState, Seated, Started, ThreadAt, SendPipes, Dies, Ends, NoThread
<1> QED BY <1>3, <1>4, <1>5, <1>6, <1>7, <1>8, <1>9, <1>10, <1>11, <1>12 DEF Connecting

\* accept, as far as it matters to the slots
LEMMA AcceptMoves ==
    ASSUME TypeInv, Born, Accept
    PROVE  /\ loop'.pc = "scan" /\ loop'.fds \subseteq loop.fds /\ loop'.k \in {loop.k, Out} /\ past' \subseteq past \cup {"crowd"}
           /\ UNCHANGED <<up, slotVars, mail, svc>>
           /\ \A n \in Conns : conn'[n].got = conn[n].got /\ conn'[n].sent = conn[n].sent /\ conn'[n].ended = conn[n].ended
           /\ \/ UNCHANGED <<own, thr>>
              \/ \E n \in Conns, fd \in Fds :
                    /\ own[fd] = None /\ own' = [own EXCEPT ![fd] = n]
                    /\ thr[n].pc = "none" /\ thr'[n].pc = "born" /\ \A m \in Conns \ {n} : thr'[m] = thr[m]
<1>1. conn \in [Conns -> ClientState] /\ thr \in [Conns -> ThreadState] /\ loop \in LoopState
  BY DEF TypeInv, TypeOK
<1>2. loop'.pc = "scan" /\ loop'.fds \subseteq loop.fds /\ loop'.k \in {loop.k, Out}
  <2>1. NoLoop.pc = "scan" /\ NoLoop.fds = {} /\ NoLoop.k = Out
    BY DEF NoLoop
  <2>2. LET next == [loop EXCEPT !.pc = "scan", !.listen = FALSE, !.pipe = FALSE] IN
           next.pc = "scan" /\ next.fds = loop.fds /\ next.k = loop.k
    BY <1>1 DEF LoopState
  <2> QED BY <2>1, <2>2 DEF Accept
<1>3. UNCHANGED <<up, slotVars, mail, svc>> /\ past' \subseteq past \cup {"crowd"}
  BY DEF Accept
<1> DEFINE n == First(Pending)
           fd == First({f \in Fds : own[f] = None})
<1>4. CASE UNCHANGED <<own, thr, conn>>
  BY <1>2, <1>3, <1>4
<1>5. CASE /\ Pending # {}
           /\ conn' = [conn EXCEPT ![n].st = "accepted"] /\ own' = [own EXCEPT ![fd] = n]
           /\ thr' = [thr EXCEPT ![n].pc = "born"]
  <2>1. n \in Conns /\ conn[n].st = "pending" /\ fd \in Fds /\ own[fd] = None
    BY <1>5, FreeFd
  <2>2. LET c == [conn[n] EXCEPT !.st = "accepted"] IN
           c.got = conn[n].got /\ c.sent = conn[n].sent /\ c.ended = conn[n].ended
    BY <1>1, <2>1 DEF ClientState
  <2> HIDE DEF n, fd
  <2>3. \A m \in Conns : conn'[m].got = conn[m].got /\ conn'[m].sent = conn[m].sent /\ conn'[m].ended = conn[m].ended
    BY <1>1, <1>5, <2>1, <2>2
  <2>4. thr[n].pc = "none" /\ thr'[n].pc = "born" /\ \A m \in Conns \ {n} : thr'[m] = thr[m]
    BY <1>1, <1>5, <2>1 DEF Born, ThreadState
  <2> QED BY <1>2, <1>3, <1>5, <2>1, <2>3, <2>4
<1>6. LoopAt("listen") /\ loop.listen => Pending # {}
  BY DEF LoopAt, TypeInv, Descriptors
<1> QED BY <1>4, <1>5, <1>6 DEF Accept

\* The loop at a slot it reads: the slot keeps its descriptor, or the
\* connection is closed and forgotten.
LEMMA RecvMoves ==
    ASSUME TypeInv, SlotOwners, Recv, up'
    PROVE  LET k == loop.k
               fd == clientConnfd[k]
           IN  \/ UNCHANGED <<own, slotVars>>
               \/ /\ \A f \in Fds : own'[f] = IF f = fd THEN None ELSE own[f]
                  /\ \A j \in Slots : clientConnfd'[j] = IF j = k THEN -1 ELSE clientConnfd[j]
                  /\ \A j \in Slots \ {k} : clientConnfd[j] # fd
                  /\ ~AtSlot(k) \/ "left" \in past'
                  /\ UNCHANGED <<mail, svc>>
<1> DEFINE k == loop.k
           fd == clientConnfd[k]
<1>1. k \in Slots /\ fd \in Fds
  BY RecvCases, Zenon
<1>2. CASE Unconnect(k) /\ past' = (IF AtSlot(k) THEN past \cup {"left"} ELSE past) /\ UNCHANGED <<mail, svc>>
  <2>1. \A j \in Slots : clientConnfd'[j] = IF j = k THEN -1 ELSE clientConnfd[j]
    BY <1>1, <1>2, UnconnectType
  <2>2. \A f \in Fds : own'[f] = IF f = fd THEN None ELSE own[f]
    <3>1. k # Out
      BY <1>1, ConnectionsAssumption DEF Out, Slots
    <3> QED BY <1>1, <1>2, <3>1 DEF Unconnect, TypeInv, TypeOK
  <2>3. \A j \in Slots \ {k} : clientConnfd[j] # fd
    BY <1>1 DEF SlotOwners
  <2> QED BY <1>2, <2>1, <2>2, <2>3
<1> QED BY <1>2, RecvCases, Zenon

LEMMA OwnersNext ==
    ASSUME TypeInv, Born, SlotOwners, [Next]_vars, Never({"late", "same", "twice"})'
    PROVE  SlotOwners'
<1>1. ASSUME UNCHANGED <<own, clientConnfd, thr>> PROVE SlotOwners'
  BY <1>1 DEF SlotOwners
<1>2. CASE Next /\ ~up'
  <2>0. PICK why : Dies(why)
    BY <1>2, DiesOrNot
  <2>1. \A k \in Slots : clientConnfd'[k] \notin Fds
    BY <2>0, SlotsFinite DEF Dies
  <2>2. \A n \in Conns : thr'[n].pc = "none"
    BY <2>0 DEF Dies, NoThread
  <2> QED BY <2>1, <2>2 DEF SlotOwners
<1>3. CASE Accept
  <2>1. PICK n \in Conns, fd \in Fds :
              UNCHANGED <<own, thr>> \/
              /\ own[fd] = None /\ own' = [own EXCEPT ![fd] = n]
              /\ thr[n].pc = "none" /\ thr'[n].pc = "born" /\ \A m \in Conns \ {n} : thr'[m] = thr[m]
    BY <1>3, AcceptMoves, ConnectionsAssumption DEF Conns, Fds
  <2>2. clientConnfd' = clientConnfd
    BY <1>3, AcceptMoves
  <2>3. CASE UNCHANGED <<own, thr>>
    BY <1>1, <2>2, <2>3
  <2>4. CASE own[fd] = None /\ own' = [own EXCEPT ![fd] = n] /\ thr[n].pc = "none" /\ thr'[n].pc = "born"
             /\ \A m \in Conns \ {n} : thr'[m] = thr[m]
    <3>1. ASSUME NEW k \in Slots, clientConnfd[k] \in Fds
          PROVE  LET m == own[clientConnfd[k]] IN
                   own'[clientConnfd[k]] = m /\ m \in Conns \ {n} /\ thr'[m] = thr[m]
      <4>1. own[clientConnfd[k]] \in Conns /\ thr[own[clientConnfd[k]]].pc \in Seated \cup {"done"}
        BY <3>1 DEF SlotOwners
      <4>2. own[clientConnfd[k]] # n /\ clientConnfd[k] # fd
        BY <2>4, <4>1, SlotsFinite DEF Seated, Started, ThreadAt, None, Conns
      <4> QED BY <2>4, <3>1, <4>1, <4>2 DEF TypeInv, TypeOK
    <3>2. ASSUME NEW m \in Conns, thr'[m].pc \in {"search", "take"}
          PROVE  own'[thr'[m].fd] = m
      <4>1. m # n /\ thr'[m] = thr[m]
        BY <2>4, <3>2
      <4>2. own[thr[m].fd] = m /\ thr[m].fd \in Fds
        BY <3>2, <4>1 DEF SlotOwners, TypeInv, Indices, Started, ThreadAt
      <4> QED BY <2>4, <4>1, <4>2 DEF TypeInv, TypeOK, None, Conns
    <3> QED BY <2>2, <3>1, <3>2 DEF SlotOwners
  <2> QED BY <2>1, <2>3, <2>4
<1>4. CASE up' /\ Recv
  <2>1. thr' = thr
    BY <1>4, RecvCases, Zenon
  <2> DEFINE at == loop.k
             fd == clientConnfd[at]
  <2>2. at \in Slots /\ fd \in Fds
    BY <1>4, RecvCases, Zenon
  <2>3. CASE UNCHANGED <<own, slotVars>>
    BY <1>1, <2>1, <2>3
  <2>4. CASE /\ \A f \in Fds : own'[f] = IF f = fd THEN None ELSE own[f]
             /\ \A j \in Slots : clientConnfd'[j] = IF j = at THEN -1 ELSE clientConnfd[j]
             /\ \A j \in Slots \ {at} : clientConnfd[j] # fd
    <3>1. ASSUME NEW k \in Slots, clientConnfd'[k] \in Fds
          PROVE  clientConnfd'[k] = clientConnfd[k] /\ own'[clientConnfd[k]] = own[clientConnfd[k]]
      <4>1. k # at /\ clientConnfd'[k] = clientConnfd[k]
        BY <2>4, <3>1, SlotsFinite
      <4>2. clientConnfd[k] # fd /\ clientConnfd[k] \in Fds
        BY <2>4, <3>1, <4>1
      <4> QED BY <2>4, <4>1, <4>2
    <3>2. ASSUME NEW m \in Conns, thr[m].pc \in {"search", "take"}
          PROVE  own'[thr[m].fd] = m
      <4>1. own[thr[m].fd] = m /\ thr[m].fd \in Fds
        BY <3>2 DEF SlotOwners, TypeInv, Indices, Started, ThreadAt
      <4>2. thr[own[fd]].pc \in Seated \cup {"done"}
        BY <2>2 DEF SlotOwners
      <4>3. thr[m].fd # fd
        BY <3>2, <4>1, <4>2 DEF Seated, Started, ThreadAt
      <4> QED BY <2>4, <4>1, <4>3
    <3> QED BY <2>1, <3>1, <3>2 DEF SlotOwners
  <2> QED BY <1>4, <2>3, <2>4, RecvMoves
<1>5. CASE up' /\ \E n \in Conns : Connecting(n)
  <2>1. PICK n \in Conns : Connecting(n)
    BY <1>5
  <2>2. Never({"twice"})' /\ Never({"late", "twice"})'
    BY DEF Never
  <2>3. own' = own /\ (\A m \in Conns \ {n} : thr'[m] = thr[m]) /\ (clientConnfd' = clientConnfd \/ Take(n))
    BY <1>5, <2>1, <2>2, ConnectingKeeps
  <2>4. ASSUME NEW m \in Conns, thr'[m].pc \in {"search", "take"}
        PROVE  own'[thr'[m].fd] = m
    <3>1. CASE m # n
      BY <2>3, <2>4, <3>1 DEF SlotOwners
    <3>2. CASE m = n
      BY <1>5, <2>1, <2>2, <2>3, <2>4, <3>2, ConnectingMoves DEF SlotOwners, Seated, Started, ThreadAt
    <3> QED BY <3>1, <3>2
  <2>5. ASSUME NEW k \in Slots, clientConnfd'[k] \in Fds
        PROVE  LET m == own'[clientConnfd'[k]] IN m \in Conns /\ thr'[m].i = k /\ thr'[m].pc \in Seated \cup {"done"}
    <3>1. CASE Take(n) /\ thr[n].i = k
      <4>1. clientConnfd'[k] = thr[n].fd /\ own[thr[n].fd] = n
        BY <3>1 DEF Take, At, TypeInv, TypeOK, SlotOwners
      <4>2. thr'[n].pc = "load" /\ thr'[n].i = k
        BY <1>5, <2>1, <2>2, <3>1, ConnectingMoves DEF Take, At, Seated, Started, ThreadAt
      <4> QED BY <2>3, <4>1, <4>2 DEF Seated, Started, ThreadAt
    <3>2. CASE ~(Take(n) /\ thr[n].i = k)
      <4>1. clientConnfd'[k] = clientConnfd[k]
        BY <2>3, <3>2 DEF Take, TypeInv, TypeOK
      <4> DEFINE m == own[clientConnfd[k]]
      <4>2. m \in Conns /\ thr[m].i = k /\ thr[m].pc \in Seated \cup {"done"} /\ own'[clientConnfd'[k]] = m
        BY <2>3, <2>5, <4>1 DEF SlotOwners
      <4>3. CASE m # n
        BY <2>3, <4>2, <4>3
      <4>4. CASE m = n
        BY <1>5, <2>1, <2>2, <4>2, <4>4, ConnectingMoves DEF Take, At, Seated, Started, ThreadAt
      <4> QED BY <4>2, <4>3, <4>4
    <3> QED BY <3>1, <3>2
  <2> QED BY <2>4, <2>5 DEF SlotOwners
<1>6. CASE up' /\ \E n \in Conns : Serving(n)
  <2>1. UNCHANGED <<own, clientConnfd, thr>>
    BY <1>6 DEF Serving, FindSlot, ReadText, Reply, UnconnectAgain, SendPipes, Dies, Never
  <2> QED BY <1>1, <2>1
<1>7. CASE up' /\ (Select \/ SetFds \/ Scan)
  <2>1. UNCHANGED <<own, clientConnfd, thr>>
    BY <1>7 DEF Select, SetFds, Scan, Dies
  <2> QED BY <1>1, <2>1
<1>8. CASE \E n \in Conns : Arrive(n) \/ SendMessage(n) \/ HangUp(n)
  <2>1. UNCHANGED <<own, clientConnfd, thr>>
    BY <1>8 DEF Arrive, SendMessage, HangUp
  <2> QED BY <1>1, <2>1
<1>9. CASE UNCHANGED vars
  BY <1>1, <1>9
<1> QED BY <1>2, <1>3, <1>4, <1>5, <1>6, <1>7, <1>8, <1>9 DEF Next, Loop


\* What the slots hold is open.
LEMMA SlotsOpen ==
    ASSUME TypeInv, SlotOwners, NEW k \in Slots, clientConnfd[k] # -1
    PROVE  Open(clientConnfd[k])
BY SlotsFinite DEF SlotOwners, Open, TypeInv, TypeOK

\* Neither select nor recv is called with a closed descriptor.
LEMMA NoBadf ==
    ASSUME TypeInv, SlotOwners, LoopReads, Next, Never({"late", "same", "twice"})'
    PROVE  "badf" \notin past'
<1>1. "badf" \notin past
  BY DEF LoopReads
<1>2. ASSUME SetFds PROVE "badf" \notin past'
  <2>1. \A fd \in {clientConnfd[k] : k \in Slots} \ {-1} : Open(fd)
    BY SlotsOpen
  <2> QED BY <1>1, <1>2, <2>1 DEF SetFds
<1>3. ASSUME Recv PROVE "badf" \notin past'
  <2>1. loop.k \in Slots /\ loop.fds \subseteq Fds /\ clientConnfd[loop.k] \in loop.fds
    BY <1>3, Zenon DEF Recv, LoopAt, TypeInv, Indices, LoopReads
  <2>2. Open(clientConnfd[loop.k])
    BY <2>1, SlotsOpen, SlotsFinite
  <2>3. CASE Dies("reset")
    BY <1>1, <2>3 DEF Dies
  <2>4. CASE up'
    <3>1. past' = past \/ past' = past \cup {"left"}
      BY <1>3, <2>4, RecvCases, Zenon
    <3> QED BY <1>1, <3>1
  <2> QED BY <1>3, <2>2, <2>3, <2>4, Zenon DEF Recv, LoopAt
<1>4. ASSUME Select \/ Accept \/ Scan \/ \E n \in Conns : Arrive(n) \/ SendMessage(n) \/ HangUp(n) PROVE "badf" \notin past'
  BY <1>1, <1>4 DEF Select, Accept, Scan, Arrive, SendMessage, HangUp
<1>5. ASSUME \E n \in Conns : Connecting(n) \/ Serving(n) PROVE "badf" \notin past'
  BY <1>1, <1>5 DEF Connecting, ReadArgs, Search, Take, LoadNum, StoreNum, Greet, Wake, Find, ReadLogin, Answer,
         Serving, FindSlot, ReadText, Reply, SendPipes, Dies, UnconnectAgain, Takes
<1> QED BY <1>2, <1>3, <1>4, <1>5 DEF Next, Loop

\* What is readable stays so until the loop reads it.
LEMMA ReadableKept ==
    ASSUME TypeInv, TypeInv', NEW fd, Readable(fd), own'[fd] = own[fd],
           LET c == conn[own[fd]]
               d == conn'[own[fd]]
           IN  d.got = c.got /\ c.sent <= d.sent /\ (c.ended => d.ended)
    PROVE  Readable(fd)'
<1>1. fd \in Fds /\ own[fd] \in Conns
  BY DEF Readable, Open, TypeInv, TypeOK
<1>2. conn[own[fd]] \in ClientState /\ conn'[own[fd]] \in ClientState
  BY <1>1 DEF TypeInv, TypeOK
<1>3. /\ conn[own[fd]].got \in Int /\ conn[own[fd]].sent \in Int
      /\ conn'[own[fd]].got \in Int /\ conn'[own[fd]].sent \in Int
  BY <1>2 DEF ClientState
<1>4. conn[own[fd]].got < conn[own[fd]].sent \/ conn[own[fd]].ended
  BY DEF Readable
<1>5. conn'[own[fd]].got < conn'[own[fd]].sent \/ conn'[own[fd]].ended
  BY <1>3, <1>4
<1> QED BY <1>1, <1>5, SlotsFinite DEF Readable, Open

LEMMA LoopReadsConnecting ==
    ASSUME TypeInv, TypeInv', SlotOwners, LoopReads, NEW n \in Conns, Connecting(n), up',
           Never({"late", "same", "twice"})', "badf" \notin past'
    PROVE  LoopReads'
<1>0. Never({"twice"})' /\ Never({"late", "twice"})'
  BY DEF Never
<1>1. loop' = loop /\ own' = own /\ (clientConnfd' = clientConnfd \/ Take(n))
  BY <1>0, ConnectingKeeps
<1>2. \A m \in Conns : conn'[m].got = conn[m].got /\ conn'[m].sent = conn[m].sent /\ conn'[m].ended = conn[m].ended
  <2>1. CASE conn' = conn
    BY <2>1
  <2>2. CASE Greet(n) \/ Answer(n)
    <3>1. thr[n].fd \in Fds
      BY <2>2 DEF Greet, Answer, At, TypeInv, Indices, Started, ThreadAt
    <3>2. CASE Greet(n)
      <4>1. conn' = conn \/ SendGoes(thr[n].fd, 1)
        BY <3>2 DEF Greet, SendPipes, Dies
      <4> QED BY <2>1, <3>1, <4>1, SendGoesType
    <3>3. CASE Answer(n)
      BY <2>1, <3>1, <3>3, SendGoesType DEF Answer, SendPipes, Dies
    <3> QED BY <2>2, <3>2, <3>3
  <2> QED
    BY <2>1, <2>2 DEF Connecting, ReadArgs, Search, Take, LoadNum, StoreNum, Wake, Find, ReadLogin, Dies
<1>3. \A fd : Readable(fd) => Readable(fd)'
  <2>1. ASSUME NEW fd, Readable(fd) PROVE Readable(fd)'
    <3>1. own[fd] \in Conns /\ fd \in Fds
      BY <2>1 DEF Readable, Open, TypeInv, TypeOK
    <3>2. conn[own[fd]].sent \in Int
      BY <3>1 DEF TypeInv, TypeOK, ClientState
    <3> QED BY <1>1, <1>2, <2>1, <3>1, <3>2, ReadableKept
  <2> QED BY <2>1
<1>4. CASE clientConnfd' = clientConnfd
  BY <1>1, <1>3, <1>4 DEF LoopReads
<1>5. CASE Take(n)
  <2> DEFINE at == thr[n].i
  <2>1. /\ at \in Slots /\ clientConnfd[at] = -1 /\ own[thr[n].fd] = n /\ thr[n].fd \in Fds /\ thr[n].pc = "take"
        /\ clientConnfd' = [clientConnfd EXCEPT ![at] = thr[n].fd]
    BY <1>5 DEF Take, At, Never, SlotOwners, TypeInv, Indices, Started, ThreadAt
  <2>2. -1 \notin loop.fds
    <3>1. loop.fds \subseteq Fds \cup {QuietFd(k) : k \in Slots}
      BY DEF TypeInv, TypeOK, LoopState
    <3> QED BY <3>1, SlotsFinite, ConnectionsAssumption DEF QuietFd, Slots
  <2>3. thr[n].fd \notin loop.fds
    <3> SUFFICES ASSUME thr[n].fd \in loop.fds PROVE FALSE
      OBVIOUS
    <3>1. PICK k \in Slots : clientConnfd[k] = thr[n].fd
      BY DEF LoopReads
    <3> QED BY <2>1, <3>1 DEF SlotOwners, Seated, Started, ThreadAt
  <2>4. \A k \in Slots \ {at} : clientConnfd'[k] = clientConnfd[k]
    BY <2>1 DEF TypeInv, TypeOK
  <2>5. clientConnfd'[at] = thr[n].fd
    BY <2>1 DEF TypeInv, TypeOK
  <2>6. loop.pc = "recv" => loop.k \in Slots \ {at}
    BY <2>1, <2>2 DEF LoopReads, TypeInv, Indices
  <2>7. \A fd \in loop.fds : \E k \in Slots : clientConnfd'[k] = fd
    BY <2>1, <2>2, <2>4 DEF LoopReads
  <2>8. ASSUME loop.pc # "select", NEW k \in Slots, k >= loop.k, clientConnfd'[k] \in loop.fds
        PROVE  Readable(clientConnfd[k])'
    <3>1. clientConnfd'[k] = clientConnfd[k] /\ Readable(clientConnfd[k])
      BY <2>3, <2>4, <2>5, <2>8 DEF LoopReads
    <3> QED BY <1>3, <3>1 DEF Readable, Open
  <2> QED BY <1>1, <2>4, <2>6, <2>7, <2>8 DEF LoopReads
<1> QED BY <1>1, <1>4, <1>5

LEMMA LoopReadsRecv ==
    ASSUME TypeInv, TypeInv', SlotOwners, LoopReads, Recv, up', "badf" \notin past'
    PROVE  LoopReads'
<1> DEFINE at == loop.k
           fd == clientConnfd[at]
           n == own[fd]
<1>1. at \in Slots /\ fd \in Fds /\ n \in Conns
  BY RecvCases, ZenonT(30)
<1>2. loop'.pc = "scan" /\ loop'.k = at + 1 /\ loop'.fds = IF Ended(conn[n]) THEN loop.fds \ {fd} ELSE loop.fds
  <2>1. loop \in LoopState
    BY DEF TypeInv, TypeOK
  <2> QED BY <2>1, RecvCases DEF LoopState
<1>3. \A k \in Slots \ {at} : clientConnfd[k] # fd
  BY <1>1 DEF SlotOwners
<1>4. \A m \in Conns \ {n} : conn'[m] = conn[m]
  BY RecvCases, Zenon DEF TypeInv, TypeOK
<1>5. /\ \A k \in Slots \ {at} : clientConnfd'[k] = clientConnfd[k] /\ (clientConnfd[k] \in Fds => own'[clientConnfd[k]] = own[clientConnfd[k]])
      /\ ~Ended(conn[n]) => clientConnfd' = clientConnfd
  <2>1. UNCHANGED <<own, slotVars>> \/ (Ended(conn[n]) /\ \A f \in Fds : own'[f] = IF f = fd THEN None ELSE own[f])
    BY RecvMoves, RecvCases, Zenon
  <2>2. UNCHANGED <<own, slotVars>> \/ (\A j \in Slots : clientConnfd'[j] = IF j = at THEN -1 ELSE clientConnfd[j])
    BY RecvMoves
  <2> QED BY <1>3, <2>1, <2>2
<1> HIDE DEF at, fd, n
<1>6. ASSUME NEW f \in loop'.fds PROVE \E k \in Slots : clientConnfd'[k] = f
  BY <1>2, <1>5, <1>6 DEF LoopReads, fd
<1>7. ASSUME NEW k \in Slots, k >= at + 1, clientConnfd'[k] \in loop'.fds PROVE Readable(clientConnfd[k])'
  <2>1. k # at /\ k >= at
    BY <1>1, <1>7, SlotsFinite
  <2>2. clientConnfd'[k] = clientConnfd[k] /\ clientConnfd[k] \in loop.fds
    BY <1>2, <1>5, <1>7, <2>1
  <2>3. Readable(clientConnfd[k])
    BY <2>1, <2>2, Zenon DEF LoopReads, Recv, LoopAt, at
  <2>4. clientConnfd[k] \in Fds /\ own[clientConnfd[k]] \in Conns /\ own'[clientConnfd[k]] = own[clientConnfd[k]]
    BY <1>5, <2>1, <2>3 DEF Readable, Open, TypeInv, TypeOK
  <2>5. own[clientConnfd[k]] # n
    BY <1>1, <1>3, <2>1, <2>4, SlotsFinite DEF n, TypeInv, Descriptors
  <2>6. conn[own[clientConnfd[k]]].sent \in Int
    BY <2>4 DEF TypeInv, TypeOK, ClientState
  <2>7. ASSUME NEW f, f = clientConnfd[k] PROVE Readable(f)'
    BY <1>4, <2>3, <2>4, <2>5, <2>6, <2>7, ReadableKept
  <2> QED BY <2>2, <2>7 DEF Readable, Open
<1> QED BY <1>2, <1>6, <1>7 DEF LoopReads

LEMMA LoopReadsNext ==
    ASSUME TypeInv, TypeInv', Born, SlotOwners, LoopReads, [Next]_vars, Never({"late", "same", "twice"})'
    PROVE  LoopReads'
<1>0. CASE UNCHANGED vars
  BY <1>0 DEF LoopReads, Readable, Open
<1>1. CASE Next
  <2>1. "badf" \notin past'
    BY <1>1, NoBadf
  <2>2. CASE ~up'
    <3>1. PICK why : Dies(why)
      BY <1>1, <2>2, DiesOrNot
    <3>2. loop'.fds = {} /\ loop'.pc = "scan"
      BY <3>1 DEF Dies, NoLoop
    <3> QED BY <2>1, <3>2 DEF LoopReads
  <2>3. CASE up' /\ \E n \in Conns : Connecting(n)
    BY <2>1, <2>3, LoopReadsConnecting
  <2>4. CASE up' /\ Recv
    BY <2>1, <2>4, LoopReadsRecv
  <2>5. CASE up' /\ \E n \in Conns : Serving(n)
    <3>1. UNCHANGED <<own, clientConnfd, conn, loop>>
      BY <2>5 DEF Serving, FindSlot, ReadText, Reply, UnconnectAgain, SendPipes, Dies, Never
    <3> QED BY <2>1, <3>1 DEF LoopReads, Readable, Open
  <2>6. CASE \E n \in Conns : Arrive(n) \/ SendMessage(n) \/ HangUp(n)
    <3>1. PICK n \in Conns : Arrive(n) \/ SendMessage(n) \/ HangUp(n)
      BY <2>6
    <3>2. UNCHANGED <<own, clientConnfd, loop>>
      BY <3>1 DEF Arrive, SendMessage, HangUp
    <3>3. \A m \in Conns : conn'[m].got = conn[m].got /\ conn[m].sent <= conn'[m].sent /\ (conn[m].ended => conn'[m].ended)
      <4>1. conn \in [Conns -> ClientState] /\ \A m \in Conns : conn[m].sent \in Int
        <5>1. conn \in [Conns -> ClientState]
          BY DEF TypeInv, TypeOK
        <5> QED BY <5>1 DEF ClientState
      <4>2. CASE Arrive(n)
        BY <4>1, <4>2 DEF Arrive, ClientState
      <4>3. CASE SendMessage(n)
        BY <4>1, <4>3 DEF SendMessage, ClientState
      <4>4. CASE HangUp(n)
        BY <4>1, <4>4 DEF HangUp, ClientState
      <4> QED BY <3>1, <4>2, <4>3, <4>4
    <3>4. ASSUME NEW fd, Readable(fd) PROVE Readable(fd)'
      <4>1. own[fd] \in Conns
        BY <3>4 DEF Readable, Open, TypeInv, TypeOK
      <4> QED BY <3>2, <3>3, <3>4, <4>1, ReadableKept
    <3> QED BY <2>1, <3>2, <3>4 DEF LoopReads, Readable, Open
  <2>7. CASE Accept
    <3>1. loop'.pc = "scan" /\ loop'.fds \subseteq loop.fds /\ loop'.k \in {loop.k, Out} /\ clientConnfd' = clientConnfd
      BY <2>7, AcceptMoves
    <3>2. ASSUME NEW fd, Readable(fd) PROVE Readable(fd)'
      <4>1. fd \in Fds /\ own[fd] \in Conns
        BY <3>2 DEF Readable, Open, TypeInv, TypeOK
      <4>2. own'[fd] = own[fd]
        BY <2>7, <4>1, AcceptMoves, SlotsFinite DEF TypeInv, TypeOK
      <4>3. conn[own[fd]].sent \in Int
        BY <4>1 DEF TypeInv, TypeOK, ClientState
      <4> QED BY <2>7, <3>2, <4>1, <4>2, <4>3, AcceptMoves, ReadableKept
    <3>3. \A k \in Slots : ~(k >= Out)
      BY ConnectionsAssumption DEF Slots, Out
    <3>4. loop.pc = "listen"
      BY <2>7 DEF Accept, LoopAt
    <3>5. ASSUME NEW k \in Slots, k >= loop'.k, clientConnfd'[k] \in loop'.fds PROVE Readable(clientConnfd[k])'
      <4>1. Readable(clientConnfd[k])
        BY <3>1, <3>3, <3>4, <3>5 DEF LoopReads
      <4> QED BY <3>1, <3>2, <4>1 DEF Readable, Open
    <3> QED BY <2>1, <3>1, <3>5 DEF LoopReads
  <2>8. CASE up' /\ (Select \/ SetFds \/ Scan)
    <3>1. UNCHANGED <<own, clientConnfd, conn>>
      BY <2>8 DEF Select, SetFds, Scan, Dies
    <3>2. \A fd : Readable(fd) => Readable(fd)'
      BY <3>1 DEF Readable, Open
    <3>3. CASE Select
      BY <2>1, <3>1, <3>3 DEF Select, LoopReads, Readable, Open
    <3>4. CASE SetFds
      <4>1. loop' = [NoLoop EXCEPT !.pc = "select", !.fds = {clientConnfd[k] : k \in Slots} \ {-1}]
        BY <2>8, <3>4 DEF SetFds, Dies
      <4>2. loop'.pc = "select" /\ loop'.fds = {clientConnfd[k] : k \in Slots} \ {-1}
        BY <4>1 DEF NoLoop
      <4> QED BY <2>1, <3>1, <4>2 DEF LoopReads
    <3>5. CASE Scan
      <4>1. loop \in LoopState
        BY DEF TypeInv, TypeOK
      <4>2. /\ loop'.fds = loop.fds
            /\ loop'.pc = "recv" => IsSet(loop.k) /\ loop'.k = loop.k
            /\ loop'.pc # "recv" => loop'.k = loop.k + 1
        BY <3>5, <4>1 DEF Scan, LoopAt, LoopState
      <4>3. loop.k \in Int /\ loop.pc = "scan"
        BY <3>5, SlotsFinite DEF Scan, LoopAt
      <4>4. \A k \in Slots : k >= loop'.k => k >= loop.k
        BY <4>2, <4>3, SlotsFinite
      <4>5. ASSUME NEW k \in Slots, k >= loop'.k, clientConnfd'[k] \in loop'.fds PROVE Readable(clientConnfd[k])'
        <5>1. Readable(clientConnfd[k])
          BY <3>1, <4>2, <4>3, <4>4, <4>5 DEF LoopReads
        <5> QED BY <3>1, <5>1 DEF Readable, Open
      <4> QED BY <2>1, <3>1, <4>2, <4>5 DEF LoopReads, IsSet
    <3> QED BY <2>8, <3>3, <3>4, <3>5
  <2> QED BY <1>1, <2>2, <2>3, <2>4, <2>5, <2>6, <2>7, <2>8 DEF Next, Loop
<1> QED BY <1>0, <1>1


\* While no client has left its threads behind: the other steps of the loop.
LEMMA ThreadSlotsLoop ==
    ASSUME TypeInv, Born, SlotOwners, ThreadSlots, Loop, up',
           Never({"late", "same", "twice", "left", "over"})', past \subseteq past'
    PROVE  ThreadSlots'
<1>1. "others" \notin past' 
  <2>1. past' \subseteq past \cup {"crowd", "left", "badf"}
    BY RecvCases, Zenon DEF Loop, SetFds, Select, Accept, Scan, Dies
  <2> QED BY <2>1 DEF ThreadSlots
<1>2. CASE Select \/ SetFds \/ Scan
  <2>1. UNCHANGED <<own, clientConnfd, mail, thr, svc>>
    BY <1>2 DEF Select, SetFds, Scan, Dies
  <2> QED BY <1>1, <2>1 DEF ThreadSlots
<1>3. CASE Accept
  <2>1. \A f \in Fds : own[f] # None => own'[f] = own[f]
    BY <1>3, AcceptMoves DEF TypeInv, TypeOK
  <2>2. \A n \in Conns : thr'[n] = thr[n] \/ thr'[n].pc = "born"
    BY <1>3, AcceptMoves
  <2>3. UNCHANGED <<clientConnfd, mail, svc>>
    BY <1>3, AcceptMoves
  <2>4. \A k \in Slots : mail'[k] # None => clientConnfd'[k] \in Fds /\ own'[clientConnfd'[k]] = mail'[k]
    BY <2>1, <2>3 DEF ThreadSlots
  <2>5. ASSUME NEW n \in Conns, thr'[n].pc \in Seated
        PROVE  /\ thr'[n].i \in Slots /\ clientConnfd'[thr'[n].i] = thr'[n].fd /\ own'[thr'[n].fd] = n
               /\ thr'[n].pc = "wait" => thr'[n].idx = thr'[n].i
    <3>1. thr'[n] = thr[n]
      BY <2>2, <2>5 DEF Seated, Started
    <3>2. thr[n].fd \in Fds
      BY <2>5, <3>1 DEF TypeInv, Indices, Seated
    <3>3. /\ thr[n].i \in Slots /\ clientConnfd[thr[n].i] = thr[n].fd /\ own[thr[n].fd] = n
          /\ thr[n].pc = "wait" => thr[n].idx = thr[n].i
      BY <2>5, <3>1 DEF ThreadSlots
    <3>4. own'[thr[n].fd] = n
      BY <2>1, <3>2, <3>3, SlotsFinite
    <3> QED BY <2>3, <3>1, <3>3, <3>4
  <2>6. ASSUME NEW n \in Conns, svc'[n].pc \in {"find", "wait", "reply"}
        PROVE  /\ clientConnfd'[svc'[n].k] \in Fds /\ own'[clientConnfd'[svc'[n].k]] = n
               /\ svc'[n].pc = "wait" => svc'[n].idx = svc'[n].k
    <3>1. /\ clientConnfd[svc[n].k] \in Fds /\ own[clientConnfd[svc[n].k]] = n
          /\ svc[n].pc = "wait" => svc[n].idx = svc[n].k
      BY <2>3, <2>6 DEF ThreadSlots
    <3>2. own'[clientConnfd[svc[n].k]] = n
      BY <2>1, <3>1, SlotsFinite
    <3> QED BY <2>3, <3>1, <3>2
  <2> QED BY <1>1, <2>4, <2>5, <2>6 DEF ThreadSlots
<1>4. CASE Recv
  <2> DEFINE at == loop.k
             fd == clientConnfd[at]
             n == own[fd]
  <2>1. at \in Slots /\ fd \in Fds /\ n \in Conns /\ mail[at] = None /\ thr' = thr
    BY <1>4, RecvCases, ZenonT(30)
  <2>2. CASE /\ UNCHANGED <<own, slotVars>>
             /\ \/ mail' = [mail EXCEPT ![at] = n] /\ svc' = svc
                \/ mail' = mail /\ svc' = [svc EXCEPT ![n].pc = "find", ![n].k = at]
    <3>1. svc \in [Conns -> ServiceState]
      BY DEF TypeInv, TypeOK
    <3>2. \A k \in Slots : mail'[k] # None => clientConnfd'[k] \in Fds /\ own'[clientConnfd'[k]] = mail'[k]
      BY <2>1, <2>2 DEF ThreadSlots, TypeInv, TypeOK
    <3>3. ASSUME NEW m \in Conns, svc'[m].pc \in {"find", "wait", "reply"}
          PROVE  /\ clientConnfd'[svc'[m].k] \in Fds /\ own'[clientConnfd'[svc'[m].k]] = m
                 /\ svc'[m].pc = "wait" => svc'[m].idx = svc'[m].k
      <4>1. \/ m = n /\ svc'[m].pc = "find" /\ svc'[m].k = at
            \/ svc'[m] = svc[m]
        BY <2>1, <2>2, <3>1 DEF ServiceState
      <4> QED BY <2>1, <2>2, <3>3, <4>1 DEF ThreadSlots
    <3> QED BY <1>1, <2>1, <2>2, <3>2, <3>3 DEF ThreadSlots
  <2>3. CASE /\ \A f \in Fds : own'[f] = IF f = fd THEN None ELSE own[f]
             /\ \A j \in Slots : clientConnfd'[j] = IF j = at THEN -1 ELSE clientConnfd[j]
             /\ \A j \in Slots \ {at} : clientConnfd[j] # fd
             /\ ~AtSlot(at)
             /\ UNCHANGED <<mail, svc>>
    <3> HIDE DEF at, fd, n
    <3>1. \A k \in Slots \ {at} : clientConnfd[k] \in Fds => clientConnfd'[k] = clientConnfd[k] /\ own'[clientConnfd[k]] = own[clientConnfd[k]]
      BY <2>3
    <3>2. \A k \in Slots : mail'[k] # None => clientConnfd'[k] \in Fds /\ own'[clientConnfd'[k]] = mail'[k]
      BY <2>1, <2>3, <3>1 DEF ThreadSlots
    <3>3. ASSUME NEW m \in Conns, thr'[m].pc \in Seated
          PROVE  /\ thr'[m].i \in Slots /\ clientConnfd'[thr'[m].i] = thr'[m].fd /\ own'[thr'[m].fd] = m
                 /\ thr'[m].pc = "wait" => thr'[m].idx = thr'[m].i
      <4>1. thr[m].pc \in Seated /\ thr[m].i # at /\ thr[m].fd \in Fds
        BY <2>1, <2>3, <3>3 DEF AtSlot, Seated, Started, TypeInv, Indices
      <4> QED BY <2>1, <3>1, <4>1 DEF ThreadSlots
    <3>4. ASSUME NEW m \in Conns, svc'[m].pc \in {"find", "wait", "reply"}
          PROVE  /\ clientConnfd'[svc'[m].k] \in Fds /\ own'[clientConnfd'[svc'[m].k]] = m
                 /\ svc'[m].pc = "wait" => svc'[m].idx = svc'[m].k
      <4>1. svc'[m] = svc[m] /\ svc[m].k \in Slots \ {at}
        BY <2>3, <3>4 DEF AtSlot, TypeInv, Indices
      <4> QED BY <3>1, <3>4, <4>1 DEF ThreadSlots
    <3> QED BY <1>1, <3>2, <3>3, <3>4 DEF ThreadSlots
  <2>4. \/ UNCHANGED <<own, slotVars>>
        \/ /\ \A f \in Fds : own'[f] = IF f = fd THEN None ELSE own[f]
           /\ \A j \in Slots : clientConnfd'[j] = IF j = at THEN -1 ELSE clientConnfd[j]
           /\ \A j \in Slots \ {at} : clientConnfd[j] # fd
           /\ ~AtSlot(at)
           /\ UNCHANGED <<mail, svc>>
    BY <1>4, RecvMoves DEF Never
  <2>5. CASE Ended(conn[n]) /\ Unconnect(at)
    <3>1. clientNum' # clientNum
      BY <2>5 DEF Unconnect, TypeInv, TypeOK
    <3> QED BY <2>3, <2>4, <3>1
  <2> QED BY <1>4, <2>2, <2>5, RecvCases, Zenon
<1> QED BY <1>2, <1>3, <1>4 DEF Loop

\* In a table where every descriptor has one slot, getMessage finds that one.
LEMMA OneSlotFound ==
    ASSUME TypeInv, SlotOwners, NEW k \in Slots, clientConnfd[k] \in Fds
    PROVE  ConnfdIndex(clientConnfd[k]) = k
<1>1. ConnfdIndex(clientConnfd[k]) \in Slots
  BY ConnfdIndexFinds
<1>2. clientConnfd[ConnfdIndex(clientConnfd[k])] = clientConnfd[k]
  BY <1>1, ConnfdIndexFinds, SlotsFinite
<1> QED BY <1>1, <1>2 DEF SlotOwners

LEMMA ThreadSlotsConnecting ==
    ASSUME TypeInv, SlotOwners, ThreadSlots, NEW n \in Conns, Connecting(n), up',
           Never({"late", "same", "twice", "left", "over"})'
    PROVE  ThreadSlots'
<1>1. Never({"twice"})' /\ Never({"late", "twice"})'
  BY DEF Never
<1>2. /\ UNCHANGED <<own, svc>> /\ \A m \in Conns \ {n} : thr'[m] = thr[m]
      /\ clientConnfd' = clientConnfd \/ Take(n)
      /\ mail' = mail \/ ReadLogin(n)
  BY <1>1, ConnectingKeeps
<1>3. \A k \in Slots : clientConnfd[k] \in Fds => clientConnfd'[k] = clientConnfd[k]
  <2>1. CASE Take(n)
    <3>1. clientConnfd[thr[n].i] = -1 /\ clientConnfd' = [clientConnfd EXCEPT ![thr[n].i] = thr[n].fd]
      BY <2>1 DEF Take, Never
    <3> QED BY <3>1, SlotsFinite DEF TypeInv, TypeOK
  <2> QED BY <1>2, <2>1
<1>4. \A k \in Slots : mail'[k] = None \/ mail'[k] = mail[k]
  <2>1. CASE ReadLogin(n)
    BY <2>1 DEF ReadLogin, Takes, Emptied, TypeInv, TypeOK
  <2> QED BY <1>2, <2>1
<1>5. "others" \notin past'
  <2>1. CASE ReadLogin(n)
    <3>1. thr[n].pc = "wait" /\ mail[thr[n].idx] # None /\ past' = IF mail[thr[n].idx] # n THEN past \cup {"others"} ELSE past
      BY <2>1 DEF ReadLogin, At, Takes
    <3>2. thr[n].i \in Slots /\ clientConnfd[thr[n].i] = thr[n].fd /\ own[thr[n].fd] = n /\ thr[n].idx = thr[n].i
      BY <3>1 DEF ThreadSlots, Seated, Started, ThreadAt
    <3>3. mail[thr[n].idx] = n
      BY <3>1, <3>2 DEF ThreadSlots
    <3> QED BY <3>1, <3>3 DEF ThreadSlots
  <2>2. CASE ~ReadLogin(n)
    <3>1. past' \subseteq past \cup {"late", "over", "same", "torn", "twice"}
      BY <2>2 DEF Connecting, ReadArgs, Search, Take, LoadNum, StoreNum, Greet, Wake, Find, Answer,
             SendPipes, Dies, UnconnectAgain
    <3> QED BY <3>1 DEF ThreadSlots
  <2> QED BY <2>1, <2>2
<1>6. \A k \in Slots : mail'[k] # None => clientConnfd'[k] \in Fds /\ own'[clientConnfd'[k]] = mail'[k]
  BY <1>2, <1>3, <1>4 DEF ThreadSlots
<1>7. ASSUME NEW m \in Conns, thr'[m].pc \in Seated
      PROVE  /\ thr'[m].i \in Slots /\ clientConnfd'[thr'[m].i] = thr'[m].fd /\ own'[thr'[m].fd] = m
             /\ thr'[m].pc = "wait" => thr'[m].idx = thr'[m].i
  <2>1. ASSUME thr[m].pc \in Seated, thr'[m].i = thr[m].i, thr'[m].fd = thr[m].fd
        PROVE  /\ thr'[m].i \in Slots /\ clientConnfd'[thr'[m].i] = thr'[m].fd /\ own'[thr'[m].fd] = m
    <3>1. thr[m].i \in Slots /\ clientConnfd[thr[m].i] = thr[m].fd /\ own[thr[m].fd] = m /\ thr[m].fd \in Fds
      BY <2>1 DEF ThreadSlots, TypeInv, Indices, Seated
    <3> QED BY <1>2, <1>3, <2>1, <3>1
  <2>2. CASE m # n
    BY <1>2, <1>7, <2>1, <2>2 DEF ThreadSlots
  <2>3. CASE m = n /\ Take(n) /\ thr'[n].pc = "load" /\ thr'[n].fd = thr[n].fd /\ thr'[n].i = thr[n].i
    <3>1. thr[n].i \in Slots /\ thr[n].pc = "take" /\ clientConnfd' = [clientConnfd EXCEPT ![thr[n].i] = thr[n].fd]
      BY <2>3 DEF Take, At, TypeInv, Indices
    <3>2. clientConnfd'[thr[n].i] = thr[n].fd /\ own[thr[n].fd] = n
      BY <3>1 DEF SlotOwners, TypeInv, TypeOK
    <3> QED BY <1>2, <2>3, <3>1, <3>2
  <2>4. CASE /\ m = n /\ thr[n].pc \in Seated /\ thr'[n].pc \in Seated \cup {"done"} /\ thr'[n].i = thr[n].i
             /\ thr'[n].pc # "done" => thr'[n].fd = thr[n].fd
             /\ thr'[n].pc = "wait" => thr[n].pc = "find" /\ thr'[n].idx = ConnfdIndex(thr[n].fd) /\ thr'[n].idx # None
    <3>1. thr'[n].pc # "done"
      BY <1>7, <2>4 DEF Seated, Started
    <3>2. thr[n].i \in Slots /\ clientConnfd[thr[n].i] = thr[n].fd /\ thr[n].fd \in Fds
      BY <2>4 DEF ThreadSlots, TypeInv, Indices, Seated
    <3>3. ConnfdIndex(thr[n].fd) = thr[n].i
      BY <3>2, OneSlotFound
    <3> QED BY <2>1, <2>4, <3>1, <3>3
  <2>5. "over" \notin past'
    BY DEF Never
  <2> QED
    BY <1>1, <1>7, <2>2, <2>3, <2>4, <2>5, ConnectingMoves DEF Seated, Started
<1> QED BY <1>2, <1>3, <1>5, <1>6, <1>7 DEF ThreadSlots, TypeInv, Indices

LEMMA ThreadSlotsServing ==
    ASSUME TypeInv, SlotOwners, ThreadSlots, NEW n \in Conns, Serving(n), up', Never({"twice"})'
    PROVE  ThreadSlots'
<1>1. svc \in [Conns -> ServiceState] /\ svc[n].k \in Slots
  BY DEF TypeInv, TypeOK, Indices, Serving, FindSlot, ReadText, Reply
<1>2. UNCHANGED <<own, clientConnfd, thr>>
  BY DEF Serving, FindSlot, ReadText, Reply, UnconnectAgain, SendPipes, Dies, Never
<1>3. /\ clientConnfd[svc[n].k] \in Fds /\ own[clientConnfd[svc[n].k]] = n
      /\ svc[n].pc = "wait" => svc[n].idx = svc[n].k
  BY DEF ThreadSlots, Serving, FindSlot, ReadText, Reply
<1>4. CASE FindSlot(n)
  <2>1. ConnfdIndex(clientConnfd[svc[n].k]) = svc[n].k
    BY <1>1, <1>3, OneSlotFound
  <2>2. svc'[n].pc = "wait" /\ svc'[n].k = svc[n].k /\ svc'[n].idx = svc[n].k /\ \A m \in Conns \ {n} : svc'[m] = svc[m]
    BY <1>1, <1>4, <2>1 DEF FindSlot, ServiceState
  <2>3. mail' = mail /\ past' = past
    BY <1>4 DEF FindSlot
  <2> QED BY <1>2, <1>3, <2>2, <2>3 DEF ThreadSlots
<1>5. CASE ReadText(n)
  <2>1. svc[n].pc = "wait" /\ mail[svc[n].idx] # None /\ past' = (IF mail[svc[n].idx] # n THEN past \cup {"others"} ELSE past)
        /\ mail' = Emptied(svc[n].idx)
    BY <1>5 DEF ReadText, Takes
  <2>2. mail[svc[n].idx] = n
    BY <1>1, <1>3, <2>1 DEF ThreadSlots
  <2>3. svc'[n].pc = "reply" /\ svc'[n].k = svc[n].k /\ \A m \in Conns \ {n} : svc'[m] = svc[m]
    BY <1>1, <1>5 DEF ReadText, ServiceState
  <2>4. \A k \in Slots : mail'[k] = None \/ mail'[k] = mail[k]
    BY <2>1 DEF Emptied
  <2> QED BY <1>2, <1>3, <2>1, <2>2, <2>3, <2>4 DEF ThreadSlots
<1>6. CASE Reply(n)
  <2>1. svc' = [svc EXCEPT ![n] = [NoService EXCEPT !.pc = "done"]] /\ mail' = mail /\ past' = past
    BY <1>6 DEF Reply, UnconnectAgain, SendPipes, Dies, Never
  <2>2. svc'[n].pc = "done" /\ \A m \in Conns \ {n} : svc'[m] = svc[m]
    BY <1>1, <2>1 DEF NoService
  <2> QED BY <1>2, <2>1, <2>2 DEF ThreadSlots
<1> QED BY <1>4, <1>5, <1>6 DEF Serving

LEMMA ThreadSlotsNext ==
    ASSUME TypeInv, Born, SlotOwners, ThreadSlots, [Next]_vars,
           Never({"late", "same", "twice", "left", "over"})'
    PROVE  ThreadSlots'
<1>1. CASE UNCHANGED vars
  BY <1>1 DEF ThreadSlots
<1>2. CASE Next /\ ~up'
  <2>1. PICK why \in {"badf", "garbage", "reset", "pipe"} : Dies(why)
    BY <1>2, DiesOrNot
  <2>2. /\ \A k \in Slots : mail'[k] = None
        /\ \A n \in Conns : thr'[n].pc = "none" /\ svc'[n].pc = "none"
    BY <2>1 DEF Dies, NoThread, NoService
  <2>3. "others" \notin past'
    BY <2>1 DEF Dies, ThreadSlots
  <2> QED BY <2>2, <2>3 DEF ThreadSlots, Seated, Started
<1>3. CASE up' /\ Loop
  BY <1>3, ThreadSlotsLoop, PastKept
<1>4. CASE \E n \in Conns : Arrive(n) \/ SendMessage(n) \/ HangUp(n)
  <2>1. UNCHANGED <<own, clientConnfd, mail, thr, svc, past>>
    BY <1>4 DEF Arrive, SendMessage, HangUp
  <2> QED BY <2>1 DEF ThreadSlots
<1>5. CASE up' /\ \E n \in Conns : Connecting(n)
  BY <1>5, ThreadSlotsConnecting
<1>6. CASE up' /\ \E n \in Conns : Serving(n)
  BY <1>6, ThreadSlotsServing DEF Never
<1> QED BY <1>1, <1>2, <1>3, <1>4, <1>5, <1>6 DEF Next

\* Slots, descriptors, threads and mailboxes agree for as long as no thread has
\* read connfd late, taken another's slot or closed a slot a second time: one
\* slot to a descriptor, which is open; select and recv are called with open
\* descriptors, and recv only for what is there; and a message is read by its
\* own client's threads, unless a client left before them or got no slot.
THEOREM SlotsTheorem == Spec => []SlotsAgree
<1>1. Init => SlotInv
  <2> SUFFICES ASSUME Init PROVE SlotOwners /\ LoopReads /\ ThreadSlots
    BY DEF SlotInv
  <2>1. \A k \in Slots : clientConnfd[k] \notin Fds
    BY SlotsFinite, ConnectionsAssumption DEF Init, QuietFd, Fds, Slots
  <2>2. (\A n \in Conns : thr[n].pc = "none" /\ svc[n].pc = "none") /\ (\A k \in Slots : mail[k] = None)
    BY DEF Init, NoThread, NoService
  <2>3. loop.pc = "scan" /\ loop.fds = {} /\ past = {}
    BY DEF Init, NoLoop
  <2> QED BY <2>1, <2>2, <2>3 DEF SlotOwners, LoopReads, ThreadSlots, Seated, Started
<1>2. TypeInv /\ TypeInv' /\ Born /\ SlotInv /\ [Next]_vars => SlotInv'
  <2> SUFFICES ASSUME TypeInv, TypeInv', Born, SlotInv, [Next]_vars, Never({"late", "same", "twice"})'
               PROVE  SlotOwners' /\ LoopReads' /\ (Never({"left", "over"})' => ThreadSlots')
    BY DEF SlotInv
  <2>1. SlotOwners /\ LoopReads
    BY PastKept DEF SlotInv, Never
  <2>2. ASSUME Never({"left", "over"})' PROVE ThreadSlots'
    <3>1. ThreadSlots /\ Never({"late", "same", "twice", "left", "over"})'
      BY <2>2, PastKept DEF SlotInv, Never
    <3> QED BY <2>1, <3>1, ThreadSlotsNext
  <2> QED BY <2>1, <2>2, OwnersNext, LoopReadsNext
<1>3. TypeInv /\ SlotInv => SlotsAgree
  <2> SUFFICES ASSUME TypeInv, SlotOwners, LoopReads, Never({"left", "over"}) => ThreadSlots
               PROVE  OneOwner /\ LoopGoesOn /\ OwnMessage
    BY DEF SlotInv, SlotsAgree
  <2>1. OneOwner
    BY SlotsOpen, SlotsFinite DEF SlotOwners, OneOwner
  <2>2. LoopGoesOn
    <3>1. up /\ loop.pc = "recv" => loop.k \in Slots
      BY DEF TypeInv, Indices
    <3>2. \A k \in Slots : k >= k
      BY SlotsFinite
    <3> QED BY <3>1, <3>2 DEF LoopReads, LoopGoesOn
  <2>3. OwnMessage
    BY DEF ThreadSlots, OwnMessage
  <2> QED BY <2>1, <2>2, <2>3
<1> QED BY <1>1, <1>2, <1>3, TypeInvariant, PTL DEF Spec

===============================================================================
