----------------------------- MODULE MailboxProofs -----------------------------
(***************************************************************************)
(* Theorems about Mailbox, for every set of connections, every menu and    *)
(* every bound.  The types are kept in every behaviour.  The rest holds    *)
(* until one recv returns several messages or a thread finds its args      *)
(* overwritten (past # {}): the code ensures neither, and what goes wrong  *)
(* after it is shown by the runs that expect a violation.                  *)
(*                                                                         *)
(* The argument is the conversation: the last thread that was started for  *)
(* a connection is at the step that answers the client's, and what is on   *)
(* its way between them is what the client has sent since.                 *)
(***************************************************************************)
EXTENDS Mailbox, SequenceTheorems, WellFoundedInduction, TLAPS

USE DEF clientVars, vars

-----------------------------------------------------------------------------
(***************************************************************************)
(* The inductive invariant, slot by slot.                                  *)
(***************************************************************************)

\* The last thread that was started for slot k: the others have ended.
Server(k) == threads[k][Len(threads[k])]
Does(th) == ServerScript[th.svc][th.at]

\* The step of the client's script a thread's step belongs to
Pos(th) == IF th.svc = "connect" THEN th.at ELSE th.at + 1

Late(th) == th.phase \in {"lower", "clear", "tail"}

\* The first step whose message the thread has not read
Low(th) == IF Late(th) THEN Pos(th) + 1 ELSE Pos(th)

\* newConnection has nothing left to do but to set the account.
AtAccount(k) == Server(k).phase # "end" /\ Does(Server(k)) = "account"
Serving(k) == Server(k).phase # "end" /\ ~AtAccount(k)

\* The loop is about to look for a SERVICE in the buffer.
Checking(k) == loop = "check" /\ k = Scanned

First(k) == Head(buf[k])
Unread(k) == Server(k).phase # "lower" /\ (ready[k] = 1 \/ Server(k).phase = "copy")
Before(m, n) == m.req < n.req \/ (m.req = n.req /\ m.at < n.at)

\* Every step of the client from i to the one before it is at is a message.
Messages(k, i) == \A j \in i .. client[k].at - 1 : ClientScript[client[k].svc][j] = "message"

ThreadRight(k, i) ==
    LET th == threads[k][i] IN
    /\ th.idx = k /\ th.took \in {<<>>, <<k, th.req>>}
    /\ th.at \in DOMAIN ServerScript[th.svc]
    /\ i # Len(threads[k]) => th.phase = "end"
    /\ th.phase \in {"copy", "lower", "clear", "tail"} => Does(th) = "get"
    /\ th.phase = "making" => th.svc = "newRoom" /\ Does(th) = "last"

ThreadsRight(k) ==
    /\ threads[k] # <<>>
    /\ \A i \in DOMAIN threads[k] : ThreadRight(k, i)

\* The buffer has one message, and is not read before there is one.
Mailed(k) ==
    /\ Len(buf[k]) <= 1
    /\ ready[k] = 1 \/ Checking(k) => buf[k] # <<>>

\* Message m asks for a service: nobody answers its client yet.
Asked(k, m) ==
    /\ m.req = client[k].req /\ m.svc = client[k].svc /\ m.at < client[k].at
    /\ ~Serving(k) /\ replies[k] = <<>> /\ Messages(k, 2)

\* What the loop has not looked at is in the order it was sent.
Stream(k) ==
    /\ \A i, j \in DOMAIN net[k] : i < j => Before(net[k][i], net[k][j])
    /\ \A i \in DOMAIN net[k] :
         LET m == net[k][i] IN
         /\ m.req <= client[k].req
         /\ m.req = client[k].req => m.svc = client[k].svc /\ m.at < client[k].at
         /\ m.kind = "service" => Asked(k, m)
    /\ Checking(k) /\ HasType(k, "service") =>
         Asked(k, First(k)) /\ \A i \in DOMAIN net[k] : Before(First(k), net[k][i])

\* Who is logged in asks for a room, who is not for an account.
Asking(k) ==
    /\ client[k].svc \notin {"none", "inroom", "changePass"} => Busy(k)
    /\ client[k].svc \in {"connect", "signup", "login"} => ~logged[k]
    /\ client[k].svc \in {"changePass", "newRoom", "joinRoom", "signOut", "inroom"} => logged[k]
    /\ Server(k).svc = "connect" /\ Server(k).phase # "end" => ~account[k]
    /\ AtAccount(k) => logged[k] \/ replies[k] = <<"welcome">>

\* There is one answer at most, for a client that waits for it.
Replied(k) ==
    replies[k] # <<>> =>
      /\ Len(replies[k]) = 1 /\ net[k] = <<>> /\ ~(HasType(k, "message") /\ Unread(k))
      /\ Busy(k) /\ Op(k) = "await"
      /\ ~Serving(k) => replies[k][1] \in {"welcome", "end", "in"}
      /\ AtAccount(k) => replies[k][1] = "welcome"
      /\ replies[k][1] = "welcome" => client[k].svc \in {"connect", "login"}
      /\ replies[k][1] = "in" => client[k].svc \in {"newRoom", "joinRoom"}

\* The thread that reads has had its client's messages up to the one it waits
\* for; the thread that answers has a client that waits.
Aligned(k) ==
    LET th == Server(k)  p == Pos(th) IN
    IF Does(th) = "get"
      THEN \/ replies[k] = <<>> /\ client[k].at >= Low(th) /\ Messages(k, p)
           \/ /\ th.phase \in {"born", "run"} /\ Op(k) = "await"
              /\ \/ replies[k] = <<"on">> /\ client[k].at = p - 1
                 \/ replies[k] = <<"again">> /\ client[k].at = p + 1
      ELSE replies[k] = <<>> /\ client[k].at = p

\* A thread that has not ended serves the request its client is at, and what
\* it has not read of it is all there is.
Conversation(k) ==
    Serving(k) =>
      LET th == Server(k) IN
      /\ th.req = client[k].req /\ th.svc = client[k].svc
      /\ Aligned(k)
      /\ buf[k] # <<>> => First(k).req = client[k].req
      /\ th.phase \in {"copy", "lower", "clear", "tail"} => HasType(k, "message")
      /\ \A i \in DOMAIN net[k] : net[k][i].req = client[k].req /\ net[k][i].at >= Low(th)
      /\ HasType(k, "message") /\ Unread(k) =>
           /\ First(k).at >= Low(th) /\ First(k).at < client[k].at
           /\ \A i \in DOMAIN net[k] : First(k).at < net[k][i].at

\* At most one message has been received and not been read.
Kept(k) == IF ready[k] = 1 /\ Server(k).phase # "lower" THEN 1 ELSE 0

\* What was sent, s, is what was read, g, then m if u is 1, then what is to
\* come, n.
Handed(s, g, u, m, n) ==
    /\ Len(s) = Len(g) + u + Len(n)
    /\ \A i \in 1 .. Len(g) : g[i] = s[i]
    /\ u = 1 => m = s[Len(g) + 1]
    /\ \A i \in DOMAIN n : n[i] = s[Len(g) + u + i]

InOrder(k) ==
    k \in OwnSlots =>
      /\ Server(k).phase \in {"copy", "lower"} => ready[k] = 1
      /\ Checking(k) /\ HasType(k, "service") => ready[k] = 1
      /\ Handed(sent[k], got[k], Kept(k), First(k), net[k])

\* Who is logged in or about to be is known to the server, or newConnection is
\* about to set the account.
Known(k) == logged[k] \/ replies[k] = <<"welcome">> => account[k] \/ AtAccount(k)

SlotRight(k) ==
    /\ ThreadsRight(k) /\ Mailed(k) /\ Stream(k) /\ Asking(k)
    /\ Replied(k) /\ Conversation(k) /\ InOrder(k) /\ Known(k)

MailInv == TypeOK /\ \A k \in Slots : SlotRight(k)

-----------------------------------------------------------------------------
(***************************************************************************)
(* The scripts: what the steps of a client and of its thread have to do    *)
(* with each other.                                                        *)
(***************************************************************************)

LEMMA ServerSteps ==
    ASSUME NEW s \in Services, NEW q \in DOMAIN ServerScript[s]
    PROVE  /\ q \in 1 .. 4 /\ q \in Nat
           /\ ServerScript[s][q] \in {"get", "ask", "account", "last", "room"}
           /\ ServerScript[s][q] = "account" <=> s = "connect" /\ q = 3
<1>1. CASE s = "connect"
  BY <1>1 DEF ServerScript
<1>2. CASE s = "signup"
  BY <1>2 DEF ServerScript
<1>3. CASE s = "login"
  BY <1>3 DEF ServerScript
<1>4. CASE s = "newRoom"
  BY <1>4 DEF ServerScript
<1>5. CASE s = "joinRoom"
  BY <1>5 DEF ServerScript
<1> QED BY <1>1, <1>2, <1>3, <1>4, <1>5 DEF Services

\* What follows a step of the thread
LEMMA ServerNext ==
    ASSUME NEW s \in Services, NEW q \in DOMAIN ServerScript[s]
    PROVE  /\ ServerScript[s][q] = "get" =>
                q + 1 \in DOMAIN ServerScript[s] /\ ServerScript[s][q + 1] # "account"
           /\ ServerScript[s][q] = "ask" =>
                /\ s # "newRoom" /\ q + 1 \in DOMAIN ServerScript[s]
                /\ ServerScript[s][q + 1] = IF s = "connect" THEN "account" ELSE "get"
           /\ ServerScript[s][q] = "room" =>
                /\ s = "joinRoom" /\ q - 1 \in DOMAIN ServerScript[s]
                /\ ServerScript[s][q - 1] = "get"
           /\ ServerScript[s][q] = "last" => s \in {"signup", "login", "newRoom"}
<1>1. CASE s = "connect"
  BY <1>1 DEF ServerScript
<1>2. CASE s = "signup"
  BY <1>2 DEF ServerScript
<1>3. CASE s = "login"
  BY <1>3 DEF ServerScript
<1>4. CASE s = "newRoom"
  BY <1>4 DEF ServerScript
<1>5. CASE s = "joinRoom"
  BY <1>5 DEF ServerScript
<1> QED BY <1>1, <1>2, <1>3, <1>4, <1>5 DEF Services

\* The thread reads where the client sends, and answers where it waits.
LEMMA StepsMatch ==
    ASSUME NEW s \in Services, NEW q \in DOMAIN ServerScript[s], ServerScript[s][q] # "account"
    PROVE  LET p == IF s = "connect" THEN q ELSE q + 1 IN
           /\ p \in DOMAIN ClientScript[s]
           /\ ClientScript[s][p] = IF ServerScript[s][q] = "get" THEN "message" ELSE "await"
<1>1. CASE s = "connect"
  BY <1>1 DEF ServerScript, ClientScript
<1>2. CASE s = "signup"
  BY <1>2 DEF ServerScript, ClientScript
<1>3. CASE s = "login"
  BY <1>3 DEF ServerScript, ClientScript
<1>4. CASE s = "newRoom"
  BY <1>4 DEF ServerScript, ClientScript
<1>5. CASE s = "joinRoom"
  BY <1>5 DEF ServerScript, ClientScript
<1> QED BY <1>1, <1>2, <1>3, <1>4, <1>5 DEF Services

\* A request is a SERVICE and what follows it; a request that is sent, but for
\* a new password, ends where its client waits.
LEMMA ClientSteps ==
    ASSUME NEW s \in DOMAIN ClientScript, NEW p \in DOMAIN ClientScript[s]
    PROVE  /\ p \in 1 .. 5 /\ p \in Nat /\ s \notin {"none", "inroom"}
           /\ ClientScript[s][p] \in {"service", "message", "await"}
           /\ ClientScript[s][p] = "service" <=> p = 1 /\ s \in Services \ {"connect"}
           /\ ClientScript[s][p] # "await" /\ s # "changePass" => p + 1 \in DOMAIN ClientScript[s]
           /\ s = "changePass" => ClientScript[s][p] = "message"
<1> USE DEF ClientScript, Services
<1>1. CASE s = "connect"
  BY <1>1
<1>2. CASE s = "signup"
  BY <1>2
<1>3. CASE s = "login"
  BY <1>3
<1>4. CASE s = "newRoom"
  BY <1>4
<1>5. CASE s = "joinRoom"
  BY <1>5
<1>6. CASE s = "changePass"
  BY <1>6
<1>7. CASE s = "signOut"
  BY <1>7
<1>8. CASE s \in {"inroom", "none"}
  BY <1>8
<1> QED BY <1>1, <1>2, <1>3, <1>4, <1>5, <1>6, <1>7, <1>8

\* No request begins with an answer to wait for, but the sign-out.
LEMMA AwaitsLater ==
    ASSUME NEW s \in DOMAIN ClientScript \ {"signOut"}, NEW p \in DOMAIN ClientScript[s],
           ClientScript[s][p] = "await"
    PROVE  p \in 2 .. 5
<1> USE DEF ClientScript
<1>1. CASE s = "connect"
  BY <1>1
<1>2. CASE s = "signup"
  BY <1>2
<1>3. CASE s = "login"
  BY <1>3
<1>4. CASE s = "newRoom"
  BY <1>4
<1>5. CASE s = "joinRoom"
  BY <1>5
<1>6. CASE s \in {"changePass", "inroom", "none"}
  BY <1>6
<1> QED BY <1>1, <1>2, <1>3, <1>4, <1>5, <1>6

\* Every request of the menu has a first step.
LEMMA FirstSteps ==
    /\ Services \subseteq DOMAIN ClientScript
    /\ \A s \in DOMAIN ClientScript \ {"none", "inroom"} : 1 \in DOMAIN ClientScript[s]
    /\ \A s \in Menu : s \in DOMAIN ClientScript \ {"none", "inroom", "connect"}
    /\ \A s \in Services : 1 \in DOMAIN ServerScript[s] /\ ServerScript[s][1] # "account"
<1>1. Services \subseteq DOMAIN ClientScript
  BY DEF ClientScript, Services
<1>2. ASSUME NEW s \in DOMAIN ClientScript \ {"none", "inroom"} PROVE 1 \in DOMAIN ClientScript[s]
  BY DEF ClientScript
<1>3. ASSUME NEW s \in Menu PROVE s \in DOMAIN ClientScript \ {"none", "inroom", "connect"}
  BY MenuAssumption DEF ClientScript
<1>4. ASSUME NEW s \in Services PROVE 1 \in DOMAIN ServerScript[s] /\ ServerScript[s][1] # "account"
  BY DEF ServerScript, Services
<1> QED BY <1>1, <1>2, <1>3, <1>4

-----------------------------------------------------------------------------
(***************************************************************************)
(* The lowest and the highest of a set of numbers, and the sequences the   *)
(* loop takes apart.                                                       *)
(***************************************************************************)

LEMMA LowestIsIn ==
    ASSUME NEW ks \in SUBSET Nat, ks # {}
    PROVE  \E k \in ks : \A j \in ks : k <= j
<1> DEFINE Less == {ss \in Nat \X Nat : ss[1] < ss[2]}
<1>1. IsWellFoundedOn(Less, Nat)
  BY NatLessThanWellFounded, Zenon DEF OpToRel
<1>2. PICK k \in ks : \A j \in ks : <<j, k>> \notin Less
  BY <1>1, WFMin
<1>3. ASSUME NEW j \in ks PROVE k <= j
  <2>1. j < k => <<j, k>> \in Less
    OBVIOUS
  <2> QED BY <1>2, <2>1
<1> QED BY <1>3

LEMMA ScannedIsIn ==
    ASSUME todo \subseteq Slots, todo # {}
    PROVE  Scanned \in todo
<1>1. todo \in SUBSET Nat
  BY SlotsAssumption
<1> QED BY <1>1, LowestIsIn DEF Scanned

\* There are ten connections at most, so that one of the bounds is the highest.
LEMMA MostIsBound ==
    /\ MostRequests \in Nat
    /\ \A k \in Slots : MaxRequests[k] \in Nat /\ MaxRequests[k] <= MostRequests
<1>1. \A k \in Slots : MaxRequests[k] \in Nat
  BY MenuAssumption
<1> DEFINE N(j) == IF j \in Slots THEN MaxRequests[j] ELSE 0
           total == N(0) + N(1) + N(2) + N(3) + N(4) + N(5) + N(6) + N(7) + N(8) + N(9)
           bounds == {n \in Nat : \A k \in Slots : MaxRequests[k] <= n}
<1>2. total \in bounds
  <2>1. /\ N(0) \in Nat /\ N(1) \in Nat /\ N(2) \in Nat /\ N(3) \in Nat /\ N(4) \in Nat
        /\ N(5) \in Nat /\ N(6) \in Nat /\ N(7) \in Nat /\ N(8) \in Nat /\ N(9) \in Nat
    BY <1>1
  <2>2. ASSUME NEW k \in Slots PROVE MaxRequests[k] <= total
    <3>1. MaxRequests[k] = N(k) /\ k \in 0 .. 9
      BY SlotsAssumption
    <3> HIDE DEF N
    <3> QED BY <2>1, <3>1
  <2>3. total \in Nat
    <3> HIDE DEF N
    <3> QED BY <2>1
  <2> QED BY <2>2, <2>3
<1>3. PICK n \in bounds : \A j \in bounds : n <= j
  <2>1. bounds \in SUBSET Nat /\ bounds # {}
    BY <1>2
  <2> QED BY <2>1, LowestIsIn
<1>4. n \in {MaxRequests[k] : k \in Slots}
  <2> SUFFICES ASSUME \A k \in Slots : MaxRequests[k] # n PROVE FALSE
    OBVIOUS
  <2>1. \A k \in Slots : MaxRequests[k] <= n - 1
    BY <1>1
  <2>2. PICK k \in Slots : TRUE
    BY SlotsAssumption
  <2>3. n - 1 \in Nat
    BY <1>1, <2>1, <2>2
  <2> QED BY <1>3, <2>1, <2>3
<1>5. \E m \in {MaxRequests[k] : k \in Slots} : \A k \in Slots : MaxRequests[k] <= m
  BY <1>4
<1>6. /\ MostRequests \in {MaxRequests[k] : k \in Slots}
      /\ \A k \in Slots : MaxRequests[k] <= MostRequests
  BY <1>5 DEF MostRequests
<1> QED BY <1>1, <1>6

\* What the loop receives, and what it leaves
LEMMA FirstAndRest ==
    ASSUME NEW S, NEW s \in Seq(S), s # <<>>
    PROVE  /\ SubSeq(s, 1, 1) \in Seq(S) /\ Len(SubSeq(s, 1, 1)) = 1
           /\ SubSeq(s, 1, 1)[1] = s[1] /\ Head(SubSeq(s, 1, 1)) = s[1]
           /\ SubSeq(s, 2, Len(s)) \in Seq(S) /\ Len(SubSeq(s, 2, Len(s))) = Len(s) - 1
           /\ \A i \in 1 .. Len(s) - 1 : SubSeq(s, 2, Len(s))[i] = s[i + 1]
<1>1. Len(s) \in Nat \ {0} /\ DOMAIN s = 1 .. Len(s)
  BY EmptySeq, LenProperties
<1>2. \A i \in 1 .. Len(s) : s[i] \in S
  BY ElementOfSeq
<1>3. SubSeq(s, 1, 1) \in Seq(S) /\ Len(SubSeq(s, 1, 1)) = 1 /\ SubSeq(s, 1, 1)[1] = s[1]
  BY <1>1, <1>2, SubSeqProperties
<1> QED BY <1>1, <1>2, <1>3, SubSeqProperties

\* A sequence and one more
LEMMA AppendIs ==
    ASSUME NEW S, NEW s \in Seq(S), NEW e \in S
    PROVE  /\ Append(s, e) \in Seq(S) /\ Len(Append(s, e)) = Len(s) + 1 /\ Append(s, e) # <<>>
           /\ DOMAIN Append(s, e) = 1 .. Len(s) + 1
           /\ \A i \in 1 .. Len(s) : Append(s, e)[i] = s[i]
           /\ Append(s, e)[Len(s) + 1] = e
BY AppendProperties, LenProperties

\* One more is sent; the next is received; the one that is kept is read.
LEMMA HandedSend ==
    ASSUME NEW S, NEW s \in Seq(S), NEW g \in Seq(S), NEW n \in Seq(S), NEW u \in {0, 1},
           NEW f, NEW m \in S, Handed(s, g, u, f, n)
    PROVE  Handed(Append(s, m), g, u, f, Append(n, m))
<1>1. Len(s) \in Nat /\ Len(g) \in Nat /\ Len(n) \in Nat /\ DOMAIN n = 1 .. Len(n)
  BY LenProperties
<1>2. Len(s) = Len(g) + u + Len(n)
  BY DEF Handed
<1>3. ASSUME NEW i \in 1 .. Len(g) PROVE g[i] = Append(s, m)[i]
  <2>1. i \in 1 .. Len(s)
    BY <1>1, <1>2
  <2> QED BY <2>1, AppendIs DEF Handed
<1>4. ASSUME u = 1 PROVE f = Append(s, m)[Len(g) + 1]
  <2>1. Len(g) + 1 \in 1 .. Len(s)
    BY <1>1, <1>2, <1>4
  <2> QED BY <1>4, <2>1, AppendIs DEF Handed
<1>5. ASSUME NEW i \in DOMAIN Append(n, m) PROVE Append(n, m)[i] = Append(s, m)[Len(g) + u + i]
  <2>1. CASE i = Len(n) + 1
    <3>1. Len(g) + u + i = Len(s) + 1
      BY <1>1, <1>2, <2>1
    <3> QED BY <2>1, <3>1, AppendIs
  <2>2. CASE i \in 1 .. Len(n)
    <3>1. Len(g) + u + i \in 1 .. Len(s)
      BY <1>1, <1>2, <2>2
    <3> QED BY <1>1, <2>2, <3>1, AppendIs DEF Handed
  <2>3. i \in 1 .. Len(n) + 1
    BY AppendIs
  <2>4. i = Len(n) + 1 \/ i \in 1 .. Len(n)
    BY <1>1, <2>3
  <2> QED BY <2>1, <2>2, <2>4
<1>6. Len(Append(s, m)) = Len(g) + u + Len(Append(n, m))
  <2>1. Len(Append(s, m)) = Len(s) + 1 /\ Len(Append(n, m)) = Len(n) + 1
    BY AppendIs
  <2> QED BY <1>1, <1>2, <2>1
<1> QED BY <1>3, <1>4, <1>5, <1>6 DEF Handed

LEMMA HandedReceive ==
    ASSUME NEW S, NEW s \in Seq(S), NEW g \in Seq(S), NEW n \in Seq(S), NEW f,
           Handed(s, g, 0, f, n), n # <<>>
    PROVE  Handed(s, g, 1, n[1], SubSeq(n, 2, Len(n)))
<1>1. Len(s) \in Nat /\ Len(g) \in Nat /\ Len(n) \in Nat \ {0} /\ DOMAIN n = 1 .. Len(n)
  BY LenProperties, EmptySeq
<1>2. Len(s) = Len(g) + Len(n)
  BY <1>1 DEF Handed
<1> DEFINE r == SubSeq(n, 2, Len(n))
<1>3. /\ r \in Seq(S) /\ Len(r) = Len(n) - 1 /\ DOMAIN r = 1 .. Len(n) - 1
      /\ \A i \in 1 .. Len(n) - 1 : r[i] = n[i + 1]
  BY FirstAndRest, LenProperties
<1> HIDE DEF r
<1>4. \A i \in 1 .. Len(n) : n[i] = s[Len(g) + i]
  BY <1>1 DEF Handed
<1>5. ASSUME NEW i \in DOMAIN r PROVE r[i] = s[Len(g) + 1 + i]
  <2>1. i \in Nat /\ i + 1 \in 1 .. Len(n)
    BY <1>1, <1>3
  <2>2. Len(g) + (i + 1) = Len(g) + 1 + i
    BY <1>1, <2>1
  <2>3. r[i] = n[i + 1]
    BY <1>3
  <2> QED BY <1>4, <2>1, <2>2, <2>3
<1>6. Len(s) = Len(g) + 1 + Len(r)
  BY <1>1, <1>2, <1>3
<1>7. n[1] = s[Len(g) + 1]
  BY <1>1, <1>4
<1>8. \A i \in 1 .. Len(g) : g[i] = s[i]
  BY DEF Handed
<1>9. Handed(s, g, 1, n[1], r)
  BY <1>5, <1>6, <1>7, <1>8 DEF Handed
<1> QED BY <1>9 DEF r

LEMMA HandedRead ==
    ASSUME NEW S, NEW s \in Seq(S), NEW g \in Seq(S), NEW n \in Seq(S), NEW m \in S, NEW f,
           Handed(s, g, 1, m, n)
    PROVE  Handed(s, Append(g, m), 0, f, n) /\ Len(g) < Len(s) /\ m = s[Len(g) + 1]
<1>1. Len(s) \in Nat /\ Len(g) \in Nat /\ Len(n) \in Nat /\ DOMAIN n = 1 .. Len(n)
  BY LenProperties
<1>2. /\ Len(s) = Len(g) + 1 + Len(n) /\ m = s[Len(g) + 1]
      /\ \A i \in 1 .. Len(g) : g[i] = s[i]
      /\ \A i \in 1 .. Len(n) : n[i] = s[Len(g) + 1 + i]
  BY <1>1 DEF Handed
<1> DEFINE h == Append(g, m)
<1>3. /\ Len(h) = Len(g) + 1 /\ h[Len(g) + 1] = m /\ \A i \in 1 .. Len(g) : h[i] = g[i]
  BY AppendIs
<1> HIDE DEF h
<1>4. ASSUME NEW i \in 1 .. Len(h) PROVE h[i] = s[i]
  <2>1. i = Len(g) + 1 \/ i \in 1 .. Len(g)
    BY <1>1, <1>3
  <2> QED BY <1>2, <1>3, <2>1
<1>5. ASSUME NEW i \in DOMAIN n PROVE n[i] = s[Len(h) + 0 + i]
  <2>1. i \in Nat /\ Len(h) + 0 + i = Len(g) + 1 + i
    BY <1>1, <1>3
  <2> QED BY <1>1, <1>2, <2>1
<1>6. Len(s) = Len(h) + 0 + Len(n)
  BY <1>1, <1>2, <1>3
<1>7. Handed(s, h, 0, f, n)
  <2>1. 0 # 1
    OBVIOUS
  <2> QED BY <1>4, <1>5, <1>6, <2>1, Zenon DEF Handed
<1>8. Len(g) < Len(s)
  BY <1>1, <1>2
<1> QED BY <1>2, <1>7, <1>8 DEF h

LEMMA OnlyOne ==
    ASSUME NEW S, NEW s \in Seq(S), Len(s) = 1
    PROVE  s = <<s[1]>> /\ Head(s) = s[1] /\ Tail(s) = <<>> /\ s[1] \in S
<1>1. s[1] \in S
  BY ElementOfSeq
<1>2. s = <<s[1]>>
  BY <1>1
<1>3. Head(<<s[1]>>) = s[1] /\ Tail(<<s[1]>>) = <<>>
  OBVIOUS
<1> QED BY <1>1, <1>2, <1>3

\* A message is what its client's script has at its place.
LEMMA RequestIs ==
    ASSUME NEW m \in Requests
    PROVE  /\ m.kind \in {"service", "message"} /\ m.svc \in DOMAIN ClientScript
           /\ m.req \in 0 .. MostRequests /\ m.at \in DOMAIN ClientScript[m.svc]
           /\ m.at \in 1 .. 5 /\ m.kind = ClientScript[m.svc][m.at]
           /\ m.kind = "service" => m.at = 1 /\ m.svc \in Services \ {"connect"}
<1>1. /\ m.kind \in {"service", "message"} /\ m.svc \in DOMAIN ClientScript
      /\ m.req \in 0 .. MostRequests /\ m.at \in 1 .. 5
      /\ m.at \in DOMAIN ClientScript[m.svc] /\ m.kind = ClientScript[m.svc][m.at]
  BY Zenon DEF Requests
<1> QED BY <1>1, ClientSteps


-----------------------------------------------------------------------------
(***************************************************************************)
(* What the invariant says of a slot, and the slots a step leaves alone.   *)
(***************************************************************************)

LEMMA ServerIs ==
    ASSUME TypeOK, NEW k \in Slots, ThreadsRight(k)
    PROVE  /\ Len(threads[k]) \in Nat \ {0} /\ DOMAIN threads[k] = 1 .. Len(threads[k])
           /\ Server(k) \in ThreadState /\ ThreadRight(k, Len(threads[k]))
           /\ Server(k).svc \in Services /\ Server(k).at \in DOMAIN ServerScript[Server(k).svc]
           /\ Server(k).phase \in Phases /\ Server(k).req \in Nat /\ Server(k).idx = k
           /\ Pos(Server(k)) \in Nat /\ Low(Server(k)) \in Nat
<1>1. threads[k] \in Seq(ThreadState) /\ threads[k] # <<>>
  BY DEF TypeOK, ThreadsRight
<1>2. Len(threads[k]) \in Nat \ {0} /\ DOMAIN threads[k] = 1 .. Len(threads[k])
  BY <1>1, EmptySeq, LenProperties
<1>3. Server(k) \in ThreadState
  BY <1>1, <1>2, ElementOfSeq DEF Server
<1>4. ThreadRight(k, Len(threads[k]))
  BY <1>2 DEF ThreadsRight
<1>5. Server(k).svc \in Services /\ Server(k).phase \in Phases /\ Server(k).req \in Nat
  BY <1>3, MostIsBound DEF ThreadState
<1>6. Server(k).at \in DOMAIN ServerScript[Server(k).svc] /\ Server(k).idx = k
  BY <1>4 DEF ThreadRight, Server
<1>7. Server(k).at \in Nat
  BY <1>5, <1>6, ServerSteps
<1>8. Pos(Server(k)) \in Nat /\ Low(Server(k)) \in Nat
  BY <1>7 DEF Pos, Low
<1> QED BY <1>2, <1>3, <1>4, <1>5, <1>6, <1>8

\* A step that does nothing to slot k, or, to the one whose flag is anybody's,
\* lowers its flag, leaves it right.
LEMMA Frame ==
    ASSUME TypeOK, NEW k \in Slots, SlotRight(k),
           client'[k] = client[k], logged'[k] = logged[k], account'[k] = account[k],
           net'[k] = net[k], replies'[k] = replies[k], buf'[k] = buf[k],
           threads'[k] = threads[k], sent'[k] = sent[k], got'[k] = got[k],
           ready'[k] = ready[k] \/ (k = CLIENT_MESSAGE /\ ready'[k] = 0),
           Checking(k)' => Checking(k)
    PROVE  SlotRight(k)'
<1>1. /\ Server(k)' = Server(k) /\ (AtAccount(k)' <=> AtAccount(k)) /\ (Serving(k)' <=> Serving(k))
      /\ First(k)' = First(k) /\ (HasType(k, "service")' <=> HasType(k, "service"))
      /\ (HasType(k, "message")' <=> HasType(k, "message"))
      /\ (Busy(k)' <=> Busy(k)) /\ Op(k)' = Op(k)
      /\ \A i : Messages(k, i)' <=> Messages(k, i)
      /\ \A m : Asked(k, m)' <=> Asked(k, m)
  <2>1. Server(k)' = Server(k)
    BY DEF Server
  <2>2. (AtAccount(k)' <=> AtAccount(k)) /\ (Serving(k)' <=> Serving(k))
    BY <2>1 DEF AtAccount, Serving, Does
  <2>3. \A i : Messages(k, i)' <=> Messages(k, i)
    BY DEF Messages
  <2>4. \A m : Asked(k, m)' <=> Asked(k, m)
    BY <2>2, <2>3 DEF Asked
  <2>5. First(k)' = First(k) /\ (HasType(k, "service")' <=> HasType(k, "service"))
        /\ (HasType(k, "message")' <=> HasType(k, "message"))
    BY DEF First, HasType
  <2>6. (Busy(k)' <=> Busy(k)) /\ Op(k)' = Op(k)
    BY DEF Busy, Op
  <2> QED BY <2>1, <2>2, <2>3, <2>4, <2>5, <2>6
<1>2. ready'[k] = 1 => ready[k] = 1
  OBVIOUS
<1>3. ThreadsRight(k)'
  BY DEF SlotRight, ThreadsRight, ThreadRight, Does
<1>4. Mailed(k)'
  BY <1>2 DEF SlotRight, Mailed
<1>5. Stream(k)'
  BY <1>1 DEF SlotRight, Stream, Before
<1>6. Asking(k)'
  BY <1>1 DEF SlotRight, Asking
<1>7. Replied(k)'
  BY <1>1, <1>2 DEF SlotRight, Replied, Unread
<1>8. Conversation(k)'
  <2>1. Aligned(k)' <=> Aligned(k)
    BY <1>1 DEF Aligned, Late, Low, Pos, Does
  <2>2. Unread(k)' => Unread(k)
    BY <1>1, <1>2 DEF Unread
  <2> QED BY <1>1, <2>1, <2>2 DEF SlotRight, Conversation, Late, Low, Pos
<1>9. InOrder(k)'
  <2> SUFFICES ASSUME k \in OwnSlots PROVE InOrder(k)'
    BY DEF InOrder
  <2>1. ready'[k] = ready[k] /\ Kept(k)' = Kept(k)
    BY <1>1 DEF OwnSlots, Kept
  <2> QED BY <1>1, <2>1 DEF SlotRight, InOrder
<1>10. Known(k)'
  BY <1>1 DEF SlotRight, Known
<1> QED BY <1>3, <1>4, <1>5, <1>6, <1>7, <1>8, <1>9, <1>10 DEF SlotRight


\* Nothing happens to slot j but, if its flag is anybody's, to its flag.
Untouched(j) ==
    /\ client'[j] = client[j] /\ logged'[j] = logged[j] /\ account'[j] = account[j]
    /\ net'[j] = net[j] /\ replies'[j] = replies[j] /\ buf'[j] = buf[j]
    /\ threads'[j] = threads[j] /\ sent'[j] = sent[j] /\ got'[j] = got[j]
    /\ ready'[j] = ready[j] \/ (j = CLIENT_MESSAGE /\ ready'[j] = 0)
    /\ Checking(j)' => Checking(j)

LEMMA OneSlot ==
    ASSUME MailInv, TypeOK', NEW k \in Slots, SlotRight(k)',
           \A j \in Slots \ {k} : Untouched(j)
    PROVE  MailInv'
<1>1. ASSUME NEW j \in Slots \ {k} PROVE SlotRight(j)'
  BY <1>1, Frame DEF MailInv, Untouched
<1> QED BY <1>1 DEF MailInv

LEMMA LoopStays ==
    ASSUME loop' = loop, todo' = todo, NEW j
    PROVE  Checking(j)' <=> Checking(j)
BY DEF Checking, Scanned

-----------------------------------------------------------------------------
(***************************************************************************)
(* The clients.                                                            *)
(***************************************************************************)

\* Who has nothing to do is not served, has no answer to come and has not
\* asked for anything that the loop has not looked at.
LEMMA IdleClient ==
    ASSUME MailInv, NEW k \in Slots, ~Busy(k), client[k].svc # "inroom"
    PROVE  /\ client[k].svc \in {"none", "changePass"} /\ replies[k] = <<>> /\ ~Serving(k)
           /\ \A m \in Requests : ~(m.kind = "service" /\ Asked(k, m))
<1>1. client[k].svc \in {"none", "changePass"}
  BY DEF MailInv, SlotRight, Asking
<1>2. replies[k] = <<>>
  BY DEF MailInv, SlotRight, Replied
<1>3. ~Serving(k)
  <2>1. Server(k).svc \in Services
    BY ServerIs DEF MailInv, SlotRight
  <2> QED BY <1>1, <2>1 DEF MailInv, SlotRight, Conversation, Services
<1>4. ASSUME NEW m \in Requests, m.kind = "service", Asked(k, m) PROVE FALSE
  BY <1>1, <1>4, RequestIs DEF Asked, Services
<1> QED BY <1>1, <1>2, <1>3, <1>4

LEMMA ChooseRight ==
    ASSUME MailInv, NEW k \in Slots, Choose(k)
    PROVE  MailInv'
<1> DEFINE c == client[k]
<1>1. PICK s \in Menu : /\ s \in {"signup", "login"} <=> ~logged[k]
                        /\ client' = [client EXCEPT ![k] = [svc |-> s, at |-> 1, req |-> c.req + 1]]
  BY DEF Choose
<1>2. /\ UNCHANGED <<logged, account, roomNum, net, replies, buf, ready, loop, todo, past, threads, sent, got>>
      /\ ~Busy(k) /\ c.svc # "inroom" /\ c.req < MaxRequests[k]
  BY DEF Choose
<1>3. /\ client \in [Slots -> ClientState] /\ c \in ClientState /\ c.req \in Nat
      /\ net[k] \in Seq(Requests) /\ buf[k] \in Seq(Requests)
  BY MostIsBound DEF MailInv, TypeOK, ClientState
<1>4. /\ client'[k].svc = s /\ client'[k].at = 1 /\ client'[k].req = c.req + 1
      /\ \A j \in Slots \ {k} : client'[j] = client[j]
  BY <1>1, <1>3
<1>5. s \in DOMAIN ClientScript \ {"none", "inroom", "connect"} /\ 1 \in DOMAIN ClientScript[s]
  BY FirstSteps
<1>6. TypeOK'
  <2>1. c.req + 1 \in 0 .. MostRequests
    BY <1>2, <1>3, MostIsBound
  <2>2. [svc |-> s, at |-> 1, req |-> c.req + 1] \in ClientState
    BY <1>5, <2>1 DEF ClientState
  <2>3. client' \in [Slots -> ClientState]
    BY <1>1, <1>3, <2>2
  <2> QED BY <1>2, <2>3 DEF MailInv, TypeOK
<1>7. \A j \in Slots \ {k} : Untouched(j)
  BY <1>2, <1>4, LoopStays DEF Untouched
<1>8. /\ Server(k)' = Server(k) /\ (AtAccount(k)' <=> AtAccount(k)) /\ ~Serving(k)' /\ replies[k]' = <<>>
      /\ (Checking(k)' <=> Checking(k)) /\ (HasType(k, "service")' <=> HasType(k, "service"))
      /\ First(k)' = First(k)
  BY <1>2, IdleClient, LoopStays DEF Server, AtAccount, Serving, Does, HasType, First
<1>9. SlotRight(k)
  BY DEF MailInv
<1>10. ThreadsRight(k)' /\ Mailed(k)'
  BY <1>2, <1>8, <1>9 DEF SlotRight, ThreadsRight, ThreadRight, Does, Mailed
<1>11. Stream(k)'
  <2>1. \A i \in DOMAIN net[k] : net[k][i] \in Requests /\ net[k][i].req \in Nat
    BY <1>3, ElementOfSeq, LenProperties, RequestIs, MostIsBound
  <2>2. \A i \in DOMAIN net[k] : net[k][i].kind # "service" /\ net[k][i].req < c.req + 1
    BY <1>2, <1>3, <1>9, <2>1, IdleClient DEF SlotRight, Stream
  <2>3. ~(Checking(k) /\ HasType(k, "service"))
    <3>1. HasType(k, "service") => First(k) \in Requests /\ First(k).kind = "service"
      BY <1>3, HeadTailProperties DEF HasType, First
    <3> QED BY <1>2, <1>9, <3>1, IdleClient DEF SlotRight, Stream
  <2>4. \A i \in DOMAIN net[k] : net[k][i].req <= c.req + 1 /\ net[k][i].req # c.req + 1
    BY <1>3, <2>1, <2>2
  <2> QED BY <1>2, <1>4, <1>8, <1>9, <2>2, <2>3, <2>4 DEF SlotRight, Stream, Before
<1>12. Asking(k)'
  BY <1>1, <1>2, <1>4, <1>5, <1>8, <1>9, IdleClient DEF SlotRight, Asking, Busy
<1>13. Replied(k)' /\ Conversation(k)'
  BY <1>8 DEF Replied, Conversation
<1>14. InOrder(k)'
  BY <1>2, <1>8, <1>9 DEF SlotRight, InOrder, Kept
<1>15. Known(k)'
  BY <1>2, <1>8, <1>9 DEF SlotRight, Known
<1> QED BY <1>6, <1>7, <1>10, <1>11, <1>12, <1>13, <1>14, <1>15, OneSlot DEF SlotRight


\* A thread that serves a client that sends is one that reads, and the message
\* is not one that it has read before.
LEMMA SenderIsRead ==
    ASSUME MailInv, NEW k \in Slots, Busy(k), Op(k) \in {"service", "message"}, Serving(k)
    PROVE  /\ Op(k) = "message" /\ Does(Server(k)) = "get"
           /\ client[k].at >= Low(Server(k)) /\ Messages(k, Pos(Server(k)))
<1> DEFINE th == Server(k)
<1>1. SlotRight(k) /\ th.svc \in Services /\ th.at \in DOMAIN ServerScript[th.svc]
  BY ServerIs DEF MailInv, SlotRight
<1>2. th.svc = client[k].svc /\ Aligned(k) /\ Does(th) # "account"
  BY <1>1 DEF SlotRight, Conversation, Serving, AtAccount
<1>3. Pos(th) \in DOMAIN ClientScript[th.svc] /\ Pos(th) \in Nat
      /\ ClientScript[th.svc][Pos(th)] = IF Does(th) = "get" THEN "message" ELSE "await"
  BY <1>1, <1>2, StepsMatch, ServerIs DEF MailInv, SlotRight, Pos, Does
<1>4. Does(th) = "get" /\ replies[k] = <<>> /\ client[k].at >= Low(th) /\ Messages(k, Pos(th))
  BY <1>2, <1>3 DEF Aligned, Op
<1>5. Op(k) # "service"
  <2>1. client[k].svc \in DOMAIN ClientScript /\ client[k].at \in DOMAIN ClientScript[client[k].svc]
    BY <1>1, <1>2, FirstSteps DEF Busy
  <2>2. Op(k) = "service" => client[k].at = 1 /\ th.svc # "connect"
    BY <1>2, <2>1, ClientSteps DEF Op
  <2>3. th.svc # "connect" => Low(th) >= 2
    BY <1>1, ServerSteps DEF Low, Pos
  <2>4. client[k].at \in Nat /\ Low(th) \in Nat
    BY <1>1, <2>1, ClientSteps, ServerIs DEF MailInv, SlotRight
  <2> QED BY <1>4, <2>2, <2>3, <2>4
<1> QED BY <1>4, <1>5

LEMMA ClientSendRight ==
    ASSUME MailInv, NEW k \in Slots, ClientSend(k)
    PROVE  MailInv'
<1> DEFINE c == client[k]
<1>0. PICK m : m = [kind |-> Op(k), svc |-> c.svc, req |-> c.req, at |-> c.at]
  OBVIOUS
<1>1. /\ UNCHANGED <<logged, account, roomNum, replies, buf, ready, loop, todo, past, threads, got>>
      /\ net' = [net EXCEPT ![k] = Append(@, m)] /\ sent' = [sent EXCEPT ![k] = Append(@, m)]
      /\ client' = [client EXCEPT ![k].at = @ + 1]
      /\ Busy(k) /\ Op(k) \in {"service", "message"}
  BY <1>0 DEF ClientSend
<1>2. /\ client \in [Slots -> ClientState] /\ c \in ClientState /\ c.req \in Nat
      /\ net \in [Slots -> Seq(Requests)] /\ sent \in [Slots -> Seq(Requests)]
      /\ net[k] \in Seq(Requests) /\ sent[k] \in Seq(Requests) /\ buf[k] \in Seq(Requests)
  <2>1. client \in [Slots -> ClientState] /\ c \in ClientState
    BY DEF MailInv, TypeOK
  <2>2. c.req \in Nat
    BY <2>1, MostIsBound DEF ClientState
  <2> QED BY <2>1, <2>2 DEF MailInv, TypeOK
<1>3. /\ c.svc \in DOMAIN ClientScript /\ c.at \in DOMAIN ClientScript[c.svc]
      /\ c.at \in 1 .. 5 /\ c.at \in Nat /\ c.req \in 0 .. MostRequests
  <2>1. c.svc \in DOMAIN ClientScript /\ c.at \in DOMAIN ClientScript[c.svc] /\ c.req \in 0 .. MostRequests
    BY <1>1, <1>2 DEF ClientState, Busy
  <2> QED BY <2>1, ClientSteps
<1>4. m \in Requests
  BY <1>0, <1>1, <1>3, Zenon DEF Requests, Op
<1>5. m.kind = Op(k) /\ m.svc = c.svc /\ m.req = c.req /\ m.at = c.at
  BY <1>0
<1>6. /\ client'[k].svc = c.svc /\ client'[k].req = c.req /\ client'[k].at = c.at + 1
      /\ \A j \in Slots \ {k} : client'[j] = client[j]
      /\ net'[k] = Append(net[k], m) /\ sent'[k] = Append(sent[k], m)
      /\ \A j \in Slots \ {k} : net'[j] = net[j] /\ sent'[j] = sent[j]
  BY <1>1, <1>2, Zenon DEF ClientState
<1>7. TypeOK'
  <2>1. c.at + 1 \in 1 .. 6
    BY <1>3
  <2>2. client' \in [Slots -> ClientState]
    <3>1. [c EXCEPT !.at = @ + 1] \in ClientState
      BY <1>2, <2>1 DEF ClientState
    <3> QED BY <1>1, <1>2, <3>1
  <2>3. net' \in [Slots -> Seq(Requests)] /\ sent' \in [Slots -> Seq(Requests)]
    BY <1>1, <1>2, <1>4, AppendIs
  <2> QED BY <1>1, <2>2, <2>3 DEF MailInv, TypeOK
<1>8. \A j \in Slots \ {k} : Untouched(j)
  BY <1>1, <1>6, LoopStays DEF Untouched
<1>9. SlotRight(k)
  BY DEF MailInv
<1>10. replies[k] = <<>>
  BY <1>1, <1>9 DEF SlotRight, Replied
<1>11. /\ Server(k)' = Server(k) /\ (AtAccount(k)' <=> AtAccount(k)) /\ (Serving(k)' <=> Serving(k))
       /\ (Checking(k)' <=> Checking(k)) /\ (HasType(k, "service")' <=> HasType(k, "service"))
       /\ (HasType(k, "message")' <=> HasType(k, "message"))
       /\ First(k)' = First(k) /\ (Unread(k)' <=> Unread(k))
  BY <1>1, LoopStays DEF Server, AtAccount, Serving, Does, HasType, First, Unread
<1>12. ThreadsRight(k)' /\ Mailed(k)'
  BY <1>1, <1>9, <1>11 DEF SlotRight, ThreadsRight, ThreadRight, Does, Mailed
<1>13. /\ \A i \in DOMAIN net[k] : net[k][i] \in Requests
       /\ DOMAIN net[k] = 1 .. Len(net[k]) /\ Len(net[k]) \in Nat
       /\ DOMAIN net'[k] = 1 .. Len(net[k]) + 1
       /\ \A i \in 1 .. Len(net[k]) : net'[k][i] = net[k][i]
       /\ net'[k][Len(net[k]) + 1] = m
  BY <1>2, <1>4, <1>6, AppendIs, ElementOfSeq, LenProperties
\* what was asked for is still asked for
<1>14. ASSUME NEW n \in Requests, n.kind = "service", Asked(k, n) PROVE Asked(k, n)'
  <2>1. n.at = 1 /\ n.at < c.at
    BY <1>14, RequestIs DEF Asked
  <2>2. Op(k) = "message"
    BY <1>1, <1>3, <2>1, ClientSteps DEF Op
  <2>3. Messages(k, 2)'
    BY <1>3, <1>6, <1>14, <2>2 DEF Asked, Messages, Op
  <2> QED BY <1>3, <1>1, <1>6, <1>11, <1>14, <2>1, <2>3 DEF Asked
<1>15. Op(k) = "service" => Asked(k, m)'
  <2> SUFFICES ASSUME Op(k) = "service" PROVE Asked(k, m)'
    OBVIOUS
  <2>1. c.at = 1
    BY <1>3, ClientSteps DEF Op
  <2>2. Messages(k, 2)'
    BY <1>6, <2>1 DEF Messages
  <2>3. ~Serving(k)
    BY <1>1, SenderIsRead
  <2> QED BY <1>1, <1>3, <1>5, <1>6, <1>10, <1>11, <2>2, <2>3 DEF Asked
<1>16. Stream(k)'
  <2>1. ASSUME NEW i \in 1 .. Len(net[k]) PROVE Before(net[k][i], m)
    <3>0. net[k][i] \in Requests
      BY <1>13
    <3>1. net[k][i].req \in Nat /\ net[k][i].at \in Nat
      BY <3>0, RequestIs, MostIsBound
    <3>2. net[k][i].req <= c.req /\ (net[k][i].req = c.req => net[k][i].at < c.at)
      BY <1>9, <1>13 DEF SlotRight, Stream
    <3> QED BY <1>2, <1>3, <1>5, <3>1, <3>2 DEF Before
  <2>2. ASSUME NEW i \in DOMAIN net'[k], NEW j \in DOMAIN net'[k], i < j
        PROVE  Before(net'[k][i], net'[k][j])
    <3>1. i \in 1 .. Len(net[k])
      BY <1>13, <2>2
    <3>2. CASE j = Len(net[k]) + 1
      BY <1>13, <2>1, <3>1, <3>2
    <3>3. CASE j \in 1 .. Len(net[k])
      BY <1>9, <1>13, <2>2, <3>1, <3>3 DEF SlotRight, Stream
    <3> QED BY <1>13, <3>2, <3>3
  <2>3. ASSUME NEW i \in DOMAIN net'[k]
        PROVE  (LET n == net[k][i] IN
                /\ n.req <= client[k].req
                /\ n.req = client[k].req => n.svc = client[k].svc /\ n.at < client[k].at
                /\ n.kind = "service" => Asked(k, n))'
    <3>1. CASE i = Len(net[k]) + 1
      <4>1. net'[k][i] = m
        BY <1>13, <3>1
      <4> QED BY <1>2, <1>3, <1>5, <1>6, <1>15, <4>1 DEF Asked
    <3>2. CASE i \in 1 .. Len(net[k])
      <4>0. PICK n \in Requests : n = net[k][i]
        BY <1>13, <3>2
      <4>1. n.at \in Nat
        BY RequestIs
      <4>2. /\ n.req <= c.req
            /\ n.req = c.req => n.svc = c.svc /\ n.at < c.at
            /\ n.kind = "service" => Asked(k, n)
        BY <1>9, <1>13, <3>2, <4>0 DEF SlotRight, Stream
      <4>3. n.at < c.at => n.at < c.at + 1
        BY <1>3, <4>1
      <4>4. net'[k][i] = n
        BY <1>13, <3>2, <4>0
      <4>5. n.kind = "service" => Asked(k, n)'
        BY <1>14, <4>2
      <4> QED BY <1>6, <4>2, <4>3, <4>4, <4>5 DEF Asked
    <3> QED BY <1>13, <3>1, <3>2
  <2>4. ASSUME Checking(k), HasType(k, "service")
        PROVE  Asked(k, First(k))' /\ \A i \in DOMAIN net'[k] : Before(First(k), net'[k][i])
    <3>1. PICK n \in Requests : n = First(k) /\ n.kind = "service"
      BY <1>2, <2>4, HeadTailProperties DEF HasType, First
    <3>2. Asked(k, n) /\ \A i \in DOMAIN net[k] : Before(First(k), net[k][i])
      BY <1>9, <2>4, <3>1 DEF SlotRight, Stream
    <3>3. Before(First(k), m)
      BY <1>5, <3>1, <3>2 DEF Asked, Before
    <3>4. Asked(k, First(k))'
      BY <1>11, <1>14, <3>1, <3>2 DEF Asked
    <3> QED BY <1>13, <3>2, <3>3, <3>4
  <2>5. \A i \in DOMAIN net[k]' : Before(First(k)', net[k]'[i]) <=> Before(First(k), net'[k][i])
    BY <1>11
  <2> QED BY <1>11, <2>2, <2>3, <2>4, <2>5 DEF Stream
<1>17. Asking(k)'
  <2>1. c.svc # "changePass" => c.at + 1 \in DOMAIN ClientScript[c.svc]
    BY <1>1, <1>3, ClientSteps DEF Op
  <2> QED BY <1>1, <1>6, <1>9, <1>11, <2>1 DEF SlotRight, Asking, Busy
<1>18. Replied(k)'
  BY <1>1, <1>10 DEF Replied
<1>19. Conversation(k)'
  <2> SUFFICES ASSUME Serving(k) PROVE Conversation(k)'
    BY <1>11 DEF Conversation
  <2> DEFINE th == Server(k)
  <2>1. /\ th.req = c.req /\ th.svc = c.svc
        /\ buf[k] # <<>> => First(k).req = c.req
        /\ th.phase \in {"copy", "lower", "clear", "tail"} => HasType(k, "message")
        /\ \A i \in DOMAIN net[k] : net[k][i].req = c.req /\ net[k][i].at >= Low(th)
        /\ HasType(k, "message") /\ Unread(k) =>
             /\ First(k).at >= Low(th) /\ First(k).at < c.at
             /\ \A i \in DOMAIN net[k] : First(k).at < net[k][i].at
    BY <1>9 DEF SlotRight, Conversation
  <2>2. /\ Op(k) = "message" /\ Does(th) = "get" /\ c.at >= Low(th) /\ Messages(k, Pos(th))
        /\ Low(th) \in Nat /\ Pos(th) \in Nat
    BY <1>1, <1>9, SenderIsRead, ServerIs DEF MailInv, SlotRight
  <2>3. Low(th)' = Low(th) /\ Pos(th)' = Pos(th)
    BY <1>11 DEF Low, Pos, Late
  <2>4. Messages(k, Pos(th))'
    BY <1>3, <1>6, <2>2, <2>3 DEF Messages, Op
  <2>5. c.at + 1 >= Low(th)
    BY <1>3, <2>2
  <2>6. Aligned(k)'
    BY <1>1, <1>6, <1>10, <1>11, <2>2, <2>3, <2>4, <2>5 DEF Aligned, Does
  <2>7. \A i \in DOMAIN net'[k] : net'[k][i].req = c.req /\ net'[k][i].at >= Low(th)
    BY <1>5, <1>13, <2>1, <2>2, SMTT(20)
  <2>8. HasType(k, "message") /\ Unread(k) =>
             /\ First(k).at >= Low(th) /\ First(k).at < c.at + 1
             /\ \A i \in DOMAIN net'[k] : First(k).at < net'[k][i].at
    <3>1. HasType(k, "message") => First(k).at \in Nat
      <4>1. HasType(k, "message") => First(k) \in Requests
        BY <1>2, HeadTailProperties DEF HasType, First
      <4> QED BY <4>1, RequestIs
    <3>2. ASSUME HasType(k, "message"), Unread(k), NEW i \in DOMAIN net'[k]
          PROVE  First(k).at < net'[k][i].at
      BY <1>5, <1>13, <2>1, <3>2, SMTT(20)
    <3>3. ASSUME HasType(k, "message"), Unread(k) PROVE First(k).at < c.at + 1
      <4>1. First(k).at \in Nat /\ First(k).at < c.at /\ c.at \in Nat
        BY <1>3, <2>1, <3>1, <3>3
      <4>2. \A f, a \in Nat : f < a => f < a + 1
        OBVIOUS
      <4> QED BY <4>1, <4>2, Zenon
    <3> QED BY <2>1, <3>2, <3>3
  <2> HIDE DEF th, c
  <2>9. Server(k) = th /\ client[k] = c
    BY DEF th, c
  <2> QED BY <1>1, <1>6, <1>11, <2>1, <2>3, <2>6, <2>7, <2>8, <2>9 DEF Conversation
<1>20. InOrder(k)'
  <2> SUFFICES ASSUME k \in OwnSlots PROVE InOrder(k)'
    BY DEF InOrder
  <2>1. Kept(k)' = Kept(k) /\ Kept(k) \in {0, 1} /\ got[k] \in Seq(Requests)
    BY <1>1, <1>11 DEF Kept, MailInv, TypeOK
  <2>2. Handed(sent[k], got[k], Kept(k), First(k), net[k])
    BY <1>9 DEF SlotRight, InOrder
  <2>3. Handed(sent'[k], got[k], Kept(k), First(k), net'[k])
    BY <1>2, <1>4, <1>6, <2>1, <2>2, HandedSend
  <2> QED BY <1>1, <1>9, <1>11, <2>1, <2>3 DEF SlotRight, InOrder
<1>21. Known(k)'
  BY <1>1, <1>6, <1>9, <1>11 DEF SlotRight, Known
<1> QED BY <1>7, <1>8, <1>12, <1>16, <1>17, <1>18, <1>19, <1>20, <1>21, OneSlot DEF SlotRight


\* An answer that lets the request go on comes from a thread that reads next;
\* any other answer is the last of its request.
LEMMA AnswerIs ==
    ASSUME MailInv, NEW k \in Slots, Busy(k), Op(k) = "await", replies[k] # <<>>
    PROVE  LET r == Head(replies[k])  th == Server(k)  p == Pos(th) IN
           /\ replies[k] = <<r>> /\ Tail(replies[k]) = <<>>
           /\ r \in {"on", "end", "again", "in", "welcome"}
           /\ r \in {"on", "again"} <=> Serving(k)
           /\ Serving(k) => /\ th.phase \in {"born", "run"} /\ Does(th) = "get" /\ p \in Nat
                            /\ p \in DOMAIN ClientScript[client[k].svc] /\ th.svc = client[k].svc
                            /\ client[k].at = IF r = "on" THEN p - 1 ELSE p + 1
<1> DEFINE r == Head(replies[k])
           th == Server(k)
<1>1. SlotRight(k) /\ replies[k] \in Seq({"on", "end", "again", "in", "welcome"}) /\ Len(replies[k]) = 1
  BY DEF MailInv, SlotRight, Replied, TypeOK
<1>2. replies[k] = <<r>> /\ Tail(replies[k]) = <<>> /\ r = replies[k][1]
      /\ r \in {"on", "end", "again", "in", "welcome"}
  BY <1>1, OnlyOne, Zenon
<1>3. ~Serving(k) => r \in {"welcome", "end", "in"}
  BY <1>1, <1>2 DEF SlotRight, Replied
<1>4. ASSUME Serving(k)
      PROVE  /\ th.phase \in {"born", "run"} /\ Does(th) = "get" /\ r \in {"on", "again"}
             /\ client[k].at = IF r = "on" THEN Pos(th) - 1 ELSE Pos(th) + 1
             /\ th.svc = client[k].svc
  <2>1. Aligned(k) /\ th.svc = client[k].svc
    BY <1>1, <1>4 DEF SlotRight, Conversation
  <2>2. /\ Does(th) = "get" /\ th.phase \in {"born", "run"}
        /\ \/ replies[k] = <<"on">> /\ client[k].at = Pos(th) - 1
           \/ replies[k] = <<"again">> /\ client[k].at = Pos(th) + 1
    BY <2>1 DEF Aligned
  <2> QED BY <1>2, <2>1, <2>2
<1>5. ASSUME Serving(k) PROVE Pos(th) \in Nat /\ Pos(th) \in DOMAIN ClientScript[th.svc]
  <2>1. th.svc \in Services /\ th.at \in DOMAIN ServerScript[th.svc]
    BY <1>1, ServerIs DEF MailInv, SlotRight
  <2>2. Pos(th) \in DOMAIN ClientScript[th.svc]
    BY <1>4, <1>5, <2>1, StepsMatch DEF Does, Pos
  <2> QED BY <1>1, <2>2, ServerIs DEF MailInv, SlotRight
<1> QED BY <1>2, <1>3, <1>4, <1>5

LEMMA ClientTakeRight ==
    ASSUME MailInv, NEW k \in Slots, ClientTake(k)
    PROVE  MailInv'
<1> DEFINE c == client[k]
           th == Server(k)
<1>1. PICK r : r = Head(replies[k])
  OBVIOUS
<1>2. /\ Busy(k) /\ Op(k) = "await" /\ replies[k] # <<>>
      /\ replies' = [replies EXCEPT ![k] = Tail(@)]
      /\ client' = [client EXCEPT
           ![k].at  = CASE r = "on" -> @ + 1 [] r = "again" -> @ - 1 [] OTHER -> @,
           ![k].svc = CASE r \in {"on", "again"} -> @ [] r = "in" -> "inroom" [] OTHER -> "none"]
      /\ logged' = [logged EXCEPT ![k] = @ \/ r = "welcome"]
      /\ UNCHANGED <<account, roomNum, net, buf, ready, loop, todo, past, threads, sent, got>>
  BY <1>1 DEF ClientTake
<1>3. /\ replies[k] = <<r>> /\ Tail(replies[k]) = <<>>
      /\ r \in {"on", "end", "again", "in", "welcome"}
      /\ r \in {"on", "again"} <=> Serving(k)
      /\ Serving(k) => /\ th.phase \in {"born", "run"} /\ Does(th) = "get" /\ Pos(th) \in Nat
                       /\ Pos(th) \in DOMAIN ClientScript[c.svc] /\ th.svc = c.svc
                       /\ c.at = IF r = "on" THEN Pos(th) - 1 ELSE Pos(th) + 1
  BY <1>1, <1>2, AnswerIs
<1>4. SlotRight(k)
  BY DEF MailInv
<1>5. /\ client \in [Slots -> ClientState] /\ c \in ClientState
      /\ logged \in [Slots -> BOOLEAN] /\ replies \in [Slots -> Seq({"on", "end", "again", "in", "welcome"})]
  BY DEF MailInv, TypeOK
<1>10. PICK d : d = client'[k]
  OBVIOUS
<1>11. /\ client' = [client EXCEPT ![k] = d] /\ client'[k] = d
       /\ \A j \in Slots \ {k} : client'[j] = client[j]
  BY <1>2, <1>5, <1>10
<1>12. d = [svc |-> CASE r \in {"on", "again"} -> c.svc [] r = "in" -> "inroom" [] OTHER -> "none",
            at  |-> CASE r = "on" -> c.at + 1 [] r = "again" -> c.at - 1 [] OTHER -> c.at,
            req |-> c.req]
  BY <1>2, <1>5, <1>10 DEF ClientState
<1>6. /\ net[k] = <<>> /\ ~(HasType(k, "message") /\ Unread(k))
      /\ AtAccount(k) => r = "welcome"
      /\ r = "welcome" => c.svc \in {"connect", "login"}
      /\ r = "in" => c.svc \in {"newRoom", "joinRoom"}
  <2>1. replies[k][1] = r
    BY <1>3
  <2> QED BY <1>2, <1>4, <2>1 DEF SlotRight, Replied
<1>7. ~(Checking(k) /\ HasType(k, "service"))
  BY <1>2, <1>4 DEF SlotRight, Stream, Asked
<1>8. /\ Server(k)' = th /\ (AtAccount(k)' <=> AtAccount(k)) /\ (Serving(k)' <=> Serving(k))
      /\ (Checking(k)' <=> Checking(k)) /\ (HasType(k, "service")' <=> HasType(k, "service"))
      /\ (HasType(k, "message")' <=> HasType(k, "message"))
      /\ First(k)' = First(k) /\ (Unread(k)' <=> Unread(k))
  BY <1>2, LoopStays DEF Server, AtAccount, Serving, Does, HasType, First, Unread
<1>9. replies'[k] = <<>> /\ (logged'[k] <=> logged[k] \/ r = "welcome")
      /\ \A j \in Slots \ {k} : replies'[j] = replies[j] /\ logged'[j] = logged[j]
  BY <1>2, <1>3, <1>5
<1>13. ASSUME d \in ClientState, Stream(k)', Asking(k)', Conversation(k)', Known(k)'
       PROVE  MailInv'
  <2>1. TypeOK'
    <3>1. client' \in [Slots -> ClientState] /\ logged' \in [Slots -> BOOLEAN]
      BY <1>2, <1>5, <1>11, <1>13, Zenon
    <3>2. replies' \in [Slots -> Seq({"on", "end", "again", "in", "welcome"})]
      BY <1>2, <1>3, <1>5
    <3> QED BY <1>2, <3>1, <3>2 DEF MailInv, TypeOK
  <2>2. \A j \in Slots \ {k} : Untouched(j)
    BY <1>2, <1>9, <1>11, LoopStays DEF Untouched
  <2>3. ThreadsRight(k)' /\ Mailed(k)'
    BY <1>2, <1>4, <1>8 DEF SlotRight, ThreadsRight, ThreadRight, Does, Mailed
  <2>4. Replied(k)'
    BY <1>9 DEF Replied
  <2>5. InOrder(k)'
    <3>1. Kept(k)' = Kept(k)
      BY <1>2, <1>8 DEF Kept
    <3> QED BY <1>2, <1>4, <1>8, <3>1 DEF SlotRight, InOrder
  <2> QED BY <1>13, <2>1, <2>2, <2>3, <2>4, <2>5, OneSlot DEF SlotRight
<1>14. Stream(k)'
  BY <1>2, <1>6, <1>7, <1>8 DEF Stream
<1>16. CASE Serving(k)
  <2>p. PICK p : p = Pos(th)
    OBVIOUS
  <2>0. /\ th.phase \in {"born", "run"} /\ Does(th) = "get" /\ p \in Nat
        /\ p \in DOMAIN ClientScript[c.svc] /\ th.svc = c.svc
        /\ (r = "on" /\ c.at = p - 1) \/ (r = "again" /\ c.at = p + 1)
        /\ r # "welcome" /\ ~AtAccount(k)
    <3>1. ~AtAccount(k) /\ r # "welcome" /\ r \in {"on", "again"}
      BY <1>3, <1>16 DEF Serving
    <3>2. /\ th.phase \in {"born", "run"} /\ Does(th) = "get" /\ p \in Nat
          /\ p \in DOMAIN ClientScript[c.svc] /\ th.svc = c.svc
          /\ c.at = IF r = "on" THEN p - 1 ELSE p + 1
      <4>1. Serving(k) => /\ th.phase \in {"born", "run"} /\ Does(th) = "get" /\ p \in Nat
                          /\ p \in DOMAIN ClientScript[c.svc] /\ th.svc = c.svc
                          /\ c.at = IF r = "on" THEN p - 1 ELSE p + 1
        <5>1. Pos(th) = p
          BY <2>p
        <5> HIDE DEF th
        <5> QED BY <1>3, <5>1
      <4> QED BY <1>16, <4>1
    <3> QED BY <3>1, <3>2
  <2>1. d = [svc |-> c.svc, at |-> p, req |-> c.req]
    <3>1. r = "on" => c.at + 1 = p
      BY <2>0
    <3>2. r = "again" => c.at - 1 = p
      BY <2>0
    <3> QED BY <1>12, <2>0, <3>1, <3>2
  <2>2. c.svc \in DOMAIN ClientScript /\ c.req \in 0 .. MostRequests
    BY <1>5 DEF ClientState
  <2>3. p \in 1 .. 6
    BY <2>0, <2>2, ClientSteps
  <2>4. d \in ClientState /\ d.svc = c.svc /\ d.req = c.req /\ d.at = p
    BY <1>5, <2>1, <2>2, <2>3 DEF ClientState
  <2>5. Messages(k, p)'
    <3>1. p .. p - 1 = {}
      BY <2>0
    <3> QED BY <1>11, <2>4, <3>1 DEF Messages
  <2>6. Low(th)' = p /\ Pos(th)' = p /\ Low(th) = p
    BY <1>8, <2>0, <2>p DEF Low, Late, Pos
  <2>7. Aligned(k)'
    <3>1. p >= p
      BY <2>0
    <3> QED BY <1>8, <1>9, <1>11, <2>0, <2>4, <2>5, <2>6, <3>1 DEF Aligned, Does
  <2>8. Conversation(k)'
    BY <1>2, <1>4, <1>6, <1>8, <1>16, <1>11, <2>4, <2>6, <2>7 DEF SlotRight, Conversation
  <2>9. Asking(k)'
    BY <1>2, <1>4, <1>8, <1>9, <1>11, <2>0, <2>4 DEF SlotRight, Asking, Busy
  <2>10. Known(k)'
    <3>1. (logged'[k] <=> logged[k]) /\ account'[k] = account[k] /\ ~AtAccount(k)'
      BY <1>2, <1>8, <1>9, <2>0
    <3> QED BY <1>4, <1>9, <2>0, <3>1 DEF SlotRight, Known
  <2> QED BY <1>13, <1>14, <2>4, <2>8, <2>9, <2>10
<1>15. CASE ~Serving(k)
  <2>1. r \in {"in", "end", "welcome"}
    BY <1>3, <1>15
  <2>2. d.svc = IF r = "in" THEN "inroom" ELSE "none"
    BY <1>5, <1>12, <2>1 DEF ClientState
  <2>3. d \in ClientState
    <3>0. c.req \in 0 .. MostRequests /\ c.at \in 1 .. 6 /\ d = [svc |-> IF r = "in" THEN "inroom" ELSE "none", at |-> c.at, req |-> c.req]
      BY <1>5, <1>12, <2>1 DEF ClientState
    <3>1. {"none", "inroom"} \subseteq DOMAIN ClientScript
      BY DEF ClientScript
    <3> QED BY <3>0, <3>1 DEF ClientState
  <2>4. Conversation(k)'
    BY <1>8, <1>15 DEF Conversation
  <2>5. Asking(k)'
    BY <1>2, <1>4, <1>6, <1>8, <1>9, <1>11, <2>2 DEF SlotRight, Asking
  <2>6. Known(k)'
    BY <1>2, <1>3, <1>4, <1>6, <1>8, <1>9, <1>11, <2>2 DEF SlotRight, Known
  <2> QED BY <1>13, <1>14, <2>3, <2>4, <2>5, <2>6
<1> QED BY <1>16, <1>15


-----------------------------------------------------------------------------
(***************************************************************************)
(* The receive loop.                                                       *)
(***************************************************************************)

LEMMA SelectRight ==
    ASSUME MailInv, Select
    PROVE  MailInv'
<1>1. /\ loop' = "scan" /\ todo' \subseteq Slots /\ todo' # {}
      /\ UNCHANGED <<clientVars, account, roomNum, net, replies, buf, ready, past, threads, sent, got>>
  BY DEF Select
<1>2. TypeOK'
  BY <1>1 DEF MailInv, TypeOK
<1>3. ASSUME NEW j \in Slots PROVE SlotRight(j)'
  BY <1>1, Frame DEF MailInv, Checking
<1> QED BY <1>2, <1>3 DEF MailInv

LEMMA ReceiveRight ==
    ASSUME MailInv, Receive, past = {}, past' = {}
    PROVE  MailInv'
<1>1. PICK k \in Slots : k = Scanned /\ k \in todo
  BY ScannedIsIn DEF Receive, MailInv, TypeOK
<1>2. /\ loop = "scan" /\ ready[k] # 1 /\ loop' = "check" /\ ready' = [ready EXCEPT ![k] = 1]
      /\ UNCHANGED <<clientVars, account, roomNum, replies, todo, threads, sent, got>>
  BY <1>1 DEF Receive
<1>p. past' = past
  OBVIOUS
<1>3. /\ net \in [Slots -> Seq(Requests)] /\ buf \in [Slots -> Seq(Requests)]
      /\ ready \in [Slots -> {-1, 0, 1}] /\ net[k] \in Seq(Requests)
      /\ sent[k] \in Seq(Requests) /\ got[k] \in Seq(Requests)
  BY DEF MailInv, TypeOK
<1>4. /\ buf' = [buf EXCEPT ![k] = SubSeq(net[k], 1, 1)]
      /\ net' = [net EXCEPT ![k] = SubSeq(@, 2, Len(@))] /\ net[k] # <<>>
  <2>1. PICK n \in 1 .. Len(net[k]) :
           /\ past' = IF n > 1 THEN past \cup {"coalesced"} ELSE past
           /\ buf' = [buf EXCEPT ![k] = SubSeq(net[k], 1, n)]
           /\ net' = [net EXCEPT ![k] = SubSeq(@, n + 1, Len(@))]
    BY <1>1 DEF Receive
  <2>2. Len(net[k]) \in Nat
    BY <1>3, LenProperties
  <2>3. n = 1 /\ Len(net[k]) # 0
    <3>1. n > 1 => "coalesced" \in past'
      BY <2>1
    <3>2. ~(n > 1)
      BY <3>1
    <3> QED BY <2>1, <2>2, <3>2
  <2>4. net[k] # <<>>
    BY <1>3, <2>3, EmptySeq
  <2> QED BY <2>1, <2>3, <2>4
<1>5. PICK m \in Requests : m = net[k][1]
  BY <1>3, <1>4, EmptySeq, LenProperties, ElementOfSeq
<1>6. PICK n \in Seq(Requests) : n = SubSeq(net[k], 2, Len(net[k]))
  BY <1>3, <1>4, FirstAndRest
<1>7. /\ buf'[k] \in Seq(Requests) /\ Len(buf'[k]) = 1 /\ Head(buf'[k]) = m /\ buf'[k] # <<>>
      /\ net'[k] = n /\ ready'[k] = 1
      /\ \A j \in Slots \ {k} : buf'[j] = buf[j] /\ net'[j] = net[j] /\ ready'[j] = ready[j]
  <2>1. buf'[k] = SubSeq(net[k], 1, 1) /\ net'[k] = n /\ ready'[k] = 1
    BY <1>2, <1>3, <1>4, <1>6
  <2>2. buf'[k] \in Seq(Requests) /\ Len(buf'[k]) = 1 /\ Head(buf'[k]) = m
    BY <1>3, <1>4, <1>5, <2>1, FirstAndRest
  <2>3. buf'[k] # <<>>
    BY <2>2, EmptySeq
  <2> QED BY <1>2, <1>3, <1>4, <2>1, <2>2, <2>3
<1>8. /\ DOMAIN net[k] = 1 .. Len(net[k]) /\ Len(net[k]) \in Nat \ {0}
      /\ DOMAIN n = 1 .. Len(net[k]) - 1 /\ \A i \in DOMAIN n : n[i] = net[k][i + 1]
  BY <1>3, <1>4, <1>6, FirstAndRest, LenProperties, EmptySeq
<1>9. TypeOK'
  BY <1>1, <1>2, <1>3, <1>4, <1>6, <1>7, Zenon DEF MailInv, TypeOK
<1>10. Scanned' = Scanned /\ Checking(k)'
  BY <1>1, <1>2 DEF Checking, Scanned
<1>11. \A j \in Slots \ {k} : Untouched(j)
  BY <1>1, <1>2, <1>7, <1>10 DEF Untouched, Checking
<1>12. SlotRight(k) /\ replies[k] = <<>>
  BY <1>4 DEF MailInv, SlotRight, Replied
<1>13. /\ Server(k)' = Server(k) /\ (AtAccount(k)' <=> AtAccount(k)) /\ (Serving(k)' <=> Serving(k))
       /\ First(k)' = m
       /\ (HasType(k, "service")' <=> m.kind = "service") /\ (HasType(k, "message")' <=> m.kind = "message")
       /\ \A a : Asked(k, a)' <=> Asked(k, a)
  <2>1. Server(k)' = Server(k) /\ (AtAccount(k)' <=> AtAccount(k)) /\ (Serving(k)' <=> Serving(k))
    BY <1>2 DEF Server, AtAccount, Serving, Does
  <2>2. \A a : Asked(k, a)' <=> Asked(k, a)
    BY <1>2, <2>1 DEF Asked, Messages
  <2> QED BY <1>7, <2>1, <2>2 DEF First, HasType
<1>14. /\ m.req <= client[k].req
       /\ m.req = client[k].req => m.svc = client[k].svc /\ m.at < client[k].at
       /\ m.kind = "service" => Asked(k, m)
       /\ \A i \in DOMAIN n : Before(m, n[i])
  <2>1. 1 \in DOMAIN net[k] /\ \A i \in DOMAIN n : i + 1 \in DOMAIN net[k] /\ 1 < i + 1
    BY <1>8
  <2> QED BY <1>5, <1>8, <1>12, <2>1 DEF SlotRight, Stream
<1>15. \A i \in DOMAIN n : i + 1 \in DOMAIN net[k]
  BY <1>8
<1>16. ThreadsRight(k)' /\ Mailed(k)'
  BY <1>2, <1>7, <1>12, <1>13 DEF SlotRight, ThreadsRight, ThreadRight, Does, Mailed
<1>17. Stream(k)'
  <2>1. ASSUME NEW i \in DOMAIN n, NEW j \in DOMAIN n, i < j PROVE Before(n[i], n[j])
    <3>1. i + 1 < j + 1
      BY <1>8, <2>1
    <3> QED BY <1>8, <1>12, <1>15, <3>1 DEF SlotRight, Stream
  <2>2. ASSUME NEW i \in DOMAIN n
        PROVE  /\ n[i].req <= client[k].req
               /\ n[i].req = client[k].req => n[i].svc = client[k].svc /\ n[i].at < client[k].at
               /\ n[i].kind = "service" => Asked(k, n[i])
    BY <1>8, <1>12, <1>15 DEF SlotRight, Stream
  <2>3. ASSUME NEW i \in DOMAIN n, n[i].kind = "service" PROVE Asked(k, n[i])'
    BY <1>13, <2>2, <2>3
  <2>4. m.kind = "service" => Asked(k, m)'
    BY <1>13, <1>14
  <2> QED BY <1>2, <1>7, <1>13, <1>14, <2>1, <2>2, <2>3, <2>4 DEF Stream, Asked, Before
<1>18. Asking(k)'
  BY <1>2, <1>12, <1>13 DEF SlotRight, Asking, Busy
<1>19. Replied(k)'
  BY <1>2, <1>12 DEF Replied
<1>20. Conversation(k)'
  <2> SUFFICES ASSUME Serving(k) PROVE Conversation(k)'
    BY <1>13 DEF Conversation
  <2>1. m.kind = "message"
    BY <1>14, RequestIs DEF Asked
  <2>2. m.req = client[k].req /\ m.at >= Low(Server(k)) /\ m.at < client[k].at
    BY <1>5, <1>8, <1>12, <1>14 DEF SlotRight, Conversation
  <2>3. ASSUME NEW i \in DOMAIN n
        PROVE  n[i].req = client[k].req /\ n[i].at >= Low(Server(k)) /\ m.at < n[i].at
    <3>1. n[i].req = client[k].req /\ n[i].at >= Low(Server(k))
      BY <1>8, <1>12, <1>15 DEF SlotRight, Conversation
    <3>2. n[i] \in Requests /\ m.req \in Nat
      BY RequestIs, MostIsBound, ElementOfSeq, LenProperties
    <3> QED BY <1>14, <2>2, <3>1, <3>2 DEF Before
  <2>4. Aligned(k)'
    BY <1>2, <1>12, <1>13 DEF SlotRight, Conversation, Aligned, Low, Late, Pos, Does, Messages, Op
  <2>5. Low(Server(k))' = Low(Server(k))
    BY <1>13 DEF Low, Late, Pos
  <2> QED BY <1>2, <1>7, <1>12, <1>13, <2>1, <2>2, <2>3, <2>4, <2>5 DEF SlotRight, Conversation
<1>21. InOrder(k)'
  <2> SUFFICES ASSUME k \in OwnSlots PROVE InOrder(k)'
    BY DEF InOrder
  <2>1. Server(k).phase \notin {"copy", "lower"} /\ Kept(k) = 0 /\ Kept(k)' = 1
    BY <1>2, <1>7, <1>12, <1>13 DEF SlotRight, InOrder, Kept
  <2>2. Handed(sent[k], got[k], 1, m, n)
    BY <1>3, <1>4, <1>5, <1>6, <1>12, <2>1, HandedReceive DEF SlotRight, InOrder
  <2> QED BY <1>2, <1>7, <1>13, <2>1, <2>2 DEF InOrder
<1>22. Known(k)'
  BY <1>2, <1>12, <1>13 DEF SlotRight, Known
<1> QED BY <1>9, <1>11, <1>16, <1>17, <1>18, <1>19, <1>20, <1>21, <1>22, OneSlot DEF SlotRight


\* A SERVICE that the loop reads: the client has no thread left that reads or
\* answers, and what it has sent after it belongs to the same request.
LEMMA ServiceIs ==
    ASSUME MailInv, NEW k \in Slots, Checking(k), HasType(k, "service")
    PROVE  /\ First(k) \in Requests /\ Len(buf[k]) = 1 /\ Asked(k, First(k)) /\ First(k).kind = "service"
           /\ First(k).at = 1 /\ First(k).svc \in Services \ {"connect"}
           /\ Server(k).phase \notin {"copy", "lower", "clear", "tail"}
           /\ Server(k).phase = "end" \/ (~account[k] /\ logged[k])
           /\ \A i \in DOMAIN net[k] : /\ net[k][i] \in Requests /\ net[k][i].kind # "service"
                                       /\ net[k][i].req = client[k].req /\ net[k][i].at >= 2
<1> DEFINE m == First(k)
           th == Server(k)
<1>1. /\ SlotRight(k) /\ buf[k] \in Seq(Requests) /\ net[k] \in Seq(Requests)
      /\ client[k].req \in Nat
  BY MostIsBound DEF MailInv, TypeOK, ClientState
<1>2. buf[k] # <<>> /\ m.kind = "service" /\ Len(buf[k]) <= 1
  BY <1>1 DEF HasType, First, SlotRight, Mailed
<1>3. m \in Requests /\ Len(buf[k]) = 1
  <2>1. Len(buf[k]) \in Nat \ {0}
    BY <1>1, <1>2, EmptySeq, LenProperties
  <2>2. \A n \in Nat \ {0} : n <= 1 => n = 1
    OBVIOUS
  <2>4. Len(buf[k]) = 1
    BY <1>2, <2>1, <2>2, Zenon
  <2>5. buf[k][1] \in Requests /\ Head(buf[k]) = buf[k][1]
    BY <1>1, <2>4, OnlyOne
  <2> QED BY <2>4, <2>5 DEF First
<1>4. Asked(k, m) /\ \A i \in DOMAIN net[k] : Before(m, net[k][i])
  BY <1>1 DEF SlotRight, Stream
<1>5. m.at = 1 /\ m.svc \in Services \ {"connect"}
  BY <1>2, <1>3, RequestIs
<1>6. th.phase = "end" \/ Does(th) = "account"
  BY <1>4 DEF Asked, Serving, AtAccount
<1>7. th.phase \notin {"copy", "lower", "clear", "tail"}
  <2>1. th.phase \in {"copy", "lower", "clear", "tail"} => Does(th) = "get"
    BY <1>1, ServerIs DEF MailInv, SlotRight, ThreadRight, Server
  <2> QED BY <1>6, <2>1
<1>8. th.phase = "end" \/ (~account[k] /\ logged[k])
  <2>1. th.phase # "end" => th.svc = "connect" /\ AtAccount(k)
    BY <1>1, <1>6, ServerIs, ServerSteps DEF MailInv, SlotRight, Does, AtAccount
  <2> QED BY <1>1, <1>4, <2>1 DEF SlotRight, Asking, Asked
<1>9. ASSUME NEW i \in DOMAIN net[k]
      PROVE  /\ net[k][i] \in Requests /\ net[k][i].kind # "service"
             /\ net[k][i].req = client[k].req /\ net[k][i].at >= 2
  <2>1. PICK n \in Requests : n = net[k][i]
    BY <1>1, ElementOfSeq, LenProperties
  <2>2. n.req \in Nat /\ n.at \in Nat /\ (n.kind = "service" => n.at = 1)
    BY RequestIs, MostIsBound
  <2>3. n.req <= client[k].req /\ (client[k].req < n.req \/ (client[k].req = n.req /\ 1 < n.at))
    BY <1>1, <1>4, <1>5, <2>1 DEF SlotRight, Stream, Before, Asked
  <2>4. n.req = client[k].req /\ n.at >= 2 /\ n.kind # "service"
    BY <1>1, <2>2, <2>3
  <2> QED BY <2>1, <2>4
<1> QED BY <1>2, <1>3, <1>4, <1>5, <1>7, <1>8, <1>9

\* What the loop's getMessage of a SERVICE does to the mailbox
LEMMA ServiceRead ==
    ASSUME MailInv, NEW k \in Slots, Checking(k), HasType(k, "service"),
           UNCHANGED <<clientVars, account, net, replies, buf, sent>>,
           got' = [got EXCEPT ![k] = Append(@, First(k))], ready' = [ready EXCEPT ![k] = FlagAfter(k)],
           Server(k)'.phase \notin {"lower", "copy"}, ~Checking(k)'
    PROVE  /\ got' \in [Slots -> Seq(Requests)] /\ ready' \in [Slots -> {-1, 0, 1}]
           /\ ready'[k] = -1 /\ Mailed(k)' /\ InOrder(k)'
           /\ \A j \in Slots \ {k} : got'[j] = got[j] /\ ready'[j] = ready[j]
<1>1. PICK m \in Requests : m = First(k)
  BY ServiceIs
<1>2. /\ got \in [Slots -> Seq(Requests)] /\ ready \in [Slots -> {-1, 0, 1}] /\ got[k] \in Seq(Requests)
      /\ sent[k] \in Seq(Requests) /\ net[k] \in Seq(Requests) /\ SlotRight(k)
  BY DEF MailInv, TypeOK
<1>3. FlagAfter(k) = -1
  BY ServiceIs DEF FlagAfter
<1>4. /\ got'[k] = Append(got[k], m) /\ ready'[k] = -1
      /\ \A j \in Slots \ {k} : got'[j] = got[j] /\ ready'[j] = ready[j]
  BY <1>1, <1>2, <1>3
<1>5. got' \in [Slots -> Seq(Requests)] /\ ready' \in [Slots -> {-1, 0, 1}]
  <2>1. Append(got[k], m) \in Seq(Requests)
    BY <1>2, AppendIs
  <2> QED BY <1>1, <1>2, <1>3, <2>1
<1>6. Mailed(k)'
  BY <1>2, <1>4 DEF SlotRight, Mailed
<1>7. InOrder(k)'
  <2> SUFFICES ASSUME k \in OwnSlots PROVE InOrder(k)'
    BY DEF InOrder
  <2>1. Kept(k) = 1 /\ Kept(k)' = 0
    BY <1>2, <1>4, ServiceIs DEF SlotRight, InOrder, Kept
  <2>2. Handed(sent[k], got[k], 1, m, net[k])
    BY <1>1, <1>2, <2>1 DEF SlotRight, InOrder
  <2>3. Handed(sent[k], Append(got[k], m), 0, m, net[k])
    BY <1>2, <2>2, HandedRead
  <2>4. First(k)' = m
    BY <1>1 DEF First
  <2> QED BY <1>4, <2>1, <2>3, <2>4 DEF InOrder
<1> QED BY <1>4, <1>5, <1>6, <1>7

\* A SERVICE that needs an account its client does not have: nothing moves
\* after it.
LEMMA CrashRight ==
    ASSUME MailInv, NEW k \in Slots, Checking(k), HasType(k, "service"),
           UNCHANGED <<clientVars, account, roomNum, net, replies, buf, past, threads, sent>>,
           got' = [got EXCEPT ![k] = Append(@, First(k))], ready' = [ready EXCEPT ![k] = FlagAfter(k)],
           loop' = "crash", todo' \subseteq Slots
    PROVE  MailInv'
<1>1. \A j \in Slots : ~Checking(j)'
  BY DEF Checking
<1>2. Server(k)' = Server(k) /\ (AtAccount(k)' <=> AtAccount(k)) /\ (Serving(k)' <=> Serving(k))
      /\ ~Serving(k) /\ SlotRight(k) /\ replies[k] = <<>>
      /\ \A i \in DOMAIN net[k] : net[k][i].kind # "service"
  BY ServiceIs DEF Server, AtAccount, Serving, Does, MailInv, Asked
<1>3. /\ got' \in [Slots -> Seq(Requests)] /\ ready' \in [Slots -> {-1, 0, 1}]
      /\ ready'[k] = -1 /\ Mailed(k)' /\ InOrder(k)'
      /\ \A j \in Slots \ {k} : got'[j] = got[j] /\ ready'[j] = ready[j]
  BY <1>1, <1>2, ServiceIs, ServiceRead, Zenon
<1>4. TypeOK'
  BY <1>3 DEF MailInv, TypeOK
<1>5. \A j \in Slots \ {k} : Untouched(j)
  BY <1>1, <1>3 DEF Untouched
<1>6. ThreadsRight(k)'
  BY <1>2 DEF SlotRight, ThreadsRight, ThreadRight, Does
<1>7. Stream(k)'
  BY <1>1, <1>2 DEF SlotRight, Stream
<1>8. Asking(k)' /\ Known(k)'
  BY <1>2 DEF SlotRight, Asking, Known, Busy
<1>9. Replied(k)' /\ Conversation(k)'
  BY <1>2 DEF Replied, Conversation
<1> QED BY <1>3, <1>4, <1>5, <1>6, <1>7, <1>8, <1>9, OneSlot DEF SlotRight

\* Any other SERVICE gets a thread.
LEMMA StartRight ==
    ASSUME MailInv, NEW k \in Slots, Checking(k), HasType(k, "service"),
           ~(NeedsAccount(First(k).svc) /\ ~account[k]),
           UNCHANGED <<clientVars, account, roomNum, net, replies, buf, past, sent>>,
           got' = [got EXCEPT ![k] = Append(@, First(k))], ready' = [ready EXCEPT ![k] = FlagAfter(k)],
           threads' = [threads EXCEPT ![k] = Append(@, Thread(k, First(k), "born"))],
           loop' \in {"select", "scan"}, todo' \subseteq Slots, loop' = "scan" => todo' # {}
    PROVE  MailInv'
<1>1. PICK m \in Requests : m = First(k)
  BY ServiceIs
<1>2. /\ m.kind = "service" /\ m.at = 1 /\ m.svc \in Services \ {"connect"} /\ m.req \in 0 .. MostRequests
      /\ m.req = client[k].req /\ m.svc = client[k].svc /\ 1 < client[k].at
      /\ ~Serving(k) /\ replies[k] = <<>> /\ Messages(k, 2)
  BY <1>1, ServiceIs, RequestIs DEF Asked
<1>3. SlotRight(k) /\ threads \in [Slots -> Seq(ThreadState)] /\ threads[k] \in Seq(ThreadState)
      /\ client[k] \in ClientState
  BY DEF MailInv, TypeOK
<1>4. Server(k).phase = "end"
  <2>1. m.svc \in {"signup", "login", "newRoom", "joinRoom"}
    BY <1>2 DEF Services
  <2>2. m.svc \in {"signup", "login"} => ~logged[k]
    BY <1>2, <1>3 DEF SlotRight, Asking
  <2> QED BY <1>1, <2>1, <2>2, ServiceIs DEF NeedsAccount
<1>5. PICK th : th = Thread(k, m, "born")
  OBVIOUS
<1>6. /\ th.req = m.req /\ th.svc = m.svc /\ th.idx = k /\ th.at = 1 /\ th.phase = "born" /\ th.took = <<>>
      /\ th \in ThreadState
  BY <1>2, <1>5 DEF Thread, ThreadState, Phases
<1>7. 1 \in DOMAIN ServerScript[th.svc] /\ ServerScript[th.svc][1] # "account"
  BY <1>2, <1>6, FirstSteps
<1>l. PICK l \in Nat : l = Len(threads[k])
  BY <1>3, LenProperties
<1>8. /\ threads' = [threads EXCEPT ![k] = Append(threads[k], th)] /\ threads'[k] = Append(threads[k], th)
      /\ \A j \in Slots \ {k} : threads'[j] = threads[j]
      /\ Len(threads'[k]) = l + 1 /\ threads'[k] # <<>>
      /\ DOMAIN threads'[k] = 1 .. l + 1 /\ threads'[k] \in Seq(ThreadState)
      /\ \A i \in 1 .. l : threads'[k][i] = threads[k][i]
      /\ threads'[k][l + 1] = th
      /\ DOMAIN threads[k] = 1 .. l
  <2>1. threads' = [threads EXCEPT ![k] = Append(threads[k], th)] /\ threads'[k] = Append(threads[k], th)
        /\ \A j \in Slots \ {k} : threads'[j] = threads[j]
    BY <1>1, <1>3, <1>5
  <2>2. DOMAIN threads[k] = 1 .. l
    BY <1>3, <1>l, LenProperties
  <2> DEFINE s == threads[k]
  <2>3. /\ Append(s, th) \in Seq(ThreadState) /\ Len(Append(s, th)) = l + 1 /\ Append(s, th) # <<>>
        /\ DOMAIN Append(s, th) = 1 .. l + 1
        /\ \A i \in 1 .. l : Append(s, th)[i] = s[i]
        /\ Append(s, th)[l + 1] = th
    <3>1. s \in Seq(ThreadState) /\ l = Len(s)
      BY <1>3, <1>l
    <3> HIDE DEF s
    <3> QED BY <1>6, <3>1, AppendIs
  <2> QED BY <2>1, <2>2, <2>3
<1>9. Server(k)' = th
  BY <1>8 DEF Server
<1>10. \A j \in Slots : ~Checking(j)'
  BY DEF Checking
<1>11. /\ got' \in [Slots -> Seq(Requests)] /\ ready' \in [Slots -> {-1, 0, 1}]
       /\ ready'[k] = -1 /\ Mailed(k)' /\ InOrder(k)'
       /\ \A j \in Slots \ {k} : got'[j] = got[j] /\ ready'[j] = ready[j]
  BY <1>6, <1>9, <1>10, ServiceRead
<1>12. TypeOK'
  <2>1. threads' \in [Slots -> Seq(ThreadState)]
    BY <1>3, <1>8
  <2> QED BY <1>11, <2>1 DEF MailInv, TypeOK
<1>13. \A j \in Slots \ {k} : Untouched(j)
  BY <1>8, <1>10, <1>11 DEF Untouched
<1>14. ThreadsRight(k)'
  <2>1. ASSUME NEW i \in 1 .. l PROVE ThreadRight(k, i)'
    <3>1. ThreadRight(k, i) /\ threads'[k][i] = threads[k][i]
      BY <1>3, <1>8 DEF SlotRight, ThreadsRight
    <3>2. threads[k][i].phase = "end"
      <4>1. i # l => threads[k][i].phase = "end"
        BY <1>l, <3>1 DEF ThreadRight
      <4> QED BY <1>4, <1>l, <4>1 DEF Server
    <3> QED BY <3>1, <3>2 DEF ThreadRight, Does
  <2>2. ThreadRight(k, l + 1)'
    BY <1>6, <1>7, <1>8 DEF ThreadRight
  <2>3. \A i \in DOMAIN threads'[k] : i = l + 1 \/ i \in 1 .. l
    BY <1>8, <1>l
  <2> QED BY <1>8, <2>1, <2>2, <2>3 DEF ThreadsRight
<1>15. Stream(k)'
  BY <1>1, <1>3, <1>10, ServiceIs DEF SlotRight, Stream
<1>16. ~AtAccount(k)' /\ Serving(k)'
  BY <1>6, <1>7, <1>9 DEF AtAccount, Serving, Does
<1>17. Asking(k)' /\ Known(k)'
  <2>1. ~AtAccount(k)
    BY <1>4 DEF AtAccount
  <2> QED BY <1>2, <1>3, <1>6, <1>9, <1>16, <2>1 DEF SlotRight, Asking, Known, Busy
<1>18. Replied(k)'
  BY <1>2 DEF Replied
<1>19. Conversation(k)'
  <2>1. Pos(th) = 2 /\ Low(th) = 2 /\ Does(th) = ServerScript[th.svc][1]
    BY <1>2, <1>6 DEF Pos, Low, Late, Does
  <2>2. /\ 2 \in DOMAIN ClientScript[m.svc]
        /\ ClientScript[m.svc][2] = IF ServerScript[m.svc][1] = "get" THEN "message" ELSE "await"
    BY <1>2, <1>6, <1>7, StepsMatch
  <2>3. client[k].at \in Nat
    BY <1>3 DEF ClientState
  <2>4. Does(th) # "get" => client[k].at = 2
    <3>0. PICK a \in Nat : a = client[k].at /\ 1 < a
      BY <1>2, <2>3
    <3>1. \A j \in 2 .. a - 1 : ClientScript[m.svc][j] = "message"
      BY <1>2, <3>0 DEF Messages
    <3>2. a # 2 => 2 \in 2 .. a - 1
      BY <3>0
    <3>3. a # 2 => ServerScript[m.svc][1] = "get"
      <4>1. a # 2 => ClientScript[m.svc][2] = "message"
        BY <3>1, <3>2
      <4>2. "message" # "await"
        OBVIOUS
      <4> QED BY <2>2, <4>1, <4>2, Zenon
    <3> QED BY <1>6, <2>1, <3>0, <3>3, Zenon
  <2>5. client[k].at >= 2
    BY <1>2, <2>3
  <2>6. Aligned(k)'
    BY <1>2, <1>9, <2>1, <2>4, <2>5 DEF Aligned, Messages, Does, Pos, Low, Late
  <2>7. ~HasType(k, "message")'
    BY <1>1, <1>2 DEF HasType, First
  <2>8. First(k)' = m
    BY <1>1 DEF First
  <2>9. \A i \in DOMAIN net[k] : net[k][i].req = client[k].req /\ net[k][i].at >= Low(th)
    BY <2>1, ServiceIs
  <2>10. Low(Server(k))' = Low(th)
    BY <1>9 DEF Low, Late, Pos
  <2> QED BY <1>2, <1>6, <1>9, <2>6, <2>7, <2>8, <2>9, <2>10 DEF Conversation
<1> QED BY <1>11, <1>12, <1>13, <1>14, <1>15, <1>17, <1>18, <1>19, OneSlot DEF SlotRight

LEMMA CheckRight ==
    ASSUME MailInv, Check, past = {}, past' = {}
    PROVE  MailInv'
<1>1. PICK k \in Slots : k = Scanned /\ k \in todo /\ Checking(k)
  BY ScannedIsIn DEF Check, MailInv, TypeOK, Checking
<1>2. PICK go : /\ go = IF todo = {k} THEN "select" ELSE "scan"
                /\ go \in {"select", "scan"} /\ (go = "scan" => todo \ {k} # {})
  BY <1>1
<1>3. /\ todo' = todo \ {k} /\ UNCHANGED <<clientVars, account, roomNum, net, replies, buf, sent>>
      /\ \/ HasType(k, "service") /\ Serve(k, threads, "born", go) /\ past' = past
         \/ loop' = go /\ UNCHANGED <<ready, got, threads, past>>
  <2>1. \/ /\ HasType(k, "service") /\ Serve(k, Reused(k), "born", go)
           /\ past' = IF Reused(k) = threads THEN past ELSE past \cup {"late"}
        \/ loop' = go /\ UNCHANGED <<ready, got, threads, past>>
    BY <1>1, <1>2 DEF Check, SaysService
  <2>2. \/ HasType(k, "service") /\ Serve(k, Reused(k), "born", go) /\ past' = past /\ Reused(k) = threads
        \/ loop' = go /\ UNCHANGED <<ready, got, threads, past>>
    BY <2>1
  <2> QED BY <1>1, <2>2 DEF Check
<1>4. todo' \subseteq Slots /\ (go = "scan" => todo' # {})
  BY <1>2, <1>3 DEF MailInv, TypeOK
<1>5. CASE loop' = go /\ UNCHANGED <<ready, got, threads, past>>
  <2>1. TypeOK'
    BY <1>2, <1>3, <1>4, <1>5 DEF MailInv, TypeOK
  <2>2. ASSUME NEW j \in Slots PROVE SlotRight(j)'
    BY <1>2, <1>3, <1>5, Frame DEF MailInv, Checking
  <2> QED BY <2>1, <2>2 DEF MailInv
<1>6. CASE HasType(k, "service") /\ Serve(k, threads, "born", go) /\ past' = past
  <2>1. /\ got' = [got EXCEPT ![k] = Append(@, First(k))] /\ ready' = [ready EXCEPT ![k] = FlagAfter(k)]
        /\ IF NeedsAccount(First(k).svc) /\ ~account[k]
             THEN loop' = "crash" /\ threads' = threads
             ELSE loop' = go /\ threads' = [threads EXCEPT ![k] = Append(@, Thread(k, First(k), "born"))]
    BY <1>6 DEF Serve, First
  <2>2. CASE NeedsAccount(First(k).svc) /\ ~account[k]
    BY <1>1, <1>3, <1>4, <1>6, <2>1, <2>2, CrashRight
  <2>3. CASE ~(NeedsAccount(First(k).svc) /\ ~account[k])
    BY <1>1, <1>2, <1>3, <1>4, <1>6, <2>1, <2>3, StartRight
  <2> QED BY <2>2, <2>3
<1> QED BY <1>3, <1>5, <1>6


-----------------------------------------------------------------------------
(***************************************************************************)
(* The threads.  The only one that moves is the last of its connection.    *)
(***************************************************************************)

LEMMA ThreadIs ==
    ASSUME MailInv, NEW c \in Slots, NEW i \in DOMAIN threads[c], threads[c][i].phase # "end"
    PROVE  /\ i = Len(threads[c]) /\ threads[c][i] = Server(c) /\ Idx(c, i) = c
           /\ Step(c, i) = Does(Server(c)) /\ SlotRight(c) /\ TypeOK
<1>1. SlotRight(c) /\ TypeOK /\ ThreadRight(c, i)
  BY DEF MailInv, SlotRight, ThreadsRight
<1>2. i = Len(threads[c])
  BY <1>1 DEF ThreadRight
<1>3. threads[c][i] = Server(c) /\ Idx(c, i) = c
  BY <1>1, <1>2, ServerIs DEF SlotRight, Server, Idx
<1> QED BY <1>1, <1>2, <1>3 DEF Step, Does

\* What is left to show of a thread that goes on as th
LEMMA Replaced ==
    ASSUME MailInv, NEW c \in Slots, NEW th \in ThreadState,
           threads' = [threads EXCEPT ![c][Len(threads[c])] = th],
           th.idx = c, th.took \in {<<>>, <<c, th.req>>}, th.at \in DOMAIN ServerScript[th.svc],
           th.phase \in {"copy", "lower", "clear", "tail"} => Does(th) = "get",
           th.phase = "making" => th.svc = "newRoom" /\ Does(th) = "last"
    PROVE  /\ threads' \in [Slots -> Seq(ThreadState)] /\ ThreadsRight(c)' /\ Server(c)' = th
           /\ \A j \in Slots \ {c} : threads'[j] = threads[j]
           /\ AtAccount(c)' <=> th.phase # "end" /\ Does(th) = "account"
           /\ Serving(c)' <=> th.phase # "end" /\ Does(th) # "account"
           /\ Pos(Server(c))' = Pos(th) /\ Low(Server(c))' = Low(th)
<1>1. SlotRight(c) /\ threads \in [Slots -> Seq(ThreadState)] /\ threads[c] \in Seq(ThreadState)
  BY DEF MailInv, TypeOK
<1>2. PICK l \in Nat \ {0} : l = Len(threads[c]) /\ DOMAIN threads[c] = 1 .. l
  BY <1>1, ServerIs DEF MailInv, SlotRight
<1>3. PICK ts : ts = [threads[c] EXCEPT ![l] = th]
  OBVIOUS
<1>4. /\ ts \in Seq(ThreadState) /\ Len(ts) = l /\ DOMAIN ts = 1 .. l /\ ts[l] = th
      /\ \A i \in 1 .. l : i # l => ts[i] = threads[c][i]
  BY <1>1, <1>2, <1>3, ExceptSeq
<1>5. threads' = [threads EXCEPT ![c] = ts] /\ threads'[c] = ts
      /\ \A j \in Slots \ {c} : threads'[j] = threads[j]
  BY <1>1, <1>2, <1>3
<1>6. threads' \in [Slots -> Seq(ThreadState)]
  BY <1>1, <1>4, <1>5
<1>7. Server(c)' = th
  BY <1>4, <1>5 DEF Server
<1>8. ThreadsRight(c)'
  <2>1. ts # <<>>
    BY <1>2, <1>4, EmptySeq
  <2>2. ASSUME NEW i \in 1 .. l, i # l PROVE ThreadRight(c, i)'
    <3>1. ThreadRight(c, i) /\ threads'[c][i] = threads[c][i]
      BY <1>1, <1>2, <1>4, <1>5, <2>2 DEF SlotRight, ThreadsRight
    <3>2. threads[c][i].phase = "end"
      BY <1>2, <2>2, <3>1 DEF ThreadRight
    <3> QED BY <3>1, <3>2 DEF ThreadRight, Does
  <2>3. ThreadRight(c, l)'
    BY <1>4, <1>5 DEF ThreadRight
  <2> QED BY <1>4, <1>5, <2>1, <2>2, <2>3 DEF ThreadsRight
<1>9. /\ AtAccount(c)' <=> th.phase # "end" /\ Does(th) = "account"
      /\ Serving(c)' <=> th.phase # "end" /\ Does(th) # "account"
  BY <1>7 DEF AtAccount, Serving, Does
<1>10. Pos(Server(c))' = Pos(th) /\ Low(Server(c))' = Low(th)
  BY <1>7 DEF Pos, Low, Late
<1> QED BY <1>5, <1>6, <1>7, <1>8, <1>9, <1>10


\* A thread that starts to run, or to make a room, is where it was.
LEMMA ShiftRight ==
    ASSUME MailInv, NEW c \in Slots, NEW i \in DOMAIN threads[c], NEW p \in {"run", "making"},
           threads[c][i].phase = IF p = "run" THEN "born" ELSE "run",
           p = "making" => Server(c).svc = "newRoom" /\ Does(Server(c)) = "last",
           threads' = [threads EXCEPT ![c][i].phase = p],
           UNCHANGED <<clientVars, account, roomNum, net, replies, buf, ready, loop, todo, past, sent, got>>
    PROVE  MailInv'
<1>1. threads[c][i].phase \in {"born", "run"}
  OBVIOUS
<1>2. i = Len(threads[c]) /\ threads[c][i] = Server(c) /\ SlotRight(c) /\ TypeOK
  BY <1>1, ThreadIs
<1>3. PICK th \in ThreadState : th = Server(c) /\ th.phase \in {"born", "run"} /\ th.idx = c
                                /\ th.at \in DOMAIN ServerScript[th.svc] /\ th.took \in {<<>>, <<c, th.req>>}
  BY <1>1, <1>2, ServerIs DEF SlotRight, ThreadRight, Server
<1>4. PICK new : new = [th EXCEPT !.phase = p]
  OBVIOUS
<1>5. /\ new \in ThreadState /\ new.phase = p /\ new.svc = th.svc /\ new.at = th.at
      /\ new.req = th.req /\ new.idx = th.idx /\ new.took = th.took
  BY <1>4 DEF ThreadState, Phases
<1>n. /\ new.idx = c /\ new.took \in {<<>>, <<c, new.req>>} /\ new.at \in DOMAIN ServerScript[new.svc]
      /\ new.phase \notin {"copy", "lower", "clear", "tail"}
      /\ new.phase = "making" => new.svc = "newRoom" /\ Does(new) = "last"
  BY <1>3, <1>5 DEF Does
<1>6. threads' = [threads EXCEPT ![c][Len(threads[c])] = new]
  BY <1>2, <1>3, <1>4
<1>7. /\ threads' \in [Slots -> Seq(ThreadState)] /\ ThreadsRight(c)' /\ Server(c)' = new
      /\ \A j \in Slots \ {c} : threads'[j] = threads[j]
      /\ AtAccount(c)' <=> new.phase # "end" /\ Does(new) = "account"
      /\ Serving(c)' <=> new.phase # "end" /\ Does(new) # "account"
      /\ Pos(Server(c))' = Pos(new) /\ Low(Server(c))' = Low(new)
  BY <1>5, <1>n, <1>6, Replaced
<1>8. TypeOK' /\ \A j \in Slots \ {c} : Untouched(j)
  BY <1>1, <1>2, <1>7, LoopStays DEF TypeOK, Untouched
<1>9. Does(new) = Does(th) /\ Pos(new) = Pos(th) /\ Low(new) = Low(th)
  BY <1>3, <1>5 DEF Does, Pos, Low, Late
<1>10. /\ (AtAccount(c)' <=> AtAccount(c)) /\ (Serving(c)' <=> Serving(c))
       /\ (Checking(c)' <=> Checking(c)) /\ (HasType(c, "service")' <=> HasType(c, "service"))
       /\ (HasType(c, "message")' <=> HasType(c, "message")) /\ First(c)' = First(c)
       /\ (Unread(c)' <=> Unread(c))
  BY <1>1, <1>3, <1>5, <1>7, <1>9, LoopStays, SMTT(20) DEF AtAccount, Serving, HasType, First, Unread
<1>11. Mailed(c)' /\ Stream(c)' /\ Asking(c)' /\ Replied(c)' /\ Known(c)'
  BY <1>1, <1>2, <1>3, <1>5, <1>7, <1>10
     DEF SlotRight, Mailed, Stream, Asked, Messages, Asking, Busy, Op, Replied, Known
<1>12. Conversation(c)'
  <2>1. Aligned(c)' <=> Aligned(c)
    BY <1>1, <1>3, <1>5, <1>7, <1>9 DEF Aligned, Messages, Op, Does
  <2> QED BY <1>1, <1>2, <1>3, <1>5, <1>7, <1>9, <1>10, <2>1 DEF SlotRight, Conversation
<1>13. InOrder(c)'
  <2>1. Kept(c)' = Kept(c)
    BY <1>1, <1>3, <1>5, <1>7 DEF Kept
  <2> QED BY <1>1, <1>2, <1>3, <1>5, <1>7, <1>10, <2>1 DEF SlotRight, InOrder
<1> QED BY <1>7, <1>8, <1>11, <1>12, <1>13, OneSlot DEF SlotRight

LEMMA BornRight ==
    ASSUME MailInv, NEW c \in Slots, NEW i \in DOMAIN threads[c], Born(c, i)
    PROVE  MailInv'
BY ShiftRight DEF Born, At

LEMMA SeeRight ==
    ASSUME MailInv, NEW c \in Slots, NEW i \in DOMAIN threads[c], See(c, i)
    PROVE  MailInv'
<1>1. /\ threads[c][i].phase = "run"
      /\ threads' = [threads EXCEPT ![c][i].phase = "copy"]
      /\ UNCHANGED <<clientVars, account, roomNum, net, replies, buf, ready, loop, todo, past, sent, got>>
  BY DEF See, At
<1>2. /\ i = Len(threads[c]) /\ threads[c][i] = Server(c) /\ SlotRight(c) /\ TypeOK
      /\ Does(Server(c)) = "get" /\ ready[c] = 1 /\ HasType(c, "message")
  BY <1>1, ThreadIs DEF See
<1>3. PICK th \in ThreadState : th = Server(c) /\ th.phase = "run" /\ th.idx = c
                                /\ th.at \in DOMAIN ServerScript[th.svc] /\ th.took \in {<<>>, <<c, th.req>>}
  BY <1>1, <1>2, ServerIs DEF SlotRight, ThreadRight, Server
<1>4. PICK new : new = [th EXCEPT !.phase = "copy"]
  OBVIOUS
<1>5. /\ new \in ThreadState /\ new.phase = "copy" /\ new.svc = th.svc /\ new.at = th.at
      /\ new.req = th.req /\ new.idx = th.idx /\ new.took = th.took
  BY <1>4 DEF ThreadState, Phases
<1>6. threads' = [threads EXCEPT ![c][Len(threads[c])] = new]
  BY <1>1, <1>2, <1>3, <1>4 DEF TypeOK, ThreadState
<1>9. Does(new) = "get" /\ Does(th) = "get" /\ Pos(new) = Pos(th) /\ Low(new) = Low(th)
  BY <1>2, <1>3, <1>5 DEF Does, Pos, Low, Late
<1>7. /\ threads' \in [Slots -> Seq(ThreadState)] /\ ThreadsRight(c)' /\ Server(c)' = new
      /\ \A j \in Slots \ {c} : threads'[j] = threads[j]
      /\ AtAccount(c)' <=> new.phase # "end" /\ Does(new) = "account"
      /\ Serving(c)' <=> new.phase # "end" /\ Does(new) # "account"
      /\ Pos(Server(c))' = Pos(new) /\ Low(Server(c))' = Low(new)
  BY <1>3, <1>5, <1>6, <1>9, Replaced
<1>8. TypeOK' /\ \A j \in Slots \ {c} : Untouched(j)
  BY <1>1, <1>2, <1>7, LoopStays DEF TypeOK, Untouched
<1>10. /\ (AtAccount(c)' <=> AtAccount(c)) /\ (Serving(c)' <=> Serving(c)) /\ Serving(c)
       /\ (Checking(c)' <=> Checking(c)) /\ (HasType(c, "service")' <=> HasType(c, "service"))
       /\ (HasType(c, "message")' <=> HasType(c, "message")) /\ First(c)' = First(c)
       /\ Unread(c)
  BY <1>1, <1>2, <1>3, <1>5, <1>7, <1>9, LoopStays DEF AtAccount, Serving, HasType, First, Unread
<1>11. replies[c] = <<>>
  BY <1>2, <1>10 DEF SlotRight, Replied
<1>12. Mailed(c)' /\ Stream(c)' /\ Asking(c)' /\ Replied(c)' /\ Known(c)'
  BY <1>1, <1>2, <1>3, <1>5, <1>7, <1>10, <1>11
     DEF SlotRight, Mailed, Stream, Asked, Messages, Asking, Busy, Op, Replied, Known
<1>13. Conversation(c)'
  <2>1. Aligned(c) => Aligned(c)'
    BY <1>1, <1>3, <1>5, <1>7, <1>9, <1>11 DEF Aligned, Messages, Op, Does
  <2> QED BY <1>1, <1>2, <1>3, <1>5, <1>7, <1>9, <1>10, <2>1 DEF SlotRight, Conversation
<1>14. InOrder(c)'
  <2>1. Kept(c)' = Kept(c)
    BY <1>1, <1>3, <1>5, <1>7 DEF Kept
  <2> QED BY <1>1, <1>2, <1>3, <1>5, <1>7, <1>10, <2>1 DEF SlotRight, InOrder
<1> QED BY <1>7, <1>8, <1>12, <1>13, <1>14, OneSlot DEF SlotRight


LEMMA CopyRight ==
    ASSUME MailInv, NEW c \in Slots, NEW i \in DOMAIN threads[c], Copy(c, i)
    PROVE  MailInv'
<1>1. threads[c][i].phase = "copy"
  BY DEF Copy, At
<1>2. /\ i = Len(threads[c]) /\ threads[c][i] = Server(c) /\ SlotRight(c) /\ TypeOK /\ Idx(c, i) = c
  BY <1>1, ThreadIs
<1>3. PICK th \in ThreadState : /\ th = Server(c) /\ th.phase = "copy" /\ th.idx = c
                                /\ th.at \in DOMAIN ServerScript[th.svc] /\ Does(th) = "get"
                                /\ Pos(th) \in Nat /\ Low(th) \in Nat
  BY <1>1, <1>2, ServerIs DEF SlotRight, ThreadRight, Server
<1>4. /\ Serving(c) /\ ~AtAccount(c) /\ HasType(c, "message") /\ Unread(c)
  BY <1>2, <1>3 DEF Serving, AtAccount, SlotRight, Conversation, Unread
<1>5. /\ th.req = client[c].req /\ th.svc = client[c].svc /\ Aligned(c)
      /\ buf[c] # <<>> /\ First(c).req = client[c].req
      /\ First(c).at >= Low(th) /\ First(c).at < client[c].at
      /\ \A j \in DOMAIN net[c] : net[c][j].req = client[c].req /\ First(c).at < net[c][j].at
  BY <1>2, <1>3, <1>4 DEF SlotRight, Conversation, HasType
<1>6. PICK m \in Requests : /\ m = First(c) /\ m.req = th.req /\ m.kind = "message" /\ m.at \in Nat
                            /\ m.req \in 0 .. MostRequests
  <2>1. First(c) \in Requests /\ First(c).kind = "message"
    BY <1>2, <1>4, <1>5, HeadTailProperties DEF TypeOK, First, HasType
  <2> QED BY <1>5, <2>1, RequestIs
<1>7. /\ got' = [got EXCEPT ![c] = Append(@, m)]
      /\ threads' = [threads EXCEPT ![c][i].phase = "lower", ![c][i].took = <<c, m.req>>]
      /\ UNCHANGED <<clientVars, account, roomNum, net, replies, buf, ready, loop, todo, past, sent>>
  BY <1>2, <1>6 DEF Copy, First
<1>8. PICK new : new = [th EXCEPT !.phase = "lower", !.took = <<c, m.req>>]
  OBVIOUS
<1>9. /\ new \in ThreadState /\ new.phase = "lower" /\ new.svc = th.svc /\ new.at = th.at
      /\ new.req = th.req /\ new.idx = c /\ new.took = <<c, new.req>>
  BY <1>3, <1>6, <1>8 DEF ThreadState, Phases
<1>10. threads' = [threads EXCEPT ![c][Len(threads[c])] = new]
  <2>1. threads \in [Slots -> Seq(ThreadState)] /\ threads[c] \in Seq(ThreadState)
    BY <1>2 DEF TypeOK
  <2> DEFINE low == [th EXCEPT !.phase = "lower"]
  <2>2. [threads EXCEPT ![c][i].phase = "lower"] = [threads EXCEPT ![c] = [threads[c] EXCEPT ![i] = low]]
    BY <1>2, <1>3
  <2>3. PICK u : u = [threads EXCEPT ![c] = [threads[c] EXCEPT ![i] = low]]
    OBVIOUS
  <2>4. threads' = [u EXCEPT ![c][i].took = <<c, m.req>>]
    BY <1>7, <2>2, <2>3
  <2>5. u[c] = [threads[c] EXCEPT ![i] = low] /\ u[c][i] = low
    BY <1>2, <2>1, <2>3
  <2>6. new = [low EXCEPT !.took = <<c, m.req>>]
    BY <1>8
  <2> HIDE DEF low
  <2>7. threads' = [u EXCEPT ![c] = [u[c] EXCEPT ![i] = new]]
    BY <2>4, <2>5, <2>6
  <2>8. [u[c] EXCEPT ![i] = new] = [threads[c] EXCEPT ![i] = new]
    BY <2>1, <2>5
  <2>9. [u EXCEPT ![c] = [u[c] EXCEPT ![i] = new]] = [threads EXCEPT ![c] = [threads[c] EXCEPT ![i] = new]]
    BY <2>1, <2>3, <2>8
  <2> QED BY <1>2, <2>7, <2>9
<1>11. Does(new) = "get" /\ Pos(new) = Pos(th) /\ Low(new) = Pos(th) + 1 /\ Low(th) = Pos(th)
  BY <1>3, <1>9 DEF Does, Pos, Low, Late
<1>12. /\ threads' \in [Slots -> Seq(ThreadState)] /\ ThreadsRight(c)' /\ Server(c)' = new
       /\ \A j \in Slots \ {c} : threads'[j] = threads[j]
       /\ AtAccount(c)' <=> new.phase # "end" /\ Does(new) = "account"
       /\ Serving(c)' <=> new.phase # "end" /\ Does(new) # "account"
       /\ Pos(Server(c))' = Pos(new) /\ Low(Server(c))' = Low(new)
  <2>1. new.at \in DOMAIN ServerScript[new.svc] /\ new.took \in {<<>>, <<c, new.req>>}
    BY <1>3, <1>9
  <2> QED BY <1>9, <1>10, <1>11, <2>1, Replaced
<1>13. /\ sent[c] \in Seq(Requests) /\ got[c] \in Seq(Requests) /\ net[c] \in Seq(Requests)
       /\ got \in [Slots -> Seq(Requests)] /\ client[c].at \in Nat
  <2>1. client[c] \in ClientState
    BY <1>2 DEF TypeOK
  <2>2. client[c].at \in Nat
    BY <2>1 DEF ClientState
  <2> QED BY <1>2, <2>2 DEF TypeOK
<1>14. /\ got' \in [Slots -> Seq(Requests)] /\ got'[c] = Append(got[c], m)
       /\ \A j \in Slots \ {c} : got'[j] = got[j]
  BY <1>7, <1>13, AppendIs
<1>15. TypeOK' /\ \A j \in Slots \ {c} : Untouched(j)
  BY <1>2, <1>7, <1>12, <1>14, LoopStays DEF TypeOK, Untouched
<1>16. /\ ~AtAccount(c)' /\ Serving(c)' /\ ~Unread(c)'
       /\ (Checking(c)' <=> Checking(c)) /\ (HasType(c, "service")' <=> HasType(c, "service"))
       /\ (HasType(c, "message")' <=> HasType(c, "message")) /\ First(c)' = First(c)
  BY <1>7, <1>9, <1>11, <1>12, LoopStays DEF HasType, First, Unread
<1>17. replies[c] = <<>> /\ ~HasType(c, "service")
  BY <1>2, <1>4 DEF SlotRight, Replied, HasType
<1>18. Mailed(c)' /\ Asking(c)' /\ Replied(c)' /\ Known(c)'
  BY <1>2, <1>3, <1>4, <1>7, <1>9, <1>12, <1>16, <1>17
     DEF SlotRight, Mailed, Asking, Busy, Op, Replied, Known
<1>19. Stream(c)'
  BY <1>2, <1>4, <1>7, <1>16, <1>17 DEF SlotRight, Stream, Asked
<1>20. Conversation(c)'
  <2>1. Messages(c, Pos(th)) /\ client[c].at >= Pos(th) + 1
    <3>1. m.at >= Pos(th) /\ m.at < client[c].at
      BY <1>5, <1>6, <1>11
    <3>2. Messages(c, Pos(th))
      BY <1>3, <1>5, <1>17 DEF Aligned
    <3> QED BY <1>3, <1>6, <1>13, <3>1, <3>2
  <2>2. Aligned(c)'
    BY <1>7, <1>11, <1>12, <1>17, <2>1 DEF Aligned, Messages, Does
  <2>3. ASSUME NEW j \in DOMAIN net[c] PROVE net[c][j].req = client[c].req /\ net[c][j].at >= Pos(th) + 1
    <3>1. net[c][j] \in Requests
      BY <1>13, ElementOfSeq, LenProperties
    <3>2. net[c][j].at \in Nat
      BY <3>1, RequestIs
    <3>3. m.at >= Pos(th) /\ m.at < net[c][j].at
      BY <1>5, <1>6, <1>11
    <3> QED BY <1>3, <1>5, <1>6, <3>2, <3>3
  <2> QED BY <1>4, <1>5, <1>7, <1>9, <1>11, <1>12, <1>16, <2>2, <2>3 DEF Conversation
<1>21. InOrder(c)'
  <2> SUFFICES ASSUME c \in OwnSlots PROVE InOrder(c)'
    BY DEF InOrder
  <2>1. ready[c] = 1 /\ Kept(c) = 1 /\ Kept(c)' = 0
    BY <1>2, <1>3, <1>9, <1>12 DEF SlotRight, InOrder, Kept
  <2>2. Handed(sent[c], got[c], 1, m, net[c])
    BY <1>2, <1>6, <2>1 DEF SlotRight, InOrder
  <2>3. Handed(sent[c], Append(got[c], m), 0, m, net[c])
    BY <1>13, <2>2, HandedRead
  <2> QED BY <1>6, <1>7, <1>14, <1>16, <1>17, <2>1, <2>3 DEF InOrder
<1> QED BY <1>12, <1>15, <1>18, <1>19, <1>20, <1>21, OneSlot DEF SlotRight

LEMMA LowerRight ==
    ASSUME MailInv, NEW c \in Slots, NEW i \in DOMAIN threads[c], Lower(c, i)
    PROVE  MailInv'
<1>1. threads[c][i].phase = "lower"
  BY DEF Lower, At
<1>2. /\ i = Len(threads[c]) /\ threads[c][i] = Server(c) /\ SlotRight(c) /\ TypeOK /\ Idx(c, i) = c
  BY <1>1, ThreadIs
<1>3. PICK th \in ThreadState : /\ th = Server(c) /\ th.phase = "lower" /\ th.idx = c
                                /\ th.at \in DOMAIN ServerScript[th.svc] /\ th.took \in {<<>>, <<c, th.req>>}
                                /\ Does(th) = "get"
  BY <1>1, <1>2, ServerIs DEF SlotRight, ThreadRight, Server
<1>4. Serving(c) /\ ~AtAccount(c) /\ HasType(c, "message") /\ buf[c] # <<>>
  BY <1>2, <1>3 DEF Serving, AtAccount, SlotRight, Conversation, HasType
<1>5. FlagAfter(c) = -1
  <2>1. Len(buf[c]) \in Nat \ {0} /\ Len(buf[c]) <= 1
    BY <1>2, <1>4, EmptySeq, LenProperties DEF TypeOK, SlotRight, Mailed
  <2>2. \A n \in Nat \ {0} : n <= 1 => n = 1
    OBVIOUS
  <2>3. Len(buf[c]) = 1
    BY <2>1, <2>2, Zenon
  <2> QED BY <2>3 DEF FlagAfter
<1>6. /\ threads' = [threads EXCEPT ![c][i].phase = "clear"] /\ ready' = [ready EXCEPT ![c] = -1]
      /\ UNCHANGED <<clientVars, account, roomNum, net, replies, buf, loop, todo, past, sent, got>>
  BY <1>2, <1>5 DEF Lower
<1>7. PICK new : new = [th EXCEPT !.phase = "clear"]
  OBVIOUS
<1>8. /\ new \in ThreadState /\ new.phase = "clear" /\ new.svc = th.svc /\ new.at = th.at
      /\ new.req = th.req /\ new.idx = th.idx /\ new.took = th.took
  BY <1>7 DEF ThreadState, Phases
<1>9. threads' = [threads EXCEPT ![c][Len(threads[c])] = new]
  BY <1>2, <1>3, <1>6, <1>7 DEF TypeOK, ThreadState
<1>10. Does(new) = "get" /\ Pos(new) = Pos(th) /\ Low(new) = Low(th)
  BY <1>3, <1>8 DEF Does, Pos, Low, Late
<1>11. /\ threads' \in [Slots -> Seq(ThreadState)] /\ ThreadsRight(c)' /\ Server(c)' = new
       /\ \A j \in Slots \ {c} : threads'[j] = threads[j]
       /\ AtAccount(c)' <=> new.phase # "end" /\ Does(new) = "account"
       /\ Serving(c)' <=> new.phase # "end" /\ Does(new) # "account"
       /\ Pos(Server(c))' = Pos(new) /\ Low(Server(c))' = Low(new)
  BY <1>3, <1>8, <1>9, <1>10, Replaced
<1>12. /\ ready' \in [Slots -> {-1, 0, 1}] /\ ready'[c] = -1
       /\ \A j \in Slots \ {c} : ready'[j] = ready[j]
  BY <1>2, <1>6 DEF TypeOK
<1>13. TypeOK' /\ \A j \in Slots \ {c} : Untouched(j)
  BY <1>2, <1>6, <1>11, <1>12, LoopStays DEF TypeOK, Untouched
<1>14. /\ ~AtAccount(c)' /\ Serving(c)' /\ ~Unread(c)'
       /\ (Checking(c)' <=> Checking(c)) /\ (HasType(c, "service")' <=> HasType(c, "service"))
       /\ (HasType(c, "message")' <=> HasType(c, "message")) /\ First(c)' = First(c)
       /\ ~HasType(c, "service")
  BY <1>4, <1>6, <1>8, <1>10, <1>11, <1>12, LoopStays DEF HasType, First, Unread
<1>15. replies[c] = <<>>
  BY <1>2, <1>3, <1>4 DEF SlotRight, Conversation, Aligned
<1>16. Mailed(c)' /\ Asking(c)' /\ Replied(c)' /\ Known(c)'
  BY <1>2, <1>3, <1>4, <1>6, <1>8, <1>11, <1>12, <1>14, <1>15
     DEF SlotRight, Mailed, Asking, Busy, Op, Replied, Known
<1>17. Stream(c)'
  BY <1>2, <1>4, <1>6, <1>14 DEF SlotRight, Stream, Asked
<1>18. Conversation(c)'
  <2>1. Aligned(c)'
    BY <1>2, <1>3, <1>4, <1>6, <1>8, <1>10, <1>11, <1>15 DEF SlotRight, Conversation, Aligned, Messages, Does
  <2> QED BY <1>2, <1>3, <1>4, <1>6, <1>8, <1>10, <1>11, <1>14, <2>1 DEF SlotRight, Conversation
<1>19. InOrder(c)'
  <2>1. Kept(c) = 0 /\ Kept(c)' = 0
    BY <1>3, <1>12 DEF Kept
  <2> QED BY <1>2, <1>6, <1>8, <1>11, <1>14, <2>1 DEF SlotRight, InOrder
<1> QED BY <1>11, <1>13, <1>16, <1>17, <1>18, <1>19, OneSlot DEF SlotRight


LEMMA ClearRight ==
    ASSUME MailInv, NEW c \in Slots, NEW i \in DOMAIN threads[c], Clear(c, i)
    PROVE  MailInv'
<1>1. /\ threads[c][i].phase = "clear" /\ threads' = [threads EXCEPT ![c][i].phase = "tail"]
      /\ ready' = [k \in Slots |-> IF k = CLIENT_MESSAGE THEN 0 ELSE ready[k]]
      /\ UNCHANGED <<clientVars, account, roomNum, net, replies, buf, loop, todo, past, sent, got>>
  BY DEF Clear, At
<1>2. /\ i = Len(threads[c]) /\ threads[c][i] = Server(c) /\ SlotRight(c) /\ TypeOK
  BY <1>1, ThreadIs
<1>3. PICK th \in ThreadState : /\ th = Server(c) /\ th.phase = "clear" /\ th.idx = c
                                /\ th.at \in DOMAIN ServerScript[th.svc] /\ th.took \in {<<>>, <<c, th.req>>}
                                /\ Does(th) = "get"
  BY <1>1, <1>2, ServerIs DEF SlotRight, ThreadRight, Server
<1>4. Serving(c) /\ ~AtAccount(c) /\ HasType(c, "message") /\ replies[c] = <<>>
  BY <1>2, <1>3 DEF Serving, AtAccount, SlotRight, Conversation, Aligned
<1>5. PICK new : new = [th EXCEPT !.phase = "tail"]
  OBVIOUS
<1>6. /\ new \in ThreadState /\ new.phase = "tail" /\ new.svc = th.svc /\ new.at = th.at
      /\ new.req = th.req /\ new.idx = th.idx /\ new.took = th.took
  BY <1>5 DEF ThreadState, Phases
<1>7. threads' = [threads EXCEPT ![c][Len(threads[c])] = new]
  BY <1>1, <1>2, <1>3, <1>5 DEF TypeOK, ThreadState
<1>8. Does(new) = "get" /\ Pos(new) = Pos(th) /\ Low(new) = Low(th)
  BY <1>3, <1>6 DEF Does, Pos, Low, Late
<1>9. /\ threads' \in [Slots -> Seq(ThreadState)] /\ ThreadsRight(c)' /\ Server(c)' = new
      /\ \A j \in Slots \ {c} : threads'[j] = threads[j]
      /\ AtAccount(c)' <=> new.phase # "end" /\ Does(new) = "account"
      /\ Serving(c)' <=> new.phase # "end" /\ Does(new) # "account"
      /\ Pos(Server(c))' = Pos(new) /\ Low(Server(c))' = Low(new)
  BY <1>3, <1>6, <1>7, <1>8, Replaced
<1>10. /\ ready' \in [Slots -> {-1, 0, 1}]
       /\ \A j \in Slots : ready'[j] = ready[j] \/ (j = CLIENT_MESSAGE /\ ready'[j] = 0)
  BY <1>1, <1>2 DEF TypeOK
<1>11. TypeOK' /\ \A j \in Slots \ {c} : Untouched(j)
  BY <1>1, <1>2, <1>9, <1>10, LoopStays DEF TypeOK, Untouched
<1>12. ready'[c] = 1 => ready[c] = 1
  BY <1>10
<1>13. /\ ~AtAccount(c)' /\ Serving(c)' /\ (Unread(c)' => Unread(c))
       /\ (Checking(c)' <=> Checking(c)) /\ (HasType(c, "service")' <=> HasType(c, "service"))
       /\ (HasType(c, "message")' <=> HasType(c, "message")) /\ First(c)' = First(c)
       /\ ~HasType(c, "service")
  BY <1>1, <1>3, <1>4, <1>6, <1>8, <1>9, <1>12, LoopStays DEF HasType, First, Unread
<1>14. Mailed(c)' /\ Asking(c)' /\ Replied(c)' /\ Known(c)'
  BY <1>1, <1>2, <1>3, <1>4, <1>6, <1>9, <1>12, <1>13
     DEF SlotRight, Mailed, Asking, Busy, Op, Replied, Known
<1>15. Stream(c)'
  BY <1>1, <1>2, <1>4, <1>13 DEF SlotRight, Stream, Asked
<1>16. Conversation(c)'
  <2>1. Aligned(c)'
    BY <1>1, <1>2, <1>3, <1>4, <1>6, <1>8, <1>9 DEF SlotRight, Conversation, Aligned, Messages, Does
  <2> QED BY <1>1, <1>2, <1>3, <1>4, <1>6, <1>8, <1>9, <1>13, <2>1 DEF SlotRight, Conversation
<1>17. InOrder(c)'
  <2> SUFFICES ASSUME c \in OwnSlots PROVE InOrder(c)'
    BY DEF InOrder
  <2>1. Kept(c)' = Kept(c)
    BY <1>3, <1>6, <1>9, <1>10 DEF Kept, OwnSlots
  <2> QED BY <1>1, <1>2, <1>6, <1>9, <1>13, <2>1 DEF SlotRight, InOrder
<1> QED BY <1>9, <1>11, <1>14, <1>15, <1>16, <1>17, OneSlot DEF SlotRight

LEMMA TailCheckRight ==
    ASSUME MailInv, NEW c \in Slots, NEW i \in DOMAIN threads[c], TailCheck(c, i)
    PROVE  MailInv'
<1>1. threads[c][i].phase = "tail"
  BY DEF TailCheck, At
<1>2. /\ i = Len(threads[c]) /\ threads[c][i] = Server(c) /\ SlotRight(c) /\ TypeOK /\ Idx(c, i) = c
  BY <1>1, ThreadIs
<1>3. PICK th \in ThreadState : /\ th = Server(c) /\ th.phase = "tail" /\ th.idx = c
                                /\ th.at \in DOMAIN ServerScript[th.svc] /\ th.took \in {<<>>, <<c, th.req>>}
                                /\ Does(th) = "get" /\ th.svc \in Services /\ Pos(th) \in Nat
  BY <1>1, <1>2, ServerIs DEF SlotRight, ThreadRight, Server
<1>4. Serving(c) /\ ~AtAccount(c) /\ HasType(c, "message") /\ replies[c] = <<>>
  BY <1>2, <1>3 DEF Serving, AtAccount, SlotRight, Conversation, Aligned
<1>5. /\ threads' = [threads EXCEPT ![c][i].at = @ + 1, ![c][i].phase = "run"]
      /\ UNCHANGED <<clientVars, account, roomNum, net, replies, buf, ready, loop, todo, past, sent, got>>
  <2>1. SaysService(c) = {FALSE}
    BY <1>4 DEF SaysService, HasType
  <2> QED BY <1>2, <2>1 DEF TailCheck
<1>6. PICK p \in Nat : p = Pos(th)
  BY <1>3
<1>7. th.at \in 1 .. 3 /\ th.at + 1 \in DOMAIN ServerScript[th.svc] /\ ServerScript[th.svc][th.at + 1] # "account"
  BY <1>3, ServerNext, ServerSteps DEF Does
<1>8. PICK new : new = [th EXCEPT !.at = @ + 1, !.phase = "run"]
  OBVIOUS
<1>9. /\ new \in ThreadState /\ new.phase = "run" /\ new.svc = th.svc /\ new.at = th.at + 1
      /\ new.req = th.req /\ new.idx = th.idx /\ new.took = th.took
  <2>1. PICK q \in 1 .. 4 : q = th.at + 1
    BY <1>7
  <2>2. new = [req |-> th.req, svc |-> th.svc, idx |-> th.idx, at |-> q, phase |-> "run", took |-> th.took]
    BY <1>8, <2>1 DEF ThreadState
  <2> QED BY <2>1, <2>2 DEF ThreadState, Phases
<1>10. threads' = [threads EXCEPT ![c][Len(threads[c])] = new]
  <2>1. threads \in [Slots -> Seq(ThreadState)] /\ threads[c] \in Seq(ThreadState)
    BY <1>2 DEF TypeOK
  <2> DEFINE next == [th EXCEPT !.at = @ + 1]
  <2>2. [threads EXCEPT ![c][i].at = @ + 1] = [threads EXCEPT ![c] = [threads[c] EXCEPT ![i] = next]]
    BY <1>2, <1>3
  <2>3. PICK u : u = [threads EXCEPT ![c] = [threads[c] EXCEPT ![i] = next]]
    OBVIOUS
  <2>4. threads' = [u EXCEPT ![c][i].phase = "run"]
    BY <1>5, <2>2, <2>3
  <2>5. u[c] = [threads[c] EXCEPT ![i] = next] /\ u[c][i] = next
    BY <1>2, <2>1, <2>3
  <2>6. new = [next EXCEPT !.phase = "run"]
    BY <1>8
  <2> HIDE DEF next
  <2>7. threads' = [u EXCEPT ![c] = [u[c] EXCEPT ![i] = new]]
    BY <2>4, <2>5, <2>6
  <2>8. [u[c] EXCEPT ![i] = new] = [threads[c] EXCEPT ![i] = new]
    BY <2>1, <2>5
  <2>9. [u EXCEPT ![c] = [u[c] EXCEPT ![i] = new]] = [threads EXCEPT ![c] = [threads[c] EXCEPT ![i] = new]]
    BY <2>1, <2>3, <2>8
  <2> QED BY <1>2, <2>7, <2>9
<1>11. Pos(new) = p + 1 /\ Low(new) = p + 1 /\ Low(th) = p + 1 /\ Does(new) # "account"
  BY <1>3, <1>6, <1>7, <1>9 DEF Does, Pos, Low, Late
<1>12. /\ threads' \in [Slots -> Seq(ThreadState)] /\ ThreadsRight(c)' /\ Server(c)' = new
       /\ \A j \in Slots \ {c} : threads'[j] = threads[j]
       /\ AtAccount(c)' <=> new.phase # "end" /\ Does(new) = "account"
       /\ Serving(c)' <=> new.phase # "end" /\ Does(new) # "account"
       /\ Pos(Server(c))' = Pos(new) /\ Low(Server(c))' = Low(new)
  <2>1. /\ new.idx = c /\ new.took \in {<<>>, <<c, new.req>>} /\ new.at \in DOMAIN ServerScript[new.svc]
        /\ new.phase \notin {"copy", "lower", "clear", "tail"}
    BY <1>3, <1>7, <1>9
  <2> QED BY <1>9, <1>10, <2>1, Replaced
<1>13. TypeOK' /\ \A j \in Slots \ {c} : Untouched(j)
  BY <1>2, <1>5, <1>12, LoopStays DEF TypeOK, Untouched
<1>14. /\ ~AtAccount(c)' /\ Serving(c)' /\ (Unread(c)' <=> Unread(c))
       /\ (Checking(c)' <=> Checking(c)) /\ (HasType(c, "service")' <=> HasType(c, "service"))
       /\ (HasType(c, "message")' <=> HasType(c, "message")) /\ First(c)' = First(c)
       /\ ~HasType(c, "service")
  BY <1>3, <1>4, <1>5, <1>9, <1>11, <1>12, LoopStays DEF HasType, First, Unread
<1>15. Mailed(c)' /\ Asking(c)' /\ Replied(c)' /\ Known(c)'
  BY <1>2, <1>3, <1>4, <1>5, <1>9, <1>12, <1>14
     DEF SlotRight, Mailed, Asking, Busy, Op, Replied, Known
<1>16. Stream(c)'
  BY <1>2, <1>4, <1>5, <1>14 DEF SlotRight, Stream, Asked
<1>17. Conversation(c)'
  <2>1. PICK a \in Nat : a = client[c].at
    <3>1. client[c] \in ClientState
      BY <1>2 DEF TypeOK
    <3> QED BY <3>1 DEF ClientState
  <2>2. a >= p + 1 /\ \A j \in p .. a - 1 : ClientScript[th.svc][j] = "message"
    <3>1. Aligned(c) /\ th.svc = client[c].svc
      BY <1>2, <1>3, <1>4 DEF SlotRight, Conversation
    <3>2. client[c].at >= Low(th) /\ Messages(c, Pos(th))
      BY <1>3, <3>1 DEF Aligned
    <3> QED BY <1>6, <1>11, <2>1, <3>1, <3>2 DEF Messages
  <2>3. \A j \in p + 1 .. a - 1 : ClientScript[th.svc][j] = "message"
    BY <2>2
  <2>4. Does(new) # "get" => a = p + 1
    <3>1. Pos(new) \in DOMAIN ClientScript[th.svc]
          /\ ClientScript[th.svc][Pos(new)] = IF Does(new) = "get" THEN "message" ELSE "await"
      BY <1>3, <1>7, <1>9, <1>11, StepsMatch DEF Does, Pos
    <3>2. a # p + 1 => p + 1 \in p + 1 .. a - 1
      BY <2>2
    <3>3. a # p + 1 => ClientScript[th.svc][p + 1] = "message"
      BY <2>3, <3>2
    <3> QED BY <1>11, <3>1, <3>3
  <2>5. th.svc = client[c].svc
    BY <1>2, <1>3, <1>4 DEF SlotRight, Conversation
  <2>6. Messages(c, p + 1)'
    BY <1>5, <2>1, <2>3, <2>5 DEF Messages
  <2>7. Aligned(c)'
    BY <1>4, <1>5, <1>11, <1>12, <2>1, <2>2, <2>4, <2>6 DEF Aligned, Does
  <2> QED BY <1>2, <1>3, <1>4, <1>5, <1>9, <1>11, <1>12, <1>14, <2>7 DEF SlotRight, Conversation
<1>18. InOrder(c)'
  <2>1. Kept(c)' = Kept(c)
    BY <1>3, <1>5, <1>9, <1>12 DEF Kept
  <2> QED BY <1>2, <1>5, <1>9, <1>12, <1>14, <2>1 DEF SlotRight, InOrder
<1> QED BY <1>12, <1>13, <1>15, <1>16, <1>17, <1>18, OneSlot DEF SlotRight


\* A thread that answers: its client waits, nothing it has sent is left to read,
\* and it has no answer yet.
LEMMA AnswerDue ==
    ASSUME MailInv, NEW c \in Slots, Server(c).phase \in {"run", "making"},
           Does(Server(c)) \in {"ask", "last", "room"}
    PROVE  /\ Serving(c) /\ ~AtAccount(c) /\ replies[c] = <<>> /\ net[c] = <<>>
           /\ ~(HasType(c, "message") /\ Unread(c)) /\ ~(Checking(c) /\ HasType(c, "service"))
           /\ Busy(c) /\ Op(c) = "await" /\ client[c].at = Pos(Server(c))
           /\ client[c].svc = Server(c).svc /\ client[c].req = Server(c).req
           /\ buf[c] # <<>> => First(c).req = client[c].req
<1>1. SlotRight(c) /\ TypeOK /\ Serving(c) /\ ~AtAccount(c)
  BY DEF MailInv, Serving, AtAccount
<1>2. PICK th \in ThreadState : /\ th = Server(c) /\ th.svc \in Services
                                /\ th.at \in DOMAIN ServerScript[th.svc] /\ Pos(th) \in Nat
  BY <1>1, ServerIs DEF SlotRight
<1>3. /\ th.req = client[c].req /\ th.svc = client[c].svc /\ Aligned(c)
      /\ buf[c] # <<>> => First(c).req = client[c].req
      /\ \A i \in DOMAIN net[c] : net[c][i].req = client[c].req /\ net[c][i].at >= Low(th)
      /\ HasType(c, "message") /\ Unread(c) => First(c).at >= Low(th) /\ First(c).at < client[c].at
  BY <1>1, <1>2 DEF SlotRight, Conversation
<1>4. replies[c] = <<>> /\ client[c].at = Pos(th) /\ Low(th) = Pos(th)
  BY <1>2, <1>3 DEF Aligned, Low, Late
<1>5. Busy(c) /\ Op(c) = "await"
  <2>1. /\ Pos(th) \in DOMAIN ClientScript[th.svc]
        /\ ClientScript[th.svc][Pos(th)] = "await"
    BY <1>2, StepsMatch DEF Does, Pos
  <2> QED BY <1>3, <1>4, <2>1 DEF Busy, Op
<1>6. PICK p \in Nat : p = Pos(th)
  BY <1>2
<1>7. net[c] = <<>>
  <2> SUFFICES ASSUME net[c] # <<>> PROVE FALSE
    OBVIOUS
  <2>1. net[c] \in Seq(Requests) /\ 1 \in DOMAIN net[c]
    BY <1>1, EmptySeq, LenProperties DEF TypeOK
  <2>2. PICK m \in Requests : m = net[c][1]
    BY <2>1, ElementOfSeq, LenProperties
  <2>3. m.at >= p /\ m.at < p
    BY <1>1, <1>3, <1>4, <1>6, <2>1, <2>2 DEF SlotRight, Stream
  <2>4. m.at \in Nat
    BY RequestIs
  <2> QED BY <2>3, <2>4
<1>8. ~(HasType(c, "message") /\ Unread(c))
  <2> SUFFICES ASSUME HasType(c, "message"), Unread(c) PROVE FALSE
    OBVIOUS
  <2>1. First(c) \in Requests
    BY <1>1, HeadTailProperties DEF TypeOK, HasType, First
  <2>2. PICK m \in Requests : m = First(c) /\ m.at \in Nat
    BY <2>1, RequestIs
  <2>3. m.at >= p /\ m.at < p
    BY <1>3, <1>4, <1>6, <2>2
  <2> QED BY <2>2, <2>3
<1>9. ~(Checking(c) /\ HasType(c, "service"))
  BY <1>1 DEF SlotRight, Stream, Asked
<1> QED BY <1>1, <1>2, <1>3, <1>4, <1>5, <1>7, <1>8, <1>9

\* What a thread that gives answer r does next
LEMMA AnswersAre ==
    ASSUME NEW th \in ThreadState, th.at \in DOMAIN ServerScript[th.svc],
           th.phase = "run" \/ (th.phase = "making" /\ Does(th) = "last"), Does(th) \in {"ask", "last", "room"}, NEW r \in Answers(th.svc, Does(th)),
           NEW new, new = After(th, r)
    PROVE  /\ new \in ThreadState /\ new.idx = th.idx /\ new.took = th.took /\ new.svc = th.svc
           /\ new.req = th.req /\ new.at \in DOMAIN ServerScript[new.svc] /\ new.phase \in {"run", "end"}
           /\ r \in {"on", "end", "again", "in", "welcome"}
           /\ \/ r = "on" /\ new.phase = "run" /\ Does(new) = "get" /\ Pos(new) = Pos(th) + 1
              \/ r = "again" /\ new.phase = "run" /\ Does(new) = "get" /\ Pos(new) = Pos(th) - 1
              \/ r = "welcome" /\ new.phase = "run" /\ Does(new) = "account" /\ th.svc = "connect"
              \/ /\ r \in {"end", "in", "welcome"} /\ new.phase = "end"
                 /\ r = "welcome" => th.svc = "login"
                 /\ r = "in" => th.svc \in {"newRoom", "joinRoom"}
           /\ th.svc = "newRoom" => Does(th) = "last"
<1> DEFINE As(q, ph) == [req |-> th.req, svc |-> th.svc, idx |-> th.idx, at |-> q, phase |-> ph, took |-> th.took]
<1>1. /\ th.svc \in Services /\ th.at \in 1 .. 4 /\ th.at \in Nat
      /\ th = As(th.at, th.phase)
  BY DEF ThreadState
<1>0. Does(th) # "last" => th = As(th.at, "run")
  BY <1>1
<1>2. ASSUME NEW q \in DOMAIN ServerScript[th.svc], NEW ph \in {"run", "end"}
      PROVE  As(q, ph) \in ThreadState
  <2>1. q \in 1 .. 4
    BY <1>1, ServerSteps
  <2> QED BY <2>1 DEF ThreadState, Phases
<1>3. /\ Does(th) = "ask" => /\ th.svc # "newRoom" /\ th.at + 1 \in DOMAIN ServerScript[th.svc]
                             /\ ServerScript[th.svc][th.at + 1] = IF th.svc = "connect" THEN "account" ELSE "get"
      /\ Does(th) = "room" => /\ th.svc = "joinRoom" /\ th.at - 1 \in DOMAIN ServerScript[th.svc]
                              /\ ServerScript[th.svc][th.at - 1] = "get"
      /\ Does(th) = "last" => th.svc \in {"signup", "login", "newRoom"}
  <2>1. PICK s \in Services : s = th.svc
    BY <1>1
  <2>2. PICK q \in DOMAIN ServerScript[s] : q = th.at
    BY <2>1
  <2> QED BY <2>1, <2>2, ServerNext DEF Does
<1>4. \/ r = "on" /\ Does(th) = "ask" /\ th.svc # "connect"
      \/ r = "again" /\ Does(th) = "room"
      \/ r = "welcome" /\ Does(th) = "ask" /\ th.svc = "connect"
      \/ /\ r \in {"end", "in", "welcome"}
         /\ r = "welcome" => th.svc = "login"
         /\ r = "in" => th.svc \in {"newRoom", "joinRoom"}
  BY <1>1, <1>3 DEF Answers, Services
<1>5. CASE r = "on" /\ Does(th) = "ask" /\ th.svc # "connect"
  <2>1. new = As(th.at + 1, "run")
    BY <1>0, <1>1, <1>5 DEF After
  <2>2. new \in ThreadState
    BY <1>2, <1>3, <1>5, <2>1
  <2>3. Pos(new) = Pos(th) + 1 /\ Does(new) = "get"
    BY <1>1, <1>3, <1>5, <2>1 DEF Pos, Does
  <2> QED BY <1>3, <1>5, <2>1, <2>2, <2>3
<1>6. CASE r = "again" /\ Does(th) = "room"
  <2>1. new = As(th.at - 1, "run")
    BY <1>0, <1>1, <1>6 DEF After
  <2>2. new \in ThreadState
    BY <1>2, <1>3, <1>6, <2>1
  <2>3. Pos(new) = Pos(th) - 1 /\ Does(new) = "get"
    BY <1>1, <1>3, <1>6, <2>1 DEF Pos, Does
  <2> QED BY <1>3, <1>6, <2>1, <2>2, <2>3
<1>7. CASE r = "welcome" /\ Does(th) = "ask" /\ th.svc = "connect"
  <2>1. new = As(th.at + 1, "run")
    BY <1>0, <1>1, <1>7 DEF After
  <2>2. new \in ThreadState
    BY <1>2, <1>3, <1>7, <2>1
  <2>3. Does(new) = "account"
    BY <1>1, <1>3, <1>7, <2>1 DEF Does
  <2> QED BY <1>3, <1>7, <2>1, <2>2, <2>3
<1>8. CASE /\ r \in {"end", "in", "welcome"}
           /\ r = "welcome" => th.svc = "login"
           /\ r = "in" => th.svc \in {"newRoom", "joinRoom"}
  <2>0. r # "again" /\ ~(r = "on" \/ (th.svc = "connect" /\ r = "welcome"))
    BY <1>8
  <2>1. new = As(th.at, "end")
    BY <1>1, <2>0 DEF After
  <2>2. new \in ThreadState
    BY <1>2, <2>1
  <2> QED BY <1>3, <1>8, <2>1, <2>2
<1> QED BY <1>4, <1>5, <1>6, <1>7, <1>8


LEMMA ReplyRight ==
    ASSUME MailInv, NEW c \in Slots, NEW i \in DOMAIN threads[c], Reply(c, i)
    PROVE  MailInv'
<1>0. /\ threads[c][i].phase \in {"run", "making"}
      /\ threads[c][i].phase # "making" => Step(c, i) \in {"ask", "last", "room"}
      /\ UNCHANGED <<clientVars, net, buf, ready, loop, todo, past, sent, got>>
  BY DEF Reply, Answering, At
<1>a. ThreadRight(c, i) /\ Step(c, i) = Does(threads[c][i])
  BY DEF MailInv, SlotRight, ThreadsRight, Step, Does
<1>1. /\ threads[c][i].phase = "run" \/ (threads[c][i].phase = "making" /\ Step(c, i) = "last")
      /\ Step(c, i) \in {"ask", "last", "room"}
      /\ UNCHANGED <<clientVars, net, buf, ready, loop, todo, past, sent, got>>
  BY <1>0, <1>a DEF ThreadRight
<1>2. /\ i = Len(threads[c]) /\ threads[c][i] = Server(c) /\ SlotRight(c) /\ TypeOK /\ Idx(c, i) = c
      /\ Step(c, i) = Does(Server(c))
  BY <1>1, ThreadIs
<1>3. PICK th \in ThreadState : /\ th = Server(c) /\ th.idx = c
                                /\ th.phase = "run" \/ (th.phase = "making" /\ Does(th) = "last")
                                /\ th.at \in DOMAIN ServerScript[th.svc] /\ th.took \in {<<>>, <<c, th.req>>}
                                /\ Does(th) \in {"ask", "last", "room"} /\ th.svc \in Services /\ Pos(th) \in Nat
  BY <1>1, <1>2, ServerIs DEF SlotRight, ThreadRight, Server
<1>4. PICK r \in Answers(th.svc, Does(th)) :
        /\ replies' = [replies EXCEPT ![c] = Append(@, r)]
        /\ account' = [account EXCEPT ![c] = @ \/ (th.svc = "login" /\ r = "welcome")]
        /\ roomNum' = IF th.svc = "newRoom" THEN roomNum + 1 ELSE roomNum
        /\ threads' = [threads EXCEPT ![c][i] = After(th, r)]
  <2>1. PICK r \in Answers(threads[c][i].svc, Step(c, i)) :
          /\ replies' = [replies EXCEPT ![Idx(c, i)] = Append(@, r)]
          /\ account' = [account EXCEPT ![Idx(c, i)] = @ \/ (threads[c][i].svc = "login" /\ r = "welcome")]
          /\ roomNum' = IF threads[c][i].svc = "newRoom" THEN roomNum + 1 ELSE roomNum
          /\ threads' = [threads EXCEPT ![c][i] = After(threads[c][i], r)]
    BY DEF Reply
  <2>2. threads[c][i] = th /\ Step(c, i) = Does(th) /\ Idx(c, i) = c
    BY <1>2, <1>3
  <2> QED BY <2>1, <2>2
<1>5. /\ Serving(c) /\ ~AtAccount(c) /\ replies[c] = <<>> /\ net[c] = <<>>
      /\ ~(HasType(c, "message") /\ Unread(c)) /\ ~(Checking(c) /\ HasType(c, "service"))
      /\ Busy(c) /\ Op(c) = "await" /\ client[c].at = Pos(th)
      /\ client[c].svc = th.svc /\ client[c].req = th.req
      /\ buf[c] # <<>> => First(c).req = client[c].req
  BY <1>1, <1>2, <1>3, AnswerDue
<1>6. PICK new : new = After(th, r)
  OBVIOUS
<1>7. /\ new \in ThreadState /\ new.idx = c /\ new.took = th.took /\ new.svc = th.svc
      /\ new.req = th.req /\ new.at \in DOMAIN ServerScript[new.svc] /\ new.phase \in {"run", "end"}
      /\ r \in {"on", "end", "again", "in", "welcome"}
      /\ \/ r = "on" /\ new.phase = "run" /\ Does(new) = "get" /\ Pos(new) = Pos(th) + 1
         \/ r = "again" /\ new.phase = "run" /\ Does(new) = "get" /\ Pos(new) = Pos(th) - 1
         \/ r = "welcome" /\ new.phase = "run" /\ Does(new) = "account" /\ th.svc = "connect"
         \/ /\ r \in {"end", "in", "welcome"} /\ new.phase = "end"
            /\ r = "welcome" => th.svc = "login"
            /\ r = "in" => th.svc \in {"newRoom", "joinRoom"}
      /\ th.svc = "newRoom" => Does(th) = "last"
  BY <1>3, <1>6, AnswersAre
<1>8. threads' = [threads EXCEPT ![c][Len(threads[c])] = new]
  BY <1>2, <1>4, <1>6
<1>9. /\ threads' \in [Slots -> Seq(ThreadState)] /\ ThreadsRight(c)' /\ Server(c)' = new
      /\ \A j \in Slots \ {c} : threads'[j] = threads[j]
      /\ AtAccount(c)' <=> new.phase # "end" /\ Does(new) = "account"
      /\ Serving(c)' <=> new.phase # "end" /\ Does(new) # "account"
      /\ Pos(Server(c))' = Pos(new) /\ Low(Server(c))' = Low(new)
  <2>1. new.took \in {<<>>, <<c, new.req>>} /\ new.phase \notin {"copy", "lower", "clear", "tail"}
    BY <1>3, <1>7
  <2> QED BY <1>7, <1>8, <2>1, Replaced
<1>10. /\ replies \in [Slots -> Seq({"on", "end", "again", "in", "welcome"})] /\ account \in [Slots -> BOOLEAN]
  BY <1>2 DEF TypeOK
<1>11. /\ replies' \in [Slots -> Seq({"on", "end", "again", "in", "welcome"})] /\ replies'[c] = <<r>>
       /\ \A j \in Slots \ {c} : replies'[j] = replies[j]
  <2>1. replies' = [replies EXCEPT ![c] = <<r>>]
    BY <1>4, <1>5
  <2>2. <<r>> \in Seq({"on", "end", "again", "in", "welcome"})
    BY <1>7
  <2> QED BY <1>10, <2>1, <2>2
<1>12. /\ account' \in [Slots -> BOOLEAN] /\ (account'[c] <=> account[c] \/ (th.svc = "login" /\ r = "welcome"))
       /\ \A j \in Slots \ {c} : account'[j] = account[j]
  <2>1. PICK b \in BOOLEAN : b <=> th.svc = "login" /\ r = "welcome"
    OBVIOUS
  <2>2. account' = [account EXCEPT ![c] = @ \/ b]
    BY <1>4, <2>1, Zenon
  <2> QED BY <1>10, <2>1, <2>2
<1>13. roomNum' \in Nat
  <2>1. roomNum \in Nat
    BY <1>2 DEF TypeOK
  <2> QED BY <1>4, <2>1
<1>14. TypeOK'
  BY <1>1, <1>2, <1>9, <1>11, <1>12, <1>13 DEF TypeOK
<1>15. \A j \in Slots \ {c} : Untouched(j)
  BY <1>1, <1>9, <1>11, <1>12, LoopStays DEF Untouched
<1>16. /\ (Checking(c)' <=> Checking(c)) /\ (HasType(c, "service")' <=> HasType(c, "service"))
       /\ (HasType(c, "message")' <=> HasType(c, "message")) /\ First(c)' = First(c)
       /\ (Unread(c)' <=> Unread(c)) /\ Busy(c)' /\ Op(c)' = "await"
  BY <1>1, <1>3, <1>5, <1>7, <1>9, LoopStays DEF HasType, First, Unread, Busy, Op
<1>17. Mailed(c)'
  BY <1>1, <1>2, <1>16 DEF SlotRight, Mailed
<1>18. Stream(c)'
  BY <1>1, <1>5, <1>16 DEF Stream
<1>19. replies'[c] # <<>> /\ Len(replies'[c]) = 1 /\ replies'[c][1] = r
  BY <1>11
<1>20. Asking(c)'
  <2>1. new.svc = "connect" => (account'[c] <=> account[c])
    BY <1>7, <1>12
  <2> QED BY <1>1, <1>2, <1>3, <1>7, <1>9, <1>11, <1>16, <2>1 DEF SlotRight, Asking
<1>21. Replied(c)'
  BY <1>1, <1>5, <1>7, <1>9, <1>16, <1>19 DEF Replied
<1>22. Conversation(c)'
  <2> SUFFICES ASSUME Serving(c)' PROVE Conversation(c)'
    BY DEF Conversation
  <2>1. /\ new.phase = "run" /\ Does(new) = "get"
        /\ \/ r = "on" /\ Pos(new) = Pos(th) + 1
           \/ r = "again" /\ Pos(new) = Pos(th) - 1
    BY <1>7, <1>9
  <2>2. PICK p, q : p \in Nat /\ p = Pos(th) /\ q = Pos(new)
    BY <1>3
  <2>3. client[c].at = p /\ ((r = "on" /\ p = q - 1) \/ (r = "again" /\ p = q + 1))
    <3>1. (r = "on" /\ q = p + 1) \/ (r = "again" /\ q = p - 1)
      BY <2>1, <2>2
    <3>2. (q = p + 1 => p = q - 1) /\ (q = p - 1 => p = q + 1)
      BY <2>2
    <3> QED BY <1>5, <2>2, <3>1, <3>2
  <2>4. Aligned(c)'
    <3>1. Pos(Server(c))' = q
      BY <1>9, <2>2
    <3> QED BY <1>1, <1>9, <1>11, <1>16, <2>1, <2>3, <3>1 DEF Aligned, Does
  <2> QED BY <1>1, <1>5, <1>7, <1>9, <1>16, <2>1, <2>4 DEF Conversation
<1>23. InOrder(c)'
  <2>1. Kept(c)' = Kept(c)
    BY <1>1, <1>3, <1>7, <1>9 DEF Kept
  <2> QED BY <1>1, <1>2, <1>7, <1>9, <1>16, <2>1 DEF SlotRight, InOrder
<1>24. Known(c)'
  <2>1. (logged[c] \/ r = "welcome") => (account'[c] \/ AtAccount(c)')
    BY <1>2, <1>5, <1>7, <1>9, <1>12 DEF SlotRight, Known
  <2> QED BY <1>1, <1>19, <1>11, <2>1 DEF Known
<1> QED BY <1>9, <1>14, <1>15, <1>17, <1>18, <1>20, <1>21, <1>22, <1>23, <1>24, OneSlot DEF SlotRight


\* What ends a thread that has ended its service or that is about to set the
\* account: only the account may be other than it was.
LEMMA EndRight ==
    ASSUME MailInv, NEW c \in Slots, NEW i \in DOMAIN threads[c], threads[c][i].phase = "run",
           \/ Does(Server(c)) = "last" /\ account' = account
           \/ Does(Server(c)) = "account" /\ account' = [account EXCEPT ![c] = TRUE],
           threads' = [threads EXCEPT ![c][i].phase = "end"],
           UNCHANGED <<clientVars, roomNum, net, replies, buf, ready, loop, todo, past, sent, got>>
    PROVE  MailInv'
<1>1. /\ i = Len(threads[c]) /\ threads[c][i] = Server(c) /\ SlotRight(c) /\ TypeOK
  BY ThreadIs
<1>2. PICK th \in ThreadState : /\ th = Server(c) /\ th.phase = "run" /\ th.idx = c
                                /\ th.at \in DOMAIN ServerScript[th.svc] /\ th.took \in {<<>>, <<c, th.req>>}
  BY <1>1, ServerIs DEF SlotRight, ThreadRight, Server
<1>3. PICK new : new = [th EXCEPT !.phase = "end"]
  OBVIOUS
<1>4. /\ new \in ThreadState /\ new.phase = "end" /\ new.svc = th.svc /\ new.at = th.at
      /\ new.req = th.req /\ new.idx = th.idx /\ new.took = th.took
  BY <1>3 DEF ThreadState, Phases
<1>5. threads' = [threads EXCEPT ![c][Len(threads[c])] = new]
  BY <1>1, <1>2, <1>3 DEF TypeOK, ThreadState
<1>6. /\ threads' \in [Slots -> Seq(ThreadState)] /\ ThreadsRight(c)' /\ Server(c)' = new
      /\ \A j \in Slots \ {c} : threads'[j] = threads[j]
      /\ AtAccount(c)' <=> new.phase # "end" /\ Does(new) = "account"
      /\ Serving(c)' <=> new.phase # "end" /\ Does(new) # "account"
      /\ Pos(Server(c))' = Pos(new) /\ Low(Server(c))' = Low(new)
  <2>1. /\ new.idx = c /\ new.took \in {<<>>, <<c, new.req>>} /\ new.at \in DOMAIN ServerScript[new.svc]
        /\ new.phase \notin {"copy", "lower", "clear", "tail"}
    BY <1>2, <1>4
  <2> QED BY <1>4, <1>5, <2>1, Replaced
<1>7. /\ account' \in [Slots -> BOOLEAN] /\ \A j \in Slots \ {c} : account'[j] = account[j]
      /\ account[c] \/ AtAccount(c) => account'[c]
  BY <1>1, <1>2 DEF TypeOK, AtAccount
<1>8. TypeOK' /\ \A j \in Slots \ {c} : Untouched(j)
  BY <1>1, <1>6, <1>7, LoopStays DEF TypeOK, Untouched
<1>9. /\ ~AtAccount(c)' /\ ~Serving(c)' /\ (Unread(c)' <=> Unread(c))
      /\ (Checking(c)' <=> Checking(c)) /\ (HasType(c, "service")' <=> HasType(c, "service"))
      /\ (HasType(c, "message")' <=> HasType(c, "message")) /\ First(c)' = First(c)
      /\ (Busy(c)' <=> Busy(c)) /\ Op(c)' = Op(c)
  BY <1>2, <1>4, <1>6, LoopStays DEF HasType, First, Unread, Busy, Op
<1>10. Does(Server(c)) = "last" => Serving(c) /\ replies[c] = <<>>
  BY <1>1, <1>2, AnswerDue
<1>11. ~(Does(Server(c)) = "last") => ~Serving(c)
  BY DEF Serving, AtAccount
<1>12. Mailed(c)'
  BY <1>1, <1>9 DEF SlotRight, Mailed
<1>13. Stream(c)'
  <2>1. ASSUME Serving(c) PROVE Stream(c)'
    <3>1. net[c] = <<>> /\ ~(Checking(c) /\ HasType(c, "service"))
      BY <1>1, <1>2, <1>11, <2>1, AnswerDue
    <3> QED BY <1>9, <3>1 DEF Stream
  <2>2. ASSUME ~Serving(c) PROVE Stream(c)'
    BY <1>1, <1>9, <2>2 DEF SlotRight, Stream, Asked, Messages, Before
  <2> QED BY <2>1, <2>2
<1>14. Asking(c)'
  BY <1>1, <1>4, <1>6, <1>9 DEF SlotRight, Asking
<1>15. Replied(c)'
  BY <1>1, <1>9, <1>10, <1>11 DEF SlotRight, Replied
<1>16. Conversation(c)'
  BY <1>9 DEF Conversation
<1>17. InOrder(c)'
  <2>1. Kept(c)' = Kept(c)
    BY <1>2, <1>4, <1>6 DEF Kept
  <2> QED BY <1>1, <1>4, <1>6, <1>9, <2>1 DEF SlotRight, InOrder
<1>18. Known(c)'
  BY <1>1, <1>7, <1>9 DEF SlotRight, Known
<1> QED BY <1>6, <1>8, <1>12, <1>13, <1>14, <1>15, <1>16, <1>17, <1>18, OneSlot DEF SlotRight

LEMMA CountRoomsRight ==
    ASSUME MailInv, NEW c \in Slots, NEW i \in DOMAIN threads[c], CountRooms(c, i)
    PROVE  MailInv'
<1>1. /\ threads[c][i].phase = "run" /\ Step(c, i) = "last" /\ threads[c][i].svc = "newRoom"
      /\ UNCHANGED <<clientVars, account, roomNum, net, replies, buf, ready, loop, todo, past, sent, got>>
      /\ \/ threads' = [threads EXCEPT ![c][i].phase = "making"]
         \/ threads' = [threads EXCEPT ![c][i].phase = "end"]
  BY DEF CountRooms, At
<1>2. Does(Server(c)) = "last" /\ Server(c).svc = "newRoom"
  BY <1>1, ThreadIs
<1>3. CASE threads' = [threads EXCEPT ![c][i].phase = "making"]
  <2>1. PICK p \in {"run", "making"} : p = "making"
    OBVIOUS
  <2>2. /\ threads[c][i].phase = IF p = "run" THEN "born" ELSE "run"
        /\ threads' = [threads EXCEPT ![c][i].phase = p]
    BY <1>1, <1>3, <2>1
  <2> QED BY <1>1, <1>2, <2>2, ShiftRight
<1>4. CASE threads' = [threads EXCEPT ![c][i].phase = "end"]
  BY <1>1, <1>2, <1>4, EndRight
<1> QED BY <1>1, <1>3, <1>4

LEMMA SetAccountRight ==
    ASSUME MailInv, NEW c \in Slots, NEW i \in DOMAIN threads[c], SetAccount(c, i)
    PROVE  MailInv'
<1>1. threads[c][i].phase = "run" /\ Step(c, i) = "account"
  BY DEF SetAccount, At
<1>2. Does(Server(c)) = "account" /\ Idx(c, i) = c
  BY <1>1, ThreadIs
<1> QED BY <1>1, <1>2, EndRight DEF SetAccount

-----------------------------------------------------------------------------
(***************************************************************************)
(* The invariant, and what follows from it.                                *)
(***************************************************************************)

LEMMA InitRight == Init => MailInv
<1> SUFFICES ASSUME Init PROVE MailInv
  OBVIOUS
<1> DEFINE th(k) == [req |-> 0, svc |-> "connect", idx |-> k, at |-> 1, phase |-> "run", took |-> <<>>]
<1>1. /\ client = [k \in Slots |-> [svc |-> "connect", at |-> 1, req |-> 0]]
      /\ logged = [k \in Slots |-> FALSE] /\ account = [k \in Slots |-> FALSE]
      /\ net = [k \in Slots |-> <<>>] /\ replies = [k \in Slots |-> <<>>]
      /\ buf = [k \in Slots |-> <<>>] /\ ready = [k \in Slots |-> -1]
      /\ loop = "select" /\ todo = {} /\ roomNum = 0 /\ past = {}
      /\ threads = [k \in Slots |-> <<th(k)>>]
      /\ sent = [k \in Slots |-> <<>>] /\ got = [k \in Slots |-> <<>>]
  BY DEF Init
<1>2. ASSUME NEW k \in Slots PROVE th(k) \in ThreadState
  <2>1. 0 \in 0 .. MostRequests
    BY MostIsBound
  <2> QED BY <2>1 DEF ThreadState, Services, Phases
<1>3. TypeOK
  <2>1. client \in [Slots -> ClientState]
    <3>1. 0 \in 0 .. MostRequests /\ "connect" \in DOMAIN ClientScript
      BY MostIsBound DEF ClientScript
    <3>2. [svc |-> "connect", at |-> 1, req |-> 0] \in ClientState
      BY <3>1 DEF ClientState
    <3> QED BY <1>1, <3>2
  <2>2. threads \in [Slots -> Seq(ThreadState)]
    <3>1. ASSUME NEW k \in Slots PROVE <<th(k)>> \in Seq(ThreadState)
      <4>1. PICK t \in ThreadState : t = th(k)
        BY <1>2
      <4>2. <<t>> \in Seq(ThreadState)
        OBVIOUS
      <4> QED BY <4>1, <4>2
    <3> QED BY <1>1, <3>1
  <2>3. roomNum \in Nat
    BY <1>1
  <2>4. logged \in [Slots -> BOOLEAN] /\ account \in [Slots -> BOOLEAN]
    BY <1>1
  <2>5. /\ net \in [Slots -> Seq(Requests)] /\ buf \in [Slots -> Seq(Requests)]
        /\ sent \in [Slots -> Seq(Requests)] /\ got \in [Slots -> Seq(Requests)]
        /\ replies \in [Slots -> Seq({"on", "end", "again", "in", "welcome"})]
    BY <1>1
  <2>6. /\ ready \in [Slots -> {-1, 0, 1}] /\ loop \in {"select", "scan", "check", "crash"}
        /\ todo \subseteq Slots /\ (loop \in {"scan", "check"} => todo # {}) /\ past \subseteq {"coalesced", "late"}
    BY <1>1
  <2> QED BY <2>1, <2>2, <2>3, <2>4, <2>5, <2>6 DEF TypeOK
<1>4. ASSUME NEW k \in Slots PROVE SlotRight(k)
  <2>1. /\ client[k].svc = "connect" /\ client[k].at = 1 /\ client[k].req = 0
        /\ ~logged[k] /\ ~account[k] /\ net[k] = <<>> /\ replies[k] = <<>> /\ buf[k] = <<>>
        /\ ready[k] = -1 /\ sent[k] = <<>> /\ got[k] = <<>> /\ ~Checking(k)
    BY <1>1 DEF Checking
  <2>2. PICK t : t = th(k)
    OBVIOUS
  <2>3. /\ t.req = 0 /\ t.svc = "connect" /\ t.idx = k /\ t.at = 1 /\ t.phase = "run" /\ t.took = <<>>
    BY <2>2
  <2>4. threads[k] = <<t>> /\ Server(k) = t
    BY <1>1, <2>2 DEF Server
  <2>5. 1 \in DOMAIN ServerScript["connect"] /\ ServerScript["connect"][1] = "get"
        /\ ClientScript["connect"] = <<"message", "await">>
    BY DEF ServerScript, ClientScript
  <2>6. ThreadsRight(k)
    BY <2>3, <2>4, <2>5 DEF ThreadsRight, ThreadRight
  <2>7. Mailed(k)
    BY <2>1 DEF Mailed
  <2>8. Stream(k)
    BY <2>1 DEF Stream
  <2>9. ~AtAccount(k)
    BY <2>3, <2>4, <2>5 DEF AtAccount, Does
  <2>10. Asking(k)
    BY <2>1, <2>5, <2>9 DEF Asking, Busy
  <2>11. Replied(k)
    BY <2>1 DEF Replied
  <2>12. Aligned(k)
    <3>1. Messages(k, 1)
      BY <2>1 DEF Messages
    <3> QED BY <2>1, <2>3, <2>4, <2>5, <3>1 DEF Aligned, Does, Pos, Low, Late
  <2>13. Conversation(k)
    BY <2>1, <2>3, <2>4, <2>12 DEF Conversation, HasType
  <2>14. InOrder(k)
    BY <2>1, <2>3, <2>4 DEF InOrder, Kept, Handed
  <2>15. Known(k)
    BY <2>1, <2>9 DEF Known
  <2> QED BY <2>6, <2>7, <2>8, <2>10, <2>11, <2>13, <2>14, <2>15 DEF SlotRight
<1> QED BY <1>3, <1>4 DEF MailInv

LEMMA StutterRight ==
    ASSUME MailInv, UNCHANGED vars
    PROVE  MailInv'
<1>1. TypeOK'
  BY DEF MailInv, TypeOK
<1>2. ASSUME NEW k \in Slots PROVE SlotRight(k)'
  BY Frame, LoopStays DEF MailInv
<1> QED BY <1>1, <1>2 DEF MailInv

LEMMA StepRight ==
    ASSUME MailInv, [Next]_vars, past = {}, past' = {}
    PROVE  MailInv'
<1>1. CASE Clients
  BY <1>1, ChooseRight, ClientSendRight, ClientTakeRight DEF Clients
<1>2. CASE Loop
  BY <1>2, SelectRight, ReceiveRight, CheckRight DEF Loop
<1>3. ASSUME NEW c \in Slots, NEW i \in DOMAIN threads[c], RunThread(c, i) PROVE MailInv'
  BY <1>3, BornRight, SeeRight, CopyRight, LowerRight, ClearRight, TailCheckRight, ReplyRight,
     CountRoomsRight, SetAccountRight DEF RunThread
<1>4. CASE UNCHANGED vars
  BY <1>4, StutterRight
<1> QED BY <1>1, <1>2, <1>3, <1>4 DEF Next


\* A disturbance is not forgotten.
LEMMA PastStays ==
    ASSUME [Next]_vars
    PROVE  past \subseteq past'
<1>1. CASE Clients
  BY <1>1 DEF Clients, Choose, ClientSend, ClientTake
<1>2. CASE Loop
  <2>1. ASSUME Check PROVE past \subseteq past'
    BY <2>1 DEF Check
  <2>2. ASSUME Receive PROVE past \subseteq past'
    BY <2>2 DEF Receive
  <2> QED BY <1>2, <2>1, <2>2 DEF Loop, Select
<1>3. ASSUME NEW c \in Slots, NEW i \in DOMAIN threads[c], RunThread(c, i) PROVE past \subseteq past'
  BY <1>3 DEF RunThread, Born, See, Copy, Lower, Clear, TailCheck, CountRooms, Reply, SetAccount
<1> QED BY <1>1, <1>2, <1>3 DEF Next

\* What the arguments above keep at every step of every behaviour, until it is
\* disturbed: where each thread is belongs to where its client is.
THEOREM MailInvariant == Spec => [](past = {} => MailInv)
<1>1. Init => (past = {} => MailInv)
  BY InitRight
<1>2. (past = {} => MailInv) /\ [Next]_vars => (past = {} => MailInv)'
  BY PastStays, StepRight
<1> QED BY <1>1, <1>2, PTL DEF Spec

\* As long as every recv returned one message and every thread read its own
\* args, no two threads of the server ever poll the same mailbox: getMessage
\* of recvMessage.c needs no lock then.
THEOREM MailboxHasOneReader == Spec => []OneReader
<1>1. (past = {} => MailInv) => OneReader
  <2> SUFFICES ASSUME MailInv, NEW t \in Live, NEW u \in Live, Idx(t[1], t[2]) = Idx(u[1], u[2])
               PROVE  t = u
    BY DEF OneReader
  <2>1. /\ t \in Slots \X (1 .. 2 * (MostRequests + 1)) /\ u \in Slots \X (1 .. 2 * (MostRequests + 1))
        /\ t[1] \in Slots /\ t[2] \in DOMAIN threads[t[1]] /\ threads[t[1]][t[2]].phase # "end"
        /\ u[1] \in Slots /\ u[2] \in DOMAIN threads[u[1]] /\ threads[u[1]][u[2]].phase # "end"
    BY DEF Live, Started, At
  <2>2. t[2] = Len(threads[t[1]]) /\ Idx(t[1], t[2]) = t[1]
    BY <2>1, ThreadIs
  <2>3. u[2] = Len(threads[u[1]]) /\ Idx(u[1], u[2]) = u[1]
    BY <2>1, ThreadIs
  <2>4. t[1] = u[1] /\ t[2] = u[2]
    BY <2>2, <2>3
  <2> QED BY <2>1, <2>4
<1> QED BY <1>1, MailInvariant, PTL

\* As long as every recv returned one message and every thread read its own
\* args, what a thread reads was sent by the client it serves, for the request
\* it serves: two conversations never mix, and neither do two requests.
THEOREM ConversationsStayApart == Spec => []ConversationsApart
<1>1. (past = {} => MailInv) => ConversationsApart
  BY SMTT(20) DEF MailInv, SlotRight, ThreadsRight, ThreadRight, ConversationsApart
<1> QED BY <1>1, MailInvariant, PTL

\* Where a thread goes on, the loop does: it never reads a SERVICE at the end
\* of its getMessage.
LEMMA ThreadLeavesLoop ==
    ASSUME MailInv, NEW c \in Slots, NEW i \in DOMAIN threads[c], RunThread(c, i)
    PROVE  loop' = loop
<1>1. ASSUME TailCheck(c, i) PROVE loop' = loop
  <2>1. threads[c][i].phase = "tail"
    BY <1>1 DEF TailCheck, At
  <2>2. Idx(c, i) = c /\ SlotRight(c) /\ Server(c).phase = "tail" /\ TypeOK
    BY <2>1, ThreadIs
  <2>3. Does(Server(c)) = "get"
    BY <2>2, ServerIs DEF SlotRight, ThreadRight, Server
  <2>4. HasType(c, "message")
    BY <2>2, <2>3 DEF SlotRight, Conversation, Serving, AtAccount
  <2>5. SaysService(c) = {FALSE}
    BY <2>4 DEF SaysService, HasType
  <2> QED BY <1>1, <2>2, <2>5 DEF TailCheck
<1> QED BY <1>1 DEF RunThread, Born, See, Copy, Lower, Clear, Reply, CountRooms, SetAccount

\* Whose account is followed before there is one has been welcomed by
\* newConnection.
LEMMA WelcomedIs ==
    ASSUME MailInv, NEW k \in Slots, ~account[k], AtAccount(k)
    PROVE  Welcomed(k)
<1>1. SlotRight(k) /\ TypeOK
  BY DEF MailInv
<1>2. Len(threads[k]) \in DOMAIN threads[k]
  BY <1>1, ServerIs DEF SlotRight
<1> QED BY <1>2 DEF Welcomed, At, Step, AtAccount, Does, Server

\* As long as every recv returned one message and every thread read its own
\* args, serviceOrder follows the NULL of client_account only for a client
\* that newConnection has welcomed and not yet given its account.
THEOREM AccountsAreKnown == Spec => []AccountKnown
<1>1. Init => AccountKnown
  BY DEF Init, AccountKnown
<1>2. (past = {} => MailInv) /\ AccountKnown /\ [Next]_vars => AccountKnown'
  <2> SUFFICES ASSUME past = {} => MailInv, AccountKnown, [Next]_vars, past' = {}, loop' = "crash"
               PROVE  \E k \in Slots : Welcomed(k)'
    BY DEF AccountKnown
  <2>0. past = {} /\ MailInv
    BY PastStays
  <2>1. CASE Check
    <3>1. PICK k \in Slots : k = Scanned /\ Checking(k)
      BY <2>0, <2>1, ScannedIsIn DEF Check, MailInv, TypeOK, Checking
    <3>2. HasType(k, "service") /\ NeedsAccount(First(k).svc) /\ ~account[k]
          /\ threads' = threads /\ account' = account
      <4>1. \/ HasType(k, "service") /\ Serve(k, Reused(k), "born", IF todo = {k} THEN "select" ELSE "scan")
               /\ past' = IF Reused(k) = threads THEN past ELSE past \cup {"late"}
            \/ loop' = IF todo = {k} THEN "select" ELSE "scan"
        BY <2>1, <3>1 DEF Check, SaysService
      <4>2. HasType(k, "service") /\ Serve(k, Reused(k), "born", IF todo = {k} THEN "select" ELSE "scan")
            /\ Reused(k) = threads
        BY <4>1
      <4> QED BY <2>1, <4>2 DEF Serve, First, Check
    <3>3. Asked(k, First(k)) /\ SlotRight(k)
      BY <2>0, <3>1, <3>2, ServiceIs DEF MailInv
    <3>4. client[k].svc \in {"newRoom", "joinRoom"} /\ replies[k] = <<>>
      BY <3>2, <3>3 DEF Asked, NeedsAccount
    <3>5. logged[k]
      BY <3>3, <3>4 DEF SlotRight, Asking
    <3>6. AtAccount(k)
      BY <3>2, <3>3, <3>5 DEF SlotRight, Known
    <3>7. Welcomed(k)
      BY <2>0, <3>2, <3>6, WelcomedIs
    <3> QED BY <3>2, <3>7 DEF Welcomed, At, Step
  <2>2. CASE loop = "crash" /\ UNCHANGED vars
    BY <2>0, <2>2 DEF AccountKnown, Welcomed, At, Step
  <2>3. loop # "crash" \/ UNCHANGED vars
    BY DEF Next
  <2>4. ASSUME loop # "crash" PROVE Check
    <3>1. ~(Select \/ Receive) /\ ~Clients /\ ~UNCHANGED vars
      BY <2>4 DEF Select, Receive, Clients, Choose, ClientSend, ClientTake
    <3>2. ASSUME NEW c \in Slots, NEW i \in DOMAIN threads[c], RunThread(c, i) PROVE FALSE
      BY <2>0, <2>4, <3>2, ThreadLeavesLoop
    <3> QED BY <3>1, <3>2 DEF Next, Loop
  <2> QED BY <2>1, <2>2, <2>3, <2>4
<1> QED BY <1>1, <1>2, MailInvariant, PTL DEF Spec


-----------------------------------------------------------------------------
(***************************************************************************)
(* The types, which are kept whatever one recv returns and whosever args a *)
(* thread reads.                                                           *)
(***************************************************************************)

\* Where a thread is its script goes, and what it is about to copy is there; b
\* stands for the buffers.
Sound(th, b) ==
    /\ th \in ThreadState /\ th.at \in DOMAIN ServerScript[th.svc]
    /\ th.phase \in {"copy", "lower", "clear", "tail"} => Does(th) = "get"
    /\ th.phase = "copy" => b[th.idx] # <<>>
    /\ th.phase = "making" => th.svc = "newRoom" /\ Does(th) = "last"

AllSound(ts, b) ==
    /\ ts \in [Slots -> Seq(ThreadState)]
    /\ \A c \in Slots : \A i \in DOMAIN ts[c] : Sound(ts[c][i], b)

TypeInv == TypeOK /\ AllSound(threads, buf)

\* The threads with another one in the place of one of them
LEMMA ReplacedSound ==
    ASSUME NEW ts, NEW b, AllSound(ts, b), NEW c \in Slots, NEW i \in DOMAIN ts[c], NEW th, Sound(th, b)
    PROVE  AllSound([ts EXCEPT ![c][i] = th], b)
<1>1. ts \in [Slots -> Seq(ThreadState)] /\ ts[c] \in Seq(ThreadState) /\ th \in ThreadState
  BY DEF AllSound, Sound
<1>2. PICK l \in Nat : l = Len(ts[c]) /\ DOMAIN ts[c] = 1 .. l
  BY <1>1, LenProperties
<1>3. PICK s : s = [ts[c] EXCEPT ![i] = th]
  OBVIOUS
<1>4. /\ s \in Seq(ThreadState) /\ DOMAIN s = 1 .. l /\ s[i] = th
      /\ \A j \in 1 .. l : j # i => s[j] = ts[c][j]
  BY <1>1, <1>2, <1>3, ExceptSeq
<1>5. [ts EXCEPT ![c][i] = th] = [ts EXCEPT ![c] = s]
  BY <1>3
<1>6. [ts EXCEPT ![c] = s] \in [Slots -> Seq(ThreadState)]
  BY <1>1, <1>4
<1>7. ASSUME NEW d \in Slots, NEW j \in DOMAIN [ts EXCEPT ![c] = s][d]
      PROVE  Sound([ts EXCEPT ![c] = s][d][j], b)
  <2>1. CASE d = c
    <3>1. [ts EXCEPT ![c] = s][d] = s
      BY <1>1, <2>1
    <3>2. j \in DOMAIN ts[c] /\ (j # i => s[j] = ts[c][j])
      BY <1>2, <1>4, <1>7, <3>1
    <3> QED BY <1>4, <3>1, <3>2 DEF AllSound
  <2>2. CASE d # c
    <3>1. [ts EXCEPT ![c] = s][d] = ts[d]
      BY <1>1, <2>2
    <3> QED BY <1>7, <3>1 DEF AllSound
  <2> QED BY <2>1, <2>2
<1> QED BY <1>5, <1>6, <1>7 DEF AllSound

\* The threads and one more of slot c
LEMMA StartedSound ==
    ASSUME NEW ts, NEW b, AllSound(ts, b), NEW c \in Slots, NEW th, Sound(th, b)
    PROVE  AllSound([ts EXCEPT ![c] = Append(@, th)], b)
<1>1. ts \in [Slots -> Seq(ThreadState)] /\ ts[c] \in Seq(ThreadState) /\ th \in ThreadState
  BY DEF AllSound, Sound
<1>2. PICK l \in Nat : l = Len(ts[c]) /\ DOMAIN ts[c] = 1 .. l
  BY <1>1, LenProperties
<1>3. PICK s : s = Append(ts[c], th)
  OBVIOUS
<1>4. /\ s \in Seq(ThreadState) /\ DOMAIN s = 1 .. l + 1 /\ s[l + 1] = th
      /\ \A j \in 1 .. l : s[j] = ts[c][j]
  <2>1. PICK t \in Seq(ThreadState) : t = ts[c]
    BY <1>1
  <2> QED BY <1>1, <1>2, <1>3, <2>1, AppendIs
<1>5. [ts EXCEPT ![c] = s] \in [Slots -> Seq(ThreadState)]
  BY <1>1, <1>4
<1>6. ASSUME NEW d \in Slots, NEW j \in DOMAIN [ts EXCEPT ![c] = s][d]
      PROVE  Sound([ts EXCEPT ![c] = s][d][j], b)
  <2>1. CASE d = c
    <3>1. [ts EXCEPT ![c] = s][d] = s
      BY <1>1, <2>1
    <3>2. j = l + 1 \/ j \in 1 .. l
      BY <1>4, <1>6, <3>1
    <3> QED BY <1>2, <1>4, <3>1, <3>2 DEF AllSound
  <2>2. CASE d # c
    <3>1. [ts EXCEPT ![c] = s][d] = ts[d]
      BY <1>1, <2>2
    <3> QED BY <1>6, <3>1 DEF AllSound
  <2> QED BY <2>1, <2>2
<1> QED BY <1>3, <1>5, <1>6 DEF AllSound

\* Args that were overwritten
LEMMA ReusedSound ==
    ASSUME TypeInv, NEW k \in Slots
    PROVE  AllSound(Reused(k), buf)
<1> DEFINE new(c, i) == IF At(c, i, "born") THEN [threads[c][i] EXCEPT !.idx = k] ELSE threads[c][i]
           ts(c) == [i \in DOMAIN threads[c] |-> new(c, i)]
<1>1. Reused(k) = [c \in Slots |-> ts(c)]
  BY DEF Reused
<1>2. ASSUME NEW c \in Slots, NEW i \in DOMAIN threads[c] PROVE Sound(new(c, i), buf)
  <2>1. PICK th \in ThreadState : th = threads[c][i] /\ Sound(th, buf)
    BY DEF TypeInv, AllSound, Sound
  <2>2. CASE th.phase = "born"
    <3>1. PICK t : t = [th EXCEPT !.idx = k]
      OBVIOUS
    <3>2. t \in ThreadState /\ t.phase = "born" /\ t.at = th.at /\ t.svc = th.svc
      BY <2>2, <3>1 DEF ThreadState
    <3>3. Sound(t, buf)
      BY <2>1, <3>2 DEF Sound
    <3> QED BY <2>1, <2>2, <3>1, <3>3 DEF At
  <2>3. CASE th.phase # "born"
    BY <2>1, <2>3 DEF At
  <2> QED BY <2>2, <2>3
<1>3. ASSUME NEW c \in Slots PROVE ts(c) \in Seq(ThreadState)
  <2>1. PICK l \in Nat : DOMAIN threads[c] = 1 .. l
    BY LenProperties DEF TypeInv, AllSound
  <2>2. \A i \in DOMAIN threads[c] : new(c, i) \in ThreadState
    BY <1>2 DEF Sound
  <2> HIDE DEF new
  <2>3. ts(c) = [i \in 1 .. l |-> new(c, i)]
    BY <2>1
  <2>4. [i \in 1 .. l |-> new(c, i)] \in [1 .. l -> ThreadState]
    BY <2>1, <2>2
  <2> QED BY <2>3, <2>4, SeqDef
<1> HIDE DEF new
<1>4. Reused(k) \in [Slots -> Seq(ThreadState)]
  <2> HIDE DEF ts
  <2> QED BY <1>1, <1>3
<1>5. ASSUME NEW c \in Slots, NEW i \in DOMAIN Reused(k)[c] PROVE Sound(Reused(k)[c][i], buf)
  <2>1. Reused(k)[c] = ts(c)
    BY <1>1
  <2>2. i \in DOMAIN threads[c] /\ Reused(k)[c][i] = new(c, i)
    BY <1>5, <2>1
  <2> QED BY <1>2, <2>2
<1> QED BY <1>4, <1>5 DEF AllSound

\* A SERVICE gets a thread, or the server is gone.
LEMMA ServeTyped ==
    ASSUME TypeInv, NEW k \in Slots, HasType(k, "service"), NEW ts, AllSound(ts, buf),
           NEW phase \in {"born", "run"}, NEW goOn, goOn \in {"select", "scan", "check", "crash"},
           Serve(k, ts, phase, goOn)
    PROVE  /\ AllSound(threads', buf)
           /\ got' \in [Slots -> Seq(Requests)] /\ ready' \in [Slots -> {-1, 0, 1}]
           /\ loop' \in {goOn, "crash"}
<1>1. buf[k] \in Seq(Requests) /\ got \in [Slots -> Seq(Requests)] /\ got[k] \in Seq(Requests)
      /\ ready \in [Slots -> {-1, 0, 1}]
  BY DEF TypeInv, TypeOK
<1>2. PICK m \in Requests : m = Head(buf[k]) /\ m.kind = "service"
  BY <1>1, HeadTailProperties DEF HasType
<1>3. /\ got' = [got EXCEPT ![k] = Append(@, m)] /\ ready' = [ready EXCEPT ![k] = FlagAfter(k)]
      /\ \/ loop' = "crash" /\ threads' = ts
         \/ loop' = goOn /\ threads' = [ts EXCEPT ![k] = Append(@, Thread(k, m, phase))]
  BY <1>2 DEF Serve
<1>4. got' \in [Slots -> Seq(Requests)]
  <2>1. Append(got[k], m) \in Seq(Requests)
    BY <1>1, AppendIs
  <2> QED BY <1>1, <1>3, <2>1
<1>5. ready' \in [Slots -> {-1, 0, 1}]
  <2>1. FlagAfter(k) \in {-1, 0, 1}
    BY <1>1 DEF FlagAfter
  <2> QED BY <1>1, <1>3, <2>1
<1>6. Sound(Thread(k, m, phase), buf)
  <2>1. m.svc \in Services /\ m.req \in 0 .. MostRequests
    BY <1>2, RequestIs
  <2>2. PICK th : th = Thread(k, m, phase)
    OBVIOUS
  <2>3. th \in ThreadState /\ th.svc = m.svc /\ th.at = 1 /\ th.phase = phase
    BY <2>1, <2>2 DEF Thread, ThreadState, Phases
  <2>4. 1 \in DOMAIN ServerScript[th.svc]
    BY <2>1, <2>3, FirstSteps
  <2>5. Sound(th, buf)
    BY <2>3, <2>4 DEF Sound
  <2> QED BY <2>2, <2>5
<1>7. AllSound(threads', buf)
  BY <1>3, <1>6, StartedSound
<1> QED BY <1>3, <1>4, <1>5, <1>7

LEMMA ClientsTyped ==
    ASSUME TypeInv, Clients
    PROVE  TypeInv'
<1>1. PICK k \in Slots : Choose(k) \/ ClientSend(k) \/ ClientTake(k)
  BY DEF Clients
<1>2. client \in [Slots -> ClientState] /\ client[k] \in ClientState
  BY DEF TypeInv, TypeOK
<1>3. UNCHANGED <<account, buf, ready, loop, todo, roomNum, threads, got, past>>
  BY <1>1 DEF Choose, ClientSend, ClientTake
<1> DEFINE c == client[k]
<1>4. c.req \in 0 .. MostRequests /\ c.at \in 1 .. 6 /\ c.svc \in DOMAIN ClientScript
  BY <1>2 DEF ClientState
<1>5. ASSUME Choose(k) PROVE TypeOK'
  <2>1. PICK s \in Menu : client' = [client EXCEPT ![k] = [svc |-> s, at |-> 1, req |-> c.req + 1]]
    BY <1>5 DEF Choose
  <2>2. c.req + 1 \in 0 .. MostRequests
    BY <1>4, <1>5, MostIsBound DEF Choose
  <2>3. s \in DOMAIN ClientScript
    BY FirstSteps
  <2>4. [svc |-> s, at |-> 1, req |-> c.req + 1] \in ClientState
    BY <2>2, <2>3 DEF ClientState
  <2>5. client' \in [Slots -> ClientState]
    BY <1>2, <2>1, <2>4
  <2> QED BY <1>3, <1>5, <2>5 DEF TypeInv, TypeOK, Choose
<1>6. ASSUME ClientSend(k) PROVE TypeOK'
  <2>1. PICK m : /\ m = [kind |-> Op(k), svc |-> c.svc, req |-> c.req, at |-> c.at]
                 /\ net' = [net EXCEPT ![k] = Append(@, m)] /\ sent' = [sent EXCEPT ![k] = Append(@, m)]
    BY <1>6 DEF ClientSend
  <2>2. c.at \in DOMAIN ClientScript[c.svc] /\ c.at \in 1 .. 5 /\ Op(k) \in {"service", "message"}
    BY <1>4, <1>6, ClientSteps DEF ClientSend, Busy
  <2>3. m \in Requests
    BY <1>4, <2>1, <2>2, Zenon DEF Requests, Op
  <2>4. net' \in [Slots -> Seq(Requests)] /\ sent' \in [Slots -> Seq(Requests)]
    BY <2>1, <2>3, AppendIs DEF TypeInv, TypeOK
  <2>5. client' \in [Slots -> ClientState]
    <3>1. c.at + 1 \in 1 .. 6
      BY <2>2
    <3>2. [c EXCEPT !.at = @ + 1] \in ClientState
      BY <1>2, <3>1 DEF ClientState
    <3> QED BY <1>2, <1>6, <3>2 DEF ClientSend
  <2> QED BY <1>3, <1>6, <2>4, <2>5 DEF TypeInv, TypeOK, ClientSend
<1>7. ASSUME ClientTake(k) PROVE TypeOK'
  <2>1. replies[k] \in Seq({"on", "end", "again", "in", "welcome"}) /\ replies[k] # <<>>
    BY <1>7 DEF ClientTake, TypeInv, TypeOK
  <2>2. Tail(replies[k]) \in Seq({"on", "end", "again", "in", "welcome"})
    BY <2>1, HeadTailProperties
  <2>3. replies' \in [Slots -> Seq({"on", "end", "again", "in", "welcome"})]
    BY <1>7, <2>2 DEF ClientTake, TypeInv, TypeOK
  <2>4. PICK r : r = Head(replies[k])
    OBVIOUS
  <2>5. logged' \in [Slots -> BOOLEAN]
    <3>1. PICK b \in BOOLEAN : b <=> r = "welcome"
      OBVIOUS
    <3>2. logged' = [logged EXCEPT ![k] = @ \/ b]
      BY <1>7, <2>4, <3>1, Zenon DEF ClientTake
    <3> QED BY <3>1, <3>2 DEF TypeInv, TypeOK
  <2>6. /\ c.at \in DOMAIN ClientScript[c.svc] /\ ClientScript[c.svc][c.at] = "await"
        /\ c.at \in 2 .. 5
    <3>1. c.at \in DOMAIN ClientScript[c.svc] /\ ClientScript[c.svc][c.at] = "await" /\ c.svc # "signOut"
      BY <1>7 DEF ClientTake, Busy, Op
    <3> QED BY <1>4, <3>1, AwaitsLater
  <2>7. PICK a : a = CASE r = "on" -> c.at + 1 [] r = "again" -> c.at - 1 [] OTHER -> c.at
    OBVIOUS
  <2>8. PICK s : s = CASE r \in {"on", "again"} -> c.svc [] r = "in" -> "inroom" [] OTHER -> "none"
    OBVIOUS
  <2>9. a \in 1 .. 6
    BY <2>6, <2>7
  <2>10. s \in DOMAIN ClientScript
    <3>1. {"none", "inroom"} \subseteq DOMAIN ClientScript
      BY DEF ClientScript
    <3> QED BY <1>4, <2>8, <3>1
  <2>11. client' = [client EXCEPT ![k] = [svc |-> s, at |-> a, req |-> c.req]]
    <3>1. client' = [client EXCEPT
             ![k].at  = CASE r = "on" -> @ + 1 [] r = "again" -> @ - 1 [] OTHER -> @,
             ![k].svc = CASE r \in {"on", "again"} -> @ [] r = "in" -> "inroom" [] OTHER -> "none"]
      BY <1>7, <2>4 DEF ClientTake
    <3>2. PICK d : d = client'[k]
      OBVIOUS
    <3>3. client' = [client EXCEPT ![k] = d]
      BY <1>2, <3>1, <3>2
    <3>4. d = [svc |-> CASE r \in {"on", "again"} -> c.svc [] r = "in" -> "inroom" [] OTHER -> "none",
               at  |-> CASE r = "on" -> c.at + 1 [] r = "again" -> c.at - 1 [] OTHER -> c.at,
               req |-> c.req]
      BY <1>2, <3>1, <3>2 DEF ClientState
    <3> QED BY <2>7, <2>8, <3>3, <3>4
  <2>12. client' \in [Slots -> ClientState]
    <3>1. [svc |-> s, at |-> a, req |-> c.req] \in ClientState
      BY <1>4, <2>9, <2>10 DEF ClientState
    <3> QED BY <1>2, <2>11, <3>1
  <2> QED BY <1>3, <1>7, <2>3, <2>5, <2>12 DEF TypeInv, TypeOK, ClientTake
<1> QED BY <1>1, <1>3, <1>5, <1>6, <1>7 DEF TypeInv

LEMMA LoopTyped ==
    ASSUME TypeInv, Loop
    PROVE  TypeInv'
<1>1. ASSUME Select PROVE TypeInv'
  BY <1>1 DEF Select, TypeInv, TypeOK
<1>2. ASSUME Receive PROVE TypeInv'
  <2>1. PICK k \in Slots : k = Scanned /\ k \in todo
    BY <1>2, ScannedIsIn DEF Receive, TypeInv, TypeOK
  <2>2. PICK n \in 1 .. Len(net[k]) :
           /\ past' = IF n > 1 THEN past \cup {"coalesced"} ELSE past
           /\ buf' = [buf EXCEPT ![k] = SubSeq(net[k], 1, n)]
           /\ net' = [net EXCEPT ![k] = SubSeq(@, n + 1, Len(@))]
    BY <1>2, <2>1 DEF Receive
  <2>3. /\ buf \in [Slots -> Seq(Requests)] /\ net \in [Slots -> Seq(Requests)] /\ net[k] \in Seq(Requests)
        /\ Len(net[k]) \in Nat /\ n \in Nat \ {0} /\ n <= Len(net[k])
    <3>1. buf \in [Slots -> Seq(Requests)] /\ net \in [Slots -> Seq(Requests)] /\ net[k] \in Seq(Requests)
      BY DEF TypeInv, TypeOK
    <3> QED BY <3>1, LenProperties
  <2> DEFINE s == net[k]
  <2>4. SubSeq(s, 1, n) \in Seq(Requests) /\ SubSeq(s, 1, n) # <<>> /\ SubSeq(s, n + 1, Len(s)) \in Seq(Requests)
    <3>1. \A j \in 1 .. Len(s) : s[j] \in Requests
      BY <2>3, ElementOfSeq, LenProperties
    <3>2. \A j \in 1 .. n : s[j] \in Requests
      BY <2>3, <3>1
    <3>3. \A j \in n + 1 .. Len(s) : s[j] \in Requests
      BY <2>3, <3>1
    <3>4. 1 <= n + 1 /\ n + 1 <= Len(s) + 1
      BY <2>3
    <3> HIDE DEF s
    <3>5. SubSeq(s, 1, n) \in Seq(Requests) /\ Len(SubSeq(s, 1, n)) = n
      BY <2>3, <3>2, SubSeqProperties
    <3>6. SubSeq(s, n + 1, Len(s)) \in Seq(Requests)
      BY <2>3, <3>3, <3>4, SubSeqProperties DEF s
    <3> QED BY <2>3, <3>5, <3>6, EmptySeq
  <2>5. buf' \in [Slots -> Seq(Requests)] /\ net' \in [Slots -> Seq(Requests)]
        /\ \A j \in Slots : buf'[j] # <<>> \/ buf'[j] = buf[j]
    BY <2>2, <2>3, <2>4
  <2>6. TypeOK'
    <3>1. ready' \in [Slots -> {-1, 0, 1}]
      BY <1>2, <2>1 DEF Receive, TypeInv, TypeOK
    <3>2. past' \subseteq {"coalesced", "late"}
      BY <2>2 DEF TypeInv, TypeOK
    <3> QED BY <1>2, <2>5, <3>1, <3>2 DEF Receive, TypeInv, TypeOK
  <2>7. AllSound(threads', buf')
    <3>1. threads' = threads
      BY <1>2 DEF Receive
    <3>2. ASSUME NEW c \in Slots, NEW i \in DOMAIN threads[c] PROVE Sound(threads[c][i], buf')
      <4>1. PICK th \in ThreadState : th = threads[c][i] /\ Sound(th, buf)
        BY DEF TypeInv, AllSound, Sound
      <4>2. th.idx \in Slots
        BY DEF ThreadState
      <4> QED BY <2>5, <4>1, <4>2 DEF Sound
    <3> QED BY <3>1, <3>2 DEF TypeInv, AllSound
  <2> QED BY <2>6, <2>7 DEF TypeInv
<1>3. ASSUME Check PROVE TypeInv'
  <2>1. PICK k \in Slots : k = Scanned /\ k \in todo
    BY <1>3, ScannedIsIn DEF Check, TypeInv, TypeOK
  <2>2. PICK go : /\ go = IF todo = {k} THEN "select" ELSE "scan"
                  /\ go \in {"select", "scan"} /\ (go = "scan" => todo \ {k} # {})
    BY <2>1
  <2>3. /\ todo' = todo \ {k} /\ UNCHANGED <<clientVars, account, roomNum, net, replies, buf, sent>>
        /\ \/ /\ HasType(k, "service") /\ Serve(k, Reused(k), "born", go)
              /\ past' \in {past, past \cup {"late"}}
           \/ loop' = go /\ UNCHANGED <<ready, got, threads, past>>
    BY <1>3, <2>1, <2>2 DEF Check, SaysService
  <2>4. /\ AllSound(threads', buf) /\ got' \in [Slots -> Seq(Requests)] /\ ready' \in [Slots -> {-1, 0, 1}]
        /\ loop' \in {go, "crash"} /\ past' \subseteq {"coalesced", "late"}
    <3>1. CASE HasType(k, "service") /\ Serve(k, Reused(k), "born", go) /\ past' \in {past, past \cup {"late"}}
      <4>1. AllSound(Reused(k), buf)
        BY ReusedSound
      <4>2. past' \subseteq {"coalesced", "late"}
        BY <3>1 DEF TypeInv, TypeOK
      <4>3. /\ AllSound(threads', buf) /\ got' \in [Slots -> Seq(Requests)]
            /\ ready' \in [Slots -> {-1, 0, 1}] /\ loop' \in {go, "crash"}
        BY <2>2, <3>1, <4>1, ServeTyped
      <4> QED BY <4>2, <4>3
    <3>2. CASE loop' = go /\ UNCHANGED <<ready, got, threads, past>>
      BY <3>2 DEF TypeInv, TypeOK
    <3> QED BY <2>3, <3>1, <3>2
  <2>5. threads' \in [Slots -> Seq(ThreadState)]
    BY <2>4 DEF AllSound
  <2>6. todo' \subseteq Slots /\ (loop' \in {"scan", "check"} => todo' # {}) /\ loop' \in {"select", "scan", "check", "crash"}
    BY <2>2, <2>3, <2>4 DEF TypeInv, TypeOK
  <2>7. TypeOK'
    BY <2>3, <2>4, <2>5, <2>6 DEF TypeInv, TypeOK
  <2> QED BY <2>3, <2>4, <2>7 DEF TypeInv
<1> QED BY <1>1, <1>2, <1>3 DEF Loop

\* The thread that moves
LEMMA MoverIs ==
    ASSUME TypeInv, NEW c \in Slots, NEW i \in DOMAIN threads[c]
    PROVE  /\ threads[c][i] \in ThreadState /\ Sound(threads[c][i], buf)
           /\ Idx(c, i) \in Slots /\ Step(c, i) = Does(threads[c][i])
<1>1. Sound(threads[c][i], buf) /\ threads[c][i] \in ThreadState
  BY DEF TypeInv, AllSound, Sound
<1>2. threads[c][i].idx \in Slots
  BY <1>1 DEF ThreadState
<1> QED BY <1>1, <1>2 DEF Idx, Step, Does

\* A thread that only goes on to another phase
LEMMA PhaseTyped ==
    ASSUME TypeInv, NEW c \in Slots, NEW i \in DOMAIN threads[c], NEW p \in Phases,
           threads' = [threads EXCEPT ![c][i].phase = p],
           p \in {"copy", "lower", "clear", "tail"} => Does(threads[c][i]) = "get",
           p = "copy" => buf[threads[c][i].idx] # <<>>,
           p = "making" => threads[c][i].svc = "newRoom" /\ Does(threads[c][i]) = "last"
    PROVE  AllSound(threads', buf)
<1>1. PICK th \in ThreadState : th = threads[c][i] /\ Sound(th, buf)
  BY MoverIs
<1>2. PICK new : new = [th EXCEPT !.phase = p]
  OBVIOUS
<1>3. /\ new \in ThreadState /\ new.phase = p /\ new.svc = th.svc /\ new.at = th.at /\ new.idx = th.idx
  BY <1>2 DEF ThreadState
<1>4. Sound(new, buf)
  BY <1>1, <1>3 DEF Sound, Does
<1>5. threads' = [threads EXCEPT ![c][i] = new]
  <2>1. th = threads[c][i] /\ new = [th EXCEPT !.phase = p]
    BY <1>1, <1>2
  <2>2. PICK row : row = [threads[c] EXCEPT ![i] = new]
    OBVIOUS
  <2>3. [threads[c] EXCEPT ![i].phase = p] = row
    <3>1. [threads[c] EXCEPT ![i].phase = p] = [threads[c] EXCEPT ![i] = [th EXCEPT !.phase = p]]
      BY <2>1, Zenon
    <3> QED BY <2>1, <2>2, <3>1, Zenon
  <2>4. threads' = [threads EXCEPT ![c] = row]
    <3>1. threads' = [threads EXCEPT ![c] = [threads[c] EXCEPT ![i].phase = p]]
      OBVIOUS
    <3> QED BY <2>3, <3>1, Zenon
  <2> QED BY <2>2, <2>4
<1>6. AllSound(threads, buf)
  BY DEF TypeInv
<1> QED BY ONLY <1>3, <1>4, <1>5, <1>6, ReplacedSound

LEMMA ThreadTyped ==
    ASSUME TypeInv, NEW c \in Slots, NEW i \in DOMAIN threads[c], RunThread(c, i)
    PROVE  TypeInv'
<1>1. PICK th \in ThreadState : /\ th = threads[c][i] /\ Sound(th, buf)
                                /\ Idx(c, i) = th.idx /\ th.idx \in Slots /\ Step(c, i) = Does(th)
  <2>1. Idx(c, i) = threads[c][i].idx
    BY DEF Idx
  <2> QED BY <2>1, MoverIs
<1>2. PICK k \in Slots : k = th.idx
  BY <1>1
<1>3. /\ buf \in [Slots -> Seq(Requests)] /\ buf[k] \in Seq(Requests) /\ got \in [Slots -> Seq(Requests)]
      /\ ready \in [Slots -> {-1, 0, 1}] /\ threads \in [Slots -> Seq(ThreadState)]
  BY DEF TypeInv, TypeOK
<1>t. ASSUME AllSound(threads', buf) PROVE threads' \in [Slots -> Seq(ThreadState)]
  BY <1>t DEF AllSound
<1>4. ASSUME Born(c, i) PROVE TypeInv'
  <2>1. threads' = [threads EXCEPT ![c][i].phase = "run"]
    BY <1>4 DEF Born
  <2>2. AllSound(threads', buf)
    BY <2>1, PhaseTyped DEF Phases
  <2> QED BY <1>4, <1>t, <2>2 DEF Born, TypeInv, TypeOK
<1>5. ASSUME See(c, i) PROVE TypeInv'
  <2>1. threads' = [threads EXCEPT ![c][i].phase = "copy"] /\ Does(th) = "get" /\ buf[th.idx] # <<>>
    BY <1>1, <1>5 DEF See, HasType
  <2>2. AllSound(threads', buf)
    BY <1>1, <2>1, PhaseTyped DEF Phases
  <2> QED BY <1>5, <1>t, <2>2 DEF See, TypeInv, TypeOK
<1>6. ASSUME Copy(c, i) PROVE TypeInv'
  <2>1. th.phase = "copy" /\ buf[k] # <<>> /\ Does(th) = "get"
    BY <1>1, <1>2, <1>6 DEF Copy, At, Sound
  <2>2. PICK m \in Requests : m = Head(buf[k]) /\ m.req \in 0 .. MostRequests
    <3>1. Head(buf[k]) \in Requests
      BY <1>3, <2>1, HeadTailProperties
    <3> QED BY <3>1, RequestIs
  <2>3. /\ got' = [got EXCEPT ![k] = Append(@, m)]
        /\ threads' = [threads EXCEPT ![c][i].phase = "lower", ![c][i].took = <<k, m.req>>]
    BY <1>1, <1>2, <1>6, <2>2 DEF Copy
  <2>4. PICK new : new = [th EXCEPT !.phase = "lower", !.took = <<k, m.req>>]
    OBVIOUS
  <2>5. /\ new \in ThreadState /\ new.phase = "lower" /\ new.svc = th.svc /\ new.at = th.at
    BY <2>2, <2>4 DEF ThreadState, Phases
  <2>6. threads' = [threads EXCEPT ![c][i] = new]
    BY <1>1, <1>3, <2>3, <2>4
  <2>7. Sound(new, buf)
    BY <1>1, <2>1, <2>5 DEF Sound, Does
  <2>8. AllSound(threads', buf)
    BY <2>6, <2>7, ReplacedSound DEF TypeInv
  <2>9. got' \in [Slots -> Seq(Requests)]
    <3>1. Append(got[k], m) \in Seq(Requests)
      BY <1>3, AppendIs
    <3> QED BY <1>3, <2>3, <3>1
  <2> QED BY <1>6, <1>t, <2>8, <2>9 DEF Copy, TypeInv, TypeOK
<1>7. ASSUME Lower(c, i) PROVE TypeInv'
  <2>1. /\ threads' = [threads EXCEPT ![c][i].phase = "clear"] /\ Does(th) = "get"
        /\ ready' = [ready EXCEPT ![k] = FlagAfter(k)]
    BY <1>1, <1>2, <1>7 DEF Lower, At, Sound
  <2>2. AllSound(threads', buf)
    BY <1>1, <2>1, PhaseTyped DEF Phases
  <2>3. ready' \in [Slots -> {-1, 0, 1}]
    <3>1. FlagAfter(k) \in {-1, 0, 1}
      BY <1>3 DEF FlagAfter
    <3> QED BY <1>3, <2>1, <3>1
  <2> QED BY <1>7, <1>t, <2>2, <2>3 DEF Lower, TypeInv, TypeOK
<1>8. ASSUME Clear(c, i) PROVE TypeInv'
  <2>1. /\ threads' = [threads EXCEPT ![c][i].phase = "tail"] /\ Does(th) = "get"
        /\ ready' \in [Slots -> {-1, 0, 1}]
    BY <1>1, <1>3, <1>8 DEF Clear, At, Sound
  <2>2. AllSound(threads', buf)
    BY <1>1, <2>1, PhaseTyped DEF Phases
  <2> QED BY <1>8, <1>t, <2>1, <2>2 DEF Clear, TypeInv, TypeOK
<1>9. ASSUME TailCheck(c, i) PROVE TypeInv'
  <2>1. th.phase = "tail" /\ Does(th) = "get"
    BY <1>1, <1>9 DEF TailCheck, At, Sound
  <2>2. PICK next : next = [threads EXCEPT ![c][i].at = @ + 1, ![c][i].phase = "run"]
    OBVIOUS
  <2>3. PICK q \in 1 .. 4 : q = th.at + 1 /\ q \in DOMAIN ServerScript[th.svc]
    <3>1. th.svc \in Services /\ th.at \in DOMAIN ServerScript[th.svc]
      BY <1>1 DEF ThreadState, Sound
    <3>2. th.at + 1 \in DOMAIN ServerScript[th.svc]
      BY <2>1, <3>1, ServerNext DEF Does
    <3> QED BY <3>1, <3>2, ServerSteps
  <2>4. PICK new : new = [th EXCEPT !.at = q, !.phase = "run"]
    OBVIOUS
  <2>5. new \in ThreadState /\ new.phase = "run" /\ new.svc = th.svc /\ new.at = q
    BY <2>4 DEF ThreadState, Phases
  <2>6. next = [threads EXCEPT ![c][i] = new]
    BY <1>1, <1>3, <2>2, <2>3, <2>4
  <2>7. AllSound(next, buf)
    <3>1. Sound(new, buf)
      BY <2>3, <2>5 DEF Sound
    <3> QED BY <2>6, <3>1, ReplacedSound DEF TypeInv
  <2>8. /\ \/ HasType(k, "service") /\ Serve(k, next, "run", loop)
           \/ threads' = next /\ UNCHANGED <<ready, loop, got>>
        /\ UNCHANGED <<clientVars, account, roomNum, net, replies, buf, todo, sent, past>>
    BY <1>1, <1>2, <1>9, <2>2 DEF TailCheck, SaysService
  <2>9. /\ AllSound(threads', buf) /\ got' \in [Slots -> Seq(Requests)] /\ ready' \in [Slots -> {-1, 0, 1}]
        /\ loop' \in {loop, "crash"}
    <3>1. CASE HasType(k, "service") /\ Serve(k, next, "run", loop)
      <4>1. loop \in {"select", "scan", "check", "crash"}
        BY DEF TypeInv, TypeOK
      <4> QED BY <2>7, <3>1, <4>1, ServeTyped
    <3>2. CASE threads' = next /\ UNCHANGED <<ready, loop, got>>
      BY <1>3, <2>7, <3>2
    <3> QED BY <2>8, <3>1, <3>2
  <2>10. TypeOK'
    BY <1>t, <2>8, <2>9 DEF TypeInv, TypeOK
  <2> QED BY <2>8, <2>9, <2>10 DEF TypeInv
<1>10. ASSUME CountRooms(c, i) PROVE TypeInv'
  <2>1. PICK p \in {"making", "end"} : threads' = [threads EXCEPT ![c][i].phase = p]
    <3>1. threads' = [threads EXCEPT ![c][i].phase = IF roomNum < MAX_ROOM THEN "making" ELSE "end"]
      BY <1>10 DEF CountRooms
    <3>2. CASE roomNum < MAX_ROOM
      BY <3>1, <3>2
    <3>3. CASE ~(roomNum < MAX_ROOM)
      BY <3>1, <3>3
    <3> QED BY <3>2, <3>3
  <2>2. th.svc = "newRoom" /\ Does(th) = "last"
    BY <1>1, <1>10 DEF CountRooms
  <2>3. AllSound(threads', buf)
    BY <1>1, <2>1, <2>2, PhaseTyped DEF Phases
  <2> QED BY <1>10, <1>t, <2>3 DEF CountRooms, TypeInv, TypeOK
<1>11. ASSUME Reply(c, i) PROVE TypeInv'
  <2>1. /\ th.phase = "run" \/ (th.phase = "making" /\ Does(th) = "last")
        /\ Does(th) \in {"ask", "last", "room"} /\ th.at \in DOMAIN ServerScript[th.svc]
    BY <1>1, <1>11 DEF Reply, Answering, At, Sound
  <2>2. PICK r \in Answers(th.svc, Does(th)) :
          /\ replies' = [replies EXCEPT ![k] = Append(@, r)]
          /\ account' = [account EXCEPT ![k] = @ \/ (th.svc = "login" /\ r = "welcome")]
          /\ roomNum' = IF th.svc = "newRoom" THEN roomNum + 1 ELSE roomNum
          /\ threads' = [threads EXCEPT ![c][i] = After(th, r)]
    <3>1. PICK r \in Answers(threads[c][i].svc, Step(c, i)) :
            /\ replies' = [replies EXCEPT ![Idx(c, i)] = Append(@, r)]
            /\ account' = [account EXCEPT ![Idx(c, i)] = @ \/ (threads[c][i].svc = "login" /\ r = "welcome")]
            /\ roomNum' = IF threads[c][i].svc = "newRoom" THEN roomNum + 1 ELSE roomNum
            /\ threads' = [threads EXCEPT ![c][i] = After(threads[c][i], r)]
      BY <1>11 DEF Reply
    <3> QED BY <1>1, <1>2, <3>1
  <2>3. PICK new : new = After(th, r)
    OBVIOUS
  <2>4. /\ new \in ThreadState /\ new.at \in DOMAIN ServerScript[new.svc] /\ new.phase \in {"run", "end"}
        /\ r \in {"on", "end", "again", "in", "welcome"}
    BY <2>1, <2>3, AnswersAre
  <2>5. AllSound(threads', buf)
    <3>1. Sound(new, buf)
      BY <2>4 DEF Sound
    <3> QED BY <2>2, <2>3, <3>1, ReplacedSound DEF TypeInv
  <2>6. replies' \in [Slots -> Seq({"on", "end", "again", "in", "welcome"})]
    <3>1. /\ replies \in [Slots -> Seq({"on", "end", "again", "in", "welcome"})]
          /\ replies[k] \in Seq({"on", "end", "again", "in", "welcome"})
      BY DEF TypeInv, TypeOK
    <3>2. Append(replies[k], r) \in Seq({"on", "end", "again", "in", "welcome"})
      BY <2>4, <3>1, AppendIs
    <3> QED BY <2>2, <3>1, <3>2
  <2>7. account' \in [Slots -> BOOLEAN]
    <3>1. PICK b \in BOOLEAN : b <=> th.svc = "login" /\ r = "welcome"
      OBVIOUS
    <3>2. account' = [account EXCEPT ![k] = @ \/ b]
      BY <2>2, <3>1, Zenon
    <3> QED BY <3>1, <3>2 DEF TypeInv, TypeOK
  <2>8. roomNum' \in Nat
    BY <2>2 DEF TypeInv, TypeOK
  <2> QED BY <1>11, <1>t, <2>5, <2>6, <2>7, <2>8 DEF Reply, TypeInv, TypeOK
<1>12. ASSUME SetAccount(c, i) PROVE TypeInv'
  <2>1. threads' = [threads EXCEPT ![c][i].phase = "end"]
    BY <1>12 DEF SetAccount
  <2>2. AllSound(threads', buf)
    BY <2>1, PhaseTyped DEF Phases
  <2>3. account' \in [Slots -> BOOLEAN]
    BY <1>12 DEF SetAccount, TypeInv, TypeOK
  <2> QED BY <1>12, <1>t, <2>2, <2>3 DEF SetAccount, TypeInv, TypeOK
<1> QED BY <1>4, <1>5, <1>6, <1>7, <1>8, <1>9, <1>10, <1>11, <1>12 DEF RunThread

LEMMA InitTyped == Init => TypeInv
<1> SUFFICES ASSUME Init PROVE TypeInv
  OBVIOUS
<1>1. MailInv
  BY InitRight
<1>2. threads \in [Slots -> Seq(ThreadState)]
  BY <1>1 DEF MailInv, TypeOK
<1>3. ASSUME NEW c \in Slots, NEW i \in DOMAIN threads[c] PROVE Sound(threads[c][i], buf)
  <2>1. ThreadRight(c, i) /\ threads[c][i] \in ThreadState
    <3>1. threads[c] \in Seq(ThreadState)
      BY <1>2
    <3>2. threads[c][i] \in ThreadState
      BY <3>1, ElementOfSeq, LenProperties
    <3> QED BY <1>1, <3>2 DEF MailInv, SlotRight, ThreadsRight
  <2>2. threads[c][i].phase = "run"
    <3>1. threads[c] = <<[req |-> 0, svc |-> "connect", idx |-> c, at |-> 1, phase |-> "run", took |-> <<>>]>>
      BY DEF Init
    <3> QED BY <3>1
  <2> QED BY <2>1, <2>2 DEF ThreadRight, Sound
<1> QED BY <1>1, <1>2, <1>3 DEF TypeInv, AllSound, MailInv

\* Every variable has its type in every behaviour, with several messages to a
\* recv and overwritten args as well: what a client sends and a thread reads is
\* a message of a request, and a thread never leaves its script.
THEOREM TypeCorrect == Spec => []TypeOK
<1>1. Init => TypeInv
  BY InitTyped
<1>2. TypeInv /\ [Next]_vars => TypeInv'
  <2> SUFFICES ASSUME TypeInv, [Next]_vars PROVE TypeInv'
    OBVIOUS
  <2>1. CASE UNCHANGED vars
    BY <2>1 DEF TypeInv, TypeOK
  <2> QED BY <2>1, ClientsTyped, LoopTyped, ThreadTyped DEF Next
<1>3. TypeInv => TypeOK
  BY DEF TypeInv
<1> QED BY <1>1, <1>2, <1>3, PTL DEF Spec


-----------------------------------------------------------------------------
(***************************************************************************)
(* The mailboxes are channels.                                             *)
(***************************************************************************)

\* A client that sends
LEMMA SendIsSend ==
    ASSUME MailInv, NEW k \in Slots, ClientSend(k)
    PROVE  [Fifo!Next]_(Fifo!vars)
<1> DEFINE S == [j \in OwnSlots |-> sent[j]]
           G == [j \in OwnSlots |-> got[j]]
<1>1. PICK m : /\ sent' = [sent EXCEPT ![k] = Append(@, m)]
               /\ m = [kind |-> Op(k), svc |-> client[k].svc, req |-> client[k].req, at |-> client[k].at]
               /\ got' = got /\ Busy(k) /\ Op(k) \in {"service", "message"}
  BY DEF ClientSend
<1>2. sent \in [Slots -> Seq(Requests)] /\ client[k] \in ClientState
  BY DEF MailInv, TypeOK
<1>3. m \in Requests
  <2>1. client[k].svc \in DOMAIN ClientScript /\ client[k].req \in 0 .. MostRequests
    BY <1>2 DEF ClientState
  <2>2. client[k].at \in DOMAIN ClientScript[client[k].svc] /\ client[k].at \in 1 .. 5
    BY <1>1, <2>1, ClientSteps DEF Busy
  <2> QED BY <1>1, <2>1, <2>2, Zenon DEF Requests, Op
<1>4. G' = G
  BY <1>1
<1>5. CASE k \in OwnSlots
  <2>1. S' = [S EXCEPT ![k] = Append(@, m)]
    BY <1>1, <1>2, <1>5 DEF OwnSlots
  <2>2. Fifo!Send(k, m)
    BY <1>4, <2>1 DEF Fifo!Send
  <2> QED BY <1>3, <1>5, <2>2 DEF Fifo!Next
<1>6. CASE k \notin OwnSlots
  <2>1. S' = S
    BY <1>1, <1>2, <1>6 DEF OwnSlots
  <2> QED BY <1>4, <2>1 DEF Fifo!vars
<1> QED BY <1>5, <1>6

\* Whoever reads the message that is kept for slot k
LEMMA ReadIsDeliver ==
    ASSUME MailInv, NEW k \in Slots, NEW m \in Requests, m = First(k), k \in OwnSlots => Kept(k) = 1,
           sent' = sent, got' = [got EXCEPT ![k] = Append(@, m)]
    PROVE  [Fifo!Next]_(Fifo!vars)
<1> DEFINE S == [j \in OwnSlots |-> sent[j]]
           G == [j \in OwnSlots |-> got[j]]
<1>1. /\ got \in [Slots -> Seq(Requests)] /\ sent[k] \in Seq(Requests) /\ got[k] \in Seq(Requests)
      /\ net[k] \in Seq(Requests) /\ SlotRight(k)
  BY DEF MailInv, TypeOK
<1>2. S' = S
  OBVIOUS
<1>3. CASE k \in OwnSlots
  <2>1. Handed(sent[k], got[k], 1, m, net[k])
    BY <1>1, <1>3 DEF SlotRight, InOrder
  <2> DEFINE s == sent[k]
             g == got[k]
             n == net[k]
  <2>2. Len(got[k]) < Len(sent[k]) /\ m = sent[k][Len(got[k]) + 1]
    <3>1. s \in Seq(Requests) /\ g \in Seq(Requests) /\ n \in Seq(Requests) /\ Handed(s, g, 1, m, n)
      BY <1>1, <2>1
    <3> HIDE DEF s, g, n
    <3>2. Handed(s, Append(g, m), 0, m, n) /\ Len(g) < Len(s) /\ m = s[Len(g) + 1]
      BY <3>1, HandedRead
    <3> QED BY <3>2 DEF s, g
  <2>3. S[k] = sent[k] /\ G[k] = got[k]
    BY <1>3
  <2>4. G' = [G EXCEPT ![k] = Append(@, m)]
    BY <1>1, <1>3 DEF OwnSlots
  <2>5. Fifo!Deliver(k)
    <3>1. Len(G[k]) < Len(S[k]) /\ m = S[k][Len(G[k]) + 1]
      BY <2>2, <2>3
    <3> HIDE DEF S, G
    <3>2. G' = [G EXCEPT ![k] = Append(@, S[k][Len(@) + 1])]
      BY <2>4, <3>1
    <3> QED BY <1>2, <3>1, <3>2 DEF Fifo!Deliver, S, G
  <2> QED BY <1>3, <2>5 DEF Fifo!Next
<1>4. CASE k \notin OwnSlots
  <2>1. G' = G
    BY <1>1, <1>4 DEF OwnSlots
  <2> QED BY <1>2, <2>1 DEF Fifo!vars
<1> QED BY <1>3, <1>4

LEMMA NothingRead ==
    ASSUME sent' = sent, got' = got
    PROVE  [Fifo!Next]_(Fifo!vars)
BY DEF Fifo!vars

LEMMA CheckIsDeliver ==
    ASSUME MailInv, Check
    PROVE  [Fifo!Next]_(Fifo!vars)
<1>1. PICK k \in Slots : k = Scanned /\ Checking(k)
  BY ScannedIsIn DEF Check, MailInv, TypeOK, Checking
<1>2. /\ sent' = sent
      /\ got' = got \/ (HasType(k, "service") /\ got' = [got EXCEPT ![k] = Append(@, First(k))])
  BY <1>1 DEF Check, SaysService, Serve, First
<1>3. CASE HasType(k, "service") /\ got' = [got EXCEPT ![k] = Append(@, First(k))]
  <2>1. PICK m \in Requests : m = First(k)
    BY <1>1, <1>3, ServiceIs
  <2>2. k \in OwnSlots => Kept(k) = 1
    BY <1>1, <1>3, ServiceIs DEF MailInv, SlotRight, InOrder, Kept
  <2> QED BY <1>2, <1>3, <2>1, <2>2, ReadIsDeliver
<1> QED BY <1>2, <1>3, NothingRead

LEMMA ThreadIsDeliver ==
    ASSUME MailInv, NEW c \in Slots, NEW i \in DOMAIN threads[c], RunThread(c, i)
    PROVE  [Fifo!Next]_(Fifo!vars)
<1>1. CASE Copy(c, i)
  <2>1. threads[c][i].phase = "copy"
    BY <1>1 DEF Copy, At
  <2>2. Idx(c, i) = c /\ SlotRight(c) /\ Server(c).phase = "copy" /\ TypeOK
    BY <2>1, ThreadIs
  <2>3. Does(Server(c)) = "get"
    BY <2>2, ServerIs DEF SlotRight, ThreadRight, Server
  <2>4. HasType(c, "message")
    BY <2>2, <2>3 DEF SlotRight, Conversation, Serving, AtAccount
  <2>5. PICK m \in Requests : m = First(c)
    BY <2>2, <2>4, HeadTailProperties DEF TypeOK, First, HasType
  <2>6. c \in OwnSlots => Kept(c) = 1
    BY <2>2 DEF SlotRight, InOrder, Kept
  <2>7. sent' = sent /\ got' = [got EXCEPT ![c] = Append(@, m)]
    BY <1>1, <2>2, <2>5 DEF Copy, First
  <2> QED BY <2>5, <2>6, <2>7, ReadIsDeliver
<1>2. CASE TailCheck(c, i)
  <2>1. threads[c][i].phase = "tail"
    BY <1>2 DEF TailCheck, At
  <2>2. Idx(c, i) = c /\ SlotRight(c) /\ Server(c).phase = "tail" /\ TypeOK
    BY <2>1, ThreadIs
  <2>3. Does(Server(c)) = "get"
    BY <2>2, ServerIs DEF SlotRight, ThreadRight, Server
  <2>4. HasType(c, "message")
    BY <2>2, <2>3 DEF SlotRight, Conversation, Serving, AtAccount
  <2>5. SaysService(c) = {FALSE}
    BY <2>4 DEF SaysService, HasType
  <2>6. sent' = sent /\ got' = got
    BY <1>2, <2>2, <2>5 DEF TailCheck
  <2> QED BY <2>6, NothingRead
<1>3. CASE \/ Born(c, i) \/ See(c, i) \/ Lower(c, i) \/ Clear(c, i) \/ Reply(c, i)
           \/ CountRooms(c, i) \/ SetAccount(c, i)
  <2>1. sent' = sent /\ got' = got
    BY <1>3 DEF Born, See, Lower, Clear, Reply, CountRooms, SetAccount
  <2> QED BY <2>1, NothingRead
<1> QED BY <1>1, <1>2, <1>3 DEF RunThread

\* As long as every recv returned one message and every thread read its own
\* args, the mailboxes, which two globals and no lock are made of, implement a
\* channel for every connection but the one whose flag the others clear: what
\* a client sends is read once, in order, and nothing is overwritten.
THEOREM MailboxesAreChannels == Spec => Delivered
<1>1. Init => Fifo!Init
  BY DEF Init, Fifo!Init, OwnSlots
<1>2. (past = {} => MailInv) /\ [Next]_vars => [past' # {} \/ Fifo!Next]_(Fifo!vars)
  <2> SUFFICES ASSUME past = {} => MailInv, [Next]_vars, past' = {} PROVE [Fifo!Next]_(Fifo!vars)
    OBVIOUS
  <2>0. MailInv
    BY PastStays
  <2>1. ASSUME NEW k \in Slots, Choose(k) \/ ClientTake(k) PROVE [Fifo!Next]_(Fifo!vars)
    <3>1. sent' = sent /\ got' = got
      BY <2>1 DEF Choose, ClientTake
    <3> QED BY <3>1, NothingRead
  <2>2. CASE Clients
    BY <2>0, <2>1, <2>2, SendIsSend DEF Clients
  <2>3. CASE Loop
    <3>1. Select \/ Receive => sent' = sent /\ got' = got
      BY DEF Select, Receive
    <3> QED BY <2>0, <2>3, <3>1, CheckIsDeliver, NothingRead DEF Loop
  <2>4. CASE UNCHANGED vars
    BY <2>4, NothingRead
  <2> QED BY <2>0, <2>2, <2>3, <2>4, ThreadIsDeliver DEF Next
<1> QED BY <1>1, <1>2, MailInvariant, PTL DEF Spec, Delivered

================================================================================
