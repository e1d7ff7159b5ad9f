------------------------------ MODULE RoomsProofs ------------------------------
(***************************************************************************)
(* Theorems about Rooms, for every number of players, cells, entries and   *)
(* lines, and whatever ends the model.                                     *)
(***************************************************************************)
EXTENDS Rooms, FiniteSetTheorems, WellFoundedInduction, TLAPS

USE DEF clientVars, listVars, vars

-----------------------------------------------------------------------------
(***************************************************************************)
(* The invariant.  What is said of one room is said of its cell m, of what *)
(* its thread is doing, k, and of the history p.                           *)
(***************************************************************************)

Places == {"gone", "menu", "naming", "asking", "choosing", "in", "readying", "ready"}

Mails == [what : {"none", "room"}, arg : {0}] \cup [what : {"id"}, arg : 1 .. MaxID]
            \cup [what : Lines \ {"kick"}, arg : {NoOne}] \cup [what : Lines \cap {"kick"}, arg : Clients]

Room == [id : 0 .. MaxID, size : Sizes \cup {0}, count : Int,
         player : [Seats -> Clients \cup {NoOne}], connfd : [Seats -> Descriptors \cup {-1}],
         ready : [Seats -> {0, 1}]]

\* Where a thread has a cell, where it has an entry, and its other steps; and
\* where the thread of a room has called quitRoom, and its other steps.
Making == {"number", "fill", "made", "start"}
Entering == {"take", "entered", "welcome"}
Steps == {"none", "name", "insert", "ask", "list", "show", "getID"} \cup Making \cup Entering
Quitting == {"quit", "leave", "clear", "left", "delete"}
Chatting == {"chat", "get", "play", "break"} \cup Quitting

ThreadState == [pc : Steps, i : Nat, j : Seats, a : Nat]

ChatState == [pc : {"none", "uncount"} \cup Chatting,
              why : {"none", "lost", "quit", "kick", "break"}, j : 0 .. 3, n : Int]

TypeInv ==
    /\ client \in [Clients -> [at : Places, out : BOOLEAN]]
    /\ fd \in [Clients -> Descriptors \cup {-1}]
    /\ mail \in [Clients -> Mails]
    /\ connects \in 0 .. MaxConnects /\ requests \in 0 .. MaxRequests
    /\ roomList \in [Entries -> Cells \cup {0}] /\ used \subseteq Cells
    /\ roomIDGenerate \in 0 .. MaxID /\ roomNum \in Int
    /\ mem \in [Cells -> Room]
    /\ chat \in [Cells -> ChatState]
    /\ thr \in [Clients -> ThreadState]
    /\ status \in {"up", "crash", "clash", "stale"} /\ past \subseteq Events
    /\ \A c \in Clients : /\ thr[c].pc \in Making => thr[c].a \in Cells
                          /\ thr[c].pc \in Entering \cup {"show"} => thr[c].i \in Entries
    /\ \A a \in Cells : chat[a].pc \in Quitting => chat[a].j \in Seats

\* No room is listed twice, who is listed is allocated, and the reverse as long
\* as the list was never found full; before a room is deleted the list has no
\* hole but at its end.
ListRight ==
    /\ \A i, k \in Entries : roomList[i] # 0 /\ roomList[i] = roomList[k] => i = k
    /\ \A i \in Entries : roomList[i] # 0 => roomList[i] \in used
    /\ Never({"full"}) => \A a \in used : \E i \in Entries : roomList[i] = a
    /\ Never({"deleted"}) => \A i, k \in Entries : i < k /\ roomList[i] = 0 => roomList[k] = 0

\* A cell belongs to one maker, then to the thread of the room; it is zeros
\* when it is free, and has a number before it has a size.
CellsRight ==
    /\ \A a \in Cells \ used : mem[a] = Blank
    /\ \A a \in Cells : chat[a].pc \in Chatting => a \in used /\ mem[a].size # 0
    /\ \A a \in Cells : mem[a].size # 0 => mem[a].id # 0
    /\ \A c \in Clients : thr[c].pc \in Making =>
          LET a == thr[c].a IN
          /\ a \in used /\ chat[a] = NoChat
          /\ thr[c].pc # "number" => mem[a].id # 0
          /\ mem[a].size = 0 <=> thr[c].pc \in {"number", "fill"}
    /\ \A c, d \in Clients :
          c # d /\ thr[c].pc \in Making /\ thr[d].pc \in Making => thr[c].a # thr[d].a

\* The rooms whose deletion is at its last step are finitely many.  The numbers
\* given are distinct but for a clash, and one maker at a time gives a number
\* that is higher than all.
Uncounting == {a \in Cells : chat[a].pc = "uncount"}

NumbersRight ==
    /\ IsFiniteSet(Uncounting)
    /\ \A a \in Cells : mem[a].id <= roomIDGenerate
    /\ used # {} => roomIDGenerate >= 1
    /\ status # "clash" =>
          \A a, b \in used : a # b /\ mem[a].id = mem[b].id => mem[a].id = 0
    /\ Never({"makers"}) =>
          /\ \A c, d \in Clients : thr[c].pc = "number" /\ thr[d].pc = "number" => c = d
          /\ (\E c \in Clients : thr[c].pc = "number") =>
                \A a \in used : mem[a].id < roomIDGenerate

\* Who is about to take a seat takes it in a room that has as many, if the room
\* in the entry still has the number he has typed; and a room that is yet to
\* have its number will have another.
TakersRight ==
    \A c \in Clients : thr[c].pc = "take" =>
        LET a == roomList[thr[c].i] IN
        /\ thr[c].a \in 1 .. roomIDGenerate
        /\ a # 0 /\ mem[a].id = thr[c].a => thr[c].j < mem[a].size
        /\ a # 0 /\ (\E d \in Clients : thr[d].pc = "number" /\ thr[d].a = a) =>
              thr[c].a < roomIDGenerate

ListInv == ListRight /\ CellsRight /\ NumbersRight /\ TakersRight /\ ListIsRight

-----------------------------------------------------------------------------
Without(events, p) == p \cap events = {}

TakenIn(m) == {j \in Seats : j < m.size /\ m.connfd[j] # -1}

\* A seat has a name exactly if it has a descriptor; who is leaving has a
\* seat; and nobody has seat 0 when the next host is to be moved there.
SeatsRight(m, k, p) ==
    /\ \A j \in Seats : m.player[j] = NoOne <=> m.connfd[j] = -1
    /\ Without({"seat"}, p) =>
          /\ m.size = 0 => m.count = 0 /\ \A j \in Seats : m.connfd[j] = -1
          /\ k.pc \in {"quit", "leave", "clear", "delete"} => k.j \in TakenIn(m)
          /\ k.pc = "left" /\ k.j = 0 /\ k.why \in {"lost", "quit"} => m.connfd[0] = -1

\* The counter: quitRoom leaves one player at least where it found two, and
\* deletes the room where it found one.
CountRight(m, k, p) ==
    /\ k.pc = "leave" => k.n >= 2
    /\ k.pc = "delete" => k.n <= 1
    /\ Without(SeatRaces, p) =>
          /\ m.count = Cardinality(TakenIn(m)) - IF k.pc = "clear" THEN 1 ELSE 0
          /\ k.pc \in {"clear", "left"} => m.count >= 1

\* Only between the host's leaving and the next host's move is seat 0 free.
HostRight(m, k, p) ==
    Without(SeatRaces \cup {"kickSelf", "hostless"}, p) =>
        /\ m.size # 0 /\ ~(k.pc = "left" /\ k.j = 0) => m.connfd[0] # -1
        /\ k.pc \in Quitting /\ k.j = 0 => k.why \in {"lost", "quit"}

RoomRight(m, k, p) == SeatsRight(m, k, p) /\ CountRight(m, k, p) /\ HostRight(m, k, p)

RoomInv == \A a \in Cells : RoomRight(mem[a], chat[a], past)

-----------------------------------------------------------------------------
\* What a player is doing agrees with the thread of his request and with what
\* is in his mailbox.
Asking == {"name", "insert", "number", "fill", "made", "ask", "list", "show", "getID", "take", "entered"}

ClientRight(c) ==
    /\ client[c].at = "gone" <=> Gone(c)
    /\ client[c].at = "choosing" => thr[c].pc = "getID"
    /\ client[c].at = "naming" => thr[c].pc = "name" /\ mail[c] = Empty
    /\ thr[c].pc \in Asking => client[c].at \in {"naming", "asking", "choosing", "gone"}
    /\ mail[c].what = "ready" => client[c].at = "readying"
    /\ mail[c].what = "id" => thr[c].pc = "getID" /\ client[c].at = "asking"
    /\ mail[c].what = "room" => thr[c].pc = "name" /\ client[c].at = "asking"
    /\ Gone(c) => mail[c] = Empty

ClientsRight ==
    /\ \A c, d \in Clients : fd[c] = fd[d] /\ ~Gone(c) => c = d
    /\ \A c \in Clients : ClientRight(c)

\* A player who is in a room, or whose thread has a seat for him
Sits(c) ==
    \/ In(c)
    \/ thr[c].pc \in {"made", "entered"} /\ ~Gone(c) /\ ~client[c].out

KeepsInv ==
    Never(SeatRaces \cup {"occupied"}) =>
        \A c \in Clients : Sits(c) => \E a \in Cells, j \in Seats : Has(c, a, j)

\* A descriptor is at the seats of its player only; he has one at most, and
\* only while he sits; who asks for a room has not been told that he is out.
OwnsAt(a) ==
    \A c \in Clients : \A j \in SeatsOf(a) : mem[a].connfd[j] = fd[c] /\ ~Gone(c) => mem[a].player[j] = c

OwnSeats == \A a \in used : OwnsAt(a)

NotOut(c) ==
    client[c].at \in {"menu", "naming", "asking", "choosing"} /\ thr[c].pc \notin {"made", "entered"}
        => ~client[c].out

OneInv ==
    Never({"seat", "reuse"}) =>
        /\ OwnSeats
        /\ \A c \in Clients : \A a, b \in Cells, j, k \in Seats :
              Has(c, a, j) /\ Has(c, b, k) => a = b /\ j = k
        /\ \A c \in Clients, a \in Cells, j \in Seats : Has(c, a, j) => Sits(c)
        /\ \A c \in Clients : NotOut(c)

SeatedInv == KeepsInv /\ OneInv

\* An entry that a thread goes back to is still a room.
EntriesKept ==
    Never({"deleted"}) => \A c \in Clients : thr[c].pc \in {"show", "take"} => roomList[thr[c].i] # 0

Inv == TypeInv /\ ListInv /\ RoomInv /\ ClientsRight /\ SeatedInv /\ EntriesKept

-----------------------------------------------------------------------------
(***************************************************************************)
(* What the helpers return.                                                *)
(***************************************************************************)

LEMMA Constants ==
    /\ NoOne \notin Clients /\ Descriptors \subseteq Nat /\ -1 \notin Descriptors
    /\ Cells \subseteq Nat /\ 0 \notin Cells /\ Seats = {0, 1, 2}
    /\ Entries \subseteq Nat /\ IsFiniteSet(Entries) /\ MAX_ROOM \in Nat
    /\ MaxID \in Nat /\ MaxConnects \in Nat /\ MaxRequests \in Nat /\ Sizes \subseteq {2, 3}
    /\ Lines \subseteq {"chat", "ready", "quit", "kick", "invite"}
<1>1. MAX_ROOM \in Nat /\ MAX_ROOM >= 1
  BY RoomsAssumption
<1>2. IsFiniteSet(0 .. MAX_ROOM - 1)
  BY <1>1, FS_Interval
<1> QED BY <1>1, <1>2, RoomsAssumption DEF Entries, Seats

\* The lowest of a set of numbers is one of them.
LEMMA MinIsLowest ==
    ASSUME NEW S \in SUBSET Nat, S # {}
    PROVE  Min(S) \in S /\ \A y \in S : Min(S) <= y
<1> DEFINE Less == {ss \in Nat \X Nat : ss[1] < ss[2]}
<1>1. IsWellFoundedOn(Less, Nat)
  BY NatLessThanWellFounded, Zenon DEF OpToRel
<1>2. PICK x \in S : \A y \in S : <<y, x>> \notin Less
  BY <1>1, WFMin
<1>3. ASSUME NEW y \in S PROVE x <= y
  <2>1. y < x => <<y, x>> \in Less
    OBVIOUS
  <2> QED BY <1>2, <2>1
<1> QED BY <1>3 DEF Min

\* The highest of some seats is one of them.
LEMMA MaxIsHighest ==
    ASSUME NEW S \in SUBSET Seats, S # {}
    PROVE  Max(S) \in S /\ \A y \in S : Max(S) >= y
<1>1. \E x \in S : \A y \in S : x >= y
  <2>1. CASE 2 \in S
    BY <2>1 DEF Seats
  <2>2. CASE 2 \notin S /\ 1 \in S
    BY <2>2 DEF Seats
  <2>3. CASE 2 \notin S /\ 1 \notin S
    <3>1. PICK x \in S : TRUE
      OBVIOUS
    <3>2. \A y \in S : y = 0
      BY <2>3 DEF Seats
    <3> QED BY <3>1, <3>2
  <2> QED BY <2>1, <2>2, <2>3
<1> QED BY <1>1 DEF Max

\* A mailbox is empty if there is nothing in it; a kick names a player.
LEMMA MailIs ==
    ASSUME TypeInv, NEW c \in Clients
    PROVE  /\ mail[c] \in Mails /\ Empty \in Mails
           /\ mail[c] = Empty <=> mail[c].what = "none"
           /\ mail[c].what \in Lines \cup {"none", "id", "room"}
           /\ mail[c].what = "id" => mail[c].arg \in 1 .. MaxID
           /\ mail[c].what = "kick" => mail[c].arg \in Clients
<1>1. mail[c] \in Mails
  BY DEF TypeInv
<1>2. Empty \in Mails /\ Empty.what = "none"
  <2>1. Empty \in [what : {"none", "room"}, arg : {0}]
    BY DEF Empty
  <2> QED BY <2>1 DEF Mails, Empty
<1>3. CASE mail[c] \in [what : {"none", "room"}, arg : {0}]
  <2>1. mail[c] = [what |-> "none", arg |-> 0] \/ mail[c].what = "room"
    BY <1>3
  <2> QED BY <1>1, <1>2, <2>1 DEF Empty
<1>4. CASE mail[c] \in [what : {"id"}, arg : 1 .. MaxID]
  BY <1>1, <1>2, <1>4
<1>5. CASE mail[c] \in [what : Lines \ {"kick"}, arg : {NoOne}]
  BY <1>1, <1>2, <1>5, Constants
<1>6. CASE mail[c] \in [what : Lines \cap {"kick"}, arg : Clients]
  BY <1>1, <1>2, <1>6, Constants
<1> QED BY <1>1, <1>3, <1>4, <1>5, <1>6 DEF Mails

\* Reading empties the reader's mailbox, and at most one other.
LEMMA ReadIs ==
    ASSUME TypeInv, NEW c \in Clients, mail' = Read(c)
    PROVE  /\ mail' \in [Clients -> Mails] /\ mail'[c] = Empty
           /\ \A d \in Clients : mail'[d] \in {mail[d], Empty}
<1>1. Empty \in Mails /\ mail \in [Clients -> Mails]
  BY MailIs DEF TypeInv
<1> QED BY <1>1 DEF Read

\* Who is listed is in a cell; a room that has the number is listed.
LEMMA HavingIs ==
    ASSUME TypeInv, NEW id, Having(id) # {}
    PROVE  /\ Min(Having(id)) \in Having(id) /\ Min(Having(id)) \in Entries
           /\ roomList[Min(Having(id))] \in Cells /\ mem[roomList[Min(Having(id))]].id = id
           /\ \A i \in Having(id) : Min(Having(id)) <= i
<1>1. Having(id) \subseteq Nat
  BY Constants DEF Having
<1>2. Min(Having(id)) \in Having(id) /\ \A i \in Having(id) : Min(Having(id)) <= i
  BY <1>1, MinIsLowest
<1> QED BY <1>2 DEF Having, TypeInv

-----------------------------------------------------------------------------
(***************************************************************************)
(* Types.                                                                  *)
(***************************************************************************)

LEMMA StatesAre ==
    /\ Blank \in Room /\ NoThread \in ThreadState /\ NoChat \in ChatState
    /\ Blank.id = 0 /\ Blank.size = 0 /\ Blank.count = 0
    /\ \A j \in Seats : Blank.connfd[j] = -1 /\ Blank.player[j] = NoOne
    /\ NoThread.pc = "none" /\ NoChat.pc = "none" /\ NoChat.j = 0 /\ NoChat.why = "none"
<1>1. Blank \in Room
  BY Constants DEF Blank, Room
<1>2. NoThread \in ThreadState
  BY DEF NoThread, ThreadState, Steps, Seats
<1>3. NoChat \in ChatState
  BY DEF NoChat, ChatState
<1> QED BY <1>1, <1>2, <1>3 DEF Blank, NoThread, NoChat

LEMMA TypeInit == Init => TypeInv
<1> SUFFICES ASSUME Init PROVE TypeInv
  OBVIOUS
<1>1. client \in [Clients -> [at : Places, out : BOOLEAN]] /\ fd \in [Clients -> Descriptors \cup {-1}]
  BY DEF Init, Places
<1>2. mail \in [Clients -> Mails]
  BY DEF Init, Mails, Empty
<1>3. connects \in 0 .. MaxConnects /\ requests \in 0 .. MaxRequests
  BY Constants DEF Init
<1>4. /\ roomList \in [Entries -> Cells \cup {0}] /\ used \subseteq Cells
      /\ roomIDGenerate \in 0 .. MaxID /\ roomNum \in Int
  BY Constants DEF Init
<1>5. mem \in [Cells -> Room] /\ chat \in [Cells -> ChatState] /\ thr \in [Clients -> ThreadState]
  BY StatesAre DEF Init
<1>6. \A c \in Clients : thr[c].pc = "none"
  BY StatesAre DEF Init
<1>7. \A a \in Cells : chat[a].pc = "none"
  BY StatesAre DEF Init
<1> QED BY <1>1, <1>2, <1>3, <1>4, <1>5, <1>6, <1>7
        DEF Init, TypeInv, Making, Entering, Quitting

\* What a thread, a room's thread, a cell and a player become
LEMMA ThreadChanges ==
    ASSUME TypeInv, NEW c \in Clients, NEW t, thr' = [thr EXCEPT ![c] = t],
           t \in ThreadState,
           t.pc \in Making => t.a \in Cells,
           t.pc \in Entering \cup {"show"} => t.i \in Entries
    PROVE  /\ thr' \in [Clients -> ThreadState]
           /\ \A d \in Clients : /\ thr'[d].pc \in Making => thr'[d].a \in Cells
                                 /\ thr'[d].pc \in Entering \cup {"show"} => thr'[d].i \in Entries
BY DEF TypeInv

LEMMA ChatChanges ==
    ASSUME TypeInv, NEW a \in Cells, NEW k, chat' = [chat EXCEPT ![a] = k],
           k \in ChatState, k.pc \in Quitting => k.j \in Seats
    PROVE  /\ chat' \in [Cells -> ChatState]
           /\ \A b \in Cells : chat'[b].pc \in Quitting => chat'[b].j \in Seats
BY DEF TypeInv

LEMMA ToldType ==
    ASSUME TypeInv, NEW cs, NEW at \in Places
    PROVE  Told(cs, at) \in [Clients -> [at : Places, out : BOOLEAN]]
BY DEF TypeInv, Told

LEMMA DiesType ==
    ASSUME TypeInv, NEW why \in SUBSET Events, Dies(why)
    PROVE  TypeInv'
BY DEF TypeInv, Dies

LEMMA TypePlayers ==
    ASSUME TypeInv, NEW c \in Clients,
           Connect(c) \/ Inherit(c) \/ HangUp(c) \/ Request(c) \/ Choose(c) \/ Type(c)
    PROVE  TypeInv'
<1>1. CASE Connect(c)
  <2> DEFINE free == {f \in Descriptors : \A d \in Clients : fd[d] # f}
  <2>1. free # {} /\ fd' = [fd EXCEPT ![c] = Min(free)]
    BY <1>1 DEF Connect
  <2>2. Min(free) \in free
    BY <2>1, Constants, MinIsLowest
  <2>3. fd' \in [Clients -> Descriptors \cup {-1}]
    BY <2>1, <2>2 DEF TypeInv
  <2>4. connects' \in 0 .. MaxConnects
    BY <1>1, Constants DEF Connect, TypeInv
  <2>5. past' \subseteq Events
    BY <1>1 DEF Connect, TypeInv, Events
  <2>6. client' \in [Clients -> [at : Places, out : BOOLEAN]]
    BY <1>1 DEF Connect, TypeInv, Places
  <2>7. mail' \in [Clients -> Mails] /\ UNCHANGED <<requests, listVars, mem, chat, thr, status>>
    BY <1>1, ReadIs DEF Connect
  <2> QED BY <2>3, <2>4, <2>5, <2>6, <2>7 DEF TypeInv
<1>2. CASE HangUp(c)
  <2>1. client' \in [Clients -> [at : Places, out : BOOLEAN]] /\ fd' \in [Clients -> Descriptors \cup {-1}]
    BY <1>2 DEF HangUp, TypeInv, Places
  <2>2. UNCHANGED <<mail, connects, requests, listVars, mem, chat, thr, status, past>>
    BY <1>2 DEF HangUp
  <2> QED BY <2>1, <2>2 DEF TypeInv
<1>6. CASE Inherit(c)
  BY <1>6 DEF Inherit, TypeInv
<1>3. CASE Request(c)
  <2>1. PICK pc \in {"name", "ask"} : thr' = [thr EXCEPT ![c].pc = pc]
    BY <1>3 DEF Request
  <2>2. PICK t : t = [thr[c] EXCEPT !.pc = pc]
    OBVIOUS
  <2>3. thr' = [thr EXCEPT ![c] = t] /\ t \in ThreadState /\ t.pc = pc
    BY <2>1, <2>2 DEF TypeInv, ThreadState, Steps
  <2>4. /\ thr' \in [Clients -> ThreadState]
        /\ \A d \in Clients : /\ thr'[d].pc \in Making => thr'[d].a \in Cells
                              /\ thr'[d].pc \in Entering \cup {"show"} => thr'[d].i \in Entries
    BY <2>3, ThreadChanges DEF Making, Entering
  <2>5. client' \in [Clients -> [at : Places, out : BOOLEAN]]
    BY <1>3 DEF Request, TypeInv, Places
  <2>6. requests' \in 0 .. MaxRequests
    BY <1>3, Constants DEF Request, TypeInv
  <2>7. UNCHANGED <<fd, mail, connects, listVars, mem, chat, status, past>>
    BY <1>3 DEF Request
  <2> QED BY <2>4, <2>5, <2>6, <2>7 DEF TypeInv
<1>4. CASE Choose(c)
  <2>1. client' \in [Clients -> [at : Places, out : BOOLEAN]]
    BY <1>4 DEF Choose, TypeInv, Places
  <2>2. PICK m \in Mails : mail' = [mail EXCEPT ![c] = m]
    BY <1>4 DEF Choose, Mails
  <2>3. mail' \in [Clients -> Mails]
    BY <2>2 DEF TypeInv
  <2>4. UNCHANGED <<fd, connects, requests, listVars, mem, chat, thr, status, past>>
    BY <1>4 DEF Choose
  <2> QED BY <2>1, <2>3, <2>4 DEF TypeInv
<1>5. CASE Type(c)
  <2>1. PICK l \in Lines, d \in Clients \cup {NoOne} :
         /\ (d # NoOne) <=> (l = "kick")
         /\ IF client[c].out /\ l # "ready"
              THEN /\ client' = [client EXCEPT ![c] = [at |-> "menu", out |-> FALSE]]
                   /\ mail' = mail
              ELSE /\ client' = [client EXCEPT ![c].at = IF l = "ready" THEN "readying" ELSE "in"]
                   /\ mail' = [mail EXCEPT ![c] = [what |-> l, arg |-> d]]
    BY <1>5 DEF Type
  <2>2. client' \in [Clients -> [at : Places, out : BOOLEAN]]
    <3>1. CASE client' = [client EXCEPT ![c] = [at |-> "menu", out |-> FALSE]]
      BY <3>1 DEF TypeInv, Places
    <3>2. CASE client' = [client EXCEPT ![c].at = IF l = "ready" THEN "readying" ELSE "in"]
      <4>1. (IF l = "ready" THEN "readying" ELSE "in") \in Places
        BY DEF Places
      <4> QED BY <3>2, <4>1 DEF TypeInv
    <3> QED BY <2>1, <3>1, <3>2
  <2>3. [what |-> l, arg |-> d] \in Mails
    <3>1. l = "kick" => [what |-> l, arg |-> d] \in [what : Lines \cap {"kick"}, arg : Clients]
      BY <2>1
    <3>2. l # "kick" => [what |-> l, arg |-> d] \in [what : Lines \ {"kick"}, arg : {NoOne}]
      BY <2>1
    <3> QED BY <3>1, <3>2 DEF Mails
  <2>4. mail' \in [Clients -> Mails]
    BY <2>1, <2>3 DEF TypeInv
  <2>5. UNCHANGED <<fd, connects, requests, listVars, mem, chat, thr, status, past>>
    BY <1>5 DEF Type
  <2> QED BY <2>2, <2>4, <2>5 DEF TypeInv
<1> QED BY <1>1, <1>2, <1>3, <1>4, <1>5, <1>6

LEMMA TypeElsewhere == ASSUME TypeInv, ReadElsewhere PROVE TypeInv'
BY ReadIs DEF ReadElsewhere, TypeInv

\* The fields of a room that is filled, and of one whose seat is written
Filled(m, size, n, x, f) == [m EXCEPT !.size = size, !.count = n, !.player[0] = x, !.connfd[0] = f]

Written(m, j, x, f, n) ==
    [m EXCEPT !.player[j] = x, !.connfd[j] = f, !.ready[j] = 0, !.count = n]

LEMMA FilledRoom ==
    ASSUME NEW m \in Room, NEW size \in Sizes, NEW x \in Clients \cup {NoOne},
           NEW f \in Descriptors \cup {-1}, NEW n \in Int
    PROVE  /\ Filled(m, size, n, x, f) \in Room
           /\ Filled(m, size, n, x, f).id = m.id /\ Filled(m, size, n, x, f).size = size
           /\ Filled(m, size, n, x, f).count = n
BY DEF Filled, Room

LEMMA FilledSeats ==
    ASSUME NEW m \in Room, NEW size \in Sizes, NEW x \in Clients \cup {NoOne},
           NEW f \in Descriptors \cup {-1}, NEW n \in Int, NEW i \in Seats
    PROVE  /\ Filled(m, size, n, x, f).player[i] = IF i = 0 THEN x ELSE m.player[i]
           /\ Filled(m, size, n, x, f).connfd[i] = IF i = 0 THEN f ELSE m.connfd[i]
BY DEF Filled, Room

LEMMA WrittenRoom ==
    ASSUME NEW m \in Room, NEW j \in Seats, NEW x \in Clients \cup {NoOne},
           NEW f \in Descriptors \cup {-1}, NEW n \in Int
    PROVE  /\ Written(m, j, x, f, n) \in Room
           /\ Written(m, j, x, f, n).id = m.id /\ Written(m, j, x, f, n).size = m.size
           /\ Written(m, j, x, f, n).count = n
BY DEF Written, Room

LEMMA WrittenSeats ==
    ASSUME NEW m \in Room, NEW j \in Seats, NEW x, NEW f, NEW n, NEW i \in Seats
    PROVE  /\ Written(m, j, x, f, n).player[i] = IF i = j THEN x ELSE m.player[i]
           /\ Written(m, j, x, f, n).connfd[i] = IF i = j THEN f ELSE m.connfd[i]
BY DEF Written, Room

LEMMA WrittenId ==
    ASSUME NEW m \in Room, NEW j, NEW x, NEW f, NEW n
    PROVE  /\ Written(m, j, x, f, n).id = m.id /\ Written(m, j, x, f, n).size = m.size
           /\ Written(m, j, x, f, n).count = n
BY DEF Written, Room

LEMMA TypeMakers ==
    ASSUME TypeInv, NEW c \in Clients,
           \/ TestRoom(c) \/ InsertRoom(c) \/ NumberRoom(c) \/ FillRoom(c) \/ TellMade(c) \/ StartChat(c)
    PROVE  TypeInv'
<1> DEFINE T(t) == t \in ThreadState /\ (t.pc \in Making => t.a \in Cells)
                      /\ (t.pc \in Entering \cup {"show"} => t.i \in Entries)
<1>0. T(thr[c]) /\ T(NoThread)
  BY StatesAre DEF TypeInv, Making, Entering
<1>1. CASE TestRoom(c)
  <2>1. PICK t : t = [thr[c] EXCEPT !.pc = IF roomNum < MAX_ROOM THEN "insert" ELSE "none"]
    OBVIOUS
  <2>2. thr' = [thr EXCEPT ![c] = t]
    BY <1>1, <2>1 DEF TestRoom, TypeInv
  <2>3. T(t)
    <3>1. (IF roomNum < MAX_ROOM THEN "insert" ELSE "none") \in {"insert", "none"}
      OBVIOUS
    <3>2. t \in ThreadState /\ t.pc \in {"insert", "none"}
      BY <1>0, <2>1, <3>1 DEF ThreadState, Steps
    <3> QED BY <3>2 DEF Making, Entering
  <2>4. mail' \in [Clients -> Mails]
    BY <1>1, ReadIs DEF TestRoom
  <2>5. UNCHANGED <<client, fd, connects, requests, listVars, mem, chat, status, past>>
    BY <1>1 DEF TestRoom
  <2> QED BY <2>2, <2>3, <2>4, <2>5, ThreadChanges DEF TypeInv
<1>2. CASE InsertRoom(c)
  <2> DEFINE free == {a \in Cells \ used : chat[a] = NoChat}
             t == [NoThread EXCEPT !.pc = "number", !.a = Min(free)]
  <2>1. /\ free # {} /\ used' = used \cup {Min(free)}
        /\ roomList' = IF Holes = {} THEN roomList ELSE [roomList EXCEPT ![FreeEntry] = Min(free)]
        /\ thr' = [thr EXCEPT ![c] = t]
    BY <1>2 DEF InsertRoom
  <2>2. Min(free) \in free
    BY <2>1, Constants, MinIsLowest
  <2>3. roomList' \in [Entries -> Cells \cup {0}] /\ used' \subseteq Cells
    BY <2>1, <2>2 DEF TypeInv
  <2>4. T(t)
    <3>1. t \in ThreadState /\ t.pc = "number" /\ t.a \in Cells
      BY <2>2, Constants DEF NoThread, ThreadState, Steps, Making, Seats
    <3> QED BY <3>1 DEF Entering
  <2>5. roomNum' \in Int /\ roomIDGenerate' \in 0 .. MaxID
    BY <1>2, Constants DEF InsertRoom, TypeInv
  <2>6. past' \subseteq Events
    BY <1>2 DEF InsertRoom, TypeInv, Events
  <2>7. UNCHANGED <<clientVars, mem, chat, status>>
    BY <1>2 DEF InsertRoom
  <2> HIDE DEF t
  <2> QED BY <2>1, <2>3, <2>4, <2>5, <2>6, <2>7, ThreadChanges DEF TypeInv
<1>3. CASE NumberRoom(c)
  <2>1. PICK t : t = [thr[c] EXCEPT !.pc = "fill"]
    OBVIOUS
  <2>2. thr' = [thr EXCEPT ![c] = t] /\ thr[c].pc = "number"
    BY <1>3, <2>1 DEF NumberRoom, At, TypeInv
  <2>3. T(t)
    <3>1. t \in ThreadState /\ t.pc = "fill" /\ t.a \in Cells
      BY <1>0, <2>1, <2>2 DEF ThreadState, Steps, Making
    <3> QED BY <3>1 DEF Entering
  <2>4. mem' \in [Cells -> Room]
    <3>1. mem' = [mem EXCEPT ![thr[c].a].id = roomIDGenerate] /\ thr[c].a \in Cells
      BY <1>0, <1>3, <2>2 DEF NumberRoom, Making
    <3>2. roomIDGenerate \in 0 .. MaxID /\ mem[thr[c].a] \in Room
      BY <3>1 DEF TypeInv
    <3>3. [mem[thr[c].a] EXCEPT !.id = roomIDGenerate] \in Room
      BY <3>2 DEF Room
    <3> QED BY <3>1, <3>3 DEF TypeInv
  <2>5. status' \in {"up", "crash", "clash", "stale"} /\ UNCHANGED <<clientVars, listVars, chat, past>>
    BY <1>3 DEF NumberRoom, TypeInv
  <2> QED BY <2>2, <2>3, <2>4, <2>5, ThreadChanges DEF TypeInv
<1>4. CASE FillRoom(c)
  <2>1. PICK t : t = [thr[c] EXCEPT !.pc = "made"]
    OBVIOUS
  <2>2. thr' = [thr EXCEPT ![c] = t] /\ thr[c].pc = "fill" /\ thr[c].a \in Cells
    BY <1>0, <1>4, <2>1 DEF FillRoom, At, TypeInv, Making
  <2>3. T(t)
    <3>1. t \in ThreadState /\ t.pc = "made" /\ t.a \in Cells
      BY <1>0, <2>1, <2>2 DEF ThreadState, Steps, Making
    <3> QED BY <3>1 DEF Entering
  <2>4. mem' \in [Cells -> Room]
    <3>1. PICK size \in Sizes :
              mem' = [mem EXCEPT ![thr[c].a] = [mem[thr[c].a] EXCEPT
                         !.size = size, !.count = 1, !.player[0] = Account(c), !.connfd[0] = fd[c]]]
      BY <1>4 DEF FillRoom
    <3>2. Account(c) \in Clients \cup {NoOne} /\ fd[c] \in Descriptors \cup {-1} /\ 0 \in Seats
      BY DEF Account, TypeInv, Seats
    <3>3. PICK n \in Int : n = 1
      OBVIOUS
    <3> DEFINE new == Filled(mem[thr[c].a], size, n, Account(c), fd[c])
    <3>4. mem[thr[c].a] \in Room
      BY <2>2 DEF TypeInv
    <3>5. new \in Room
      BY <3>1, <3>2, <3>3, <3>4, FilledRoom
    <3>6. mem' = [mem EXCEPT ![thr[c].a] = new]
      BY <3>1, <3>3 DEF Filled
    <3> QED BY <2>2, <3>5, <3>6 DEF TypeInv
  <2>5. past' \subseteq Events /\ UNCHANGED <<clientVars, listVars, chat, status>>
    BY <1>4 DEF FillRoom, TypeInv, Events
  <2> QED BY <2>2, <2>3, <2>4, <2>5, ThreadChanges DEF TypeInv
<1>5. CASE TellMade(c)
  <2>1. CASE Dies({})
    BY <2>1, DiesType
  <2>2. CASE ~Dies({})
    <3>1. PICK t : t = IF Gone(c) THEN NoThread ELSE [thr[c] EXCEPT !.pc = "start"]
      OBVIOUS
    <3>2. thr' = [thr EXCEPT ![c] = t] /\ thr[c].pc = "made"
      BY <1>5, <2>2, <3>1 DEF TellMade, At
    <3>3. T(t)
      <4>1. CASE t = [thr[c] EXCEPT !.pc = "start"]
        <5>1. t \in ThreadState /\ t.pc = "start" /\ t.a \in Cells
          BY <1>0, <3>2, <4>1 DEF ThreadState, Steps, Making
        <5> QED BY <5>1 DEF Entering
      <4> QED BY <1>0, <3>1, <4>1
    <3>4. client' = client \/ client' = Told({c}, "in")
      BY <1>5, <2>2 DEF TellMade
    <3>5. client' \in [Clients -> [at : Places, out : BOOLEAN]]
      <4>1. Told({c}, "in") \in [Clients -> [at : Places, out : BOOLEAN]]
        BY ToldType DEF Places
      <4> QED BY <3>4, <4>1 DEF TypeInv
    <3>6. UNCHANGED <<fd, mail, connects, requests, listVars, mem, chat, status, past>>
      BY <1>5, <2>2 DEF TellMade
    <3> QED BY <3>2, <3>3, <3>5, <3>6, ThreadChanges DEF TypeInv
  <2> QED BY <2>1, <2>2
<1>6. CASE StartChat(c)
  <2>1. CASE Dies({})
    BY <2>1, DiesType
  <2>2. CASE ~Dies({})
    <3> DEFINE a == thr[c].a
    <3>1. thr' = [thr EXCEPT ![c] = NoThread] /\ thr[c].pc = "start" /\ chat' = [chat EXCEPT ![a].pc = "chat"]
      BY <1>6, <2>2 DEF StartChat, At
    <3>2. PICK k : k = [chat[a] EXCEPT !.pc = "chat"]
      OBVIOUS
    <3>3. a \in Cells
      BY <1>0, <3>1 DEF Making
    <3>4. chat' = [chat EXCEPT ![a] = k] /\ k \in ChatState /\ k.pc = "chat"
      BY <3>1, <3>2, <3>3 DEF TypeInv, ChatState, Chatting
    <3>5. /\ chat' \in [Cells -> ChatState]
          /\ \A b \in Cells : chat'[b].pc \in Quitting => chat'[b].j \in Seats
      BY <3>3, <3>4, ChatChanges DEF Quitting
    <3>6. UNCHANGED <<clientVars, listVars, mem, status, past>>
      BY <1>6, <2>2 DEF StartChat
    <3> QED BY <1>0, <3>1, <3>5, <3>6, ThreadChanges DEF TypeInv
  <2> QED BY <2>1, <2>2
<1> QED BY <1>1, <1>2, <1>3, <1>4, <1>5, <1>6

LEMMA TypeEnterers ==
    ASSUME TypeInv, NEW c \in Clients,
           \/ AskRooms(c) \/ ListRoom(c) \/ ShowRoom(c) \/ FindSeat(c) \/ TakeSeat(c)
           \/ TellEntered(c) \/ Welcome(c)
    PROVE  TypeInv'
<1> DEFINE T(t) == t \in ThreadState /\ (t.pc \in Making => t.a \in Cells)
                      /\ (t.pc \in Entering \cup {"show"} => t.i \in Entries)
           Players == [Clients -> [at : Places, out : BOOLEAN]]
<1>0. T(thr[c]) /\ T(NoThread)
  BY StatesAre DEF TypeInv, Making, Entering
<1>p. Told({c}, "menu") \in Players /\ Told({c}, "choosing") \in Players /\ Told({c}, "in") \in Players
  <2>1. "menu" \in Places /\ "choosing" \in Places /\ "in" \in Places
    BY DEF Places
  <2> QED BY <2>1, ToldType
<1>1. CASE AskRooms(c)
  <2>1. PICK t : t = IF roomNum = 0 THEN NoThread ELSE [thr[c] EXCEPT !.pc = "list"]
    OBVIOUS
  <2>2. thr' = [thr EXCEPT ![c] = t]
    BY <1>1, <2>1 DEF AskRooms, TypeInv
  <2>3. T(t)
    <3>1. CASE t = [thr[c] EXCEPT !.pc = "list"]
      <4>1. t \in ThreadState /\ t.pc = "list"
        BY <1>0, <3>1 DEF ThreadState, Steps
      <4> QED BY <4>1 DEF Making, Entering
    <3> QED BY <1>0, <2>1, <3>1
  <2>4. client' = client \/ client' = Told({c}, "menu")
    BY <1>1 DEF AskRooms
  <2>5. client' \in Players
    BY <1>p, <2>4 DEF TypeInv
  <2>6. UNCHANGED <<fd, mail, connects, requests, listVars, mem, chat, status, past>>
    BY <1>1 DEF AskRooms
  <2> QED BY <2>2, <2>3, <2>5, <2>6, ThreadChanges DEF TypeInv
<1>2. CASE ListRoom(c)
  <2> DEFINE next == {i \in Entries \ Holes : i >= thr[c].i}
  <2>1. PICK t : t = IF Gone(c) THEN NoThread
                     ELSE IF next = {} THEN [NoThread EXCEPT !.pc = "getID"]
                     ELSE [thr[c] EXCEPT !.pc = "show", !.i = Min(next)]
    OBVIOUS
  <2>2. thr' = [thr EXCEPT ![c] = t]
    BY <1>2, <2>1 DEF ListRoom
  <2>3. T(t)
    <3>1. CASE t = [NoThread EXCEPT !.pc = "getID"]
      <4>1. t \in ThreadState /\ t.pc = "getID"
        BY <3>1 DEF ThreadState, NoThread, Seats, Steps
      <4> QED BY <4>1 DEF Making, Entering
    <3>2. CASE next # {} /\ t = [thr[c] EXCEPT !.pc = "show", !.i = Min(next)]
      <4>1. Min(next) \in next
        BY <3>2, Constants, MinIsLowest
      <4>2. Min(next) \in Entries /\ Min(next) \in Nat
        BY <4>1, Constants
      <4>3. t \in ThreadState /\ t.pc = "show" /\ t.i \in Entries
        BY <1>0, <3>2, <4>2 DEF ThreadState, Steps
      <4> QED BY <4>3 DEF Making
    <3> QED BY <1>0, <2>1, <3>1, <3>2
  <2>4. client' = client \/ client' = Told({c}, "choosing")
    BY <1>2 DEF ListRoom
  <2>5. client' \in Players
    BY <1>p, <2>4 DEF TypeInv
  <2>6. UNCHANGED <<fd, mail, connects, requests, listVars, mem, chat, status, past>>
    BY <1>2 DEF ListRoom
  <2> QED BY <2>2, <2>3, <2>5, <2>6, ThreadChanges DEF TypeInv
<1>3. CASE ShowRoom(c)
  <2>1. CASE Dies({})
    BY <2>1, DiesType
  <2>2. CASE ~Dies({})
    <3>1. PICK t : t = [thr[c] EXCEPT !.pc = "list", !.i = thr[c].i + 1]
      OBVIOUS
    <3>2. thr' = [thr EXCEPT ![c] = t] /\ UNCHANGED <<clientVars, listVars, mem, chat, status, past>>
      BY <1>3, <2>2, <3>1 DEF ShowRoom
    <3>3. T(t)
      <4>1. thr[c].i + 1 \in Nat
        BY <1>0 DEF ThreadState
      <4>2. t \in ThreadState /\ t.pc = "list"
        BY <1>0, <3>1, <4>1 DEF ThreadState, Steps
      <4> QED BY <4>2 DEF Making, Entering
    <3> QED BY <3>2, <3>3, ThreadChanges DEF TypeInv
  <2> QED BY <2>1, <2>2
<1>4. CASE FindSeat(c)
  <2> DEFINE id == IF mail[c].what = "id" THEN mail[c].arg ELSE 0
             a == roomList[Min(Having(id))]
             free == SeatsOf(a) \ Taken(a)
             t == [pc |-> "take", i |-> Min(Having(id)), j |-> Min(free), a |-> id]
  <2>1. /\ mail' = Read(c) /\ UNCHANGED <<fd, connects, requests, listVars, mem, chat>>
        /\ client' = client \/ client' = Told({c}, "choosing")
        /\ status' \in {status, "crash"} /\ past' \in {past, past \cup {"looked"}}
        /\ thr' = thr \/ (Having(id) # {} /\ free # {} /\ thr' = [thr EXCEPT ![c] = t])
    BY <1>4 DEF FindSeat
  <2>2. client' \in Players
    BY <1>p, <2>1 DEF TypeInv
  <2>3. mail' \in [Clients -> Mails]
    BY <2>1, ReadIs
  <2>4. status' \in {"up", "crash", "clash", "stale"} /\ past' \subseteq Events
    BY <2>1 DEF TypeInv, Events
  <2>5. /\ thr' \in [Clients -> ThreadState]
        /\ \A d \in Clients : /\ thr'[d].pc \in Making => thr'[d].a \in Cells
                              /\ thr'[d].pc \in Entering \cup {"show"} => thr'[d].i \in Entries
    <3>1. CASE thr' = thr
      BY <3>1 DEF TypeInv
    <3>2. CASE Having(id) # {} /\ free # {} /\ thr' = [thr EXCEPT ![c] = t]
      <4>1. Min(Having(id)) \in Entries
        BY <3>2, HavingIs
      <4>2. Min(free) \in free
        <5>1. free \subseteq Nat
          BY Constants DEF SeatsOf
        <5> QED BY <3>2, <5>1, MinIsLowest
      <4>3. Min(free) \in Seats
        BY <4>2 DEF SeatsOf
      <4>4. id \in Nat
        BY MailIs, Constants
      <4>5. t \in ThreadState /\ t.pc = "take" /\ t.i \in Entries
        <5> HIDE DEF id, free
        <5> QED BY <4>1, <4>3, <4>4, Constants DEF ThreadState, Steps, Entering
      <4> HIDE DEF t
      <4>6. t.pc \notin Making
        BY <4>5 DEF Making
      <4> QED BY <3>2, <4>5, <4>6, ThreadChanges
    <3> QED BY <2>1, <3>1, <3>2
  <2> QED BY <2>1, <2>2, <2>3, <2>4, <2>5 DEF TypeInv
<1>5. CASE TakeSeat(c)
  <2> DEFINE a == roomList[thr[c].i]
             j == thr[c].j
  <2>1. CASE Dies({})
    BY <2>1, DiesType
  <2>2. CASE ~Dies({})
    <3>1. thr[c].pc = "take" /\ thr[c].i \in Entries /\ j \in Seats /\ a \in Cells
      BY <1>0, <1>5, <2>2 DEF TakeSeat, At, Entering, ThreadState, TypeInv
    <3>2. PICK n \in Counts(a) :
              mem' = [mem EXCEPT ![a] = [mem[a] EXCEPT
                !.player[j] = Account(c), !.connfd[j] = fd[c], !.ready[j] = 0, !.count = n]]
      BY <1>5, <2>2 DEF TakeSeat
    <3>3. n \in Int
      BY <3>1 DEF Counts, TypeInv, Room, ChatState
    <3> DEFINE new == Written(mem[a], j, Account(c), fd[c], n)
    <3>4. mem' = [mem EXCEPT ![a] = new]
      BY <3>2 DEF Written
    <3>5. Account(c) \in Clients \cup {NoOne} /\ fd[c] \in Descriptors \cup {-1} /\ mem[a] \in Room
      BY <3>1 DEF Account, TypeInv
    <3>6. new \in Room
      BY <3>1, <3>3, <3>5, WrittenRoom
    <3>7. mem' \in [Cells -> Room]
      BY <3>1, <3>4, <3>6 DEF TypeInv
    <3>8. PICK t : t = [thr[c] EXCEPT !.pc = "entered"]
      OBVIOUS
    <3>9. T(t) /\ thr' = [thr EXCEPT ![c] = t]
      <4>1. t \in ThreadState /\ t.pc = "entered" /\ t.i \in Entries
        BY <1>0, <3>1, <3>8 DEF ThreadState, Steps, Entering
      <4>2. thr' = [thr EXCEPT ![c] = t]
        BY <1>5, <2>2, <3>8 DEF TakeSeat, TypeInv
      <4> QED BY <4>1, <4>2 DEF Making
    <3>10. past' \subseteq Events
      BY <1>5, <2>2 DEF TakeSeat, TypeInv, Events
    <3>11. UNCHANGED <<clientVars, listVars, chat, status>>
      BY <1>5, <2>2 DEF TakeSeat
    <3> QED BY <3>7, <3>9, <3>10, <3>11, ThreadChanges DEF TypeInv
  <2> QED BY <2>1, <2>2
<1>6. CASE TellEntered(c)
  <2>1. PICK t : t = IF Gone(c) THEN NoThread ELSE [thr[c] EXCEPT !.pc = "welcome"]
    OBVIOUS
  <2>2. thr' = [thr EXCEPT ![c] = t] /\ thr[c].pc = "entered"
    BY <1>6, <2>1 DEF TellEntered, At
  <2>3. T(t)
    <3>1. CASE t = [thr[c] EXCEPT !.pc = "welcome"]
      <4>1. t \in ThreadState /\ t.pc = "welcome" /\ t.i \in Entries
        BY <1>0, <2>2, <3>1 DEF ThreadState, Steps, Entering
      <4> QED BY <4>1 DEF Making
    <3> QED BY <1>0, <2>1, <3>1
  <2>4. client' = client \/ client' = Told({c}, "in")
    BY <1>6 DEF TellEntered
  <2>5. client' \in Players
    BY <1>p, <2>4 DEF TypeInv
  <2>6. UNCHANGED <<fd, mail, connects, requests, listVars, mem, chat, status, past>>
    BY <1>6 DEF TellEntered
  <2> QED BY <2>2, <2>3, <2>5, <2>6, ThreadChanges DEF TypeInv
<1>7. CASE Welcome(c)
  <2>1. CASE thr' = [thr EXCEPT ![c] = NoThread] /\ UNCHANGED <<clientVars, listVars, mem, chat, status, past>>
    BY <1>0, <2>1, ThreadChanges DEF TypeInv
  <2>2. CASE ~(thr' = [thr EXCEPT ![c] = NoThread] /\ UNCHANGED <<clientVars, listVars, mem, chat, status, past>>)
    <3>1. \E why \in {{}, {"early"}, {"looked"}} : Dies(why)
      BY <1>7, <2>2 DEF Welcome
    <3>2. {{}, {"early"}, {"looked"}} \subseteq SUBSET Events
      BY DEF Events
    <3> QED BY <3>1, <3>2, DiesType
  <2> QED BY <2>1, <2>2
<1> QED BY <1>1, <1>2, <1>3, <1>4, <1>5, <1>6, <1>7

\* quitRoom is called.
LEMMA QuitsType ==
    ASSUME TypeInv, NEW a \in Cells, NEW j \in Seats,
           NEW why \in {"lost", "quit", "kick", "break"}, Quits(a, j, why)
    PROVE  /\ chat' \in [Cells -> ChatState]
           /\ \A b \in Cells : chat'[b].pc \in Quitting => chat'[b].j \in Seats
<1>1. PICK k : k = [chat[a] EXCEPT !.pc = "quit", !.why = why, !.j = j]
  OBVIOUS
<1>2. chat' = [chat EXCEPT ![a] = k]
  BY <1>1 DEF Quits
<1>3. k \in ChatState /\ k.j = j
  <2>1. j \in 0 .. 3 /\ chat[a] \in ChatState
    BY DEF Seats, TypeInv
  <2> QED BY <1>1, <2>1 DEF ChatState, Chatting, Quitting
<1> QED BY <1>2, <1>3, ChatChanges

\* The seat of a name, unless it is the one behind the last
LEMMA SeatOfIs ==
    ASSUME NEW a, NEW d, SeatOf(a, d) # mem[a].size
    PROVE  /\ SeatOf(a, d) \in SeatsOf(a) /\ SeatOf(a, d) \in Seats
           /\ mem[a].player[SeatOf(a, d)] = d
<1> DEFINE js == {j \in SeatsOf(a) : mem[a].player[j] = d}
<1>1. js # {} /\ SeatOf(a, d) = Min(js)
  BY DEF SeatOf
<1>2. js \subseteq Nat
  BY Constants DEF SeatsOf
<1>3. Min(js) \in js
  BY <1>1, <1>2, MinIsLowest
<1> QED BY <1>1, <1>3 DEF SeatsOf

\* The thread of a room goes back to the seats.
LEMMA LooksOnIs ==
    ASSUME TypeInv, NEW a \in Cells, LooksOn(a)
    PROVE  /\ chat' \in [Cells -> ChatState] /\ chat'[a].pc = "chat"
           /\ \A b \in Cells : b # a => chat'[b] = chat[b]
           /\ \A b \in Cells : chat'[b].pc \in Quitting => chat'[b].j \in Seats
<1>1. PICK k : k = [NoChat EXCEPT !.pc = "chat"]
  OBVIOUS
<1>2. k \in ChatState /\ k.pc = "chat"
  BY <1>1 DEF NoChat, ChatState, Chatting, Quitting
<1>3. chat' = [chat EXCEPT ![a] = k]
  BY <1>1 DEF LooksOn
<1> QED BY <1>2, <1>3, ChatChanges DEF Quitting, TypeInv

\* A player is made ready.
LEMMA ReadyRoom ==
    ASSUME TypeInv, NEW a \in Cells, NEW j \in Seats, mem' = [mem EXCEPT ![a].ready[j] = 1]
    PROVE  /\ mem' \in [Cells -> Room]
           /\ mem'[a].id = mem[a].id /\ mem'[a].size = mem[a].size /\ mem'[a].count = mem[a].count
           /\ mem'[a].player = mem[a].player /\ mem'[a].connfd = mem[a].connfd
           /\ \A b \in Cells : b # a => mem'[b] = mem[b]
<1>1. PICK R : R = [mem[a].ready EXCEPT ![j] = 1]
  OBVIOUS
<1>2. mem[a] \in Room /\ R \in [Seats -> {0, 1}]
  BY <1>1 DEF TypeInv, Room
<1>3. PICK m : m = [mem[a] EXCEPT !.ready = R]
  OBVIOUS
<1>4. /\ m \in Room /\ m.id = mem[a].id /\ m.size = mem[a].size /\ m.count = mem[a].count
      /\ m.player = mem[a].player /\ m.connfd = mem[a].connfd
  BY <1>2, <1>3 DEF Room
<1>5. mem' = [mem EXCEPT ![a] = m]
  BY <1>1, <1>3 DEF TypeInv
<1> QED BY <1>4, <1>5 DEF TypeInv

LEMMA TypeReads ==
    ASSUME TypeInv, NEW a \in Cells, NEW j \in Seats, NEW c \in Clients,
           Notice(a, j) \/ Look(a, j) \/ Reads(a, j, c)
    PROVE  TypeInv'
<1> DEFINE Players == [Clients -> [at : Places, out : BOOLEAN]]
<1>0. \A w \in SUBSET Events : Dies(w) => TypeInv'
  BY DiesType
<1>e. {} \in SUBSET Events /\ {"name"} \in SUBSET Events
  BY DEF Events
<1>m. mail' = Read(c) => mail' \in [Clients -> Mails]
  BY ReadIs
<1>1. CASE Notice(a, j)
  <2>1. Dies({}) \/ (Quits(a, j, "lost") /\ UNCHANGED <<clientVars, listVars, mem, thr, status, past>>)
    BY <1>1 DEF Notice
  <2>2. CASE Quits(a, j, "lost") /\ UNCHANGED <<clientVars, listVars, mem, thr, status, past>>
    BY <2>2, QuitsType DEF TypeInv
  <2> QED BY <1>0, <1>e, <2>1, <2>2
<1>2. CASE ReadChat(a, j, c)
  <2>1. /\ past' \subseteq Events /\ mail' = Read(c) /\ LooksOn(a)
        /\ UNCHANGED <<client, fd, connects, requests, listVars, mem, thr, status>>
    BY <1>2 DEF ReadChat, TypeInv, Events
  <2> QED BY <1>m, <2>1, LooksOnIs DEF TypeInv
<1>3. CASE ReadReady(a, j, c)
  <2>1. CASE Dies({})
    BY <1>0, <1>e, <2>1
  <2>2. CASE ~Dies({})
    <3>1. /\ mem' = [mem EXCEPT ![a].ready[j] = 1] /\ mail' = Read(c)
          /\ client' = Told({c}, "ready") /\ LooksOn(a)
          /\ UNCHANGED <<fd, connects, requests, listVars, thr, status, past>>
      BY <1>3, <2>2 DEF ReadReady
    <3>2. client' \in Players
      BY <3>1, ToldType DEF Places
    <3>3. mem' \in [Cells -> Room]
      BY <3>1, ReadyRoom
    <3> QED BY <1>m, <3>1, <3>2, <3>3, LooksOnIs DEF TypeInv
  <2> QED BY <2>1, <2>2
<1>4. CASE ReadQuit(a, j, c)
  <2>1. /\ mail' = Read(c) /\ client' = [client EXCEPT ![c].out = TRUE]
        /\ Quits(a, j, "quit")
        /\ UNCHANGED <<fd, connects, requests, listVars, mem, thr, status, past>>
    BY <1>4 DEF ReadQuit
  <2>2. client' \in Players
    BY <2>1 DEF TypeInv
  <2> QED BY <1>m, <2>1, <2>2, QuitsType DEF TypeInv
<1>5. CASE ReadKick(a, j, c)
  <2> DEFINE k == SeatOf(a, mail[c].arg)
  <2>1. CASE k = mem[a].size
    BY <1>0, <1>5, <1>e, <2>1 DEF ReadKick
  <2>2. CASE k # mem[a].size
    <3>1. /\ client' = [e \in Clients |->
                         IF fd[e] = mem[a].connfd[k] /\ ~Gone(e)
                           THEN [client[e] EXCEPT !.out = TRUE] ELSE client[e]]
          /\ past' = past \cup (IF k = 0 THEN {"kickSelf"} ELSE {})
          /\ mail' = Read(c)
          /\ Quits(a, k, "kick")
          /\ UNCHANGED <<fd, connects, requests, listVars, mem, thr, status>>
      BY <1>5, <2>2 DEF ReadKick
    <3>2. client' \in Players
      BY <3>1 DEF TypeInv
    <3>3. past' \subseteq Events
      BY <3>1 DEF TypeInv, Events
    <3>4. k \in Seats
      BY <2>2, SeatOfIs
    <3>5. /\ chat' \in [Cells -> ChatState]
          /\ \A b \in Cells : chat'[b].pc \in Quitting => chat'[b].j \in Seats
      BY <3>1, <3>4, QuitsType
    <3> QED BY <1>m, <3>1, <3>2, <3>3, <3>5 DEF TypeInv
  <2> QED BY <2>1, <2>2
<1>6. CASE ReadInvite(a, j, c)
  <2>1. CASE Dies({"name"})
    BY <1>0, <1>e, <2>1
  <2>2. CASE ~Dies({"name"})
    <3>1. /\ mail' = Read(c) /\ LooksOn(a)
          /\ UNCHANGED <<client, fd, connects, requests, listVars, mem, thr, status, past>>
      BY <1>6, <2>2 DEF ReadInvite
    <3> QED BY <1>m, <3>1, LooksOnIs DEF TypeInv
  <2> QED BY <2>1, <2>2
<1>7. CASE Look(a, j)
  <2>1. PICK k : k = [NoChat EXCEPT !.pc = "get", !.j = j]
    OBVIOUS
  <2>2. j \in 0 .. 3
    BY DEF Seats
  <2>3. \A k0 \in ChatState, h \in 0 .. 3 :
          LET l == [k0 EXCEPT !.pc = "get", !.j = h] IN l \in ChatState /\ l.pc = "get"
    BY DEF ChatState, Chatting
  <2>3a. k \in ChatState /\ k.pc = "get"
    BY <2>1, <2>2, <2>3, StatesAre
  <2>4. chat' = [chat EXCEPT ![a] = k] /\ UNCHANGED <<clientVars, listVars, mem, thr, status, past>>
    BY <1>7, <2>1 DEF Look
  <2> QED BY <2>3a, <2>4, ChatChanges DEF TypeInv, Quitting
<1> QED BY <1>1, <1>2, <1>3, <1>4, <1>5, <1>6, <1>7 DEF Reads

LEMMA TypeReread == ASSUME TypeInv, NEW a \in Cells, Reread(a) PROVE TypeInv'
<1> DEFINE i == chat[a].j
<1>1. CASE \E w \in SUBSET Events : Dies(w)
  BY <1>1, DiesType
<1>2. CASE ~\E w \in SUBSET Events : Dies(w)
  <2>0. {} \in SUBSET Events /\ {"name"} \in SUBSET Events
    BY DEF Events
  <2>1. PICK l \in Lines \cup {"chat"} :
          /\ mem' = IF l = "ready" THEN [mem EXCEPT ![a].ready[i] = 1] ELSE mem
          /\ IF l = "quit" THEN Quits(a, i, "quit") ELSE LooksOn(a)
          /\ UNCHANGED <<clientVars, listVars, thr, status, past>>
    BY <1>2, <2>0 DEF Reread
  <2>2. i \in Seats
    BY DEF Reread, Lost, SeatsOf
  <2>3. mem' \in [Cells -> Room]
    <3>1. CASE l = "ready"
      BY <2>1, <2>2, <3>1, ReadyRoom
    <3>2. CASE l # "ready"
      BY <2>1, <3>2 DEF TypeInv
    <3> QED BY <3>1, <3>2
  <2>4. /\ chat' \in [Cells -> ChatState]
        /\ \A b \in Cells : chat'[b].pc \in Quitting => chat'[b].j \in Seats
    BY <2>1, <2>2, QuitsType, LooksOnIs
  <2> QED BY <2>1, <2>3, <2>4 DEF TypeInv
<1> QED BY <1>1, <1>2

\* The next host's seat is moved.
LEMMA MovedRoom ==
    ASSUME TypeInv, NEW a \in Cells, NEW k \in Seats
    PROVE  /\ mem[a] \in Room /\ Moved(a, k) \in Room
           /\ Moved(a, k).id = mem[a].id /\ Moved(a, k).size = mem[a].size
           /\ Moved(a, k).count = mem[a].count
<1> DEFINE m == mem[a]
<1>1. m \in Room /\ 0 \in Seats
  BY DEF TypeInv, Seats
<1> HIDE DEF m
<1> DEFINE P == [m.player EXCEPT ![0] = m.player[k], ![k] = NoOne]
           F == [m.connfd EXCEPT ![0] = m.connfd[k], ![k] = -1]
           R == [m.ready EXCEPT ![0] = m.ready[k], ![k] = 0]
           new == [m EXCEPT !.player = P, !.connfd = F, !.ready = R]
<1>2. /\ P \in [Seats -> Clients \cup {NoOne}] /\ F \in [Seats -> Descriptors \cup {-1}]
      /\ R \in [Seats -> {0, 1}]
  BY <1>1 DEF Room
<1>3. Moved(a, k) = new
  BY DEF Moved, m
<1> HIDE DEF P, F, R
<1>4. new \in Room /\ new.id = m.id /\ new.size = m.size /\ new.count = m.count
  BY <1>1, <1>2 DEF Room
<1> QED BY <1>1, <1>3, <1>4 DEF m

LEMMA MovedSeats ==
    ASSUME TypeInv, NEW a \in Cells, NEW k \in Seats, NEW i \in Seats
    PROVE  LET m == mem[a] IN
           /\ Moved(a, k).player[i] = IF i = k THEN NoOne ELSE IF i = 0 THEN m.player[k] ELSE m.player[i]
           /\ Moved(a, k).connfd[i] = IF i = k THEN -1 ELSE IF i = 0 THEN m.connfd[k] ELSE m.connfd[i]
<1>1. mem[a] \in Room
  BY DEF TypeInv
<1> QED BY <1>1 DEF Moved, Room

\* The next host, if there is one
LEMMA NewHostIs ==
    ASSUME TypeInv, NEW a \in Cells
    PROVE  /\ NewHost(a) \in Seats \cup {-1}
           /\ NewHost(a) # -1 => NewHost(a) \in Taken(a)
           /\ Taken(a) # {} => NewHost(a) # -1
<1>1. Taken(a) \subseteq Seats
  BY DEF Taken, SeatsOf
<1>2. Taken(a) # {} => Max(Taken(a)) \in Taken(a)
  BY <1>1, MaxIsHighest
<1>3. -1 \notin Seats
  BY DEF Seats
<1> QED BY <1>1, <1>2, <1>3 DEF NewHost

\* What a room's thread becomes when it has done with a seat
ChatAfter(a) ==
    IF chat[a].why = "break" THEN [NoChat EXCEPT !.pc = "break", !.j = chat[a].j + 1]
                             ELSE [NoChat EXCEPT !.pc = "chat"]

LEMMA ChatAfterIs ==
    ASSUME TypeInv, NEW a \in Cells, chat[a].pc = "left"
    PROVE  /\ ChatAfter(a) \in ChatState /\ ChatAfter(a).pc \in {"break", "chat"}
<1>1. chat[a].j \in Seats
  BY DEF TypeInv, Quitting
<1>2. chat[a].j + 1 \in 0 .. 3
  BY <1>1 DEF Seats
<1>3. \A k0 \in ChatState, j \in 0 .. 3 :
        LET k == [k0 EXCEPT !.pc = "break", !.j = j] IN k \in ChatState /\ k.pc = "break"
  BY DEF ChatState, Chatting
<1>4. \A k0 \in ChatState :
        LET k == [k0 EXCEPT !.pc = "chat"] IN k \in ChatState /\ k.pc = "chat"
  BY DEF ChatState, Chatting
<1> QED BY <1>2, <1>3, <1>4, StatesAre DEF ChatAfter

\* A seat that is emptied
Cleared(m, j) == [m EXCEPT !.player[j] = NoOne, !.connfd[j] = -1, !.ready[j] = 0]

LEMMA ClearedRoom ==
    ASSUME NEW m \in Room, NEW j \in Seats
    PROVE  /\ Cleared(m, j) \in Room
           /\ Cleared(m, j).id = m.id /\ Cleared(m, j).size = m.size /\ Cleared(m, j).count = m.count
           /\ \A i \in Seats :
                 /\ Cleared(m, j).player[i] = IF i = j THEN NoOne ELSE m.player[i]
                 /\ Cleared(m, j).connfd[i] = IF i = j THEN -1 ELSE m.connfd[i]
<1>1. /\ [m.player EXCEPT ![j] = NoOne] \in [Seats -> Clients \cup {NoOne}]
      /\ [m.connfd EXCEPT ![j] = -1] \in [Seats -> Descriptors \cup {-1}]
      /\ [m.ready EXCEPT ![j] = 0] \in [Seats -> {0, 1}]
  BY DEF Room
<1>2. Cleared(m, j) = [m EXCEPT !.player = [m.player EXCEPT ![j] = NoOne],
                                !.connfd = [m.connfd EXCEPT ![j] = -1],
                                !.ready = [m.ready EXCEPT ![j] = 0]]
  BY DEF Cleared, Room
<1>3. Cleared(m, j) \in Room
  BY <1>1, <1>2 DEF Room
<1>4. /\ Cleared(m, j).id = m.id /\ Cleared(m, j).size = m.size /\ Cleared(m, j).count = m.count
      /\ Cleared(m, j).player = [m.player EXCEPT ![j] = NoOne]
      /\ Cleared(m, j).connfd = [m.connfd EXCEPT ![j] = -1]
  BY <1>2 DEF Room
<1> QED BY <1>3, <1>4 DEF Room

LEMMA TypeLeaves ==
    ASSUME TypeInv, NEW a \in Cells, Leaves(a)
    PROVE  TypeInv'
<1> DEFINE K(k) == k \in ChatState /\ (k.pc \in Quitting => k.j \in Seats)
<1>0. chat[a] \in ChatState /\ mem[a] \in Room /\ (chat[a].pc \in Quitting => chat[a].j \in Seats)
  BY DEF TypeInv
<1>1. CASE QuitRoom(a)
  <2>1. PICK k : k = [chat[a] EXCEPT !.n = mem[a].count,
                    !.pc = IF mem[a].count > 1 THEN "leave" ELSE "delete"]
    OBVIOUS
  <2>2. K(k)
    <3>1. (IF mem[a].count > 1 THEN "leave" ELSE "delete") \in {"leave", "delete"}
      OBVIOUS
    <3>2. chat[a].j \in Seats /\ mem[a].count \in Int
      BY <1>0, <1>1 DEF QuitRoom, Doing, Quitting, Room
    <3>3. k \in ChatState /\ k.j = chat[a].j
      BY <1>0, <2>1, <3>1, <3>2 DEF ChatState, Chatting, Quitting
    <3> QED BY <3>2, <3>3
  <2>3. chat' = [chat EXCEPT ![a] = k] /\ UNCHANGED <<clientVars, listVars, mem, thr, status, past>>
    BY <1>1, <2>1 DEF QuitRoom
  <2> QED BY <2>2, <2>3, ChatChanges DEF TypeInv
<1>6. CASE CountOff(a)
  <2>1. PICK k : k = [chat[a] EXCEPT !.pc = "clear"]
    OBVIOUS
  <2>2. chat' = [chat EXCEPT ![a] = k]
    BY <1>0, <1>6, <2>1 DEF CountOff, ChatState, TypeInv
  <2>3. chat[a].j \in Seats /\ CountAfter(a) \in Int
    BY <1>0, <1>6 DEF CountOff, Doing, Quitting, CountAfter, ChatState
  <2>4. K(k)
    <3>1. k \in ChatState /\ k.j = chat[a].j
      BY <1>0, <2>1, <2>3 DEF ChatState, Chatting, Quitting
    <3> QED BY <2>3, <3>1
  <2>5. PICK n \in Int : n = CountAfter(a)
    BY <2>3
  <2>6. mem' = [mem EXCEPT ![a] = [mem[a] EXCEPT !.count = n]]
    BY <1>6, <2>5 DEF CountOff, TypeInv
  <2>7. [mem[a] EXCEPT !.count = n] \in Room
    BY <1>0 DEF Room
  <2>8. mem' \in [Cells -> Room]
    BY <2>6, <2>7 DEF TypeInv
  <2>9. past' \subseteq Events /\ UNCHANGED <<clientVars, listVars, thr, status>>
    BY <1>6 DEF CountOff, TypeInv, Events
  <2> QED BY <2>2, <2>4, <2>8, <2>9, ChatChanges DEF TypeInv
<1>2. CASE LeaveSeat(a)
  <2>1. PICK k : k = [chat[a] EXCEPT !.pc = "left"]
    OBVIOUS
  <2>2. chat' = [chat EXCEPT ![a] = k]
    BY <1>0, <1>2, <2>1 DEF LeaveSeat, ChatState, TypeInv
  <2>3. chat[a].j \in Seats
    BY <1>0, <1>2 DEF LeaveSeat, Doing, Quitting
  <2>4. K(k)
    <3>1. k \in ChatState /\ k.j = chat[a].j
      BY <1>0, <2>1, <2>3 DEF ChatState, Chatting, Quitting
    <3> QED BY <2>3, <3>1
  <2>5. mem' = [mem EXCEPT ![a] = Cleared(mem[a], chat[a].j)]
    BY <1>2 DEF LeaveSeat, Cleared
  <2>6. Cleared(mem[a], chat[a].j) \in Room
    BY <1>0, <2>3, ClearedRoom
  <2>7. UNCHANGED <<clientVars, listVars, thr, status, past>>
    BY <1>2 DEF LeaveSeat
  <2>8. mem' \in [Cells -> Room]
    BY <2>5, <2>6 DEF TypeInv
  <2> QED BY <2>2, <2>4, <2>7, <2>8, ChatChanges DEF TypeInv
<1>3. CASE AfterLeaving(a)
  <2>1. CASE Dies({})
    BY <2>1, DiesType
  <2>2. CASE ~Dies({})
    <3> DEFINE new == IF NeedsHost(a) /\ NewHost(a) # -1 THEN Moved(a, NewHost(a)) ELSE mem[a]
    <3>1. /\ mem' = [mem EXCEPT ![a] = new] /\ chat' = [chat EXCEPT ![a] = ChatAfter(a)]
          /\ UNCHANGED <<clientVars, listVars, thr, status, past>> /\ chat[a].pc = "left"
      BY <1>3, <2>2 DEF AfterLeaving, ChatAfter, Doing
    <3>2. new \in Room
      BY <1>0, NewHostIs, MovedRoom
    <3>3. K(ChatAfter(a))
      BY <3>1, ChatAfterIs DEF Quitting
    <3>4. mem' \in [Cells -> Room]
      BY <3>1, <3>2 DEF TypeInv
    <3> QED BY <3>1, <3>3, <3>4, ChatChanges DEF TypeInv
  <2> QED BY <2>1, <2>2
<1>4. CASE DeleteRoom(a)
  <2>1. PICK k : k = [NoChat EXCEPT !.pc = "uncount", !.n = roomNum]
    OBVIOUS
  <2>2. chat' = [chat EXCEPT ![a] = k] /\ mem' = [mem EXCEPT ![a] = Blank]
    BY <1>4, <2>1 DEF DeleteRoom
  <2>3. K(k)
    <3>1. \A k0 \in ChatState, n \in Int :
            LET new == [k0 EXCEPT !.pc = "uncount", !.n = n] IN new \in ChatState /\ new.pc = "uncount"
      BY DEF ChatState
    <3>2. k \in ChatState /\ k.pc = "uncount"
      BY <2>1, <3>1, StatesAre DEF TypeInv
    <3> QED BY <3>2 DEF Quitting
  <2>4. roomList' \in [Entries -> Cells \cup {0}] /\ used' \subseteq Cells /\ past' \subseteq Events
    BY <1>4 DEF DeleteRoom, TypeInv, Events
  <2>5. mem' \in [Cells -> Room]
    BY <2>2, StatesAre DEF TypeInv
  <2>6. UNCHANGED <<clientVars, roomNum, roomIDGenerate, thr, status>>
    BY <1>4 DEF DeleteRoom
  <2> QED BY <2>2, <2>3, <2>4, <2>5, <2>6, ChatChanges DEF TypeInv
<1>5. CASE UncountRoom(a)
  <2>1. K(NoChat)
    BY StatesAre DEF Quitting
  <2>2. chat' = [chat EXCEPT ![a] = NoChat] /\ past' \subseteq Events /\ roomNum' \in Int
    BY <1>0, <1>5 DEF UncountRoom, TypeInv, Events, ChatState
  <2>3. UNCHANGED <<clientVars, roomList, roomIDGenerate, used, mem, thr, status>>
    BY <1>5 DEF UncountRoom
  <2> QED BY <2>1, <2>2, <2>3, ChatChanges DEF TypeInv
<1> QED BY <1>1, <1>2, <1>3, <1>4, <1>5, <1>6 DEF Leaves

LEMMA BackToChatIs ==
    ASSUME TypeInv, NEW a \in Cells, BackToChat(a)
    PROVE  \E R \in [Seats -> {0, 1}] :
              /\ mem' = [mem EXCEPT ![a] = [mem[a] EXCEPT !.ready = R]]
              /\ [mem[a] EXCEPT !.ready = R] \in Room
<1> DEFINE R == [j \in Seats |-> IF j \in SeatsOf(a) THEN 0 ELSE mem[a].ready[j]]
<1>1. R \in [Seats -> {0, 1}] /\ mem[a] \in Room
  BY DEF TypeInv, Room
<1>2. mem' = [mem EXCEPT ![a] = [mem[a] EXCEPT !.ready = R]]
  BY DEF BackToChat, TypeInv
<1> HIDE DEF R
<1>3. [mem[a] EXCEPT !.ready = R] \in Room
  BY <1>1 DEF Room
<1> QED BY <1>1, <1>2, <1>3

LEMMA TypeGame ==
    ASSUME TypeInv, NEW a \in Cells,
           StartGame(a) \/ EndGame(a) \/ BreakGame(a) \/ BreakSeat(a) \/ BreakOff(a)
    PROVE  TypeInv'
<1> DEFINE K(k) == k \in ChatState /\ (k.pc \in Quitting => k.j \in Seats)
<1>0. chat[a] \in ChatState
  BY DEF TypeInv
<1>1. CASE StartGame(a)
  <2>1. CASE Dies({})
    BY <2>1, DiesType
  <2>2. CASE ~Dies({})
    <3>1. PICK k : k = [chat[a] EXCEPT !.pc = "play"]
      OBVIOUS
    <3>2. chat' = [chat EXCEPT ![a] = k] /\ UNCHANGED <<clientVars, listVars, mem, thr, status, past>>
      BY <1>1, <2>2, <3>1 DEF StartGame, TypeInv
    <3>3. K(k)
      BY <1>0, <3>1 DEF ChatState, Chatting, Quitting
    <3> QED BY <3>2, <3>3, ChatChanges DEF TypeInv
  <2> QED BY <2>1, <2>2
<1>2. CASE BackToChat(a)
  <2>1. PICK k : k = [NoChat EXCEPT !.pc = "chat"]
    OBVIOUS
  <2>2. K(k)
    BY <2>1 DEF NoChat, ChatState, Chatting, Quitting
  <2>3. /\ chat' = [chat EXCEPT ![a] = k]
        /\ UNCHANGED <<fd, mail, connects, requests, listVars, thr, status, past>>
    BY <1>2, <2>1 DEF BackToChat
  <2>4. mem' \in [Cells -> Room]
    BY <1>2, BackToChatIs DEF TypeInv
  <2>5. client' \in [Clients -> [at : Places, out : BOOLEAN]]
    <3>1. \E cs : client' = Told(cs, "in")
      BY <1>2 DEF BackToChat
    <3>2. "in" \in Places
      BY DEF Places
    <3> QED BY <3>1, <3>2, ToldType
  <2> QED BY <2>2, <2>3, <2>4, <2>5, ChatChanges DEF TypeInv
<1>3. CASE BreakGame(a)
  <2>1. PICK k : k = [NoChat EXCEPT !.pc = "break"]
    OBVIOUS
  <2>2. K(k)
    BY <2>1 DEF NoChat, ChatState, Chatting, Quitting
  <2>3. chat' = [chat EXCEPT ![a] = k] /\ UNCHANGED <<clientVars, listVars, mem, thr, status, past>>
    BY <1>3, <2>1 DEF BreakGame
  <2> QED BY <2>2, <2>3, ChatChanges DEF TypeInv
<1>4. CASE BreakSeat(a)
  <2>1. chat[a].j \in Seats /\ UNCHANGED <<clientVars, listVars, mem, thr, status>>
    BY <1>4 DEF BreakSeat, SeatsOf
  <2>2. past' \subseteq Events
    BY <1>4 DEF BreakSeat, TypeInv, Events
  <2>3. /\ chat' \in [Cells -> ChatState]
        /\ \A b \in Cells : chat'[b].pc \in Quitting => chat'[b].j \in Seats
    <3>1. CASE Quits(a, chat[a].j, "break")
      BY <2>1, <3>1, QuitsType
    <3>2. CASE ~Quits(a, chat[a].j, "break")
      <4>1. PICK k : k = [chat[a] EXCEPT !.j = chat[a].j + 1]
        OBVIOUS
      <4>2. chat' = [chat EXCEPT ![a] = k] /\ chat[a].pc = "break"
        BY <1>4, <3>2, <4>1 DEF BreakSeat, Doing
      <4>3. chat[a].j + 1 \in 0 .. 3
        BY <2>1 DEF Seats
      <4>4. k \in ChatState /\ k.pc = "break"
        BY <1>0, <4>1, <4>2, <4>3 DEF ChatState
      <4> QED BY <4>2, <4>4, ChatChanges DEF Quitting
    <3> QED BY <3>1, <3>2
  <2> QED BY <2>1, <2>2, <2>3 DEF TypeInv
<1> QED BY <1>1, <1>2, <1>3, <1>4 DEF EndGame, BreakOff

LEMMA TypeNext == TypeInv /\ [Next]_vars => TypeInv'
<1> SUFFICES ASSUME TypeInv, [Next]_vars PROVE TypeInv'
  OBVIOUS
<1>1. CASE UNCHANGED vars
  BY <1>1 DEF TypeInv
<1>2. ASSUME NEW c \in Clients,
             Connect(c) \/ Inherit(c) \/ HangUp(c) \/ Request(c) \/ Choose(c) \/ Type(c)
      PROVE  TypeInv'
  BY <1>2, TypePlayers
<1>3. ASSUME NEW c \in Clients, Serves(c) PROVE TypeInv'
  BY <1>3, TypeMakers, TypeEnterers DEF Serves
<1>4. ASSUME NEW a \in Cells, RunChat(a) \/ PlayGame(a) PROVE TypeInv'
  <2>1. ASSUME NEW j \in Seats, Notice(a, j) PROVE TypeInv'
    BY <2>1, DiesType, QuitsType DEF Notice, TypeInv
  <2>2. ASSUME NEW j \in Seats, Look(a, j) PROVE TypeInv'
    BY <2>2, TypeReads DEF Look
  <2> QED BY <1>4, <2>1, <2>2, TypeReread, TypeReads, TypeLeaves, TypeGame DEF RunChat, PlayGame
<1> QED BY <1>1, <1>2, <1>3, <1>4, TypeElsewhere DEF Next

LEMMA TypeInvariant == Spec => []TypeInv
BY TypeInit, TypeNext, PTL DEF Spec

\* The type invariant: where the players, the threads and the rooms can be.
THEOREM TypeCorrect == Spec => []TypeOK
<1>1. TypeInv => TypeOK
  BY MailIs DEF TypeInv, TypeOK, Places, Room, ChatState, Chatting, Quitting
<1> QED BY <1>1, TypeInvariant, PTL

-----------------------------------------------------------------------------
(***************************************************************************)
(* The list of rooms.  Most steps leave it alone.                          *)
(***************************************************************************)

\* Nothing is listed, numbered, given a size or given back, no thread has got
\* a room, and no room a thread.
Quiet ==
    /\ UNCHANGED listVars
    /\ \A a \in Cells : mem'[a].id = mem[a].id /\ mem'[a].size = mem[a].size
    /\ \A a \in Cells \ used : mem'[a] = mem[a]
    /\ \A a \in Cells : chat'[a] = chat[a] \/ (chat[a].pc \in Chatting /\ chat'[a].pc \in Chatting)
    /\ \A c \in Clients : thr'[c].pc \in Making =>
          /\ thr'[c].a = thr[c].a
          /\ thr'[c].pc = thr[c].pc \/ (thr[c].pc = "made" /\ thr'[c].pc = "start")
    /\ past \subseteq past'
    /\ status' = status \/ (status = "up" /\ status' \in {"crash", "stale"})

\* Nobody has just found a seat.
NoTaker == \A c \in Clients : thr'[c].pc = "take" => thr'[c] = thr[c]

LEMMA QuietList ==
    ASSUME TypeInv, TypeInv', Quiet, ListRight
    PROVE  ListRight'
BY DEF TypeInv, Quiet, ListRight, Never

LEMMA QuietCells ==
    ASSUME TypeInv, TypeInv', Quiet, CellsRight
    PROVE  CellsRight'
<1>1. (\A a \in Cells \ used : mem[a] = Blank)'
  BY DEF Quiet, CellsRight
<1>2. (\A a \in Cells : chat[a].pc \in Chatting => a \in used /\ mem[a].size # 0)'
  BY DEF Quiet, CellsRight
<1>3. (\A a \in Cells : mem[a].size # 0 => mem[a].id # 0)'
  BY DEF Quiet, CellsRight
<1>4. ASSUME NEW c \in Clients, thr'[c].pc \in Making
      PROVE  LET a == thr'[c].a IN
             /\ a \in used' /\ chat'[a] = NoChat
             /\ thr'[c].pc # "number" => mem'[a].id # 0
             /\ mem'[a].size = 0 <=> thr'[c].pc \in {"number", "fill"}
  <2>1. thr[c].pc \in Making /\ thr'[c].a = thr[c].a /\ thr[c].a \in Cells
    BY <1>4 DEF Quiet, Making, TypeInv
  <2>2. /\ thr[c].a \in used /\ chat[thr[c].a] = NoChat
        /\ thr[c].pc # "number" => mem[thr[c].a].id # 0
        /\ mem[thr[c].a].size = 0 <=> thr[c].pc \in {"number", "fill"}
    BY <2>1 DEF CellsRight
  <2>3. chat'[thr[c].a] = NoChat
    BY <2>1, <2>2, StatesAre DEF Quiet, Chatting, Quitting
  <2>4. /\ thr'[c].pc = "number" <=> thr[c].pc = "number"
        /\ thr'[c].pc \in {"number", "fill"} <=> thr[c].pc \in {"number", "fill"}
    BY <1>4 DEF Quiet
  <2> QED BY <2>1, <2>2, <2>3, <2>4 DEF Quiet
<1>5. (\A c, d \in Clients :
          c # d /\ thr[c].pc \in Making /\ thr[d].pc \in Making => thr[c].a # thr[d].a)'
  <2>1. \A c \in Clients : thr'[c].pc \in Making => thr[c].pc \in Making /\ thr'[c].a = thr[c].a
    BY DEF Quiet, Making
  <2> QED BY <2>1 DEF CellsRight
<1> QED BY <1>1, <1>2, <1>3, <1>4, <1>5 DEF CellsRight

LEMMA QuietNumbers ==
    ASSUME TypeInv, TypeInv', Quiet, NumbersRight, ListIsRight
    PROVE  NumbersRight' /\ ListIsRight'
<1>1. (\A a \in Cells : mem[a].id <= roomIDGenerate)' /\ (used # {} => roomIDGenerate >= 1)'
  BY DEF Quiet, NumbersRight
<1>2. (status # "clash" =>
          \A a, b \in used : a # b /\ mem[a].id = mem[b].id => mem[a].id = 0)'
  BY DEF Quiet, NumbersRight, TypeInv
<1>3. \A c \in Clients : thr'[c].pc = "number" => thr[c].pc = "number"
  BY DEF Quiet, Making
<1>4. Never({"makers"})' => Never({"makers"})
  BY DEF Quiet, Never
<1>5. (Never({"makers"}) =>
          /\ \A c, d \in Clients : thr[c].pc = "number" /\ thr[d].pc = "number" => c = d
          /\ (\E c \in Clients : thr[c].pc = "number") =>
                \A a \in used : mem[a].id < roomIDGenerate)'
  BY <1>3, <1>4 DEF Quiet, NumbersRight, TypeInv
<1>6. Uncounting' = Uncounting
  BY DEF Quiet, Chatting, Quitting, Uncounting
<1>7. Holes' = Holes
  BY DEF Quiet, Holes
<1>8. Never({"num", "full"})' => Never({"num", "full"})
  BY DEF Quiet, Never
<1>9. RoomNumRight'
  BY <1>6, <1>7, <1>8 DEF RoomNumRight, ListIsRight, Quiet, Uncounting
<1>10. DistinctNumbers'
  BY DEF Quiet, DistinctNumbers, ListIsRight
<1>11. IsFiniteSet(Uncounting)'
  BY <1>6 DEF NumbersRight
<1> QED BY <1>1, <1>2, <1>5, <1>9, <1>10, <1>11 DEF NumbersRight, ListIsRight

LEMMA QuietTakers ==
    ASSUME TypeInv, TypeInv', Quiet, NoTaker, TakersRight
    PROVE  TakersRight'
<1> SUFFICES ASSUME NEW c \in Clients, thr'[c].pc = "take"
             PROVE  LET a == roomList'[thr'[c].i] IN
                    /\ thr'[c].a \in 1 .. roomIDGenerate'
                    /\ a # 0 /\ mem'[a].id = thr'[c].a => thr'[c].j < mem'[a].size
                    /\ a # 0 /\ (\E d \in Clients : thr'[d].pc = "number" /\ thr'[d].a = a) =>
                          thr'[c].a < roomIDGenerate'
  BY DEF TakersRight
<1> DEFINE a == roomList[thr[c].i]
<1>1. thr'[c] = thr[c] /\ thr[c].pc = "take" /\ thr[c].i \in Entries /\ a \in Cells \cup {0}
  BY DEF NoTaker, Entering, TypeInv
<1>2. /\ thr[c].a \in 1 .. roomIDGenerate
      /\ a # 0 /\ mem[a].id = thr[c].a => thr[c].j < mem[a].size
      /\ a # 0 /\ (\E d \in Clients : thr[d].pc = "number" /\ thr[d].a = a) =>
            thr[c].a < roomIDGenerate
  BY <1>1 DEF TakersRight
<1>3. roomList' = roomList /\ roomIDGenerate' = roomIDGenerate
  BY DEF Quiet
<1>4. a # 0 => mem'[a].id = mem[a].id /\ mem'[a].size = mem[a].size
  BY <1>1 DEF Quiet
<1>5. \A d \in Clients : thr'[d].pc = "number" => thr[d].pc = "number" /\ thr'[d].a = thr[d].a
  BY DEF Quiet, Making
<1> QED BY <1>1, <1>2, <1>3, <1>4, <1>5

\* A thread that makes no room goes on, or one that has made its room.
LEMMA QuietThread ==
    ASSUME TypeInv, NEW c \in Clients, NEW t, thr' = [thr EXCEPT ![c] = t],
           t.pc \notin Making \/ (thr[c].pc = "made" /\ t.pc = "start" /\ t.a = thr[c].a)
    PROVE  /\ \A d \in Clients : thr'[d].pc \in Making =>
                /\ thr'[d].a = thr[d].a
                /\ thr'[d].pc = thr[d].pc \/ (thr[d].pc = "made" /\ thr'[d].pc = "start")
           /\ t.pc # "take" => NoTaker
BY DEF TypeInv, Making, NoTaker

\* Nobody's thread goes on.
LEMMA QuietThreads ==
    ASSUME thr' = thr
    PROVE  /\ \A d \in Clients : thr'[d].pc \in Making =>
                /\ thr'[d].a = thr[d].a
                /\ thr'[d].pc = thr[d].pc \/ (thr[d].pc = "made" /\ thr'[d].pc = "start")
           /\ NoTaker
BY DEF NoTaker

LEMMA QuietDies ==
    ASSUME NEW why, Dies(why), On
    PROVE  Quiet /\ NoTaker /\ UNCHANGED <<clientVars, listVars, mem, chat, thr>>
BY DEF Dies, On, Quiet, NoTaker

LEMMA QuietPlayers ==
    ASSUME TypeInv, NEW c \in Clients,
           Connect(c) \/ Inherit(c) \/ HangUp(c) \/ Request(c) \/ Choose(c) \/ Type(c)
    PROVE  Quiet /\ NoTaker /\ UNCHANGED <<listVars, mem, chat>>
<1>1. CASE Connect(c)
  BY <1>1 DEF Connect, Quiet, NoTaker
<1>2. CASE HangUp(c)
  BY <1>2 DEF HangUp, Quiet, NoTaker
<1>6. CASE Inherit(c)
  BY <1>6 DEF Inherit, On, Quiet, NoTaker
<1>3. CASE Request(c)
  <2>1. PICK pc \in {"name", "ask"} : thr' = [thr EXCEPT ![c].pc = pc]
    BY <1>3 DEF Request
  <2>2. PICK t : t = [thr[c] EXCEPT !.pc = pc]
    OBVIOUS
  <2>3. thr' = [thr EXCEPT ![c] = t] /\ t.pc = pc
    BY <2>1, <2>2 DEF TypeInv, ThreadState
  <2>4. UNCHANGED <<listVars, mem, chat, status, past>>
    BY <1>3 DEF Request
  <2> QED BY <2>3, <2>4, QuietThread DEF Quiet, Making
<1>4. CASE Choose(c)
  BY <1>4 DEF Choose, Quiet, NoTaker
<1>5. CASE Type(c)
  BY <1>5 DEF Type, Quiet, NoTaker
<1> QED BY <1>1, <1>2, <1>3, <1>4, <1>5, <1>6

LEMMA QuietElsewhere ==
    ASSUME ReadElsewhere
    PROVE  Quiet /\ NoTaker /\ UNCHANGED <<listVars, mem, chat>>
BY DEF ReadElsewhere, Quiet, NoTaker

LEMMA QuietServes ==
    ASSUME TypeInv, ListRight, NEW c \in Clients,
           \/ TestRoom(c) \/ TellMade(c) \/ AskRooms(c) \/ ListRoom(c) \/ ShowRoom(c) \/ FindSeat(c)
           \/ TakeSeat(c) \/ TellEntered(c) \/ Welcome(c)
    PROVE  Quiet /\ (~FindSeat(c) => NoTaker)
<1>n. NoThread.pc \notin Making /\ NoThread.pc # "take"
  BY StatesAre DEF Making
<1>t. \A pc : LET t == [thr[c] EXCEPT !.pc = pc] IN t.pc = pc /\ t.a = thr[c].a
  BY DEF TypeInv, ThreadState
<1>1. CASE TestRoom(c)
  <2>1. PICK t : t = [thr[c] EXCEPT !.pc = IF roomNum < MAX_ROOM THEN "insert" ELSE "none"]
    OBVIOUS
  <2>2. thr' = [thr EXCEPT ![c] = t] /\ UNCHANGED <<listVars, mem, chat, status, past>>
    BY <1>1, <2>1 DEF TestRoom, TypeInv
  <2>3. t.pc \notin Making /\ t.pc # "take"
    BY <1>t, <2>1 DEF Making
  <2> QED BY <2>2, <2>3, QuietThread DEF Quiet
<1>2. CASE TellMade(c)
  <2>1. CASE Dies({})
    BY <1>2, <2>1, QuietDies DEF TellMade, At
  <2>2. CASE ~Dies({})
    <3>1. PICK t : t = IF Gone(c) THEN NoThread ELSE [thr[c] EXCEPT !.pc = "start"]
      OBVIOUS
    <3>2. thr' = [thr EXCEPT ![c] = t] /\ thr[c].pc = "made" /\ UNCHANGED <<listVars, mem, chat, status, past>>
      BY <1>2, <2>2, <3>1 DEF TellMade, At
    <3>3. t.pc # "take" /\ (t.pc \notin Making \/ (t.pc = "start" /\ t.a = thr[c].a))
      BY <1>n, <1>t, <3>1
    <3> QED BY <3>2, <3>3, QuietThread DEF Quiet
  <2> QED BY <2>1, <2>2
<1>3. CASE AskRooms(c)
  <2>1. PICK t : t = IF roomNum = 0 THEN NoThread ELSE [thr[c] EXCEPT !.pc = "list"]
    OBVIOUS
  <2>2. thr' = [thr EXCEPT ![c] = t] /\ UNCHANGED <<listVars, mem, chat, status, past>>
    BY <1>3, <2>1 DEF AskRooms, TypeInv
  <2>3. t.pc \notin Making /\ t.pc # "take"
    BY <1>n, <1>t, <2>1 DEF Making
  <2> QED BY <2>2, <2>3, QuietThread DEF Quiet
<1>4. CASE ListRoom(c)
  <2> DEFINE next == {i \in Entries \ Holes : i >= thr[c].i}
  <2>1. PICK t : t = IF Gone(c) THEN NoThread
                     ELSE IF next = {} THEN [NoThread EXCEPT !.pc = "getID"]
                     ELSE [thr[c] EXCEPT !.pc = "show", !.i = Min(next)]
    OBVIOUS
  <2>2. thr' = [thr EXCEPT ![c] = t] /\ UNCHANGED <<listVars, mem, chat, status, past>>
    BY <1>4, <2>1 DEF ListRoom
  <2>3. t.pc \in {"none", "getID", "show"}
    BY <2>1, StatesAre DEF NoThread, TypeInv, ThreadState
  <2> QED BY <2>2, <2>3, QuietThread DEF Quiet, Making
<1>5. CASE ShowRoom(c)
  <2>1. CASE Dies({})
    BY <1>5, <2>1, QuietDies DEF ShowRoom, At
  <2>2. CASE ~Dies({})
    <3>1. PICK t : t = [thr[c] EXCEPT !.pc = "list", !.i = thr[c].i + 1]
      OBVIOUS
    <3>2. thr' = [thr EXCEPT ![c] = t] /\ UNCHANGED <<listVars, mem, chat, status, past>>
      BY <1>5, <2>2, <3>1 DEF ShowRoom
    <3>3. t.pc = "list"
      BY <3>1 DEF TypeInv, ThreadState
    <3> QED BY <3>2, <3>3, QuietThread DEF Quiet, Making
  <2> QED BY <2>1, <2>2
<1>6. CASE FindSeat(c)
  <2>1. /\ thr' = thr \/ \E i, j, id : thr' = [thr EXCEPT ![c] = [pc |-> "take", i |-> i, j |-> j, a |-> id]]
        /\ UNCHANGED <<listVars, mem, chat>>
        /\ status' = status \/ (status = "up" /\ status' = "crash")
        /\ past \subseteq past'
    BY <1>6 DEF FindSeat, At, On
  <2>2. \A d \in Clients : thr'[d].pc \in Making =>
                /\ thr'[d].a = thr[d].a
                /\ thr'[d].pc = thr[d].pc \/ (thr[d].pc = "made" /\ thr'[d].pc = "start")
    BY <2>1 DEF TypeInv, Making
  <2> QED BY <1>6, <2>1, <2>2 DEF Quiet
<1>7. CASE TakeSeat(c)
  <2> DEFINE a == roomList[thr[c].i]
             j == thr[c].j
  <2>1. CASE Dies({})
    BY <1>7, <2>1, QuietDies DEF TakeSeat, At
  <2>2. CASE ~Dies({})
    <3>1. thr[c].pc = "take" /\ thr[c].i \in Entries /\ j \in Seats /\ a \in Cells /\ a \in used
      BY <1>7, <2>2 DEF TakeSeat, At, Entering, ThreadState, TypeInv, ListRight
    <3>2. PICK n \in Counts(a) :
              mem' = [mem EXCEPT ![a] = Written(mem[a], j, Account(c), fd[c], n)]
      BY <1>7, <2>2 DEF TakeSeat, Written
    <3>3. n \in Int /\ Account(c) \in Clients \cup {NoOne} /\ fd[c] \in Descriptors \cup {-1} /\ mem[a] \in Room
      BY <3>1 DEF Counts, TypeInv, Room, ChatState, Account
    <3>4. /\ Written(mem[a], j, Account(c), fd[c], n).id = mem[a].id
          /\ Written(mem[a], j, Account(c), fd[c], n).size = mem[a].size
      BY <3>3, WrittenId
    <3>5. /\ \A b \in Cells : mem'[b].id = mem[b].id /\ mem'[b].size = mem[b].size
          /\ \A b \in Cells \ used : mem'[b] = mem[b]
      BY <3>1, <3>2, <3>3, <3>4 DEF TypeInv
    <3>6. PICK t : t = [thr[c] EXCEPT !.pc = "entered"]
      OBVIOUS
    <3>7. /\ thr' = [thr EXCEPT ![c] = t] /\ UNCHANGED <<listVars, chat, status>> /\ past \subseteq past'
      BY <1>7, <2>2, <3>6 DEF TakeSeat, TypeInv
    <3>8. t.pc \notin Making /\ t.pc # "take"
      BY <1>t, <3>6 DEF Making
    <3> QED BY <3>5, <3>7, <3>8, QuietThread DEF Quiet
  <2> QED BY <2>1, <2>2
<1>8. CASE TellEntered(c)
  <2>1. PICK t : t = IF Gone(c) THEN NoThread ELSE [thr[c] EXCEPT !.pc = "welcome"]
    OBVIOUS
  <2>2. thr' = [thr EXCEPT ![c] = t] /\ UNCHANGED <<listVars, mem, chat, status, past>>
    BY <1>8, <2>1 DEF TellEntered
  <2>3. t.pc \notin Making /\ t.pc # "take"
    BY <1>n, <1>t, <2>1 DEF Making
  <2> QED BY <2>2, <2>3, QuietThread DEF Quiet
<1>9. CASE Welcome(c)
  <2>1. CASE thr' = [thr EXCEPT ![c] = NoThread] /\ UNCHANGED <<listVars, mem, chat, status, past>>
    BY <1>n, <2>1, QuietThread DEF Quiet
  <2>2. CASE ~(thr' = [thr EXCEPT ![c] = NoThread] /\ UNCHANGED <<listVars, mem, chat, status, past>>)
    <3>1. On /\ \E why : Dies(why)
      BY <1>9, <2>2 DEF Welcome, At
    <3> QED BY <3>1, QuietDies
  <2> QED BY <2>1, <2>2
<1> QED BY <1>1, <1>2, <1>3, <1>4, <1>5, <1>6, <1>7, <1>8, <1>9

-----------------------------------------------------------------------------
(***************************************************************************)
(* The thread of a room.  But for its end it makes steps of six kinds.     *)
(***************************************************************************)

\* It looks at the seats, or plays.
Stays(a) ==
    /\ {chat[a].pc, chat'[a].pc} \subseteq {"chat", "get", "play", "break"}
    /\ mem'[a].count = mem[a].count
    /\ mem'[a].player = mem[a].player /\ mem'[a].connfd = mem[a].connfd

\* It calls quitRoom for a seat.
Calls(a) ==
    LET k == chat'[a] IN
    /\ mem'[a] = mem[a]
    /\ chat[a].pc \in {"chat", "get", "break"} /\ k.pc = "quit"
    /\ k.j \in SeatsOf(a) /\ (mem[a].connfd[k.j] # -1 \/ mem[a].player[k.j] # NoOne)
    /\ k.j = 0 => k.why \in {"lost", "quit"} \/ "kickSelf" \in past' \/ "hostless" \in past'

\* It reads the counter.
Weighs(a) ==
    LET k == chat'[a] IN
    /\ mem'[a] = mem[a] /\ chat[a].pc = "quit"
    /\ k.j = chat[a].j /\ k.why = chat[a].why /\ k.n = mem[a].count
    /\ k.pc = IF mem[a].count > 1 THEN "leave" ELSE "delete"

\* It writes the counter.
CountsOff(a) ==
    LET k == chat'[a] IN
    /\ chat[a].pc = "leave" /\ k.pc = "clear"
    /\ k.j = chat[a].j /\ k.why = chat[a].why
    /\ mem'[a].count = chat[a].n - 1
    /\ mem'[a].player = mem[a].player /\ mem'[a].connfd = mem[a].connfd
    /\ mem[a].count # chat[a].n => "count" \in past'

\* It empties the seat.
Empties(a) ==
    LET k == chat'[a] IN
    /\ chat[a].pc = "clear" /\ k.pc = "left"
    /\ k.j = chat[a].j /\ k.why = chat[a].why
    /\ mem'[a].count = mem[a].count
    /\ \A i \in Seats :
          /\ mem'[a].player[i] = IF i = chat[a].j THEN NoOne ELSE mem[a].player[i]
          /\ mem'[a].connfd[i] = IF i = chat[a].j THEN -1 ELSE mem[a].connfd[i]

\* It makes another host, or need not, and goes back to the seats.
Moves(a, h) ==
    /\ h \in Taken(a) /\ mem'[a].count = mem[a].count
    /\ \A i \in Seats :
          LET m == mem[a] IN
          /\ mem'[a].player[i] = IF i = h THEN NoOne ELSE IF i = 0 THEN m.player[h] ELSE m.player[i]
          /\ mem'[a].connfd[i] = IF i = h THEN -1 ELSE IF i = 0 THEN m.connfd[h] ELSE m.connfd[i]

Returns(a) ==
    /\ chat[a].pc = "left" /\ chat'[a].pc \in {"chat", "break"}
    /\ NeedsHost(a) => Moves(a, NewHost(a))
    /\ ~NeedsHost(a) => mem'[a] = mem[a]

Elsewhere(a) ==
    /\ \A b \in Cells : b # a => mem'[b] = mem[b] /\ chat'[b] = chat[b]
    /\ mem'[a].id = mem[a].id /\ mem'[a].size = mem[a].size
    /\ UNCHANGED <<fd, connects, requests, listVars, thr, status>> /\ past \subseteq past'

Goes(a) ==
    Elsewhere(a) /\ (Stays(a) \/ Calls(a) \/ Weighs(a) \/ CountsOff(a) \/ Empties(a) \/ Returns(a))

LEMMA CallsQuits ==
    ASSUME TypeInv, NEW a \in Cells, NEW j \in SeatsOf(a),
           NEW why \in {"lost", "quit", "kick", "break"}, Quits(a, j, why), mem' = mem,
           UNCHANGED <<fd, connects, requests, listVars, thr, status>>, past \subseteq past',
           chat[a].pc \in {"chat", "get", "break"},
           mem[a].connfd[j] # -1 \/ mem[a].player[j] # NoOne,
           j = 0 => why \in {"lost", "quit"} \/ "kickSelf" \in past' \/ "hostless" \in past'
    PROVE  Goes(a) /\ chat'[a].why = why /\ chat'[a].j = j
<1>1. PICK k : k = [chat[a] EXCEPT !.pc = "quit", !.why = why, !.j = j]
  OBVIOUS
<1>2. chat' = [chat EXCEPT ![a] = k]
  BY <1>1 DEF Quits
<1>3. k.pc = "quit" /\ k.why = why /\ k.j = j
  BY <1>1 DEF TypeInv, ChatState
<1>4. chat'[a] = k /\ \A b \in Cells : b # a => chat'[b] = chat[b]
  BY <1>2 DEF TypeInv
<1>5. Elsewhere(a)
  BY <1>4 DEF Elsewhere
<1> QED BY <1>3, <1>4, <1>5 DEF Goes, Calls

\* It looks on, and has made nobody ready or one.
LEMMA LooksGo ==
    ASSUME TypeInv, NEW a \in Cells, NEW j \in Seats, LooksOn(a), chat[a].pc = "get",
           mem' \in {mem, [mem EXCEPT ![a].ready[j] = 1]},
           UNCHANGED <<fd, connects, requests, listVars, thr, status>>, past \subseteq past'
    PROVE  Goes(a)
<1>1. /\ mem'[a].id = mem[a].id /\ mem'[a].size = mem[a].size /\ mem'[a].count = mem[a].count
      /\ mem'[a].player = mem[a].player /\ mem'[a].connfd = mem[a].connfd
      /\ \A b \in Cells : b # a => mem'[b] = mem[b]
  BY ReadyRoom
<1>2. chat'[a].pc = "chat" /\ \A b \in Cells : b # a => chat'[b] = chat[b]
  BY LooksOnIs
<1> QED BY <1>1, <1>2 DEF Goes, Elsewhere, Stays

LEMMA ReadsGo ==
    ASSUME TypeInv, NEW a \in Cells, NEW j \in Seats, NEW c \in Clients, Reads(a, j, c)
    PROVE  Goes(a) \/ (On /\ \E why : Dies(why))
<1>1. On /\ chat[a].pc = "get" /\ j \in SeatsOf(a) /\ mem[a].connfd[j] # -1
  BY DEF Reads, ReadChat, ReadReady, ReadQuit, ReadKick, ReadInvite, Gets, Mail, Doing, Gone
<1>2. CASE ReadChat(a, j, c)
  BY <1>1, <1>2, LooksGo DEF ReadChat
<1>3. CASE ReadReady(a, j, c)
  BY <1>1, <1>3, LooksGo DEF ReadReady
<1>4. CASE ReadQuit(a, j, c)
  <2>1. Quits(a, j, "quit") /\ UNCHANGED <<fd, connects, requests, listVars, mem, thr, status, past>>
    BY <1>4 DEF ReadQuit
  <2> QED BY <1>1, <2>1, CallsQuits
<1>5. CASE ReadKick(a, j, c)
  <2> DEFINE h == SeatOf(a, mail[c].arg)
  <2>0. mail[c].what = "kick"
    BY <1>5 DEF ReadKick
  <2>1. CASE h = mem[a].size
    BY <1>1, <1>5, <2>1 DEF ReadKick
  <2>2. CASE h # mem[a].size
    <3>1. /\ past' = past \cup (IF h = 0 THEN {"kickSelf"} ELSE {})
          /\ Quits(a, h, "kick")
          /\ UNCHANGED <<fd, connects, requests, listVars, mem, thr, status>>
      BY <1>5, <2>2 DEF ReadKick
    <3>2. h \in SeatsOf(a) /\ mem[a].player[h] # NoOne
      BY <2>0, <2>2, SeatOfIs, MailIs, Constants
    <3>3. past \subseteq past' /\ (h = 0 => "kickSelf" \in past')
      BY <3>1
    <3> HIDE DEF h
    <3> QED BY <1>1, <3>1, <3>2, <3>3, CallsQuits
  <2> QED BY <2>1, <2>2
<1>6. CASE ReadInvite(a, j, c)
  BY <1>1, <1>6, LooksGo DEF ReadInvite
<1> QED BY <1>2, <1>3, <1>4, <1>5, <1>6 DEF Reads

LEMMA LookGoes ==
    ASSUME TypeInv, NEW a \in Cells, NEW j \in Seats, Look(a, j)
    PROVE  Goes(a)
<1>1. PICK k : k = [NoChat EXCEPT !.pc = "get", !.j = j]
  OBVIOUS
<1>2. k.pc = "get"
  BY <1>1 DEF NoChat
<1>3. /\ chat' = [chat EXCEPT ![a] = k] /\ chat[a].pc = "chat"
      /\ UNCHANGED <<clientVars, listVars, mem, thr, status, past>>
  BY <1>1 DEF Look, Doing
<1> QED BY <1>2, <1>3 DEF Goes, Elsewhere, Stays, TypeInv

LEMMA RereadGoes ==
    ASSUME TypeInv, NEW a \in Cells, Reread(a)
    PROVE  (Goes(a) /\ UNCHANGED clientVars) \/ (On /\ \E why : Dies(why))
<1>1. /\ On /\ chat[a].pc = "get" /\ chat[a].j \in SeatsOf(a) /\ chat[a].j \in Seats
      /\ mem[a].connfd[chat[a].j] # -1
  BY DEF Reread, Doing, Lost, Closed, SeatsOf
<1>2. CASE ~\E why : Dies(why)
  <2>1. PICK l \in Lines \cup {"chat"} :
          /\ mem' = IF l = "ready" THEN [mem EXCEPT ![a].ready[chat[a].j] = 1] ELSE mem
          /\ IF l = "quit" THEN Quits(a, chat[a].j, "quit") ELSE LooksOn(a)
          /\ UNCHANGED <<clientVars, listVars, thr, status, past>>
    BY <1>2 DEF Reread
  <2>2. PICK j \in SeatsOf(a) : j = chat[a].j
    BY <1>1
  <2>3. CASE l = "quit"
    BY <1>1, <2>1, <2>2, <2>3, CallsQuits
  <2>4. CASE l # "quit"
    BY <1>1, <2>1, <2>4, LooksGo
  <2> QED BY <2>1, <2>3, <2>4
<1> QED BY <1>1, <1>2

LEMMA LeavesGo ==
    ASSUME TypeInv, NEW a \in Cells, QuitRoom(a) \/ CountOff(a) \/ LeaveSeat(a) \/ AfterLeaving(a)
    PROVE  Goes(a) \/ (On /\ \E why : Dies(why))
<1>0. chat[a] \in ChatState /\ mem[a] \in Room /\ (chat[a].pc \in Quitting => chat[a].j \in Seats)
  BY DEF TypeInv
<1>1. CASE QuitRoom(a)
  <2>1. PICK k : k = [chat[a] EXCEPT !.n = mem[a].count,
                    !.pc = IF mem[a].count > 1 THEN "leave" ELSE "delete"]
    OBVIOUS
  <2>2. chat' = [chat EXCEPT ![a] = k] /\ chat[a].pc = "quit"
        /\ UNCHANGED <<clientVars, listVars, mem, thr, status, past>>
    BY <1>1, <2>1 DEF QuitRoom, Doing
  <2>3. /\ k.j = chat[a].j /\ k.why = chat[a].why /\ k.n = mem[a].count
        /\ k.pc = IF mem[a].count > 1 THEN "leave" ELSE "delete"
    BY <1>0, <2>1 DEF ChatState
  <2>4. chat'[a] = k /\ \A b \in Cells : b # a => chat'[b] = chat[b]
    BY <2>2 DEF TypeInv
  <2>5. Elsewhere(a)
    BY <2>2, <2>4 DEF Elsewhere
  <2>6. Weighs(a)
    BY <2>2, <2>3, <2>4 DEF Weighs
  <2> QED BY <2>5, <2>6 DEF Goes
<1>4. CASE CountOff(a)
  <2>1. PICK k : k = [chat[a] EXCEPT !.pc = "clear"]
    OBVIOUS
  <2>2. chat' = [chat EXCEPT ![a] = k] /\ chat[a].pc = "leave"
    BY <1>0, <1>4, <2>1 DEF CountOff, ChatState, TypeInv, Doing
  <2>3. k.j = chat[a].j /\ k.why = chat[a].why /\ k.pc = "clear"
    BY <1>0, <2>1 DEF ChatState
  <2>4. PICK m : m = [mem[a] EXCEPT !.count = chat[a].n - 1]
    OBVIOUS
  <2>5. mem' = [mem EXCEPT ![a] = m]
    BY <1>4, <2>4 DEF CountOff, CountAfter, TypeInv
  <2>6. /\ m.id = mem[a].id /\ m.size = mem[a].size /\ m.count = chat[a].n - 1
        /\ m.player = mem[a].player /\ m.connfd = mem[a].connfd
    BY <1>0, <2>4 DEF Room
  <2>7. /\ past' = IF mem[a].count # chat[a].n THEN past \cup {"count"} ELSE past
        /\ UNCHANGED <<clientVars, listVars, thr, status>>
    BY <1>4 DEF CountOff
  <2>8. /\ chat'[a] = k /\ \A b \in Cells : b # a => chat'[b] = chat[b]
        /\ mem'[a] = m /\ \A b \in Cells : b # a => mem'[b] = mem[b]
    BY <2>2, <2>5 DEF TypeInv
  <2>9. Elsewhere(a)
    BY <2>6, <2>7, <2>8 DEF Elsewhere
  <2>10. CountsOff(a)
    BY <2>2, <2>3, <2>6, <2>7, <2>8 DEF CountsOff
  <2> QED BY <2>9, <2>10 DEF Goes
<1>2. CASE LeaveSeat(a)
  <2>1. PICK k : k = [chat[a] EXCEPT !.pc = "left"]
    OBVIOUS
  <2>2. chat' = [chat EXCEPT ![a] = k] /\ chat[a].pc = "clear" /\ chat[a].j \in Seats
    BY <1>0, <1>2, <2>1 DEF LeaveSeat, ChatState, TypeInv, Doing, Quitting
  <2>3. k.j = chat[a].j /\ k.why = chat[a].why /\ k.pc = "left"
    BY <1>0, <2>1 DEF ChatState
  <2>4. PICK m : m = Cleared(mem[a], chat[a].j)
    OBVIOUS
  <2>5. mem' = [mem EXCEPT ![a] = m] /\ UNCHANGED <<clientVars, listVars, thr, status, past>>
    BY <1>2, <2>4 DEF LeaveSeat, Cleared
  <2>6. /\ m.id = mem[a].id /\ m.size = mem[a].size /\ m.count = mem[a].count
        /\ \A i \in Seats : /\ m.player[i] = IF i = chat[a].j THEN NoOne ELSE mem[a].player[i]
                            /\ m.connfd[i] = IF i = chat[a].j THEN -1 ELSE mem[a].connfd[i]
    BY <1>0, <2>2, <2>4, ClearedRoom
  <2>7. /\ chat'[a] = k /\ \A b \in Cells : b # a => chat'[b] = chat[b]
        /\ mem'[a] = m /\ \A b \in Cells : b # a => mem'[b] = mem[b]
    BY <2>2, <2>5 DEF TypeInv
  <2>8. Elsewhere(a)
    BY <2>5, <2>6, <2>7 DEF Elsewhere
  <2>9. Empties(a)
    BY <2>2, <2>3, <2>6, <2>7 DEF Empties
  <2> QED BY <2>8, <2>9 DEF Goes
<1>3. CASE AfterLeaving(a)
  <2>0. On /\ chat[a].pc = "left"
    BY <1>3 DEF AfterLeaving, Doing
  <2>1. CASE Dies({})
    BY <2>0, <2>1
  <2>2. CASE ~Dies({})
    <3> DEFINE new == IF NeedsHost(a) /\ NewHost(a) # -1 THEN Moved(a, NewHost(a)) ELSE mem[a]
    <3>1. /\ mem' = [mem EXCEPT ![a] = new] /\ chat' = [chat EXCEPT ![a] = ChatAfter(a)]
          /\ UNCHANGED <<clientVars, listVars, thr, status, past>>
          /\ NeedsHost(a) => NewHost(a) # -1
      BY <1>3, <2>2 DEF AfterLeaving, ChatAfter
    <3>2. /\ chat'[a] = ChatAfter(a) /\ \A b \in Cells : b # a => chat'[b] = chat[b]
          /\ mem'[a] = new /\ \A b \in Cells : b # a => mem'[b] = mem[b]
      BY <3>1 DEF TypeInv
    <3>3. chat'[a].pc \in {"chat", "break"}
      BY <2>0, <3>2, ChatAfterIs
    <3>4. new.id = mem[a].id /\ new.size = mem[a].size
      BY NewHostIs, MovedRoom
    <3>5. NeedsHost(a) => Moves(a, NewHost(a))
      <4> SUFFICES ASSUME NeedsHost(a) PROVE Moves(a, NewHost(a))
        OBVIOUS
      <4>1. NewHost(a) \in Taken(a) /\ NewHost(a) \in Seats
        BY <3>1, NewHostIs
      <4>2. mem'[a] = Moved(a, NewHost(a))
        BY <3>1, <3>2
      <4> QED BY <4>1, <4>2, MovedRoom, MovedSeats DEF Moves
    <3>6. ~NeedsHost(a) => mem'[a] = mem[a]
      BY <3>2
    <3> HIDE DEF new
    <3>7. Elsewhere(a)
      BY <3>1, <3>2, <3>4 DEF Elsewhere
    <3> QED BY <2>0, <3>3, <3>5, <3>6, <3>7 DEF Goes, Returns
  <2> QED BY <2>1, <2>2
<1> QED BY <1>1, <1>2, <1>3, <1>4

LEMMA GameGoes ==
    ASSUME TypeInv, NEW a \in Cells,
           StartGame(a) \/ EndGame(a) \/ BreakGame(a) \/ BreakSeat(a) \/ BreakOff(a)
    PROVE  Goes(a) \/ (On /\ \E why : Dies(why))
<1>0. chat[a] \in ChatState /\ mem[a] \in Room
  BY DEF TypeInv
<1>c. ASSUME NEW k, chat' = [chat EXCEPT ![a] = k], mem' = mem,
             chat[a].pc \in {"chat", "play", "break"}, k.pc \in {"chat", "play", "break"},
             UNCHANGED <<fd, connects, requests, listVars, thr, status>>, past \subseteq past'
      PROVE  Goes(a)
  BY <1>c DEF Goes, Elsewhere, Stays, TypeInv
<1>1. CASE StartGame(a)
  <2>0. On /\ chat[a].pc = "chat"
    BY <1>1 DEF StartGame, Doing
  <2>1. CASE Dies({})
    BY <2>0, <2>1
  <2>2. CASE ~Dies({})
    <3>1. PICK k : k = [chat[a] EXCEPT !.pc = "play"]
      OBVIOUS
    <3>2. chat' = [chat EXCEPT ![a] = k] /\ UNCHANGED <<clientVars, listVars, mem, thr, status, past>>
      BY <1>1, <2>2, <3>1 DEF StartGame, TypeInv
    <3>3. k.pc = "play"
      BY <1>0, <3>1 DEF ChatState
    <3> QED BY <1>c, <2>0, <3>2, <3>3
  <2> QED BY <2>1, <2>2
<1>2. CASE BackToChat(a) /\ chat[a].pc \in {"play", "break"}
  <2>1. PICK k : k = [NoChat EXCEPT !.pc = "chat"]
    OBVIOUS
  <2>2. k.pc = "chat"
    BY <2>1 DEF NoChat
  <2>3. /\ chat' = [chat EXCEPT ![a] = k]
        /\ UNCHANGED <<fd, mail, connects, requests, listVars, thr, status, past>>
    BY <1>2, <2>1 DEF BackToChat
  <2>4. PICK R \in [Seats -> {0, 1}] : mem' = [mem EXCEPT ![a] = [mem[a] EXCEPT !.ready = R]]
    BY <1>2, BackToChatIs
  <2>5. /\ mem'[a].id = mem[a].id /\ mem'[a].size = mem[a].size /\ mem'[a].count = mem[a].count
        /\ mem'[a].player = mem[a].player /\ mem'[a].connfd = mem[a].connfd
        /\ \A b \in Cells : b # a => mem'[b] = mem[b]
    BY <2>4 DEF TypeInv, Room
  <2>6. chat'[a] = k /\ \A b \in Cells : b # a => chat'[b] = chat[b]
    BY <2>3 DEF TypeInv
  <2> QED BY <1>2, <2>2, <2>3, <2>5, <2>6 DEF Goes, Elsewhere, Stays
<1>3. CASE BreakGame(a)
  <2>1. PICK k : k = [NoChat EXCEPT !.pc = "break"]
    OBVIOUS
  <2>2. k.pc = "break"
    BY <2>1 DEF NoChat
  <2>3. /\ chat' = [chat EXCEPT ![a] = k] /\ chat[a].pc = "play"
        /\ UNCHANGED <<clientVars, listVars, mem, thr, status, past>>
    BY <1>3, <2>1 DEF BreakGame, Doing
  <2> QED BY <1>c, <2>2, <2>3
<1>4. CASE BreakSeat(a)
  <2>0. /\ chat[a].j \in SeatsOf(a) /\ chat[a].pc = "break" /\ past \subseteq past'
        /\ UNCHANGED <<clientVars, listVars, mem, thr, status>>
    BY <1>4 DEF BreakSeat, Doing
  <2>1. CASE Closed(mem[a].connfd[chat[a].j])
    <3>1. Quits(a, chat[a].j, "break") /\ (chat[a].j = 0 => "hostless" \in past')
      BY <1>4, <2>1 DEF BreakSeat
    <3>2. mem[a].connfd[chat[a].j] # -1
      BY <2>1 DEF Closed
    <3>3. PICK j \in SeatsOf(a) : j = chat[a].j
      BY <2>0
    <3> QED BY <2>0, <3>1, <3>2, <3>3, CallsQuits
  <2>2. CASE ~Closed(mem[a].connfd[chat[a].j])
    <3>1. PICK k : k = [chat[a] EXCEPT !.j = chat[a].j + 1]
      OBVIOUS
    <3>2. chat' = [chat EXCEPT ![a] = k]
      BY <1>4, <2>2, <3>1 DEF BreakSeat
    <3>3. k.pc = "break"
      BY <1>0, <2>0, <3>1 DEF ChatState
    <3> QED BY <1>c, <2>0, <3>2, <3>3
  <2> QED BY <2>1, <2>2
<1> QED BY <1>1, <1>2, <1>3, <1>4 DEF EndGame, BreakOff, Doing

\* The whole of the thread, but for the room's deletion
LEMMA ChatGoes ==
    ASSUME TypeInv, NEW a \in Cells, RunChat(a) \/ PlayGame(a), ~DeleteRoom(a), ~UncountRoom(a)
    PROVE  Goes(a) \/ (On /\ \E why : Dies(why))
<1>1. ASSUME NEW j \in Seats, Notice(a, j) PROVE Goes(a) \/ (On /\ \E why : Dies(why))
  <2>1. Dies({}) \/ (Quits(a, j, "lost") /\ UNCHANGED <<clientVars, listVars, mem, thr, status, past>>)
    BY <1>1 DEF Notice
  <2>2. On /\ chat[a].pc = "chat" /\ j \in SeatsOf(a) /\ mem[a].connfd[j] # -1
    BY <1>1 DEF Notice, Doing, Lost, Closed
  <2> QED BY <2>1, <2>2, CallsQuits
<1> QED BY <1>1, LookGoes, RereadGoes, ReadsGo, LeavesGo, GameGoes DEF RunChat, PlayGame, Leaves

-----------------------------------------------------------------------------
LEMMA QuietChat ==
    ASSUME TypeInv, CellsRight, NEW a \in Cells, Goes(a)
    PROVE  Quiet /\ NoTaker
<1>1. chat[a].pc \in Chatting /\ chat'[a].pc \in Chatting
  BY DEF Goes, Stays, Calls, Weighs, CountsOff, Empties, Returns, Chatting, Quitting
<1>2. a \in used
  BY <1>1 DEF CellsRight
<1>3. Elsewhere(a)
  BY DEF Goes
<1> QED BY <1>1, <1>2, <1>3, QuietThreads DEF Elsewhere, Quiet

LEMMA QuietKeeps ==
    ASSUME TypeInv, TypeInv', ListInv, Quiet, NoTaker
    PROVE  ListInv'
BY QuietList, QuietCells, QuietNumbers, QuietTakers DEF ListInv

\* A seat that is found is in a room that has a size, and so a number.
Found(c, a) ==
    /\ a \in Cells /\ mem[a].size # 0 /\ mem[a].id \in 1 .. roomIDGenerate
    /\ mail[c].what = "id" /\ mail' = Read(c)
    /\ thr'[c].pc = "take" /\ roomList[thr'[c].i] = a
    /\ thr'[c].a = mem[a].id /\ thr'[c].j < mem[a].size
    /\ \A d \in Clients : d # c => thr'[d] = thr[d]
    /\ UNCHANGED <<client, fd, listVars, mem, chat, status, past>>

LEMMA FoundIs ==
    ASSUME TypeInv, ListInv, NEW c \in Clients, FindSeat(c), thr' # thr
    PROVE  \E a \in Cells : Found(c, a)
<1> DEFINE id == IF mail[c].what = "id" THEN mail[c].arg ELSE 0
           a == roomList[Min(Having(id))]
           free == SeatsOf(a) \ Taken(a)
<1>1. /\ Having(id) # {} /\ free # {}
      /\ thr' = [thr EXCEPT ![c] = [pc |-> "take", i |-> Min(Having(id)), j |-> Min(free), a |-> id]]
      /\ mail' = Read(c)
      /\ UNCHANGED <<client, fd, listVars, mem, chat, status, past>>
  BY DEF FindSeat
<1>2. a \in Cells /\ mem[a].id = id
  BY <1>1, HavingIs
<1>3. free \subseteq Nat
  BY Constants DEF SeatsOf
<1>4. Min(free) \in SeatsOf(a)
  BY <1>1, <1>3, MinIsLowest
<1>5. PICK h \in Seats : h = Min(free) /\ h < mem[a].size
  BY <1>4 DEF SeatsOf
<1>6. mem[a].size # 0 /\ mem[a].id # 0 /\ mem[a].id \in 1 .. roomIDGenerate
  <2>1. mem[a].size # 0
    BY <1>5 DEF Seats
  <2>2. mem[a].id # 0 /\ mem[a].id <= roomIDGenerate
    BY <1>2, <2>1 DEF ListInv, CellsRight, NumbersRight
  <2>3. mem[a].id \in 0 .. MaxID /\ roomIDGenerate \in 0 .. MaxID
    BY <1>2 DEF TypeInv, Room
  <2> QED BY <2>1, <2>2, <2>3
<1>7. mail[c].what = "id"
  BY <1>2, <1>6
<1>8. PICK t : t = [pc |-> "take", i |-> Min(Having(id)), j |-> Min(free), a |-> id]
  OBVIOUS
<1> HIDE DEF id, free
<1>9. /\ t.pc = "take" /\ t.i = Min(Having(id)) /\ t.j = h /\ t.a = id
      /\ thr' = [thr EXCEPT ![c] = t]
  BY <1>1, <1>5, <1>8
<1>10. thr'[c] = t /\ \A d \in Clients : d # c => thr'[d] = thr[d]
  BY <1>9 DEF TypeInv
<1> QED BY <1>1, <1>2, <1>5, <1>6, <1>7, <1>9, <1>10 DEF Found

LEMMA FoundTakers ==
    ASSUME TypeInv, TypeInv', ListInv, NEW c \in Clients, FindSeat(c), Quiet
    PROVE  ListInv'
<1>1. CASE thr' = thr
  <2>1. NoTaker
    BY <1>1 DEF NoTaker
  <2> QED BY <2>1, QuietKeeps
<1>2. CASE thr' # thr
  <2>1. PICK a \in Cells : Found(c, a)
    BY <1>2, FoundIs
  <2>2. ~ \E d \in Clients : thr[d].pc = "number" /\ thr[d].a = a
    BY <2>1 DEF Found, ListInv, CellsRight, Making
  <2>11. TakersRight'
    <3> SUFFICES ASSUME NEW d \in Clients, thr'[d].pc = "take"
                 PROVE  LET b == roomList'[thr'[d].i] IN
                        /\ thr'[d].a \in 1 .. roomIDGenerate'
                        /\ b # 0 /\ mem'[b].id = thr'[d].a => thr'[d].j < mem'[b].size
                        /\ b # 0 /\ (\E e \in Clients : thr'[e].pc = "number" /\ thr'[e].a = b) =>
                              thr'[d].a < roomIDGenerate'
      BY DEF TakersRight
    <3>1. \A e \in Clients : thr'[e].pc = "number" => thr[e].pc = "number" /\ thr'[e].a = thr[e].a
      BY <2>1 DEF Found
    <3>2. UNCHANGED <<roomList, roomIDGenerate, mem>>
      BY <2>1 DEF Found
    <3>3. CASE d = c
      BY <2>1, <2>2, <3>1, <3>2, <3>3 DEF Found
    <3>4. CASE d # c
      <4>1. thr'[d] = thr[d] /\ thr[d].pc = "take"
        BY <2>1, <3>4 DEF Found
      <4> QED BY <3>1, <3>2, <4>1 DEF ListInv, TakersRight
    <3> QED BY <3>3, <3>4
  <2> QED BY <2>11, QuietList, QuietCells, QuietNumbers DEF ListInv
<1> QED BY <1>1, <1>2

LEMMA InsertKeeps ==
    ASSUME TypeInv, TypeInv', ListInv, NEW c \in Clients, InsertRoom(c)
    PROVE  ListInv'
<1> DEFINE free == {b \in Cells \ used : chat[b] = NoChat}
<1>1. PICK a, t : /\ a = Min(free) /\ t = [NoThread EXCEPT !.pc = "number", !.a = a]
  OBVIOUS
<1>2. /\ used' = used \cup {a} /\ free # {}
      /\ roomList' = IF Holes = {} THEN roomList ELSE [roomList EXCEPT ![FreeEntry] = a]
      /\ thr' = [thr EXCEPT ![c] = t]
      /\ past' = past \cup (IF Holes = {} THEN {"full"} ELSE {})
                      \cup (IF \E d \in Clients : thr[d].pc = "number" THEN {"makers"} ELSE {})
      /\ roomNum' = roomNum + 1 /\ roomIDGenerate' = roomIDGenerate + 1
      /\ UNCHANGED <<clientVars, mem, chat, status>>
  BY <1>1 DEF InsertRoom
<1>3. a \in Cells /\ a \notin used /\ chat[a] = NoChat /\ mem[a] = Blank /\ a # 0
  <2>1. free \subseteq Nat
    BY Constants
  <2>2. a \in free
    BY <1>1, <1>2, <2>1, MinIsLowest
  <2> QED BY <2>2, Constants DEF ListInv, CellsRight
<1> HIDE DEF free
<1>4. t.pc = "number" /\ t.a = a
  BY <1>1 DEF NoThread
<1>5. thr'[c] = t /\ \A d \in Clients : d # c => thr'[d] = thr[d]
  BY <1>2 DEF TypeInv
<1>6. Holes # {} => /\ FreeEntry \in Entries /\ roomList[FreeEntry] = 0
                    /\ \A h \in Holes : FreeEntry <= h
  <2>1. Holes \subseteq Nat
    BY Constants DEF Holes
  <2> QED BY <2>1, MinIsLowest DEF FreeEntry, Holes
<1>7. PICK f : f = FreeEntry
  OBVIOUS
<1>8. \A i \in Entries : roomList'[i] = IF Holes # {} /\ i = f THEN a ELSE roomList[i]
  BY <1>2, <1>6, <1>7 DEF TypeInv
<1>9. ListRight'
  <2>1. (\A i, k \in Entries : roomList[i] # 0 /\ roomList[i] = roomList[k] => i = k)'
    BY <1>3, <1>8 DEF ListInv, ListRight
  <2>2. (\A i \in Entries : roomList[i] # 0 => roomList[i] \in used)'
    BY <1>2, <1>8 DEF ListInv, ListRight
  <2>3. (Never({"full"}) => \A b \in used : \E i \in Entries : roomList[i] = b)'
    <3> SUFFICES ASSUME Never({"full"})', NEW b \in used'
                 PROVE  \E i \in Entries : roomList'[i] = b
      OBVIOUS
    <3>1. Holes # {} /\ Never({"full"})
      BY <1>2 DEF Never
    <3>2. CASE b = a
      BY <1>6, <1>7, <1>8, <3>1, <3>2
    <3>3. CASE b # a
      <4>1. b \in used
        BY <1>2, <3>3
      <4>2. PICK i \in Entries : roomList[i] = b
        BY <3>1, <4>1 DEF ListInv, ListRight
      <4>3. b # 0
        BY <4>1, Constants DEF TypeInv
      <4>4. roomList'[i] = b
        BY <1>6, <1>7, <1>8, <3>1, <4>2, <4>3
      <4> QED BY <4>4
    <3> QED BY <3>2, <3>3
  <2>4. (Never({"deleted"}) => \A i, k \in Entries : i < k /\ roomList[i] = 0 => roomList[k] = 0)'
    <3> SUFFICES ASSUME Never({"deleted"})', NEW i \in Entries, NEW k \in Entries, i < k, roomList'[i] = 0
                 PROVE  roomList'[k] = 0
      OBVIOUS
    <3>1. Never({"deleted"}) /\ roomList[i] = 0 /\ i \in Holes /\ i # f
      BY <1>2, <1>3, <1>8 DEF Never, Holes
    <3>2. f <= i /\ f \in Entries
      BY <1>6, <1>7, <3>1
    <3>3. k # f
      BY <3>2, Constants
    <3>4. roomList[k] = 0
      BY <3>1 DEF ListInv, ListRight
    <3> QED BY <1>8, <3>3, <3>4
  <2> QED BY <2>1, <2>2, <2>3, <2>4 DEF ListRight
<1>10. CellsRight'
  <2>1. (\A b \in Cells \ used : mem[b] = Blank)'
    BY <1>2 DEF ListInv, CellsRight
  <2>2. (\A b \in Cells : chat[b].pc \in Chatting => b \in used /\ mem[b].size # 0)'
    BY <1>2 DEF ListInv, CellsRight
  <2>3. (\A b \in Cells : mem[b].size # 0 => mem[b].id # 0)'
    BY <1>2 DEF ListInv, CellsRight
  <2>4. ASSUME NEW d \in Clients, thr'[d].pc \in Making
        PROVE  LET b == thr'[d].a IN
               /\ b \in used' /\ chat'[b] = NoChat
               /\ thr'[d].pc # "number" => mem'[b].id # 0
               /\ mem'[b].size = 0 <=> thr'[d].pc \in {"number", "fill"}
    <3>1. CASE d = c
      BY <1>2, <1>3, <1>4, <1>5, <3>1, StatesAre
    <3>2. CASE d # c
      BY <1>2, <1>5, <2>4, <3>2 DEF ListInv, CellsRight
    <3> QED BY <3>1, <3>2
  <2>5. (\A d, e \in Clients :
            d # e /\ thr[d].pc \in Making /\ thr[e].pc \in Making => thr[d].a # thr[e].a)'
    <3>1. \A d \in Clients : d # c /\ thr[d].pc \in Making => thr[d].a # a
      BY <1>3 DEF ListInv, CellsRight
    <3> QED BY <1>4, <1>5, <3>1 DEF ListInv, CellsRight
  <2> QED BY <2>1, <2>2, <2>3, <2>4, <2>5 DEF CellsRight
<1>11. NumbersRight'
  <2>0. roomIDGenerate \in Nat /\ \A b \in Cells : mem[b].id \in Nat
    BY DEF TypeInv, Room
  <2>1. IsFiniteSet(Uncounting)'
    BY <1>2 DEF Uncounting, ListInv, NumbersRight
  <2>2. (\A b \in Cells : mem[b].id <= roomIDGenerate)' /\ (used # {} => roomIDGenerate >= 1)'
    BY <1>2, <2>0 DEF ListInv, NumbersRight
  <2>3. (status # "clash" =>
            \A b, d \in used : b # d /\ mem[b].id = mem[d].id => mem[b].id = 0)'
    BY <1>2, <1>3, StatesAre DEF ListInv, NumbersRight
  <2>4. (Never({"makers"}) =>
            /\ \A d, e \in Clients : thr[d].pc = "number" /\ thr[e].pc = "number" => d = e
            /\ (\E d \in Clients : thr[d].pc = "number") =>
                  \A b \in used : mem[b].id < roomIDGenerate)'
    <3> SUFFICES ASSUME Never({"makers"})'
                 PROVE  /\ \A d, e \in Clients : thr'[d].pc = "number" /\ thr'[e].pc = "number" => d = e
                        /\ \A b \in used' : mem'[b].id < roomIDGenerate'
      OBVIOUS
    <3>1. ~ \E d \in Clients : thr[d].pc = "number"
      BY <1>2 DEF Never
    <3>2. \A d \in Clients : thr'[d].pc = "number" => d = c
      BY <1>5, <3>1
    <3>3. used' \subseteq Cells
      BY DEF TypeInv
    <3>4. \A b \in Cells : mem[b].id < roomIDGenerate + 1
      BY <2>0 DEF ListInv, NumbersRight
    <3> QED BY <1>2, <3>2, <3>3, <3>4
  <2> QED BY <2>1, <2>2, <2>3, <2>4 DEF NumbersRight
<1>12. TakersRight'
  <2> SUFFICES ASSUME NEW d \in Clients, thr'[d].pc = "take"
               PROVE  LET b == roomList'[thr'[d].i] IN
                      /\ thr'[d].a \in 1 .. roomIDGenerate'
                      /\ b # 0 /\ mem'[b].id = thr'[d].a => thr'[d].j < mem'[b].size
                      /\ b # 0 /\ (\E e \in Clients : thr'[e].pc = "number" /\ thr'[e].a = b) =>
                            thr'[d].a < roomIDGenerate'
    BY DEF TakersRight
  <2>1. thr'[d] = thr[d] /\ thr[d].pc = "take" /\ d # c
    BY <1>4, <1>5
  <2>2. thr[d].a \in 1 .. roomIDGenerate /\ roomIDGenerate \in Nat
    BY <2>1 DEF ListInv, TakersRight, TypeInv
  <2>3. thr[d].a \in 1 .. (roomIDGenerate + 1) /\ thr[d].a < roomIDGenerate + 1 /\ thr[d].a # 0
    BY <2>2
  <2>4. thr[d].i \in Entries
    BY <2>1 DEF TypeInv, Entering
  <2>5. ASSUME roomList'[thr[d].i] # 0, mem[roomList'[thr[d].i]].id = thr[d].a
        PROVE  thr[d].j < mem[roomList'[thr[d].i]].size
    <3>1. roomList'[thr[d].i] # a
      BY <1>3, <2>3, <2>5, StatesAre
    <3>2. roomList'[thr[d].i] = roomList[thr[d].i]
      BY <1>8, <2>4, <3>1
    <3> QED BY <2>1, <2>5, <3>2 DEF ListInv, TakersRight
  <2> QED BY <1>2, <2>1, <2>3, <2>5
<1>13. ListIsRight'
  <2>1. RoomNumRight'
    <3> SUFFICES ASSUME Never({"num", "full"})'
                 PROVE  roomNum' = Cardinality(Entries \ Holes') + Cardinality(Uncounting')
      BY DEF RoomNumRight, Uncounting
    <3>1. Holes # {} /\ Never({"num", "full"})
      BY <1>2 DEF Never
    <3>2. Entries \ Holes' = (Entries \ Holes) \cup {f} /\ f \notin Entries \ Holes
      BY <1>3, <1>6, <1>7, <1>8, <3>1 DEF Holes
    <3>3. IsFiniteSet(Entries \ Holes)
      BY Constants, FS_Subset
    <3>4. Cardinality(Entries \ Holes') = Cardinality(Entries \ Holes) + 1
      BY <3>2, <3>3, FS_AddElement
    <3>5. Uncounting' = Uncounting
      BY <1>2 DEF Uncounting
    <3>6. roomNum = Cardinality(Entries \ Holes) + Cardinality(Uncounting)
      BY <3>1 DEF ListInv, ListIsRight, RoomNumRight, Uncounting
    <3>7. Cardinality(Entries \ Holes) \in Nat /\ Cardinality(Uncounting) \in Nat
      BY <3>3, FS_CardinalityType DEF ListInv, NumbersRight
    <3> QED BY <1>2, <3>4, <3>5, <3>6, <3>7
  <2>2. DistinctNumbers'
    BY <1>2 DEF ListInv, ListIsRight, DistinctNumbers
  <2> QED BY <2>1, <2>2 DEF ListIsRight
<1> QED BY <1>9, <1>10, <1>11, <1>12, <1>13 DEF ListInv

\* The number of a room is no other's, unless two were making rooms.
LEMMA NumberKeeps ==
    ASSUME TypeInv, TypeInv', ListInv, NEW c \in Clients, NumberRoom(c)
    PROVE  ListInv'
<1>1. PICK a, t : a = thr[c].a /\ t = [thr[c] EXCEPT !.pc = "fill"]
  OBVIOUS
<1>2. /\ mem' = [mem EXCEPT ![a].id = roomIDGenerate]
      /\ status' = IF \E b \in used \ {a} : mem[b].id = roomIDGenerate THEN "clash" ELSE status
      /\ thr' = [thr EXCEPT ![c] = t] /\ thr[c].pc = "number" /\ status = "up"
      /\ UNCHANGED <<clientVars, listVars, chat, past>>
  BY <1>1 DEF NumberRoom, At, On, TypeInv
<1>3. a \in used /\ a \in Cells /\ chat[a] = NoChat /\ mem[a].size = 0
  BY <1>1, <1>2 DEF ListInv, CellsRight, Making, TypeInv
<1>4. t.pc = "fill" /\ t.a = a
  BY <1>1 DEF TypeInv, ThreadState
<1>5. thr'[c] = t /\ \A d \in Clients : d # c => thr'[d] = thr[d]
  BY <1>2 DEF TypeInv
<1>6. roomIDGenerate \in Nat /\ roomIDGenerate >= 1 /\ \A b \in Cells : mem[b].id \in Nat
  BY <1>3 DEF TypeInv, Room, ListInv, NumbersRight
<1>7. \A b \in Cells : /\ mem'[b].id = IF b = a THEN roomIDGenerate ELSE mem[b].id
                       /\ mem'[b].size = mem[b].size
                       /\ b # a => mem'[b] = mem[b]
  BY <1>2 DEF TypeInv, Room
<1>8. ListRight'
  BY <1>2 DEF ListInv, ListRight, Never
<1>9. CellsRight'
  <2>1. (\A b \in Cells \ used : mem[b] = Blank)'
    BY <1>2, <1>3, <1>7 DEF ListInv, CellsRight
  <2>2. (\A b \in Cells : chat[b].pc \in Chatting => b \in used /\ mem[b].size # 0)'
    BY <1>2, <1>7 DEF ListInv, CellsRight
  <2>3. (\A b \in Cells : mem[b].size # 0 => mem[b].id # 0)'
    BY <1>6, <1>7 DEF ListInv, CellsRight
  <2>4. ASSUME NEW d \in Clients, thr'[d].pc \in Making
        PROVE  LET b == thr'[d].a IN
               /\ b \in used' /\ chat'[b] = NoChat
               /\ thr'[d].pc # "number" => mem'[b].id # 0
               /\ mem'[b].size = 0 <=> thr'[d].pc \in {"number", "fill"}
    <3>1. CASE d = c
      BY <1>2, <1>3, <1>4, <1>5, <1>6, <1>7, <3>1
    <3>2. CASE d # c
      <4>1. thr[d].pc \in Making /\ thr[d].a \in Cells /\ thr'[d] = thr[d]
        BY <1>5, <2>4, <3>2 DEF TypeInv
      <4>2. thr[d].a # a
        BY <1>1, <1>2, <3>2, <4>1 DEF ListInv, CellsRight, Making
      <4> QED BY <1>2, <1>7, <4>1, <4>2 DEF ListInv, CellsRight
    <3> QED BY <3>1, <3>2
  <2>5. (\A d, e \in Clients :
            d # e /\ thr[d].pc \in Making /\ thr[e].pc \in Making => thr[d].a # thr[e].a)'
    <3>1. \A d \in Clients : thr'[d].pc \in Making => thr[d].pc \in Making /\ thr'[d].a = thr[d].a
      BY <1>1, <1>2, <1>4, <1>5 DEF Making
    <3> QED BY <3>1 DEF ListInv, CellsRight
  <2> QED BY <2>1, <2>2, <2>3, <2>4, <2>5 DEF CellsRight
<1>10. NumbersRight'
  <2>1. IsFiniteSet(Uncounting)'
    BY <1>2 DEF Uncounting, ListInv, NumbersRight
  <2>2. (\A b \in Cells : mem[b].id <= roomIDGenerate)' /\ (used # {} => roomIDGenerate >= 1)'
    BY <1>2, <1>6, <1>7 DEF ListInv, NumbersRight
  <2>3. (status # "clash" =>
            \A b, d \in used : b # d /\ mem[b].id = mem[d].id => mem[b].id = 0)'
    <3> SUFFICES ASSUME status' # "clash", NEW b \in used, NEW d \in used, b # d, mem'[b].id = mem'[d].id
                 PROVE  mem'[b].id = 0
      BY <1>2
    <3>1. b \in Cells /\ d \in Cells
      BY DEF TypeInv
    <3>2. \A e \in used \ {a} : mem[e].id # roomIDGenerate
      BY <1>2
    <3> QED BY <1>2, <1>7, <3>1, <3>2 DEF ListInv, NumbersRight
  <2>4. (Never({"makers"}) =>
            /\ \A d, e \in Clients : thr[d].pc = "number" /\ thr[e].pc = "number" => d = e
            /\ (\E d \in Clients : thr[d].pc = "number") =>
                  \A b \in used : mem[b].id < roomIDGenerate)'
    <3> SUFFICES ASSUME Never({"makers"})'
                 PROVE  \A d \in Clients : thr'[d].pc # "number"
      OBVIOUS
    <3>1. \A d \in Clients : thr[d].pc = "number" => d = c
      BY <1>2 DEF Never, ListInv, NumbersRight
    <3> QED BY <1>4, <1>5, <3>1
  <2> QED BY <2>1, <2>2, <2>3, <2>4 DEF NumbersRight
<1>11. TakersRight'
  <2> SUFFICES ASSUME NEW d \in Clients, thr'[d].pc = "take"
               PROVE  LET b == roomList'[thr'[d].i] IN
                      /\ thr'[d].a \in 1 .. roomIDGenerate'
                      /\ b # 0 /\ mem'[b].id = thr'[d].a => thr'[d].j < mem'[b].size
                      /\ b # 0 /\ (\E e \in Clients : thr'[e].pc = "number" /\ thr'[e].a = b) =>
                            thr'[d].a < roomIDGenerate'
    BY DEF TakersRight
  <2> DEFINE b == roomList[thr[d].i]
  <2>1. thr'[d] = thr[d] /\ thr[d].pc = "take" /\ d # c /\ thr[d].i \in Entries
    BY <1>4, <1>5 DEF TypeInv, Entering
  <2>2. b \in Cells \cup {0}
    BY <2>1 DEF TypeInv
  <2>3. /\ thr[d].a \in 1 .. roomIDGenerate
        /\ b # 0 /\ mem[b].id = thr[d].a => thr[d].j < mem[b].size
        /\ b # 0 /\ (\E e \in Clients : thr[e].pc = "number" /\ thr[e].a = b) =>
              thr[d].a < roomIDGenerate
    BY <2>1 DEF ListInv, TakersRight
  <2>4. b = a => b # 0 /\ thr[d].a < roomIDGenerate
    BY <1>1, <1>2, <1>3, <2>3, Constants
  <2>5. \A e \in Clients : thr'[e].pc = "number" => thr[e].pc = "number" /\ thr'[e].a = thr[e].a
    BY <1>4, <1>5
  <2> HIDE DEF b
  <2>6. b # 0 /\ mem'[b].id = thr[d].a => thr[d].j < mem'[b].size
    <3>1. CASE b = a
      BY <1>3, <1>6, <1>7, <2>3, <2>4, <3>1
    <3>2. CASE b # a
      BY <1>7, <2>2, <2>3, <3>2
    <3> QED BY <3>1, <3>2
  <2> QED BY <1>2, <2>1, <2>3, <2>5, <2>6 DEF b
<1>12. ListIsRight'
  <2>1. RoomNumRight'
    BY <1>2 DEF RoomNumRight, ListInv, ListIsRight, Never, Holes
  <2>2. DistinctNumbers'
    <3> SUFFICES ASSUME Never({"makers"}) PROVE status' # "clash"
      BY <1>2 DEF DistinctNumbers, Never
    <3>1. \A b \in used : mem[b].id < roomIDGenerate
      BY <1>2 DEF ListInv, NumbersRight
    <3>2. \A b \in used : mem[b].id # roomIDGenerate
      BY <1>6, <3>1 DEF TypeInv
    <3> QED BY <1>2, <3>2
  <2> QED BY <2>1, <2>2 DEF ListIsRight
<1> QED BY <1>8, <1>9, <1>10, <1>11, <1>12 DEF ListInv

LEMMA FillKeeps ==
    ASSUME TypeInv, TypeInv', ListInv, NEW c \in Clients, FillRoom(c)
    PROVE  ListInv'
<1>1. PICK a, t : a = thr[c].a /\ t = [thr[c] EXCEPT !.pc = "made"]
  OBVIOUS
<1>2. /\ thr' = [thr EXCEPT ![c] = t] /\ thr[c].pc = "fill" /\ past \subseteq past'
      /\ past' \cap {"num", "full", "makers", "deleted"} = past \cap {"num", "full", "makers", "deleted"}
      /\ UNCHANGED <<clientVars, listVars, chat, status>>
  BY <1>1 DEF FillRoom, At, TypeInv
<1>3. a \in used /\ a \in Cells /\ chat[a] = NoChat /\ mem[a].size = 0 /\ mem[a].id # 0
  BY <1>1, <1>2 DEF ListInv, CellsRight, Making, TypeInv
<1>4. t.pc = "made" /\ t.a = a
  BY <1>1 DEF TypeInv, ThreadState
<1>5. thr'[c] = t /\ \A d \in Clients : d # c => thr'[d] = thr[d]
  BY <1>2 DEF TypeInv
<1>6. \A b \in Cells : b # a => mem'[b] = mem[b]
  BY <1>1, <1>3 DEF FillRoom, TypeInv
<1>7. mem'[a].id = mem[a].id /\ mem'[a].size # 0
  <2>1. PICK size \in Sizes :
             mem' = [mem EXCEPT ![a] = [mem[a] EXCEPT
                         !.size = size, !.count = 1, !.player[0] = Account(c), !.connfd[0] = fd[c]]]
    BY <1>1 DEF FillRoom
  <2>2. mem'[a].id = mem[a].id /\ mem'[a].size = size
    BY <1>3, <2>1 DEF TypeInv, Room
  <2>3. size # 0
    BY Constants
  <2> QED BY <2>2, <2>3
<1>8. ListRight'
  BY <1>2 DEF ListInv, ListRight, Never
<1>9. CellsRight'
  <2>1. (\A b \in Cells \ used : mem[b] = Blank)'
    BY <1>2, <1>3, <1>6 DEF ListInv, CellsRight
  <2>2. (\A b \in Cells : chat[b].pc \in Chatting => b \in used /\ mem[b].size # 0)'
    BY <1>2, <1>6, <1>7 DEF ListInv, CellsRight
  <2>3. (\A b \in Cells : mem[b].size # 0 => mem[b].id # 0)'
    BY <1>3, <1>6, <1>7 DEF ListInv, CellsRight
  <2>4. ASSUME NEW d \in Clients, thr'[d].pc \in Making
        PROVE  LET b == thr'[d].a IN
               /\ b \in used' /\ chat'[b] = NoChat
               /\ thr'[d].pc # "number" => mem'[b].id # 0
               /\ mem'[b].size = 0 <=> thr'[d].pc \in {"number", "fill"}
    <3>1. CASE d = c
      BY <1>2, <1>3, <1>4, <1>5, <1>7, <3>1
    <3>2. CASE d # c
      <4>1. thr[d].pc \in Making /\ thr[d].a \in Cells /\ thr'[d] = thr[d]
        BY <1>5, <2>4, <3>2 DEF TypeInv
      <4>2. thr[d].a # a
        BY <1>1, <1>2, <3>2, <4>1 DEF ListInv, CellsRight, Making
      <4> QED BY <1>2, <1>6, <4>1, <4>2 DEF ListInv, CellsRight
    <3> QED BY <3>1, <3>2
  <2>5. (\A d, e \in Clients :
            d # e /\ thr[d].pc \in Making /\ thr[e].pc \in Making => thr[d].a # thr[e].a)'
    <3>1. \A d \in Clients : thr'[d].pc \in Making => thr[d].pc \in Making /\ thr'[d].a = thr[d].a
      BY <1>1, <1>2, <1>4, <1>5 DEF Making
    <3> QED BY <3>1 DEF ListInv, CellsRight
  <2> QED BY <2>1, <2>2, <2>3, <2>4, <2>5 DEF CellsRight
<1>n. \A d \in Clients : thr'[d].pc = "number" => thr[d].pc = "number" /\ thr'[d] = thr[d]
  BY <1>4, <1>5
<1>i. \A b \in Cells : mem'[b].id = mem[b].id
  BY <1>6, <1>7
<1>10. NumbersRight'
  <2>1. IsFiniteSet(Uncounting)'
    BY <1>2 DEF Uncounting, ListInv, NumbersRight
  <2>2. (\A b \in Cells : mem[b].id <= roomIDGenerate)' /\ (used # {} => roomIDGenerate >= 1)'
    BY <1>2, <1>i DEF ListInv, NumbersRight
  <2>3. (status # "clash" =>
            \A b, d \in used : b # d /\ mem[b].id = mem[d].id => mem[b].id = 0)'
    BY <1>2, <1>i DEF ListInv, NumbersRight, TypeInv
  <2>4. (Never({"makers"}) =>
            /\ \A d, e \in Clients : thr[d].pc = "number" /\ thr[e].pc = "number" => d = e
            /\ (\E d \in Clients : thr[d].pc = "number") =>
                  \A b \in used : mem[b].id < roomIDGenerate)'
    BY <1>2, <1>i, <1>n DEF ListInv, NumbersRight, TypeInv, Never
  <2> QED BY <2>1, <2>2, <2>3, <2>4 DEF NumbersRight
<1>11. TakersRight'
  <2> SUFFICES ASSUME NEW d \in Clients, thr'[d].pc = "take"
               PROVE  LET b == roomList'[thr'[d].i] IN
                      /\ thr'[d].a \in 1 .. roomIDGenerate'
                      /\ b # 0 /\ mem'[b].id = thr'[d].a => thr'[d].j < mem'[b].size
                      /\ b # 0 /\ (\E e \in Clients : thr'[e].pc = "number" /\ thr'[e].a = b) =>
                            thr'[d].a < roomIDGenerate'
    BY DEF TakersRight
  <2> DEFINE b == roomList[thr[d].i]
  <2>1. /\ thr'[d] = thr[d] /\ thr[d].pc = "take" /\ thr[d].i \in Entries
        /\ thr[d] \in ThreadState
    BY <1>4, <1>5 DEF TypeInv, Entering
  <2>2. b \in Cells \cup {0} /\ thr[d].j \in Seats
    BY <2>1 DEF TypeInv, ThreadState
  <2>3. /\ thr[d].a \in 1 .. roomIDGenerate
        /\ b # 0 /\ mem[b].id = thr[d].a => thr[d].j < mem[b].size
        /\ b # 0 /\ (\E e \in Clients : thr[e].pc = "number" /\ thr[e].a = b) =>
              thr[d].a < roomIDGenerate
    BY <2>1 DEF ListInv, TakersRight
  <2> HIDE DEF b
  <2>4. b = a => mem[b].id # thr[d].a
    BY <1>3, <2>2, <2>3, Constants DEF Seats
  <2>5. b # 0 /\ mem'[b].id = thr[d].a => thr[d].j < mem'[b].size
    <3>1. CASE b = a
      BY <1>7, <2>4, <3>1
    <3>2. CASE b # a
      BY <1>6, <2>2, <2>3, <3>2
    <3> QED BY <3>1, <3>2
  <2> QED BY <1>2, <1>n, <2>1, <2>3, <2>5 DEF b
<1>12. ListIsRight'
  <2>1. RoomNumRight'
    BY <1>2 DEF RoomNumRight, ListInv, ListIsRight, Never, Holes
  <2>2. DistinctNumbers'
    BY <1>2 DEF DistinctNumbers, ListInv, ListIsRight
  <2> QED BY <2>1, <2>2 DEF ListIsRight
<1> QED BY <1>8, <1>9, <1>10, <1>11, <1>12 DEF ListInv

LEMMA StartKeeps ==
    ASSUME TypeInv, TypeInv', ListInv, NEW c \in Clients, StartChat(c)
    PROVE  ListInv'
<1>1. CASE Dies({})
  BY <1>1, QuietDies, QuietKeeps DEF StartChat, At
<1>2. CASE ~Dies({})
  <2>1. PICK a, k : a = thr[c].a /\ k = [chat[a] EXCEPT !.pc = "chat"]
    OBVIOUS
  <2>2. /\ chat' = [chat EXCEPT ![a] = k] /\ thr' = [thr EXCEPT ![c] = NoThread]
        /\ thr[c].pc = "start"
        /\ UNCHANGED <<clientVars, listVars, mem, status, past>>
    BY <1>2, <2>1 DEF StartChat, At, TypeInv
  <2>3. a \in used /\ a \in Cells /\ chat[a] = NoChat /\ mem[a].size # 0
    BY <2>1, <2>2 DEF ListInv, CellsRight, Making, TypeInv
  <2>4. k.pc = "chat"
    BY <2>1 DEF TypeInv, ChatState
  <2>5. /\ chat'[a] = k /\ \A b \in Cells : b # a => chat'[b] = chat[b]
        /\ thr'[c] = NoThread /\ \A d \in Clients : d # c => thr'[d] = thr[d]
    BY <2>2, <2>3 DEF TypeInv
  <2>6. ListRight'
    BY <2>2 DEF ListInv, ListRight, Never
  <2>7. CellsRight'
    <3>1. (\A b \in Cells \ used : mem[b] = Blank)'
      BY <2>2 DEF ListInv, CellsRight
    <3>2. (\A b \in Cells : chat[b].pc \in Chatting => b \in used /\ mem[b].size # 0)'
      BY <2>2, <2>3, <2>5 DEF ListInv, CellsRight
    <3>3. (\A b \in Cells : mem[b].size # 0 => mem[b].id # 0)'
      BY <2>2 DEF ListInv, CellsRight
    <3>4. \A d \in Clients : thr'[d].pc \in Making => d # c /\ thr'[d] = thr[d] /\ thr[d].a # a
      BY <2>1, <2>2, <2>5, StatesAre DEF ListInv, CellsRight, Making
    <3>5. ASSUME NEW d \in Clients, thr'[d].pc \in Making
          PROVE  LET b == thr'[d].a IN
                 /\ b \in used' /\ chat'[b] = NoChat
                 /\ thr'[d].pc # "number" => mem'[b].id # 0
                 /\ mem'[b].size = 0 <=> thr'[d].pc \in {"number", "fill"}
      BY <2>2, <2>5, <3>4, <3>5 DEF ListInv, CellsRight, TypeInv
    <3>6. (\A d, e \in Clients :
              d # e /\ thr[d].pc \in Making /\ thr[e].pc \in Making => thr[d].a # thr[e].a)'
      BY <3>4 DEF ListInv, CellsRight
    <3> QED BY <3>1, <3>2, <3>3, <3>5, <3>6 DEF CellsRight
  <2>8. \A d \in Clients : thr'[d].pc \in {"number", "take"} => thr'[d] = thr[d]
    BY <2>5, StatesAre
  <2>9. Uncounting' = Uncounting
    BY <2>3, <2>4, <2>5, StatesAre DEF Uncounting
  <2>10. NumbersRight'
    <3>1. IsFiniteSet(Uncounting)'
      BY <2>9 DEF ListInv, NumbersRight
    <3>2. (\A b \in Cells : mem[b].id <= roomIDGenerate)' /\ (used # {} => roomIDGenerate >= 1)'
      BY <2>2 DEF ListInv, NumbersRight
    <3>3. (status # "clash" =>
              \A b, d \in used : b # d /\ mem[b].id = mem[d].id => mem[b].id = 0)'
      BY <2>2 DEF ListInv, NumbersRight
    <3>4. (Never({"makers"}) =>
              /\ \A d, e \in Clients : thr[d].pc = "number" /\ thr[e].pc = "number" => d = e
              /\ (\E d \in Clients : thr[d].pc = "number") =>
                    \A b \in used : mem[b].id < roomIDGenerate)'
      BY <2>2, <2>8 DEF ListInv, NumbersRight, Never
    <3> QED BY <3>1, <3>2, <3>3, <3>4 DEF NumbersRight
  <2>11. TakersRight'
    BY <2>2, <2>8 DEF TakersRight, ListInv
  <2>12. ListIsRight'
    <3>1. RoomNumRight'
      BY <2>2, <2>9 DEF RoomNumRight, ListInv, ListIsRight, Never, Holes, Uncounting
    <3>2. DistinctNumbers'
      BY <2>2 DEF DistinctNumbers, ListInv, ListIsRight
    <3> QED BY <3>1, <3>2 DEF ListIsRight
  <2> QED BY <2>6, <2>7, <2>10, <2>11, <2>12 DEF ListInv
<1> QED BY <1>1, <1>2

\* deleteRoom takes its own room out of the list, and no other.
LEMMA DeleteKeeps ==
    ASSUME TypeInv, TypeInv', ListInv, NEW a \in Cells, DeleteRoom(a)
    PROVE  /\ ListInv'
           /\ \A i \in Entries : roomList'[i] = IF roomList[i] = a THEN 0 ELSE roomList[i]
<1>1. PICK k : k = [NoChat EXCEPT !.pc = "uncount", !.n = roomNum]
  OBVIOUS
<1>2. /\ chat' = [chat EXCEPT ![a] = k] /\ mem' = [mem EXCEPT ![a] = Blank]
      /\ roomList' = [i \in Entries |-> IF i \in Having(mem[a].id) THEN 0 ELSE roomList[i]]
      /\ used' = used \ {a} /\ "deleted" \in past' /\ past \subseteq past'
      /\ past' \cap {"num", "full", "makers"} = past \cap {"num", "full", "makers"}
      /\ UNCHANGED <<clientVars, roomNum, roomIDGenerate, thr, status>>
      /\ chat[a].pc = "delete" /\ status = "up"
  BY <1>1 DEF DeleteRoom, Doing, On
<1>3. k.pc = "uncount"
  BY <1>1 DEF NoChat
<1>4. a \in used /\ mem[a].size # 0 /\ mem[a].id # 0
  BY <1>2 DEF ListInv, CellsRight, Chatting, Quitting
<1>5. /\ chat'[a] = k /\ \A b \in Cells : b # a => chat'[b] = chat[b]
      /\ mem'[a] = Blank /\ \A b \in Cells : b # a => mem'[b] = mem[b]
  BY <1>2 DEF TypeInv
<1>6. \A b \in used : mem[b].id = mem[a].id => b = a
  BY <1>2, <1>4 DEF ListInv, NumbersRight
<1>7. \A i \in Entries : i \in Having(mem[a].id) <=> roomList[i] = a
  BY <1>4, <1>6, Constants DEF Having, ListInv, ListRight
<1>8. \A i \in Entries : roomList'[i] = IF roomList[i] = a THEN 0 ELSE roomList[i]
  BY <1>2, <1>7
<1>9. ListRight'
  <2>1. (\A i, j \in Entries : roomList[i] # 0 /\ roomList[i] = roomList[j] => i = j)'
    BY <1>8 DEF ListInv, ListRight
  <2>2. (\A i \in Entries : roomList[i] # 0 => roomList[i] \in used)'
    BY <1>2, <1>8 DEF ListInv, ListRight
  <2>3. (Never({"full"}) => \A b \in used : \E i \in Entries : roomList[i] = b)'
    <3>1. Never({"full"})' => Never({"full"})
      BY <1>2 DEF Never
    <3>2. \A b \in used, i \in Entries : b # a /\ roomList[i] = b => roomList'[i] = b
      BY <1>8
    <3> QED BY <1>2, <3>1, <3>2 DEF ListInv, ListRight
  <2>4. ~Never({"deleted"})'
    BY <1>2 DEF Never
  <2> QED BY <2>1, <2>2, <2>3, <2>4 DEF ListRight
<1>10. \A d \in Clients : thr[d].pc \in Making => thr[d].a # a
  BY <1>2, StatesAre DEF ListInv, CellsRight
<1>11. CellsRight'
  <2>1. (\A b \in Cells \ used : mem[b] = Blank)'
    BY <1>2, <1>5 DEF ListInv, CellsRight
  <2>2. (\A b \in Cells : chat[b].pc \in Chatting => b \in used /\ mem[b].size # 0)'
    BY <1>2, <1>3, <1>5 DEF ListInv, CellsRight, Chatting, Quitting
  <2>3. (\A b \in Cells : mem[b].size # 0 => mem[b].id # 0)'
    BY <1>5, StatesAre DEF ListInv, CellsRight
  <2>4. ASSUME NEW d \in Clients, thr'[d].pc \in Making
        PROVE  LET b == thr'[d].a IN
               /\ b \in used' /\ chat'[b] = NoChat
               /\ thr'[d].pc # "number" => mem'[b].id # 0
               /\ mem'[b].size = 0 <=> thr'[d].pc \in {"number", "fill"}
    BY <1>2, <1>5, <1>10, <2>4 DEF ListInv, CellsRight, TypeInv
  <2>5. (\A d, e \in Clients :
            d # e /\ thr[d].pc \in Making /\ thr[e].pc \in Making => thr[d].a # thr[e].a)'
    BY <1>2 DEF ListInv, CellsRight
  <2> QED BY <2>1, <2>2, <2>3, <2>4, <2>5 DEF CellsRight
<1>12. Uncounting' = Uncounting \cup {a} /\ a \notin Uncounting
  BY <1>2, <1>3, <1>5 DEF Uncounting
<1>13. NumbersRight'
  <2>1. IsFiniteSet(Uncounting)'
    BY <1>12, FS_AddElement DEF ListInv, NumbersRight
  <2>2. (\A b \in Cells : mem[b].id <= roomIDGenerate)' /\ (used # {} => roomIDGenerate >= 1)'
    BY <1>2, <1>5, StatesAre DEF ListInv, NumbersRight, TypeInv
  <2>3. (status # "clash" =>
            \A b, d \in used : b # d /\ mem[b].id = mem[d].id => mem[b].id = 0)'
    BY <1>2, <1>5 DEF ListInv, NumbersRight, TypeInv
  <2>4. (Never({"makers"}) =>
            /\ \A d, e \in Clients : thr[d].pc = "number" /\ thr[e].pc = "number" => d = e
            /\ (\E d \in Clients : thr[d].pc = "number") =>
                  \A b \in used : mem[b].id < roomIDGenerate)'
    <3>1. Never({"makers"})' => Never({"makers"})
      BY <1>2 DEF Never
    <3> QED BY <1>2, <1>5, <3>1 DEF ListInv, NumbersRight, TypeInv
  <2> QED BY <2>1, <2>2, <2>3, <2>4 DEF NumbersRight
<1>14. TakersRight'
  <2> SUFFICES ASSUME NEW d \in Clients, thr[d].pc = "take"
               PROVE  LET b == roomList'[thr[d].i] IN
                      /\ thr[d].a \in 1 .. roomIDGenerate
                      /\ b # 0 /\ mem'[b].id = thr[d].a => thr[d].j < mem'[b].size
                      /\ b # 0 /\ (\E e \in Clients : thr[e].pc = "number" /\ thr[e].a = b) =>
                            thr[d].a < roomIDGenerate
    BY <1>2 DEF TakersRight
  <2>1. thr[d].i \in Entries /\ roomList[thr[d].i] \in Cells \cup {0}
    BY DEF TypeInv, Entering
  <2>2. roomList'[thr[d].i] # 0 => /\ roomList'[thr[d].i] = roomList[thr[d].i]
                                   /\ roomList[thr[d].i] # a
    BY <1>8, <2>1
  <2> QED BY <1>5, <2>1, <2>2 DEF ListInv, TakersRight
<1>15. ListIsRight'
  <2>1. RoomNumRight'
    <3> SUFFICES ASSUME Never({"num", "full"})'
                 PROVE  roomNum' = Cardinality(Entries \ Holes') + Cardinality(Uncounting')
      BY DEF RoomNumRight, Uncounting
    <3>1. Never({"num", "full"}) /\ Never({"full"})
      BY <1>2 DEF Never
    <3>2. PICK f \in Entries : roomList[f] = a
      BY <1>4, <3>1 DEF ListInv, ListRight
    <3>3. \A i \in Entries : roomList[i] = a => i = f
      BY <3>2, Constants DEF ListInv, ListRight
    <3>4. Entries \ Holes' = (Entries \ Holes) \ {f} /\ f \in Entries \ Holes
      BY <1>8, <3>2, <3>3, Constants DEF Holes
    <3>5. IsFiniteSet(Entries \ Holes)
      BY Constants, FS_Subset
    <3>6. Cardinality(Entries \ Holes') = Cardinality(Entries \ Holes) - 1
      BY <3>4, <3>5, FS_RemoveElement
    <3>7. Cardinality(Uncounting') = Cardinality(Uncounting) + 1
      BY <1>12, FS_AddElement DEF ListInv, NumbersRight
    <3>8. roomNum = Cardinality(Entries \ Holes) + Cardinality(Uncounting)
      BY <3>1 DEF ListInv, ListIsRight, RoomNumRight, Uncounting
    <3>9. Cardinality(Entries \ Holes) \in Nat /\ Cardinality(Uncounting) \in Nat
      BY <3>5, FS_CardinalityType DEF ListInv, NumbersRight
    <3> QED BY <1>2, <3>6, <3>7, <3>8, <3>9
  <2>2. DistinctNumbers'
    BY <1>2 DEF ListInv, ListIsRight, DistinctNumbers
  <2> QED BY <2>1, <2>2 DEF ListIsRight
<1> QED BY <1>8, <1>9, <1>11, <1>13, <1>14, <1>15 DEF ListInv

LEMMA UncountKeeps ==
    ASSUME TypeInv, TypeInv', ListInv, NEW a \in Cells, UncountRoom(a)
    PROVE  ListInv'
<1>1. /\ roomNum' = chat[a].n - 1 /\ chat[a].pc = "uncount"
      /\ past' = IF roomNum # chat[a].n THEN past \cup {"num"} ELSE past
      /\ chat' = [chat EXCEPT ![a] = NoChat]
      /\ UNCHANGED <<clientVars, roomList, roomIDGenerate, used, mem, thr, status>>
  BY DEF UncountRoom, Doing
<1>2. chat'[a] = NoChat /\ \A b \in Cells : b # a => chat'[b] = chat[b]
  BY <1>1 DEF TypeInv
<1>3. ListRight'
  BY <1>1 DEF ListInv, ListRight, Never
<1>4. CellsRight'
  <2>1. \A b \in Cells : chat'[b].pc \in Chatting => chat[b].pc \in Chatting
    BY <1>2, StatesAre DEF Chatting, Quitting
  <2>2. \A b \in Cells : chat[b] = NoChat => chat'[b] = NoChat
    BY <1>2
  <2> QED BY <1>1, <2>1, <2>2 DEF ListInv, CellsRight, TypeInv
<1>5. Uncounting' = Uncounting \ {a} /\ a \in Uncounting
  BY <1>1, <1>2, StatesAre DEF Uncounting
<1>6. NumbersRight'
  <2>1. IsFiniteSet(Uncounting)'
    BY <1>5, FS_RemoveElement DEF ListInv, NumbersRight
  <2>2. Never({"makers"})' => Never({"makers"})
    BY <1>1 DEF Never
  <2> QED BY <1>1, <2>1, <2>2 DEF ListInv, NumbersRight
<1>7. TakersRight'
  BY <1>1 DEF ListInv, TakersRight
<1>8. ListIsRight'
  <2>1. RoomNumRight'
    <3> SUFFICES ASSUME Never({"num", "full"})'
                 PROVE  roomNum' = Cardinality(Entries \ Holes') + Cardinality(Uncounting')
      BY DEF RoomNumRight, Uncounting
    <3>1. Never({"num", "full"}) /\ roomNum = chat[a].n
      BY <1>1 DEF Never
    <3>2. Cardinality(Uncounting') = Cardinality(Uncounting) - 1
      BY <1>5, FS_RemoveElement DEF ListInv, NumbersRight
    <3>3. roomNum = Cardinality(Entries \ Holes) + Cardinality(Uncounting)
      BY <3>1 DEF ListInv, ListIsRight, RoomNumRight, Uncounting
    <3>4. IsFiniteSet(Entries \ Holes) /\ Holes' = Holes
      BY <1>1, Constants, FS_Subset DEF Holes
    <3>5. Cardinality(Entries \ Holes) \in Nat /\ Cardinality(Uncounting) \in Nat
      BY <3>4, FS_CardinalityType DEF ListInv, NumbersRight
    <3> QED BY <1>1, <3>1, <3>2, <3>3, <3>4, <3>5
  <2>2. DistinctNumbers'
    BY <1>1 DEF ListInv, ListIsRight, DistinctNumbers
  <2> QED BY <2>1, <2>2 DEF ListIsRight
<1> QED BY <1>3, <1>4, <1>6, <1>7, <1>8 DEF ListInv

LEMMA ListInit == Init => ListInv
<1> SUFFICES ASSUME Init PROVE ListInv
  OBVIOUS
<1>1. /\ \A c \in Clients : thr[c] = NoThread
      /\ \A a \in Cells : mem[a] = Blank /\ chat[a] = NoChat
      /\ \A i \in Entries : roomList[i] = 0
      /\ used = {} /\ roomNum = 0 /\ roomIDGenerate = 0 /\ status = "up"
  BY DEF Init
<1>2. ListRight
  BY <1>1 DEF ListRight
<1>3. CellsRight
  BY <1>1, StatesAre DEF CellsRight, Making, Chatting, Quitting
<1>4. Uncounting = {}
  BY <1>1, StatesAre DEF Uncounting
<1>5. NumbersRight
  BY <1>1, <1>4, StatesAre, FS_EmptySet DEF NumbersRight
<1>6. TakersRight
  BY <1>1, StatesAre DEF TakersRight
<1>7. RoomNumRight
  <2>1. Entries \ Holes = {}
    BY <1>1 DEF Holes
  <2>2. Cardinality(Entries \ Holes) = 0 /\ Cardinality(Uncounting) = 0
    BY <1>4, <2>1, FS_EmptySet
  <2> QED BY <1>1, <2>2 DEF RoomNumRight, Uncounting
<1>8. DistinctNumbers
  BY <1>1 DEF DistinctNumbers
<1> QED BY <1>2, <1>3, <1>5, <1>6, <1>7, <1>8 DEF ListInv, ListIsRight

LEMMA ListNext == TypeInv /\ TypeInv' /\ ListInv /\ [Next]_vars => ListInv'
<1> SUFFICES ASSUME TypeInv, TypeInv', ListInv, [Next]_vars PROVE ListInv'
  OBVIOUS
<1>1. CASE UNCHANGED vars
  BY <1>1, QuietThreads, QuietKeeps DEF Quiet
<1>2. ASSUME NEW c \in Clients,
             Connect(c) \/ Inherit(c) \/ HangUp(c) \/ Request(c) \/ Choose(c) \/ Type(c)
      PROVE  ListInv'
  BY <1>2, QuietPlayers, QuietKeeps
<1>5. CASE ReadElsewhere
  BY <1>5, QuietElsewhere, QuietKeeps
<1>3. ASSUME NEW c \in Clients, Serves(c) PROVE ListInv'
  <2>1. CASE InsertRoom(c) \/ NumberRoom(c) \/ FillRoom(c) \/ StartChat(c)
    BY <2>1, InsertKeeps, NumberKeeps, FillKeeps, StartKeeps
  <2>2. CASE ~(InsertRoom(c) \/ NumberRoom(c) \/ FillRoom(c) \/ StartChat(c))
    <3>1. ListRight
      BY DEF ListInv
    <3>2. Quiet /\ (~FindSeat(c) => NoTaker)
      BY <1>3, <2>2, <3>1, QuietServes DEF Serves
    <3> QED BY <3>2, QuietKeeps, FoundTakers
  <2> QED BY <2>1, <2>2
<1>4. ASSUME NEW a \in Cells, RunChat(a) \/ PlayGame(a) PROVE ListInv'
  <2>1. CASE DeleteRoom(a) \/ UncountRoom(a)
    BY <2>1, DeleteKeeps, UncountKeeps
  <2>2. CASE ~(DeleteRoom(a) \/ UncountRoom(a))
    <3>1. Goes(a) \/ (On /\ \E why : Dies(why))
      BY <1>4, <2>2, ChatGoes
    <3>2. Goes(a) => Quiet /\ NoTaker
      BY QuietChat DEF ListInv
    <3> QED BY <3>1, <3>2, QuietDies, QuietKeeps
  <2> QED BY <2>1, <2>2
<1> QED BY <1>1, <1>2, <1>3, <1>4, <1>5 DEF Next

LEMMA ListInvariant == Spec => []ListInv
BY ListInit, ListNext, TypeInvariant, PTL DEF Spec

\* The list of rooms: roomNum counts its rooms, through every making and every
\* deletion in which no two threads have met on it and which never found the
\* list full, and two rooms get one number only if two were made at once.
THEOREM RoomListTheorem == Spec => []ListIsRight
BY ListInvariant, PTL DEF ListInv

-----------------------------------------------------------------------------
(***************************************************************************)
(* The seats, the counter and the host of one room.                        *)
(***************************************************************************)

\* What was so without some events is so without them later.
LEMMA RoomLater ==
    ASSUME NEW m, NEW n, NEW k, NEW l, NEW p, NEW q, RoomRight(m, k, p), p \subseteq q,
           n.size = m.size, n.count = m.count, n.player = m.player, n.connfd = m.connfd,
           l = k
    PROVE  RoomRight(n, l, q)
<1>1. TakenIn(n) = TakenIn(m)
  BY DEF TakenIn
<1>2. \A e : Without(e, q) => Without(e, p)
  BY DEF Without
<1>3. SeatsRight(n, l, q)
  BY <1>1, <1>2 DEF RoomRight, SeatsRight
<1>4. CountRight(n, l, q)
  BY <1>1, <1>2 DEF RoomRight, CountRight
<1>5. HostRight(n, l, q)
  BY <1>2 DEF RoomRight, HostRight
<1> QED BY <1>3, <1>4, <1>5 DEF RoomRight

LEMMA TakenIs ==
    ASSUME NEW m
    PROVE  IsFiniteSet(TakenIn(m)) /\ TakenIn(m) \subseteq Seats /\ Cardinality(TakenIn(m)) \in Nat
<1>0. PICK x \in Int, y \in Int : x = 0 /\ y = 2
  OBVIOUS
<1>1. IsFiniteSet(x .. y)
  BY FS_Interval
<1>2. TakenIn(m) \subseteq x .. y
  BY <1>0 DEF TakenIn, Seats
<1>3. TakenIn(m) \subseteq Seats
  BY DEF TakenIn
<1> QED BY <1>1, <1>2, <1>3, FS_Subset, FS_CardinalityType

LEMMA SizeIs ==
    ASSUME TypeInv, NEW a \in Cells
    PROVE  mem[a].size \in {0, 2, 3}
<1>1. mem[a].size \in Sizes \cup {0}
  BY DEF TypeInv, Room
<1> QED BY <1>1, Constants

LEMMA WithoutIs ==
    ASSUME NEW p, NEW q, p \subseteq q
    PROVE  /\ Without({"seat"}, q) => Without({"seat"}, p)
           /\ Without(SeatRaces, q) => Without(SeatRaces, p)
           /\ Without(SeatRaces \cup {"kickSelf", "hostless"}, q)
                 => Without(SeatRaces \cup {"kickSelf", "hostless"}, p)
           /\ Without(SeatRaces, q) => /\ "seat" \notin q /\ "count" \notin q /\ "gone" \notin q
                                       /\ Without({"seat"}, q)
           /\ Without(SeatRaces \cup {"kickSelf", "hostless"}, q)
                 => "kickSelf" \notin q /\ "hostless" \notin q /\ Without(SeatRaces, q)
BY DEF Without, SeatRaces

LEMMA StaysRoom ==
    ASSUME TypeInv, RoomInv, NEW a \in Cells, Elsewhere(a), Stays(a)
    PROVE  RoomRight(mem'[a], chat'[a], past')
<1> DEFINE m == mem[a]
           k == chat[a]
           n == mem'[a]
           l == chat'[a]
<1>1. RoomRight(m, k, past)
  BY DEF RoomInv
<1>2. n.size = m.size /\ n.count = m.count /\ n.player = m.player /\ n.connfd = m.connfd
      /\ past \subseteq past'
  BY DEF Elsewhere, Stays
<1>3. {k.pc, l.pc} \subseteq {"chat", "get", "play", "break"}
  BY DEF Stays
<1> HIDE DEF m, k, n, l
<1>4. TakenIn(n) = TakenIn(m)
  BY <1>2 DEF TakenIn
<1>5. SeatsRight(n, l, past')
  BY <1>1, <1>2, <1>3, WithoutIs DEF RoomRight, SeatsRight
<1>6. CountRight(n, l, past')
  BY <1>1, <1>2, <1>3, <1>4, WithoutIs DEF RoomRight, CountRight
<1>7. HostRight(n, l, past')
  BY <1>1, <1>2, <1>3, WithoutIs DEF RoomRight, HostRight, Quitting
<1> QED BY <1>5, <1>6, <1>7 DEF RoomRight, m, k, n, l

LEMMA CallsRoom ==
    ASSUME TypeInv, RoomInv, NEW a \in Cells, Elsewhere(a), Calls(a)
    PROVE  RoomRight(mem'[a], chat'[a], past')
<1> DEFINE m == mem[a]
           k == chat[a]
           l == chat'[a]
<1>1. RoomRight(m, k, past) /\ mem'[a] = m /\ past \subseteq past'
  BY DEF RoomInv, Calls, Elsewhere
<1>2. k.pc \in {"chat", "get", "break"} /\ l.pc = "quit"
  BY DEF Calls
<1>3. l.j \in TakenIn(m)
  BY <1>1 DEF Calls, SeatsOf, TakenIn, RoomRight, SeatsRight
<1>4. l.j = 0 => l.why \in {"lost", "quit"} \/ "kickSelf" \in past' \/ "hostless" \in past'
  BY DEF Calls
<1> HIDE DEF m, k, l
<1>5. SeatsRight(m, l, past')
  BY <1>1, <1>2, <1>3, WithoutIs DEF RoomRight, SeatsRight
<1>6. CountRight(m, l, past')
  BY <1>1, <1>2, WithoutIs DEF RoomRight, CountRight
<1>7. HostRight(m, l, past')
  BY <1>1, <1>2, <1>4, WithoutIs DEF RoomRight, HostRight
<1> QED BY <1>1, <1>5, <1>6, <1>7 DEF RoomRight, l

LEMMA WeighsRoom ==
    ASSUME TypeInv, RoomInv, NEW a \in Cells, Elsewhere(a), Weighs(a)
    PROVE  RoomRight(mem'[a], chat'[a], past')
<1> DEFINE m == mem[a]
           k == chat[a]
           l == chat'[a]
<1>1. RoomRight(m, k, past) /\ mem'[a] = m /\ past \subseteq past'
  BY DEF RoomInv, Weighs, Elsewhere
<1>2. /\ k.pc = "quit" /\ l.pc \in {"leave", "delete"}
      /\ l.pc = "leave" => m.count > 1
      /\ l.pc = "delete" => ~(m.count > 1)
      /\ l.j = k.j /\ l.why = k.why /\ l.n = m.count /\ m.count \in Int
  BY DEF Weighs, TypeInv, Room
<1> HIDE DEF m, k, l
<1>3. SeatsRight(m, l, past')
  BY <1>1, <1>2, WithoutIs DEF RoomRight, SeatsRight
<1>4. CountRight(m, l, past')
  <2>1. l.pc # "clear" /\ l.pc # "left" /\ k.pc # "clear"
    BY <1>2
  <2>2. /\ l.pc = "leave" => l.n >= 2
        /\ l.pc = "delete" => l.n <= 1
    BY <1>2
  <2>3. Without(SeatRaces, past') => m.count = Cardinality(TakenIn(m)) - 0
    BY <1>1, <2>1, WithoutIs DEF RoomRight, CountRight
  <2> QED BY <2>1, <2>2, <2>3 DEF CountRight
<1>5. HostRight(m, l, past')
  BY <1>1, <1>2, WithoutIs DEF RoomRight, HostRight, Quitting
<1> QED BY <1>1, <1>3, <1>4, <1>5 DEF RoomRight, l

LEMMA CountsOffRoom ==
    ASSUME TypeInv, RoomInv, NEW a \in Cells, Elsewhere(a), CountsOff(a)
    PROVE  RoomRight(mem'[a], chat'[a], past')
<1> DEFINE m == mem[a]
           k == chat[a]
           n == mem'[a]
           l == chat'[a]
<1>1. /\ RoomRight(m, k, past) /\ n.size = m.size /\ past \subseteq past'
      /\ n.player = m.player /\ n.connfd = m.connfd
  BY DEF RoomInv, Elsewhere, CountsOff
<1>2. /\ k.pc = "leave" /\ l.pc = "clear" /\ l.j = k.j /\ l.why = k.why
      /\ n.count = k.n - 1 /\ k.n \in Int /\ m.count \in Int
      /\ m.count # k.n => "count" \in past'
  BY DEF CountsOff, TypeInv, Room, ChatState
<1>s. m.size \in Int
  BY SizeIs
<1> HIDE DEF m, k, n, l
<1>3. TakenIn(n) = TakenIn(m)
  BY <1>1 DEF TakenIn
<1>4. SeatsRight(n, l, past')
  <2>1. \A j \in Seats : n.player[j] = NoOne <=> n.connfd[j] = -1
    BY <1>1 DEF RoomRight, SeatsRight
  <2>2. Without({"seat"}, past') => k.j \in TakenIn(m)
    BY <1>1, <1>2, WithoutIs DEF RoomRight, SeatsRight
  <2>3. k.j \in TakenIn(m) => m.size # 0
    BY <1>s DEF TakenIn, Seats
  <2> QED BY <1>1, <1>2, <1>3, <2>1, <2>2, <2>3 DEF SeatsRight
<1>5. CountRight(n, l, past')
  <2> SUFFICES ASSUME Without(SeatRaces, past')
               PROVE  n.count = Cardinality(TakenIn(n)) - 1 /\ n.count >= 1
    BY <1>2 DEF CountRight
  <2>1. m.count = k.n /\ m.count = Cardinality(TakenIn(m)) /\ k.n >= 2
    BY <1>1, <1>2, TakenIs, WithoutIs DEF RoomRight, CountRight
  <2> QED BY <1>2, <1>3, <2>1
<1>6. HostRight(n, l, past')
  BY <1>1, <1>2, WithoutIs DEF RoomRight, HostRight, Quitting
<1> QED BY <1>4, <1>5, <1>6 DEF RoomRight, n, l

LEMMA EmptiesRoom ==
    ASSUME TypeInv, RoomInv, NEW a \in Cells, Elsewhere(a), Empties(a)
    PROVE  RoomRight(mem'[a], chat'[a], past')
<1> DEFINE m == mem[a]
           k == chat[a]
           n == mem'[a]
           l == chat'[a]
<1>1. RoomRight(m, k, past) /\ n.size = m.size /\ past \subseteq past'
  BY DEF RoomInv, Elsewhere
<1>2. /\ k.pc = "clear" /\ l.pc = "left" /\ l.j = k.j /\ l.why = k.why
      /\ n.count = m.count /\ m.count \in Int /\ k.j \in Seats
      /\ \A i \in Seats : /\ n.player[i] = IF i = k.j THEN NoOne ELSE m.player[i]
                          /\ n.connfd[i] = IF i = k.j THEN -1 ELSE m.connfd[i]
  BY DEF Empties, TypeInv, Room, ChatState, Quitting
<1>s. m.size \in Int
  BY SizeIs
<1> HIDE DEF m, k, n, l
<1>3. TakenIn(n) = TakenIn(m) \ {k.j}
  BY <1>1, <1>2 DEF TakenIn
<1>4. Without({"seat"}, past') => k.j \in TakenIn(m) /\ m.size # 0
  <2>1. Without({"seat"}, past') => k.j \in TakenIn(m)
    BY <1>1, <1>2, WithoutIs DEF RoomRight, SeatsRight
  <2>2. k.j \in TakenIn(m) => m.size # 0
    BY <1>s DEF TakenIn, Seats
  <2> QED BY <2>1, <2>2
<1>5. SeatsRight(n, l, past')
  BY <1>1, <1>2, <1>4, Constants DEF RoomRight, SeatsRight
<1>6. CountRight(n, l, past')
  <2> SUFFICES ASSUME Without(SeatRaces, past')
               PROVE  n.count = Cardinality(TakenIn(n)) /\ n.count >= 1
    BY <1>2 DEF CountRight
  <2>1. m.count = Cardinality(TakenIn(m)) - 1 /\ m.count >= 1
    BY <1>1, <1>2, WithoutIs DEF RoomRight, CountRight
  <2>2. k.j \in TakenIn(m)
    BY <1>1, <1>4, WithoutIs
  <2>3. Cardinality(TakenIn(n)) = Cardinality(TakenIn(m)) - 1
    BY <1>3, <2>2, TakenIs, FS_RemoveElement
  <2> QED BY <1>2, <2>1, <2>3
<1>7. HostRight(n, l, past')
  <2> SUFFICES ASSUME Without(SeatRaces \cup {"kickSelf", "hostless"}, past')
               PROVE  /\ n.size # 0 /\ k.j # 0 => n.connfd[0] # -1
                      /\ k.j = 0 => k.why \in {"lost", "quit"}
    BY <1>2 DEF HostRight
  <2>1. Without(SeatRaces \cup {"kickSelf", "hostless"}, past)
    BY <1>1, WithoutIs
  <2>2. /\ m.size # 0 => m.connfd[0] # -1
        /\ k.j = 0 => k.why \in {"lost", "quit"}
    BY <1>1, <1>2, <2>1 DEF RoomRight, HostRight, Quitting
  <2>3. k.j # 0 => n.connfd[0] = m.connfd[0]
    BY <1>2 DEF Seats
  <2> QED BY <1>1, <2>2, <2>3
<1> QED BY <1>5, <1>6, <1>7 DEF RoomRight, n, l

LEMMA ReturnsRoom ==
    ASSUME TypeInv, RoomInv, NEW a \in Cells, Elsewhere(a), Returns(a)
    PROVE  RoomRight(mem'[a], chat'[a], past')
<1> DEFINE m == mem[a]
           k == chat[a]
           n == mem'[a]
           l == chat'[a]
<1>1. RoomRight(m, k, past) /\ n.size = m.size /\ past \subseteq past'
  BY DEF RoomInv, Elsewhere
<1>2. k.pc = "left" /\ l.pc \in {"chat", "break"} /\ m.size \in Int
  BY SizeIs DEF Returns
<1>3. CASE NeedsHost(a)
  <2>1. PICK h : h = NewHost(a) /\ Moves(a, h)
    BY <1>3 DEF Returns
  <2>2. /\ h \in TakenIn(m) /\ h \in Seats /\ n.count = m.count
        /\ \A i \in Seats :
          /\ n.player[i] = IF i = h THEN NoOne ELSE IF i = 0 THEN m.player[h] ELSE m.player[i]
          /\ n.connfd[i] = IF i = h THEN -1 ELSE IF i = 0 THEN m.connfd[h] ELSE m.connfd[i]
    BY <2>1 DEF Moves, Taken, SeatsOf, TakenIn
  <2>3. k.j = 0 /\ k.why \in {"lost", "quit"}
    BY <1>3 DEF NeedsHost
  <2> HIDE DEF m, k, n, l
  <2>4. Without({"seat"}, past') => m.connfd[0] = -1 /\ h # 0 /\ m.size # 0
    BY <1>1, <1>2, <2>2, <2>3, WithoutIs DEF RoomRight, SeatsRight, TakenIn, Seats
  <2>5. Without({"seat"}, past') => TakenIn(n) = (TakenIn(m) \ {h}) \cup {0} /\ 0 \notin TakenIn(m)
    BY <1>1, <1>2, <2>2, <2>4 DEF TakenIn, Seats
  <2>6. SeatsRight(n, l, past')
    <3>1. \A j \in Seats : n.player[j] = NoOne <=> n.connfd[j] = -1
      BY <1>1, <2>2 DEF RoomRight, SeatsRight
    <3> QED BY <1>1, <1>2, <2>4, <3>1 DEF SeatsRight
  <2>7. CountRight(n, l, past')
    <3> SUFFICES ASSUME Without(SeatRaces, past')
                 PROVE  n.count = Cardinality(TakenIn(n))
      BY <1>2, TakenIs DEF CountRight
    <3>1. m.count = Cardinality(TakenIn(m))
      BY <1>1, <1>2, TakenIs, WithoutIs DEF RoomRight, CountRight
    <3>2. Without({"seat"}, past')
      BY <1>1, WithoutIs
    <3>3. IsFiniteSet(TakenIn(m) \ {h}) /\ Cardinality(TakenIn(m) \ {h}) = Cardinality(TakenIn(m)) - 1
      BY <2>2, TakenIs, FS_RemoveElement
    <3>4. 0 \notin TakenIn(m) \ {h}
      BY <2>5, <3>2
    <3>5. Cardinality((TakenIn(m) \ {h}) \cup {0}) = Cardinality(TakenIn(m) \ {h}) + 1
      BY <3>3, <3>4, FS_AddElement
    <3>6. Cardinality(TakenIn(n)) = Cardinality(TakenIn(m) \ {h}) + 1
      BY <2>5, <3>2, <3>5
    <3>7. Cardinality(TakenIn(m)) \in Nat
      BY TakenIs
    <3> QED BY <2>2, <3>1, <3>3, <3>6, <3>7
  <2>8. HostRight(n, l, past')
    <3> SUFFICES ASSUME Without(SeatRaces \cup {"kickSelf", "hostless"}, past')
                 PROVE  n.connfd[0] # -1
      BY <1>2 DEF HostRight, Quitting
    <3>1. h # 0
      BY <1>1, <2>4, WithoutIs
    <3> QED BY <2>2, <3>1 DEF TakenIn, Seats
  <2> QED BY <2>6, <2>7, <2>8 DEF RoomRight, n, l
<1>4. CASE ~NeedsHost(a)
  <2>1. n = m
    BY <1>4 DEF Returns
  <2>2. k.j = 0 => k.why \notin {"lost", "quit"}
    BY <1>4 DEF NeedsHost
  <2> HIDE DEF m, k, n, l
  <2>3. SeatsRight(m, l, past')
    BY <1>1, <1>2, WithoutIs DEF RoomRight, SeatsRight
  <2>4. CountRight(m, l, past')
    BY <1>1, <1>2, TakenIs, WithoutIs DEF RoomRight, CountRight
  <2>5. HostRight(m, l, past')
    BY <1>1, <1>2, <2>2, WithoutIs DEF RoomRight, HostRight, Quitting
  <2> QED BY <2>1, <2>3, <2>4, <2>5 DEF RoomRight, n, l
<1> QED BY <1>3, <1>4

\* What a maker's room becomes when it is filled, and a room in which a seat is
\* taken
Fills(c, a) ==
    /\ thr[c].pc = "fill" /\ a = thr[c].a /\ a \in Cells /\ thr'[c].pc = "made"
    /\ \A d \in Clients : d # c => thr'[d] = thr[d]
    /\ \A b \in Cells : b # a => mem'[b] = mem[b]
    /\ mem'[a].size \in {2, 3} /\ mem'[a].count = 1
    /\ \A i \in Seats :
          /\ mem'[a].player[i] = IF i = 0 THEN Account(c) ELSE mem[a].player[i]
          /\ mem'[a].connfd[i] = IF i = 0 THEN fd[c] ELSE mem[a].connfd[i]
    /\ UNCHANGED <<clientVars, listVars, chat, status>>
    /\ past \subseteq past' /\ (Gone(c) => "gone" \in past')

Takes(c, a, j) ==
    /\ thr[c].pc = "take" /\ a = roomList[thr[c].i] /\ a \in used /\ a \in Cells
    /\ j = thr[c].j /\ j \in Seats /\ thr'[c].pc = "entered"
    /\ \A d \in Clients : d # c => thr'[d] = thr[d]
    /\ \A b \in Cells : b # a => mem'[b] = mem[b]
    /\ mem'[a].size = mem[a].size
    /\ \A i \in Seats :
          /\ mem'[a].player[i] = IF i = j THEN Account(c) ELSE mem[a].player[i]
          /\ mem'[a].connfd[i] = IF i = j THEN fd[c] ELSE mem[a].connfd[i]
    /\ UNCHANGED <<clientVars, listVars, chat, status>>
    /\ past \subseteq past'
    /\ Gone(c) => "gone" \in past'
    /\ mem[a].id # thr[c].a \/ mem[a].connfd[j] # -1 \/ NeedsHost(a) => "seat" \in past'
    /\ mem'[a].count # mem[a].count + 1 => "count" \in past'

LEMMA FillIs ==
    ASSUME TypeInv, NEW c \in Clients, FillRoom(c)
    PROVE  Fills(c, thr[c].a)
<1>1. PICK a, t : a = thr[c].a /\ t = [thr[c] EXCEPT !.pc = "made"]
  OBVIOUS
<1>2. /\ thr[c].pc = "fill" /\ a \in Cells /\ thr' = [thr EXCEPT ![c] = t]
      /\ UNCHANGED <<clientVars, listVars, chat, status>>
      /\ past \subseteq past' /\ (Gone(c) => "gone" \in past')
  BY <1>1 DEF FillRoom, At, TypeInv, Making
<1>3. PICK size \in Sizes :
          mem' = [mem EXCEPT ![a] = [mem[a] EXCEPT
                     !.size = size, !.count = 1, !.player[0] = Account(c), !.connfd[0] = fd[c]]]
  BY <1>1 DEF FillRoom
<1>4. PICK n \in Int : n = 1
  OBVIOUS
<1>5. mem[a] \in Room /\ mem' = [mem EXCEPT ![a] = Filled(mem[a], size, n, Account(c), fd[c])]
  BY <1>2, <1>3, <1>4 DEF TypeInv, Filled
<1>6. /\ mem'[a] = Filled(mem[a], size, n, Account(c), fd[c])
      /\ \A b \in Cells : b # a => mem'[b] = mem[b]
  BY <1>2, <1>5 DEF TypeInv
<1>7. PICK x, f : x = Account(c) /\ f = fd[c]
  OBVIOUS
<1>m. PICK m \in Room : m = mem[a]
  BY <1>5
<1>r. PICK new : new = mem'[a] /\ new = Filled(m, size, n, x, f)
  BY <1>6, <1>7, <1>m
<1>8. new.size = size /\ new.count = n
  BY <1>m, <1>r DEF Filled, Room
<1>9. \A i \in Seats : /\ new.player[i] = IF i = 0 THEN x ELSE m.player[i]
                       /\ new.connfd[i] = IF i = 0 THEN f ELSE m.connfd[i]
  BY <1>m, <1>r DEF Filled, Room
<1>10. thr'[c] = t /\ t.pc = "made" /\ \A d \in Clients : d # c => thr'[d] = thr[d]
  BY <1>1, <1>2 DEF TypeInv, ThreadState
<1>11. size \in {2, 3}
  BY Constants
<1> QED BY <1>1, <1>2, <1>4, <1>6, <1>7, <1>8, <1>9, <1>10, <1>11, <1>m, <1>r DEF Fills

LEMMA TakeIs ==
    ASSUME TypeInv, ListRight, NEW c \in Clients, TakeSeat(c), ~Dies({})
    PROVE  Takes(c, roomList[thr[c].i], thr[c].j)
<1>1. PICK a, j, t : a = roomList[thr[c].i] /\ j = thr[c].j /\ t = [thr[c] EXCEPT !.pc = "entered"]
  OBVIOUS
<1>2. /\ thr[c].pc = "take" /\ a # 0 /\ thr' = [thr EXCEPT ![c] = t]
      /\ UNCHANGED <<clientVars, listVars, chat, status>>
  BY <1>1 DEF TakeSeat, At, TypeInv
<1>3. thr[c].i \in Entries /\ j \in Seats /\ a \in Cells /\ a \in used
  BY <1>1, <1>2 DEF Entering, ThreadState, TypeInv, ListRight
<1>4. PICK n \in Counts(a) :
         /\ mem' = [mem EXCEPT ![a] = Written(mem[a], j, Account(c), fd[c], n)]
         /\ past' = past \cup (IF mem[a].id # thr[c].a \/ mem[a].connfd[j] # -1 THEN {"seat"} ELSE {})
                         \cup (IF NeedsHost(a) THEN {"seat"} ELSE {})
                         \cup (IF Gone(c) THEN {"gone"} ELSE {})
                         \cup (IF n # mem[a].count + 1 THEN {"count"} ELSE {})
  BY <1>1, <1>2 DEF TakeSeat, Written
<1>5. PICK x, f : x = Account(c) /\ f = fd[c]
  OBVIOUS
<1>6. /\ mem[a] \in Room /\ mem'[a] = Written(mem[a], j, x, f, n)
      /\ \A b \in Cells : b # a => mem'[b] = mem[b]
  BY <1>3, <1>4, <1>5 DEF TypeInv
<1>7. mem'[a].size = mem[a].size /\ mem'[a].count = n
  BY <1>6, WrittenId
<1>8. \A i \in Seats : /\ mem'[a].player[i] = IF i = j THEN x ELSE mem[a].player[i]
                       /\ mem'[a].connfd[i] = IF i = j THEN f ELSE mem[a].connfd[i]
  BY <1>3, <1>6 DEF Written, Room
<1>9. thr'[c] = t /\ t.pc = "entered" /\ \A d \in Clients : d # c => thr'[d] = thr[d]
  BY <1>1, <1>2 DEF TypeInv, ThreadState
<1>10. /\ past \subseteq past' /\ (Gone(c) => "gone" \in past')
       /\ mem[a].id # thr[c].a \/ mem[a].connfd[j] # -1 \/ NeedsHost(a) => "seat" \in past'
       /\ n # mem[a].count + 1 => "count" \in past'
  BY <1>4
<1> QED BY <1>1, <1>2, <1>3, <1>5, <1>6, <1>7, <1>8, <1>9, <1>10 DEF Takes

LEMMA FillsRoom ==
    ASSUME TypeInv, ListInv, RoomInv, NEW c \in Clients, NEW a \in Cells, Fills(c, a)
    PROVE  RoomRight(mem'[a], chat'[a], past')
<1> DEFINE m == mem[a]
           n == mem'[a]
<1>1. m.size = 0 /\ chat'[a] = NoChat
  BY DEF ListInv, CellsRight, Making, Fills
<1>2. RoomRight(m, chat[a], past) /\ past \subseteq past'
  BY DEF RoomInv, Fills
<1>3. /\ n.size \in {2, 3} /\ n.count = 1
      /\ n.player[0] = Account(c) /\ n.connfd[0] = fd[c]
      /\ n.player[1] = m.player[1] /\ n.connfd[1] = m.connfd[1]
      /\ n.player[2] = m.player[2] /\ n.connfd[2] = m.connfd[2]
  BY DEF Fills, Seats
<1>4. (Account(c) = NoOne <=> fd[c] = -1) /\ (fd[c] = -1 => "gone" \in past')
  BY Constants DEF Account, Gone, Fills
<1>5. Without({"seat"}, past) => m.connfd[1] = -1 /\ m.connfd[2] = -1
  BY <1>1, <1>2 DEF RoomRight, SeatsRight, Seats
<1> HIDE DEF m, n
<1>6. SeatsRight(n, NoChat, past')
  <2>1. \A j \in Seats : n.player[j] = NoOne <=> n.connfd[j] = -1
    BY <1>2, <1>3, <1>4 DEF RoomRight, SeatsRight, Seats
  <2> QED BY <1>3, <2>1, StatesAre DEF SeatsRight
<1>7. CountRight(n, NoChat, past')
  <2> SUFFICES ASSUME Without(SeatRaces, past')
               PROVE  n.count = Cardinality(TakenIn(n))
    BY StatesAre, TakenIs DEF CountRight
  <2>1. fd[c] # -1 /\ m.connfd[1] = -1 /\ m.connfd[2] = -1
    BY <1>2, <1>4, <1>5, WithoutIs
  <2>2. TakenIn(n) = {0}
    BY <1>3, <2>1 DEF TakenIn, Seats
  <2>3. Cardinality({0}) = 1
    BY FS_Singleton
  <2> QED BY <1>3, <2>2, <2>3
<1>8. HostRight(n, NoChat, past')
  BY <1>2, <1>3, <1>4, WithoutIs, StatesAre DEF HostRight, Quitting
<1> QED BY <1>1, <1>6, <1>7, <1>8 DEF RoomRight, n

LEMMA TakesRoom ==
    ASSUME TypeInv, ListInv, RoomInv, NEW c \in Clients, NEW a \in Cells, NEW j \in Seats, Takes(c, a, j)
    PROVE  RoomRight(mem'[a], chat'[a], past')
<1> DEFINE m == mem[a]
           n == mem'[a]
           k == chat[a]
<1>1. RoomRight(m, k, past) /\ past \subseteq past' /\ chat'[a] = k /\ n.size = m.size
  BY DEF RoomInv, Takes
<1>2. \A i \in Seats : /\ n.player[i] = IF i = j THEN Account(c) ELSE m.player[i]
                       /\ n.connfd[i] = IF i = j THEN fd[c] ELSE m.connfd[i]
  BY DEF Takes
<1>3. (Account(c) = NoOne <=> fd[c] = -1) /\ (fd[c] = -1 => "gone" \in past')
  BY Constants DEF Account, Gone, Takes
<1>4. Without({"seat"}, past') => /\ j < m.size /\ m.connfd[j] = -1 /\ m.size # 0
                                  /\ ~(k.j = 0 /\ k.why \in {"lost", "quit"})
  <2> SUFFICES ASSUME "seat" \notin past'
               PROVE  /\ j < m.size /\ m.connfd[j] = -1 /\ m.size # 0
                      /\ ~(k.j = 0 /\ k.why \in {"lost", "quit"})
    BY DEF Without
  <2>1. mem[a].id = thr[c].a /\ mem[a].connfd[j] = -1 /\ ~NeedsHost(a)
    BY DEF Takes
  <2>2. thr[c].pc = "take" /\ a = roomList[thr[c].i] /\ j = thr[c].j /\ a # 0
    BY Constants DEF Takes
  <2>3. j < m.size
    BY <2>1, <2>2 DEF ListInv, TakersRight
  <2> QED BY <2>1, <2>3, SizeIs DEF NeedsHost, Seats
<1>5. m.count \in Int /\ (m.count + 1 # n.count => "count" \in past')
  BY DEF TypeInv, Room, Takes
<1> HIDE DEF m, n, k
<1>6. SeatsRight(n, k, past')
  <2>1. \A i \in Seats : n.player[i] = NoOne <=> n.connfd[i] = -1
    BY <1>1, <1>2, <1>3 DEF RoomRight, SeatsRight
  <2> SUFFICES ASSUME Without({"seat"}, past')
               PROVE  /\ n.size = 0 => n.count = 0 /\ \A i \in Seats : n.connfd[i] = -1
                      /\ k.pc \in {"quit", "leave", "clear", "delete"} => k.j \in TakenIn(n)
                      /\ k.pc = "left" /\ k.j = 0 /\ k.why \in {"lost", "quit"} => n.connfd[0] = -1
    BY <2>1 DEF SeatsRight
  <2>2. k.pc \in {"quit", "leave", "clear", "delete"} => k.j \in TakenIn(m)
    BY <1>1, WithoutIs DEF RoomRight, SeatsRight
  <2>3. k.j \in TakenIn(m) => k.j \in TakenIn(n)
    BY <1>1, <1>2, <1>4 DEF TakenIn
  <2> QED BY <1>1, <1>4, <2>2, <2>3
<1>7. CountRight(n, k, past')
  <2>1. (k.pc = "leave" => k.n >= 2) /\ (k.pc = "delete" => k.n <= 1)
    BY <1>1 DEF RoomRight, CountRight
  <2>o. PICK off \in Int : off = IF k.pc = "clear" THEN 1 ELSE 0
    OBVIOUS
  <2> SUFFICES ASSUME Without(SeatRaces, past')
               PROVE  /\ n.count = Cardinality(TakenIn(n)) - off
                      /\ k.pc \in {"clear", "left"} => n.count >= 1
    BY <2>1, <2>o DEF CountRight
  <2>2. /\ m.count = Cardinality(TakenIn(m)) - off
        /\ k.pc \in {"clear", "left"} => m.count >= 1
    BY <1>1, <2>o, WithoutIs DEF RoomRight, CountRight
  <2>3. j < m.size /\ m.connfd[j] = -1 /\ fd[c] # -1 /\ n.count = m.count + 1
    BY <1>1, <1>3, <1>4, <1>5, WithoutIs
  <2>4. TakenIn(n) = TakenIn(m) \cup {j} /\ j \notin TakenIn(m)
    BY <1>1, <1>2, <2>3 DEF TakenIn
  <2>5. Cardinality(TakenIn(n)) = Cardinality(TakenIn(m)) + 1
    BY <2>4, TakenIs, FS_AddElement
  <2> QED BY <1>5, <2>2, <2>3, <2>5, TakenIs
<1>8. HostRight(n, k, past')
  <2> SUFFICES ASSUME Without(SeatRaces \cup {"kickSelf", "hostless"}, past')
               PROVE  /\ n.size # 0 /\ ~(k.pc = "left" /\ k.j = 0) => n.connfd[0] # -1
                      /\ k.pc \in Quitting /\ k.j = 0 => k.why \in {"lost", "quit"}
    BY DEF HostRight
  <2>1. /\ m.size # 0 /\ ~(k.pc = "left" /\ k.j = 0) => m.connfd[0] # -1
        /\ k.pc \in Quitting /\ k.j = 0 => k.why \in {"lost", "quit"}
    BY <1>1, WithoutIs DEF RoomRight, HostRight
  <2>2. fd[c] # -1
    BY <1>1, <1>3, WithoutIs
  <2> QED BY <1>1, <1>2, <2>1, <2>2 DEF Seats
<1> QED BY <1>1, <1>6, <1>7, <1>8 DEF RoomRight, n

LEMMA BlankRight ==
    ASSUME NEW k, k.pc \in {"none", "uncount"}, NEW p
    PROVE  RoomRight(Blank, k, p)
<1>1. SeatsRight(Blank, k, p)
  BY StatesAre DEF SeatsRight
<1>2. CountRight(Blank, k, p)
  <2>1. TakenIn(Blank) = {}
    BY StatesAre DEF TakenIn, Seats
  <2> QED BY <2>1, StatesAre, FS_EmptySet DEF CountRight
<1>3. HostRight(Blank, k, p)
  BY StatesAre DEF HostRight, Quitting
<1> QED BY <1>1, <1>2, <1>3 DEF RoomRight

\* A room whose thread begins or ends stays as it is.
LEMMA IdleRight ==
    ASSUME NEW m, NEW k, NEW l, NEW p, NEW q, RoomRight(m, k, p), p \subseteq q,
           k.pc \in {"none", "uncount"}, l.pc \in {"none", "chat"}
    PROVE  RoomRight(m, l, q)
<1>1. SeatsRight(m, l, q)
  BY WithoutIs DEF RoomRight, SeatsRight
<1>2. CountRight(m, l, q)
  BY WithoutIs DEF RoomRight, CountRight
<1>3. HostRight(m, l, q)
  BY WithoutIs DEF RoomRight, HostRight, Quitting
<1> QED BY <1>1, <1>2, <1>3 DEF RoomRight

LEMMA RoomInit == Init => RoomInv
BY BlankRight, StatesAre DEF Init, RoomInv

\* Nothing happens in a room.
LEMMA RoomStays ==
    ASSUME RoomInv, mem' = mem, chat' = chat, past \subseteq past'
    PROVE  RoomInv'
BY RoomLater DEF RoomInv

LEMMA RoomServes ==
    ASSUME TypeInv, ListInv, RoomInv, NEW c \in Clients, Serves(c)
    PROVE  RoomInv'
<1>1. CASE NumberRoom(c)
  <2>1. UNCHANGED <<chat, past>> /\ \E b, x : mem' = [mem EXCEPT ![b].id = x]
    BY <1>1 DEF NumberRoom
  <2>2. \A a \in Cells : /\ mem'[a].size = mem[a].size /\ mem'[a].count = mem[a].count
                         /\ mem'[a].player = mem[a].player /\ mem'[a].connfd = mem[a].connfd
    BY <2>1 DEF TypeInv, Room
  <2> QED BY <2>1, <2>2, RoomLater DEF RoomInv
<1>2. CASE FillRoom(c)
  <2>1. PICK a \in Cells : Fills(c, a)
    BY <1>2, FillIs DEF Fills
  <2>2. RoomRight(mem'[a], chat'[a], past')
    BY <2>1, FillsRoom
  <2>3. \A b \in Cells : b # a => RoomRight(mem'[b], chat'[b], past')
    BY <2>1, RoomLater DEF Fills, RoomInv
  <2> QED BY <2>2, <2>3 DEF RoomInv
<1>3. CASE StartChat(c)
  <2>1. CASE Dies({})
    BY <2>1, RoomStays DEF Dies
  <2>2. CASE ~Dies({})
    <3>1. PICK a, k : a = thr[c].a /\ k = [chat[a] EXCEPT !.pc = "chat"]
      OBVIOUS
    <3>2. chat' = [chat EXCEPT ![a] = k] /\ UNCHANGED <<mem, past>> /\ thr[c].pc = "start"
      BY <1>3, <2>2, <3>1 DEF StartChat, At, TypeInv
    <3>3. chat[a] = NoChat /\ a \in Cells
      BY <3>1, <3>2 DEF ListInv, CellsRight, Making, TypeInv
    <3>4. k.pc = "chat"
      BY <3>1, <3>3 DEF TypeInv, ChatState
    <3>5. chat'[a] = k /\ \A b \in Cells : b # a => chat'[b] = chat[b]
      BY <3>2, <3>3 DEF TypeInv
    <3>6. RoomRight(mem'[a], chat'[a], past')
      BY <3>2, <3>3, <3>4, <3>5, IdleRight, StatesAre DEF RoomInv
    <3>7. \A b \in Cells : b # a => RoomRight(mem'[b], chat'[b], past')
      BY <3>2, <3>5 DEF RoomInv
    <3> QED BY <3>6, <3>7 DEF RoomInv
  <2> QED BY <2>1, <2>2
<1>4. CASE TakeSeat(c)
  <2>1. CASE Dies({})
    BY <2>1, RoomStays DEF Dies
  <2>2. CASE ~Dies({})
    <3>1. PICK a \in Cells, j \in Seats : Takes(c, a, j)
      BY <1>4, <2>2, TakeIs DEF Takes, ListInv
    <3>2. RoomRight(mem'[a], chat'[a], past')
      BY <3>1, TakesRoom
    <3>3. \A b \in Cells : b # a => RoomRight(mem'[b], chat'[b], past')
      BY <3>1, RoomLater DEF Takes, RoomInv
    <3> QED BY <3>2, <3>3 DEF RoomInv
  <2> QED BY <2>1, <2>2
<1>5. CASE InsertRoom(c)
  BY <1>5, RoomStays DEF InsertRoom
<1>6. CASE ~(NumberRoom(c) \/ FillRoom(c) \/ StartChat(c) \/ TakeSeat(c) \/ InsertRoom(c))
  BY <1>6, RoomStays DEF Serves, TestRoom, TellMade, AskRooms, ListRoom, ShowRoom, FindSeat,
                         TellEntered, Welcome, Dies
<1> QED BY <1>1, <1>2, <1>3, <1>4, <1>5, <1>6

LEMMA RoomChats ==
    ASSUME TypeInv, ListInv, RoomInv, NEW a \in Cells, RunChat(a) \/ PlayGame(a)
    PROVE  RoomInv'
<1>1. CASE DeleteRoom(a)
  <2>1. PICK k : k = [NoChat EXCEPT !.pc = "uncount", !.n = roomNum]
    OBVIOUS
  <2>2. chat' = [chat EXCEPT ![a] = k] /\ mem' = [mem EXCEPT ![a] = Blank] /\ past \subseteq past'
    BY <1>1, <2>1 DEF DeleteRoom
  <2>3. k.pc = "uncount"
    BY <2>1 DEF NoChat
  <2>4. /\ chat'[a] = k /\ \A b \in Cells : b # a => chat'[b] = chat[b]
        /\ mem'[a] = Blank /\ \A b \in Cells : b # a => mem'[b] = mem[b]
    BY <2>2 DEF TypeInv
  <2>5. RoomRight(mem'[a], chat'[a], past')
    BY <2>3, <2>4, BlankRight
  <2>6. \A b \in Cells : b # a => RoomRight(mem'[b], chat'[b], past')
    BY <2>2, <2>4, RoomLater DEF RoomInv
  <2> QED BY <2>5, <2>6 DEF RoomInv
<1>2. CASE UncountRoom(a)
  <2>1. chat' = [chat EXCEPT ![a] = NoChat] /\ mem' = mem /\ past \subseteq past' /\ chat[a].pc = "uncount"
    BY <1>2 DEF UncountRoom, Doing
  <2>2. chat'[a] = NoChat /\ \A b \in Cells : b # a => chat'[b] = chat[b]
    BY <2>1 DEF TypeInv
  <2>3. RoomRight(mem'[a], chat'[a], past')
    BY <2>1, <2>2, IdleRight, StatesAre DEF RoomInv
  <2>4. \A b \in Cells : b # a => RoomRight(mem'[b], chat'[b], past')
    BY <2>1, <2>2, RoomLater DEF RoomInv
  <2> QED BY <2>3, <2>4 DEF RoomInv
<1>3. CASE ~DeleteRoom(a) /\ ~UncountRoom(a)
  <2>1. Goes(a) \/ (On /\ \E why : Dies(why))
    BY <1>3, ChatGoes
  <2>2. CASE Goes(a)
    <3>1. Elsewhere(a)
      BY <2>2 DEF Goes
    <3>2. RoomRight(mem'[a], chat'[a], past')
      BY <2>2, <3>1, StaysRoom, CallsRoom, WeighsRoom, CountsOffRoom, EmptiesRoom, ReturnsRoom DEF Goes
    <3>3. \A b \in Cells : b # a => RoomRight(mem'[b], chat'[b], past')
      BY <3>1, RoomLater DEF Elsewhere, RoomInv
    <3> QED BY <3>2, <3>3 DEF RoomInv
  <2>3. CASE \E why : Dies(why)
    BY <2>3, RoomStays DEF Dies
  <2> QED BY <2>1, <2>2, <2>3
<1> QED BY <1>1, <1>2, <1>3

LEMMA RoomNext == TypeInv /\ ListInv /\ RoomInv /\ [Next]_vars => RoomInv'
<1> SUFFICES ASSUME TypeInv, ListInv, RoomInv, [Next]_vars PROVE RoomInv'
  OBVIOUS
<1>1. CASE UNCHANGED vars
  BY <1>1, RoomStays
<1>2. ASSUME NEW c \in Clients,
             Connect(c) \/ Inherit(c) \/ HangUp(c) \/ Request(c) \/ Choose(c) \/ Type(c)
      PROVE  RoomInv'
  <2>1. Quiet /\ UNCHANGED <<mem, chat>>
    BY <1>2, QuietPlayers
  <2> QED BY <2>1, RoomStays DEF Quiet
<1>3. ASSUME NEW c \in Clients, Serves(c) PROVE RoomInv'
  BY <1>3, RoomServes
<1>4. ASSUME NEW a \in Cells, RunChat(a) \/ PlayGame(a) PROVE RoomInv'
  BY <1>4, RoomChats
<1>5. CASE ReadElsewhere
  BY <1>5, RoomStays DEF ReadElsewhere
<1> QED BY <1>1, <1>2, <1>3, <1>4, <1>5 DEF Next

LEMMA RoomInvariant == Spec => []RoomInv
BY RoomInit, RoomNext, TypeInvariant, ListInvariant, PTL DEF Spec

\* currentPlayerNum is the number of seats taken, but for the one that quitRoom
\* is about to empty, unless threads have met on a seat or on the counter.
THEOREM CountTheorem == Spec => []CountIsSeats
<1>1. TypeInv /\ RoomInv => CountIsSeats
  <2> SUFFICES ASSUME TypeInv, RoomInv, Never(SeatRaces), NEW a \in used
               PROVE  mem[a].count = Cardinality(Taken(a)) - IF chat[a].pc = "clear" THEN 1 ELSE 0
    BY DEF CountIsSeats
  <2>1. a \in Cells /\ Taken(a) = TakenIn(mem[a])
    BY DEF TypeInv, Taken, SeatsOf, TakenIn
  <2> QED BY <2>1 DEF RoomInv, RoomRight, CountRight, Never, Without
<1> QED BY <1>1, TypeInvariant, RoomInvariant, PTL

\* A room that chats or plays has a host, whoever of the host and the guests
\* quits, is kicked or is lost, unless a host was lost in a game or has kicked
\* himself, or threads have met on a seat or on the counter.
THEOREM HostTheorem == Spec => []HostSeated
<1>1. TypeInv /\ RoomInv => HostSeated
  <2> SUFFICES ASSUME TypeInv, RoomInv, Never(SeatRaces \cup {"kickSelf", "hostless"}),
                      NEW a \in used, chat[a].pc \in {"chat", "get", "play"}, Taken(a) # {}
               PROVE  0 \in Taken(a)
    BY DEF HostSeated
  <2>1. a \in Cells
    BY DEF TypeInv
  <2>2. PICK j \in Seats : j < mem[a].size
    BY DEF Taken, SeatsOf
  <2>3. mem[a].size # 0 /\ 0 < mem[a].size
    BY <2>1, <2>2, SizeIs DEF Seats
  <2>4. mem[a].connfd[0] # -1
    BY <2>1, <2>3 DEF RoomInv, RoomRight, HostRight, Never, Without
  <2> QED BY <2>3, <2>4 DEF Taken, SeatsOf, Seats
<1> QED BY <1>1, TypeInvariant, RoomInvariant, PTL

-----------------------------------------------------------------------------
(***************************************************************************)
(* The players: what they do, what their threads do and what is in their   *)
(* mailboxes.                                                              *)
(***************************************************************************)

\* A step leaves a player right, and sitting if he was.
Plain(c) ==
    /\ ClientRight(c)'
    /\ Sits(c)' <=> Sits(c)
    /\ NotOut(c) => NotOut(c)'

\* A player to whom nothing happens, or whose mailbox is emptied
LEMMA PlainSame ==
    ASSUME TypeInv, NEW c \in Clients, ClientRight(c),
           client'[c] = client[c], thr'[c] = thr[c], fd'[c] = fd[c], mail'[c] \in {mail[c], Empty}
    PROVE  Plain(c)
<1>1. Empty.what = "none"
  BY DEF Empty
<1>2. ClientRight(c)'
  BY <1>1 DEF ClientRight, Gone
<1>3. Sits(c)' <=> Sits(c)
  BY DEF Sits, In, Gone
<1>4. NotOut(c) => NotOut(c)'
  BY DEF NotOut
<1> QED BY <1>2, <1>3, <1>4 DEF Plain

\* One who has no room: wherever he asks from, he does not sit.
LEMMA PlainAsks ==
    ASSUME TypeInv, NEW c \in Clients, ClientRight(c), ClientRight(c)',
           fd'[c] = fd[c], client'[c].out = client[c].out,
           client[c].at \in {"menu", "naming", "asking", "choosing", "gone"},
           thr[c].pc \notin {"made", "entered"},
           client'[c].at \in {"menu", "naming", "asking", "choosing", "gone"},
           thr'[c].pc \notin {"made", "entered"}
    PROVE  Plain(c) /\ ~Sits(c)
<1>1. ~Sits(c) /\ ~Sits(c)'
  BY DEF Sits, In
<1>2. NotOut(c) => NotOut(c)'
  <2>1. client[c].at = "gone" <=> client'[c].at = "gone"
    BY DEF ClientRight, Gone
  <2> QED BY <2>1 DEF NotOut
<1> QED BY <1>1, <1>2 DEF Plain

LEMMA ToldIs ==
    ASSUME TypeInv, NEW cs, NEW at, NEW c \in Clients
    PROVE  /\ Told(cs, at)[c].out = client[c].out
           /\ Told(cs, at)[c].at = IF c \in cs THEN at ELSE client[c].at
           /\ c \notin cs => Told(cs, at)[c] = client[c]
BY DEF Told, TypeInv

\* The descriptors stay distinct as they are.
LEMMA AllPlain ==
    ASSUME ClientsRight, fd' = fd, \A c \in Clients : ClientRight(c)'
    PROVE  ClientsRight'
BY DEF ClientsRight, Gone

LEMMA ConnectClients ==
    ASSUME TypeInv, TypeInv', ClientsRight, NEW c \in Clients, Connect(c)
    PROVE  /\ ClientsRight' /\ \A d \in Clients : Plain(d)
           /\ \A d \in Clients : d # c => fd'[d] = fd[d]
           /\ ~Sits(c) /\ fd'[c] # -1
           /\ \A a \in used : \A j \in SeatsOf(a) : mem[a].connfd[j] = fd'[c] => "reuse" \in past'
           /\ past \subseteq past' /\ UNCHANGED <<listVars, mem, chat>>
<1> DEFINE free == {f \in Descriptors : \A d \in Clients : fd[d] # f}
<1>1. PICK f : f = Min(free)
  OBVIOUS
<1>2. free # {} /\ fd' = [fd EXCEPT ![c] = f]
  BY <1>1 DEF Connect
<1>3. f \in free
  BY <1>1, <1>2, Constants, MinIsLowest
<1>4. f # -1 /\ \A d \in Clients : fd[d] # f
  BY <1>3, Constants
<1>5. fd'[c] = f /\ \A d \in Clients : d # c => fd'[d] = fd[d]
  BY <1>2 DEF TypeInv
<1>6. /\ client'[c].at = "menu" /\ client'[c].out = FALSE /\ client[c].at = "gone" /\ thr[c].pc = "none"
      /\ \A d \in Clients : d # c => client'[d] = client[d]
      /\ mail'[c] = Empty /\ \A d \in Clients : mail'[d] \in {mail[d], Empty}
      /\ UNCHANGED <<requests, listVars, mem, chat, thr, status>>
  BY ReadIs DEF Connect, TypeInv
<1>e. Empty.what = "none"
  BY DEF Empty
<1>7. \A d, e \in Clients : fd'[d] = fd'[e] /\ fd'[d] # -1 => d = e
  BY <1>4, <1>5 DEF ClientsRight, Gone
<1>8. Plain(c) /\ ~Sits(c)
  <2>1. ClientRight(c)'
    BY <1>4, <1>5, <1>6, <1>e DEF ClientsRight, ClientRight, Gone, Asking
  <2>2. ~Sits(c) /\ ~Sits(c)'
    BY <1>6 DEF Sits, In
  <2>3. NotOut(c)'
    BY <1>6 DEF NotOut
  <2> QED BY <2>1, <2>2, <2>3 DEF Plain
<1>9. \A d \in Clients : d # c => Plain(d)
  BY <1>5, <1>6, PlainSame DEF ClientsRight
<1>10. /\ \A a \in used : \A j \in SeatsOf(a) : mem[a].connfd[j] = f => "reuse" \in past'
       /\ past \subseteq past'
  BY <1>1 DEF Connect
<1> QED BY <1>4, <1>5, <1>6, <1>7, <1>8, <1>9, <1>10 DEF ClientsRight, Plain, Gone

LEMMA HangUpClients ==
    ASSUME TypeInv, TypeInv', ClientsRight, NEW c \in Clients, HangUp(c)
    PROVE  /\ ClientsRight' /\ \A d \in Clients : d # c => Plain(d) /\ fd'[d] = fd[d]
           /\ ~Sits(c)' /\ NotOut(c)' /\ fd'[c] = -1
           /\ past \subseteq past' /\ UNCHANGED <<listVars, mem, chat>>
<1>1. /\ fd'[c] = -1 /\ client'[c].at = "gone" /\ mail'[c] = Empty
      /\ \A d \in Clients : d # c => client'[d] = client[d] /\ fd'[d] = fd[d]
      /\ UNCHANGED <<mail, thr, connects, requests, listVars, mem, chat, status, past>>
  BY DEF HangUp, TypeInv
<1>2. Empty.what = "none"
  BY DEF Empty
<1>3. ClientRight(c)'
  BY <1>1, <1>2 DEF ClientsRight, ClientRight, Gone
<1>4. ~Sits(c)' /\ NotOut(c)'
  BY <1>1 DEF Sits, In, Gone, NotOut
<1>5. \A d \in Clients : d # c => Plain(d)
  BY <1>1, PlainSame DEF ClientsRight
<1>6. \A d, e \in Clients : fd'[d] = fd'[e] /\ fd'[d] # -1 => d = e
  BY <1>1 DEF ClientsRight, Gone
<1> QED BY <1>1, <1>3, <1>4, <1>5, <1>6 DEF ClientsRight, Plain, Gone

\* Another client's messages are read, or the model ends.
LEMMA IdleClients ==
    ASSUME TypeInv, ClientsRight, ReadElsewhere \/ (\E c \in Clients : Inherit(c))
    PROVE  /\ \A d \in Clients : Plain(d)
           /\ UNCHANGED <<client, fd, listVars, mem, chat, thr, past>>
<1>1. /\ UNCHANGED <<client, fd, listVars, mem, chat, thr, past>>
      /\ \A d \in Clients : mail'[d] \in {mail[d], Empty}
  BY ReadIs DEF ReadElsewhere, Inherit
<1> QED BY <1>1, PlainSame DEF ClientsRight

LEMMA AskClients ==
    ASSUME TypeInv, TypeInv', ClientsRight, NEW c \in Clients, Request(c) \/ Choose(c) \/ Type(c)
    PROVE  \A d \in Clients : Plain(d)
<1>0. ClientRight(c)
  BY DEF ClientsRight
<1>1. CASE Request(c)
  <2>1. PICK pc \in {"name", "ask"} :
          /\ pc = "name" => mail[c] = Empty
          /\ thr' = [thr EXCEPT ![c].pc = pc]
          /\ client' = [client EXCEPT ![c].at = IF pc = "name" THEN "naming" ELSE "asking"]
    BY <1>1 DEF Request
  <2>2. /\ client[c].at = "menu" /\ thr[c].pc = "none"
        /\ client'[c].at = IF pc = "name" THEN "naming" ELSE "asking"
        /\ client'[c].out = client[c].out /\ thr'[c].pc = pc
        /\ \A d \in Clients : d # c => client'[d] = client[d] /\ thr'[d] = thr[d]
        /\ UNCHANGED <<fd, mail>>
    BY <1>1, <2>1 DEF Request, TypeInv, ThreadState
  <2>3. ClientRight(c)'
    <3>1. mail[c].what \notin {"room", "id", "ready"}
      BY <1>0, <2>2 DEF ClientRight
    <3> QED BY <1>0, <2>1, <2>2, <3>1 DEF ClientRight, Gone, Asking
  <2>4. Plain(c)
    BY <1>0, <2>2, <2>3, PlainAsks
  <2> QED BY <2>2, <2>4, PlainSame DEF ClientsRight
<1>2. CASE Choose(c)
  <2>1. PICK m : /\ mail' = [mail EXCEPT ![c] = m]
                 /\ m.what = IF client[c].at = "naming" THEN "room" ELSE "id"
    <3>1. CASE client[c].at = "naming"
      <4>1. PICK m \in {[what |-> "room", arg |-> 0]} : mail' = [mail EXCEPT ![c] = m]
        BY <1>2, <3>1 DEF Choose
      <4>2. m.what = "room"
        OBVIOUS
      <4> QED BY <3>1, <4>1, <4>2
    <3>2. CASE client[c].at # "naming"
      <4>1. PICK m \in [what : {"id"}, arg : 1 .. MaxID] : mail' = [mail EXCEPT ![c] = m]
        BY <1>2, <3>2 DEF Choose
      <4> QED BY <3>2, <4>1
    <3> QED BY <3>1, <3>2
  <2>2. /\ client[c].at \in {"naming", "choosing"} /\ client'[c].at = "asking"
        /\ mail'[c].what = IF client[c].at = "naming" THEN "room" ELSE "id"
        /\ client'[c].out = client[c].out
        /\ \A d \in Clients : d # c => client'[d] = client[d] /\ mail'[d] = mail[d]
        /\ UNCHANGED <<fd, thr>>
    BY <1>2, <2>1 DEF Choose, TypeInv
  <2>3. ClientRight(c)' /\ thr[c].pc \in {"name", "getID"}
    BY <1>0, <2>2 DEF ClientRight, Gone, Asking
  <2>4. Plain(c)
    BY <1>0, <2>2, <2>3, PlainAsks
  <2> QED BY <2>2, <2>4, PlainSame DEF ClientsRight
<1>3. CASE Type(c)
  <2>0. client[c].at = "in" /\ mail[c].what = "none" /\ thr[c].pc \notin Asking /\ fd'[c] = fd[c] /\ thr' = thr
    BY <1>0, <1>3 DEF Type, Empty, ClientRight
  <2>1. PICK l \in Lines, d \in Clients \cup {NoOne} :
         IF client[c].out /\ l # "ready"
              THEN /\ client' = [client EXCEPT ![c] = [at |-> "menu", out |-> FALSE]]
                   /\ mail' = mail
              ELSE /\ client' = [client EXCEPT ![c].at = IF l = "ready" THEN "readying" ELSE "in"]
                   /\ mail' = [mail EXCEPT ![c] = [what |-> l, arg |-> d]]
    BY <1>3 DEF Type
  <2>2. \A e \in Clients : e # c => client'[e] = client[e] /\ mail'[e] = mail[e]
    BY <2>1 DEF TypeInv
  <2>3. Plain(c)
    <3>1. CASE client[c].out /\ l # "ready"
      <4>1. client'[c].at = "menu" /\ client'[c].out = FALSE /\ mail'[c] = mail[c] /\ client[c].out
        BY <2>1, <3>1 DEF TypeInv
      <4>2. ClientRight(c)'
        BY <1>0, <2>0, <4>1 DEF ClientRight, Gone
      <4>3. ~Sits(c) /\ ~Sits(c)'
        BY <2>0, <4>1 DEF Sits, In, Asking
      <4>4. NotOut(c)'
        BY <4>1 DEF NotOut
      <4> QED BY <4>2, <4>3, <4>4 DEF Plain
    <3>2. CASE ~(client[c].out /\ l # "ready")
      <4>1. PICK at : at = IF l = "ready" THEN "readying" ELSE "in"
        OBVIOUS
      <4>2. /\ client'[c].at = at /\ client'[c].out = client[c].out /\ mail'[c].what = l
            /\ l \notin {"id", "room"} /\ (l = "ready" => at = "readying") /\ at \in {"readying", "in"}
        BY <2>1, <3>2, <4>1, Constants DEF TypeInv
      <4>3. ClientRight(c)'
        BY <1>0, <2>0, <4>2 DEF ClientRight, Gone
      <4>4. Sits(c) <=> Sits(c)'
        BY <2>0, <4>2 DEF Sits, In, Asking
      <4>5. NotOut(c)'
        BY <4>2 DEF NotOut
      <4> QED BY <4>3, <4>4, <4>5 DEF Plain
    <3> QED BY <3>1, <3>2
  <2> QED BY <2>0, <2>2, <2>3, PlainSame, <1>3 DEF ClientsRight, Type
<1> QED BY <1>1, <1>2, <1>3

\* A thread that makes a room or asks for one goes on.
LEMMA StepRight ==
    ASSUME TypeInv, NEW c \in Clients, ClientRight(c), thr[c].pc \in Asking \ {"getID"},
           client'[c] = client[c], mail'[c] \in {mail[c], Empty}, fd'[c] = fd[c],
           thr[c].pc = "name" => mail[c] # Empty /\ mail'[c] = Empty,
           thr'[c].pc \in (Asking \ {"name", "getID"}) \cup {"none"}
    PROVE  ClientRight(c)'
<1>1. Empty.what = "none"
  BY DEF Empty
<1> QED BY <1>1 DEF ClientRight, Gone

LEMMA AskingAt ==
    ASSUME NEW c \in Clients, ClientRight(c), thr[c].pc \in Asking
    PROVE  /\ client[c].at \in {"naming", "asking", "choosing", "gone"} /\ mail[c].what # "ready"
           /\ client[c].at = "naming" \/ mail[c].what = "room" => thr[c].pc = "name"
           /\ client[c].at = "choosing" \/ mail[c].what = "id" => thr[c].pc = "getID"
           /\ client[c].at = "gone" => Gone(c)
BY DEF ClientRight

LEMMA MakersClients ==
    ASSUME TypeInv, TypeInv', ClientsRight, NEW c \in Clients,
           TestRoom(c) \/ InsertRoom(c) \/ NumberRoom(c) \/ TellMade(c) \/ StartChat(c), ~Dies({})
    PROVE  \A d \in Clients : Plain(d)
<1>0. ClientRight(c)
  BY DEF ClientsRight
<1>1. CASE TestRoom(c) \/ InsertRoom(c) \/ NumberRoom(c)
  <2>1. /\ thr[c].pc \in {"name", "insert", "number"} /\ UNCHANGED <<client, fd>>
        /\ \E t : thr' = [thr EXCEPT ![c] = t]
        /\ thr[c].pc = "name" => mail[c] # Empty /\ mail' = Read(c)
        /\ thr[c].pc # "name" => mail' = mail
    BY <1>1 DEF TestRoom, InsertRoom, NumberRoom, At, TypeInv
  <2>m. /\ \A d \in Clients : mail'[d] \in {mail[d], Empty}
        /\ thr[c].pc = "name" => mail'[c] = Empty
    BY <2>1, ReadIs
  <2>2. thr'[c].pc \in {"insert", "none", "number", "fill"}
    <3>1. CASE TestRoom(c)
      BY <3>1 DEF TestRoom, TypeInv, ThreadState
    <3>2. CASE InsertRoom(c)
      <4>1. \E a : thr' = [thr EXCEPT ![c] = [NoThread EXCEPT !.pc = "number", !.a = a]]
        BY <3>2 DEF InsertRoom
      <4> QED BY <4>1 DEF NoThread, TypeInv
    <3>3. CASE NumberRoom(c)
      BY <3>3 DEF NumberRoom, TypeInv, ThreadState
    <3> QED BY <1>1, <3>1, <3>2, <3>3
  <2>3. ClientRight(c)'
    BY <1>0, <2>1, <2>2, <2>m, StepRight DEF Asking
  <2>4. client[c].at \in {"naming", "asking", "choosing", "gone"}
    BY <1>0, <2>1, AskingAt DEF Asking
  <2>5. Plain(c)
    BY <1>0, <2>1, <2>2, <2>3, <2>4, PlainAsks
  <2>6. \A d \in Clients : d # c => thr'[d] = thr[d]
    BY <2>1 DEF TypeInv
  <2> QED BY <2>1, <2>5, <2>6, <2>m, PlainSame DEF ClientsRight
<1>2. CASE TellMade(c)
  <2>1. /\ thr' = [thr EXCEPT ![c] = IF Gone(c) THEN NoThread ELSE [thr[c] EXCEPT !.pc = "start"]]
        /\ client' = IF Gone(c) THEN client ELSE Told({c}, "in")
        /\ UNCHANGED <<fd, mail>> /\ thr[c].pc = "made"
    BY <1>2 DEF TellMade, At
  <2>2. /\ thr'[c].pc = IF Gone(c) THEN "none" ELSE "start"
        /\ \A d \in Clients : d # c => thr'[d] = thr[d]
    BY <2>1, StatesAre DEF TypeInv, ThreadState
  <2>3. \A d \in Clients : d # c => client'[d] = client[d]
    BY <2>1, ToldIs
  <2>4. client[c].at \in {"naming", "asking", "choosing", "gone"} /\ mail[c].what \notin {"ready", "id", "room"}
    BY <1>0, <2>1, AskingAt DEF Asking
  <2>5. Plain(c)
    <3>1. CASE Gone(c)
      <4>1. client' = client /\ client[c].at = "gone" /\ thr'[c].pc = "none"
        BY <1>0, <2>1, <2>2, <3>1 DEF ClientRight
      <4>2. ClientRight(c)'
        BY <1>0, <2>1, <4>1 DEF ClientRight, Gone, Asking
      <4>3. ~Sits(c) /\ ~Sits(c)' /\ NotOut(c)'
        BY <2>1, <3>1, <4>1 DEF Sits, In, NotOut
      <4> QED BY <4>2, <4>3 DEF Plain
    <3>2. CASE ~Gone(c)
      <4>1. client'[c].at = "in" /\ client'[c].out = client[c].out /\ thr'[c].pc = "start"
        BY <2>1, <2>2, <3>2, ToldIs
      <4>2. ClientRight(c)'
        BY <2>1, <2>4, <3>2, <4>1 DEF ClientRight, Gone, Asking
      <4>3. Sits(c)' <=> Sits(c)
        BY <2>1, <2>4, <3>2, <4>1 DEF Sits, In
      <4>4. NotOut(c)'
        BY <4>1 DEF NotOut
      <4> QED BY <4>2, <4>3, <4>4 DEF Plain
    <3> QED BY <3>1, <3>2
  <2> QED BY <2>1, <2>2, <2>3, <2>5, PlainSame DEF ClientsRight
<1>3. CASE StartChat(c)
  <2>1. thr' = [thr EXCEPT ![c] = NoThread] /\ thr[c].pc = "start" /\ UNCHANGED <<client, fd, mail>>
    BY <1>3 DEF StartChat, At
  <2>2. thr'[c].pc = "none" /\ \A d \in Clients : d # c => thr'[d] = thr[d]
    BY <2>1, StatesAre DEF TypeInv
  <2>3. ClientRight(c)'
    BY <1>0, <2>1, <2>2 DEF ClientRight, Gone, Asking
  <2>4. (Sits(c)' <=> Sits(c)) /\ (NotOut(c) => NotOut(c)')
    BY <2>1, <2>2 DEF Sits, In, NotOut, Gone
  <2> QED BY <2>1, <2>2, <2>3, <2>4, PlainSame DEF ClientsRight, Plain
<1> QED BY <1>1, <1>2, <1>3

LEMMA EnterersClients ==
    ASSUME TypeInv, TypeInv', ListInv, ClientsRight, NEW c \in Clients,
           \/ AskRooms(c) \/ ListRoom(c) \/ ShowRoom(c) \/ FindSeat(c) \/ TellEntered(c) \/ Welcome(c),
           \A why : ~Dies(why), status' = status
    PROVE  \A d \in Clients : Plain(d)
<1>0. ClientRight(c)
  BY DEF ClientsRight
<1>1. CASE AskRooms(c)
  <2>1. /\ thr' = [thr EXCEPT ![c] = IF roomNum = 0 THEN NoThread ELSE [thr[c] EXCEPT !.pc = "list"]]
        /\ client' = IF roomNum = 0 /\ ~Gone(c) THEN Told({c}, "menu") ELSE client
        /\ UNCHANGED <<fd, mail>> /\ thr[c].pc = "ask"
    BY <1>1 DEF AskRooms, At, TypeInv
  <2>2. /\ thr'[c].pc = IF roomNum = 0 THEN "none" ELSE "list"
        /\ \A d \in Clients : d # c => thr'[d] = thr[d]
    BY <2>1, StatesAre DEF TypeInv, ThreadState
  <2>3. /\ \A d \in Clients : d # c => client'[d] = client[d]
        /\ client'[c].out = client[c].out
        /\ client'[c].at = client[c].at \/ (client'[c].at = "menu" /\ ~Gone(c) /\ thr'[c].pc = "none")
    BY <2>1, <2>2, ToldIs
  <2>4. client[c].at \in {"asking", "gone"} /\ mail[c].what \notin {"ready", "id", "room"}
    BY <1>0, <2>1, AskingAt DEF Asking
  <2>5. ClientRight(c)'
    BY <1>0, <2>1, <2>2, <2>3, <2>4 DEF ClientRight, Gone, Asking
  <2>6. Plain(c)
    <3>1. client[c].at \in {"menu", "naming", "asking", "choosing", "gone"} /\ thr[c].pc \notin {"made", "entered"}
      BY <2>1, <2>4
    <3>2. client'[c].at \in {"menu", "naming", "asking", "choosing", "gone"} /\ thr'[c].pc \notin {"made", "entered"}
      BY <2>2, <2>3, <2>4
    <3>3. fd'[c] = fd[c] /\ client'[c].out = client[c].out
      BY <2>1, <2>3
    <3> QED BY <1>0, <2>5, <3>1, <3>2, <3>3, PlainAsks
  <2> QED BY <2>1, <2>2, <2>3, <2>6, PlainSame DEF ClientsRight
<1>2. CASE ListRoom(c)
  <2> DEFINE next == {i \in Entries \ Holes : i >= thr[c].i}
  <2>1. /\ thr' = [thr EXCEPT ![c] =
                      IF Gone(c) THEN NoThread
                      ELSE IF next = {} THEN [NoThread EXCEPT !.pc = "getID"]
                      ELSE [thr[c] EXCEPT !.pc = "show", !.i = Min(next)]]
        /\ client' = IF Gone(c) \/ next # {} THEN client ELSE Told({c}, "choosing")
        /\ UNCHANGED <<fd, mail>> /\ thr[c].pc = "list"
    BY <1>2 DEF ListRoom, At
  <2>2. /\ thr'[c].pc = IF Gone(c) THEN "none" ELSE IF next = {} THEN "getID" ELSE "show"
        /\ \A d \in Clients : d # c => thr'[d] = thr[d]
    BY <2>1 DEF TypeInv, ThreadState, NoThread
  <2> HIDE DEF next
  <2>3. /\ \A d \in Clients : d # c => client'[d] = client[d]
        /\ client'[c].out = client[c].out
        /\ client'[c].at = client[c].at \/ (client'[c].at = "choosing" /\ ~Gone(c) /\ thr'[c].pc = "getID")
    BY <2>1, <2>2, ToldIs
  <2>4. client[c].at \in {"asking", "gone"} /\ mail[c].what \notin {"ready", "id", "room"}
    BY <1>0, <2>1, AskingAt DEF Asking
  <2>5. ClientRight(c)'
    BY <1>0, <2>1, <2>2, <2>3, <2>4 DEF ClientRight, Gone, Asking
  <2>6. Plain(c)
    <3>1. client[c].at \in {"menu", "naming", "asking", "choosing", "gone"} /\ thr[c].pc \notin {"made", "entered"}
      BY <2>1, <2>4
    <3>2. client'[c].at \in {"menu", "naming", "asking", "choosing", "gone"} /\ thr'[c].pc \notin {"made", "entered"}
      BY <2>2, <2>3, <2>4
    <3>3. fd'[c] = fd[c] /\ client'[c].out = client[c].out
      BY <2>1, <2>3
    <3> QED BY <1>0, <2>5, <3>1, <3>2, <3>3, PlainAsks
  <2> QED BY <2>1, <2>2, <2>3, <2>6, PlainSame DEF ClientsRight
<1>3. CASE ShowRoom(c)
  <2>1. /\ thr' = [thr EXCEPT ![c] = [thr[c] EXCEPT !.pc = "list", !.i = thr[c].i + 1]]
        /\ UNCHANGED <<client, fd, mail>> /\ thr[c].pc = "show"
    BY <1>3 DEF ShowRoom, At
  <2>2. thr'[c].pc = "list" /\ \A d \in Clients : d # c => thr'[d] = thr[d]
    BY <2>1 DEF TypeInv, ThreadState
  <2>3. ClientRight(c)'
    BY <1>0, <2>1, <2>2, StepRight DEF Asking
  <2>4. client[c].at \in {"naming", "asking", "choosing", "gone"}
    BY <1>0, <2>1, AskingAt DEF Asking
  <2>5. Plain(c)
    BY <1>0, <2>1, <2>2, <2>3, <2>4, PlainAsks
  <2> QED BY <2>1, <2>2, <2>5, PlainSame DEF ClientsRight
<1>4. CASE FindSeat(c)
  <2>0. thr[c].pc = "getID" /\ Empty.what = "none"
    BY <1>4 DEF FindSeat, At, Empty
  <2>1. client[c].at \in {"naming", "asking", "choosing", "gone"} /\ mail[c].what # "ready"
    BY <1>0, <2>0, AskingAt DEF Asking
  <2>2. CASE thr' # thr
    <3>1. PICK a \in Cells : Found(c, a)
      BY <1>4, <2>2, FoundIs
    <3>2. /\ client[c].at = "asking" /\ thr'[c].pc = "take" /\ mail'[c] = Empty
          /\ UNCHANGED <<client, fd>>
          /\ \A d \in Clients : d # c => thr'[d] = thr[d] /\ mail'[d] \in {mail[d], Empty}
      BY <1>0, <3>1, ReadIs DEF Found, ClientRight
    <3>3. ClientRight(c)'
      BY <1>0, <2>0, <3>2 DEF ClientRight, Gone, Asking
    <3>4. Plain(c)
      BY <1>0, <2>0, <3>2, <3>3, PlainAsks
    <3> QED BY <3>2, <3>4, PlainSame DEF ClientsRight
  <2>3. CASE thr' = thr
    <3>1. client' \in {client, Told({c}, "choosing")} /\ fd' = fd /\ mail' = Read(c)
      BY <1>4 DEF FindSeat
    <3>2. /\ mail'[c] = Empty /\ mail'[c].what = "none"
          /\ \A d \in Clients : mail'[d] \in {mail[d], Empty}
      BY <2>0, <3>1, ReadIs
    <3>3. /\ client'[c].at \in {client[c].at, "choosing"} /\ client'[c].out = client[c].out
          /\ \A d \in Clients : d # c => client'[d] = client[d]
      BY <3>1, ToldIs
    <3>4. ~Gone(c)
      BY <1>0, <1>4, <2>0 DEF ClientRight, FindSeat
    <3>5. ClientRight(c)'
      BY <1>0, <2>0, <2>1, <2>3, <3>1, <3>2, <3>3, <3>4 DEF ClientRight, Gone, Asking
    <3>6. Plain(c)
      BY <1>0, <2>0, <2>1, <2>3, <3>1, <3>3, <3>5, PlainAsks
    <3> QED BY <2>3, <3>1, <3>2, <3>3, <3>6, PlainSame DEF ClientsRight
  <2> QED BY <2>2, <2>3
<1>5. CASE TellEntered(c)
  <2>1. /\ thr' = [thr EXCEPT ![c] = IF Gone(c) THEN NoThread ELSE [thr[c] EXCEPT !.pc = "welcome"]]
        /\ client' = IF Gone(c) THEN client ELSE Told({c}, "in")
        /\ UNCHANGED <<fd, mail>> /\ thr[c].pc = "entered"
    BY <1>5 DEF TellEntered, At
  <2>2. /\ thr'[c].pc = IF Gone(c) THEN "none" ELSE "welcome"
        /\ \A d \in Clients : d # c => thr'[d] = thr[d]
    BY <2>1, StatesAre DEF TypeInv, ThreadState
  <2>3. \A d \in Clients : d # c => client'[d] = client[d]
    BY <2>1, ToldIs
  <2>4. client[c].at \in {"naming", "asking", "choosing", "gone"} /\ mail[c].what \notin {"ready", "id", "room"}
    BY <1>0, <2>1, AskingAt DEF Asking
  <2>5. Plain(c)
    <3>1. CASE Gone(c)
      <4>1. client' = client /\ client[c].at = "gone" /\ thr'[c].pc = "none"
        BY <1>0, <2>1, <2>2, <3>1 DEF ClientRight
      <4>2. ClientRight(c)'
        BY <1>0, <2>1, <4>1 DEF ClientRight, Gone, Asking
      <4>3. ~Sits(c) /\ ~Sits(c)' /\ NotOut(c)'
        BY <2>1, <3>1, <4>1 DEF Sits, In, NotOut
      <4> QED BY <4>2, <4>3 DEF Plain
    <3>2. CASE ~Gone(c)
      <4>1. client'[c].at = "in" /\ client'[c].out = client[c].out /\ thr'[c].pc = "welcome"
        BY <2>1, <2>2, <3>2, ToldIs
      <4>2. ClientRight(c)'
        BY <2>1, <2>4, <3>2, <4>1 DEF ClientRight, Gone, Asking
      <4>3. Sits(c)' <=> Sits(c)
        BY <2>1, <2>4, <3>2, <4>1 DEF Sits, In
      <4>4. NotOut(c)'
        BY <4>1 DEF NotOut
      <4> QED BY <4>2, <4>3, <4>4 DEF Plain
    <3> QED BY <3>1, <3>2
  <2> QED BY <2>1, <2>2, <2>3, <2>5, PlainSame DEF ClientsRight
<1>6. CASE Welcome(c)
  <2>1. thr' = [thr EXCEPT ![c] = NoThread] /\ thr[c].pc = "welcome" /\ UNCHANGED <<client, fd, mail>>
    BY <1>6 DEF Welcome, At
  <2>2. thr'[c].pc = "none" /\ \A d \in Clients : d # c => thr'[d] = thr[d]
    BY <2>1, StatesAre DEF TypeInv
  <2>3. ClientRight(c)'
    BY <1>0, <2>1, <2>2 DEF ClientRight, Gone, Asking
  <2>4. (Sits(c)' <=> Sits(c)) /\ (NotOut(c) => NotOut(c)')
    BY <2>1, <2>2 DEF Sits, In, NotOut, Gone
  <2> QED BY <2>1, <2>2, <2>3, <2>4, PlainSame DEF ClientsRight, Plain
<1> QED BY <1>1, <1>2, <1>3, <1>4, <1>5, <1>6

\* A player whom the thread of a room has told that he is out of it
Ousted(a, c) ==
    /\ ClientRight(c)' /\ ~Gone(c) /\ client'[c].at = client[c].at /\ client'[c].out
    /\ chat[a].pc = "get" /\ chat'[a].pc = "quit" /\ mem' = mem /\ past \subseteq past'
    /\ chat'[a].j \in SeatsOf(a) /\ mem[a].connfd[chat'[a].j] = fd[c]

\* A player of a game, or who has typed that he is ready
LEMMA PlainPlays ==
    ASSUME TypeInv, NEW c \in Clients, ClientRight(c), thr'[c] = thr[c], fd'[c] = fd[c],
           client'[c].out = client[c].out,
           client[c].at \in {"readying", "ready"}, client'[c].at \in {"in", "ready"},
           mail'[c].what \notin {"ready", "id", "room"}
    PROVE  Plain(c)
<1>1. ClientRight(c)'
  BY DEF ClientRight, Gone
<1>2. Sits(c)' <=> Sits(c)
  BY DEF Sits, In, ClientRight, Gone, Asking
<1>3. NotOut(c)'
  BY DEF NotOut
<1> QED BY <1>1, <1>2, <1>3 DEF Plain

LEMMA OutIs ==
    ASSUME TypeInv, NEW a \in Cells, NEW c \in Clients, ClientRight(c), ~Gone(c),
           thr'[c] = thr[c], fd'[c] = fd[c], mail'[c] \in {mail[c], Empty},
           client'[c].at = client[c].at, client'[c].out = TRUE, mem' = mem, past \subseteq past',
           NEW j \in SeatsOf(a), NEW why,
           Quits(a, j, why), chat[a].pc = "get", mem[a].connfd[j] = fd[c]
    PROVE  Ousted(a, c)
<1>1. chat'[a].pc = "quit" /\ chat'[a].j = j
  BY DEF Quits, TypeInv, ChatState
<1>2. Empty.what = "none"
  BY DEF Empty
<1>3. ClientRight(c)'
  BY <1>2 DEF ClientRight, Gone
<1> QED BY <1>1, <1>3 DEF Ousted

\* Whoever has the seat for which quitRoom is called is ousted.
Ousts(a) ==
    Calls(a) => \A d \in Clients : mem[a].connfd[chat'[a].j] = fd[d] /\ ~Gone(d) => Ousted(a, d)

LEMMA OustsNobody ==
    ASSUME NEW a, chat[a].pc \notin {"chat", "get", "break"} \/ chat'[a].pc # "quit"
           \/ Closed(mem[a].connfd[chat'[a].j])
    PROVE  Ousts(a)
<1>1. CASE chat[a].pc \notin {"chat", "get", "break"} \/ chat'[a].pc # "quit"
  BY <1>1 DEF Ousts, Calls
<1>2. CASE Closed(mem[a].connfd[chat'[a].j])
  BY <1>2 DEF Ousts, Closed
<1> QED BY <1>1, <1>2

LEMMA ReadsClients ==
    ASSUME TypeInv, TypeInv', ClientsRight, NEW a \in Cells, NEW j \in Seats, NEW c \in Clients, Reads(a, j, c)
    PROVE  /\ fd' = fd /\ thr' = thr
           /\ \A d \in Clients : Plain(d) \/ Ousted(a, d)
           /\ Ousts(a)
<1>0. ClientRight(c) /\ Empty.what = "none"
  BY DEF ClientsRight, Empty
<1>0a. chat[a].pc = "get"
  BY DEF Reads, ReadChat, ReadReady, ReadQuit, ReadKick, ReadInvite, Gets, Doing
<1>0b. chat' = chat \/ LooksOn(a) => Ousts(a)
  BY <1>0a, OustsNobody, LooksOnIs
<1>1. CASE \E why : Dies(why)
  BY <1>0b, <1>1, PlainSame DEF Dies, ClientsRight
<1>2. ASSUME ~\E why : Dies(why) PROVE mail' = Read(c)
  BY <1>2 DEF Reads, ReadChat, ReadReady, ReadQuit, ReadKick, ReadInvite
<1>3. ASSUME ~\E why : Dies(why)
      PROVE  mail'[c] = Empty /\ \A d \in Clients : mail'[d] \in {mail[d], Empty}
  BY <1>2, <1>3, ReadIs
<1>4. ASSUME ~\E why : Dies(why), client' = client, fd' = fd, thr' = thr
      PROVE  \A d \in Clients : Plain(d)
  BY <1>3, <1>4, PlainSame DEF ClientsRight
<1>5. CASE ReadChat(a, j, c) \/ ReadInvite(a, j, c)
  BY <1>0b, <1>1, <1>4, <1>5 DEF ReadChat, ReadInvite
<1>6. CASE ReadReady(a, j, c)
  <2>0. ~(\E why : Dies(why)) => LooksOn(a)
    BY <1>6 DEF ReadReady
  <2> SUFFICES ASSUME ~\E why : Dies(why) PROVE fd' = fd /\ thr' = thr /\ \A d \in Clients : Plain(d)
    BY <1>0b, <1>1, <2>0
  <2>1. client' = Told({c}, "ready") /\ fd' = fd /\ thr' = thr /\ mail[c].what = "ready"
    BY <1>6 DEF ReadReady
  <2>2. client'[c].at = "ready" /\ client'[c].out = client[c].out /\ client[c].at = "readying"
    BY <1>0, <2>1, ToldIs DEF ClientRight
  <2>3. Plain(c)
    BY <1>0, <1>3, <2>1, <2>2, PlainPlays
  <2>4. \A d \in Clients : d # c => client'[d] = client[d]
    BY <2>1, ToldIs
  <2> QED BY <1>3, <2>1, <2>3, <2>4, PlainSame DEF ClientsRight
<1>7. CASE ReadQuit(a, j, c)
  <2> SUFFICES ASSUME ~\E why : Dies(why)
               PROVE  fd' = fd /\ thr' = thr /\ Ousts(a) /\ \A d \in Clients : Plain(d) \/ Ousted(a, d)
    BY <1>1
  <2>1. /\ client' = [client EXCEPT ![c].out = TRUE] /\ fd' = fd /\ thr' = thr /\ mem' = mem
        /\ past' = past /\ Quits(a, j, "quit")
    BY <1>7 DEF ReadQuit
  <2>2. /\ j \in SeatsOf(a) /\ mem[a].connfd[j] = fd[c] /\ ~Gone(c) /\ chat[a].pc = "get"
    BY <1>0a, <1>7 DEF ReadQuit, Gets, Mail
  <2>3. /\ client'[c].at = client[c].at /\ client'[c].out = TRUE
        /\ \A d \in Clients : d # c => client'[d] = client[d]
    BY <2>1 DEF TypeInv
  <2>4. Ousted(a, c)
    BY <1>0, <1>3, <2>1, <2>2, <2>3, OutIs
  <2>5. chat'[a].j = j
    BY <2>1 DEF Quits, TypeInv, ChatState
  <2>6. Ousts(a)
    BY <2>2, <2>4, <2>5 DEF Ousts, ClientsRight
  <2> QED BY <1>3, <2>1, <2>3, <2>4, <2>6, PlainSame DEF ClientsRight
<1>8. CASE ReadKick(a, j, c)
  <2> SUFFICES ASSUME ~\E why : Dies(why)
               PROVE  fd' = fd /\ thr' = thr /\ Ousts(a) /\ \A d \in Clients : Plain(d) \/ Ousted(a, d)
    BY <1>1
  <2>1. PICK k : k = SeatOf(a, mail[c].arg)
    OBVIOUS
  <2>2. /\ fd' = fd /\ thr' = thr /\ mem' = mem /\ past \subseteq past' /\ Quits(a, k, "kick")
        /\ k # mem[a].size /\ chat[a].pc = "get"
        /\ client' = [e \in Clients |-> IF fd[e] = mem[a].connfd[k] /\ ~Gone(e)
                                          THEN [client[e] EXCEPT !.out = TRUE] ELSE client[e]]
    BY <1>0a, <1>8, <2>1 DEF ReadKick
  <2>3. k \in SeatsOf(a)
    BY <2>1, <2>2, SeatOfIs
  <2>4. \A d \in Clients :
          IF fd[d] = mem[a].connfd[k] /\ ~Gone(d)
            THEN client'[d].at = client[d].at /\ client'[d].out = TRUE ELSE client'[d] = client[d]
    BY <2>2 DEF TypeInv
  <2>5. fd' = fd /\ thr' = thr /\ mem' = mem /\ past \subseteq past' /\ Quits(a, k, "kick")
    BY <2>2
  <2>6. ASSUME NEW d \in Clients, fd[d] = mem[a].connfd[k], ~Gone(d) PROVE Ousted(a, d)
    BY <1>3, <2>2, <2>3, <2>4, <2>5, <2>6, OutIs DEF ClientsRight
  <2>7. ASSUME NEW d \in Clients, ~(fd[d] = mem[a].connfd[k] /\ ~Gone(d)) PROVE Plain(d)
    <3>1. client'[d] = client[d]
      BY <2>4, <2>7
    <3> QED BY <1>3, <2>5, <3>1, PlainSame DEF ClientsRight
  <2>8. chat'[a].j = k
    BY <2>5 DEF Quits, TypeInv, ChatState
  <2>9. Ousts(a)
    BY <2>6, <2>8 DEF Ousts
  <2> QED BY <2>5, <2>6, <2>7, <2>9
<1> QED BY <1>5, <1>6, <1>7, <1>8 DEF Reads

LEMMA ChatClients ==
    ASSUME TypeInv, TypeInv', ClientsRight, NEW a \in Cells, RunChat(a) \/ PlayGame(a)
    PROVE  /\ fd' = fd /\ thr' = thr
           /\ \A d \in Clients : Plain(d) \/ Ousted(a, d)
           /\ Ousts(a)
<1>1. ASSUME NEW j \in Seats, Notice(a, j)
      PROVE  UNCHANGED <<client, fd, mail, thr>> /\ Ousts(a)
  <2>1. chat' = chat \/ (Quits(a, j, "lost") /\ Closed(mem[a].connfd[j]))
    BY <1>1 DEF Notice, Dies, Lost
  <2>2. chat' = chat => chat'[a].pc # "quit"
    BY <1>1 DEF Notice, Doing
  <2>3. Quits(a, j, "lost") => chat'[a].j = j
    BY DEF Quits, TypeInv, ChatState
  <2>4. Ousts(a)
    BY <2>1, <2>2, <2>3, OustsNobody
  <2> QED BY <1>1, <2>4 DEF Notice, Dies
<1>2. CASE Leaves(a) \/ StartGame(a) \/ BreakGame(a) \/ BreakSeat(a)
  <2>1. UNCHANGED <<client, fd, mail, thr>>
    BY <1>2 DEF Leaves, QuitRoom, CountOff, LeaveSeat, AfterLeaving, DeleteRoom, UncountRoom, StartGame,
                BreakGame, BreakSeat, Dies
  <2>2. CASE Leaves(a) \/ BreakGame(a)
    <3>1. chat[a].pc \notin {"chat", "get", "break"}
      BY <2>2 DEF Leaves, QuitRoom, CountOff, LeaveSeat, AfterLeaving, DeleteRoom, UncountRoom, BreakGame, Doing
    <3> QED BY <2>1, <3>1, OustsNobody, PlainSame DEF ClientsRight
  <2>3. CASE StartGame(a)
    <3>1. chat'[a].pc # "quit"
      BY <2>3 DEF StartGame, Dies, Doing, TypeInv, ChatState
    <3> QED BY <2>1, <3>1, OustsNobody, PlainSame DEF ClientsRight
  <2>4. CASE BreakSeat(a)
    <3>1. CASE Closed(mem[a].connfd[chat[a].j])
      <4>1. chat'[a].j = chat[a].j
        BY <2>4, <3>1 DEF BreakSeat, Quits, TypeInv, ChatState
      <4> QED BY <2>1, <3>1, <4>1, OustsNobody, PlainSame DEF ClientsRight
    <3>2. CASE ~Closed(mem[a].connfd[chat[a].j])
      <4>1. chat'[a].pc # "quit"
        BY <2>4, <3>2 DEF BreakSeat, Doing, TypeInv, ChatState
      <4> QED BY <2>1, <4>1, OustsNobody, PlainSame DEF ClientsRight
    <3> QED BY <3>1, <3>2
  <2> QED BY <1>2, <2>2, <2>3, <2>4
<1>3. CASE EndGame(a) \/ BreakOff(a)
  <2>1. PICK cs : /\ client' = Told(cs, "in") /\ \A c \in cs : c \in Clients /\ client[c].at = "ready"
    BY <1>3 DEF EndGame, BreakOff, BackToChat
  <2>2. UNCHANGED <<fd, thr, mail>>
    BY <1>3 DEF EndGame, BreakOff, BackToChat
  <2>2a. chat'[a].pc # "quit"
    <3>1. chat' = [chat EXCEPT ![a] = [NoChat EXCEPT !.pc = "chat"]]
      BY <1>3 DEF EndGame, BreakOff, BackToChat
    <3> QED BY <3>1 DEF NoChat, TypeInv
  <2>2b. Ousts(a)
    BY <2>2a, OustsNobody
  <2>3. ASSUME NEW d \in Clients PROVE Plain(d)
    <3>0. ClientRight(d)
      BY DEF ClientsRight
    <3>1. CASE d \in cs
      <4>1. client'[d].at = "in" /\ client'[d].out = client[d].out /\ client[d].at = "ready"
        BY <2>1, <3>1, ToldIs
      <4>2. mail'[d].what \notin {"ready", "id", "room"}
        BY <2>2, <3>0, <4>1 DEF ClientRight
      <4> QED BY <2>2, <3>0, <4>1, <4>2, PlainPlays
    <3>2. CASE d \notin cs
      <4>1. client'[d] = client[d]
        BY <2>1, <3>2, ToldIs
      <4> QED BY <2>2, <3>0, <4>1, PlainSame
    <3> QED BY <3>1, <3>2
  <2> QED BY <2>2, <2>2b, <2>3
<1>4. ASSUME NEW j \in Seats, NEW c \in Clients, Reads(a, j, c)
      PROVE  /\ fd' = fd /\ thr' = thr /\ Ousts(a) /\ \A d \in Clients : Plain(d) \/ Ousted(a, d)
  BY <1>4, ReadsClients
<1>5. ASSUME NEW j \in Seats, Look(a, j)
      PROVE  UNCHANGED <<client, fd, mail, thr>> /\ Ousts(a)
  <2>1. PICK k : k = [NoChat EXCEPT !.pc = "get", !.j = j]
    OBVIOUS
  <2>2. chat'[a] = k /\ k.pc = "get"
    BY <1>5, <2>1 DEF Look, NoChat, TypeInv
  <2> QED BY <1>5, <2>2, OustsNobody DEF Look
<1>6. CASE Reread(a)
  <2>1. UNCHANGED <<client, fd, mail, thr>>
    BY <1>6, RereadGoes DEF Goes, Elsewhere, Dies
  <2>2. CASE Quits(a, chat[a].j, "quit")
    <3>1. chat'[a].j = chat[a].j
      BY <2>2 DEF Quits, TypeInv, ChatState
    <3>2. Closed(mem[a].connfd[chat[a].j])
      BY <1>6 DEF Reread, Lost
    <3> QED BY <2>1, <3>1, <3>2, OustsNobody, PlainSame DEF ClientsRight
  <2>3. CASE LooksOn(a) \/ chat' = chat
    <3>1. chat'[a].pc # "quit"
      BY <1>6, <2>3, LooksOnIs DEF Reread, Doing
    <3> QED BY <2>1, <3>1, OustsNobody, PlainSame DEF ClientsRight
  <2>4. Quits(a, chat[a].j, "quit") \/ LooksOn(a) \/ chat' = chat
    BY <1>6 DEF Reread, Dies
  <2> QED BY <2>2, <2>3, <2>4
<1> QED BY <1>1, <1>2, <1>3, <1>4, <1>5, <1>6, PlainSame DEF RunChat, PlayGame, ClientsRight

\* FillRoom and TakeSeat, whose players begin to sit
LEMMA SitsDown ==
    ASSUME TypeInv, TypeInv', ClientsRight, NEW c \in Clients, FillRoom(c) \/ TakeSeat(c), ~Dies({})
    PROVE  /\ UNCHANGED <<client, fd, mail>> /\ \A d \in Clients : d # c => Plain(d)
           /\ ClientRight(c)' /\ ~Sits(c) /\ NotOut(c)'
           /\ thr[c].pc \in {"fill", "take"} /\ thr'[c].pc \in {"made", "entered"}
           /\ NotOut(c) /\ ~Gone(c) => ~client'[c].out
<1>1. /\ UNCHANGED <<client, fd, mail>> /\ thr[c].pc \in {"fill", "take"}
      /\ \E pc \in {"made", "entered"} : thr' = [thr EXCEPT ![c].pc = pc]
  BY DEF FillRoom, TakeSeat, At
<1>2. thr'[c].pc \in {"made", "entered"} /\ \A d \in Clients : d # c => thr'[d] = thr[d]
  BY <1>1 DEF TypeInv, ThreadState
<1>3. ClientRight(c)
  BY DEF ClientsRight
<1>4. client[c].at \in {"asking", "gone"}
  BY <1>1, <1>3, AskingAt DEF Asking
<1>5. ClientRight(c)'
  BY <1>1, <1>2, <1>3, StepRight DEF Asking
<1>6. ~Sits(c) /\ NotOut(c)'
  BY <1>1, <1>2, <1>4 DEF Sits, In, NotOut
<1>7. NotOut(c) /\ ~Gone(c) => ~client'[c].out
  BY <1>1, <1>3, <1>4 DEF NotOut, ClientRight
<1> QED BY <1>1, <1>2, <1>5, <1>6, <1>7, PlainSame DEF ClientsRight

LEMMA ServesClients ==
    ASSUME TypeInv, TypeInv', ListInv, ClientsRight, NEW c \in Clients, Serves(c),
           ~FillRoom(c), ~TakeSeat(c)
    PROVE  fd' = fd /\ \A d \in Clients : Plain(d)
<1>1. CASE \E why : Dies(why)
  BY <1>1, PlainSame DEF Dies, ClientsRight
<1>2. CASE TestRoom(c) \/ InsertRoom(c) \/ NumberRoom(c) \/ TellMade(c) \/ StartChat(c)
  <2>1. ~Dies({}) => fd' = fd
    BY <1>2 DEF TestRoom, InsertRoom, NumberRoom, TellMade, StartChat
  <2> QED BY <1>1, <1>2, <2>1, MakersClients
<1>3. CASE AskRooms(c) \/ ListRoom(c) \/ ShowRoom(c) \/ FindSeat(c) \/ TellEntered(c) \/ Welcome(c)
  <2> SUFFICES ASSUME \A why : ~Dies(why) PROVE fd' = fd /\ \A d \in Clients : Plain(d)
    BY <1>1
  <2>1. fd' = fd
    BY <1>3 DEF AskRooms, ListRoom, ShowRoom, FindSeat, TellEntered, Welcome
  <2>2. CASE status' = status
    BY <1>3, <2>1, <2>2, EnterersClients
  <2>3. CASE status' # status
    <3>1. FindSeat(c)
      BY <1>3, <2>3 DEF AskRooms, ListRoom, ShowRoom, TellEntered, Welcome
    <3>2. UNCHANGED <<client, thr>> /\ mail' = Read(c)
      BY <2>3, <3>1 DEF FindSeat
    <3>3. \A d \in Clients : mail'[d] \in {mail[d], Empty}
      BY <3>2, ReadIs
    <3> QED BY <2>1, <3>2, <3>3, PlainSame DEF ClientsRight
  <2> QED BY <2>2, <2>3
<1> QED BY <1>2, <1>3 DEF Serves

LEMMA ClientsInit == Init => ClientsRight
<1> SUFFICES ASSUME Init PROVE ClientsRight
  OBVIOUS
<1>1. \A c \in Clients : /\ client[c].at = "gone" /\ fd[c] = -1 /\ mail[c] = Empty /\ mail[c].what = "none"
                         /\ thr[c].pc = "none"
  BY StatesAre DEF Init, Empty
<1> QED BY <1>1 DEF ClientsRight, ClientRight, Gone, Asking

LEMMA ClientsNext == TypeInv /\ TypeInv' /\ ListInv /\ ClientsRight /\ [Next]_vars => ClientsRight'
<1> SUFFICES ASSUME TypeInv, TypeInv', ListInv, ClientsRight, [Next]_vars PROVE ClientsRight'
  OBVIOUS
<1>1. CASE UNCHANGED vars
  BY <1>1, PlainSame, AllPlain DEF ClientsRight, Plain
<1>2. ASSUME NEW c \in Clients, Connect(c) \/ HangUp(c) PROVE ClientsRight'
  BY <1>2, ConnectClients, HangUpClients
<1>3. ASSUME NEW c \in Clients, Request(c) \/ Choose(c) \/ Type(c) PROVE ClientsRight'
  <2>1. fd' = fd
    BY <1>3 DEF Request, Choose, Type
  <2> QED BY <1>3, <2>1, AskClients, AllPlain DEF Plain
<1>4. ASSUME NEW c \in Clients, Serves(c) PROVE ClientsRight'
  <2>1. CASE FillRoom(c) \/ TakeSeat(c)
    <3>1. CASE Dies({})
      BY <3>1, PlainSame, AllPlain DEF ClientsRight, Plain, Dies
    <3>2. CASE ~Dies({})
      BY <2>1, <3>2, SitsDown, AllPlain DEF Plain
    <3> QED BY <3>1, <3>2
  <2>2. CASE ~FillRoom(c) /\ ~TakeSeat(c)
    BY <1>4, <2>2, ServesClients, AllPlain DEF Plain
  <2> QED BY <2>1, <2>2
<1>5. ASSUME NEW a \in Cells, RunChat(a) \/ PlayGame(a) PROVE ClientsRight'
  BY <1>5, ChatClients, AllPlain DEF Plain, Ousted
<1>6. CASE ReadElsewhere \/ \E c \in Clients : Inherit(c)
  BY <1>6, IdleClients, AllPlain DEF Plain
<1> QED BY <1>1, <1>2, <1>3, <1>4, <1>5, <1>6 DEF Next

LEMMA ClientsInvariant == Spec => []ClientsRight
BY ClientsInit, ClientsNext, TypeInvariant, ListInvariant, PTL DEF Spec


-----------------------------------------------------------------------------
(***************************************************************************)
(* Who has a seat has it until he is ousted, and has no other.             *)
(***************************************************************************)

\* Nothing about the seats of a room changes.
SameSeats(b) ==
    /\ (b \in used' <=> b \in used) \/ SeatsOf(b) = {}
    /\ mem'[b].size = mem[b].size /\ mem'[b].player = mem[b].player /\ mem'[b].connfd = mem[b].connfd
    /\ \A j \in Seats : (chat'[b].pc \in {"quit", "leave", "clear", "delete"} /\ chat'[b].j = j)
                          <=> (chat[b].pc \in {"quit", "leave", "clear", "delete"} /\ chat[b].j = j)

LEMMA SeatsAre ==
    ASSUME fd' = fd, NEW b \in Cells, SameSeats(b)
    PROVE  /\ \A c \in Clients, j \in Seats : Has(c, b, j)' <=> Has(c, b, j)
           /\ OwnsAt(b)' <=> OwnsAt(b)
           /\ b \in used' => b \in used \/ OwnsAt(b)
<1>1. SeatsOf(b)' = SeatsOf(b)
  BY DEF SeatsOf, SameSeats
<1>2. \A c \in Clients, j \in Seats : Has(c, b, j)' <=> Has(c, b, j)
  BY <1>1 DEF Has, SameSeats
<1>3. OwnsAt(b)' <=> OwnsAt(b)
  BY <1>1 DEF OwnsAt, SameSeats, Gone
<1>4. b \in used' => b \in used \/ OwnsAt(b)
  BY DEF OwnsAt, SameSeats
<1> QED BY <1>2, <1>3, <1>4

\* A seat that is somebody's has a descriptor.
LEMMA HasIs ==
    ASSUME TypeInv, RoomInv, NEW c \in Clients, NEW a, NEW j \in Seats, Has(c, a, j)
    PROVE  /\ a \in Cells /\ a \in used /\ j \in SeatsOf(a) /\ j \in TakenIn(mem[a])
           /\ ~Gone(c) /\ mem[a].connfd[j] = fd[c] /\ mem[a].player[j] = c
<1>1. /\ a \in used /\ j \in SeatsOf(a) /\ mem[a].connfd[j] = fd[c] /\ mem[a].player[j] = c
      /\ j < mem[a].size
  BY DEF Has, SeatsOf
<1>2. a \in Cells /\ c # NoOne
  BY <1>1, Constants DEF TypeInv
<1>3. mem[a].connfd[j] # -1
  BY <1>1, <1>2 DEF RoomInv, RoomRight, SeatsRight
<1> QED BY <1>1, <1>2, <1>3 DEF TakenIn, Gone

\* A step that disturbs no seat
LEMMA SeatsStay ==
    ASSUME SeatedInv, past \subseteq past', \A c \in Clients : Plain(c),
           \A c \in Clients, a \in Cells, j \in Seats : Has(c, a, j)' <=> Has(c, a, j),
           OwnSeats => OwnSeats'
    PROVE  SeatedInv'
<1>1. KeepsInv'
  <2> SUFFICES ASSUME Never(SeatRaces \cup {"occupied"})', NEW c \in Clients, Sits(c)'
               PROVE  \E a \in Cells, j \in Seats : Has(c, a, j)'
    BY DEF KeepsInv
  <2>1. Never(SeatRaces \cup {"occupied"}) /\ Sits(c)
    BY DEF Never, Plain
  <2> QED BY <2>1 DEF SeatedInv, KeepsInv
<1>2. OneInv'
  <2> SUFFICES ASSUME Never({"seat", "reuse"})' PROVE OneInv'
    BY DEF OneInv
  <2>1. Never({"seat", "reuse"})
    BY DEF Never
  <2> QED BY <2>1 DEF SeatedInv, OneInv, Plain
<1> QED BY <1>1, <1>2 DEF SeatedInv

LEMMA AllSame ==
    ASSUME TypeInv, SeatedInv, past \subseteq past', fd' = fd, used' \subseteq Cells,
           \A c \in Clients : Plain(c), \A b \in Cells : SameSeats(b)
    PROVE  SeatedInv'
<1>1. \A c \in Clients, a \in Cells, j \in Seats : Has(c, a, j)' <=> Has(c, a, j)
  BY SeatsAre
<1>2. OwnSeats => OwnSeats'
  <2> SUFFICES ASSUME OwnSeats, NEW a \in used' PROVE OwnsAt(a)'
    BY DEF OwnSeats
  <2>1. a \in Cells
    OBVIOUS
  <2> QED BY <2>1, SeatsAre DEF OwnSeats
<1> QED BY <1>1, <1>2, SeatsStay

\* The other rooms than the one whose thread makes a step
LEMMA OthersSame ==
    ASSUME TypeInv, NEW a \in Cells, Elsewhere(a)
    PROVE  \A b \in Cells : b # a => SameSeats(b)
BY DEF Elsewhere, SameSeats

\* Only the room of one thread changes, and its seats are somebody's as before.
LEMMA OneRoom ==
    ASSUME TypeInv, SeatedInv, NEW a \in Cells, Elsewhere(a), \A c \in Clients : Plain(c),
           \A c \in Clients, j \in Seats : Has(c, a, j)' <=> Has(c, a, j), OwnsAt(a) => OwnsAt(a)'
    PROVE  SeatedInv'
<1>1. used' = used /\ fd' = fd /\ past \subseteq past'
  BY DEF Elsewhere
<1>2. \A b \in Cells : b # a => /\ \A c \in Clients, j \in Seats : Has(c, b, j)' <=> Has(c, b, j)
                                /\ OwnsAt(b)' <=> OwnsAt(b)
  BY <1>1, OthersSame, SeatsAre
<1>3. \A c \in Clients, b \in Cells, j \in Seats : Has(c, b, j)' <=> Has(c, b, j)
  BY <1>2
<1>4. OwnSeats => OwnSeats'
  BY <1>1, <1>2 DEF OwnSeats, TypeInv
<1> QED BY <1>1, <1>3, <1>4, SeatsStay

\* No quitRoom is called.
LEMMA NoneOusted ==
    ASSUME NEW a, \A d \in Clients : Plain(d) \/ Ousted(a, d),
           chat[a].pc # "get" \/ chat'[a].pc # "quit"
    PROVE  \A d \in Clients : Plain(d)
BY DEF Ousted

LEMMA StaysSeats ==
    ASSUME TypeInv, SeatedInv, NEW a \in Cells, Elsewhere(a), Stays(a),
           \A d \in Clients : Plain(d) \/ Ousted(a, d)
    PROVE  SeatedInv'
<1>1. {chat[a].pc, chat'[a].pc} \subseteq {"chat", "get", "play", "break"}
  BY DEF Stays
<1>2. SameSeats(a)
  BY <1>1 DEF Stays, Elsewhere, SameSeats
<1>3. \A b \in Cells : SameSeats(b)
  BY <1>2, OthersSame
<1> QED BY <1>1, <1>3, NoneOusted, AllSame DEF Elsewhere, TypeInv

LEMMA WeighsSeats ==
    ASSUME TypeInv, SeatedInv, NEW a \in Cells, Elsewhere(a), Weighs(a),
           \A d \in Clients : Plain(d) \/ Ousted(a, d)
    PROVE  SeatedInv'
<1>1. chat[a].pc = "quit" /\ chat'[a].pc \in {"leave", "delete"}
  BY DEF Weighs
<1>2. SameSeats(a)
  BY <1>1 DEF Weighs, Elsewhere, SameSeats
<1>3. \A b \in Cells : SameSeats(b)
  BY <1>2, OthersSame
<1> QED BY <1>1, <1>3, NoneOusted, AllSame DEF Elsewhere, TypeInv

LEMMA CountsOffSeats ==
    ASSUME TypeInv, SeatedInv, NEW a \in Cells, Elsewhere(a), CountsOff(a),
           \A d \in Clients : Plain(d) \/ Ousted(a, d)
    PROVE  SeatedInv'
<1>1. chat[a].pc = "leave" /\ chat'[a].pc = "clear"
  BY DEF CountsOff
<1>2. SameSeats(a)
  BY <1>1 DEF CountsOff, Elsewhere, SameSeats
<1>3. \A b \in Cells : SameSeats(b)
  BY <1>2, OthersSame
<1> QED BY <1>1, <1>3, NoneOusted, AllSame DEF Elsewhere, TypeInv

\* The seat that is emptied is nobody's any more.
LEMMA EmptiesSeats ==
    ASSUME TypeInv, SeatedInv, NEW a \in Cells, Elsewhere(a), Empties(a),
           \A d \in Clients : Plain(d) \/ Ousted(a, d)
    PROVE  SeatedInv'
<1>1. chat[a].pc = "clear" /\ chat'[a].pc = "left" /\ \A d \in Clients : Plain(d)
  BY NoneOusted DEF Empties
<1>2. SeatsOf(a)' = SeatsOf(a) /\ fd' = fd /\ used' = used
  BY DEF Elsewhere, SeatsOf
<1>3. ASSUME NEW c \in Clients, NEW i \in Seats PROVE Has(c, a, i)' <=> Has(c, a, i)
  <2>1. CASE i = chat[a].j
    <3>1. ~Has(c, a, i)
      BY <1>1, <2>1 DEF Has
    <3>2. ~Has(c, a, i)'
      BY <2>1, Constants DEF Has, Empties
    <3> QED BY <3>1, <3>2
  <2>2. CASE i # chat[a].j
    BY <1>1, <1>2, <2>2 DEF Has, Empties
  <2> QED BY <2>1, <2>2
<1>4. OwnsAt(a) => OwnsAt(a)'
  <2> SUFFICES ASSUME OwnsAt(a), NEW c \in Clients, NEW i \in SeatsOf(a),
                      mem'[a].connfd[i] = fd[c], ~Gone(c)
               PROVE  mem'[a].player[i] = c
    BY <1>2 DEF OwnsAt, Gone
  <2>1. i \in Seats
    BY DEF SeatsOf
  <2> QED BY <2>1 DEF OwnsAt, Empties, Gone
<1> QED BY <1>1, <1>3, <1>4, OneRoom


\* quitRoom is called for a seat: whoever has it is told that he is out.
LEMMA CallsSeats ==
    ASSUME TypeInv, ListInv, RoomInv, SeatedInv, NEW a \in Cells, Elsewhere(a), Calls(a), Ousts(a),
           \A d \in Clients : Plain(d) \/ Ousted(a, d)
    PROVE  SeatedInv'
<1> DEFINE h == chat'[a].j
<1>1. /\ mem'[a] = mem[a] /\ chat[a].pc \in {"chat", "get", "break"} /\ chat'[a].pc = "quit"
      /\ h \in SeatsOf(a) /\ h \in Seats
  BY DEF Calls, SeatsOf
<1>2. used' = used /\ fd' = fd /\ thr' = thr /\ past \subseteq past' /\ a \in used
  BY <1>1 DEF Elsewhere, ListInv, CellsRight, Chatting
<1>3. SeatsOf(a)' = SeatsOf(a)
  BY <1>1 DEF SeatsOf
<1>4. \A d \in Clients : mem[a].connfd[h] = fd[d] /\ ~Gone(d) => Ousted(a, d)
  BY DEF Ousts
<1>5. \A d \in Clients : Ousted(a, d) => /\ mem[a].connfd[h] = fd[d] /\ ~Gone(d) /\ client'[d].out
                                         /\ client'[d].at = client[d].at
  BY DEF Ousted
<1> HIDE DEF h
<1>6. \A d \in Clients : Ousted(a, d) => ~Sits(d)'
  BY <1>5 DEF Sits, In
<1>7. \A c \in Clients, b \in Cells, j \in Seats : b # a => (Has(c, b, j)' <=> Has(c, b, j))
  BY <1>2, OthersSame, SeatsAre
<1>8. \A c \in Clients, j \in Seats : Has(c, a, j)' <=> Has(c, a, j) /\ j # h
  BY <1>1, <1>2, <1>3 DEF Has, h
<1>9. KeepsInv'
  <2> SUFFICES ASSUME Never(SeatRaces \cup {"occupied"})', NEW c \in Clients, Sits(c)'
               PROVE  \E b \in Cells, j \in Seats : Has(c, b, j)'
    BY DEF KeepsInv
  <2>1. Never(SeatRaces \cup {"occupied"}) /\ ~Ousted(a, c) /\ Sits(c)
    BY <1>2, <1>6 DEF Never, Plain
  <2>2. PICK b \in Cells, j \in Seats : Has(c, b, j)
    BY <2>1 DEF SeatedInv, KeepsInv
  <2>3. ~(b = a /\ j = h)
    BY <1>4, <2>1, <2>2, HasIs
  <2> QED BY <1>7, <1>8, <2>2, <2>3
<1>10. OneInv'
  <2> SUFFICES ASSUME Never({"seat", "reuse"})' PROVE OneInv'
    BY DEF OneInv
  <2>0. Never({"seat", "reuse"})
    BY <1>2 DEF Never
  <2>1. /\ OwnSeats
        /\ \A c \in Clients : \A d, b \in Cells, j, k \in Seats :
              Has(c, d, j) /\ Has(c, b, k) => d = b /\ j = k
        /\ \A c \in Clients, b \in Cells, j \in Seats : Has(c, b, j) => Sits(c)
        /\ \A c \in Clients : NotOut(c)
    BY <2>0 DEF SeatedInv, OneInv
  <2>2. OwnSeats'
    <3>1. OwnsAt(a) => OwnsAt(a)'
      BY <1>1, <1>2, <1>3 DEF OwnsAt, Gone
    <3>2. \A b \in Cells : b # a => (OwnsAt(b)' <=> OwnsAt(b))
      BY <1>2, OthersSame, SeatsAre
    <3> QED BY <1>2, <2>1, <3>1, <3>2 DEF OwnSeats, TypeInv
  <2>3. \A c \in Clients : Ousted(a, c) => Has(c, a, h)
    BY <1>1, <1>2, <1>5, <2>1 DEF OwnSeats, OwnsAt, Has
  <2>4. \A c \in Clients : \A d, b \in Cells, j, k \in Seats :
              Has(c, d, j)' /\ Has(c, b, k)' => d = b /\ j = k
    BY <1>7, <1>8, <2>1
  <2>5. ASSUME NEW c \in Clients, NEW b \in Cells, NEW j \in Seats, Has(c, b, j)' PROVE Sits(c)'
    <3>1. Has(c, b, j) /\ ~(b = a /\ j = h)
      BY <1>7, <1>8, <2>5
    <3>2. ~Ousted(a, c)
      BY <1>1, <2>1, <2>3, <3>1
    <3> QED BY <2>1, <3>1, <3>2 DEF Plain
  <2>6. ASSUME NEW c \in Clients PROVE NotOut(c)'
    <3>1. CASE Plain(c)
      BY <2>1, <3>1 DEF Plain
    <3>2. CASE Ousted(a, c)
      <4>1. Sits(c)
        BY <1>1, <2>1, <2>3, <3>2
      <4> QED BY <1>2, <1>5, <3>2, <4>1 DEF Sits, In, NotOut
    <3> QED BY <3>1, <3>2
  <2> QED BY <2>2, <2>4, <2>5, <2>6 DEF OneInv
<1> QED BY <1>9, <1>10 DEF SeatedInv

\* newRoomHost moves a player to seat 0, which is nobody's.
LEMMA MovesSeats ==
    ASSUME TypeInv, RoomInv, SeatedInv, NEW a \in Cells, Elsewhere(a), NEW h \in Seats, Moves(a, h),
           chat[a].pc = "left", chat'[a].pc \in {"chat", "break"}, a \in used,
           "seat" \notin past => mem[a].connfd[0] = -1,
           \A d \in Clients : Plain(d)
    PROVE  SeatedInv'
<1>0. h \in SeatsOf(a) /\ mem[a].connfd[h] # -1 /\ 0 \in Seats
  BY Constants DEF Moves, Taken
<1>1. used' = used /\ fd' = fd /\ past \subseteq past'
  BY DEF Elsewhere
<1>2. SeatsOf(a)' = SeatsOf(a) /\ 0 \in SeatsOf(a)
  <2>1. SeatsOf(a)' = SeatsOf(a)
    BY DEF Elsewhere, SeatsOf
  <2>2. h < mem[a].size /\ h \in {0, 1, 2}
    BY <1>0 DEF SeatsOf, Seats
  <2> QED BY <2>1, <2>2, <1>0, SizeIs DEF SeatsOf
<1>3. \A c \in Clients, b \in Cells, j \in Seats : b # a => (Has(c, b, j)' <=> Has(c, b, j))
  BY <1>1, OthersSame, SeatsAre
<1>4. ASSUME "seat" \notin past
      PROVE  h # 0 /\ \A c \in Clients : ~Has(c, a, 0) /\ (Has(c, a, 0)' <=> Has(c, a, h)) /\ ~Has(c, a, h)'
  <2>1. h # 0 /\ mem[a].player[0] = NoOne
    BY <1>0, <1>4 DEF RoomInv, RoomRight, SeatsRight
  <2>2. /\ mem'[a].player[0] = mem[a].player[h] /\ mem'[a].connfd[0] = mem[a].connfd[h]
        /\ mem'[a].player[h] = NoOne
    BY <1>0, <2>1 DEF Moves
  <2>3. chat'[a].pc \notin {"quit", "leave", "clear", "delete"} /\ chat[a].pc \notin {"quit", "leave", "clear", "delete"}
    OBVIOUS
  <2> QED BY <1>0, <1>1, <1>2, <2>1, <2>2, <2>3, Constants DEF Has
<1>5. \A c \in Clients, i \in Seats : i # 0 /\ i # h => (Has(c, a, i)' <=> Has(c, a, i))
  BY <1>1, <1>2 DEF Has, Moves
<1>6. KeepsInv'
  <2> SUFFICES ASSUME Never(SeatRaces \cup {"occupied"})', NEW c \in Clients, Sits(c)'
               PROVE  \E b \in Cells, j \in Seats : Has(c, b, j)'
    BY DEF KeepsInv
  <2>1. Never(SeatRaces \cup {"occupied"}) /\ Sits(c) /\ "seat" \notin past
    BY <1>1 DEF Never, Plain, SeatRaces
  <2>2. PICK b \in Cells, j \in Seats : Has(c, b, j)
    BY <2>1 DEF SeatedInv, KeepsInv
  <2> QED BY <1>0, <1>3, <1>4, <1>5, <2>1, <2>2
<1>7. OneInv'
  <2> SUFFICES ASSUME Never({"seat", "reuse"})' PROVE OneInv'
    BY DEF OneInv
  <2>0. Never({"seat", "reuse"}) /\ "seat" \notin past
    BY <1>1 DEF Never
  <2>1. /\ OwnSeats
        /\ \A c \in Clients : \A d, b \in Cells, j, k \in Seats :
              Has(c, d, j) /\ Has(c, b, k) => d = b /\ j = k
        /\ \A c \in Clients, b \in Cells, j \in Seats : Has(c, b, j) => Sits(c)
        /\ \A c \in Clients : NotOut(c)
    BY <2>0 DEF SeatedInv, OneInv
  <2>2. OwnSeats'
    <3>1. OwnsAt(a)'
      <4> SUFFICES ASSUME NEW c \in Clients, NEW i \in SeatsOf(a), mem'[a].connfd[i] = fd[c], ~Gone(c)
                   PROVE  mem'[a].player[i] = c
        BY <1>1, <1>2 DEF OwnsAt, Gone
      <4>1. i \in Seats /\ OwnsAt(a)
        BY <2>1 DEF SeatsOf, OwnSeats
      <4>2. fd[c] # -1
        BY DEF Gone
      <4>3. i # h
        BY <4>1, <4>2 DEF Moves
      <4>4. CASE i = 0
        BY <1>0, <4>1, <4>2, <4>3, <4>4 DEF Moves, OwnsAt
      <4>5. CASE i # 0
        BY <4>1, <4>3, <4>5 DEF Moves, OwnsAt
      <4> QED BY <4>4, <4>5
    <3>2. \A b \in Cells : b # a => (OwnsAt(b)' <=> OwnsAt(b))
      BY <1>1, OthersSame, SeatsAre
    <3> QED BY <1>1, <2>1, <3>1, <3>2 DEF OwnSeats, TypeInv
  <2>3. \A c \in Clients, b \in Cells, j \in Seats : Has(c, b, j)' =>
              \/ b = a /\ j = 0 /\ Has(c, a, h)
              \/ ~(b = a /\ j = 0) /\ ~(b = a /\ j = h) /\ Has(c, b, j)
    BY <1>3, <1>4, <1>5, <2>0
  <2>4. \A c \in Clients : \A d, b \in Cells, j, k \in Seats :
              Has(c, d, j)' /\ Has(c, b, k)' => d = b /\ j = k
    BY <2>1, <2>3
  <2>5. \A c \in Clients, b \in Cells, j \in Seats : Has(c, b, j)' => Sits(c)'
    BY <2>1, <2>3 DEF Plain
  <2> QED BY <2>1, <2>2, <2>4, <2>5 DEF OneInv, Plain
<1> QED BY <1>6, <1>7 DEF SeatedInv

LEMMA ReturnsSeats ==
    ASSUME TypeInv, ListInv, RoomInv, SeatedInv, NEW a \in Cells, Elsewhere(a), Returns(a),
           \A d \in Clients : Plain(d) \/ Ousted(a, d)
    PROVE  SeatedInv'
<1>1. chat[a].pc = "left" /\ chat'[a].pc \in {"chat", "break"} /\ \A d \in Clients : Plain(d)
  BY NoneOusted DEF Returns
<1>2. a \in used
  BY <1>1 DEF ListInv, CellsRight, Chatting, Quitting
<1>3. CASE NeedsHost(a)
  <2>1. PICK h : h = NewHost(a)
    OBVIOUS
  <2>2. Moves(a, h) /\ h \in Seats
    BY <1>3, <2>1 DEF Returns, Moves, Taken, SeatsOf
  <2>3. "seat" \notin past => mem[a].connfd[0] = -1
    BY <1>1, <1>3 DEF NeedsHost, RoomInv, RoomRight, SeatsRight, Without
  <2> QED BY <1>1, <1>2, <2>2, <2>3, MovesSeats
<1>4. CASE ~NeedsHost(a)
  <2>1. SameSeats(a)
    BY <1>1, <1>4 DEF Returns, Elsewhere, SameSeats
  <2>2. \A b \in Cells : SameSeats(b)
    BY <2>1, OthersSame
  <2> QED BY <1>1, <2>2, AllSame DEF Elsewhere, TypeInv
<1> QED BY <1>3, <1>4


\* Where the counter is right, the room that is deleted has no seat that is
\* anybody's but the one of the player who leaves.
LEMMA DeleteSeats ==
    ASSUME TypeInv, ListInv, RoomInv, SeatedInv, NEW a \in Cells, DeleteRoom(a),
           \A d \in Clients : Plain(d)
    PROVE  SeatedInv'
<1>1. /\ used' = used \ {a} /\ fd' = fd /\ past \subseteq past' /\ chat[a].pc = "delete"
      /\ \A b \in Cells : b # a => mem'[b] = mem[b] /\ chat'[b] = chat[b]
      /\ mem[a].count # chat[a].n => "occupied" \in past'
  BY DEF DeleteRoom, Doing, TypeInv
<1>2. \A b \in Cells : b # a => SameSeats(b)
  BY <1>1 DEF SameSeats
<1>3. /\ \A c \in Clients, b \in Cells, j \in Seats : b # a => (Has(c, b, j)' <=> Has(c, b, j))
      /\ \A c \in Clients, j \in Seats : ~Has(c, a, j)'
  BY <1>1, <1>2, SeatsAre DEF Has
<1>4. ASSUME Never(SeatRaces \cup {"occupied"})', NEW c \in Clients, NEW j \in Seats PROVE ~Has(c, a, j)
  <2>1. Without(SeatRaces, past) /\ Without({"seat"}, past) /\ mem[a].count = chat[a].n
    BY <1>1, <1>4 DEF Without, Never, SeatRaces
  <2>2. /\ chat[a].n <= 1 /\ chat[a].j \in TakenIn(mem[a])
        /\ mem[a].count = Cardinality(TakenIn(mem[a]))
    BY <1>1, <2>1, TakenIs DEF RoomInv, RoomRight, SeatsRight, CountRight
  <2>3. ASSUME Has(c, a, j) PROVE FALSE
    <3>1. j \in TakenIn(mem[a]) /\ j # chat[a].j
      BY <1>1, <2>3, HasIs DEF Has
    <3>2. PICK T : T = TakenIn(mem[a])
      OBVIOUS
    <3>3. IsFiniteSet(T) /\ Cardinality(T) \in Nat /\ Cardinality(T) <= 1
      BY <2>1, <2>2, <3>2, TakenIs
    <3>4. {j, chat[a].j} \subseteq T
      BY <2>2, <3>1, <3>2
    <3>5. Cardinality({j, chat[a].j}) <= Cardinality(T)
      BY <3>3, <3>4, FS_Subset
    <3>6. IsFiniteSet({j}) /\ Cardinality({j}) = 1
      BY FS_Singleton
    <3>7. Cardinality({j} \cup {chat[a].j}) = Cardinality({j}) + 1
      BY <3>1, <3>6, FS_AddElement
    <3>8. {j} \cup {chat[a].j} = {j, chat[a].j}
      OBVIOUS
    <3> QED BY <3>3, <3>5, <3>6, <3>7, <3>8
  <2> QED BY <2>3
<1>5. KeepsInv'
  <2> SUFFICES ASSUME Never(SeatRaces \cup {"occupied"})', NEW c \in Clients, Sits(c)'
               PROVE  \E b \in Cells, j \in Seats : Has(c, b, j)'
    BY DEF KeepsInv
  <2>1. Never(SeatRaces \cup {"occupied"}) /\ Sits(c)
    BY <1>1 DEF Never, Plain
  <2>2. PICK b \in Cells, j \in Seats : Has(c, b, j)
    BY <2>1 DEF SeatedInv, KeepsInv
  <2> QED BY <1>3, <1>4, <2>2
<1>6. OneInv'
  <2> SUFFICES ASSUME Never({"seat", "reuse"})' PROVE OneInv'
    BY DEF OneInv
  <2>0. Never({"seat", "reuse"})
    BY <1>1 DEF Never
  <2>1. /\ OwnSeats
        /\ \A c \in Clients : \A d, b \in Cells, j, k \in Seats :
              Has(c, d, j) /\ Has(c, b, k) => d = b /\ j = k
        /\ \A c \in Clients, b \in Cells, j \in Seats : Has(c, b, j) => Sits(c)
        /\ \A c \in Clients : NotOut(c)
    BY <2>0 DEF SeatedInv, OneInv
  <2>2. OwnSeats'
    <3>1. \A b \in Cells : b # a => (OwnsAt(b)' <=> OwnsAt(b))
      BY <1>1, <1>2, SeatsAre
    <3> QED BY <1>1, <2>1, <3>1 DEF OwnSeats, TypeInv
  <2>3. \A c \in Clients, b \in Cells, j \in Seats : Has(c, b, j)' => Has(c, b, j)
    BY <1>3
  <2> QED BY <2>1, <2>2, <2>3 DEF OneInv, Plain
<1> QED BY <1>5, <1>6 DEF SeatedInv

LEMMA ChatSeats ==
    ASSUME TypeInv, TypeInv', ListInv, RoomInv, ClientsRight, SeatedInv, NEW a \in Cells,
           RunChat(a) \/ PlayGame(a)
    PROVE  SeatedInv'
<1>0. fd' = fd /\ thr' = thr /\ Ousts(a) /\ \A d \in Clients : Plain(d) \/ Ousted(a, d)
  BY ChatClients
<1>1. CASE DeleteRoom(a)
  <2>1. chat[a].pc = "delete"
    BY <1>1 DEF DeleteRoom, Doing
  <2> QED BY <1>0, <1>1, <2>1, NoneOusted, DeleteSeats
<1>2. CASE UncountRoom(a)
  <2>1. /\ chat[a].pc = "uncount" /\ chat' = [chat EXCEPT ![a] = NoChat] /\ past \subseteq past'
        /\ UNCHANGED <<mem, used>>
    BY <1>2 DEF UncountRoom, Doing
  <2>2. chat'[a].pc = "none" /\ \A b \in Cells : b # a => chat'[b] = chat[b]
    BY <2>1, StatesAre DEF TypeInv
  <2>3. \A b \in Cells : SameSeats(b)
    BY <2>1, <2>2 DEF SameSeats
  <2> QED BY <1>0, <2>1, <2>3, NoneOusted, AllSame DEF TypeInv
<1>3. CASE ~DeleteRoom(a) /\ ~UncountRoom(a)
  <2>1. Goes(a) \/ \E why : Dies(why)
    BY <1>3, ChatGoes
  <2>2. CASE Goes(a)
    <3>1. Elsewhere(a)
      BY <2>2 DEF Goes
    <3> QED BY <1>0, <2>2, <3>1, StaysSeats, CallsSeats, WeighsSeats, CountsOffSeats, EmptiesSeats,
               ReturnsSeats DEF Goes
  <2>3. CASE \E why : Dies(why)
    <3>1. UNCHANGED <<mem, used, chat>> /\ past \subseteq past'
      BY <2>3 DEF Dies
    <3>2. \A d \in Clients : Plain(d)
      <4>1. chat'[a].pc = chat[a].pc
        BY <3>1
      <4> QED BY <1>0, <4>1, NoneOusted
    <3>3. \A b \in Cells : SameSeats(b)
      BY <3>1 DEF SameSeats
    <3> QED BY <1>0, <3>1, <3>2, <3>3, AllSame DEF TypeInv
  <2> QED BY <2>1, <2>2, <2>3
<1> QED BY <1>1, <1>2, <1>3

\* A player sits down, on a seat that is nobody's.
SitsAt(c, a, j) ==
    /\ a \in used' /\ used' = used /\ past \subseteq past' /\ UNCHANGED <<client, fd>>
    /\ Gone(c) => "gone" \in past'
    /\ thr[c].pc \in {"fill", "take"} /\ thr'[c].pc \in {"made", "entered"}
    /\ \A b \in Cells : b # a => SameSeats(b)
    /\ "seat" \notin past' =>
          /\ \A d \in Clients, i \in Seats : Has(d, a, i)' <=> Has(d, a, i) \/ (d = c /\ i = j /\ ~Gone(c))
          /\ OwnsAt(a) => OwnsAt(a)'

LEMMA FillsAt ==
    ASSUME TypeInv, ListInv, RoomInv, ClientsRight, NEW c \in Clients, NEW a \in Cells, Fills(c, a)
    PROVE  SitsAt(c, a, 0)
<1>1. a \in used /\ chat[a] = NoChat /\ mem[a].size = 0
  BY DEF Fills, ListInv, CellsRight, Making
<1>2. /\ chat' = chat /\ fd' = fd /\ client' = client /\ used' = used /\ past \subseteq past'
      /\ \A b \in Cells : b # a => mem'[b] = mem[b]
  BY DEF Fills
<1>3. \A b \in Cells : b # a => SameSeats(b)
  BY <1>2 DEF SameSeats
<1>4. SeatsOf(a) = {} /\ 0 \in Seats /\ 0 < mem'[a].size
  BY <1>1 DEF SeatsOf, Seats, Fills
<1>5. ASSUME "seat" \notin past'
      PROVE  /\ \A d \in Clients, i \in Seats : Has(d, a, i)' <=> Has(d, a, i) \/ (d = c /\ i = 0 /\ ~Gone(c))
             /\ OwnsAt(a)'
  <2>1. \A i \in Seats : mem[a].connfd[i] = -1 /\ mem[a].player[i] = NoOne
    BY <1>1, <1>2, <1>5 DEF RoomInv, RoomRight, SeatsRight, Without
  <2>2. /\ mem'[a].player[0] = Account(c) /\ mem'[a].connfd[0] = fd[c]
        /\ \A i \in Seats : i # 0 => mem'[a].connfd[i] = -1 /\ mem'[a].player[i] = NoOne
    BY <1>4, <2>1 DEF Fills
  <2>3. ASSUME NEW d \in Clients, NEW i \in Seats
        PROVE  Has(d, a, i)' <=> Has(d, a, i) \/ (d = c /\ i = 0 /\ ~Gone(c))
    <3>1. ~Has(d, a, i)
      BY <1>4 DEF Has
    <3>2. CASE i # 0
      BY <2>2, <3>1, <3>2, Constants DEF Has
    <3>3. CASE i = 0
      <4>1. chat'[a].pc = "none" /\ 0 \in SeatsOf(a)' /\ a \in used'
        BY <1>1, <1>2, <1>4, StatesAre DEF SeatsOf
      <4>2. Has(d, a, 0)' <=> fd[c] = fd[d] /\ Account(c) = d
        BY <1>2, <2>2, <4>1 DEF Has
      <4> QED BY <3>1, <3>3, <4>2, Constants DEF Account
    <3> QED BY <3>2, <3>3
  <2>4. OwnsAt(a)'
    <3> SUFFICES ASSUME NEW d \in Clients, NEW i \in Seats, mem'[a].connfd[i] = fd[d], ~Gone(d)
                 PROVE  mem'[a].player[i] = d
      BY <1>2 DEF OwnsAt, Gone, SeatsOf
    <3>1. i = 0 /\ fd[c] = fd[d] /\ fd[d] # -1
      BY <2>2 DEF Gone
    <3>2. c = d
      BY <3>1 DEF ClientsRight, Gone
    <3> QED BY <2>2, <3>1, <3>2 DEF Account, Gone
  <2> QED BY <2>3, <2>4
<1> QED BY <1>1, <1>2, <1>3, <1>5 DEF SitsAt, Fills

LEMMA TakesAt ==
    ASSUME TypeInv, ListInv, RoomInv, ClientsRight, NEW c \in Clients, NEW a \in Cells, NEW j \in Seats,
           Takes(c, a, j)
    PROVE  SitsAt(c, a, j)
<1>1. a \in used /\ thr[c].pc = "take" /\ a = roomList[thr[c].i] /\ j = thr[c].j /\ a # 0
  BY Constants DEF Takes
<1>2. /\ chat' = chat /\ fd' = fd /\ client' = client /\ used' = used /\ past \subseteq past'
      /\ \A b \in Cells : b # a => mem'[b] = mem[b]
  BY DEF Takes
<1>3. \A b \in Cells : b # a => SameSeats(b)
  BY <1>2 DEF SameSeats
<1>4. SeatsOf(a)' = SeatsOf(a)
  BY DEF SeatsOf, Takes
<1>5. ASSUME "seat" \notin past'
      PROVE  /\ \A d \in Clients, i \in Seats : Has(d, a, i)' <=> Has(d, a, i) \/ (d = c /\ i = j /\ ~Gone(c))
             /\ OwnsAt(a) => OwnsAt(a)'
  <2>1. mem[a].id = thr[c].a /\ mem[a].connfd[j] = -1
    BY <1>5 DEF Takes
  <2>2. j \in SeatsOf(a)
    BY <1>1, <2>1 DEF ListInv, TakersRight, SeatsOf
  <2>3. mem[a].player[j] = NoOne /\ ~(chat[a].pc \in {"quit", "leave", "clear", "delete"} /\ chat[a].j = j)
    BY <1>2, <1>5, <2>1 DEF RoomInv, RoomRight, SeatsRight, Without, TakenIn
  <2>4. /\ mem'[a].player[j] = Account(c) /\ mem'[a].connfd[j] = fd[c]
        /\ \A i \in Seats : i # j => /\ mem'[a].player[i] = mem[a].player[i]
                                     /\ mem'[a].connfd[i] = mem[a].connfd[i]
    BY DEF Takes
  <2>5. ASSUME NEW d \in Clients, NEW i \in Seats
        PROVE  Has(d, a, i)' <=> Has(d, a, i) \/ (d = c /\ i = j /\ ~Gone(c))
    <3>1. CASE i # j
      BY <1>2, <1>4, <2>4, <3>1 DEF Has
    <3>2. CASE i = j
      <4>1. ~Has(d, a, j)
        BY <2>3, Constants DEF Has
      <4>2. Has(d, a, j)' <=> fd[c] = fd[d] /\ Account(c) = d
        BY <1>1, <1>2, <1>4, <2>2, <2>3, <2>4 DEF Has
      <4> QED BY <3>2, <4>1, <4>2, Constants DEF Account
    <3> QED BY <3>1, <3>2
  <2>6. ASSUME OwnsAt(a) PROVE OwnsAt(a)'
    <3> SUFFICES ASSUME NEW d \in Clients, NEW i \in SeatsOf(a), mem'[a].connfd[i] = fd[d], ~Gone(d)
                 PROVE  mem'[a].player[i] = d
      BY <1>2, <1>4 DEF OwnsAt, Gone
    <3>0. i \in Seats
      BY DEF SeatsOf
    <3>1. CASE i # j
      BY <2>4, <2>6, <3>0, <3>1 DEF OwnsAt
    <3>2. CASE i = j
      <4>1. fd[c] = fd[d] /\ fd[d] # -1
        BY <2>4, <3>2 DEF Gone
      <4>2. c = d
        BY <4>1 DEF ClientsRight, Gone
      <4> QED BY <2>4, <3>2, <4>1, <4>2 DEF Account, Gone
    <3> QED BY <3>1, <3>2
  <2> QED BY <2>5, <2>6
<1> QED BY <1>1, <1>2, <1>3, <1>5 DEF SitsAt, Takes


LEMMA SitsSeats ==
    ASSUME TypeInv, TypeInv', ListInv, RoomInv, ClientsRight, SeatedInv,
           NEW c \in Clients, FillRoom(c) \/ TakeSeat(c), ~Dies({}),
           NEW a \in Cells, NEW j \in Seats, SitsAt(c, a, j)
    PROVE  SeatedInv'
<1>1. /\ \A d \in Clients : d # c => Plain(d)
      /\ ~Sits(c) /\ NotOut(c)'
      /\ NotOut(c) /\ ~Gone(c) => ~client'[c].out
      /\ thr'[c].pc \in {"made", "entered"}
  BY SitsDown
<1>2. used' = used /\ fd' = fd /\ past \subseteq past' /\ a \in used /\ client' = client
  BY DEF SitsAt
<1>3. \A d \in Clients, b \in Cells, i \in Seats : b # a => (Has(d, b, i)' <=> Has(d, b, i))
  BY <1>2, SeatsAre DEF SitsAt
<1>4. "seat" \notin past' => \A d \in Clients, i \in Seats :
                               Has(d, a, i)' <=> Has(d, a, i) \/ (d = c /\ i = j /\ ~Gone(c))
  BY DEF SitsAt
<1>5. KeepsInv'
  <2> SUFFICES ASSUME Never(SeatRaces \cup {"occupied"})', NEW d \in Clients, Sits(d)'
               PROVE  \E b \in Cells, i \in Seats : Has(d, b, i)'
    BY DEF KeepsInv
  <2>1. Never(SeatRaces \cup {"occupied"}) /\ "seat" \notin past' /\ "gone" \notin past'
    BY <1>2 DEF Never, SeatRaces
  <2>2. CASE d = c
    <3>1. ~Gone(c)
      BY <2>1 DEF SitsAt
    <3> QED BY <1>4, <2>1, <2>2, <3>1
  <2>3. CASE d # c
    <3>1. Sits(d)
      BY <1>1, <2>3 DEF Plain
    <3>2. PICK b \in Cells, i \in Seats : Has(d, b, i)
      BY <2>1, <3>1 DEF SeatedInv, KeepsInv
    <3> QED BY <1>3, <1>4, <2>1, <3>2
  <2> QED BY <2>2, <2>3
<1>6. OneInv'
  <2> SUFFICES ASSUME Never({"seat", "reuse"})' PROVE OneInv'
    BY DEF OneInv
  <2>0. Never({"seat", "reuse"}) /\ "seat" \notin past'
    BY <1>2 DEF Never
  <2>1. /\ OwnSeats
        /\ \A d \in Clients : \A x, b \in Cells, i, k \in Seats :
              Has(d, x, i) /\ Has(d, b, k) => x = b /\ i = k
        /\ \A d \in Clients, b \in Cells, i \in Seats : Has(d, b, i) => Sits(d)
        /\ \A d \in Clients : NotOut(d)
    BY <2>0 DEF SeatedInv, OneInv
  <2>2. OwnSeats'
    <3>1. OwnsAt(a) => OwnsAt(a)'
      BY <2>0 DEF SitsAt
    <3>2. \A b \in Cells : b # a => (OwnsAt(b)' <=> OwnsAt(b))
      BY <1>2, SeatsAre DEF SitsAt
    <3> QED BY <1>2, <2>1, <3>1, <3>2 DEF OwnSeats, TypeInv
  <2>3. \A b \in Cells, i \in Seats : ~Has(c, b, i)
    BY <1>1, <2>1
  <2>4. /\ \A d \in Clients, b \in Cells, i \in Seats : d # c => (Has(d, b, i)' <=> Has(d, b, i))
        /\ \A b \in Cells, i \in Seats : Has(c, b, i)' => b = a /\ i = j /\ ~Gone(c)
    BY <1>3, <1>4, <2>0, <2>3
  <2>5. \A d \in Clients : \A x, b \in Cells, i, k \in Seats :
              Has(d, x, i)' /\ Has(d, b, k)' => x = b /\ i = k
    BY <2>1, <2>4
  <2>6. ~Gone(c) => Sits(c)'
    <3> SUFFICES ASSUME ~Gone(c) PROVE Sits(c)'
      OBVIOUS
    <3>1. ~client'[c].out /\ thr'[c].pc \in {"made", "entered"} /\ fd'[c] # -1
      BY <1>1, <1>2, <2>1 DEF Gone
    <3> QED BY <3>1 DEF Sits, Gone
  <2>7. \A d \in Clients, b \in Cells, i \in Seats : Has(d, b, i)' => Sits(d)'
    BY <1>1, <2>1, <2>4, <2>6 DEF Plain
  <2>8. \A d \in Clients : NotOut(d)'
    BY <1>1, <2>1 DEF Plain
  <2> QED BY <2>2, <2>5, <2>7, <2>8 DEF OneInv
<1> QED BY <1>5, <1>6 DEF SeatedInv

\* The other steps of a player's thread change no room's seats: a room that is
\* listed or numbered has none, and chat begins where there was no thread.
LEMMA ServesSame ==
    ASSUME TypeInv, TypeInv', ListInv, NEW c \in Clients, Serves(c), ~FillRoom(c), ~TakeSeat(c)
    PROVE  past \subseteq past' /\ \A b \in Cells : SameSeats(b)
<1>1. CASE InsertRoom(c)
  <2>1. PICK a \in Cells : used' = used \cup {a} /\ a \notin used
    <3> DEFINE free == {a \in Cells \ used : chat[a] = NoChat}
    <3>1. free \in SUBSET Nat /\ free # {} /\ used' = used \cup {Min(free)}
      BY <1>1, Constants DEF InsertRoom
    <3>2. Min(free) \in free
      BY <3>1, MinIsLowest
    <3> QED BY <3>1, <3>2
  <2>2. UNCHANGED <<mem, chat>> /\ past \subseteq past'
    BY <1>1 DEF InsertRoom
  <2>3. SeatsOf(a) = {}
    BY <2>1, StatesAre DEF ListInv, CellsRight, SeatsOf, Seats
  <2> QED BY <2>1, <2>2, <2>3 DEF SameSeats
<1>2. CASE NumberRoom(c)
  <2>1. PICK a : mem' = [mem EXCEPT ![a].id = roomIDGenerate]
    BY <1>2 DEF NumberRoom
  <2>2. \A b \in Cells : /\ mem'[b].size = mem[b].size /\ mem'[b].player = mem[b].player
                         /\ mem'[b].connfd = mem[b].connfd
    BY <2>1 DEF TypeInv, Room
  <2>3. UNCHANGED <<used, chat, past>>
    BY <1>2 DEF NumberRoom
  <2> QED BY <2>2, <2>3 DEF SameSeats
<1>3. CASE StartChat(c)
  <2>1. CASE chat' = chat
    BY <1>3, <2>1 DEF StartChat, SameSeats, Dies
  <2>2. CASE chat' # chat
    <3>1. PICK a : a = thr[c].a
      OBVIOUS
    <3>2. thr[c].pc = "start" /\ chat' = [chat EXCEPT ![a].pc = "chat"] /\ UNCHANGED <<used, mem, past>>
      BY <1>3, <2>2, <3>1 DEF StartChat, Dies, At
    <3>3. chat[a] = NoChat /\ a \in Cells
      BY <3>1, <3>2 DEF ListInv, CellsRight, Making, TypeInv
    <3>4. chat'[a].pc = "chat" /\ chat[a].pc = "none" /\ \A b \in Cells : b # a => chat'[b] = chat[b]
      BY <3>2, <3>3, StatesAre DEF TypeInv, ChatState
    <3> QED BY <3>2, <3>4 DEF SameSeats
  <2> QED BY <2>1, <2>2
<1>4. CASE ~(InsertRoom(c) \/ NumberRoom(c) \/ StartChat(c))
  <2>1. UNCHANGED <<mem, chat, used>> /\ past \subseteq past'
    BY <1>4 DEF Serves, TestRoom, TellMade, AskRooms, ListRoom, ShowRoom, FindSeat, TellEntered, Welcome, Dies
  <2> QED BY <2>1 DEF SameSeats
<1> QED BY <1>1, <1>2, <1>3, <1>4


LEMMA ServesSeats ==
    ASSUME TypeInv, TypeInv', ListInv, RoomInv, ClientsRight, SeatedInv, NEW c \in Clients, Serves(c)
    PROVE  SeatedInv'
<1>1. CASE ~FillRoom(c) /\ ~TakeSeat(c)
  <2>1. used' \subseteq Cells
    BY DEF TypeInv
  <2> QED BY <1>1, <2>1, ServesSame, ServesClients, AllSame
<1>2. CASE (FillRoom(c) \/ TakeSeat(c)) /\ Dies({})
  <2>1. UNCHANGED <<clientVars, listVars, mem, chat, thr>> /\ past \subseteq past'
    BY <1>2 DEF Dies
  <2>2. (\A b \in Cells : SameSeats(b)) /\ (\A d \in Clients : Plain(d))
    BY <2>1, PlainSame DEF SameSeats, ClientsRight
  <2> QED BY <2>1, <2>2, AllSame DEF TypeInv
<1>3. CASE FillRoom(c) /\ ~Dies({})
  <2>1. Fills(c, thr[c].a) /\ thr[c].a \in Cells
    BY <1>3, FillIs DEF Fills
  <2>2. SitsAt(c, thr[c].a, 0) /\ 0 \in Seats
    BY <2>1, FillsAt, Constants
  <2> QED BY <1>3, <2>1, <2>2, SitsSeats
<1>4. CASE TakeSeat(c) /\ ~Dies({})
  <2>1. PICK a \in Cells, j \in Seats : Takes(c, a, j)
    BY <1>4, TakeIs DEF Takes, ListInv
  <2>2. SitsAt(c, a, j)
    BY <2>1, TakesAt
  <2> QED BY <1>4, <2>2, SitsSeats
<1> QED BY <1>1, <1>2, <1>3, <1>4

\* A new connection: its descriptor is at no seat, but for a reuse.
LEMMA ConnectSeats ==
    ASSUME TypeInv, TypeInv', RoomInv, ClientsRight, SeatedInv, NEW c \in Clients, Connect(c)
    PROVE  SeatedInv'
<1>1. /\ \A d \in Clients : Plain(d)
      /\ \A d \in Clients : d # c => fd'[d] = fd[d]
      /\ ~Sits(c) /\ fd'[c] # -1
      /\ \A a \in used : \A j \in SeatsOf(a) : mem[a].connfd[j] = fd'[c] => "reuse" \in past'
      /\ past \subseteq past' /\ UNCHANGED <<listVars, mem, chat>>
  BY ConnectClients
<1>2. \A a : SeatsOf(a)' = SeatsOf(a)
  BY <1>1 DEF SeatsOf
<1>3. \A d \in Clients, a \in Cells, j \in Seats : d # c => (Has(d, a, j)' <=> Has(d, a, j))
  BY <1>1, <1>2 DEF Has
<1>4. "reuse" \notin past' => \A a \in Cells, j \in Seats : ~Has(c, a, j)'
  BY <1>1, <1>2 DEF Has
<1>5. KeepsInv'
  <2> SUFFICES ASSUME Never(SeatRaces \cup {"occupied"})', NEW d \in Clients, Sits(d)'
               PROVE  \E b \in Cells, j \in Seats : Has(d, b, j)'
    BY DEF KeepsInv
  <2>1. Never(SeatRaces \cup {"occupied"}) /\ Sits(d) /\ d # c
    BY <1>1 DEF Never, Plain
  <2>2. PICK b \in Cells, j \in Seats : Has(d, b, j)
    BY <2>1 DEF SeatedInv, KeepsInv
  <2> QED BY <1>3, <2>1, <2>2
<1>6. OneInv'
  <2> SUFFICES ASSUME Never({"seat", "reuse"})' PROVE OneInv'
    BY DEF OneInv
  <2>0. Never({"seat", "reuse"}) /\ "reuse" \notin past'
    BY <1>1 DEF Never
  <2>1. /\ OwnSeats
        /\ \A d \in Clients : \A x, b \in Cells, i, k \in Seats :
              Has(d, x, i) /\ Has(d, b, k) => x = b /\ i = k
        /\ \A d \in Clients, b \in Cells, i \in Seats : Has(d, b, i) => Sits(d)
        /\ \A d \in Clients : NotOut(d)
    BY <2>0 DEF SeatedInv, OneInv
  <2>2. OwnSeats'
    <3> SUFFICES ASSUME NEW a \in used, NEW d \in Clients, NEW i \in SeatsOf(a),
                        mem[a].connfd[i] = fd'[d], fd'[d] # -1
                 PROVE  mem[a].player[i] = d
      BY <1>1, <1>2 DEF OwnSeats, OwnsAt, Gone
    <3>1. d # c
      BY <1>1, <2>0
    <3>2. mem[a].connfd[i] = fd[d] /\ ~Gone(d)
      BY <1>1, <3>1 DEF Gone
    <3> QED BY <2>1, <3>2 DEF OwnSeats, OwnsAt
  <2>3. \A d \in Clients, b \in Cells, i \in Seats : Has(d, b, i)' => Has(d, b, i)
    BY <1>3, <1>4, <2>0
  <2> QED BY <1>1, <2>1, <2>2, <2>3 DEF OneInv, Plain
<1> QED BY <1>5, <1>6 DEF SeatedInv

\* A player who hangs up has no seat any more, whatever the room still says.
LEMMA HangUpSeats ==
    ASSUME TypeInv, TypeInv', RoomInv, RoomInv', ClientsRight, SeatedInv, NEW c \in Clients, HangUp(c)
    PROVE  SeatedInv'
<1>1. /\ \A d \in Clients : d # c => Plain(d) /\ fd'[d] = fd[d]
      /\ ~Sits(c)' /\ NotOut(c)' /\ fd'[c] = -1
      /\ past \subseteq past' /\ UNCHANGED <<listVars, mem, chat>>
  BY HangUpClients
<1>2. \A a : SeatsOf(a)' = SeatsOf(a)
  BY <1>1 DEF SeatsOf
<1>3. \A d \in Clients, a \in Cells, j \in Seats : d # c => (Has(d, a, j)' <=> Has(d, a, j))
  BY <1>1, <1>2 DEF Has
<1>4. ASSUME NEW a \in Cells, NEW j \in Seats PROVE ~Has(c, a, j)'
  <2>1. Has(c, a, j)' => mem[a].connfd[j] = -1 /\ mem[a].player[j] = c
    BY <1>1 DEF Has
  <2>2. mem[a].connfd[j] = -1 => mem[a].player[j] = NoOne
    BY DEF RoomInv, RoomRight, SeatsRight
  <2> QED BY <2>1, <2>2, Constants
<1>5. KeepsInv'
  <2> SUFFICES ASSUME Never(SeatRaces \cup {"occupied"})', NEW d \in Clients, Sits(d)'
               PROVE  \E b \in Cells, j \in Seats : Has(d, b, j)'
    BY DEF KeepsInv
  <2>1. Never(SeatRaces \cup {"occupied"}) /\ Sits(d) /\ d # c
    BY <1>1 DEF Never, Plain
  <2>2. PICK b \in Cells, j \in Seats : Has(d, b, j)
    BY <2>1 DEF SeatedInv, KeepsInv
  <2> QED BY <1>3, <2>1, <2>2
<1>6. OneInv'
  <2> SUFFICES ASSUME Never({"seat", "reuse"})' PROVE OneInv'
    BY DEF OneInv
  <2>0. Never({"seat", "reuse"})
    BY <1>1 DEF Never
  <2>1. /\ OwnSeats
        /\ \A d \in Clients : \A x, b \in Cells, i, k \in Seats :
              Has(d, x, i) /\ Has(d, b, k) => x = b /\ i = k
        /\ \A d \in Clients, b \in Cells, i \in Seats : Has(d, b, i) => Sits(d)
        /\ \A d \in Clients : NotOut(d)
    BY <2>0 DEF SeatedInv, OneInv
  <2>2. OwnSeats'
    <3> SUFFICES ASSUME NEW a \in used, NEW d \in Clients, NEW i \in SeatsOf(a),
                        mem[a].connfd[i] = fd'[d], fd'[d] # -1
                 PROVE  mem[a].player[i] = d
      BY <1>1, <1>2 DEF OwnSeats, OwnsAt, Gone
    <3>1. mem[a].connfd[i] = fd[d] /\ ~Gone(d)
      BY <1>1 DEF Gone
    <3> QED BY <2>1, <3>1 DEF OwnSeats, OwnsAt
  <2>3. \A d \in Clients, b \in Cells, i \in Seats : Has(d, b, i)' => d # c /\ Has(d, b, i)
    BY <1>3, <1>4
  <2> QED BY <1>1, <2>1, <2>2, <2>3 DEF OneInv, Plain
<1> QED BY <1>5, <1>6 DEF SeatedInv

LEMMA SeatedInit == Init => SeatedInv
<1> SUFFICES ASSUME Init PROVE SeatedInv
  OBVIOUS
<1>1. /\ \A c \in Clients : client[c].at = "gone" /\ client[c].out = FALSE /\ thr[c].pc = "none"
      /\ used = {}
  BY StatesAre DEF Init
<1>2. \A c \in Clients : ~Sits(c) /\ NotOut(c)
  BY <1>1 DEF Sits, In, NotOut
<1>3. \A c \in Clients, a \in Cells, j \in Seats : ~Has(c, a, j)
  BY <1>1 DEF Has
<1>4. OwnSeats
  BY <1>1 DEF OwnSeats
<1> QED BY <1>2, <1>3, <1>4 DEF SeatedInv, KeepsInv, OneInv

LEMMA SeatedNext ==
    TypeInv /\ TypeInv' /\ ListInv /\ RoomInv /\ RoomInv' /\ ClientsRight /\ SeatedInv /\ [Next]_vars
        => SeatedInv'
<1> SUFFICES ASSUME TypeInv, TypeInv', ListInv, RoomInv, RoomInv', ClientsRight, SeatedInv, [Next]_vars
             PROVE  SeatedInv'
  OBVIOUS
<1>1. CASE UNCHANGED vars
  <2>1. (\A b \in Cells : SameSeats(b)) /\ (\A d \in Clients : Plain(d))
    BY <1>1, PlainSame DEF SameSeats, ClientsRight
  <2> QED BY <1>1, <2>1, AllSame DEF TypeInv
<1>2. ASSUME NEW c \in Clients, Connect(c) PROVE SeatedInv'
  BY <1>2, ConnectSeats
<1>3. ASSUME NEW c \in Clients, HangUp(c) PROVE SeatedInv'
  BY <1>3, HangUpSeats
<1>4. ASSUME NEW c \in Clients, Request(c) \/ Choose(c) \/ Type(c) PROVE SeatedInv'
  <2>1. UNCHANGED <<fd, mem, chat, used, past>>
    BY <1>4 DEF Request, Choose, Type
  <2>2. \A b \in Cells : SameSeats(b)
    BY <2>1 DEF SameSeats
  <2> QED BY <1>4, <2>1, <2>2, AskClients, AllSame DEF TypeInv
<1>5. ASSUME NEW c \in Clients, Serves(c) PROVE SeatedInv'
  BY <1>5, ServesSeats
<1>6. ASSUME NEW a \in Cells, RunChat(a) \/ PlayGame(a) PROVE SeatedInv'
  BY <1>6, ChatSeats
<1>7. CASE ReadElsewhere \/ \E c \in Clients : Inherit(c)
  <2>1. (\A d \in Clients : Plain(d)) /\ UNCHANGED <<fd, listVars, mem, chat, past>>
    BY <1>7, IdleClients
  <2>2. \A b \in Cells : SameSeats(b)
    BY <2>1 DEF SameSeats
  <2> QED BY <2>1, <2>2, AllSame DEF TypeInv
<1> QED BY <1>1, <1>2, <1>3, <1>4, <1>5, <1>6, <1>7 DEF Next

LEMMA SeatedInvariant == Spec => []SeatedInv
BY SeatedInit, SeatedNext, TypeInvariant, ListInvariant, RoomInvariant, ClientsInvariant, PTL DEF Spec

\* Who was told that he is in a room, and not that he is out of it, has a seat
\* with his own descriptor, whoever else quits, is kicked or is lost and
\* whichever host follows, unless threads have met on a seat or on a counter,
\* until a connection comes to a slot where a former client's thread goes on.
THEOREM KeepsTheorem == Spec => []KeepsSeat
<1>1. TypeInv /\ SeatedInv => KeepsSeat
  <2> SUFFICES ASSUME TypeInv, SeatedInv, Never(SeatRaces \cup {"occupied"}), NEW c \in Clients, In(c)
               PROVE  SeatsFor(c) # {}
    BY DEF KeepsSeat
  <2>1. PICK a \in Cells, j \in Seats : Has(c, a, j)
    BY DEF SeatedInv, KeepsInv, Sits
  <2>2. a \in used
    BY <2>1 DEF Has
  <2>3. <<a, j>> \in SeatsFor(c)
    BY <2>1, <2>2 DEF SeatsFor
  <2> QED BY <2>3
<1> QED BY <1>1, TypeInvariant, SeatedInvariant, PTL

\* Nobody has two seats, in one room or in two, unless two threads have met on a
\* seat or his descriptor was another's who still has one.  The specification
\* ends ("stale") when a connection comes to a slot where a thread of a former
\* client is at work or waits: that thread may seat the new client beside his
\* own, and nothing is said of what follows.
THEOREM OneSeatTheorem == Spec => []OneSeat
<1>1. TypeInv /\ SeatedInv => OneSeat
  <2> SUFFICES ASSUME TypeInv, SeatedInv, Never(SeatRaces \cup {"reuse"}), NEW c \in Clients
               PROVE  Cardinality(SeatsFor(c)) <= 1
    BY DEF OneSeat
  <2>1. Never({"seat", "reuse"})
    BY DEF Never, SeatRaces
  <2>2. ASSUME NEW s \in SeatsFor(c), NEW t \in SeatsFor(c) PROVE s = t
    <3>1. /\ s \in used \X Seats /\ t \in used \X Seats
          /\ Has(c, s[1], s[2]) /\ Has(c, t[1], t[2])
      BY DEF SeatsFor
    <3>2. s[1] = t[1] /\ s[2] = t[2]
      BY <2>1, <3>1 DEF SeatedInv, OneInv, TypeInv
    <3> QED BY <3>1, <3>2
  <2>3. CASE SeatsFor(c) = {}
    BY <2>3, FS_EmptySet
  <2>4. CASE SeatsFor(c) # {}
    <3>1. PICK s : s \in SeatsFor(c)
      BY <2>4
    <3>2. SeatsFor(c) = {s}
      BY <2>2, <3>1
    <3>3. PICK n : n = Cardinality(SeatsFor(c))
      OBVIOUS
    <3>4. n = 1
      BY <3>2, <3>3, FS_Singleton, Zenon
    <3> QED BY <3>3, <3>4
  <2> QED BY <2>3, <2>4
<1> QED BY <1>1, TypeInvariant, SeatedInvariant, PTL


-----------------------------------------------------------------------------
(***************************************************************************)
(* What a player sends to the thread of his request.                       *)
(***************************************************************************)

\* The history grows, and only in one step is a line read by the wrong thread.
LEMMA Grows ==
    ASSUME TypeInv, [Next]_vars
    PROVE  /\ past \subseteq past'
           /\ "stolen" \in past' /\ "stolen" \notin past =>
                 \E a \in Cells, j \in Seats, c \in Clients : Gets(a, j, c) /\ mail[c].what \in {"id", "room"}
<1> DEFINE Steals == \E a \in Cells, j \in Seats, c \in Clients :
                          Gets(a, j, c) /\ mail[c].what \in {"id", "room"}
           Good == past \subseteq past' /\ ("stolen" \in past' /\ "stolen" \notin past => Steals)
<1>1. ASSUME NEW e, past' \subseteq past \cup e, past \subseteq past', "stolen" \notin e PROVE Good
  BY <1>1
<1>2. CASE UNCHANGED vars
  BY <1>2
<1>3. ASSUME NEW why \in {{}, {"name"}, {"early"}, {"looked"}}, Dies(why) PROVE Good
  BY <1>3 DEF Dies
<1>4. ASSUME NEW c \in Clients, Connect(c) PROVE Good
  BY <1>4 DEF Connect
<1>5. ASSUME NEW c \in Clients, Inherit(c) \/ HangUp(c) \/ Request(c) \/ Choose(c) \/ Type(c) \/ ReadElsewhere
      PROVE  Good
  <2>1. past' = past
    BY <1>5 DEF Inherit, HangUp, Request, Choose, Type, ReadElsewhere
  <2> QED BY <2>1
<1>6. ASSUME NEW c \in Clients, Serves(c) PROVE Good
  <2>1. CASE TestRoom(c) \/ NumberRoom(c) \/ AskRooms(c) \/ ListRoom(c) \/ TellEntered(c)
    <3>1. past' = past
      BY <2>1 DEF TestRoom, NumberRoom, AskRooms, ListRoom, TellEntered
    <3> QED BY <3>1
  <2>2. CASE InsertRoom(c)
    <3>1. past' = past \cup (IF Holes = {} THEN {"full"} ELSE {})
                    \cup (IF \E d \in Clients : thr[d].pc = "number" THEN {"makers"} ELSE {})
      BY <2>2 DEF InsertRoom
    <3> QED BY <3>1
  <2>3. CASE FillRoom(c)
    <3>1. past' = IF Gone(c) THEN past \cup {"gone"} ELSE past
      BY <2>3 DEF FillRoom
    <3> QED BY <3>1
  <2>4. CASE TellMade(c) \/ StartChat(c) \/ ShowRoom(c)
    <3>1. Dies({}) \/ past' = past
      BY <2>4 DEF TellMade, StartChat, ShowRoom
    <3> QED BY <1>3, <3>1
  <2>5. CASE FindSeat(c)
    <3>1. past' = past \/ past' = past \cup {"looked"}
      BY <2>5 DEF FindSeat
    <3> QED BY <3>1
  <2>6. CASE TakeSeat(c)
    <3>1. Dies({}) \/ \E n : past' =
                past \cup (IF mem[roomList[thr[c].i]].id # thr[c].a
                              \/ mem[roomList[thr[c].i]].connfd[thr[c].j] # -1 THEN {"seat"} ELSE {})
                     \cup (IF NeedsHost(roomList[thr[c].i]) THEN {"seat"} ELSE {})
                     \cup (IF Gone(c) THEN {"gone"} ELSE {})
                     \cup (IF n # mem[roomList[thr[c].i]].count + 1 THEN {"count"} ELSE {})
      BY <2>6 DEF TakeSeat
    <3> QED BY <1>3, <3>1
  <2>7. CASE Welcome(c)
    <3>1. past' = past \/ Dies({}) \/ Dies({"early"}) \/ Dies({"looked"})
      BY <2>7 DEF Welcome
    <3> QED BY <1>3, <3>1
  <2> QED BY <1>6, <2>1, <2>2, <2>3, <2>4, <2>5, <2>6, <2>7 DEF Serves
<1>7. ASSUME NEW a \in Cells, NEW j \in Seats, NEW c \in Clients, Reads(a, j, c) PROVE Good
  <2>1. CASE ReadChat(a, j, c)
    <3>1. Gets(a, j, c) /\ past' = IF mail[c].what \in {"id", "room"} THEN past \cup {"stolen"} ELSE past
      BY <2>1 DEF ReadChat
    <3> QED BY <3>1
  <2>2. CASE ReadReady(a, j, c) \/ ReadInvite(a, j, c) \/ ReadQuit(a, j, c)
    <3>1. Dies({}) \/ Dies({"name"}) \/ past' = past
      BY <2>2 DEF ReadReady, ReadInvite, ReadQuit
    <3> QED BY <1>3, <3>1
  <2>3. CASE ReadKick(a, j, c)
    <3>1. Dies({"name"}) \/ past' = past \cup (IF SeatOf(a, mail[c].arg) = 0 THEN {"kickSelf"} ELSE {})
      BY <2>3 DEF ReadKick
    <3> QED BY <1>3, <3>1
  <2> QED BY <1>7, <2>1, <2>2, <2>3 DEF Reads
<1>8. ASSUME NEW a \in Cells, Leaves(a) PROVE Good
  <2>1. CASE QuitRoom(a) \/ LeaveSeat(a)
    BY <2>1 DEF QuitRoom, LeaveSeat
  <2>2. CASE CountOff(a)
    <3>1. past' = IF mem[a].count # chat[a].n THEN past \cup {"count"} ELSE past
      BY <2>2 DEF CountOff
    <3> QED BY <3>1
  <2>3. CASE AfterLeaving(a)
    <3>1. Dies({}) \/ past' = past
      BY <2>3 DEF AfterLeaving
    <3> QED BY <1>3, <3>1
  <2>4. CASE DeleteRoom(a)
    <3>1. past' = past \cup (IF mem[a].count = chat[a].n THEN {"deleted"} ELSE {"deleted", "occupied"})
      BY <2>4 DEF DeleteRoom
    <3> QED BY <3>1
  <2>5. CASE UncountRoom(a)
    <3>1. past' = IF roomNum # chat[a].n THEN past \cup {"num"} ELSE past
      BY <2>5 DEF UncountRoom
    <3> QED BY <3>1
  <2> QED BY <1>8, <2>1, <2>2, <2>3, <2>4, <2>5 DEF Leaves
<1>9. ASSUME NEW a \in Cells, (\E j \in Seats : Notice(a, j) \/ Look(a, j)) \/ Reread(a) \/ StartGame(a)
                              \/ EndGame(a) \/ BreakGame(a) \/ BreakSeat(a) \/ BreakOff(a)
      PROVE  Good
  <2>1. past' = past \/ Dies({}) \/ Dies({"name"}) \/ past' = past \cup {"hostless"}
    BY <1>9 DEF Notice, Look, Reread, StartGame, EndGame, BreakGame, BreakSeat, BreakOff, BackToChat
  <2> QED BY <1>3, <2>1
<1>10. CASE ReadElsewhere
  BY <1>10 DEF ReadElsewhere
<1> QED BY <1>2, <1>4, <1>5, <1>6, <1>7, <1>8, <1>9, <1>10 DEF Next, RunChat, PlayGame

\* The thread of a room reads what a player sends to the thread of his own
\* request only if his descriptor was somebody's who still has a seat, or two
\* threads have met on a seat: who asks for a room has none.  It is said of the
\* threads of rooms; a request's thread that its client has left reads what
\* comes to his slot, and the specification ends where that begins ("stale").
THEOREM OwnThreadTheorem == Spec => []OwnThreadReads
<1>1. Init => OwnThreadReads
  BY DEF Init, OwnThreadReads
<1>2. TypeInv /\ ListInv /\ ClientsRight /\ SeatedInv /\ OwnThreadReads /\ [Next]_vars => OwnThreadReads'
  <2> SUFFICES ASSUME TypeInv, ListInv, ClientsRight, SeatedInv, OwnThreadReads, [Next]_vars,
                      "stolen" \in past', Never({"reuse", "seat"})'
               PROVE  FALSE
    BY DEF OwnThreadReads
  <2>1. past \subseteq past' /\ Never({"seat", "reuse"}) /\ "stolen" \notin past
    BY Grows DEF OwnThreadReads, Never
  <2>2. PICK a \in Cells, j \in Seats, c \in Clients : Gets(a, j, c) /\ mail[c].what \in {"id", "room"}
    BY <2>1, Grows
  <2>3. chat[a].pc = "get" /\ j \in SeatsOf(a) /\ mem[a].connfd[j] = fd[c] /\ ~Gone(c) /\ a \in used
    BY <2>2 DEF Gets, Mail, Doing, ListInv, CellsRight, Chatting
  <2>4. Has(c, a, j)
    BY <2>1, <2>3 DEF SeatedInv, OneInv, OwnSeats, OwnsAt, Has
  <2>5. Sits(c)
    BY <2>1, <2>4 DEF SeatedInv, OneInv
  <2>6. client[c].at = "asking" /\ thr[c].pc \in {"name", "getID"}
    BY <2>2 DEF ClientsRight, ClientRight
  <2> QED BY <2>5, <2>6 DEF Sits, In
<1> QED BY <1>1, <1>2, TypeInvariant, ListInvariant, ClientsInvariant, SeatedInvariant, PTL DEF Spec


-----------------------------------------------------------------------------
(***************************************************************************)
(* The server's life.                                                      *)
(***************************************************************************)

\* As long as no room is deleted, an entry stays an entry.
LEMMA EntriesStay ==
    ASSUME TypeInv, TypeInv', ListInv, [Next]_vars, Never({"deleted"})'
    PROVE  \A i \in Entries : roomList[i] # 0 => roomList'[i] # 0
<1>1. CASE \E c \in Clients : InsertRoom(c)
  <2>1. PICK c \in Clients : InsertRoom(c)
    BY <1>1
  <2>2. PICK a : roomList' = roomList \/ (Holes # {} /\ roomList' = [roomList EXCEPT ![FreeEntry] = a])
    BY <2>1 DEF InsertRoom
  <2>3. Holes # {} => FreeEntry \in Holes
    <3>1. Holes \in SUBSET Nat
      BY Constants DEF Holes
    <3> QED BY <3>1, MinIsLowest DEF FreeEntry
  <2> QED BY <2>2, <2>3 DEF Holes, TypeInv
<1>2. CASE \E a \in Cells : DeleteRoom(a)
  BY <1>2, DeleteKeeps DEF DeleteRoom, Never
<1>3. CASE ~(\E c \in Clients : InsertRoom(c)) /\ ~(\E a \in Cells : DeleteRoom(a))
  <2>1. ASSUME NEW c \in Clients, \/ Connect(c) \/ Inherit(c) \/ HangUp(c) \/ Request(c) \/ Choose(c) \/ Type(c)
                                 \/ Serves(c) \/ ReadElsewhere
        PROVE  roomList' = roomList
    BY <1>3, <2>1 DEF Connect, Inherit, HangUp, Request, Choose, Type, ReadElsewhere, Serves, TestRoom, NumberRoom,
                      FillRoom, TellMade, StartChat, AskRooms, ListRoom, ShowRoom, FindSeat, TakeSeat, TellEntered,
                      Welcome, Dies
  <2>2. ASSUME NEW a \in Cells, RunChat(a) \/ PlayGame(a) PROVE roomList' = roomList
    <3>1. CASE UncountRoom(a)
      BY <3>1 DEF UncountRoom
    <3>2. CASE ~UncountRoom(a)
      BY <1>3, <2>2, <3>2, ChatGoes DEF Goes, Elsewhere, Dies
    <3> QED BY <3>1, <3>2
  <2>3. ReadElsewhere => roomList' = roomList
    BY DEF ReadElsewhere
  <2>4. Next => roomList' = roomList
    BY <2>1, <2>2, <2>3 DEF Next
  <2> QED BY <2>4
<1> QED BY <1>1, <1>2, <1>3

\* Who begins to show an entry or to take a seat there has found it.
LEMMA EntriesFound ==
    ASSUME TypeInv, TypeInv', ListInv, [Next]_vars, NEW c \in Clients, thr'[c].pc \in {"show", "take"}
    PROVE  \/ thr[c].pc = thr'[c].pc /\ thr[c].i = thr'[c].i
           \/ thr'[c].i \in Entries /\ roomList'[thr'[c].i] # 0
<1>1. CASE thr' = thr
  BY <1>1
<1>2. ASSUME NEW d \in Clients, NEW t, thr' = [thr EXCEPT ![d] = t], t.pc \notin {"show", "take"}
      PROVE  thr[c].pc = thr'[c].pc /\ thr[c].i = thr'[c].i
  BY <1>2 DEF TypeInv
<1>3. ASSUME NEW d \in Clients, NEW pc \in Steps \ {"show", "take"}, thr' = [thr EXCEPT ![d].pc = pc]
      PROVE  thr[c].pc = thr'[c].pc /\ thr[c].i = thr'[c].i
  BY <1>3 DEF TypeInv, ThreadState
<1>4. ASSUME NEW d \in Clients, Connect(d) \/ Inherit(d) \/ HangUp(d) \/ Request(d) \/ Choose(d) \/ Type(d)
      PROVE  thr[c].pc = thr'[c].pc /\ thr[c].i = thr'[c].i
  <2>1. thr' = thr \/ \E pc \in {"name", "ask"} : thr' = [thr EXCEPT ![d].pc = pc]
    BY <1>4 DEF Connect, Inherit, HangUp, Request, Choose, Type
  <2> QED BY <1>1, <1>3, <2>1 DEF Steps
<1>5. ASSUME NEW d \in Clients, TestRoom(d) \/ NumberRoom(d) \/ FillRoom(d) \/ StartChat(d) \/ AskRooms(d)
                                \/ TakeSeat(d) \/ Welcome(d)
      PROVE  thr[c].pc = thr'[c].pc /\ thr[c].i = thr'[c].i
  <2>1. \/ thr' = thr \/ thr' = [thr EXCEPT ![d] = NoThread]
        \/ \E pc \in {"insert", "none", "fill", "made", "list", "entered"} : thr' = [thr EXCEPT ![d].pc = pc]
    BY <1>5 DEF TestRoom, NumberRoom, FillRoom, StartChat, AskRooms, TakeSeat, Welcome, Dies
  <2> QED BY <1>2, <1>3, <2>1, StatesAre DEF Steps, Making, Entering
<1>6. ASSUME NEW d \in Clients, TellMade(d) \/ TellEntered(d) \/ ShowRoom(d) \/ InsertRoom(d)
      PROVE  thr[c].pc = thr'[c].pc /\ thr[c].i = thr'[c].i
  <2>1. CASE InsertRoom(d)
    <3>1. PICK a, t : t = [NoThread EXCEPT !.pc = "number", !.a = a] /\ thr' = [thr EXCEPT ![d] = t]
      BY <2>1 DEF InsertRoom
    <3>2. t.pc = "number"
      BY <3>1 DEF NoThread
    <3> QED BY <1>2, <3>1, <3>2
  <2>2. CASE TellMade(d) \/ TellEntered(d)
    <3>1. \/ thr' = thr \/ thr' = [thr EXCEPT ![d] = NoThread]
          \/ \E pc \in {"start", "welcome"} : thr' = [thr EXCEPT ![d] = [thr[d] EXCEPT !.pc = pc]]
      BY <2>2 DEF TellMade, TellEntered, Dies
    <3>2. ASSUME NEW pc \in {"start", "welcome"}, thr' = [thr EXCEPT ![d] = [thr[d] EXCEPT !.pc = pc]]
          PROVE  thr[c].pc = thr'[c].pc /\ thr[c].i = thr'[c].i
      <4>1. PICK t : t = [thr[d] EXCEPT !.pc = pc]
        OBVIOUS
      <4>2. t.pc = pc
        BY <4>1 DEF TypeInv, ThreadState
      <4> QED BY <1>2, <3>2, <4>1, <4>2
    <3> QED BY <1>1, <1>2, <3>1, <3>2, StatesAre
  <2>3. CASE ShowRoom(d)
    <3>1. PICK t : t = [thr[d] EXCEPT !.pc = "list", !.i = thr[d].i + 1]
      OBVIOUS
    <3>2. thr' = thr \/ thr' = [thr EXCEPT ![d] = t]
      BY <2>3, <3>1 DEF ShowRoom, Dies
    <3>3. t.pc = "list"
      BY <3>1 DEF TypeInv, ThreadState
    <3> QED BY <1>2, <3>2, <3>3
  <2> QED BY <1>6, <2>1, <2>2, <2>3
<1>7. ASSUME NEW d \in Clients, ListRoom(d)
      PROVE  \/ thr[c].pc = thr'[c].pc /\ thr[c].i = thr'[c].i
             \/ thr'[c].i \in Entries /\ roomList'[thr'[c].i] # 0
  <2> DEFINE next == {i \in Entries \ Holes : i >= thr[d].i}
  <2>1. /\ thr' = [thr EXCEPT ![d] =
                      IF Gone(d) THEN NoThread
                      ELSE IF next = {} THEN [NoThread EXCEPT !.pc = "getID"]
                      ELSE [thr[d] EXCEPT !.pc = "show", !.i = Min(next)]]
        /\ roomList' = roomList
    BY <1>7 DEF ListRoom
  <2>2. CASE c # d
    BY <2>1, <2>2 DEF TypeInv
  <2>3. CASE c = d
    <3>1. next # {} /\ ~Gone(d)
      BY <2>1, <2>3 DEF NoThread, TypeInv
    <3>2. next \in SUBSET Nat
      BY Constants
    <3>3. Min(next) \in next
      BY <3>1, <3>2, MinIsLowest
    <3>4. PICK m : m = Min(next) /\ m \in Entries /\ roomList[m] # 0
      BY <3>3 DEF Holes
    <3> HIDE DEF next
    <3>5. PICK t : t = [thr[d] EXCEPT !.pc = "show", !.i = m]
      OBVIOUS
    <3>6. t.i = m
      BY <3>5 DEF TypeInv, ThreadState
    <3>7. thr'[d] = t
      BY <2>1, <3>1, <3>4, <3>5 DEF TypeInv
    <3> QED BY <2>1, <2>3, <3>4, <3>6, <3>7
  <2> QED BY <2>2, <2>3
<1>8. ASSUME NEW d \in Clients, FindSeat(d)
      PROVE  \/ thr[c].pc = thr'[c].pc /\ thr[c].i = thr'[c].i
             \/ thr'[c].i \in Entries /\ roomList'[thr'[c].i] # 0
  <2>1. CASE thr' # thr
    <3>1. PICK a \in Cells : Found(d, a)
      BY <1>8, <2>1, FoundIs
    <3>2. thr'[d].i \in Entries
      BY <3>1 DEF Found, TypeInv, Entering
    <3> QED BY <3>1, <3>2, Constants DEF Found
  <2> QED BY <2>1
<1>9. ASSUME NEW a \in Cells, RunChat(a) \/ PlayGame(a) PROVE thr' = thr
  <2>1. CASE DeleteRoom(a) \/ UncountRoom(a)
    BY <2>1 DEF DeleteRoom, UncountRoom
  <2>2. CASE ~DeleteRoom(a) /\ ~UncountRoom(a)
    BY <1>9, <2>2, ChatGoes DEF Goes, Elsewhere, Dies
  <2> QED BY <2>1, <2>2
<1>10. CASE ReadElsewhere
  BY <1>1, <1>10 DEF ReadElsewhere
<1> QED BY <1>1, <1>4, <1>5, <1>6, <1>7, <1>8, <1>9, <1>10 DEF Next, Serves

LEMMA EntriesNext == TypeInv /\ TypeInv' /\ ListInv /\ EntriesKept /\ [Next]_vars => EntriesKept'
<1> SUFFICES ASSUME TypeInv, TypeInv', ListInv, EntriesKept, [Next]_vars, Never({"deleted"})',
                    NEW c \in Clients, thr'[c].pc \in {"show", "take"}
             PROVE  roomList'[thr'[c].i] # 0
  BY DEF EntriesKept
<1>1. CASE thr'[c].i \in Entries /\ roomList'[thr'[c].i] # 0
  BY <1>1
<1>2. CASE thr[c].pc = thr'[c].pc /\ thr[c].i = thr'[c].i
  <2>1. Never({"deleted"})
    BY Grows DEF Never
  <2>2. thr[c].i \in Entries
    BY <1>2 DEF TypeInv, Entering
  <2>3. roomList[thr[c].i] # 0
    BY <1>2, <2>1 DEF EntriesKept
  <2> QED BY <1>2, <2>2, <2>3, EntriesStay
<1> QED BY <1>1, <1>2, EntriesFound

LEMMA EntriesInvariant == Spec => []EntriesKept
<1>1. Init => EntriesKept
  BY StatesAre DEF Init, EntriesKept
<1> QED BY <1>1, EntriesNext, TypeInvariant, ListInvariant, PTL DEF Spec

LEMMA Invariant == Spec => []Inv
<1>1. TypeInv /\ ListInv /\ RoomInv /\ ClientsRight /\ SeatedInv /\ EntriesKept => Inv
  BY DEF Inv
<1> QED BY <1>1, TypeInvariant, ListInvariant, RoomInvariant, ClientsInvariant, SeatedInvariant,
           EntriesInvariant, PTL


\* What must not have happened for the server to live
UpEvents == SeatRaces \cup {"deleted", "hostless", "kickSelf", "looked", "early", "name", "full"}

\* Without deletions a scan meets the room it looks for before any hole.
LEMMA ScanFinds ==
    ASSUME TypeInv, ListInv, Never({"deleted"}), NEW id, Having(id) # {}
    PROVE  ~ScanFails(id)
<1> SUFFICES ASSUME ScanFails(id) PROVE FALSE
  OBVIOUS
<1>1. PICK h \in Holes : \A i \in Having(id) : h < i
  BY DEF ScanFails
<1>2. PICK i \in Having(id) : h < i
  BY <1>1
<1>3. h \in Entries /\ i \in Entries /\ roomList[h] = 0 /\ roomList[i] # 0
  BY <1>2 DEF Holes, Having
<1> QED BY <1>2, <1>3 DEF ListInv, ListRight

\* A room is found by its number, and nothing but the room.
LEMMA FoundByNumber ==
    ASSUME TypeInv, ListInv, Never(UpEvents), status = "up", NEW a \in used, mem[a].id # 0
    PROVE  Having(mem[a].id) # {} /\ roomList[Min(Having(mem[a].id))] = a /\ ~ScanFails(mem[a].id)
<1>1. Never({"deleted"}) /\ Never({"full"})
  BY DEF Never, UpEvents
<1>2. PICK i \in Entries : roomList[i] = a
  BY <1>1 DEF ListInv, ListRight
<1>3. i \in Having(mem[a].id)
  BY <1>2, Constants DEF Having, TypeInv
<1>4. PICK b : b = roomList[Min(Having(mem[a].id))]
  OBVIOUS
<1>5. b \in Cells /\ mem[b].id = mem[a].id /\ Min(Having(mem[a].id)) \in Entries
  BY <1>3, <1>4, HavingIs
<1>6. b \in used
  BY <1>4, <1>5, Constants DEF ListInv, ListRight
<1>7. b = a
  BY <1>5, <1>6 DEF ListInv, NumbersRight
<1> QED BY <1>1, <1>3, <1>4, <1>7, ScanFinds

\* A room that has a number and a host is printed.
LEMMA RoomPrints ==
    ASSUME TypeInv, ListInv, RoomInv, Never(UpEvents), status = "up", NEW a \in used, mem[a].size # 0,
           ~(chat[a].pc = "left" /\ chat[a].j = 0)
    PROVE  ~PrintFails(mem[a].id) /\ Having(mem[a].id) # {} /\ mem[a].player[0] # NoOne
<1>1. a \in Cells /\ 0 \in Seats
  BY Constants DEF TypeInv
<1>2. mem[a].id # 0
  BY <1>1 DEF ListInv, CellsRight
<1>3. Without(SeatRaces \cup {"kickSelf", "hostless"}, past)
  BY DEF Never, Without, UpEvents
<1>4. mem[a].connfd[0] # -1
  BY <1>1, <1>3 DEF RoomInv, RoomRight, HostRight
<1>5. mem[a].player[0] # NoOne
  BY <1>1, <1>4 DEF RoomInv, RoomRight, SeatsRight
<1> QED BY <1>2, <1>5, FoundByNumber DEF PrintFails

\* A thread of roomChat prints its room.
LEMMA ChatPrints ==
    ASSUME TypeInv, ListInv, RoomInv, Never(UpEvents), status = "up", NEW a \in Cells,
           chat[a].pc \in {"chat", "get"}
    PROVE  ~PrintFails(mem[a].id)
<1>1. a \in used /\ mem[a].size # 0
  BY DEF ListInv, CellsRight, Chatting
<1> QED BY <1>1, RoomPrints

\* The thread of a room that has been made finds it, and goes on to chat.
LEMMA MakerPrints ==
    ASSUME TypeInv, ListInv, RoomInv, Never(UpEvents), status = "up", NEW c \in Clients,
           thr[c].pc \in {"made", "start"}
    PROVE  ~PrintFails(mem[thr[c].a].id) /\ Having(mem[thr[c].a].id) # {}
<1>1. PICK a : a = thr[c].a
  OBVIOUS
<1>2. a \in used /\ chat[a] = NoChat /\ mem[a].size # 0
  BY <1>1 DEF ListInv, CellsRight, Making
<1>3. ~(chat[a].pc = "left" /\ chat[a].j = 0)
  BY <1>2, StatesAre
<1> QED BY <1>1, <1>2, <1>3, RoomPrints

\* After somebody has left, there is a next host if one is needed.
LEMMA LeaversPrint ==
    ASSUME TypeInv, ListInv, RoomInv, Never(UpEvents), NEW a \in Cells, AfterLeaving(a)
    PROVE  ~Dies({})
<1>1. chat[a].pc = "left" /\ status = "up"
  BY DEF AfterLeaving, Doing, On
<1>2. a \in used /\ mem[a].size # 0 /\ mem[a].id # 0 /\ 0 \in Seats
  BY <1>1, Constants DEF ListInv, CellsRight, Chatting, Quitting
<1>3. ~ScanFails(mem[a].id)
  BY <1>1, <1>2, FoundByNumber
<1>4. /\ Without(SeatRaces, past) /\ Without({"seat"}, past)
      /\ Without(SeatRaces \cup {"kickSelf", "hostless"}, past)
  BY DEF Never, Without, UpEvents, SeatRaces
<1>5. NewHost(a) # -1 /\ NewHost(a) \in Taken(a)
  <2>1. mem[a].count >= 1 /\ mem[a].count = Cardinality(TakenIn(mem[a]))
    BY <1>1, <1>4, TakenIs DEF RoomInv, RoomRight, CountRight
  <2>2. TakenIn(mem[a]) = Taken(a)
    BY DEF TakenIn, Taken, SeatsOf
  <2>3. Taken(a) # {}
    BY <2>1, <2>2, FS_EmptySet
  <2> QED BY <2>3, NewHostIs
<1>6. CASE NeedsHost(a)
  <2>1. PICK h \in Seats : h = NewHost(a) /\ mem[a].connfd[h] # -1
    BY <1>5 DEF Taken, SeatsOf
  <2>2. h # 0 /\ mem[a].player[h] # NoOne
    BY <1>1, <1>4, <1>6, <2>1 DEF NeedsHost, RoomInv, RoomRight, SeatsRight
  <2>3. Moved(a, h).player[0] = mem[a].player[h]
    BY <1>2, <2>2, MovedSeats
  <2>4. Moved(a, NewHost(a)).player[0] # NoOne
    BY <2>1, <2>2, <2>3
  <2>5. status' = status
    BY <1>3, <1>5, <1>6, <2>4 DEF AfterLeaving
  <2> QED BY <1>1, <2>5 DEF Dies
<1>7. CASE ~NeedsHost(a)
  <2>1. chat[a].why \in {"quit", "kick"} => mem[a].player[0] # NoOne
    <3> SUFFICES ASSUME chat[a].why \in {"quit", "kick"} PROVE mem[a].player[0] # NoOne
      OBVIOUS
    <3>1. chat[a].j # 0
      BY <1>1, <1>4, <1>7 DEF NeedsHost, RoomInv, RoomRight, HostRight, Quitting
    <3>2. mem[a].connfd[0] # -1
      BY <1>2, <1>4, <3>1 DEF RoomInv, RoomRight, HostRight
    <3> QED BY <1>2, <3>2 DEF RoomInv, RoomRight, SeatsRight
  <2>2. status' = status
    BY <1>3, <1>7, <2>1 DEF AfterLeaving
  <2> QED BY <1>1, <2>2 DEF Dies
<1> QED BY <1>6, <1>7

\* The server stays up: one step of a player's thread
LEMMA ServesUp ==
    ASSUME TypeInv, ListInv, RoomInv, EntriesKept, NEW c \in Clients, Serves(c), Never(UpEvents)',
           Never(UpEvents), status = "up"
    PROVE  status' # "crash"
<1>0. Never({"deleted"})
  BY DEF Never, UpEvents
<1>1. CASE TestRoom(c) \/ InsertRoom(c) \/ NumberRoom(c) \/ FillRoom(c) \/ AskRooms(c) \/ ListRoom(c) \/ TellEntered(c)
  BY <1>1 DEF TestRoom, InsertRoom, NumberRoom, FillRoom, AskRooms, ListRoom, TellEntered
<1>2. CASE TellMade(c)
  <2>1. ~PrintFails(mem[thr[c].a].id)
    BY <1>2, MakerPrints DEF TellMade, At
  <2> QED BY <1>2, <2>1 DEF TellMade
<1>3. CASE StartChat(c)
  <2>1. ~PrintFails(mem[thr[c].a].id) /\ Having(mem[thr[c].a].id) # {}
    BY <1>3, MakerPrints DEF StartChat, At
  <2> QED BY <1>3, <2>1 DEF StartChat
<1>4. CASE ShowRoom(c)
  <2>1. roomList[thr[c].i] # 0
    BY <1>0, <1>4 DEF ShowRoom, At, EntriesKept
  <2> QED BY <1>4, <2>1 DEF ShowRoom
<1>5. CASE FindSeat(c)
  <2> DEFINE id == IF mail[c].what = "id" THEN mail[c].arg ELSE 0
  <2>1. status' # "crash" \/ (Having(id) # {} /\ (~ScanFails(id) => "looked" \in past'))
    BY <1>5 DEF FindSeat
  <2>2. "looked" \notin past'
    BY DEF Never, UpEvents
  <2> HIDE DEF id
  <2> QED BY <1>0, <2>1, <2>2, ScanFinds
<1>6. CASE TakeSeat(c)
  <2>1. roomList[thr[c].i] # 0
    BY <1>0, <1>6 DEF TakeSeat, At, EntriesKept
  <2> QED BY <1>6, <2>1 DEF TakeSeat
<1>7. CASE Welcome(c)
  <2> DEFINE a == roomList[thr[c].i]
  <2>1. /\ thr[c].i \in Entries
        /\ status' # "crash" \/ "early" \in past' \/ "looked" \in past' \/ (a # 0 /\ ScanFails(mem[a].id))
    BY <1>7 DEF Welcome, Dies, At, TypeInv, Entering
  <2>2. "early" \notin past' /\ "looked" \notin past'
    BY DEF Never, UpEvents
  <2>3. a # 0 => thr[c].i \in Having(mem[a].id)
    BY <2>1 DEF Having
  <2>4. a # 0 => ~ScanFails(mem[a].id)
    BY <1>0, <2>3, ScanFinds
  <2> QED BY <2>1, <2>2, <2>4
<1> QED BY <1>1, <1>2, <1>3, <1>4, <1>5, <1>6, <1>7 DEF Serves

LEMMA ChatUp ==
    ASSUME TypeInv, ListInv, RoomInv, NEW a \in Cells, RunChat(a) \/ PlayGame(a), Never(UpEvents)',
           Never(UpEvents), status = "up"
    PROVE  status' # "crash"
<1>0. "name" \notin past'
  BY DEF Never, UpEvents
<1>1. ASSUME NEW j \in Seats, Notice(a, j) PROVE status' # "crash"
  <2>1. ~PrintFails(mem[a].id)
    BY <1>1, ChatPrints DEF Notice, Doing
  <2> QED BY <1>1, <2>1 DEF Notice
<1>2. ASSUME NEW j \in Seats, NEW c \in Clients, Reads(a, j, c) PROVE status' # "crash"
  <2>1. CASE ReadReady(a, j, c)
    <3>1. ~PrintFails(mem[a].id)
      BY <2>1, ChatPrints DEF ReadReady, Gets, Doing
    <3> QED BY <2>1, <3>1 DEF ReadReady
  <2>2. CASE ~ReadReady(a, j, c)
    <3>1. status' = status \/ Dies({"name"})
      BY <1>2, <2>2 DEF Reads, ReadChat, ReadQuit, ReadKick, ReadInvite
    <3> QED BY <1>0, <3>1 DEF Dies
  <2> QED BY <2>1, <2>2
<1>3. CASE AfterLeaving(a)
  <2>1. ~Dies({})
    BY <1>3, LeaversPrint
  <2> QED BY <1>3, <2>1 DEF AfterLeaving
<1>4. CASE StartGame(a)
  <2>1. ~PrintFails(mem[a].id)
    BY <1>4, ChatPrints DEF StartGame, Doing
  <2> QED BY <1>4, <2>1 DEF StartGame
<1>5. CASE (Leaves(a) /\ ~AfterLeaving(a)) \/ EndGame(a) \/ BreakGame(a) \/ BreakSeat(a) \/ BreakOff(a)
  <2>1. status' = status
    BY <1>5 DEF Leaves, QuitRoom, CountOff, LeaveSeat, DeleteRoom, UncountRoom, EndGame, BreakGame, BreakSeat,
                BreakOff, BackToChat
  <2> QED BY <2>1
<1>6. ASSUME NEW j \in Seats, Look(a, j) PROVE status' # "crash"
  BY <1>6 DEF Look
<1>7. CASE Reread(a)
  <2>1. ~PrintFails(mem[a].id)
    BY <1>7, ChatPrints DEF Reread, Doing
  <2>2. status' = status \/ Dies({"name"})
    BY <1>7, <2>1 DEF Reread
  <2> QED BY <1>0, <2>2 DEF Dies
<1> QED BY <1>1, <1>2, <1>3, <1>4, <1>5, <1>6, <1>7 DEF RunChat, PlayGame

\* The server follows no NULL before a room was deleted or has lost its host, or
\* threads have met on a seat, or somebody has looked at a room that has no host
\* at the moment, has left as soon as he was in, or has typed a name that nobody
\* has.
THEOREM UpTheorem == Spec => []Up
<1>1. Init => Up
  BY DEF Init, Up
<1>2. TypeInv /\ ListInv /\ RoomInv /\ EntriesKept /\ Up /\ [Next]_vars => Up'
  <2> SUFFICES ASSUME TypeInv, ListInv, RoomInv, EntriesKept, Up, [Next]_vars, Never(UpEvents)'
               PROVE  status' # "crash"
    BY DEF Up, UpEvents, Never
  <2>1. Never(UpEvents) /\ status # "crash"
    BY Grows DEF Never, Up, UpEvents
  <2>2. CASE UNCHANGED vars
    BY <2>1, <2>2
  <2>3. ASSUME NEW c \in Clients, Connect(c) \/ Inherit(c) \/ HangUp(c) \/ Request(c) \/ Choose(c) \/ Type(c)
        PROVE  status' # "crash"
    BY <2>1, <2>3 DEF Connect, Inherit, HangUp, Request, Choose, Type
  <2>4. ASSUME NEW c \in Clients, Serves(c) PROVE status' # "crash"
    <3>1. status = "up"
      BY <2>4 DEF Serves, TestRoom, InsertRoom, NumberRoom, FillRoom, TellMade, StartChat, AskRooms, ListRoom,
                  ShowRoom, FindSeat, TakeSeat, TellEntered, Welcome, At, On
    <3> QED BY <2>1, <2>4, <3>1, ServesUp
  <2>5. ASSUME NEW a \in Cells, RunChat(a) \/ PlayGame(a) PROVE status' # "crash"
    <3>1. CASE DeleteRoom(a) \/ UncountRoom(a)
      BY <2>1, <3>1 DEF DeleteRoom, UncountRoom
    <3>2. CASE ~DeleteRoom(a) /\ ~UncountRoom(a)
      <4>1. status' = status \/ On
        BY <2>5, <3>2, ChatGoes DEF Goes, Elsewhere
      <4> QED BY <2>1, <2>5, <4>1, ChatUp DEF On
    <3> QED BY <3>1, <3>2
  <2>6. CASE ReadElsewhere
    BY <2>1, <2>6 DEF ReadElsewhere
  <2> QED BY <2>2, <2>3, <2>4, <2>5, <2>6 DEF Next
<1> QED BY <1>1, <1>2, TypeInvariant, ListInvariant, RoomInvariant, EntriesInvariant, PTL DEF Spec

================================================================================
