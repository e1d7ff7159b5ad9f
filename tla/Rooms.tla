--------------------------------- MODULE Rooms ---------------------------------
(***************************************************************************)
(* Server/src/room.c, but for the game itself: rooms are made, entered,    *)
(* left and deleted by threads that share roomList, roomNum,               *)
(* roomIDGenerate and the rooms, with one lock around two of the writes.   *)
(* A player's request runs a thread of newRoom or playerEnterRoom; every   *)
(* room has a thread of roomChat, which alone takes seats away.            *)
(*                                                                         *)
(* Rooms live in cells of memory that malloc hands out again, as zeros.    *)
(* A descriptor that is closed may be given to the next connection.  past  *)
(* is history: which races and mistakes have happened.  The properties say *)
(* what holds whatever happens, and what only while some have not.         *)
(* A counter that two threads write is torn once: what a thread computed   *)
(* from an old value is stored in one step.                                *)
(*                                                                         *)
(* A thread outlives its client: it waits for a message that will be       *)
(* another's, and works for whoever has the slot.  The model goes on until *)
(* a connection comes to such a slot, and ends there ("stale").            *)
(***************************************************************************)
EXTENDS Integers, FiniteSets, FiniteSetsExt

CONSTANTS
    Clients,        \* the players, each with an account of his own
    NoOne,          \* player[j] = NULL
    SecondSlot,     \* who has slot 1, or NoOne if it is none of them
    Descriptors,    \* what accept may return
    Cells,          \* the memory for rooms
    MAX_ROOM,       \* entries of roomList
    Sizes,          \* playerNumPreSet, 2 .. 3 in the client
    Lines,          \* what players type in a room
    MaxID,          \* bound on the rooms made
    MaxConnects,    \* bound on the connections made
    MaxRequests,    \* bound on the requests to make or enter a room
    Ends            \* bound: the model ends when one of these has happened

ASSUME RoomsAssumption ==
    /\ NoOne \notin Clients /\ SecondSlot \in Clients \cup {NoOne}
    /\ Descriptors \subseteq Nat /\ Cells \subseteq Nat \ {0}
    /\ {MAX_ROOM, MaxID} \subseteq Nat \ {0} /\ {MaxConnects, MaxRequests} \subseteq Nat
    /\ Sizes \subseteq 2 .. 3
    /\ Lines \subseteq {"chat", "ready", "quit", "kick", "invite"}

Entries == 0 .. MAX_ROOM - 1
Seats == 0 .. 2

VARIABLES
    client,         \* what a player is doing, and whether he was told he is out
    fd,             \* clientConnfd of his slot, -1 when closed
    mail,           \* his mailbox: a line, a room to make or to enter, or nothing
    connects,       \* connections made
    requests,       \* requests made
    roomList, roomNum, roomIDGenerate,
    mem, used,      \* the cells, and which are allocated
    chat,           \* the thread of roomChat of a cell
    thr,            \* the thread of a player's request
    status,         \* "up"; "crash"; "clash": two rooms have one number; "stale"
    past            \* history: races, mistakes and deletions

clientVars == <<client, fd, mail, connects, requests>>
listVars == <<roomList, roomNum, roomIDGenerate, used>>
vars == <<clientVars, listVars, mem, chat, thr, status, past>>

Empty == [what |-> "none", arg |-> 0]
NoThread == [pc |-> "none", i |-> 0, j |-> 0, a |-> 0]
NoChat == [pc |-> "none", why |-> "none", j |-> 0, n |-> 0]

\* mutant: a room of zeros, whose free seats look taken
MutBlank == [id |-> 0, size |-> 0, count |-> 0, player |-> [j \in Seats |-> NoOne],
             connfd |-> [j \in Seats |-> 0], ready |-> [j \in Seats |-> 0]]

Blank == [id |-> 0, size |-> 0, count |-> 0, player |-> [j \in Seats |-> NoOne],
          connfd |-> [j \in Seats |-> -1], ready |-> [j \in Seats |-> 0]]

Init ==
    /\ client = [c \in Clients |-> [at |-> "gone", out |-> FALSE]]
    /\ fd = [c \in Clients |-> -1]
    /\ mail = [c \in Clients |-> Empty]
    /\ connects = 0 /\ requests = 0
    /\ roomList = [i \in Entries |-> 0]
    /\ roomNum = 0 /\ roomIDGenerate = 0
    /\ mem = [a \in Cells |-> Blank]
    /\ used = {}
    /\ chat = [a \in Cells |-> NoChat]
    /\ thr = [c \in Clients |-> NoThread]
    /\ status = "up"
    /\ past = {}

-----------------------------------------------------------------------------
(***************************************************************************)
(* What the threads look at.                                               *)
(***************************************************************************)

\* The model goes on: no crash, no bounding event.
On == status = "up" /\ past \cap Ends = {}

\* The step a thread is at, and what the thread of a room is at
At(c, pc) == thr[c].pc = pc /\ On
Doing(a, pc) == chat[a].pc = pc /\ On

SeatsOf(a) == {j \in Seats : j < mem[a].size}
Taken(a) == {j \in SeatsOf(a) : mem[a].connfd[j] # -1}

\* getConnfdIndex(f) = -1 for a descriptor f that a seat holds
Closed(f) == f # -1 /\ \A c \in Clients : fd[c] # f

Gone(c) == fd[c] = -1

\* The mailboxes once a message of c has been read: whatever it was, the
\* flag that its type is the index of goes down, which is that of slot 1.
Read(c) == [d \in Clients |-> IF d \in {c, SecondSlot} THEN Empty ELSE mail[d]]

\* client_account of his slot
Account(c) == IF Gone(c) THEN NoOne ELSE c

\* The entries of the rooms with number id, the holes of the list, and
\* whether a scan for id that does not look for NULL meets a hole first.
Having(id) == {i \in Entries : roomList[i] # 0 /\ mem[roomList[i]].id = id}
Holes == {i \in Entries : roomList[i] = 0}
ScanFails(id) == \E h \in Holes : \A i \in Having(id) : h < i

\* printOneRoom names the host of the room it finds.
PrintFails(id) ==
    \/ ScanFails(id)
    \/ Having(id) # {} /\ mem[roomList[Min(Having(id))]].player[0] = NoOne

\* The process is killed, for a reason.
Dies(why) ==
    /\ status' = "crash"
    /\ past' = past \cup why
    /\ UNCHANGED <<clientVars, listVars, mem, chat, thr>>

Told(cs, at) == [c \in Clients |-> IF c \in cs THEN [client[c] EXCEPT !.at = at] ELSE client[c]]

-----------------------------------------------------------------------------
(***************************************************************************)
(* The players.                                                            *)
(***************************************************************************)

\* A thread in getMessage
Waits(c) == thr[c].pc \in {"name", "getID"}

\* accept: the lowest descriptor that is free, whoever still remembers it;
\* the player's name and password are read.
Connect(c) ==
    /\ On /\ client[c].at = "gone" /\ thr[c].pc = "none"
    /\ connects < MaxConnects
    /\ LET free == {f \in Descriptors : \A d \in Clients : fd[d] # f}
           f == Min(free)
       IN  /\ free # {}
           /\ fd' = [fd EXCEPT ![c] = f]
           /\ past' = IF \E a \in used : \E j \in SeatsOf(a) : mem[a].connfd[j] = f
                        THEN past \cup {"reuse"} ELSE past
    /\ client' = [client EXCEPT ![c] = [at |-> "menu", out |-> FALSE]]
    /\ mail' = Read(c)
    /\ connects' = connects + 1
    /\ UNCHANGED <<requests, listVars, mem, chat, thr, status>>

\* A connection comes to a slot where a thread of a former client is still
\* at work, or waits: getMessage was called for him, or for the descriptor
\* -1 when he had left already, which is that of any free slot; or a room's
\* thread waits there for a line, or the game for his roll.
Inherit(c) ==
    /\ On /\ client[c].at = "gone"
    /\ connects < MaxConnects
    /\ \/ thr[c].pc # "none"
       \/ \E d \in Clients : Gone(d) /\ Waits(d)
       \/ \E a \in Cells, j \in Seats : Closed(mem[a].connfd[j]) /\ chat[a].pc \in {"get", "play"}
    /\ status' = "stale"
    /\ UNCHANGED <<clientVars, listVars, mem, chat, thr, past>>

\* The program ends and the loop closes the descriptor, when what it has
\* read of him before has been taken.  No thread of his ends.
HangUp(c) ==
    /\ On /\ ~Gone(c) /\ mail[c] = Empty
    /\ client' = [client EXCEPT ![c] = [at |-> "gone", out |-> FALSE]]
    /\ fd' = [fd EXCEPT ![c] = -1]
    /\ UNCHANGED <<mail, connects, requests, listVars, mem, chat, thr, status, past>>

\* "4. New room" and "5. Join room" of the menu
Request(c) ==
    /\ On /\ client[c].at = "menu" /\ thr[c].pc = "none"
    /\ requests < MaxRequests
    /\ requests' = requests + 1
    /\ \E pc \in {"name", "ask"} :
         /\ pc = "name" => mail[c] = Empty
         /\ thr' = [thr EXCEPT ![c].pc = pc]
         /\ client' = [client EXCEPT ![c].at = IF pc = "name" THEN "naming" ELSE "asking"]
    /\ UNCHANGED <<fd, mail, connects, listVars, mem, chat, status, past>>

\* The name and the size of a room, which are two messages, or the number of
\* one
Choose(c) ==
    /\ On /\ client[c].at \in {"naming", "choosing"} /\ mail[c] = Empty
    /\ \E m \in IF client[c].at = "naming" THEN {[what |-> "room", arg |-> 0]}
                                           ELSE [what : {"id"}, arg : 1 .. MaxID] :
         mail' = [mail EXCEPT ![c] = m]
    /\ client' = [client EXCEPT ![c].at = "asking"]
    /\ UNCHANGED <<fd, connects, requests, listVars, mem, chat, thr, status, past>>

\* gameRoom of the client: $READY is sent before it looks whether it is
\* still in the room; any other line is dropped if it is not.
Type(c) ==
    /\ On /\ client[c].at = "in" /\ mail[c] = Empty
    /\ \E l \in Lines : \E d \in Clients \cup {NoOne} :
         /\ (d # NoOne) <=> (l = "kick")
         /\ IF client[c].out /\ l # "ready"
              THEN /\ client' = [client EXCEPT ![c] = [at |-> "menu", out |-> FALSE]]
                   /\ mail' = mail
              ELSE /\ client' = [client EXCEPT ![c].at = IF l = "ready" THEN "readying" ELSE "in"]
                   /\ mail' = [mail EXCEPT ![c] = [what |-> l, arg |-> d]]
    /\ UNCHANGED <<fd, connects, requests, listVars, mem, chat, thr, status, past>>

\* A thread that is no part of this model reads a message of another client.
ReadElsewhere ==
    /\ On
    /\ \E c \in Clients \cap {SecondSlot} : mail[c] # Empty /\ mail' = Read(c)
    /\ UNCHANGED <<client, fd, connects, requests, listVars, mem, chat, thr, status, past>>

-----------------------------------------------------------------------------
(***************************************************************************)
(* newRoom.                                                                *)
(***************************************************************************)

\* The test is not under the lock.  Without room there is no answer.
TestRoom(c) ==
    /\ At(c, "name") /\ mail[c] # Empty
    /\ mail' = Read(c)
    /\ thr' = [thr EXCEPT ![c].pc = IF roomNum < MAX_ROOM THEN "insert" ELSE "none"]
    /\ UNCHANGED <<client, fd, connects, requests, listVars, mem, chat, status, past>>

\* mutant: the last free entry
MutFreeEntry == Max(Holes)

FreeEntry == Min(Holes)

\* The room is listed before anything is written into it.
InsertRoom(c) ==
    /\ At(c, "insert") /\ roomIDGenerate < MaxID
    /\ LET free == {a \in Cells \ used : chat[a] = NoChat}  a == Min(free) IN
       /\ free # {}
       /\ used' = used \cup {a}
       /\ roomList' = IF Holes = {} THEN roomList ELSE [roomList EXCEPT ![FreeEntry] = a]
       /\ thr' = [thr EXCEPT ![c] = [NoThread EXCEPT !.pc = "number", !.a = a]]
    /\ past' = past \cup (IF Holes = {} THEN {"full"} ELSE {})
                    \cup (IF \E d \in Clients : thr[d].pc = "number" THEN {"makers"} ELSE {})
    /\ roomNum' = roomNum + 1
    /\ roomIDGenerate' = roomIDGenerate + 1
    /\ UNCHANGED <<clientVars, mem, chat, status>>

\* The number is read again after the lock is released.
NumberRoom(c) ==
    /\ At(c, "number")
    /\ LET a == thr[c].a IN
       /\ mem' = [mem EXCEPT ![a].id = roomIDGenerate]
       /\ status' = IF \E b \in used \ {a} : mem[b].id = roomIDGenerate THEN "clash" ELSE status
    /\ thr' = [thr EXCEPT ![c].pc = "fill"]
    /\ UNCHANGED <<clientVars, listVars, chat, past>>

FillRoom(c) ==
    /\ At(c, "fill")
    /\ \E size \in Sizes :
         mem' = [mem EXCEPT ![thr[c].a] = [mem[thr[c].a] EXCEPT
             !.size = size, !.count = 1, !.player[0] = Account(c), !.connfd[0] = fd[c]]]
    /\ thr' = [thr EXCEPT ![c].pc = "made"]
    /\ past' = IF Gone(c) THEN past \cup {"gone"} ELSE past
    /\ UNCHANGED <<clientVars, listVars, chat, status>>

\* If its maker has left, the room stays in the list and has no thread.
TellMade(c) ==
    /\ At(c, "made")
    /\ IF PrintFails(mem[thr[c].a].id)
         THEN Dies({})
         ELSE /\ thr' = [thr EXCEPT ![c] = IF Gone(c) THEN NoThread ELSE [thr[c] EXCEPT !.pc = "start"]]
              /\ client' = IF Gone(c) THEN client ELSE Told({c}, "in")
              /\ UNCHANGED <<fd, mail, connects, requests, listVars, mem, chat, status, past>>

\* roomChat finds its room by its number.
StartChat(c) ==
    /\ At(c, "start")
    /\ LET a == thr[c].a IN
       IF PrintFails(mem[a].id) \/ Having(mem[a].id) = {}
         THEN Dies({})
         ELSE /\ chat' = [chat EXCEPT ![a].pc = "chat"]
              /\ thr' = [thr EXCEPT ![c] = NoThread]
              /\ UNCHANGED <<clientVars, listVars, mem, status, past>>

-----------------------------------------------------------------------------
(***************************************************************************)
(* playerEnterRoom.                                                        *)
(***************************************************************************)

AskRooms(c) ==
    /\ At(c, "ask")
    /\ IF roomNum = 0
         THEN /\ thr' = [thr EXCEPT ![c] = NoThread]
              /\ client' = IF Gone(c) THEN client ELSE Told({c}, "menu")
         ELSE /\ thr' = [thr EXCEPT ![c].pc = "list"]
              /\ client' = client
    /\ UNCHANGED <<fd, mail, connects, requests, listVars, mem, chat, status, past>>

\* The next entry that is not NULL, or the end of the list; a failed send
\* ends the thread.
ListRoom(c) ==
    /\ At(c, "list")
    /\ LET next == {i \in Entries \ Holes : i >= thr[c].i} IN
       /\ thr' = [thr EXCEPT ![c] =
            IF Gone(c) THEN NoThread
            ELSE IF next = {} THEN [NoThread EXCEPT !.pc = "getID"]
            ELSE [thr[c] EXCEPT !.pc = "show", !.i = Min(next)]]
       /\ client' = IF Gone(c) \/ next # {} THEN client ELSE Told({c}, "choosing")
    /\ UNCHANGED <<fd, mail, connects, requests, listVars, mem, chat, status, past>>

\* What it sends of the entry is read from the entry again.
ShowRoom(c) ==
    /\ At(c, "show")
    /\ IF roomList[thr[c].i] = 0
         THEN Dies({})
         ELSE /\ thr' = [thr EXCEPT ![c] = [thr[c] EXCEPT !.pc = "list", !.i = thr[c].i + 1]]
              /\ UNCHANGED <<clientVars, listVars, mem, chat, status, past>>

Full(a) == mem[a].count >= mem[a].size

\* The number of a room is read, the room is found, and a seat in it.
\* Full by its counter, or not there: the client is told and may try again.
\* Not full by its counter and without a seat: it is not told.
FindSeat(c) ==
    /\ At(c, "getID") /\ mail[c] # Empty
    /\ mail' = Read(c)
    /\ LET id == IF mail[c].what = "id" THEN mail[c].arg ELSE 0
           a == roomList[Min(Having(id))]
           free == SeatsOf(a) \ Taken(a)
       IN  IF Having(id) = {} \/ (~PrintFails(id) /\ Full(a))
             THEN /\ client' = Told({c}, "choosing")
                  /\ UNCHANGED <<thr, status, past>>
           ELSE IF PrintFails(id)
             THEN /\ status' = "crash"
                  /\ past' = IF ScanFails(id) THEN past ELSE past \cup {"looked"}
                  /\ UNCHANGED <<client, thr>>
             ELSE /\ thr' = IF free = {} THEN thr ELSE [thr EXCEPT ![c] =
                              [pc |-> "take", i |-> Min(Having(id)), j |-> Min(free), a |-> id]]
                  /\ UNCHANGED <<client, status, past>>
    /\ UNCHANGED <<fd, connects, requests, listVars, mem, chat>>

\* What the counter may be after currentPlayerNum++: the thread of the room
\* decrements it without the lock.
Counts(a) ==
    {mem[a].count + 1} \cup (IF chat[a].pc \in {"clear", "left"} THEN {chat[a].n + 1} ELSE {})

\* newRoomHost follows the quitRoom that the room's thread is in.
NeedsHost(a) == chat[a].j = 0 /\ chat[a].why \in {"lost", "quit"}

\* Under the lock, but what was found may have changed.
TakeSeat(c) ==
    /\ At(c, "take")
    /\ LET a == roomList[thr[c].i]  j == thr[c].j IN
       IF a = 0 THEN Dies({})
       ELSE \E n \in Counts(a) :
         /\ mem' = [mem EXCEPT ![a] = [mem[a] EXCEPT
                !.player[j] = Account(c), !.connfd[j] = fd[c], !.ready[j] = 0, !.count = n]]
         /\ past' = past \cup (IF mem[a].id # thr[c].a \/ mem[a].connfd[j] # -1 THEN {"seat"} ELSE {})
                         \cup (IF NeedsHost(a) THEN {"seat"} ELSE {})
                         \cup (IF Gone(c) THEN {"gone"} ELSE {})
                         \cup (IF n # mem[a].count + 1 THEN {"count"} ELSE {})
         /\ thr' = [thr EXCEPT ![c].pc = "entered"]
         /\ UNCHANGED <<clientVars, listVars, chat, status>>

TellEntered(c) ==
    /\ At(c, "entered")
    /\ thr' = [thr EXCEPT ![c] = IF Gone(c) THEN NoThread ELSE [thr[c] EXCEPT !.pc = "welcome"]]
    /\ client' = IF Gone(c) THEN client ELSE Told({c}, "in")
    /\ UNCHANGED <<fd, mail, connects, requests, listVars, mem, chat, status, past>>

\* The others are told the new player's name, which is read from the seat.
Welcome(c) ==
    /\ At(c, "welcome")
    /\ LET a == roomList[thr[c].i]
           left == a = 0 \/ mem[a].player[thr[c].j] = NoOne IN
       IF left \/ PrintFails(mem[a].id)
         THEN Dies(IF left THEN {"early"} ELSE IF ScanFails(mem[a].id) THEN {} ELSE {"looked"})
         ELSE /\ thr' = [thr EXCEPT ![c] = NoThread]
              /\ UNCHANGED <<clientVars, listVars, mem, chat, status, past>>

Serves(c) ==
    \/ TestRoom(c) \/ InsertRoom(c) \/ NumberRoom(c) \/ FillRoom(c) \/ TellMade(c) \/ StartChat(c)
    \/ AskRooms(c) \/ ListRoom(c) \/ ShowRoom(c) \/ FindSeat(c) \/ TakeSeat(c) \/ TellEntered(c)
    \/ Welcome(c)

-----------------------------------------------------------------------------
(***************************************************************************)
(* roomChat.  Its scan of the seats goes round for ever, so that any seat  *)
(* may be next.                                                            *)
(***************************************************************************)

\* mutant: the last player leaves
MutQuits(a, j, why) ==
    chat' = [chat EXCEPT ![a] = [chat[a] EXCEPT !.pc = "quit", !.why = why, !.j = Max(Taken(a))]]

\* quitRoom(j) is called, because the player is lost, has quit or was kicked,
\* or because the game is broken off.
Quits(a, j, why) == chat' = [chat EXCEPT ![a] = [chat[a] EXCEPT !.pc = "quit", !.why = why, !.j = j]]

\* mutant: only the host is looked for
MutLost(a, j) == j = 0 /\ Closed(mem[a].connfd[j])

Lost(a, j) == j \in SeatsOf(a) /\ Closed(mem[a].connfd[j])

Notice(a, j) ==
    /\ Doing(a, "chat") /\ Lost(a, j)
    /\ IF PrintFails(mem[a].id)
         THEN Dies({})
         ELSE /\ Quits(a, j, "lost")
              /\ UNCHANGED <<clientVars, listVars, mem, thr, status, past>>

\* mutant: the mailbox of any slot
MutMail(a, j, c) == j \in SeatsOf(a) /\ mem[a].connfd[j] # -1 /\ ~Gone(c) /\ mail[c] # Empty

\* mutant: from the second seat on
MutMailOfGuests(a, j, c) ==
    j \in SeatsOf(a) /\ j # 0 /\ mem[a].connfd[j] = fd[c] /\ ~Gone(c) /\ mail[c] # Empty

\* getConnfdIndex of a seat's descriptor is a slot whose mailbox is full.
Mail(a, j, c) == j \in SeatsOf(a) /\ mem[a].connfd[j] = fd[c] /\ ~Gone(c) /\ mail[c] # Empty

\* The flag is seen, and getMessage called after it.
Look(a, j) ==
    /\ Doing(a, "chat") /\ \E c \in Clients : Mail(a, j, c)
    /\ chat' = [chat EXCEPT ![a] = [NoChat EXCEPT !.pc = "get", !.j = j]]
    /\ UNCHANGED <<clientVars, listVars, mem, thr, status, past>>

\* getMessage finds the message: it waits if that is gone by then.
Gets(a, j, c) == Doing(a, "get") /\ chat[a].j = j /\ Mail(a, j, c)

LooksOn(a) == chat' = [chat EXCEPT ![a] = [NoChat EXCEPT !.pc = "chat"]]

\* The descriptor is closed by then: getMessage returns 0, which nobody
\* looks at, and the line acted on is one that was read before, of which
\* strtok has left the first word.
Reread(a) ==
    /\ Doing(a, "get") /\ Lost(a, chat[a].j)
    /\ \E l \in Lines \cup {"chat"} :
       LET j == chat[a].j IN
       IF l = "invite" \/ (l = "kick" /\ j = 0) THEN Dies({"name"})
       ELSE IF l = "ready" /\ PrintFails(mem[a].id) THEN Dies({})
       ELSE /\ mem' = IF l = "ready" THEN [mem EXCEPT ![a].ready[j] = 1] ELSE mem
            /\ IF l = "quit" THEN Quits(a, j, "quit") ELSE LooksOn(a)
            /\ UNCHANGED <<clientVars, listVars, thr, status, past>>

\* A chat line, a command that is none, or a host's that a guest types
ReadChat(a, j, c) ==
    /\ Gets(a, j, c)
    /\ mail[c].what \in {"chat", "id", "room"} \/ (mail[c].what = "kick" /\ j # 0)
    /\ past' = IF mail[c].what \in {"id", "room"} THEN past \cup {"stolen"} ELSE past
    /\ mail' = Read(c)
    /\ LooksOn(a)
    /\ UNCHANGED <<client, fd, connects, requests, listVars, mem, thr, status>>

ReadReady(a, j, c) ==
    /\ Gets(a, j, c) /\ mail[c].what = "ready"
    /\ IF PrintFails(mem[a].id)
         THEN Dies({})
         ELSE /\ mem' = [mem EXCEPT ![a].ready[j] = 1]
              /\ mail' = Read(c)
              /\ client' = Told({c}, "ready")
              /\ LooksOn(a)
              /\ UNCHANGED <<fd, connects, requests, listVars, thr, status, past>>

\* The name of a successor that may follow is never found: strtok has cut
\* it off, so newRoomHost always chooses.
ReadQuit(a, j, c) ==
    /\ Gets(a, j, c) /\ mail[c].what = "quit"
    /\ mail' = Read(c)
    /\ client' = [client EXCEPT ![c].out = TRUE]
    /\ Quits(a, j, "quit")
    /\ UNCHANGED <<fd, connects, requests, listVars, mem, thr, status, past>>

\* The seat of a name, or the one behind the last.
SeatOf(a, d) ==
    LET js == {j \in SeatsOf(a) : mem[a].player[j] = d}
    IN  IF js = {} THEN mem[a].size ELSE Min(js)

\* kickPlayer follows the account of the seat it found, whatever it found.
ReadKick(a, j, c) ==
    /\ Gets(a, j, c) /\ mail[c].what = "kick" /\ j = 0
    /\ LET d == mail[c].arg
           k == SeatOf(a, d)
       IN  IF k = mem[a].size
             THEN Dies({"name"})
             ELSE /\ client' = [e \in Clients |->
                         IF fd[e] = mem[a].connfd[k] /\ ~Gone(e)
                           THEN [client[e] EXCEPT !.out = TRUE] ELSE client[e]]
                  /\ past' = past \cup (IF k = 0 THEN {"kickSelf"} ELSE {})
                  /\ mail' = Read(c)
                  /\ Quits(a, k, "kick")
                  /\ UNCHANGED <<fd, connects, requests, listVars, mem, thr, status>>

\* invitePlayer follows the account of the name typed, if there is none too.
ReadInvite(a, j, c) ==
    /\ Gets(a, j, c) /\ mail[c].what = "invite"
    /\ \/ /\ mail' = Read(c)
          /\ LooksOn(a)
          /\ UNCHANGED <<client, fd, connects, requests, listVars, mem, thr, status, past>>
       \/ Dies({"name"})

\* mutant: the seat is emptied, the counter stays
MutCountAfter(a) == mem[a].count

CountAfter(a) == chat[a].n - 1

\* quitRoom: it reads the counter, writes it, and empties the seat.
QuitRoom(a) ==
    /\ Doing(a, "quit")
    /\ chat' = [chat EXCEPT ![a] = [chat[a] EXCEPT !.n = mem[a].count,
                    !.pc = IF mem[a].count > 1 THEN "leave" ELSE "delete"]]
    /\ UNCHANGED <<clientVars, listVars, mem, thr, status, past>>

CountOff(a) ==
    /\ Doing(a, "leave")
    /\ mem' = [mem EXCEPT ![a].count = CountAfter(a)]
    /\ past' = IF mem[a].count # chat[a].n THEN past \cup {"count"} ELSE past
    /\ chat' = [chat EXCEPT ![a].pc = "clear"]
    /\ UNCHANGED <<clientVars, listVars, thr, status>>

LeaveSeat(a) ==
    /\ Doing(a, "clear")
    /\ LET j == chat[a].j IN
       mem' = [mem EXCEPT ![a] = [mem[a] EXCEPT !.player[j] = NoOne, !.connfd[j] = -1, !.ready[j] = 0]]
    /\ chat' = [chat EXCEPT ![a].pc = "left"]
    /\ UNCHANGED <<clientVars, listVars, thr, status, past>>

\* mutant: the last seat
MutNewHost(a) == mem[a].size - 1

\* newRoomHost(-1), if it is called: the last seat that is taken.
NewHost(a) == IF Taken(a) = {} THEN -1 ELSE Max(Taken(a))

\* mutant: the seat is copied and not emptied
MutCopied(a, k) ==
    LET m == mem[a] IN
    [m EXCEPT !.player[0] = m.player[k], !.connfd[0] = m.connfd[k], !.ready[0] = m.ready[k]]

Moved(a, k) ==
    LET m == mem[a] IN
    [m EXCEPT !.player = [m.player EXCEPT ![0] = m.player[k], ![k] = NoOne],
              !.connfd = [m.connfd EXCEPT ![0] = m.connfd[k], ![k] = -1],
              !.ready  = [m.ready EXCEPT ![0] = m.ready[k], ![k] = 0]]

AfterLeaving(a) ==
    /\ Doing(a, "left")
    /\ LET why == chat[a].why
           new == IF NeedsHost(a) /\ NewHost(a) # -1 THEN Moved(a, NewHost(a)) ELSE mem[a]
       IN  IF \/ NeedsHost(a) /\ NewHost(a) = -1
              \/ why \in {"quit", "kick"} /\ (ScanFails(mem[a].id) \/ new.player[0] = NoOne)
             THEN Dies({})
             ELSE /\ mem' = [mem EXCEPT ![a] = new]
                  /\ chat' = [chat EXCEPT ![a] =
                        IF why = "break" THEN [NoChat EXCEPT !.pc = "break", !.j = chat[a].j + 1]
                                         ELSE [NoChat EXCEPT !.pc = "chat"]]
                  /\ UNCHANGED <<clientVars, listVars, thr, status, past>>

\* deleteRoom: the cell is freed, then roomNum-- without the lock, then the
\* thread ends itself.
DeleteRoom(a) ==
    /\ Doing(a, "delete")
    /\ roomList' = [i \in Entries |-> IF i \in Having(mem[a].id) THEN 0 ELSE roomList[i]]
    /\ used' = used \ {a}
    /\ mem' = [mem EXCEPT ![a] = Blank]
    /\ chat' = [chat EXCEPT ![a] = [NoChat EXCEPT !.pc = "uncount", !.n = roomNum]]
    /\ past' = past \cup (IF mem[a].count = chat[a].n THEN {"deleted"} ELSE {"deleted", "occupied"})
    /\ UNCHANGED <<clientVars, roomNum, roomIDGenerate, thr, status>>

\* mutant: roomNum stays
MutUncountRoom(a) ==
    /\ Doing(a, "uncount")
    /\ chat' = [chat EXCEPT ![a] = NoChat]
    /\ UNCHANGED <<clientVars, listVars, mem, thr, status, past>>

UncountRoom(a) ==
    /\ Doing(a, "uncount")
    /\ roomNum' = chat[a].n - 1
    /\ past' = IF roomNum # chat[a].n THEN past \cup {"num"} ELSE past
    /\ chat' = [chat EXCEPT ![a] = NoChat]
    /\ UNCHANGED <<clientVars, roomList, roomIDGenerate, used, mem, thr, status>>

-----------------------------------------------------------------------------
(***************************************************************************)
(* The game, as far as the room sees it (GamePlay is the rest).            *)
(***************************************************************************)

Ready(a) == {j \in Taken(a) : mem[a].ready[j] = 1}

StartGame(a) ==
    /\ Doing(a, "chat")
    /\ mem[a].count = mem[a].size /\ Cardinality(Ready(a)) = mem[a].size
    /\ IF PrintFails(mem[a].id)
         THEN Dies({})
         ELSE /\ chat' = [chat EXCEPT ![a].pc = "play"]
              /\ UNCHANGED <<clientVars, listVars, mem, thr, status, past>>

\* Who is in the game is back in the room's chat, and nobody is ready.
BackToChat(a) ==
    /\ mem' = [mem EXCEPT ![a].ready = [j \in Seats |-> IF j \in SeatsOf(a) THEN 0 ELSE mem[a].ready[j]]]
    /\ client' = Told({c \in Clients : client[c].at = "ready" /\ ~Gone(c)
                          /\ \E j \in SeatsOf(a) : mem[a].connfd[j] = fd[c]}, "in")
    /\ chat' = [chat EXCEPT ![a] = [NoChat EXCEPT !.pc = "chat"]]
    /\ UNCHANGED <<fd, mail, connects, requests, listVars, thr, status, past>>

EndGame(a) == Doing(a, "play") /\ BackToChat(a)

\* roomPlay returns ROOM_ERROR_PLAYER_OUTROOM.
BreakGame(a) ==
    /\ Doing(a, "play")
    /\ \E j \in SeatsOf(a) : Closed(mem[a].connfd[j])
    /\ chat' = [chat EXCEPT ![a] = [NoChat EXCEPT !.pc = "break"]]
    /\ UNCHANGED <<clientVars, listVars, mem, thr, status, past>>

\* Every seat whose player is gone quits, and nobody is made host; then
\* GAME_BREAK goes to the rest.
BreakSeat(a) ==
    /\ Doing(a, "break") /\ chat[a].j \in SeatsOf(a)
    /\ IF Closed(mem[a].connfd[chat[a].j])
         THEN /\ Quits(a, chat[a].j, "break")
              /\ past' = IF chat[a].j = 0 THEN past \cup {"hostless"} ELSE past
         ELSE /\ chat' = [chat EXCEPT ![a].j = @ + 1]
              /\ past' = past
    /\ UNCHANGED <<clientVars, listVars, mem, thr, status>>

BreakOff(a) == Doing(a, "break") /\ chat[a].j \notin SeatsOf(a) /\ BackToChat(a)

Reads(a, j, c) ==
    \/ ReadChat(a, j, c) \/ ReadReady(a, j, c) \/ ReadQuit(a, j, c) \/ ReadKick(a, j, c)
    \/ ReadInvite(a, j, c)

Leaves(a) ==
    QuitRoom(a) \/ CountOff(a) \/ LeaveSeat(a) \/ AfterLeaving(a) \/ DeleteRoom(a) \/ UncountRoom(a)

\* The game ends when it will: GamePlay says what it may wait for.
PlayGame(a) == EndGame(a) \/ BreakGame(a)

RunChat(a) ==
    \/ \E j \in Seats : Notice(a, j) \/ Look(a, j)
    \/ Reread(a)
    \/ \E j \in Seats, c \in Clients : Reads(a, j, c)
    \/ Leaves(a)
    \/ StartGame(a) \/ BreakSeat(a) \/ BreakOff(a)

-----------------------------------------------------------------------------

Next ==
    \/ \E c \in Clients : Connect(c) \/ Inherit(c) \/ HangUp(c) \/ Request(c) \/ Choose(c) \/ Type(c)
    \/ ReadElsewhere
    \/ \E c \in Clients : Serves(c)
    \/ \E a \in Cells : RunChat(a) \/ PlayGame(a)

Spec == Init /\ [][Next]_vars

\* Every thread that has something to do goes on; players need not, nor need
\* a game end.  What the thread of a room does next is not said, so that it
\* need not come to a seat before it has read all that is typed at the
\* others.
FairSpec ==
    /\ Spec
    /\ \A c \in Clients : WF_vars(Serves(c))
    /\ \A a \in Cells : WF_vars(RunChat(a))

-----------------------------------------------------------------------------
(***************************************************************************)
(* Properties.                                                             *)
(***************************************************************************)

Events == {"seat", "count", "gone", "num", "full", "name", "early", "occupied", "kickSelf",
           "reuse", "stolen", "hostless", "deleted", "makers", "looked"}

\* The type invariant.
TypeOK ==
    /\ client \in [Clients -> [at : {"gone", "menu", "naming", "asking", "choosing", "in", "readying",
                                     "ready"},
                               out : BOOLEAN]]
    /\ fd \in [Clients -> Descriptors \cup {-1}]
    /\ \A c \in Clients : mail[c].what \in Lines \cup {"none", "id", "room"}
    /\ connects \in 0 .. MaxConnects /\ requests \in 0 .. MaxRequests
    /\ roomList \in [Entries -> Cells \cup {0}] /\ used \subseteq Cells
    /\ roomIDGenerate \in 0 .. MaxID /\ roomNum \in Int
    /\ \A a \in Cells : /\ mem[a].id \in 0 .. MaxID /\ mem[a].size \in Sizes \cup {0}
                        /\ mem[a].player \in [Seats -> Clients \cup {NoOne}]
                        /\ mem[a].connfd \in [Seats -> Descriptors \cup {-1}]
    /\ \A a \in Cells : chat[a].pc \in {"none", "chat", "get", "quit", "leave", "clear", "left",
                                        "delete", "uncount", "play", "break"}
    /\ status \in {"up", "crash", "clash", "stale"} /\ past \subseteq Events

Never(events) == past \cap events = {}

\* A seat was taken that was another's by then or that newRoomHost was
\* about to fill, a counter was torn, or a player sat down who was gone.
SeatRaces == {"seat", "count", "gone"}

\* A player who believes that he is in a room
In(c) == client[c].at \in {"in", "readying", "ready"} /\ ~client[c].out

\* Seat j of room a is his, and no thread is about to empty it.
Has(c, a, j) ==
    /\ a \in used /\ j \in SeatsOf(a) /\ mem[a].connfd[j] = fd[c] /\ mem[a].player[j] = c
    /\ ~(chat[a].pc \in {"quit", "leave", "clear", "delete"} /\ chat[a].j = j)

SeatsFor(c) == {s \in used \X Seats : Has(c, s[1], s[2])}

\* currentPlayerNum is the number of seats taken, but for the seat that
\* quitRoom is about to empty, through every entry, quit, kick, loss and
\* change of host, as long as no two threads have met on a seat or on the
\* counter: the room is full, started and deleted by it.
CountIsSeats ==
    Never(SeatRaces) =>
        \A a \in used : mem[a].count = Cardinality(Taken(a)) - IF chat[a].pc = "clear" THEN 1 ELSE 0

\* Who was told that he is in a room, and not that he is out, has a seat in
\* a room of the list with his own descriptor: no other player's quitting
\* and no change of host takes it away, unless threads have met on it.
KeepsSeat ==
    Never(SeatRaces \cup {"occupied"}) => \A c \in Clients : In(c) => SeatsFor(c) # {}

\* Nobody has two seats, in one room or in two: a change of host moves.
OneSeat ==
    Never(SeatRaces \cup {"reuse"}) => \A c \in Clients : In(c) => Cardinality(SeatsFor(c)) <= 1

\* The thread of a room reads what a player sends to the thread of his own
\* request only if his descriptor was somebody's who still has a seat, or
\* two threads have met on a seat.
OwnThreadReads == "stolen" \in past => ~Never({"reuse", "seat"})

\* roomNum is the number of rooms listed, but for the rooms whose deletion
\* is at its last step, unless roomNum-- has met another change of it or
\* the list was found full by who had passed the test.
RoomNumRight ==
    LET uncounting == {a \in Cells : chat[a].pc = "uncount"}
    IN  Never({"num", "full"}) =>
            roomNum = Cardinality(Entries \ Holes) + Cardinality(uncounting)

\* Two rooms have one number only if two threads were making rooms at once:
\* rooms are found by their numbers, and deleted by them.
DistinctNumbers == status = "clash" => "makers" \in past

\* The list of rooms: how many there are, and their numbers.
ListIsRight == RoomNumRight /\ DistinctNumbers

\* Seat 0 is taken in every room that chats or plays, whoever of the host
\* and the guests quits, is kicked or is lost: there is somebody to kick
\* and to have the first turn.  A game broken off by the host's loss and a
\* host who kicks himself leave the room without.
HostSeated ==
    Never(SeatRaces \cup {"kickSelf", "hostless"}) =>
        \A a \in used : chat[a].pc \in {"chat", "get", "play"} /\ Taken(a) # {} => 0 \in Taken(a)

\* The server follows no NULL of roomList, of a seat or of an account before
\* a room was deleted or has lost its host, or threads have met on a seat,
\* or somebody has looked at a room that has no host at the moment, has left
\* as soon as he was in, or has typed a name that nobody has.
Up ==
    status = "crash" =>
        ~Never(SeatRaces \cup {"deleted", "hostless", "kickSelf", "looked", "early", "name", "full"})

\* The thread of a room has seen a message and waits in getMessage for
\* another, since somebody has taken it or has cleared the flag of slot 1.
Stuck(a) == chat[a].pc = "get" /\ ~\E c \in Clients : Mail(a, chat[a].j, c)

\* A room whose maker left before it had a thread
Orphan(a) == chat[a].pc = "none" /\ ~\E c \in Clients : thr[c].pc \in {"fill", "made", "start"} /\ thr[c].a = a

\* A seat whose descriptor is closed is emptied, or its room deleted, or the
\* room is in a game, or it has no thread, or a thread that is stuck, or the
\* descriptor was given to another connection while the seat had it.
GoneIsNoticed ==
    \A a \in Cells, j \in Seats :
        On /\ j \in SeatsOf(a) /\ Closed(mem[a].connfd[j])
            ~> \/ ~On \/ "reuse" \in past
               \/ j \notin SeatsOf(a) \/ mem[a].connfd[j] = -1
               \/ chat[a].pc = "play" \/ Orphan(a) \/ Stuck(a)

\* Who has typed that he is ready, at a seat of a room that has a thread, is
\* told so, or is told that he is out, unless the thread is stuck, or he has
\* slot 1 and what he typed was lost.
ReadyAnswered ==
    LET waits(c) == client[c].at = "readying" /\ ~client[c].out
        seated(c) == {s[1] : s \in SeatsFor(c)}
    IN  \A c \in Clients :
            On /\ waits(c) /\ (\E a \in seated(c) : chat[a].pc # "none")
                ~> \/ ~On \/ ~waits(c)
                   \/ \E a \in seated(c) : Stuck(a)
                   \/ c = SecondSlot /\ mail[c] = Empty
================================================================================
