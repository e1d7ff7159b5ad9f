# A verification project for the network quiz game

The program is a server and a client in C. Players log in, open or enter a
room, chat, get ready, and play a game of the wheel: a question, a mask of its
answer, a wheel to roll, letters and answers to guess, points. The server is one
process with a thread for the receive loop, one for every request, and one for
every room; they share global arrays, mostly without locks, and poll each other's
flags.

Files named `X.tla` are specifications, `MCX.tla` their instances for TLC, a
`MCX_run.cfg` one run, `XProofs.tla` the theorems, checked with `tlapm`.

## 1. Inventory

| Component | State | Operations | Talks to | Correct when |
|---|---|---|---|---|
| Game of a full room (`room.c` `roomPlay`, `nextPlayerTurn`, `printAllScore`) | scores, question and mask, turn, roll, locals | ask, turn, roll, answer, judge, next player, end of round / question / game | clients through sends; mailboxes by polling | letters are paid once, turns rotate, the winner is right, replies meet the prompt they answer, rounds end, a player who leaves does not hang the room |
| Client in a game (`client.c` `soldQuestion`, `getAnswer`) | prompt it is at | roll, answer, give up | the room | one reply per prompt |
| Receive loop and mailboxes (`recvMessage.c`) | `messageRecv_fromClient`, `client_messageReady` | select, recv, store, check type, `getMessage` | every client, every thread | what a client sends is read once, in order, by the right thread |
| Service dispatch and request threads (`server.c`, `room.c` `newRoom`, `playerEnterRoom`) | thread arguments, `client_account` | start a thread, converse, answer | mailboxes, accounts, rooms | one thread per request, of the right client, every request answered |
| Client menu and requests (`client.c`, `network.c`) | `client.logedIn`, `recvMessage`, `messageReady` | choose, send, wait | the server | waits only for what will come |
| Connections (`recv_message`, `newConnection`, `network.c`) | `clientConnfd`, `clientNum` | accept, take a slot, close | loop, rooms | a slot has one owner, a descriptor belongs to who it was given to |
| Rooms and chat (`roomChat`, `quitRoom`, `kickPlayer`, `newRoomHost`, `deleteRoom`) | `roomList`, seats, ready flags | make, enter, chat, ready, kick, quit, break off | mailboxes, game | a seat has one player, the counters agree with the seats, somebody is host |
| Accounts (`accountSystem.c`, `services.c`) | list of accounts, counters of wrong passwords, who is logged in where | sign up, log in, block, sign out when a connection ends | request threads, connections | the third wrong password blocks, whoever else tries; nobody is blocked without; an account is logged in exactly while a connection has it |
| Account file | `username_pass.txt` | load, store over the old contents | accounts | an acknowledged sign-up survives a restart |
| Question list (`question.c`) | list | load, choose | game | any question may come |
| Sending (`sendMessage.c`) | – | `send_message` | kernel | fails when the descriptor is closed |
| Conversions, error codes, `Test/` | – | – | – | left aside |

What is hard here: threads that poll shared flags without locks (the mailbox, the
slots, the rooms), sends that fail in the middle of a broadcast, players that
leave while a thread waits for them, limits that race with late answers,
uninitialised and stale variables, arguments that go out of scope, one loop that
serves all and may be held up by one. `PROJECT.json` lists every hazard with its
line and the properties that cover it, or why none does yet.

## 2. Modules

### GamePlay, and the rules it keeps: Quiz

`GamePlay` is the thread of a room inside `roomPlay`, the clients that answer
it, and the mailbox between them. `pc` names the section of `roomPlay` between
two waits or sends:

| Action | Code |
|---|---|
| `Start`, `First`, `NextQuestion`, `StartRound` | `room.c` 681–771 |
| `Turn`, `RollCall`, `ReadRoll`, `Spun` | the turn is announced, the wheel prompted, the roll read and worth something, 771–896 |
| `Limit`, `Timeout`, `Late`, `ReadAnswer` | the time limit, 898–944 |
| `Judge` (`JudgeCrash`, `JudgeSolve`, `JudgeLetter`, `JudgeIgnored`) | 938–1157 |
| `EndRound`, `EndQuestion`, `Scores`, `Tally`, `Finish` | 1159–1235 |
| `SendFails`, `SendKills` | any send of a section returns an error, or raises SIGPIPE |
| `ClientRoll`, `ClientStops`, `ClientEnters` | the wheel ran out of time; a key stopped it; `holdScreen` has its Enter |
| `ClientAnswer`, `ClientGivesUp`, `HangUp` | `client.c` 653–762, the end of the program |
| `Arrive`, `Reap`, `RecvFails` | `recv_message` stores a message, closes at end of file, or calls `exit(0)` |

A broadcast is one step: its receivers do nothing the room could notice before
the next section. The step that fails is a step of its own and forgets what the
section would have assigned, since the function returns and its locals are dead.
Left out: chat and score lines, which change no state, and the text of questions.
`wheelRoll` is 1 again when a roll lost the turn and 0 otherwise, `turnScore` is 0
where the C variable has no value. `acted` is a history variable. An answer is the
text the second `strtok` returns; the empty word and the letter `Dash` stand for
answers of nothing but dashes, for which it returns NULL (`NoSecondPart`).
`printAllScore` ends without a return: its caller finds in the register what the last
comparison of the loop left there, `playerNumPreSet`, and goes on.

A player who stops his wheel is shown the number until he presses Enter, without limit, and
the room waits for his roll without limit. `Resets` says whether a client that ends may leave a
reset connection behind, on which `recv` fails and the server exits.

The players are assumed to sit at slots other than 1 and to receive their
messages one at a time: Mailbox shows that then a mailbox is a channel, and what
happens otherwise. The mailbox of GamePlay is that channel's last place.

`Quiz` is what the game promises, without turns, prompts or sockets. `RulesKept`
says that GamePlay implements it, under the mapping at the end of GamePlay.

### Mailbox, and the channel it implements: Channel

`Mailbox` is the way of a request from the client's menu to a thread of the
server. The loop is `Select`, `Receive`, `Check`; a thread inside `getMessage`
goes through `See` (the end of the spin), `Copy`, `Lower` (the flag),
`Clear` (the flag of slot 1) and `TailCheck` (the check for a SERVICE at the end).
Between any two of them everybody else may run. `ServerScript` and
`ClientScript` are the conversations of the requests, as the order of their reads,
answers, sends and waits; `Answers` and `After` are what an answer may be and where it
leads. A message is its kind, request and place in the request.

`MaxRequests` bounds the requests of each client apart, so that one of them may go
through two requests, with the thread of the first still alive, while the other has
one.

`Channel` hands over what was sent, in order, every message once. `Delivered` says
that the mailboxes of all slots but 1 implement it.

Clients stay connected in this module; whoever has entered a room leaves it. The
client's own mailbox of MESSAGEs is a queue, as both its sides spin.

Two things the code leaves to chance disturb the mailbox, and are in the model: one
`recv` may return several messages, of which the first is read again and again
("coalesced"), and a thread may read its arguments after the next dispatch has overwritten them,
since they are a local of `serviceOrder` ("late"; the frame is modelled as the last index
dispatched). `past` records them, and the properties of the mailbox say what holds as long as
neither has happened: `past = {}` is in their text. The runs look at the undisturbed mailbox
(the constraint `Undisturbed` of `MCMailbox`) and at each disturbance alone. The constant
`TypeReadable` is FALSE when the type of a message, collected in an array that is never ended, may fail
to compare equal.

Three more things of the code need words. `newConnection` welcomes a client before it sets
his account (`SetAccount`), so a quick player asks for a room without one:
`AccountKnown` says that this window (`Welcomed`) is the only one. `newRoom` compares
`roomNum` with `MAX_ROOM` in one step (`CountRooms`) and increments it in another, whatever it is by then (`Reply`), so
`TypeOK` gives `roomNum` no bound. And the menu has the two requests nobody serves: a
changed password, whose two messages stop the loop (`HeldUp`), and a sign-out, which
waits for ever.

### Rooms

`Rooms` is `room.c` around the game: the thread of a request (`thr`) makes or enters a
room in the steps of `newRoom` and `playerEnterRoom`; the thread of a room (`chat`)
scans its seats, reads what is typed and is the only one that takes seats away.

| Action | Code |
|---|---|
| `Connect`, `HangUp` | `accept` gives out the lowest free descriptor; the loop closes one |
| `Inherit` | a connection comes to a slot where a thread of a former client goes on |
| `Request`, `Choose`, `Type` | the client's menu, the name or the number of a room, a line in a room |
| `TestRoom`, `InsertRoom`, `NumberRoom`, `FillRoom`, `TellMade`, `StartChat` | `newRoom` 56–162 and the start of `roomChat` |
| `AskRooms`, `ListRoom`, `ShowRoom`, `FindSeat`, `TakeSeat`, `TellEntered`, `Welcome` | `playerEnterRoom` |
| `Notice`, `Look` | the scan of `roomChat` finds a closed descriptor, or a flag that is up |
| `ReadChat`, `ReadReady`, `ReadQuit`, `ReadKick`, `ReadInvite` | `getMessage` and what is done with the line, `kickPlayer`, `invitePlayer` |
| `QuitRoom`, `CountOff`, `LeaveSeat`, `AfterLeaving`, `DeleteRoom`, `UncountRoom` | `quitRoom`, `newRoomHost`, `deleteRoom` |
| `StartGame`, `EndGame`, `BreakGame`, `BreakSeat`, `BreakOff` | the call of `roomPlay`, as far as the room sees it |
| `ReadElsewhere` | a thread of another client reads, and clears slot 1 |

Rooms are cells of memory that `free` gives back and `malloc` hands out again, a cell
that is freed reads as zeros. Two rooms with one number end the model (`status` =
"clash"), since everything is found by the number; a NULL that is followed ends it too
("crash"). A torn counter is torn once: what a thread computed from an old value is
stored in one step. The client's end and the closing of its descriptor are one step; Connections
has them apart.

No thread ends with its client. A thread that waits in `getMessage` spins on, and reads
what the next client of the slot sends; one that was called with the descriptor -1 does
so at any free slot. The model follows such threads for as long as nobody has the slot, and ends where a connection
comes to it (`Inherit`, `status` = "stale"). What such a thread does to the new client,
for instance seat him a second time, is outside: the properties of Rooms speak of what comes before.

Every `getMessage` lowers the flag of slot 1, whoever it reads for. `SecondSlot` is the player who
has that slot, if one of them has it: `Read(c)` is the mailbox after a read of `c`'s, and his message is lost
in it. A room's thread looks at a flag in one step (`Look`) and is in
`getMessage` from then on (`pc` = "get"); when the message has gone by then, it waits there
and looks at no other seat (`Stuck`). A room whose maker left before `StartChat` has a
seat and no thread (`Orphan`). `quitRoom` counts a player off (`CountOff`) before it frees his
seat (`LeaveSeat`), and who comes in between is told nothing, as no seat is found.

### Accounts

`Accounts` is the list and its file: `Ask`, `Check`, `LoadCount`, `StoreCount`, `Compare`
(`accessToAccount`, with `wrongPassCount++` in two steps), `Enter`, `SetAccount`, `Tell`
(`logIn` and its callers), `Add`, `Link`, `SetRear` (`addAccountNode`), `Walk`, `Write`,
`TellMade` (`storeUsername_passData` and the answer), `HangUp` (`signOut` and the end of a
connection). `Die` stands for everything that ends the server, at any moment, and
`Restart` loads the file. The file is opened without truncation: `Over` leaves the end of what is longer. Names and passwords are as long as one another,
so that a line covers a line. A client that hangs up leaves his thread behind, which goes on with
the slot; the next client there gets threads of his own, up to `MaxThreads` at one slot
(`Lanes`), and "stale" in `past` says that it came to that. An account is stored as blocked only with the next
sign-up, so that a restart forgives what was not stored; the properties count wrong
passwords from the last start.

### Connections

`Connections` is `recv_message` from `accept` to the end of a connection, the thread of
`newConnection` of each client, the thread of a request, and `clientConnfdUnconnect`, which
all of them call.

| Action | Code |
|---|---|
| `SetFds`, `Select`, `Accept`, `Scan`, `Recv` | one turn of `recv_message`, 136–255 |
| `ReadArgs`, `Search`, `Take`, `LoadNum`, `StoreNum` | the slot of a new client and `clientNum++`, 259–280 |
| `Greet`, `Wake`, `Find`, `ReadLogin`, `Answer` | the rest of `newConnection` |
| `FindSlot`, `ReadText`, `Reply` | a request's thread, which knows its slot only |
| `Arrive`, `SendMessage`, `HangUp` | the clients |

One `recv` returns one message (Mailbox has the leftovers), and the message that starts a
request is dispatched in the step that receives it. Whether a client's end is an end of
file or a reset is chosen where the server finds it. `clientConnfdUnconnect` is one step.
Every `getMessage` lowers the flag of the slot whose number is CLIENT_MESSAGE (`Cleared`).
A thread that closed its own connection uses, until it is cancelled, a buffer that was
never written (`Find`): that it dies of it is one of its outcomes. Quiet clients stay and
say nothing: they fill slots.

### History

`past` collects the races and mistakes that have happened: a step that meets one adds its
name. The properties say what holds whatever happens, or what holds as long as the ones
they name have not. That is how far the code is correct, and the names are a list of where it
is not. Each is reached in a run, but for two: "occupied" (a room deleted with a
player in it) needs "seat" before it, which ends the runs of Rooms, and "null" of Accounts needs a damage
that the bounds of its run do not have.

| Name | Where | What happened |
|---|---|---|
| coalesced, late | Mailbox | one `recv` returned several messages; arguments were overwritten before they were read |
| seat, count, gone | Rooms | two threads met on a seat, on its counter, or a player sat down who had left |
| num, full, makers | Rooms | `roomNum--` met another change; a room found no entry; two threads were making rooms |
| name, early, looked, occupied, kickSelf, hostless, deleted, reuse, stolen | Rooms | a name nobody has; left before the welcome; a room without a host was printed; a room was deleted with a player in it; a host kicked himself; the host was lost in the game; a room was deleted; a seat's descriptor was given out again; the room read what was meant for another thread |
| torn, skipped | Accounts | two threads counted wrong passwords at once |
| twice, left, stale | Accounts | a second login; a client left during `newConnection`; a slot was taken again while a thread of its last client ran |
| append, name, null | Accounts | two appended at once; two signed up one name; a NULL was followed |
| late, same, over, crowd, torn, twice | Connections | `connfd` was read late; two threads took a slot; there was none; more were accepted than there were slots; `clientNum` was torn; a slot was closed twice |
| left, others, badf, garbage, reset, pipe | Connections | a client left before its threads; a thread read another's message; and what ended the server |

Operators named `Mut...` are not part of the models. Each is a definition with a
plausible mistake in it, kept beside the one it alters, and the property named for
it in `PROJECT.json` fails when it is put in its place.

## 3. Runs

| Run | Instance | Shows |
|---|---|---|
| `game_safety` | 3 players, 2 of 3 questions of 1, 2 and 3 letters, 2 letters kept of an answer, 1 may leave | types, letters, scores, turns with a middle seat, prompts, winner, no crash, `RulesKept` |
| `game_late` | 2 players, answers may be late or only dashes, sends may race with a hang-up, connections may be reset | rules and rolls hold even when replies meet the wrong prompt |
| `game_live` | 3 players, 2 may leave, connections may be reset, fairness | rounds end, who leaves is noticed, but for the one wait without a limit: the roll of a player who has left, or who does not press Enter |
| `mail_safety` | slots 0 and 2, the greeting, two requests of one client and one of the other, whole menu, type may be unreadable, one room | `Delivered`, one reader per mailbox, conversations do not mix, no account is missing but in the window of `newConnection` |
| `mail_live` | slots 0 and 1, all requests but a sign-up, one room, fairness | everybody is heard unless a changed password stops the loop; slot 0 is answered, but for a sign-out and a room too many |
| `mail_leftover` (violated) | coalesced messages | the first is read twice |
| `mail_lateargs` (violated) | late arguments | a thread works for another client |
| `rooms_seats` | 3 players, 1 room of 3 seats, quits, kicks, invitations | counter, seats and host agree; a player keeps his seat; the room reads its own players |
| `rooms_list` | 2 players, 3 rooms of 2 seats for 2 entries, made, played in and deleted at once | the list, its counter and its numbers; nobody has two seats; no NULL is followed but as named |
| `rooms_live` | 2 players, one of them at slot 1, 1 room of 2 seats, fairness | a lost player's seat is emptied, who is ready is told, unless the room's thread is stuck or was never started, or slot 1 has lost its message |
| `accounts` | 2 connections, 2 threads at one slot, 2 connects, 2 requests, 2 starts, 3 contents of the file | wrong passwords block, and only they; sign-ups survive; logins and connections agree |
| `connections` | 2 slots, 2 clients and none or one quiet one, one request, fairness | slots, counter and descriptors agree; the loop is woken; what is sent is read |

Bounds, and why they are enough. Three players have a first, a middle and a last
seat, and two of them may leave where the third waits (`game_live`); a letter that comes twice separates counting letters from counting places; two questions separate what is reset per question from what is kept
per game. The wheels used are one that loses the turn and one or two prices. One
player who leaves at any point meets every wait and send. `PendingCap` bounds what
a late client may have in flight; when answers are in time it hides nothing, as
`RepliesMatchPrompts` shows nothing is pending where the room prompts. In Mailbox two
slots have every interleaving of a loop and the threads of two clients;
`MaxRequests` and `MaxSent` bound how often a client chooses and how many room
numbers it tries; one room makes the second maker late or early of the test. In Rooms three
players meet at a seat, at the host's place and at a kick;
two entries have a hole before and behind a room, and a third cell and number a maker that finds no
entry; `MaxConnects` and `MaxRequests` leave `rooms_list` and `rooms_live` a connection or a request more than there are players, so
that a player who left a room, or the server, can come again. `Ends` names what ends a behaviour: what comes after is excepted by every property of the run but that step
itself is checked. In Accounts two connects, each with the password every client tries by itself, and two requests
have the fourth try of a password, two at once, and a slot used again over a thread that still runs; two starts have one
restart. In Connections two slots and two clients, one slot of which may be full from the start,
have a full table, one past it, and every overlap of two new threads; `Undamaged` (a constraint) ends a
behaviour behind two threads at one slot or a slot closed twice. Symmetry: the
players of `rooms_seats` and `rooms_list` (not in the run with liveness) and the two names that may be signed up. Deadlock is not checked: a game returns, a
player need not type, bounds are used up, and some waits of the code never end.

`Timely` is an assumption on the network, not something the code ensures: a reply sent
within the 10 seconds of the client arrives within the 15 of the server. With it
`RepliesMatchPrompts` and, when nobody types a dash for an answer and no connection is reset, `NoCrash` hold; `game_late` runs without it, and there a late
answer is read as a roll, and a roll as an answer, which crashes the room
(`strtok` returns NULL). A wrong reader never earns points the rules do not give.

Fairness. The thread of a room, the receive loop and every thread of a request or a
connection are scheduled by the kernel, so each has weak fairness; so has a client that waits for an
answer, and one whose own limit ends its prompt (`ClientAnswer` or
`ClientGivesUp`, `ClientRoll` or `ClientStops`). `ClientEnters` has none: nothing makes a player
press Enter, and `RoundEnds` and `DropIsNoticed` name what follows (`RollHeldBack`). Nor has a
game of Rooms: it may never end (`PlayGame` is not fair). Nobody has to leave, and no player has to type. The fairness of a room's thread in Rooms is that of the thread,
not of each seat: a player who types without end may keep it busy. `Heard` of
Connections takes exception to a table that stays full with somebody waiting for a place,
when the loop turns without reading anybody.

## 4. Proofs

Five modules of theorems, checked by `tlapm` from nothing: `GamePlayProofs`,
`MailboxProofs`, `RoomsProofs`, `AccountsProofs`, `ConnectionsProofs`. They hold for every value
of the constants that satisfies the named assumptions of the module: any number of
players, rooms, slots, descriptors, accounts, questions, and any of the bounds (rooms of 2 or 3
seats in Rooms, as the client offers them; any number in GamePlay). Every invariant
of a passing run is a theorem, and so are the two implementations of an abstract
specification, `RulesKept` and `Delivered`. What is excepted in a property (the names in `past`) is
excepted in its theorem; section 2 says which of the names the runs reach.

The argument is the same throughout: an invariant that is inductive where the property
is not, `Init => Inv`, `Inv /\ [Next]_vars => Inv'` with one step per action, and
`Inv => property`. What a module needed beyond that:

### GamePlayProofs

- `TypeCorrect`: `TypeOK`, through `TypeInv`, which adds that there is a question left
  to ask where one is asked.
- `LettersCountedOnceHolds`: a letter is paid only when the mask does not show it, and
  then none of its places is shown, so the places added are disjoint.
- `ScoreRolledHolds`: `RollInv` says that a turn which need not roll comes after a roll
  of this round; `wheelRoll = 0` and a later seat imply `turnScore # 0`.
- `OneTurnPerRoundHolds`: `TurnInv` says that the players who acted are exactly the seats
  from `startRoundPlayer` up to, not including, `inTurnPlayer`, around the table. The
  set is full only when the round ends.
- `ScoreBoundedHolds`: `ScoreInv` bounds a score by the questions passed and the places
  shown; `ScoreFitsItsBuffer` turns it into numbers for the data the server loads.
- `WinnerHolds`: `WinnerInv` says that somebody has scored once a question is passed,
  and what the scan has found so far.
- `RepliesMatchHolds` (if `Timely`) and `NoCrashHolds` (if also `~SendRaces` and `~Resets`, and no answer is only dashes):
  `PromptInv` says where a prompt, its reply and its mail may be.
- `GamePlayImplementsQuiz`: under the mapping `Stage`, `Points`, `Champion` at the end of
  `GamePlay` every step of the room is a step of `Quiz` or changes nothing of it. `FreshInv` is what
  the mapping needs at the start: the scores of a game that has not begun are none.
  `StageIs` and `StageKept` do the many steps that the rules do not see; judging a
  letter is the one that needs the other invariants.

### MailboxProofs

`MailInv` is the conversation of one client and its last thread, slot by slot
(`SlotRight`): `ThreadsRight` (all threads but the last have ended, each reads its own slot),
`Mailed` (one message in a buffer, and one before it is read), `Stream` (what the loop has not
looked at is in order, and a SERVICE in it finds nobody serving), `Asking` (what a client asks
for agrees with its being logged in), `Replied` (one answer at most, for who waits for it),
`Conversation` (the thread is at the client's step: what it has not read of the request is all
there is), `InOrder` (what was sent is what was read, then the buffer, then the
socket), `Known` (the account behind a login). No part is inductive without the others:
that a flag is not overwritten rests on what the client's script does next, and that on the answers it has
had. From `MailInv` follow `MailboxHasOneReader`, `ConversationsStayApart` and, with `Handed`,
`MailboxesAreChannels`: every step of Mailbox is a step of `Channel` or a stutter.

`MailInv` is inductive as long as one `recv` returns one message and a thread reads its
arguments before the next dispatch, and so the theorems say `past = {}` in the property itself: the code ensures
neither. What happens otherwise is shown by `mail_leftover` and `mail_lateargs`, which find the message that is read twice
and the thread that works for another client. The theorems
say that nothing else goes wrong in the mailboxes: the polled flags themselves lose, mix and reorder nothing.
`TypeCorrect` excepts nothing. `AccountsAreKnown` leaves the one window in which `newConnection` has welcomed a client without an account.

### ConnectionsProofs

- `TypeCorrect`: `TypeInv` adds to `TypeOK` that a thread which indexes a table has
  an index (`Indices`), and that a descriptor has one owner (`Descriptors`).
- `NeverAsleep`: `WokenUp` is inductive with `TypeInv`; the part that matters is that a thread between taking a slot and
  writing to the pipe still has the write before it, or closes the slot.
- `CountTheorem`: `CountsRight` says that `clientNum` and the slots that are taken and not yet counted
  make up the slots in use; and that, while nobody was accepted in excess, there is a slot for all
  that search. `Born` excludes threads without a connection.
- `SlotsTheorem`: `SlotOwners` (a slot has the descriptor of one thread, which has that slot),
  `LoopReads` (what `select` returned can still be read when the scan comes to it),
  `ThreadSlots` (the message in a slot and the threads at it are of the slot's own client).

### RoomsProofs

- `TypeInv` adds where threads stand in their functions and what they have in their locals.
- `RoomListTheorem`, from `ListInv`: `ListRight`, `CellsRight`, `NumbersRight`, `TakersRight` relate `roomList`,
  `roomNum`, the cells that `malloc` has given out, the numbers, and what a thread in `newRoom`,
  `playerEnterRoom` or `deleteRoom` has taken from them.
- `CountTheorem` and `HostTheorem`, from `RoomInv`: of each room and its thread, `SeatsRight`, `CountRight`
  (`quitRoom` leaves a player where it counted two, and deletes the room where it counted one) and
  `HostRight` (seat 0 is free only between the host's leaving and the next host's move).
- A step of a room's thread is one of six kinds (`Goes`): it changes nothing of the seats (`Stays`),
  calls `quitRoom` (`Calls`), weighs who is host (`Weighs`), counts a player off (`CountsOff`), empties a seat (`Empties`), or
  returns (`Returns`). Every action is shown to be of a kind, and the invariants are shown of kinds.
- `KeepsTheorem`, `OneSeatTheorem`, from `KeepsInv` and `OneInv`: who `Sits` has a seat, one at most,
  and who has a seat sits. `ClientsRight` ties the client to the thread of his request and to his
  mailbox. For a client a step is `Plain`, or he is `Ousted`. Like `OwnThreadTheorem` they end with the
  specification where a connection comes to a former client's thread (`Inherit`).
- `OwnThreadTheorem` and `UpTheorem`, from the above and `EntriesKept` (an entry that a thread
  goes back to is still a room).

### AccountsProofs

- `TypeInvariant`: `TypeInv` adds that the list has each account once and only accounts that
  were made, that a thread has the account it found, and that one which is made and not yet linked is found by
  nobody; `TriesRight` counts each wrong password against the connection or request that typed it. That a file can be loaded, by a start or a restart, is a lemma about `Loaded`.
- `ThreeWrongBlock`, from `WrongInv`: until two threads counted at once, the count is the number of wrong
  passwords, and an account at three that is not blocked has a thread that is about to
  block it (`Third`).
- `NobodyBlockedForLess`, from `CauseInv`, which excepts nothing: a count is never above what was typed
  (`CountsRight`), and an account blocked by the file has its line in the file and in
  every buffer that is about to be written (`LinesRight`). Without the buffers it is not
  inductive: an old store could take the line away.
- `SignedUpStays`, from `KeptInv`: with `View` the list as names and passwords, no name is twice
  in it (`Apart`), every name of the file is in it and no later than in the file (`Covers`), the line that a
  start would take has its password (`Agrees`), and the lines of every store under way are a
  beginning of it (`Prefix`). That is why the file may be written over by an older, shorter
  store: `StoreKeeps`. `AppendKeeps` and `LoadKeeps` are the same for a sign-up and a restart. A
  sign-up is followed from the list to the lines to the file (`SignUpRight`).
- `LoginsAreRight`, from `LoginInv`: who is logged in has one `Holder`, a connection or a thread that is on
  its way to give him to one; and a name looked up twice gives one account (`Found`), which is
  why `SetAccount` may look it up again. It does not need that names are different. `LoneInv` says that until
  a slot is taken again over a running thread there is one thread at it.
- `StepCases` reduces the actions to the few that each invariant can notice; the rest are
  `QuietStep`. Init and Restart share `Started`.

### Only model-checked

`RoundEnds`, `DropIsNoticed`, `Answered`, `GoneIsNoticed`, `ReadyAnswered` and `Heard` (of Mailbox and
of Connections): liveness, which rests on fairness and ENABLED and is beyond the prover. So is what the two
runs show that expect a violation. Nothing here uses RECURSIVE operators. The recursion of
the code that computes over data (a walk along a list, the scan for a winner) is in the models as a
choice of the least or as a step per element, and so within reach of the proofs.

## 5. Not modelled, and the plan

Done: the modules of section 2 and a proof of every safety property of their runs.
What is left:

1. Hypotheses that could be weaker: `MailInv` behind late arguments, for all slots but the late one; what remains of
   `OwnThreadReads` and `SlotsAgree` behind a name that they except; Rooms behind `Inherit`, with the threads of two clients in one slot.
2. Action properties: who is told of a seat or an account and when; a room's number never goes back.
3. Rooms as an implementation of an abstract room (members, host, closed) where none of the named races has
   happened, and Accounts of an abstract register.
4. Parts only partly modelled: half a message in one `recv`, and the slots of the
   client's mailbox for game data.

Not modelled:

- `service_changePass` and `service_signout`: the client sends 4 and 7 without the SERVICE that
  starts a thread, so no client reaches them; what the loop does with these
  messages is in Mailbox. `activateAccount` and `deleteAccountNodeByUserName` have no caller,
  `service_gamePlayingHistory` is empty.
- Half a message in one `recv`, and a message longer than a buffer.
- `strtok`'s one global place, shared by all threads: a text is taken apart in one step here, and
  one room plays at a time.
- `printAllScore` ends without a return, and its callers compare what they find in the
  register with an error code: see GamePlay above.
- What a client shows, and the slots of its mailbox for game data.
- `question.c` but for the choice of a question; `tostring`, `delay`, `bigNumberChoose`,
  `fgets_timeout` (pure, or only time); the printing of errors; the programs under `Test/`.
