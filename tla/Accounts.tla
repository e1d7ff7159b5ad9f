------------------------------- MODULE Accounts -------------------------------
(***************************************************************************)
(* The accounts of the server: accountSystem.c, services.c, and the        *)
(* threads of server.c and recvMessage.c that sign up and log in.  The     *)
(* accounts are a linked list without a lock, kept in a text file that is  *)
(* written whole, over its old contents, after each sign-up and read when  *)
(* the server starts.                                                      *)
(*                                                                         *)
(* Whatever kills the server kills it here (Die), and it may be started    *)
(* again.  Names and passwords are as long as one another, so that a line  *)
(* of the file covers a line.  The two messages of a request have come when *)
(* it is served.  A client that hangs up leaves the thread that serves him,  *)
(* and the thread goes on in his slot, which the next client may have by     *)
(* then.  past is history, as in Rooms.                                     *)
(***************************************************************************)
EXTENDS Integers, Sequences, FiniteSets

CONSTANTS
    Slots,          \* indexes of the connections; a slot's descriptor is its index
    Names, Passwords,
    Preset,         \* "hust;d123", what every client sends when it connects
    Files,          \* what the file may hold at first
    MaxThreads,     \* bound on the threads that serve one slot at once
    MaxAccounts,    \* bound on the accounts in memory
    Nil,            \* NULL
    MaxConnects,    \* bound on the connections made
    MaxRequests,    \* bound on the requests to log in or sign up
    MaxStarts       \* bound on the starts of the server

MAX_WRONG_PASS == 3

Cells == 1 .. MaxAccounts      \* the memory for accounts
Lanes == 1 .. MaxThreads
Threads == Slots \X Lanes

\* connfd_index
SlotOf(t) == t[1]

Status == {"IDLE", "ACTIVE", "BLOCKED"}
Line == [name : Names, pass : Passwords, status : Status]
Account == [name : Names, pass : Passwords, status : Status, wrongPassCount : Nat,
            isLogined : BOOLEAN, loginedClientConnfd : Slots \cup {-1}]

ASSUME AccountsAssumption ==
    /\ Slots \subseteq Nat /\ IsFiniteSet(Slots) /\ Nil \notin Nat
    /\ Preset \in Names \X Passwords
    /\ Files \subseteq Seq(Line) \ {<<>>}
    /\ \A f \in Files : Len(f) <= MaxAccounts
    /\ {MaxThreads, MaxAccounts, MaxConnects, MaxRequests, MaxStarts} \subseteq Nat
    /\ MaxThreads > 0
\* A client connects by itself to an account that is in the file: with no
\* such account the first connection ends the server.
ASSUME PresetAssumption ==
    \A f \in Files : \E i \in DOMAIN f : f[i].name = Preset[1]

VARIABLES
    up,                 \* the server runs
    file,               \* username_pass.txt
    node,               \* the accounts, by cell
    list,               \* their cells, from accountNode_front along next
    rear,               \* accountNode_rear
    used,               \* cells malloc has given out; none is ever freed
    alive,              \* clientConnfd[k] # -1
    account,            \* client_account
    thr,                \* the threads that serve the slots
    connects, requests, starts,
    wrongs,             \* history: wrong passwords counted, by account
    made,               \* history: who was told that his account is made
    past                \* history: races and mistakes

listVars == <<node, list, rear, used>>
boundVars == <<connects, requests, starts>>
history == <<wrongs, made, past>>
vars == <<up, file, listVars, alive, account, thr, boundVars, history>>

NoThread == [pc |-> "none", for |-> "none", name |-> Preset[1], pass |-> Preset[2], n |-> Nil,
             v |-> 0, lines |-> <<>>]

Free == [name |-> Preset[1], pass |-> Preset[2], status |-> "IDLE", wrongPassCount |-> 0,
         isLogined |-> FALSE, loginedClientConnfd |-> -1]

\* The accounts that a walk from accountNode_front meets
Listed == {list[i] : i \in DOMAIN list}

\* getAccountNodeByUserName
Lookup(name) ==
    LET is == {i \in DOMAIN list : node[list[i]].name = name}
    IN  IF is = {} THEN Nil ELSE list[CHOOSE i \in is : \A j \in is : i <= j]

\* The lines whose name no line before them has: addAccountNode refuses others
Fresh(f) == {i \in DOMAIN f : \A j \in 1 .. i - 1 : f[j].name # f[i].name}

\* loadUsername_passData: the i-th account that is added is in the i-th cell
Loaded(f) ==
    LET lines == Fresh(f)
        rank(i) == Cardinality({j \in lines : j <= i})
        line(n) == CHOOSE i \in lines : rank(i) = n
    IN  [n \in Cells |->
            IF n > Cardinality(lines) THEN Free
            ELSE [Free EXCEPT !.name = f[line(n)].name, !.pass = f[line(n)].pass,
                              !.status = f[line(n)].status]]

Starts(f) ==
    /\ node' = Loaded(f)
    /\ list' = [n \in 1 .. Cardinality(Fresh(f)) |-> n]
    /\ rear' = Cardinality(Fresh(f))
    /\ used' = Cardinality(Fresh(f))

Init ==
    /\ file \in Files
    /\ up = TRUE
    /\ node = Loaded(file)
    /\ list = [n \in 1 .. Cardinality(Fresh(file)) |-> n]
    /\ rear = Cardinality(Fresh(file)) /\ used = Cardinality(Fresh(file))
    /\ alive = [k \in Slots |-> FALSE]
    /\ account = [k \in Slots |-> Nil]
    /\ thr = [t \in Threads |-> NoThread]
    /\ connects = 0 /\ requests = 0 /\ starts = 1
    /\ wrongs = [n \in Cells |-> 0]
    /\ made = {}
    /\ past = {}

-----------------------------------------------------------------------------
(***************************************************************************)
(* The server and its clients.                                             *)
(***************************************************************************)

\* The process ends, because of a NULL pointer (why) or of something else.
Dies(why) ==
    /\ up' = FALSE
    /\ past' = past \cup why
    /\ alive' = [k \in Slots |-> FALSE]
    /\ account' = [k \in Slots |-> Nil]
    /\ thr' = [t \in Threads |-> NoThread]
    /\ UNCHANGED <<file, listVars, boundVars, wrongs, made>>

Die == up /\ Dies({})

Restart ==
    /\ ~up /\ starts < MaxStarts
    /\ up' = TRUE
    /\ starts' = starts + 1
    /\ Starts(file)
    /\ wrongs' = [n \in Cells |-> 0]
    /\ UNCHANGED <<file, alive, account, thr, connects, requests, made, past>>

Running(k) == {t \in Threads : SlotOf(t) = k /\ thr[t].pc # "none"}

\* A new thread of the slot, in its first lane that is free
Begins(k, new) ==
    \E l \in Lanes :
        /\ thr[<<k, l>>].pc = "none" /\ \A m \in Lanes : m < l => thr[<<k, m>>].pc # "none"
        /\ thr' = [thr EXCEPT ![<<k, l>>] = new]

\* The slot is taken again while threads of its last client run.
Connect(k) ==
    /\ up /\ ~alive[k]
    /\ connects < MaxConnects
    /\ connects' = connects + 1
    /\ alive' = [alive EXCEPT ![k] = TRUE]
    /\ Begins(k, [NoThread EXCEPT !.pc = "check", !.for = "connect"])
    /\ past' = IF Running(k) # {} THEN past \cup {"stale"} ELSE past
    /\ UNCHANGED <<up, file, listVars, account, requests, starts, wrongs, made>>

\* signOut, if somebody is logged in at the slot
SignedOut(k) ==
    IF account[k] = Nil THEN node ELSE [node EXCEPT ![account[k]].isLogined = FALSE]

\* mutant: nobody is signed out
MutHangUp(k) ==
    /\ up /\ alive[k]
    /\ alive' = [alive EXCEPT ![k] = FALSE]
    /\ account' = [account EXCEPT ![k] = Nil]
    /\ UNCHANGED <<up, file, listVars, thr, boundVars, history>>

\* clientConnfdUnconnect at the end of file
HangUp(k) ==
    /\ up /\ alive[k]
    /\ alive' = [alive EXCEPT ![k] = FALSE]
    /\ node' = SignedOut(k)
    /\ account' = [account EXCEPT ![k] = Nil]
    /\ UNCHANGED <<up, file, list, rear, used, thr, boundVars, history>>

\* What is typed for a request; the menu offers it to who is not logged in
\* and has his answer, which may be one that was meant for the last client.
Request(k) ==
    /\ up /\ alive[k]
    /\ (account[k] = Nil /\ Running(k) = {}) \/ "stale" \in past
    /\ requests < MaxRequests
    /\ requests' = requests + 1
    /\ \E for \in {"login", "signup"}, name \in Names, pass \in Passwords :
         Begins(k, [NoThread EXCEPT !.pc = "ask", !.for = for, !.name = name, !.pass = pass])
    /\ UNCHANGED <<up, file, listVars, alive, account, connects, starts, history>>

-----------------------------------------------------------------------------
(***************************************************************************)
(* Logging in.                                                             *)
(***************************************************************************)

At(t, pc) == up /\ thr[t].pc = pc
Goes(t, pc) == thr' = [thr EXCEPT ![t].pc = pc]
Ends(t) == thr' = [thr EXCEPT ![t] = NoThread]

\* isExistUserName of both threads: X ends a login, and a sign-up if there is
\* the account
Ask(t) ==
    /\ At(t, "ask")
    /\ IF thr[t].for = "login" THEN IF Lookup(thr[t].name) = Nil THEN Ends(t) ELSE Goes(t, "check")
                               ELSE IF Lookup(thr[t].name) = Nil THEN Goes(t, "add") ELSE Ends(t)
    /\ UNCHANGED <<up, file, listVars, alive, account, boundVars, history>>

\* accessToAccount: the account is looked up again, and is not tested for NULL
Check(t) ==
    /\ At(t, "check")
    /\ LET n == Lookup(thr[t].name) IN
       IF n = Nil THEN Dies({"null"})
       ELSE /\ IF node[n].status # "ACTIVE" THEN Ends(t)
               ELSE thr' = [thr EXCEPT ![t].n = n,
                                       ![t].pc = IF node[n].pass = thr[t].pass THEN "enter" ELSE "load"]
            /\ UNCHANGED <<up, file, listVars, alive, account, boundVars, history>>

\* wrongPassCount++
LoadCount(t) ==
    /\ At(t, "load")
    /\ thr' = [thr EXCEPT ![t].pc = "store", ![t].v = node[thr[t].n].wrongPassCount]
    /\ UNCHANGED <<up, file, listVars, alive, account, boundVars, history>>

\* mutant: counted twice
MutOneMore(v) == v + 2

OneMore(v) == v + 1

StoreCount(t) ==
    /\ At(t, "store")
    /\ LET n == thr[t].n IN
       /\ node' = [node EXCEPT ![n].wrongPassCount = OneMore(thr[t].v)]
       /\ wrongs' = [wrongs EXCEPT ![n] = @ + 1]
       /\ past' = IF node[n].wrongPassCount # thr[t].v THEN past \cup {"torn"} ELSE past
    /\ Goes(t, "compare")
    /\ UNCHANGED <<up, file, list, rear, used, alive, account, boundVars, made>>

\* mutants: the comparisons
MutTooMany(count) == count > MAX_WRONG_PASS
MutTooManyTwo(count) == count = MAX_WRONG_PASS - 1

TooMany(count) == count = MAX_WRONG_PASS

Compare(t) ==
    /\ At(t, "compare")
    /\ LET n == thr[t].n IN
       /\ node' = IF TooMany(node[n].wrongPassCount) THEN [node EXCEPT ![n].status = "BLOCKED"] ELSE node
       /\ past' = IF node[n].wrongPassCount # OneMore(thr[t].v) THEN past \cup {"skipped"} ELSE past
    /\ Ends(t)
    /\ UNCHANGED <<up, file, list, rear, used, alive, account, boundVars, wrongs, made>>

\* logIn
Enter(t) ==
    /\ At(t, "enter")
    /\ LET n == thr[t].n IN
       /\ node' = [node EXCEPT ![n].isLogined = TRUE, ![n].loginedClientConnfd = SlotOf(t)]
       /\ past' = IF node[n].isLogined THEN past \cup {"twice"} ELSE past
    /\ Goes(t, IF thr[t].for = "connect" THEN "tell" ELSE "set")
    /\ UNCHANGED <<up, file, list, rear, used, alive, account, boundVars, wrongs, made>>

\* client_account is set by the name; service_signin follows it at once, and
\* newConnection has looked it up once more before.
SetAccount(t) ==
    /\ At(t, "set")
    /\ LET n == Lookup(thr[t].name) IN
       IF n = Nil THEN Dies({"null"})
       ELSE /\ account' = [account EXCEPT ![SlotOf(t)] = n]
            /\ past' = IF thr[t].for = "connect" /\ ~alive[SlotOf(t)] THEN past \cup {"left"} ELSE past
            /\ IF thr[t].for = "connect" THEN Ends(t) ELSE Goes(t, "tell")
            /\ UNCHANGED <<up, file, listVars, alive, boundVars, wrongs, made>>

\* newConnection tells the client before, service_signin after the account is
\* set; a send to a closed connection is followed by clientConnfdUnconnect.
Tell(t) ==
    /\ At(t, "tell")
    /\ LET connect == thr[t].for = "connect" IN
       /\ IF connect /\ alive[SlotOf(t)] THEN Goes(t, "set") ELSE Ends(t)
       /\ IF alive[SlotOf(t)] THEN UNCHANGED <<node, account, past>>
          ELSE /\ node' = SignedOut(SlotOf(t))
               /\ account' = [account EXCEPT ![SlotOf(t)] = Nil]
               /\ past' = IF connect THEN past \cup {"left"} ELSE past
    /\ UNCHANGED <<up, file, list, rear, used, alive, boundVars, wrongs, made>>

-----------------------------------------------------------------------------
(***************************************************************************)
(* Signing up: addAccountNode, then storeUsername_passData.                *)
(***************************************************************************)

\* What addAccountNode refuses is answered like the rest.
Add(t) ==
    /\ At(t, "add")
    /\ LET n == used + 1 IN
       IF Lookup(thr[t].name) # Nil
         THEN Goes(t, "told") /\ past' = past \cup {"name"} /\ UNCHANGED <<node, used>>
         ELSE /\ used < MaxAccounts /\ used' = n /\ past' = past
              /\ node' = [node EXCEPT ![n] = [Free EXCEPT !.name = thr[t].name,
                                        !.pass = thr[t].pass, !.status = "ACTIVE"]]
              /\ thr' = [thr EXCEPT ![t].pc = "link", ![t].n = n]
    /\ UNCHANGED <<up, file, list, rear, alive, account, boundVars, wrongs, made>>

\* accountNode_rear->next = newNode: what stood behind the rear is lost, and
\* behind an account that is lost nothing is found.
Link(t) ==
    /\ At(t, "link")
    /\ list' = IF rear \notin Listed THEN list
               ELSE LET place == CHOOSE i \in DOMAIN list : list[i] = rear
                    IN  Append(SubSeq(list, 1, place), thr[t].n)
    /\ past' = past \cup (IF rear # list[Len(list)] THEN {"append"} ELSE {})
                    \cup (IF Lookup(thr[t].name) # Nil THEN {"name"} ELSE {})
    /\ Goes(t, "rear")
    /\ UNCHANGED <<up, file, node, rear, used, alive, account, boundVars, wrongs, made>>

\* accountNode_rear = newNode
SetRear(t) ==
    /\ At(t, "rear")
    /\ rear' = thr[t].n
    /\ Goes(t, "walk")
    /\ UNCHANGED <<up, file, node, list, used, alive, account, boundVars, history>>

\* The lines go into the buffer of the stream.
Walk(t) ==
    /\ At(t, "walk")
    /\ LET line(n) == [name |-> node[n].name, pass |-> node[n].pass, status |-> node[n].status]
       IN  thr' = [thr EXCEPT ![t].pc = "write", ![t].lines = [i \in DOMAIN list |-> line(list[i])]]
    /\ UNCHANGED <<up, file, listVars, alive, account, boundVars, history>>

\* mutant: the file is opened with "w"
MutOver(new, old) == new

\* The file is opened with "r+": what is longer stays.
Over(new, old) ==
    [i \in DOMAIN new \cup DOMAIN old |-> IF i \in DOMAIN new THEN new[i] ELSE old[i]]

\* fclose writes the buffer.
Write(t) ==
    /\ At(t, "write")
    /\ file' = Over(thr[t].lines, file)
    /\ Goes(t, "told")
    /\ UNCHANGED <<up, listVars, alive, account, boundVars, history>>

\* SIGNUP_SUCCESSFULLY
TellMade(t) ==
    /\ At(t, "told")
    /\ made' = IF alive[SlotOf(t)] THEN made \cup {<<thr[t].name, thr[t].pass>>} ELSE made
    /\ Ends(t)
    /\ UNCHANGED <<up, file, listVars, alive, account, boundVars, wrongs, past>>

Serve(t) ==
    \/ Ask(t) \/ Check(t) \/ LoadCount(t) \/ StoreCount(t) \/ Compare(t) \/ Enter(t) \/ SetAccount(t)
    \/ Tell(t) \/ Add(t) \/ Link(t) \/ SetRear(t) \/ Walk(t) \/ Write(t) \/ TellMade(t)

Next ==
    \/ Die \/ Restart
    \/ \E k \in Slots : Connect(k) \/ HangUp(k) \/ Request(k)
    \/ \E t \in Threads : Serve(t)

Spec == Init /\ [][Next]_vars
-----------------------------------------------------------------------------
(***************************************************************************)
(* Properties.                                                             *)
(***************************************************************************)

Never(events) == past \cap events = {}

Thread ==
    [pc : {"none", "ask", "check", "load", "store", "compare", "enter", "set", "tell", "add",
           "link", "rear", "walk", "write", "told"},
     for : {"none", "connect", "login", "signup"}, name : Names, pass : Passwords,
     n : Cells \cup {Nil}, v : Nat, lines : Seq(Line)]

\* The type invariant; a wrong password is counted once at most.
TypeOK ==
    /\ up \in BOOLEAN /\ file \in Seq(Line)
    /\ list \in Seq(Cells) \ {<<>>} /\ rear \in Cells /\ used \in Cells
    /\ node \in [Cells -> Account]
    /\ \A n \in Cells : node[n].wrongPassCount <= connects + requests
    /\ alive \in [Slots -> BOOLEAN] /\ account \in [Slots -> Cells \cup {Nil}]
    /\ thr \in [Threads -> Thread]
    /\ past \subseteq {"torn", "skipped", "twice", "left", "stale", "append", "name", "null"}

\* After the third wrong password since the server started, whoever typed
\* them, the account is blocked, unless two threads were counting wrong
\* passwords of one account at once: then one is lost, or the count passes
\* MAX_WRONG_PASS between a thread's step and its comparison.
WrongBlocks ==
    \A n \in Listed :
        /\ up /\ Never({"torn", "skipped"}) /\ wrongs[n] >= MAX_WRONG_PASS
        /\ \A t \in Threads : thr[t].pc = "compare" => thr[t].n # n
        => node[n].status = "BLOCKED"

\* Nobody is blocked before three wrong passwords, however the threads meet,
\* but by the file.
BlockedForCause ==
    \A n \in Listed :
        node[n].status = "BLOCKED" =>
            \/ wrongs[n] >= MAX_WRONG_PASS
            \/ \E i \in DOMAIN file : file[i].name = node[n].name /\ file[i].status = "BLOCKED"

\* Who was told that he is signed up has an account with his password from
\* then on, and after a restart, in whatever order overlapping stores reach
\* the file, unless two threads have appended at once or have signed up one
\* name.
SignedUpKept ==
    up /\ Never({"append", "name"}) =>
        \A m \in made : Lookup(m[1]) # Nil /\ node[Lookup(m[1])].pass = m[2]

\* An account is logged in exactly while a connection has it, or is being
\* given it, and sends to the account go to that connection, unless an
\* account was logged into twice, was lost to two threads that appended at
\* once (its name may then be another's), a client left while newConnection
\* was logging it in, or a slot was taken again while a thread of its last
\* client was running, which then writes the next one's client_account.
LoggedInRight ==
    Never({"twice", "left", "append", "stale"}) =>
        /\ \A k \in Slots : account[k] # Nil =>
               node[account[k]].isLogined /\ node[account[k]].loginedClientConnfd = k
        /\ up => \A n \in Listed : node[n].isLogined =>
               \/ \E k \in Slots : account[k] = n
               \/ \E t \in Threads : thr[t].pc \in {"set", "tell"} /\ thr[t].n = n
===============================================================================
