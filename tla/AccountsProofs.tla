---------------------------- MODULE AccountsProofs ----------------------------
(***************************************************************************)
(* Theorems about Accounts, for any number of connections, accounts, names *)
(* and contents of the file.                                               *)
(***************************************************************************)
EXTENDS Accounts, FiniteSetTheorems, NaturalsInduction, WellFoundedInduction, TLAPS

USE DEF listVars, boundVars, history, vars

-----------------------------------------------------------------------------
(***************************************************************************)
(* Walks along the list.                                                   *)
(***************************************************************************)

\* A set of numbers that is not empty has a least.
LEMMA LeastIs ==
    ASSUME NEW S, S \subseteq Nat, S # {}
    PROVE  \E i \in S : \A j \in S : i <= j
<1>1. PICK i \in S : \A j \in S : ~(<<j, i>> \in OpToRel(<, Nat))
  BY NatLessThanWellFounded, WFMin
<1>2. \A j \in S : ~(j < i)
  BY <1>1 DEF OpToRel
<1> QED BY <1>2

\* Lookup, of any nodes and any list.
LookIn(nodes, cells, name) ==
    LET is == {i \in DOMAIN cells : nodes[cells[i]].name = name}
    IN  IF is = {} THEN Nil ELSE cells[CHOOSE i \in is : \A j \in is : i <= j]

LEMMA LookupIsLookIn ==
    \A name : /\ Lookup(name) = LookIn(node, list, name)
              /\ Lookup(name)' = LookIn(node', list', name)
BY DEF Lookup, LookIn

\* The first account of the name, or NULL if there is none.
LEMMA LookInIs ==
    ASSUME NEW nodes, NEW cells \in Seq(Cells), NEW name
    PROVE  \/ /\ LookIn(nodes, cells, name) = Nil
              /\ \A i \in DOMAIN cells : nodes[cells[i]].name # name
           \/ \E i \in DOMAIN cells :
                 /\ LookIn(nodes, cells, name) = cells[i]
                 /\ LookIn(nodes, cells, name) \in Cells
                 /\ nodes[cells[i]].name = name
                 /\ \A j \in DOMAIN cells : j < i => nodes[cells[j]].name # name
<1> DEFINE is == {i \in DOMAIN cells : nodes[cells[i]].name = name}
<1>1. CASE is = {}
  BY <1>1 DEF LookIn
<1>2. CASE is # {}
  <2>1. is \subseteq Nat
    OBVIOUS
  <2>2. \E i \in is : \A j \in is : i <= j
    BY <1>2, <2>1, LeastIs
  <2>3. PICK i : i = CHOOSE h \in is : \A j \in is : h <= j
    OBVIOUS
  <2>4. i \in is /\ \A j \in is : i <= j
    BY <2>2, <2>3
  <2>5. LookIn(nodes, cells, name) = cells[i]
    BY <1>2, <2>3 DEF LookIn
  <2>6. cells[i] \in Cells
    BY <2>4
  <2>7. \A j \in DOMAIN cells : j < i => nodes[cells[j]].name # name
    BY <2>1, <2>4
  <2> QED BY <2>4, <2>5, <2>6, <2>7
<1> QED BY <1>1, <1>2

\* NULL is no account.
LEMMA NilIsNoCell == Nil \notin Cells
BY AccountsAssumption DEF Cells

-----------------------------------------------------------------------------
(***************************************************************************)
(* Loading the file.                                                       *)
(***************************************************************************)

Rank(f, i) == Cardinality({j \in Fresh(f) : j <= i})
LineOf(f, n) == CHOOSE i \in Fresh(f) : Rank(f, i) = n
Loads(f) == Cardinality(Fresh(f))

FileOK(f) == f \in Seq(Line) /\ f # <<>> /\ Len(f) <= MaxAccounts

LEMMA FreshIs ==
    ASSUME NEW f, FileOK(f)
    PROVE  /\ Fresh(f) \subseteq DOMAIN f /\ Fresh(f) \subseteq Nat /\ IsFiniteSet(Fresh(f))
           /\ 1 \in Fresh(f)
           /\ Loads(f) \in Nat /\ 1 <= Loads(f) /\ Loads(f) <= MaxAccounts
           /\ Loads(f) \in Cells
           /\ \A i \in DOMAIN f : \E j \in Fresh(f) : j <= i /\ f[j].name = f[i].name
<1>1. PICK l \in Nat : l = Len(f)
  BY DEF FileOK
<1>2. DOMAIN f = 1 .. l /\ l >= 1 /\ l <= MaxAccounts /\ MaxAccounts \in Nat
  BY <1>1, AccountsAssumption DEF FileOK
<1>3. Fresh(f) \subseteq 1 .. l /\ 1 \in Fresh(f) /\ Fresh(f) \subseteq Nat
  BY <1>2 DEF Fresh
<1>4. PICK one \in Int : one = 1
  OBVIOUS
<1>5. IsFiniteSet(1 .. l) /\ Cardinality(1 .. l) = l
  BY <1>2, <1>4, FS_Interval
<1>6. IsFiniteSet(Fresh(f)) /\ Loads(f) <= l
  BY <1>3, <1>5, FS_Subset DEF Loads
<1>7. Loads(f) \in Nat
  BY <1>6, FS_CardinalityType DEF Loads
<1>8. Loads(f) # 0
  BY <1>3, <1>6, FS_EmptySet DEF Loads
<1>9. 1 <= Loads(f) /\ Loads(f) <= MaxAccounts
  BY <1>2, <1>6, <1>7, <1>8
<1>10. ASSUME NEW i \in DOMAIN f
       PROVE  \E j \in Fresh(f) : j <= i /\ f[j].name = f[i].name
  <2> DEFINE same == {j \in DOMAIN f : f[j].name = f[i].name}
  <2>1. same \subseteq Nat /\ i \in same
    BY <1>2
  <2>2. PICK j \in same : \A h \in same : j <= h
    BY <2>1, LeastIs
  <2>3. j \in Fresh(f)
    BY <1>2, <2>2 DEF Fresh
  <2> QED BY <2>1, <2>2, <2>3
<1> QED BY <1>2, <1>3, <1>6, <1>7, <1>9, <1>10 DEF Cells

\* The n-th line that is loaded is one line, and every line has its place.
LEMMA RankIs ==
    ASSUME NEW f, FileOK(f)
    PROVE  /\ \A i \in Fresh(f) : Rank(f, i) \in 1 .. Loads(f) /\ Rank(f, i) <= i
           /\ \A i, j \in Fresh(f) : i # j => Rank(f, i) # Rank(f, j)
           /\ \A n \in 1 .. Loads(f) : LineOf(f, n) \in Fresh(f) /\ Rank(f, LineOf(f, n)) = n
           /\ \A i \in Fresh(f) : LineOf(f, Rank(f, i)) = i
<1> DEFINE Upto(i) == {j \in Fresh(f) : j <= i}
<1>0. Fresh(f) \subseteq Nat /\ IsFiniteSet(Fresh(f)) /\ Loads(f) \in Nat /\ \A i \in Fresh(f) : i >= 1
  BY FreshIs DEF Fresh, FileOK
<1>1. ASSUME NEW i \in Fresh(f)
      PROVE  /\ IsFiniteSet(Upto(i)) /\ Rank(f, i) \in 1 .. Loads(f) /\ Rank(f, i) <= i
  <2>1. IsFiniteSet(Upto(i)) /\ Cardinality(Upto(i)) <= Loads(f)
    BY <1>0, FS_Subset DEF Loads
  <2>2. Cardinality(Upto(i)) \in Nat
    BY <2>1, FS_CardinalityType
  <2>3. i \in Upto(i)
    BY <1>0
  <2>4. Cardinality(Upto(i)) # 0
    BY <2>1, <2>3, FS_EmptySet
  <2>5. PICK one \in Int : one = 1
    OBVIOUS
  <2>6. IsFiniteSet(1 .. i) /\ Cardinality(1 .. i) = i
    BY <1>0, <2>5, FS_Interval
  <2>7. Upto(i) \subseteq 1 .. i
    BY <1>0
  <2>8. Cardinality(Upto(i)) <= i
    BY <2>6, <2>7, FS_Subset
  <2> QED BY <1>0, <2>1, <2>2, <2>4, <2>8 DEF Rank
<1>2. ASSUME NEW i \in Fresh(f), NEW j \in Fresh(f), i < j
      PROVE  Rank(f, i) # Rank(f, j)
  <2>1. Upto(i) \subseteq Upto(j) /\ j \in Upto(j) /\ j \notin Upto(i)
    BY <1>0, <1>2
  <2>2. Cardinality(Upto(i)) # Cardinality(Upto(j))
    BY <1>1, <2>1, FS_Subset
  <2> QED BY <2>2 DEF Rank
<1>3. \A i, j \in Fresh(f) : i # j => Rank(f, i) # Rank(f, j)
  BY <1>0, <1>2
<1>4. ASSUME NEW n \in 1 .. Loads(f)
      PROVE  \E i \in Fresh(f) : Rank(f, i) = n
  <2> DEFINE r == [i \in Fresh(f) |-> Rank(f, i)]
  <2>1. r \in Injection(Fresh(f), 1 .. Loads(f))
    BY <1>1, <1>3 DEF Injection, IsInjective
  <2>2. PICK one \in Int : one = 1
    OBVIOUS
  <2>3. IsFiniteSet(1 .. Loads(f)) /\ Cardinality(1 .. Loads(f)) = Loads(f)
    BY <1>0, <2>2, FS_Interval
  <2>4. r \in Surjection(Fresh(f), 1 .. Loads(f))
    BY <2>1, <2>3, FS_Injection DEF Loads
  <2> QED BY <2>4 DEF Surjection
<1>5. \A n \in 1 .. Loads(f) : LineOf(f, n) \in Fresh(f) /\ Rank(f, LineOf(f, n)) = n
  BY <1>4 DEF LineOf
<1>6. \A i \in Fresh(f) : LineOf(f, Rank(f, i)) = i
  BY <1>1, <1>3, <1>5
<1> QED BY <1>1, <1>3, <1>5, <1>6

LEMMA LoadedIs ==
    ASSUME NEW f, FileOK(f)
    PROVE  /\ Loaded(f) \in [Cells -> Account]
           /\ \A n \in Cells : /\ Loaded(f)[n].wrongPassCount = 0
                               /\ Loaded(f)[n].isLogined = FALSE
           /\ \A n \in 1 .. Loads(f) : /\ Loaded(f)[n].name = f[LineOf(f, n)].name
                                       /\ Loaded(f)[n].pass = f[LineOf(f, n)].pass
                                       /\ Loaded(f)[n].status = f[LineOf(f, n)].status
<1> DEFINE Cell(n) == IF n > Loads(f) THEN Free
                      ELSE [Free EXCEPT !.name = f[LineOf(f, n)].name, !.pass = f[LineOf(f, n)].pass,
                                        !.status = f[LineOf(f, n)].status]
<1>1. Loaded(f) = [n \in Cells |-> Cell(n)]
  BY DEF Loaded, Loads, LineOf, Rank
<1>2. PICK zero \in Nat : zero = 0
  OBVIOUS
<1>3. /\ Free \in Account /\ Free.wrongPassCount = 0 /\ Free.isLogined = FALSE
  BY AccountsAssumption DEF Free, Account, Status
<1>4. Loads(f) \in Nat /\ Cells \subseteq Nat /\ \A n \in Cells : n >= 1
  BY FreshIs DEF Cells
<1>5. ASSUME NEW n \in Cells
      PROVE  /\ Cell(n) \in Account /\ Cell(n).wrongPassCount = 0 /\ Cell(n).isLogined = FALSE
             /\ n <= Loads(f) => /\ Cell(n).name = f[LineOf(f, n)].name
                                 /\ Cell(n).pass = f[LineOf(f, n)].pass
                                 /\ Cell(n).status = f[LineOf(f, n)].status
  <2>1. CASE n > Loads(f)
    BY <1>3, <1>4, <2>1
  <2>2. CASE ~(n > Loads(f))
    <3>1. n \in 1 .. Loads(f)
      BY <1>4, <2>2
    <3>2. LineOf(f, n) \in DOMAIN f
      BY <3>1, RankIs, FreshIs
    <3>3. f[LineOf(f, n)] \in Line
      BY <3>2 DEF FileOK
    <3>4. PICK l \in Line : l = f[LineOf(f, n)]
      BY <3>3
    <3>5. l.name \in Names /\ l.pass \in Passwords /\ l.status \in Status
      BY DEF Line
    <3>6. Cell(n) = [Free EXCEPT !.name = l.name, !.pass = l.pass, !.status = l.status]
      BY <2>2, <3>4
    <3> HIDE DEF Cell
    <3>7. /\ [Free EXCEPT !.name = l.name, !.pass = l.pass, !.status = l.status] \in Account
          /\ [Free EXCEPT !.name = l.name, !.pass = l.pass, !.status = l.status].wrongPassCount = 0
          /\ [Free EXCEPT !.name = l.name, !.pass = l.pass, !.status = l.status].isLogined = FALSE
      BY <1>3, <3>5, AccountsAssumption DEF Free, Account
    <3>8. /\ Cell(n).name = l.name /\ Cell(n).pass = l.pass /\ Cell(n).status = l.status
      BY <3>6 DEF Free
    <3> QED BY <3>4, <3>6, <3>7, <3>8
  <2> QED BY <2>1, <2>2
<1> HIDE DEF Cell
<1>6. 1 .. Loads(f) \subseteq Cells /\ \A n \in 1 .. Loads(f) : n <= Loads(f)
  BY <1>4, FreshIs, AccountsAssumption DEF Cells
<1> QED BY <1>1, <1>5, <1>6

-----------------------------------------------------------------------------
(***************************************************************************)
(* Types, and where the threads and the list may be.                       *)
(***************************************************************************)

Logins == {"load", "store", "compare", "enter", "set", "tell"}
SignUps == {"link", "rear", "walk", "write"}

\* A thread has the account that it looked up or made: its name is the one
\* that was typed.  Nobody finds an account that is not linked yet.
Fits(t, k) ==
    /\ t.pc \in Logins \cup SignUps => t.n \in 1 .. used /\ node[t.n].name = t.name
    /\ t.pc \in SignUps => node[t.n].pass = t.pass
    /\ t.pc = "ask" => t.for \in {"login", "signup"}
    /\ t.pc \in Logins \cup {"check"} => t.for \in {"connect", "login"}
    /\ t.pc \in SignUps \cup {"add", "told"} => t.for = "signup"
    /\ t.pc = "link" => /\ t.n \notin Listed
                       /\ \A j \in Threads : thr[j].pc = "link" /\ j # k => thr[j].n # t.n
    /\ t.pc = "write" => FileOK(t.lines)

ThreadRight(k) == Fits(thr[k], k)

\* The list holds accounts that were made, each once.
ListRight ==
    /\ \A i \in DOMAIN list : list[i] <= used
    /\ \A i, j \in DOMAIN list : list[i] = list[j] => i = j
    /\ rear <= used
    /\ \A k \in Slots : account[k] # Nil => account[k] <= used

\* What is not among the variables' types: the counters, and that the death of
\* the server leaves nothing of its threads.
RestRight ==
    /\ FileOK(file)
    /\ wrongs \in [Cells -> Nat]
    /\ made \subseteq Names \X Passwords
    /\ connects \in Nat /\ requests \in Nat /\ starts \in Nat
    /\ ~up => /\ \A k \in Threads : thr[k] = NoThread
              /\ \A s \in Slots : account[s] = Nil

\* The threads that may still count a wrong password.
Counting == {k \in Threads : thr[k].pc \in {"ask", "check", "load", "store"}}

\* Each of them came from a connection or a request of its own.
TriesRight ==
    /\ \A n \in Cells : node[n].wrongPassCount + Cardinality(Counting) <= connects + requests
    /\ \A k \in Threads : thr[k].pc = "store" => thr[k].v + Cardinality(Counting) <= connects + requests

TypeInv ==
    /\ TypeOK
    /\ ListRight
    /\ RestRight
    /\ TriesRight
    /\ \A k \in Threads : ThreadRight(k)

\* Every thread has a slot, every slot a first thread.
LEMMA ThreadsAre ==
    /\ IsFiniteSet(Threads) /\ \A k \in Threads : SlotOf(k) \in Slots
    /\ \A s \in Slots, l \in Lanes : <<s, l>> \in Threads /\ SlotOf(<<s, l>>) = s
    /\ 1 \in Lanes
<1>1. PICK one \in Int : one = 1
  OBVIOUS
<1>2. MaxThreads \in Nat /\ MaxThreads >= 1 /\ IsFiniteSet(Slots)
  BY AccountsAssumption
<1>3. Lanes = one .. MaxThreads
  BY <1>1 DEF Lanes
<1>4. IsFiniteSet(Lanes)
  BY <1>1, <1>2, <1>3, FS_Interval
<1>5. IsFiniteSet(Slots \X Lanes)
  BY <1>2, <1>4, FS_Product
<1>6. 1 \in Lanes
  BY <1>2 DEF Lanes
<1> QED BY <1>5, <1>6 DEF Threads, SlotOf

LEMMA NoThreadType == NoThread \in Thread /\ NoThread.pc = "none" /\ NoThread.for = "none"
BY AccountsAssumption DEF NoThread, Thread

\* What a thread does to itself: it is t afterwards.
Is(k, t) ==
    /\ t \in Thread
    /\ thr'[k] = t
    /\ \A j \in Threads : j # k => thr'[j] = thr[j]
    /\ thr' \in [Threads -> Thread]

\* It goes on, with what it had.
On(k, pc) ==
    \E t : /\ Is(k, t) /\ t.pc = pc
           /\ t.for = thr[k].for /\ t.name = thr[k].name /\ t.pass = thr[k].pass
           /\ t.n = thr[k].n /\ t.v = thr[k].v /\ t.lines = thr[k].lines

Pcs == {"none", "ask", "check", "load", "store", "compare", "enter", "set", "tell", "add",
        "link", "rear", "walk", "write", "told"}

LEMMA GoesIs ==
    ASSUME TypeOK, NEW k \in Threads, NEW pc \in Pcs, Goes(k, pc)
    PROVE  On(k, pc)
<1>1. PICK t : t = [thr[k] EXCEPT !.pc = pc]
  OBVIOUS
<1>2. thr' = [thr EXCEPT ![k] = t]
  BY <1>1 DEF Goes
<1>3. thr[k] \in Thread /\ thr \in [Threads -> Thread]
  BY DEF TypeOK
<1>4. t \in Thread /\ t.pc = pc
  BY <1>1, <1>3 DEF Thread, Pcs
<1>5. /\ t.for = thr[k].for /\ t.name = thr[k].name /\ t.pass = thr[k].pass
      /\ t.n = thr[k].n /\ t.v = thr[k].v /\ t.lines = thr[k].lines
  BY <1>1, <1>3 DEF Thread
<1>6. Is(k, t)
  BY <1>2, <1>3, <1>4 DEF Is
<1> QED BY <1>4, <1>5, <1>6 DEF On

LEMMA EndsIs ==
    ASSUME TypeOK, NEW k \in Threads, Ends(k)
    PROVE  Is(k, NoThread)
BY NoThreadType DEF Ends, Is, TypeOK

\* The number of threads that may still count is one less, one more, or the same.
LEMMA CountingIs ==
    ASSUME TypeOK, NEW k \in Threads, NEW t, Is(k, t)
    PROVE  LET one(pc) == IF pc \in {"ask", "check", "load", "store"} THEN 1 ELSE 0
           IN  /\ Cardinality(Counting) \in Nat /\ Cardinality(Counting)' \in Nat
               /\ Cardinality(Counting)' = Cardinality(Counting) - one(thr[k].pc) + one(t.pc)
<1> DEFINE S == Counting \ {k}
<1> DEFINE Asks == {"ask", "check", "load", "store"}
<1>1. IsFiniteSet(Threads) /\ Counting \subseteq Threads /\ S \subseteq Threads
  BY ThreadsAre DEF Counting
<1>2. IsFiniteSet(S) /\ IsFiniteSet(Counting)
  BY <1>1, FS_Subset
<1>3. PICK c \in Nat : c = Cardinality(S)
  BY <1>2, FS_CardinalityType
<1>4. Counting = IF thr[k].pc \in Asks THEN S \cup {k} ELSE S
  BY DEF Counting
<1>5. Counting' = IF t.pc \in Asks THEN S \cup {k} ELSE S
  BY DEF Counting, Is
<1>6. k \notin S
  OBVIOUS
<1>7. Cardinality(S \cup {k}) = c + 1
  BY <1>2, <1>3, <1>6, FS_AddElement
<1>8. Cardinality(Counting) = IF thr[k].pc \in Asks THEN c + 1 ELSE c
  BY <1>3, <1>4, <1>7
<1>9. Cardinality(Counting)' = IF t.pc \in Asks THEN c + 1 ELSE c
  BY <1>3, <1>5, <1>7
<1> QED BY <1>8, <1>9

LEMMA MemoryIs ==
    ASSUME TypeInv
    PROVE  /\ used \in Nat /\ 1 .. used \subseteq Cells /\ Cells \subseteq Nat
           /\ \A n \in Cells : n <= used => n \in 1 .. used
           /\ Listed \subseteq 1 .. used
<1>1. used \in Nat /\ used <= MaxAccounts /\ MaxAccounts \in Nat /\ Cells \subseteq Nat
  BY AccountsAssumption DEF TypeInv, TypeOK, Cells
<1>2. \A n \in Cells : n <= used => n \in 1 .. used
  BY <1>1 DEF Cells
<1>3. ASSUME NEW i \in DOMAIN list PROVE list[i] \in 1 .. used
  <2>1. list[i] \in Cells /\ list[i] <= used
    BY <1>3 DEF TypeInv, TypeOK, ListRight
  <2> QED BY <1>2, <2>1
<1> QED BY <1>1, <1>2, <1>3 DEF Cells, Listed

\* The others are as right as they were, when nobody finds what they make.
LEMMA ThreadsKept ==
    ASSUME TypeInv, NEW k \in Threads, NEW t, Is(k, t), Fits(t, k)',
           used' \in Nat, used <= used',
           \A n \in 1 .. used : node'[n].name = node[n].name /\ node'[n].pass = node[n].pass,
           \A j \in Threads : j # k /\ thr[j].pc = "link" => thr[j].n \notin Listed'
    PROVE  (\A j \in Threads : ThreadRight(j))'
<1>1. used \in Nat /\ 1 .. used \subseteq 1 .. used'
  BY MemoryIs
<1>2. ASSUME NEW j \in Threads PROVE ThreadRight(j)'
  <2>1. CASE j = k
    BY <2>1 DEF Is, ThreadRight
  <2>2. CASE j # k
    <3>1. thr'[j] = thr[j] /\ ThreadRight(j)
      BY <2>2 DEF Is, TypeInv
    <3>2. \A i \in Threads : i # k => thr'[i] = thr[i]
      BY DEF Is
    <3>3. thr[j].pc = "link" /\ thr'[k].pc = "link" => thr'[k].n # thr[j].n
      BY <2>2, <3>1 DEF Is, Fits
    <3>4. thr[j].pc = "link" =>
             /\ thr[j].n \notin Listed'
             /\ \A i \in Threads : thr'[i].pc = "link" /\ i # j => thr'[i].n # thr[j].n
      BY <2>2, <3>1, <3>2, <3>3 DEF ThreadRight, Fits
    <3>5. /\ thr[j].pc \in Logins \cup SignUps =>
                 thr[j].n \in 1 .. used' /\ node'[thr[j].n].name = thr[j].name
          /\ thr[j].pc \in SignUps => node'[thr[j].n].pass = thr[j].pass
      BY <1>1, <3>1 DEF ThreadRight, Fits
    <3> QED BY <3>1, <3>4, <3>5 DEF ThreadRight, Fits
  <2> QED BY <2>1, <2>2
<1> QED BY <1>2

Asks == {"ask", "check", "load", "store"}

LEMMA TriesKept ==
    ASSUME TypeInv, NEW k \in Threads, NEW t, Is(k, t), node' \in [Cells -> Account],
           \A n \in Cells : node'[n].wrongPassCount \in {0, node[n].wrongPassCount},
           connects' = connects, requests' = requests,
           t.pc \in Asks => thr[k].pc \in Asks,
           t.pc = "store" => t.v + Cardinality(Counting) <= connects + requests
    PROVE  TriesRight'
<1>1. connects \in Nat /\ requests \in Nat /\ TriesRight /\ thr \in [Threads -> Thread]
  BY DEF TypeInv, RestRight, TypeOK
<1>2. PICK c \in Nat, d \in Nat : c = Cardinality(Counting) /\ d = Cardinality(Counting)' /\ d <= c
  BY CountingIs, TypeInv DEF Asks, TypeInv
<1>3. ASSUME NEW n \in Cells
      PROVE  node'[n].wrongPassCount + d <= connects + requests
  <2>1. PICK w \in Nat, v \in Nat : w = node[n].wrongPassCount /\ v = node'[n].wrongPassCount
    BY DEF TypeInv, TypeOK, Account
  <2>2. w + c <= connects + requests /\ v \in {0, w}
    BY <1>1, <1>2, <2>1 DEF TriesRight
  <2> QED BY <1>1, <1>2, <2>1, <2>2
<1>4. ASSUME NEW j \in Threads, thr'[j].pc = "store"
      PROVE  thr'[j].v + d <= connects + requests
  <2>0. PICK v : v = thr'[j].v
    OBVIOUS
  <2>1. v \in Nat
    BY <2>0 DEF Is, Thread
  <2>2. v + c <= connects + requests
    <3>1. CASE j = k
      BY <1>2, <1>4, <2>0, <3>1 DEF Is
    <3>2. CASE j # k
      BY <1>1, <1>2, <1>4, <2>0, <3>2 DEF Is, TriesRight
    <3> QED BY <3>1, <3>2
  <2> QED BY <1>1, <1>2, <2>0, <2>1, <2>2
<1> QED BY <1>2, <1>3, <1>4 DEF TriesRight

Events == {"torn", "skipped", "twice", "left", "stale", "append", "name", "null"}

\* A step of one thread that leaves the list and every name alone.
LEMMA StepType ==
    ASSUME TypeInv, NEW k \in Threads, NEW t, Is(k, t), up, up' = up,
           UNCHANGED <<list, used>>, rear' \in 1 .. used,
           connects' \in Nat, requests' \in Nat, starts' \in Nat,
           FileOK(file'), alive' \in [Slots -> BOOLEAN],
           account' \in [Slots -> Cells \cup {Nil}],
           \A j \in Slots : account'[j] # Nil => account'[j] <= used,
           node' \in [Cells -> Account],
           \A n \in Cells : node'[n].name = node[n].name /\ node'[n].pass = node[n].pass,
           past' \subseteq Events, wrongs' \in [Cells -> Nat], made' \subseteq Names \X Passwords,
           Fits(t, k), TriesRight'
    PROVE  TypeInv'
<1>0. TypeOK /\ ListRight /\ RestRight
  BY DEF TypeInv
<1>1. ListRight'
  BY <1>0, MemoryIs DEF ListRight
<1>2. RestRight'
  BY <1>0 DEF RestRight
<1>3. (\A j \in Threads : ThreadRight(j))'
  <2>1. used \in Nat /\ 1 .. used \subseteq Cells /\ Listed' = Listed
    BY MemoryIs DEF Listed
  <2>2. Fits(t, k)'
    <3>1. \A j \in Threads : j # k => thr'[j] = thr[j]
      BY DEF Is
    <3>2. t.pc = "link" => /\ t.n \notin Listed'
                           /\ \A j \in Threads : thr'[j].pc = "link" /\ j # k => thr'[j].n # t.n
      BY <2>1, <3>1 DEF Fits
    <3> QED BY <2>1, <3>2 DEF Fits
  <2>3. \A j \in Threads : j # k /\ thr[j].pc = "link" => thr[j].n \notin Listed'
    BY <2>1 DEF TypeInv, ThreadRight, Fits
  <2>4. used' \in Nat /\ used <= used'
    BY <2>1
  <2>5. \A n \in 1 .. used : node'[n].name = node[n].name /\ node'[n].pass = node[n].pass
    BY <2>1
  <2> QED BY <2>2, <2>3, <2>4, <2>5, ThreadsKept
<1>4. TypeOK'
  <2>1. thr' \in [Threads -> Thread]
    BY DEF Is
  <2>2. ASSUME NEW n \in Cells PROVE node'[n].wrongPassCount <= connects' + requests'
    <3>1. PICK d \in Nat, w \in Nat : d = Cardinality(Counting)' /\ w = node'[n].wrongPassCount
      BY <1>0, CountingIs DEF Account
    <3>2. w + d <= connects' + requests'
      BY <3>1 DEF TriesRight
    <3> QED BY <3>1, <3>2
  <2>3. file' \in Seq(Line)
    BY DEF FileOK
  <2>4. rear' \in Cells
    BY MemoryIs
  <2> QED BY <1>0, <2>1, <2>2, <2>3, <2>4 DEF TypeOK, Events
<1> QED BY <1>1, <1>2, <1>3, <1>4 DEF TypeInv

\* And that counts nothing.
LEMMA PlainType ==
    ASSUME TypeInv, NEW k \in Threads, NEW t, Is(k, t), up, up' = up,
           UNCHANGED <<list, used, connects, requests, starts>>, rear' \in 1 .. used,
           FileOK(file'), alive' \in [Slots -> BOOLEAN],
           account' \in [Slots -> Cells \cup {Nil}],
           \A j \in Slots : account'[j] # Nil => account'[j] <= used,
           node' \in [Cells -> Account],
           \A n \in Cells : /\ node'[n].name = node[n].name /\ node'[n].pass = node[n].pass
                            /\ node'[n].wrongPassCount = node[n].wrongPassCount,
           past' \subseteq Events, wrongs' \in [Cells -> Nat], made' \subseteq Names \X Passwords,
           Fits(t, k),
           t.pc \in Asks => thr[k].pc \in Asks,
           t.pc = "store" => t.v + Cardinality(Counting) <= connects + requests
    PROVE  TypeInv'
<1>1. TriesRight'
  BY TriesKept
<1>2. connects' \in Nat /\ requests' \in Nat /\ starts' \in Nat
  BY DEF TypeInv, RestRight
<1> QED BY <1>1, <1>2, StepType

\* What a step leaves alone: the types of it.
LEMMA TypesAre ==
    ASSUME TypeInv
    PROVE  /\ FileOK(file) /\ alive \in [Slots -> BOOLEAN] /\ account \in [Slots -> Cells \cup {Nil}]
           /\ \A j \in Slots : account[j] # Nil => account[j] <= used
           /\ node \in [Cells -> Account] /\ past \subseteq Events /\ wrongs \in [Cells -> Nat]
           /\ made \subseteq Names \X Passwords /\ rear \in 1 .. used
           /\ thr \in [Threads -> Thread] /\ TypeOK
           /\ \A k \in Threads : ThreadRight(k)
BY MemoryIs DEF TypeInv, TypeOK, RestRight, ListRight, Events

LEMMA LookupType ==
    ASSUME TypeInv, NEW name, Lookup(name) # Nil
    PROVE  Lookup(name) \in 1 .. used /\ node[Lookup(name)].name = name /\ Lookup(name) \in Listed
<1>1. list \in Seq(Cells) /\ Lookup(name) = LookIn(node, list, name)
  BY LookupIsLookIn DEF TypeInv, TypeOK
<1>2. PICK i \in DOMAIN list : Lookup(name) = list[i] /\ node[list[i]].name = name
  BY <1>1, LookInIs
<1>3. list[i] \in Listed
  BY DEF Listed
<1> QED BY <1>2, <1>3, MemoryIs

\* The thread ends, or goes on where it needs no account.
LEMMA EndFits ==
    ASSUME NEW k \in Threads
    PROVE  Fits(NoThread, k) /\ NoThread.pc \notin Asks /\ NoThread.pc # "store"
BY NoThreadType DEF Fits, Logins, SignUps, Asks

LEMMA OnFits ==
    ASSUME TypeInv, NEW k \in Threads, NEW t, t.n = thr[k].n, t.for = thr[k].for,
           t.name = thr[k].name, t.pass = thr[k].pass, t.lines = thr[k].lines,
           \/ thr[k].pc \in Logins /\ t.pc \in Logins
           \/ thr[k].pc \in SignUps /\ t.pc \in {"rear", "walk", "told"}
           \/ thr[k].pc = "add" /\ t.pc = "told"
    PROVE  Fits(t, k)
BY TypesAre DEF Fits, ThreadRight, Logins, SignUps

LEMMA TypeAsk == ASSUME TypeInv, NEW k \in Threads, Ask(k) PROVE TypeInv'
<1>1. up /\ thr[k].pc = "ask" /\ TypeOK
  BY DEF Ask, At, TypeInv
<1>2. \E t : Is(k, t) /\ Fits(t, k) /\ t.pc \in {"check", "add", "none"}
  <2>1. CASE Ends(k)
    BY <1>1, <2>1, EndsIs, EndFits, NoThreadType
  <2>2. CASE Goes(k, "check") /\ thr[k].for = "login"
    <3>1. PICK t : Is(k, t) /\ t.pc = "check" /\ t.for = "login"
      BY <1>1, <2>2, GoesIs DEF Pcs, On
    <3> QED BY <3>1 DEF Fits, Logins, SignUps
  <2>3. CASE Goes(k, "add") /\ thr[k].for = "signup"
    <3>1. PICK t : Is(k, t) /\ t.pc = "add" /\ t.for = "signup"
      BY <1>1, <2>3, GoesIs DEF Pcs, On
    <3> QED BY <3>1 DEF Fits, Logins, SignUps
  <2>4. thr[k].for \in {"login", "signup"}
    BY <1>1, TypesAre DEF ThreadRight, Fits
  <2> QED BY <2>1, <2>2, <2>3, <2>4 DEF Ask
<1>3. PICK t : Is(k, t) /\ Fits(t, k) /\ t.pc \in {"check", "add", "none"}
  BY <1>2
<1>4. t.pc \in Asks => thr[k].pc \in Asks
  BY <1>1 DEF Asks
<1>5. UNCHANGED <<up, file, listVars, alive, account, boundVars, history>>
  BY DEF Ask
<1> QED BY <1>1, <1>3, <1>4, <1>5, TypesAre, PlainType

\* What dies with the server.
LEMMA TypeDies ==
    ASSUME TypeInv, NEW why, why \subseteq Events, up, Dies(why)
    PROVE  TypeInv'
<1>1. /\ up' = FALSE /\ past' = past \cup why
      /\ alive' = [k \in Slots |-> FALSE] /\ account' = [k \in Slots |-> Nil]
      /\ thr' = [k \in Threads |-> NoThread]
      /\ UNCHANGED <<file, listVars, boundVars, wrongs, made>>
  BY DEF Dies
<1>2. TypeOK /\ ListRight /\ RestRight /\ TriesRight
  BY DEF TypeInv
<1>3. TypeOK'
  BY <1>1, <1>2, NoThreadType DEF TypeOK, Events
<1>4. ListRight'
  BY <1>1, <1>2 DEF ListRight
<1>5. RestRight'
  BY <1>1, <1>2 DEF RestRight
<1>6. \A k \in Threads : ThreadRight(k)'
  <2>1. ASSUME NEW k \in Threads PROVE ThreadRight(k)'
    <3>1. thr'[k] = NoThread
      BY <1>1
    <3> QED BY <3>1, NoThreadType DEF ThreadRight, Fits, Logins, SignUps
  <2> QED BY <2>1
<1>7. TriesRight'
  <2>1. Counting' = {}
    BY <1>1, NoThreadType DEF Counting
  <2>2. PICK d \in Nat : d = Cardinality(Counting)' /\ d = 0
    BY <2>1, FS_EmptySet
  <2>3. ASSUME NEW n \in Cells PROVE node'[n].wrongPassCount + d <= connects' + requests'
    <3>1. PICK w \in Nat : w = node[n].wrongPassCount /\ w <= connects + requests
      BY <1>2 DEF TypeOK, Account
    <3> QED BY <1>1, <2>2, <3>1
  <2>4. \A k \in Threads : thr'[k].pc # "store"
    BY <1>1, NoThreadType
  <2> QED BY <2>2, <2>3, <2>4 DEF TriesRight
<1> QED BY <1>3, <1>4, <1>5, <1>6, <1>7 DEF TypeInv

LEMMA TypeCheck == ASSUME TypeInv, NEW k \in Threads, Check(k) PROVE TypeInv'
<1>1. up /\ thr[k].pc = "check" /\ TypeOK /\ thr \in [Threads -> Thread]
  BY DEF Check, At, TypeInv, TypeOK
<1>2. PICK n : n = Lookup(thr[k].name)
  OBVIOUS
<1>3. CASE n = Nil
  <2>1. Dies({"null"})
    BY <1>2, <1>3 DEF Check
  <2> QED BY <1>1, <2>1, TypeDies DEF Events
<1>4. CASE n # Nil
  <2>1. n \in 1 .. used /\ node[n].name = thr[k].name
    BY <1>2, <1>4, LookupType
  <2>2. \E t : Is(k, t) /\ Fits(t, k) /\ t.pc \in {"none", "enter", "load"}
    <3>1. CASE node[n].status # "ACTIVE"
      BY <1>1, <1>2, <1>4, <3>1, EndsIs, EndFits, NoThreadType DEF Check
    <3>2. CASE node[n].status = "ACTIVE"
      <4>1. PICK pc \in {"enter", "load"} : pc = IF node[n].pass = thr[k].pass THEN "enter" ELSE "load"
        OBVIOUS
      <4>2. PICK t : t = [thr[k] EXCEPT !.n = n, !.pc = pc]
        OBVIOUS
      <4>3. thr' = [thr EXCEPT ![k] = t]
        BY <1>1, <1>2, <1>4, <3>2, <4>1, <4>2 DEF Check
      <4>4. /\ t \in Thread /\ t.n = n /\ t.pc = pc /\ t.name = thr[k].name /\ t.for = thr[k].for
        BY <1>1, <2>1, <4>1, <4>2, MemoryIs DEF Thread
      <4>5. Is(k, t)
        BY <1>1, <4>3, <4>4 DEF Is
      <4>6. Fits(t, k)
        BY <1>1, <2>1, <4>1, <4>4, TypesAre DEF Fits, ThreadRight, Logins, SignUps
      <4> QED BY <4>1, <4>4, <4>5, <4>6
    <3> QED BY <3>1, <3>2
  <2>3. PICK t : Is(k, t) /\ Fits(t, k) /\ t.pc \in {"none", "enter", "load"}
    BY <2>2
  <2>4. t.pc \in Asks => thr[k].pc \in Asks
    BY <1>1 DEF Asks
  <2>5. UNCHANGED <<up, file, listVars, alive, account, boundVars, history>>
    BY <1>2, <1>4 DEF Check
  <2> QED BY <1>1, <2>3, <2>4, <2>5, TypesAre, PlainType
<1> QED BY <1>3, <1>4

LEMMA TypeLoad == ASSUME TypeInv, NEW k \in Threads, LoadCount(k) PROVE TypeInv'
<1>1. up /\ thr[k].pc = "load" /\ TypeOK /\ thr \in [Threads -> Thread]
  BY DEF LoadCount, At, TypeInv, TypeOK
<1>2. PICK v, t : v = node[thr[k].n].wrongPassCount /\ t = [thr[k] EXCEPT !.pc = "store", !.v = v]
  OBVIOUS
<1>3. thr' = [thr EXCEPT ![k] = t]
  BY <1>1, <1>2 DEF LoadCount
<1>4. thr[k].n \in Cells
  BY <1>1, TypesAre, MemoryIs DEF ThreadRight, Fits, Logins
<1>5. v \in Nat
  BY <1>2, <1>4, TypesAre DEF Account
<1>6. /\ t \in Thread /\ t.pc = "store" /\ t.v = v /\ t.n = thr[k].n /\ t.for = thr[k].for
      /\ t.name = thr[k].name /\ t.pass = thr[k].pass /\ t.lines = thr[k].lines
  BY <1>1, <1>2, <1>5 DEF Thread
<1>7. Is(k, t)
  BY <1>1, <1>3, <1>6 DEF Is
<1>8. Fits(t, k)
  BY <1>1, <1>6, OnFits DEF Logins
<1>9. t.pc \in Asks => thr[k].pc \in Asks
  BY <1>1 DEF Asks
<1>10. t.v + Cardinality(Counting) <= connects + requests
  BY <1>2, <1>4, <1>6 DEF TypeInv, TriesRight
<1>11. UNCHANGED <<up, file, listVars, alive, account, boundVars, history>>
  BY DEF LoadCount
<1> QED BY <1>1, <1>7, <1>8, <1>9, <1>10, <1>11, TypesAre, PlainType

LEMMA StoreIs ==
    ASSUME TypeInv, NEW k \in Threads, StoreCount(k)
    PROVE  /\ up /\ thr[k].pc = "store" /\ thr[k].n \in Cells /\ thr[k].n \in 1 .. used
           /\ On(k, "compare")
           /\ node' \in [Cells -> Account]
           /\ node'[thr[k].n].wrongPassCount = thr[k].v + 1
           /\ \A n \in Cells : /\ node'[n].name = node[n].name /\ node'[n].pass = node[n].pass
                               /\ node'[n].status = node[n].status
                               /\ node'[n].isLogined = node[n].isLogined
                               /\ node'[n].loginedClientConnfd = node[n].loginedClientConnfd
           /\ \A n \in Cells : n # thr[k].n => node'[n] = node[n]
           /\ wrongs' \in [Cells -> Nat] /\ wrongs'[thr[k].n] = wrongs[thr[k].n] + 1
           /\ \A n \in Cells : n # thr[k].n => wrongs'[n] = wrongs[n]
           /\ past' \in {past, past \cup {"torn"}}
           /\ node[thr[k].n].wrongPassCount # thr[k].v => "torn" \in past'
           /\ UNCHANGED <<up, file, list, rear, used, alive, account, boundVars, made>>
<1>1. up /\ thr[k].pc = "store" /\ TypeOK /\ thr[k] \in Thread
  BY DEF StoreCount, At, TypeInv, TypeOK
<1>2. thr[k].n \in 1 .. used /\ thr[k].n \in Cells
  BY <1>1, TypesAre, MemoryIs DEF ThreadRight, Fits, Logins
<1>3. PICK n \in Cells, v \in Nat : n = thr[k].n /\ v = thr[k].v
  BY <1>1, <1>2 DEF Thread
<1>4. PICK w \in Nat : w = v + 1
  OBVIOUS
<1>5. node' = [node EXCEPT ![n].wrongPassCount = w]
  BY <1>3, <1>4 DEF StoreCount, OneMore
<1>6. node \in [Cells -> Account] /\ wrongs \in [Cells -> Nat]
  BY TypesAre
<1>o. PICK old \in Account : old = node[n]
  BY <1>6
<1>7. PICK new : new = [old EXCEPT !.wrongPassCount = w]
  OBVIOUS
<1>8. /\ new \in Account /\ new.wrongPassCount = w /\ new.name = old.name /\ new.pass = old.pass
      /\ new.status = old.status /\ new.isLogined = old.isLogined
      /\ new.loginedClientConnfd = old.loginedClientConnfd
  BY <1>7 DEF Account
<1>9. node' = [node EXCEPT ![n] = new]
  BY <1>5, <1>7, <1>o
<1>10. node' \in [Cells -> Account] /\ node'[n] = new /\ \A m \in Cells : m # n => node'[m] = node[m]
  BY <1>6, <1>8, <1>9
<1>11. On(k, "compare")
  BY <1>1, GoesIs DEF StoreCount, Pcs
<1>12. wrongs' = [wrongs EXCEPT ![n] = wrongs[n] + 1]
  BY <1>3 DEF StoreCount
<1>13. /\ wrongs' \in [Cells -> Nat] /\ wrongs'[n] = wrongs[n] + 1
       /\ \A m \in Cells : m # n => wrongs'[m] = wrongs[m]
  BY <1>6, <1>12
<1>14. /\ past' \in {past, past \cup {"torn"}}
       /\ node[n].wrongPassCount # v => "torn" \in past'
  BY <1>3 DEF StoreCount
<1>15. UNCHANGED <<up, file, list, rear, used, alive, account, boundVars, made>>
  BY DEF StoreCount
<1>16. /\ node'[n].wrongPassCount = v + 1
       /\ \A m \in Cells : /\ node'[m].name = node[m].name /\ node'[m].pass = node[m].pass
                           /\ node'[m].status = node[m].status
                           /\ node'[m].isLogined = node[m].isLogined
                           /\ node'[m].loginedClientConnfd = node[m].loginedClientConnfd
  BY <1>4, <1>o, <1>8, <1>10
<1> QED BY <1>1, <1>2, <1>3, <1>10, <1>11, <1>13, <1>14, <1>15, <1>16

LEMMA TypeStore == ASSUME TypeInv, NEW k \in Threads, StoreCount(k) PROVE TypeInv'
<1>1. PICK t : /\ Is(k, t) /\ t.pc = "compare" /\ t.for = thr[k].for /\ t.name = thr[k].name
               /\ t.pass = thr[k].pass /\ t.n = thr[k].n /\ t.lines = thr[k].lines
  BY StoreIs DEF On
<1>2. Fits(t, k)
  BY <1>1, StoreIs, OnFits DEF Logins
<1>3. TypeOK /\ TriesRight /\ connects \in Nat /\ requests \in Nat /\ thr \in [Threads -> Thread]
  BY DEF TypeInv, RestRight, TypeOK
<1>4. thr[k].pc = "store"
  BY StoreIs
<1>5. PICK c \in Nat, d \in Nat : c = Cardinality(Counting) /\ d = Cardinality(Counting)' /\ d = c - 1
  BY <1>1, <1>3, <1>4, CountingIs
<1>6. TriesRight'
  <2>1. ASSUME NEW n \in Cells PROVE node'[n].wrongPassCount + d <= connects' + requests'
    <3>1. PICK w \in Nat, v \in Nat : w = node[n].wrongPassCount /\ v = thr[k].v
      BY <1>3, TypesAre DEF Account, Thread
    <3>2. w + c <= connects + requests /\ v + c <= connects + requests
      BY <1>3, <1>4, <1>5, <3>1 DEF TriesRight
    <3>3. node'[n].wrongPassCount = w \/ node'[n].wrongPassCount = v + 1
      BY <3>1, StoreIs
    <3>4. connects' = connects /\ requests' = requests
      BY StoreIs
    <3> QED BY <1>3, <1>5, <3>1, <3>2, <3>3, <3>4
  <2>2. ASSUME NEW j \in Threads, thr'[j].pc = "store"
        PROVE  thr'[j].v + d <= connects' + requests'
    <3>1. j # k /\ thr'[j] = thr[j]
      BY <1>1, <2>2 DEF Is
    <3>2. PICK v \in Nat : v = thr[j].v
      BY <1>3 DEF Thread
    <3>3. v + c <= connects + requests
      BY <1>3, <1>5, <2>2, <3>1, <3>2 DEF TriesRight
    <3>4. connects' = connects /\ requests' = requests
      BY StoreIs
    <3> QED BY <1>3, <1>5, <3>1, <3>2, <3>3, <3>4
  <2> QED BY <1>5, <2>1, <2>2 DEF TriesRight
<1>7. past' \subseteq Events
  BY StoreIs, TypesAre DEF Events
<1>8. connects' \in Nat /\ requests' \in Nat /\ starts' \in Nat
  BY StoreIs DEF TypeInv, RestRight
<1>9. /\ up /\ up' = up /\ UNCHANGED <<list, used>> /\ rear' \in 1 .. used
      /\ FileOK(file') /\ alive' \in [Slots -> BOOLEAN] /\ account' \in [Slots -> Cells \cup {Nil}]
      /\ \A j \in Slots : account'[j] # Nil => account'[j] <= used
      /\ made' \subseteq Names \X Passwords
  BY StoreIs, TypesAre
<1>10. /\ node' \in [Cells -> Account] /\ wrongs' \in [Cells -> Nat]
       /\ \A n \in Cells : node'[n].name = node[n].name /\ node'[n].pass = node[n].pass
  BY StoreIs
<1> QED BY <1>1, <1>2, <1>6, <1>7, <1>8, <1>9, <1>10, StepType

LEMMA CompareIs ==
    ASSUME TypeInv, NEW k \in Threads, Compare(k)
    PROVE  /\ up /\ thr[k].pc = "compare" /\ thr[k].n \in Cells /\ thr[k].n \in 1 .. used
           /\ Is(k, NoThread)
           /\ node' \in [Cells -> Account]
           /\ \A n \in Cells : /\ node'[n].name = node[n].name /\ node'[n].pass = node[n].pass
                               /\ node'[n].wrongPassCount = node[n].wrongPassCount
                               /\ node'[n].isLogined = node[n].isLogined
                               /\ node'[n].loginedClientConnfd = node[n].loginedClientConnfd
           /\ \A n \in Cells : n # thr[k].n => node'[n] = node[n]
           /\ node'[thr[k].n].status =
                 IF node[thr[k].n].wrongPassCount = 3 THEN "BLOCKED" ELSE node[thr[k].n].status
           /\ past' \in {past, past \cup {"skipped"}}
           /\ node[thr[k].n].wrongPassCount # thr[k].v + 1 => "skipped" \in past'
           /\ UNCHANGED <<up, file, list, rear, used, alive, account, boundVars, wrongs, made>>
<1>1. up /\ thr[k].pc = "compare" /\ TypeOK /\ Ends(k) /\ node \in [Cells -> Account]
  BY DEF Compare, At, TypeInv, TypeOK
<1>2. thr[k].n \in 1 .. used /\ thr[k].n \in Cells
  BY <1>1, TypesAre, MemoryIs DEF ThreadRight, Fits, Logins
<1>3. PICK n \in Cells : n = thr[k].n
  BY <1>2
<1>4. PICK old \in Account : old = node[n]
  BY <1>1
<1>5. PICK new : new = [old EXCEPT !.status = "BLOCKED"]
  OBVIOUS
<1>6. /\ new \in Account /\ new.status = "BLOCKED" /\ new.name = old.name /\ new.pass = old.pass
      /\ new.wrongPassCount = old.wrongPassCount /\ new.isLogined = old.isLogined
      /\ new.loginedClientConnfd = old.loginedClientConnfd
  BY <1>5 DEF Account, Status
<1>7. node' = IF old.wrongPassCount = 3 THEN [node EXCEPT ![n] = new] ELSE node
  BY <1>3, <1>4, <1>5 DEF Compare, TooMany, MAX_WRONG_PASS
<1>8. /\ node' \in [Cells -> Account] /\ \A m \in Cells : m # n => node'[m] = node[m]
      /\ node'[n] = IF old.wrongPassCount = 3 THEN new ELSE old
  BY <1>1, <1>4, <1>6, <1>7
<1>9. /\ past' \in {past, past \cup {"skipped"}}
      /\ node[n].wrongPassCount # thr[k].v + 1 => "skipped" \in past'
  BY <1>3 DEF Compare, OneMore
<1>10. UNCHANGED <<up, file, list, rear, used, alive, account, boundVars, wrongs, made>>
  BY DEF Compare
<1>11. \A m \in Cells : /\ node'[m].name = node[m].name /\ node'[m].pass = node[m].pass
                        /\ node'[m].wrongPassCount = node[m].wrongPassCount
                        /\ node'[m].isLogined = node[m].isLogined
                        /\ node'[m].loginedClientConnfd = node[m].loginedClientConnfd
  BY <1>4, <1>6, <1>8
<1>12. node'[n].status = IF node[n].wrongPassCount = 3 THEN "BLOCKED" ELSE node[n].status
  BY <1>4, <1>6, <1>8
<1>13. Is(k, NoThread)
  BY <1>1, EndsIs
<1> QED BY <1>1, <1>2, <1>3, <1>8, <1>9, <1>10, <1>11, <1>12, <1>13

LEMMA TypeCompare == ASSUME TypeInv, NEW k \in Threads, Compare(k) PROVE TypeInv'
<1>1. past' \subseteq Events
  BY CompareIs, TypesAre DEF Events
<1>2. /\ up /\ up' = up /\ UNCHANGED <<list, used, connects, requests, starts>> /\ rear' \in 1 .. used
      /\ FileOK(file') /\ alive' \in [Slots -> BOOLEAN] /\ account' \in [Slots -> Cells \cup {Nil}]
      /\ \A j \in Slots : account'[j] # Nil => account'[j] <= used
      /\ made' \subseteq Names \X Passwords /\ wrongs' \in [Cells -> Nat]
  BY CompareIs, TypesAre
<1>3. /\ node' \in [Cells -> Account] /\ Is(k, NoThread)
      /\ \A n \in Cells : /\ node'[n].name = node[n].name /\ node'[n].pass = node[n].pass
                          /\ node'[n].wrongPassCount = node[n].wrongPassCount
  BY CompareIs
<1> QED BY <1>1, <1>2, <1>3, EndFits, PlainType

LEMMA EnterIs ==
    ASSUME TypeInv, NEW k \in Threads, Enter(k)
    PROVE  /\ up /\ thr[k].pc = "enter" /\ thr[k].n \in Cells /\ thr[k].n \in 1 .. used
           /\ thr[k].for = "connect" => On(k, "tell")
           /\ thr[k].for # "connect" => On(k, "set")
           /\ node' \in [Cells -> Account]
           /\ \A n \in Cells : /\ node'[n].name = node[n].name /\ node'[n].pass = node[n].pass
                               /\ node'[n].status = node[n].status
                               /\ node'[n].wrongPassCount = node[n].wrongPassCount
           /\ \A n \in Cells : n # thr[k].n => node'[n] = node[n]
           /\ node'[thr[k].n].isLogined = TRUE /\ node'[thr[k].n].loginedClientConnfd = SlotOf(k)
           /\ past' \in {past, past \cup {"twice"}}
           /\ node[thr[k].n].isLogined => "twice" \in past'
           /\ UNCHANGED <<up, file, list, rear, used, alive, account, boundVars, wrongs, made>>
<1>1. up /\ thr[k].pc = "enter" /\ TypeOK /\ node \in [Cells -> Account]
  BY DEF Enter, At, TypeInv, TypeOK
<1>2. thr[k].n \in 1 .. used /\ thr[k].n \in Cells
  BY <1>1, TypesAre, MemoryIs DEF ThreadRight, Fits, Logins
<1>3. PICK n \in Cells : n = thr[k].n
  BY <1>2
<1>4. PICK old \in Account : old = node[n]
  BY <1>1
<1>5. PICK new : new = [old EXCEPT !.isLogined = TRUE, !.loginedClientConnfd = SlotOf(k)]
  OBVIOUS
<1>6. /\ new \in Account /\ new.status = old.status /\ new.name = old.name /\ new.pass = old.pass
      /\ new.wrongPassCount = old.wrongPassCount /\ new.isLogined = TRUE
      /\ new.loginedClientConnfd = SlotOf(k)
  BY <1>5, ThreadsAre DEF Account
<1>7. node' = [node EXCEPT ![n] = new]
  BY <1>1, <1>3, <1>4, <1>5 DEF Enter
<1>8. /\ node' \in [Cells -> Account] /\ \A m \in Cells : m # n => node'[m] = node[m]
      /\ node'[n] = new
  BY <1>1, <1>6, <1>7
<1>9. /\ past' \in {past, past \cup {"twice"}}
      /\ node[n].isLogined => "twice" \in past'
  BY <1>3 DEF Enter
<1>10. UNCHANGED <<up, file, list, rear, used, alive, account, boundVars, wrongs, made>>
  BY DEF Enter
<1>11. \A m \in Cells : /\ node'[m].name = node[m].name /\ node'[m].pass = node[m].pass
                        /\ node'[m].wrongPassCount = node[m].wrongPassCount
                        /\ node'[m].status = node[m].status
  BY <1>4, <1>6, <1>8
<1>12. CASE thr[k].for = "connect"
  <2>1. Goes(k, "tell")
    BY <1>12 DEF Enter
  <2>2. On(k, "tell")
    BY <1>1, <2>1, GoesIs DEF Pcs
  <2> QED BY <1>1, <1>2, <1>3, <1>6, <1>8, <1>9, <1>10, <1>11, <1>12, <2>2
<1>13. CASE thr[k].for # "connect"
  <2>1. Goes(k, "set")
    BY <1>13 DEF Enter
  <2>2. On(k, "set")
    BY <1>1, <2>1, GoesIs DEF Pcs
  <2> QED BY <1>1, <1>2, <1>3, <1>6, <1>8, <1>9, <1>10, <1>11, <1>13, <2>2
<1> QED BY <1>12, <1>13

LEMMA TypeEnter == ASSUME TypeInv, NEW k \in Threads, Enter(k) PROVE TypeInv'
<1>0. past' \in {past, past \cup {"twice"}}
  BY EnterIs
<1>1. past' \subseteq Events
  BY <1>0, TypesAre DEF Events
<1>2. /\ up /\ up' = up /\ UNCHANGED <<list, used, connects, requests, starts>> /\ rear' \in 1 .. used
      /\ FileOK(file') /\ alive' \in [Slots -> BOOLEAN] /\ account' \in [Slots -> Cells \cup {Nil}]
      /\ \A j \in Slots : account'[j] # Nil => account'[j] <= used
      /\ made' \subseteq Names \X Passwords /\ wrongs' \in [Cells -> Nat]
  BY EnterIs, TypesAre
<1>3. /\ node' \in [Cells -> Account]
      /\ \A n \in Cells : /\ node'[n].name = node[n].name /\ node'[n].pass = node[n].pass
                          /\ node'[n].wrongPassCount = node[n].wrongPassCount
  BY EnterIs
<1>4. On(k, "tell") \/ On(k, "set")
  BY EnterIs
<1>5. PICK t : /\ Is(k, t) /\ t.pc \in {"tell", "set"} /\ t.for = thr[k].for /\ t.name = thr[k].name
               /\ t.pass = thr[k].pass /\ t.n = thr[k].n /\ t.lines = thr[k].lines
  BY <1>4 DEF On
<1>6. Fits(t, k)
  BY <1>5, EnterIs, OnFits DEF Logins
<1>7. t.pc \notin Asks /\ t.pc # "store"
  BY <1>5 DEF Asks
<1> QED BY <1>1, <1>2, <1>3, <1>5, <1>6, <1>7, PlainType

\* Signing out.
LEMMA SignedOutIs ==
    ASSUME TypeInv, NEW s \in Slots
    PROVE  /\ SignedOut(s) \in [Cells -> Account]
           /\ \A n \in Cells : /\ SignedOut(s)[n].name = node[n].name
                               /\ SignedOut(s)[n].pass = node[n].pass
                               /\ SignedOut(s)[n].status = node[n].status
                               /\ SignedOut(s)[n].wrongPassCount = node[n].wrongPassCount
                               /\ SignedOut(s)[n].loginedClientConnfd = node[n].loginedClientConnfd
                               /\ SignedOut(s)[n].isLogined = (node[n].isLogined /\ account[s] # n)
<1>0. node \in [Cells -> Account] /\ account[s] \in Cells \cup {Nil}
  BY TypesAre
<1>1. CASE account[s] = Nil
  <2>1. \A n \in Cells : account[s] # n
    BY <1>1, NilIsNoCell
  <2>2. \A n \in Cells : node[n].isLogined \in BOOLEAN
    BY <1>0 DEF Account
  <2> QED BY <1>0, <1>1, <2>1, <2>2 DEF SignedOut
<1>2. CASE account[s] # Nil
  <2>1. PICK n \in Cells : n = account[s]
    BY <1>0, <1>2
  <2>2. PICK old \in Account : old = node[n]
    BY <1>0
  <2>3. PICK new : new = [old EXCEPT !.isLogined = FALSE]
    OBVIOUS
  <2>4. /\ new \in Account /\ new.isLogined = FALSE /\ new.name = old.name /\ new.pass = old.pass
        /\ new.status = old.status /\ new.wrongPassCount = old.wrongPassCount
        /\ new.loginedClientConnfd = old.loginedClientConnfd
    BY <2>3 DEF Account
  <2>5. SignedOut(s) = [node EXCEPT ![n] = new]
    BY <1>2, <2>1, <2>2, <2>3 DEF SignedOut
  <2>6. /\ SignedOut(s) \in [Cells -> Account] /\ SignedOut(s)[n] = new
        /\ \A m \in Cells : m # n => SignedOut(s)[m] = node[m]
    BY <1>0, <2>4, <2>5
  <2>7. \A m \in Cells : node[m].isLogined \in BOOLEAN
    BY <1>0 DEF Account
  <2> QED BY <2>1, <2>2, <2>4, <2>6, <2>7
<1> QED BY <1>1, <1>2

\* Nothing but who has an account, and what was said of it.
LEMMA TypeHangUp == ASSUME TypeInv, NEW s \in Slots, HangUp(s) PROVE TypeInv'
<1>1. /\ up /\ node' = SignedOut(s) /\ account' = [account EXCEPT ![s] = Nil]
      /\ alive' = [alive EXCEPT ![s] = FALSE]
      /\ UNCHANGED <<up, file, list, rear, used, thr, boundVars, history>>
  BY DEF HangUp
<1>k. PICK k \in Threads : k = <<s, 1>>
  BY ThreadsAre
<1>2. PICK t : t = thr[k]
  OBVIOUS
<1>3. Is(k, t) /\ Fits(t, k)
  BY <1>1, <1>2, TypesAre DEF Is, ThreadRight
<1>4. t.pc = "store" => t.v + Cardinality(Counting) <= connects + requests
  BY <1>2 DEF TypeInv, TriesRight
<1>5. /\ account' \in [Slots -> Cells \cup {Nil}] /\ alive' \in [Slots -> BOOLEAN]
      /\ \A j \in Slots : account'[j] # Nil => account'[j] <= used
  BY <1>1, TypesAre
<1>6. /\ node' \in [Cells -> Account]
      /\ \A n \in Cells : /\ node'[n].name = node[n].name /\ node'[n].pass = node[n].pass
                          /\ node'[n].wrongPassCount = node[n].wrongPassCount
  BY <1>1, SignedOutIs
<1> QED BY <1>1, <1>2, <1>3, <1>4, <1>5, <1>6, TypesAre, PlainType

LEMMA TypeSetAccount == ASSUME TypeInv, NEW k \in Threads, SetAccount(k) PROVE TypeInv'
<1>1. up /\ thr[k].pc = "set" /\ TypeOK /\ thr \in [Threads -> Thread]
  BY DEF SetAccount, At, TypeInv, TypeOK
<1>2. PICK n : n = Lookup(thr[k].name)
  OBVIOUS
<1>3. CASE n = Nil
  <2>1. Dies({"null"})
    BY <1>2, <1>3 DEF SetAccount
  <2> QED BY <1>1, <2>1, TypeDies DEF Events
<1>4. CASE n # Nil
  <2>1. /\ account' = [account EXCEPT ![SlotOf(k)] = n]
        /\ past' \in {past, past \cup {"left"}}
        /\ Ends(k) \/ Goes(k, "tell")
        /\ UNCHANGED <<up, file, listVars, alive, boundVars, wrongs, made>>
    BY <1>2, <1>4 DEF SetAccount
  <2>2. n \in Cells /\ n <= used /\ SlotOf(k) \in Slots
    BY <1>2, <1>4, LookupType, MemoryIs, ThreadsAre
  <2>3. /\ account' \in [Slots -> Cells \cup {Nil}]
        /\ \A j \in Slots : account'[j] # Nil => account'[j] <= used
    BY <2>1, <2>2, TypesAre
  <2>4. \E t : Is(k, t) /\ Fits(t, k) /\ t.pc \in {"none", "tell"}
    <3>1. CASE Ends(k)
      BY <1>1, <3>1, EndsIs, EndFits, NoThreadType
    <3>2. CASE Goes(k, "tell")
      <4>1. PICK t : /\ Is(k, t) /\ t.pc = "tell" /\ t.for = thr[k].for /\ t.name = thr[k].name
                     /\ t.pass = thr[k].pass /\ t.n = thr[k].n /\ t.lines = thr[k].lines
        BY <1>1, <3>2, GoesIs DEF Pcs, On
      <4> QED BY <1>1, <4>1, OnFits DEF Logins
    <3> QED BY <2>1, <3>1, <3>2
  <2>5. PICK t : Is(k, t) /\ Fits(t, k) /\ t.pc \in {"none", "tell"}
    BY <2>4
  <2>6. t.pc \notin Asks /\ t.pc # "store"
    BY <2>5 DEF Asks
  <2>7. past' \subseteq Events
    BY <2>1, TypesAre DEF Events
  <2> QED BY <1>1, <2>1, <2>3, <2>5, <2>6, <2>7, TypesAre, PlainType
<1> QED BY <1>3, <1>4

LEMMA TypeTell == ASSUME TypeInv, NEW k \in Threads, Tell(k) PROVE TypeInv'
<1>1. up /\ thr[k].pc = "tell" /\ TypeOK /\ thr \in [Threads -> Thread]
  BY DEF Tell, At, TypeInv, TypeOK
<1>2. /\ Goes(k, "set") \/ Ends(k)
      /\ UNCHANGED <<up, file, list, rear, used, alive, boundVars, wrongs, made>>
      /\ \/ UNCHANGED <<node, account>>
         \/ node' = SignedOut(SlotOf(k)) /\ account' = [account EXCEPT ![SlotOf(k)] = Nil]
      /\ past' \in {past, past \cup {"left"}}
  BY DEF Tell
<1>3. \E t : Is(k, t) /\ Fits(t, k) /\ t.pc \in {"none", "set"}
  <3>1. CASE Ends(k)
    BY <1>1, <3>1, EndsIs, EndFits, NoThreadType
  <3>2. CASE Goes(k, "set")
    <4>1. PICK t : /\ Is(k, t) /\ t.pc = "set" /\ t.for = thr[k].for /\ t.name = thr[k].name
                   /\ t.pass = thr[k].pass /\ t.n = thr[k].n /\ t.lines = thr[k].lines
      BY <1>1, <3>2, GoesIs DEF Pcs, On
    <4> QED BY <1>1, <4>1, OnFits DEF Logins
  <3> QED BY <1>2, <3>1, <3>2
<1>4. PICK t : Is(k, t) /\ Fits(t, k) /\ t.pc \in {"none", "set"}
  BY <1>3
<1>5. t.pc \notin Asks /\ t.pc # "store"
  BY <1>4 DEF Asks
<1>6. past' \subseteq Events
  BY <1>2, TypesAre DEF Events
<1>7. /\ account' \in [Slots -> Cells \cup {Nil}]
      /\ \A j \in Slots : account'[j] # Nil => account'[j] <= used
  BY <1>2, TypesAre, ThreadsAre
<1>8. /\ node' \in [Cells -> Account]
      /\ \A n \in Cells : /\ node'[n].name = node[n].name /\ node'[n].pass = node[n].pass
                          /\ node'[n].wrongPassCount = node[n].wrongPassCount
  BY <1>2, TypesAre, SignedOutIs, ThreadsAre
<1> QED BY <1>1, <1>2, <1>4, <1>5, <1>6, <1>7, <1>8, TypesAre, PlainType

LEMMA TypeSetRear == ASSUME TypeInv, NEW k \in Threads, SetRear(k) PROVE TypeInv'
<1>1. up /\ thr[k].pc = "rear" /\ TypeOK
  BY DEF SetRear, At, TypeInv
<1>2. rear' = thr[k].n /\ UNCHANGED <<up, file, node, list, used, alive, account, boundVars, history>>
  BY DEF SetRear
<1>3. PICK t : /\ Is(k, t) /\ t.pc = "walk" /\ t.for = thr[k].for /\ t.name = thr[k].name
               /\ t.pass = thr[k].pass /\ t.n = thr[k].n /\ t.lines = thr[k].lines
  BY <1>1, GoesIs DEF SetRear, Pcs, On
<1>4. Fits(t, k)
  BY <1>1, <1>3, OnFits DEF SignUps
<1>5. rear' \in 1 .. used
  BY <1>1, <1>2, TypesAre DEF ThreadRight, Fits, SignUps
<1>6. t.pc \notin Asks /\ t.pc # "store"
  BY <1>3 DEF Asks
<1> QED BY <1>1, <1>2, <1>3, <1>4, <1>5, <1>6, TypesAre, PlainType

\* The list is not longer than the memory.
LEMMA ListShort == ASSUME TypeInv PROVE Len(list) \in Nat /\ Len(list) >= 1 /\ Len(list) <= MaxAccounts
<1>1. list \in Seq(Cells) /\ list # <<>> /\ \A i, j \in DOMAIN list : list[i] = list[j] => i = j
  BY DEF TypeInv, TypeOK, ListRight
<1>2. PICK l \in Nat : l = Len(list)
  BY <1>1
<1>3. DOMAIN list = 1 .. l /\ l >= 1 /\ MaxAccounts \in Nat /\ list \in [1 .. l -> 1 .. MaxAccounts]
  BY <1>1, <1>2, AccountsAssumption DEF Cells
<1>4. PICK one \in Int : one = 1
  OBVIOUS
<1>5. /\ IsFiniteSet(1 .. l) /\ Cardinality(1 .. l) = l
      /\ IsFiniteSet(1 .. MaxAccounts) /\ Cardinality(1 .. MaxAccounts) = MaxAccounts
  BY <1>3, <1>4, FS_Interval
<1>6. list \in Injection(1 .. l, 1 .. MaxAccounts)
  BY <1>1, <1>3 DEF Injection, IsInjective
<1>7. Cardinality(1 .. l) <= Cardinality(1 .. MaxAccounts)
  BY <1>5, <1>6, FS_Injection
<1> QED BY <1>2, <1>3, <1>5, <1>7

\* The line of an account.
LineIn(n) == [name |-> node[n].name, pass |-> node[n].pass, status |-> node[n].status]

LEMMA WalkIs ==
    ASSUME TypeInv, NEW k \in Threads, Walk(k)
    PROVE  /\ up /\ thr[k].pc = "walk"
           /\ UNCHANGED <<up, file, listVars, alive, account, boundVars, history>>
           /\ \E t : /\ Is(k, t) /\ t.pc = "write" /\ t.for = thr[k].for /\ t.name = thr[k].name
                     /\ t.pass = thr[k].pass /\ t.n = thr[k].n
                     /\ FileOK(t.lines) /\ DOMAIN t.lines = DOMAIN list
                     /\ \A i \in DOMAIN list : /\ t.lines[i].name = node[list[i]].name
                                               /\ t.lines[i].pass = node[list[i]].pass
                                               /\ t.lines[i].status = node[list[i]].status
<1>1. up /\ thr[k].pc = "walk" /\ TypeOK /\ thr \in [Threads -> Thread] /\ list \in Seq(Cells)
  BY DEF Walk, At, TypeInv, TypeOK
<1>2. PICK ls : ls = [i \in DOMAIN list |-> LineIn(list[i])]
  OBVIOUS
<1>3. PICK t : t = [thr[k] EXCEPT !.pc = "write", !.lines = ls]
  OBVIOUS
<1>4. thr' = [thr EXCEPT ![k] = t]
  BY <1>1, <1>2, <1>3 DEF Walk, LineIn
<1>5. PICK l \in Nat : l = Len(list) /\ l >= 1 /\ l <= MaxAccounts
  BY ListShort
<1>6. DOMAIN list = 1 .. l
  BY <1>1, <1>5
<1>7. \A i \in 1 .. l : LineIn(list[i]) \in Line
  <2>1. ASSUME NEW i \in 1 .. l PROVE LineIn(list[i]) \in Line
    <3>1. list[i] \in Cells
      BY <1>1, <1>6
    <3>2. PICK a \in Account : a = node[list[i]]
      BY <3>1, TypesAre
    <3> QED BY <3>2 DEF LineIn, Line, Account
  <2> QED BY <2>1
<1>8. ls \in Seq(Line) /\ ls # <<>> /\ Len(ls) = l /\ DOMAIN ls = DOMAIN list
  BY <1>2, <1>5, <1>6, <1>7
<1>9. FileOK(ls)
  BY <1>5, <1>8 DEF FileOK
<1>10. /\ t \in Thread /\ t.pc = "write" /\ t.for = thr[k].for /\ t.name = thr[k].name
       /\ t.pass = thr[k].pass /\ t.n = thr[k].n /\ t.lines = ls
  BY <1>1, <1>3, <1>8 DEF Thread
<1>11. Is(k, t)
  BY <1>1, <1>4, <1>10 DEF Is
<1>12. \A i \in DOMAIN list : /\ ls[i].name = node[list[i]].name
                              /\ ls[i].pass = node[list[i]].pass
                              /\ ls[i].status = node[list[i]].status
  BY <1>2 DEF LineIn
<1>13. UNCHANGED <<up, file, listVars, alive, account, boundVars, history>>
  BY DEF Walk
<1> QED BY <1>1, <1>8, <1>9, <1>10, <1>11, <1>12, <1>13

LEMMA TypeWalk == ASSUME TypeInv, NEW k \in Threads, Walk(k) PROVE TypeInv'
<1>1. PICK t : /\ Is(k, t) /\ t.pc = "write" /\ t.for = thr[k].for /\ t.name = thr[k].name
               /\ t.pass = thr[k].pass /\ t.n = thr[k].n /\ FileOK(t.lines)
  BY WalkIs
<1>2. up /\ thr[k].pc = "walk" /\ UNCHANGED <<up, file, listVars, alive, account, boundVars, history>>
  BY WalkIs
<1>3. Fits(t, k)
  BY <1>1, <1>2, TypesAre DEF ThreadRight, Fits, SignUps, Logins
<1>4. t.pc \notin Asks /\ t.pc # "store"
  BY <1>1 DEF Asks
<1> QED BY <1>1, <1>2, <1>3, <1>4, TypesAre, PlainType

\* What a store leaves in the file.
LEMMA OverIs ==
    ASSUME NEW new, NEW old, FileOK(new), FileOK(old)
    PROVE  /\ FileOK(Over(new, old))
           /\ DOMAIN Over(new, old) = DOMAIN new \cup DOMAIN old
           /\ \A i \in DOMAIN new : Over(new, old)[i] = new[i]
           /\ \A i \in DOMAIN old : i \notin DOMAIN new => Over(new, old)[i] = old[i]
<1>1. PICK l \in Nat, m \in Nat : l = Len(new) /\ m = Len(old)
  BY DEF FileOK
<1>2. DOMAIN new = 1 .. l /\ DOMAIN old = 1 .. m /\ l >= 1 /\ l <= MaxAccounts /\ m <= MaxAccounts
  BY <1>1 DEF FileOK
<1>3. PICK h \in Nat : h = IF l <= m THEN m ELSE l
  OBVIOUS
<1>4. DOMAIN new \cup DOMAIN old = 1 .. h
  BY <1>2, <1>3
<1>5. \A i \in 1 .. h : (IF i \in DOMAIN new THEN new[i] ELSE old[i]) \in Line
  BY <1>4 DEF FileOK
<1>6. Over(new, old) = [i \in 1 .. h |-> IF i \in DOMAIN new THEN new[i] ELSE old[i]]
  BY <1>4 DEF Over
<1>7. Over(new, old) \in Seq(Line) /\ Len(Over(new, old)) = h
  BY <1>5, <1>6
<1>8. h >= 1 /\ h <= MaxAccounts
  BY <1>2, <1>3
<1>9. Over(new, old) # <<>>
  BY <1>7, <1>8
<1> QED BY <1>4, <1>6, <1>7, <1>8, <1>9 DEF FileOK

LEMMA TypeWrite == ASSUME TypeInv, NEW k \in Threads, Write(k) PROVE TypeInv'
<1>1. up /\ thr[k].pc = "write" /\ TypeOK
  BY DEF Write, At, TypeInv
<1>2. file' = Over(thr[k].lines, file) /\ UNCHANGED <<up, listVars, alive, account, boundVars, history>>
  BY DEF Write
<1>3. PICK t : /\ Is(k, t) /\ t.pc = "told" /\ t.for = thr[k].for /\ t.name = thr[k].name
               /\ t.pass = thr[k].pass /\ t.n = thr[k].n /\ t.lines = thr[k].lines
  BY <1>1, GoesIs DEF Write, Pcs, On
<1>4. Fits(t, k)
  BY <1>1, <1>3, OnFits DEF SignUps
<1>5. FileOK(file')
  BY <1>1, <1>2, TypesAre, OverIs DEF ThreadRight, Fits
<1>6. t.pc \notin Asks /\ t.pc # "store"
  BY <1>3 DEF Asks
<1> QED BY <1>1, <1>2, <1>3, <1>4, <1>5, <1>6, TypesAre, PlainType

LEMMA TypeTellMade == ASSUME TypeInv, NEW k \in Threads, TellMade(k) PROVE TypeInv'
<1>1. up /\ thr[k].pc = "told" /\ TypeOK /\ thr[k] \in Thread
  BY DEF TellMade, At, TypeInv, TypeOK
<1>2. /\ made' \in {made, made \cup {<<thr[k].name, thr[k].pass>>}}
      /\ UNCHANGED <<up, file, listVars, alive, account, boundVars, wrongs, past>>
  BY DEF TellMade
<1>3. Is(k, NoThread)
  BY <1>1, EndsIs DEF TellMade
<1>4. made' \subseteq Names \X Passwords
  BY <1>1, <1>2, TypesAre DEF Thread
<1> QED BY <1>1, <1>2, <1>3, <1>4, EndFits, TypesAre, PlainType

\* A new account is the next one in memory, or there is one of the name.
LEMMA AddIs ==
    ASSUME TypeInv, NEW k \in Threads, Add(k)
    PROVE  /\ up /\ thr[k].pc = "add"
           /\ UNCHANGED <<up, file, list, rear, alive, account, boundVars, wrongs, made>>
           /\ \/ /\ Lookup(thr[k].name) # Nil /\ On(k, "told")
                 /\ past' = past \cup {"name"} /\ UNCHANGED <<node, used>>
              \/ /\ Lookup(thr[k].name) = Nil
                 /\ used' = used + 1 /\ used' \in Cells /\ past' = past
                 /\ node' \in [Cells -> Account]
                 /\ \A n \in Cells : n # used' => node'[n] = node[n]
                 /\ node'[used'].name = thr[k].name /\ node'[used'].pass = thr[k].pass
                 /\ node'[used'].status = "ACTIVE" /\ node'[used'].wrongPassCount = 0
                 /\ node'[used'].isLogined = FALSE
                 /\ \E t : /\ Is(k, t) /\ t.pc = "link" /\ t.for = thr[k].for
                           /\ t.name = thr[k].name /\ t.pass = thr[k].pass /\ t.n = used'
<1>1. /\ up /\ thr[k].pc = "add" /\ TypeOK /\ node \in [Cells -> Account]
      /\ thr \in [Threads -> Thread] /\ thr[k] \in Thread
  BY DEF Add, At, TypeInv, TypeOK
<1>2. UNCHANGED <<up, file, list, rear, alive, account, boundVars, wrongs, made>>
  BY DEF Add
<1>3. CASE Lookup(thr[k].name) # Nil
  <2>1. Goes(k, "told") /\ past' = past \cup {"name"} /\ UNCHANGED <<node, used>>
    BY <1>3 DEF Add
  <2>2. On(k, "told")
    BY <1>1, <2>1, GoesIs DEF Pcs
  <2> QED BY <1>1, <1>2, <1>3, <2>1, <2>2
<1>4. CASE Lookup(thr[k].name) = Nil
  <2>1. PICK n \in Nat : n = used + 1
    BY MemoryIs
  <2>2. used < MaxAccounts /\ used' = n /\ past' = past
    BY <1>4, <2>1 DEF Add
  <2>3. n \in Cells
    BY <2>1, <2>2, MemoryIs, AccountsAssumption DEF Cells
  <2>4. PICK name, pass : name = thr[k].name /\ pass = thr[k].pass
    OBVIOUS
  <2>5. PICK new : new = [Free EXCEPT !.name = name, !.pass = pass, !.status = "ACTIVE"]
    OBVIOUS
  <2>6. node' = [node EXCEPT ![n] = new]
    BY <1>4, <2>1, <2>4, <2>5 DEF Add
  <2>7. name \in Names /\ pass \in Passwords
    BY <1>1, <2>4 DEF Thread
  <2>8. PICK zero \in Nat : zero = 0
    OBVIOUS
  <2>9. /\ new \in Account /\ new.name = name /\ new.pass = pass /\ new.status = "ACTIVE"
        /\ new.wrongPassCount = 0 /\ new.isLogined = FALSE
    BY <2>5, <2>7 DEF Free, Account, Status
  <2>10. /\ node' \in [Cells -> Account] /\ node'[n] = new
         /\ \A m \in Cells : m # n => node'[m] = node[m]
    BY <1>1, <2>3, <2>6, <2>9
  <2>11. PICK t : t = [thr[k] EXCEPT !.pc = "link", !.n = n]
    OBVIOUS
  <2>12. thr' = [thr EXCEPT ![k] = t]
    BY <1>1, <1>4, <2>1, <2>11 DEF Add
  <2>13. /\ t \in Thread /\ t.pc = "link" /\ t.for = thr[k].for /\ t.name = thr[k].name
         /\ t.pass = thr[k].pass /\ t.n = n
    BY <1>1, <2>3, <2>11 DEF Thread
  <2>14. Is(k, t)
    BY <1>1, <2>12, <2>13 DEF Is
  <2> QED BY <1>1, <1>2, <1>4, <2>1, <2>2, <2>3, <2>4, <2>9, <2>10, <2>13, <2>14
<1> QED BY <1>3, <1>4

\* A new account: nobody has it, and it is not linked.
LEMMA TypeMade ==
    ASSUME TypeInv, NEW k \in Threads, Add(k), Lookup(thr[k].name) = Nil
    PROVE  TypeInv'
<1>1. /\ up /\ thr[k].pc = "add"
      /\ UNCHANGED <<up, file, list, rear, alive, account, boundVars, wrongs, made>>
      /\ used' = used + 1 /\ used' \in Cells /\ past' = past
      /\ node' \in [Cells -> Account]
      /\ \A n \in Cells : n # used' => node'[n] = node[n]
      /\ node'[used'].name = thr[k].name /\ node'[used'].pass = thr[k].pass
      /\ node'[used'].wrongPassCount = 0
  BY AddIs
<1>2. PICK t : /\ Is(k, t) /\ t.pc = "link" /\ t.for = thr[k].for
               /\ t.name = thr[k].name /\ t.pass = thr[k].pass /\ t.n = used'
  BY AddIs
<1>3. PICK u \in Nat : u = used /\ used' = u + 1 /\ 1 .. u \subseteq Cells /\ Listed \subseteq 1 .. u
  BY <1>1, MemoryIs
<1>4. Listed' = Listed
  BY <1>1 DEF Listed
<1>5. u + 1 \notin Listed' /\ u + 1 \notin 1 .. u /\ u + 1 \in 1 .. used'
  BY <1>3, <1>4
<1>6. \A j \in Threads : j # k /\ thr[j].pc = "link" => thr[j].n \in 1 .. u /\ thr[j].n \notin Listed'
  BY <1>3, <1>4, TypesAre DEF ThreadRight, Fits, SignUps
<1>7. Fits(t, k)'
  <2>1. \A j \in Threads : thr'[j].pc = "link" /\ j # k => thr'[j].n # t.n
    BY <1>2, <1>3, <1>5, <1>6 DEF Is
  <2>2. t.for = "signup"
    BY <1>1, <1>2, TypesAre DEF ThreadRight, Fits
  <2>3. node'[t.n].name = t.name /\ node'[t.n].pass = t.pass /\ t.n \in 1 .. used' /\ t.n \notin Listed'
    BY <1>1, <1>2, <1>3, <1>5
  <2> QED BY <1>2, <2>1, <2>2, <2>3 DEF Fits, Logins, SignUps
<1>8. (\A j \in Threads : ThreadRight(j))'
  <2>1. used' \in Nat /\ used <= used'
    BY <1>3
  <2>2. \A n \in 1 .. used : node'[n].name = node[n].name /\ node'[n].pass = node[n].pass
    BY <1>1, <1>3, <1>5
  <2> QED BY <1>2, <1>6, <1>7, <2>1, <2>2, ThreadsKept
<1>9. TriesRight'
  <2>1. t.pc \notin Asks /\ t.pc # "store"
    BY <1>2 DEF Asks
  <2>2. \A n \in Cells : node'[n].wrongPassCount \in {0, node[n].wrongPassCount}
    BY <1>1
  <2>3. connects' = connects /\ requests' = requests
    BY <1>1
  <2> QED BY <1>1, <1>2, <2>1, <2>2, <2>3, TriesKept
<1>10. TypeOK /\ ListRight /\ RestRight
  BY DEF TypeInv
<1>11. ListRight'
  <2>1. PICK r \in Nat : r = rear /\ r <= u
    BY <1>3, TypesAre
  <2>2. rear' <= used'
    BY <1>1, <1>3, <2>1
  <2>3. \A i \in DOMAIN list : list[i] \in 1 .. u
    BY <1>3 DEF Listed
  <2>4. \A n \in 1 .. u : n <= u + 1
    BY <1>3
  <2>5. ASSUME NEW j \in Slots, account[j] # Nil PROVE account[j] <= u + 1
    <3>1. account[j] \in 1 .. u
      BY <1>3, <2>5, TypesAre, MemoryIs
    <3> QED BY <2>4, <3>1
  <2> QED BY <1>1, <1>3, <1>10, <2>2, <2>3, <2>4, <2>5 DEF ListRight
<1>12. RestRight'
  BY <1>1, <1>10 DEF RestRight
<1>13. TypeOK'
  <2>1. ASSUME NEW n \in Cells PROVE node'[n].wrongPassCount <= connects' + requests'
    <3>1. node'[n].wrongPassCount \in {0, node[n].wrongPassCount}
      BY <1>1
    <3>2. PICK w \in Nat : w = node[n].wrongPassCount /\ w <= connects + requests
      BY <1>10 DEF TypeOK, Account
    <3>3. connects \in Nat /\ requests \in Nat /\ connects' = connects /\ requests' = requests
      BY <1>1, <1>10 DEF RestRight
    <3> QED BY <3>1, <3>2, <3>3
  <2> QED BY <1>1, <1>2, <1>10, <2>1 DEF TypeOK, Is
<1> QED BY <1>8, <1>9, <1>11, <1>12, <1>13 DEF TypeInv

LEMMA TypeAdd == ASSUME TypeInv, NEW k \in Threads, Add(k) PROVE TypeInv'
<1>1. CASE Lookup(thr[k].name) = Nil
  BY <1>1, TypeMade
<1>2. CASE Lookup(thr[k].name) # Nil
  <2>1. /\ up /\ thr[k].pc = "add"
        /\ UNCHANGED <<up, file, list, rear, alive, account, boundVars, wrongs, made>>
        /\ On(k, "told") /\ past' = past \cup {"name"} /\ UNCHANGED <<node, used>>
    BY <1>2, AddIs
  <2>2. PICK t : /\ Is(k, t) /\ t.pc = "told" /\ t.for = thr[k].for /\ t.name = thr[k].name
                 /\ t.pass = thr[k].pass /\ t.n = thr[k].n /\ t.lines = thr[k].lines
    BY <2>1 DEF On
  <2>3. Fits(t, k)
    BY <2>1, <2>2, OnFits
  <2>4. t.pc \notin Asks /\ t.pc # "store"
    BY <2>2 DEF Asks
  <2>5. past' \subseteq Events
    BY <2>1, TypesAre DEF Events
  <2> QED BY <2>1, <2>2, <2>3, <2>4, <2>5, TypesAre, PlainType
<1> QED BY <1>1, <1>2

\* The list up to the rear, and the new account; or nothing, when the rear is
\* not in the list.
LEMMA LinkIs ==
    ASSUME TypeInv, NEW k \in Threads, Link(k)
    PROVE  /\ up /\ thr[k].pc = "link" /\ On(k, "rear")
           /\ UNCHANGED <<up, file, node, rear, used, alive, account, boundVars, wrongs, made>>
           /\ past' \subseteq past \cup {"append", "name"} /\ past \subseteq past'
           /\ rear # list[Len(list)] => "append" \in past'
           /\ Lookup(thr[k].name) # Nil => "name" \in past'
           /\ \/ list' = list /\ rear \notin Listed
              \/ \E p \in 1 .. Len(list) :
                    /\ list' \in Seq(Cells) /\ Len(list') = p + 1 /\ DOMAIN list' = 1 .. p + 1
                    /\ \A i \in 1 .. p : list'[i] = list[i]
                    /\ list'[p + 1] = thr[k].n /\ list[p] = rear
<1>1. up /\ thr[k].pc = "link" /\ TypeOK /\ list \in Seq(Cells)
  BY DEF Link, At, TypeInv, TypeOK
<1>2. On(k, "rear")
  BY <1>1, GoesIs DEF Link, Pcs
<1>3. UNCHANGED <<up, file, node, rear, used, alive, account, boundVars, wrongs, made>>
  BY DEF Link
<1>4. /\ past' \subseteq past \cup {"append", "name"} /\ past \subseteq past'
      /\ rear # list[Len(list)] => "append" \in past'
      /\ Lookup(thr[k].name) # Nil => "name" \in past'
  BY DEF Link
<1>5. CASE rear \notin Listed
  <2>1. list' = list
    BY <1>5 DEF Link
  <2> QED BY <1>1, <1>2, <1>3, <1>4, <1>5, <2>1
<1>6. CASE rear \in Listed
  <2>1. PICK p : p = CHOOSE i \in DOMAIN list : list[i] = rear
    OBVIOUS
  <2>2. p \in DOMAIN list /\ list[p] = rear
    BY <1>6, <2>1 DEF Listed
  <2>3. PICK l \in Nat : l = Len(list)
    BY <1>1
  <2>4. p \in 1 .. l /\ DOMAIN list = 1 .. l
    BY <1>1, <2>2, <2>3
  <2>5. PICK n \in Cells : n = thr[k].n
    BY <1>1, TypesAre, MemoryIs DEF ThreadRight, Fits, SignUps
  <2>6. list' = Append(SubSeq(list, 1, p), n)
    BY <1>6, <2>1, <2>5 DEF Link
  <2>7. PICK s : s = SubSeq(list, 1, p)
    OBVIOUS
  <2>8. s \in Seq(Cells) /\ Len(s) = p /\ \A i \in 1 .. p : s[i] = list[i]
    BY <1>1, <2>3, <2>4, <2>7
  <2>9. /\ list' \in Seq(Cells) /\ Len(list') = p + 1 /\ DOMAIN list' = 1 .. p + 1
        /\ \A i \in 1 .. p : list'[i] = list[i]
        /\ list'[p + 1] = n
    BY <2>4, <2>6, <2>7, <2>8
  <2> QED BY <1>1, <1>2, <1>3, <1>4, <2>2, <2>3, <2>4, <2>5, <2>9
<1> QED BY <1>5, <1>6

LEMMA TypeLink == ASSUME TypeInv, NEW k \in Threads, Link(k) PROVE TypeInv'
<1>1. /\ up /\ thr[k].pc = "link"
      /\ UNCHANGED <<up, file, node, rear, used, alive, account, boundVars, wrongs, made>>
      /\ past' \subseteq past \cup {"append", "name"}
  BY LinkIs
<1>2. PICK t : /\ Is(k, t) /\ t.pc = "rear" /\ t.for = thr[k].for /\ t.name = thr[k].name
               /\ t.pass = thr[k].pass /\ t.n = thr[k].n /\ t.lines = thr[k].lines
  BY LinkIs DEF On
<1>3. Fits(t, k)
  BY <1>1, <1>2, OnFits DEF SignUps
<1>4. TypeOK /\ ListRight /\ RestRight
  BY DEF TypeInv
<1>5. thr[k].n \in 1 .. used /\ thr[k].n \notin Listed
  BY <1>1, TypesAre DEF ThreadRight, Fits, SignUps
<1>6. /\ list' \in Seq(Cells) \ {<<>>}
      /\ \A i \in DOMAIN list' : list'[i] <= used
      /\ \A i, j \in DOMAIN list' : list'[i] = list'[j] => i = j
      /\ Listed' \subseteq Listed \cup {thr[k].n}
  <2>1. CASE list' = list
    BY <1>4, <2>1 DEF TypeOK, ListRight, Listed
  <2>2. CASE \E p \in 1 .. Len(list) :
                    /\ list' \in Seq(Cells) /\ Len(list') = p + 1 /\ DOMAIN list' = 1 .. p + 1
                    /\ \A i \in 1 .. p : list'[i] = list[i]
                    /\ list'[p + 1] = thr[k].n /\ list[p] = rear
    <3>1. PICK l \in Nat : l = Len(list) /\ DOMAIN list = 1 .. l /\ list \in Seq(Cells)
      BY <1>4, ListShort DEF TypeOK
    <3>2. PICK p \in 1 .. l :
                    /\ list' \in Seq(Cells) /\ Len(list') = p + 1 /\ DOMAIN list' = 1 .. p + 1
                    /\ \A i \in 1 .. p : list'[i] = list[i]
                    /\ list'[p + 1] = thr[k].n
      BY <2>2, <3>1
    <3>3. list' # <<>>
      BY <3>2
    <3>4. ASSUME NEW i \in DOMAIN list'
          PROVE  (i \in 1 .. p /\ i \in DOMAIN list /\ list'[i] = list[i] /\ list[i] \in Listed) \/ (i = p + 1 /\ list'[i] = thr[k].n)
      BY <3>1, <3>2 DEF Listed
    <3>5. \A i \in DOMAIN list' : list'[i] <= used
      <4>1. \A n \in 1 .. used : n <= used
        BY MemoryIs
      <4> QED BY <1>5, <3>4, <4>1, MemoryIs
    <3>6. \A i, j \in DOMAIN list' : list'[i] = list'[j] => i = j
      BY <1>4, <1>5, <3>4 DEF ListRight
    <3>7. Listed' \subseteq Listed \cup {thr[k].n}
      BY <3>4 DEF Listed
    <3> QED BY <3>2, <3>3, <3>5, <3>6, <3>7
  <2> QED BY <2>1, <2>2, LinkIs
<1>7. (\A j \in Threads : ThreadRight(j))'
  <2>1. \A j \in Threads : j # k /\ thr[j].pc = "link" => thr[j].n \notin Listed'
    BY <1>1, <1>6, TypesAre DEF ThreadRight, Fits
  <2>2. Fits(t, k)'
    BY <1>1, <1>2, <1>3 DEF Fits
  <2>3. used' \in Nat /\ used <= used'
    BY <1>1, MemoryIs
  <2> QED BY <1>1, <1>2, <2>1, <2>2, <2>3, ThreadsKept
<1>8. TriesRight'
  <2>1. t.pc \notin Asks /\ t.pc # "store"
    BY <1>2 DEF Asks
  <2>2. \A n \in Cells : node'[n].wrongPassCount \in {0, node[n].wrongPassCount}
    BY <1>1
  <2>3. connects' = connects /\ requests' = requests /\ node' \in [Cells -> Account]
    BY <1>1, TypesAre
  <2> QED BY <1>2, <2>1, <2>2, <2>3, TriesKept
<1>9. ListRight'
  BY <1>1, <1>4, <1>6 DEF ListRight
<1>10. RestRight'
  BY <1>1, <1>4 DEF RestRight
<1>11. TypeOK'
  BY <1>1, <1>2, <1>4, <1>6 DEF TypeOK, Is
<1> QED BY <1>7, <1>8, <1>9, <1>10, <1>11 DEF TypeInv

\* A connection or a request brings a thread, and one more try.
LEMMA NewThread ==
    ASSUME TypeInv, NEW k \in Threads, NEW t, Is(k, t), Fits(t, k), up,
           thr[k].pc = "none", t.pc \in {"ask", "check"},
           \/ connects' = connects + 1 /\ requests' = requests
           \/ connects' = connects /\ requests' = requests + 1,
           alive' \in [Slots -> BOOLEAN],
           past' \subseteq Events,
           UNCHANGED <<up, file, listVars, account, starts, wrongs, made>>
    PROVE  TypeInv'
<1>1. connects \in Nat /\ requests \in Nat /\ starts \in Nat /\ TriesRight /\ TypeOK
  BY DEF TypeInv, RestRight
<1>2. connects' \in Nat /\ requests' \in Nat /\ connects' + requests' = connects + requests + 1
  BY <1>1
<1>3. PICK c \in Nat, d \in Nat : c = Cardinality(Counting) /\ d = Cardinality(Counting)' /\ d = c + 1
  BY <1>1, CountingIs
<1>4. TriesRight'
  <2>1. ASSUME NEW n \in Cells PROVE node'[n].wrongPassCount + d <= connects' + requests'
    <3>1. PICK w \in Nat : w = node[n].wrongPassCount /\ w + c <= connects + requests
      BY <1>1, <1>3, TypesAre DEF Account, TriesRight
    <3> QED BY <1>1, <1>2, <1>3, <3>1
  <2>2. ASSUME NEW j \in Threads, thr'[j].pc = "store"
        PROVE  thr'[j].v + d <= connects' + requests'
    <3>1. j # k /\ thr'[j] = thr[j]
      BY <2>2 DEF Is
    <3>2. PICK v \in Nat : v = thr[j].v
      BY TypesAre DEF Thread
    <3>3. v + c <= connects + requests
      BY <1>1, <1>3, <2>2, <3>1, <3>2 DEF TriesRight
    <3> QED BY <1>1, <1>2, <1>3, <3>1, <3>2, <3>3
  <2> QED BY <1>3, <2>1, <2>2 DEF TriesRight
<1> QED BY <1>1, <1>2, <1>4, TypesAre, StepType

\* The first thread of a slot.
Own(s) == <<s, 1>>

LEMMA OwnIs ==
    /\ \A s \in Slots : Own(s) \in Threads /\ SlotOf(Own(s)) = s
    /\ \A s, z \in Slots : s # z => Own(s) # Own(z)
BY ThreadsAre DEF Own

\* A thread that has begun: the first, unless that one runs.
BegunAt(k, t) ==
    /\ SlotOf(k) \in Slots /\ thr[k].pc = "none" /\ thr' = [thr EXCEPT ![k] = t]
    /\ k = Own(SlotOf(k)) \/ thr[Own(SlotOf(k))].pc # "none"

LEMMA BeginsAt ==
    ASSUME NEW s \in Slots, NEW t, Begins(s, t)
    PROVE  \E k \in Threads : SlotOf(k) = s /\ BegunAt(k, t)
<1>1. PICK l \in Lanes : /\ thr[<<s, l>>].pc = "none" /\ thr' = [thr EXCEPT ![<<s, l>>] = t]
                         /\ \A m \in Lanes : m < l => thr[<<s, m>>].pc # "none"
  BY DEF Begins
<1>2. PICK k \in Threads : k = <<s, l>> /\ SlotOf(k) = s
  BY ThreadsAre
<1>3. k = Own(s) \/ thr[Own(s)].pc # "none"
  <2>1. 1 < l \/ l = 1
    BY DEF Lanes
  <2> QED BY <1>1, <1>2, <2>1, ThreadsAre DEF Own
<1> QED BY <1>1, <1>2, <1>3 DEF BegunAt

NewConnection == [NoThread EXCEPT !.pc = "check", !.for = "connect"]
NewRequest(for, name, pass) == [NoThread EXCEPT !.pc = "ask", !.for = for, !.name = name, !.pass = pass]

LEMMA NewAre ==
    /\ NewConnection \in Thread /\ NewConnection.pc = "check" /\ NewConnection.for = "connect"
    /\ \A for \in {"login", "signup"}, name \in Names, pass \in Passwords :
         /\ NewRequest(for, name, pass) \in Thread
         /\ NewRequest(for, name, pass).pc = "ask" /\ NewRequest(for, name, pass).for = for
<1>1. PICK b \in Thread : b = NoThread
  BY NoThreadType
<1>2. ASSUME NEW for \in {"login", "signup"}, NEW name \in Names, NEW pass \in Passwords
      PROVE  /\ NewRequest(for, name, pass) \in Thread
             /\ NewRequest(for, name, pass).pc = "ask" /\ NewRequest(for, name, pass).for = for
  BY <1>1 DEF Thread, NewRequest
<1> QED BY <1>1, <1>2 DEF Thread, NewConnection

\* The thread of a new connection, and of a new request.
ConnectsAt(k) ==
    /\ BegunAt(k, NewConnection) /\ up /\ ~alive[SlotOf(k)] /\ Connect(SlotOf(k))
    /\ alive' = [alive EXCEPT ![SlotOf(k)] = TRUE]
    /\ connects' = connects + 1 /\ requests' = requests
    /\ past' = IF Running(SlotOf(k)) # {} THEN past \cup {"stale"} ELSE past
    /\ UNCHANGED <<up, file, listVars, account, starts, wrongs, made>>
RequestsAt(k) ==
    /\ \E for \in {"login", "signup"}, name \in Names, pass \in Passwords :
         BegunAt(k, NewRequest(for, name, pass))
    /\ up /\ requests' = requests + 1 /\ connects' = connects
    /\ (account[SlotOf(k)] = Nil /\ Running(SlotOf(k)) = {}) \/ "stale" \in past
    /\ UNCHANGED <<up, file, listVars, alive, account, starts, wrongs, made, past>>

LEMMA ConnectIs ==
    ASSUME NEW s \in Slots, Connect(s)
    PROVE  \E k \in Threads : SlotOf(k) = s /\ ConnectsAt(k)
<1>1. Begins(s, NewConnection)
  BY DEF Connect, NewConnection
<1>2. PICK k \in Threads : SlotOf(k) = s /\ BegunAt(k, NewConnection)
  BY <1>1, BeginsAt
<1> QED BY <1>2 DEF ConnectsAt, Connect

LEMMA RequestIs ==
    ASSUME NEW s \in Slots, Request(s)
    PROVE  \E k \in Threads : SlotOf(k) = s /\ RequestsAt(k)
<1>1. PICK for \in {"login", "signup"}, name \in Names, pass \in Passwords :
         Begins(s, NewRequest(for, name, pass))
  BY DEF Request, NewRequest
<1>2. PICK t : t = NewRequest(for, name, pass)
  OBVIOUS
<1>3. PICK k \in Threads : SlotOf(k) = s /\ BegunAt(k, t)
  BY <1>1, <1>2, BeginsAt
<1>4. \E f \in {"login", "signup"}, n \in Names, w \in Passwords : BegunAt(k, NewRequest(f, n, w))
  BY <1>2, <1>3
<1> QED BY <1>3, <1>4 DEF RequestsAt, Request

LEMMA BegunIs ==
    ASSUME TypeInv, NEW k \in Threads, NEW t \in Thread, BegunAt(k, t), t.pc \in {"ask", "check"},
           t.for \in {"connect", "login", "signup"},
           t.pc = "ask" => t.for \in {"login", "signup"}, t.pc = "check" => t.for \in {"connect", "login"}
    PROVE  Is(k, t) /\ Fits(t, k) /\ thr[k].pc = "none"
<1>1. Is(k, t) /\ thr[k].pc = "none"
  BY TypesAre DEF Is, BegunAt
<1>2. Fits(t, k)
  BY DEF Fits, Logins, SignUps
<1> QED BY <1>1, <1>2

LEMMA TypeConnect == ASSUME TypeInv, NEW k \in Threads, ConnectsAt(k) PROVE TypeInv'
<1>1. PICK t \in Thread : t = NewConnection /\ t.pc = "check" /\ t.for = "connect"
  BY NewAre
<1>2. Is(k, t) /\ Fits(t, k) /\ thr[k].pc = "none"
  BY <1>1, BegunIs DEF ConnectsAt
<1>3. alive' \in [Slots -> BOOLEAN]
  BY TypesAre DEF ConnectsAt
<1>4. past' \subseteq Events
  BY TypesAre DEF ConnectsAt, Events
<1>5. /\ up /\ connects' = connects + 1 /\ requests' = requests
      /\ UNCHANGED <<up, file, listVars, account, starts, wrongs, made>>
  BY DEF ConnectsAt
<1> QED BY <1>1, <1>2, <1>3, <1>4, <1>5, NewThread

LEMMA TypeRequest == ASSUME TypeInv, NEW k \in Threads, RequestsAt(k) PROVE TypeInv'
<1>1. PICK t \in Thread : BegunAt(k, t) /\ t.pc = "ask" /\ t.for \in {"login", "signup"}
  BY NewAre DEF RequestsAt
<1>2. Is(k, t) /\ Fits(t, k) /\ thr[k].pc = "none"
  BY <1>1, BegunIs
<1>3. alive' \in [Slots -> BOOLEAN] /\ past' \subseteq Events
  BY TypesAre DEF RequestsAt
<1>5. /\ up /\ connects' = connects /\ requests' = requests + 1
      /\ UNCHANGED <<up, file, listVars, account, starts, wrongs, made>>
  BY DEF RequestsAt
<1> QED BY <1>1, <1>2, <1>3, <1>5, NewThread

\* The list that a start makes of the file.
LEMMA StartsRight ==
    ASSUME NEW f, FileOK(f), NEW l, l = [n \in 1 .. Loads(f) |-> n]
    PROVE  /\ l \in Seq(Cells) \ {<<>>} /\ DOMAIN l = 1 .. Loads(f) /\ Len(l) = Loads(f)
           /\ \A i \in DOMAIN l : l[i] = i /\ l[i] \in Nat /\ l[i] <= Loads(f)
           /\ \A i, j \in DOMAIN l : l[i] = l[j] => i = j
<1>1. PICK c \in Nat : c = Loads(f) /\ c >= 1 /\ c <= MaxAccounts
  BY FreshIs
<1>2. \A n \in 1 .. c : n \in Cells
  BY <1>1, AccountsAssumption DEF Cells
<1>3. l = [n \in 1 .. c |-> n]
  BY <1>1
<1>4. l \in Seq(Cells) /\ DOMAIN l = 1 .. c /\ Len(l) = c
  BY <1>1, <1>2, <1>3
<1>5. l # <<>>
  BY <1>1, <1>4
<1> QED BY <1>1, <1>3, <1>4, <1>5

\* No thread counts when there is none.
LEMMA NobodyCounts ==
    ASSUME thr = [k \in Threads |-> NoThread]
    PROVE  Cardinality(Counting) = 0 /\ \A k \in Threads : thr[k] = NoThread /\ thr[k].pc = "none"
<1>1. Counting = {}
  BY NoThreadType DEF Counting
<1> QED BY <1>1, FS_EmptySet, NoThreadType

\* What a server has that has started.
Started ==
    /\ FileOK(file)
    /\ node = Loaded(file)
    /\ list = [n \in 1 .. Loads(file) |-> n]
    /\ rear = Loads(file) /\ used = Loads(file)
    /\ alive \in [Slots -> BOOLEAN]
    /\ account = [k \in Slots |-> Nil]
    /\ thr = [k \in Threads |-> NoThread]
    /\ wrongs = [n \in Cells |-> 0]
    /\ up = TRUE
    /\ connects \in Nat /\ requests \in Nat /\ starts \in Nat
    /\ made \subseteq Names \X Passwords /\ past \subseteq Events

LEMMA StartType == Started => TypeInv
<1> SUFFICES ASSUME Started PROVE TypeInv
  OBVIOUS
<1>0. PICK f : f = file
  OBVIOUS
<1>f. FileOK(f)
  BY <1>0 DEF Started
<1>1. PICK l : l = [n \in 1 .. Loads(f) |-> n]
  OBVIOUS
<1>2. /\ l \in Seq(Cells) \ {<<>>}
      /\ \A i \in DOMAIN l : l[i] <= Loads(f)
      /\ \A i, j \in DOMAIN l : l[i] = l[j] => i = j
  BY <1>1, <1>f, StartsRight
<1>3. Loads(f) \in Cells /\ Loads(f) \in Nat
  BY <1>f, FreshIs
<1>4. /\ Loaded(f) \in [Cells -> Account]
      /\ \A n \in Cells : Loaded(f)[n].wrongPassCount = 0
  BY <1>f, LoadedIs
<1>5. PICK zero \in Nat : zero = 0
  OBVIOUS
<1>6. TypeOK
  <2>1. \A n \in Cells : node[n].wrongPassCount <= connects + requests
    BY <1>0, <1>4 DEF Started
  <2>2. thr \in [Threads -> Thread]
    BY NoThreadType DEF Started
  <2>3. account \in [Slots -> Cells \cup {Nil}] /\ alive \in [Slots -> BOOLEAN]
    BY DEF Started
  <2>4. file \in Seq(Line) /\ up \in BOOLEAN
    BY DEF Started, FileOK
  <2>5. list \in Seq(Cells) \ {<<>>} /\ rear \in Cells /\ used \in Cells
    BY <1>0, <1>1, <1>2, <1>3 DEF Started
  <2>6. node \in [Cells -> Account]
    <3>1. node = Loaded(f)
      BY <1>0 DEF Started
    <3> QED BY <1>4, <3>1
  <2>7. past \subseteq Events
    BY DEF Started
  <2> QED BY <2>1, <2>2, <2>3, <2>4, <2>5, <2>6, <2>7 DEF TypeOK, Events
<1>7. ListRight
  <2>1. Loads(f) <= Loads(f)
    BY <1>3
  <2>2. \A k \in Slots : account[k] = Nil
    BY DEF Started
  <2>3. list = l /\ rear = Loads(f) /\ used = Loads(f)
    BY <1>0, <1>1 DEF Started
  <2> QED BY <1>2, <2>1, <2>2, <2>3 DEF ListRight
<1>8. RestRight
  <2>1. wrongs \in [Cells -> Nat]
    BY <1>5 DEF Started
  <2>2. up /\ FileOK(file) /\ made \subseteq Names \X Passwords
        /\ connects \in Nat /\ requests \in Nat /\ starts \in Nat
    BY DEF Started
  <2> QED BY <2>1, <2>2 DEF RestRight
<1>9. \A k \in Threads : ThreadRight(k)
  <2>1. \A k \in Threads : thr[k] = NoThread
    BY DEF Started
  <2> QED BY <2>1, NoThreadType DEF ThreadRight, Fits, Logins, SignUps
<1>10. TriesRight
  <2>1. Cardinality(Counting) = 0 /\ \A k \in Threads : thr[k].pc = "none"
    BY NobodyCounts DEF Started
  <2>2. \A n \in Cells : node[n].wrongPassCount = 0
    <3>1. node = Loaded(f)
      BY <1>0 DEF Started
    <3> QED BY <1>4, <3>1
  <2>3. connects \in Nat /\ requests \in Nat
    BY DEF Started
  <2> QED BY <2>1, <2>2, <2>3 DEF TriesRight
<1> QED BY <1>6, <1>7, <1>8, <1>9, <1>10 DEF TypeInv

LEMMA StartTypeNext == (Started => TypeInv)'
BY StartType, PTL

LEMMA TypeInit == Init => Started /\ TypeInv
<1> SUFFICES ASSUME Init PROVE Started
  BY StartType
<1>1. FileOK(file)
  BY AccountsAssumption DEF Init, FileOK
<1>3. connects \in Nat /\ requests \in Nat /\ starts \in Nat /\ made \subseteq Names \X Passwords
      /\ past \subseteq Events
  BY DEF Init
<1> QED BY <1>1, <1>3 DEF Init, Started, Loads

LEMMA RestartIs ==
    ASSUME TypeInv, Restart
    PROVE  /\ ~up /\ Started'
           /\ UNCHANGED <<file, alive, account, thr, connects, requests, made, past>>
<1>1. /\ ~up /\ up' = TRUE /\ Starts(file) /\ wrongs' = [n \in Cells |-> 0] /\ starts' = starts + 1
      /\ UNCHANGED <<file, alive, account, thr, connects, requests, made, past>>
  BY DEF Restart
<1>2. (\A k \in Threads : thr[k] = NoThread) /\ (\A s \in Slots : account[s] = Nil)
  BY <1>1 DEF TypeInv, RestRight
<1>3. thr = [k \in Threads |-> NoThread] /\ account = [s \in Slots |-> Nil]
  BY <1>2, TypesAre
<1>4. /\ node' = Loaded(file') /\ list' = [n \in 1 .. Loads(file') |-> n]
      /\ rear' = Loads(file') /\ used' = Loads(file')
  BY <1>1 DEF Starts, Loads
<1>5. connects' \in Nat /\ requests' \in Nat /\ starts' \in Nat
  BY <1>1 DEF TypeInv, RestRight
<1>6. FileOK(file') /\ made' \subseteq Names \X Passwords /\ past' \subseteq Events
  BY <1>1, TypesAre
<1> QED BY <1>1, <1>3, <1>4, <1>5, <1>6, TypesAre DEF Started

LEMMA TypeRestart == ASSUME TypeInv, Restart PROVE TypeInv'
BY RestartIs, StartTypeNext

LEMMA TypeStutter == ASSUME TypeInv, UNCHANGED vars PROVE TypeInv'
BY DEF TypeInv, TypeOK, ListRight, RestRight, TriesRight, Counting, ThreadRight, Fits, Listed

LEMMA TypeNext == TypeInv /\ [Next]_vars => TypeInv'
<1> SUFFICES ASSUME TypeInv, [Next]_vars PROVE TypeInv'
  OBVIOUS
<1>1. CASE Die
  BY <1>1, TypeDies DEF Die, Events
<1>2. CASE Restart
  BY <1>2, TypeRestart
<1>3. ASSUME NEW s \in Slots, Connect(s) \/ HangUp(s) \/ Request(s) PROVE TypeInv'
  BY <1>3, ConnectIs, RequestIs, TypeConnect, TypeHangUp, TypeRequest
<1>4. ASSUME NEW k \in Threads, Serve(k) PROVE TypeInv'
  BY <1>4, TypeAsk, TypeCheck, TypeLoad, TypeStore, TypeCompare, TypeEnter, TypeSetAccount,
     TypeTell, TypeAdd, TypeLink, TypeSetRear, TypeWalk, TypeWrite, TypeTellMade DEF Serve
<1>5. CASE UNCHANGED vars
  BY <1>5, TypeStutter
<1> QED BY <1>1, <1>2, <1>3, <1>4, <1>5 DEF Next

\* The types, and what they rest on: the list holds each account once, a thread
\* holds the account that it found or made, which nobody finds before it is
\* linked, and the file can be loaded.
THEOREM TypeInvariant == Spec => []TypeInv
<1>1. Init => TypeInv
  BY TypeInit
<1>2. TypeInv /\ [Next]_vars => TypeInv'
  BY TypeNext
<1> QED BY <1>1, <1>2, PTL DEF Spec

\* The variables keep their types, and no wrong password is counted that
\* nobody typed.
THEOREM TypeCorrect == Spec => []TypeOK
<1>1. TypeInv => TypeOK
  BY DEF TypeInv
<1> QED BY <1>1, TypeInvariant, PTL

-----------------------------------------------------------------------------
(***************************************************************************)
(* Wrong passwords.                                                        *)
(***************************************************************************)

\* What most steps leave alone: names, passwords, statuses and counts, and
\* every thread but one.
Frame(k) ==
    /\ \A n \in Cells : /\ node'[n].name = node[n].name /\ node'[n].pass = node[n].pass
                        /\ node'[n].status = node[n].status
                        /\ node'[n].wrongPassCount = node[n].wrongPassCount
    /\ wrongs' = wrongs /\ used' = used /\ past \subseteq past'
    /\ \A j \in Threads : j # k => thr'[j] = thr[j]

\* The steps that count nothing, leave the list and the file, and bring no
\* thread to where an account or a count is in its hands alone.
QuietStep(k) ==
    \/ ConnectsAt(k) \/ HangUp(SlotOf(k)) \/ RequestsAt(k) \/ Ask(k) \/ Check(k) \/ Enter(k)
    \/ SetAccount(k) \/ Tell(k) \/ SetRear(k) \/ TellMade(k)
    \/ Add(k) /\ Lookup(thr[k].name) # Nil

Held == {"store", "compare", "link", "write"}

Quietly(k) ==
    /\ Frame(k) /\ UNCHANGED <<file, list>>
    /\ thr'[k] = thr[k] \/ (thr'[k].pc \notin Held /\ thr[k].pc \notin Held)

LEMMA QuietGoes ==
    ASSUME TypeInv, NEW k \in Threads, NEW pc \in Pcs, pc \notin Held, thr[k].pc \notin Held,
           Ends(k) \/ Goes(k, pc), past \subseteq past',
           \A n \in Cells : /\ node'[n].name = node[n].name /\ node'[n].pass = node[n].pass
                            /\ node'[n].status = node[n].status
                            /\ node'[n].wrongPassCount = node[n].wrongPassCount,
           UNCHANGED <<wrongs, used, file, list>>
    PROVE  Quietly(k)
<1>1. CASE Ends(k)
  BY <1>1, TypesAre, EndsIs, NoThreadType DEF Quietly, Frame, Is, Held
<1>2. CASE Goes(k, pc)
  BY <1>2, TypesAre, GoesIs DEF Quietly, Frame, Is, On
<1> QED BY <1>1, <1>2

LEMMA QuietIs ==
    ASSUME TypeInv, NEW k \in Threads, QuietStep(k), up'
    PROVE  Quietly(k)
<1>0. thr \in [Threads -> Thread] /\ node \in [Cells -> Account]
  BY TypesAre
<1>1. CASE ConnectsAt(k) \/ RequestsAt(k)
  <2>1. PICK t \in Thread : BegunAt(k, t) /\ t.pc \in {"ask", "check"}
    BY <1>1, NewAre DEF ConnectsAt, RequestsAt
  <2>2. /\ thr' = [thr EXCEPT ![k] = t] /\ thr[k].pc = "none" /\ past \subseteq past'
        /\ UNCHANGED <<file, listVars, wrongs>>
    BY <1>1, <2>1 DEF ConnectsAt, RequestsAt, BegunAt
  <2> QED BY <1>0, <2>1, <2>2 DEF Quietly, Frame, Held
<1>2. CASE HangUp(SlotOf(k))
  <2>1. node' = SignedOut(SlotOf(k)) /\ UNCHANGED <<up, file, list, rear, used, thr, boundVars, history>>
    BY <1>2 DEF HangUp
  <2> QED BY <2>1, SignedOutIs, ThreadsAre DEF Quietly, Frame
<1>4. CASE Ask(k)
  <2>1. thr[k].pc = "ask" /\ UNCHANGED <<up, file, listVars, alive, account, boundVars, history>>
        /\ (Ends(k) \/ Goes(k, "check") \/ Goes(k, "add"))
    BY <1>4 DEF Ask, At
  <2> QED BY <2>1, QuietGoes DEF Held, Pcs
<1>5. CASE Check(k)
  <2>1. thr[k].pc = "check"
    BY <1>5 DEF Check, At
  <2>2. PICK n : n = Lookup(thr[k].name)
    OBVIOUS
  <2>3. n # Nil
    BY <1>5, <2>2 DEF Check, Dies
  <2>4. UNCHANGED <<up, file, listVars, alive, account, boundVars, history>>
    BY <1>5, <2>2, <2>3 DEF Check
  <2>5. CASE Ends(k)
    BY <2>1, <2>4, <2>5, QuietGoes DEF Held, Pcs
  <2>6. CASE ~Ends(k)
    <3>1. PICK pc \in {"enter", "load"} : pc = IF node[n].pass = thr[k].pass THEN "enter" ELSE "load"
      OBVIOUS
    <3>2. PICK t : t = [thr[k] EXCEPT !.n = n, !.pc = pc]
      OBVIOUS
    <3>3. thr' = [thr EXCEPT ![k] = t]
      BY <1>0, <1>5, <2>2, <2>3, <2>6, <3>1, <3>2 DEF Check
    <3>4. t.pc = pc
      BY <1>0, <3>2 DEF Thread
    <3> QED BY <1>0, <2>1, <2>4, <3>1, <3>3, <3>4 DEF Quietly, Frame, Held
  <2> QED BY <2>5, <2>6
<1>6. CASE Enter(k)
  <2>1. /\ thr[k].pc = "enter" /\ UNCHANGED <<file, list, used, wrongs>> /\ past \subseteq past'
        /\ \A n \in Cells : /\ node'[n].name = node[n].name /\ node'[n].pass = node[n].pass
                            /\ node'[n].status = node[n].status
                            /\ node'[n].wrongPassCount = node[n].wrongPassCount
    BY <1>6, EnterIs
  <2>2. Goes(k, "tell") \/ Goes(k, "set")
    BY <1>6 DEF Enter
  <2> QED BY <2>1, <2>2, QuietGoes DEF Held, Pcs
<1>7. CASE SetAccount(k)
  <2>1. thr[k].pc = "set"
    BY <1>7 DEF SetAccount, At
  <2>2. PICK n : n = Lookup(thr[k].name)
    OBVIOUS
  <2>3. n # Nil
    BY <1>7, <2>2 DEF SetAccount, Dies
  <2>4. /\ past \subseteq past' /\ (Ends(k) \/ Goes(k, "tell"))
        /\ UNCHANGED <<up, file, listVars, alive, boundVars, wrongs, made>>
    BY <1>7, <2>2, <2>3 DEF SetAccount
  <2> QED BY <2>1, <2>4, QuietGoes DEF Held, Pcs
<1>8. CASE Tell(k)
  <2>1. /\ thr[k].pc = "tell" /\ (Ends(k) \/ Goes(k, "set"))
        /\ UNCHANGED <<up, file, list, rear, used, alive, boundVars, wrongs, made>>
        /\ past \subseteq past' /\ (node' = node \/ node' = SignedOut(SlotOf(k)))
    BY <1>8 DEF Tell, At
  <2>2. \A n \in Cells : /\ node'[n].name = node[n].name /\ node'[n].pass = node[n].pass
                         /\ node'[n].status = node[n].status
                         /\ node'[n].wrongPassCount = node[n].wrongPassCount
    BY <2>1, SignedOutIs, ThreadsAre
  <2> QED BY <2>1, <2>2, QuietGoes DEF Held, Pcs
<1>9. CASE SetRear(k)
  <2>1. /\ thr[k].pc = "rear" /\ Goes(k, "walk")
        /\ UNCHANGED <<up, file, node, list, used, alive, account, boundVars, history>>
    BY <1>9 DEF SetRear, At
  <2> QED BY <2>1, QuietGoes DEF Held, Pcs
<1>10. CASE TellMade(k)
  <2>1. /\ thr[k].pc = "told" /\ Ends(k)
        /\ UNCHANGED <<up, file, listVars, alive, account, boundVars, wrongs, past>>
    BY <1>10 DEF TellMade, At
  <2> QED BY <2>1, QuietGoes DEF Held, Pcs
<1>11. CASE Add(k) /\ Lookup(thr[k].name) # Nil
  <2>1. /\ thr[k].pc = "add" /\ Goes(k, "told") /\ past' = past \cup {"name"} /\ UNCHANGED <<node, used>>
        /\ UNCHANGED <<up, file, list, rear, alive, account, boundVars, wrongs, made>>
    BY <1>11 DEF Add, At
  <2> QED BY <2>1, QuietGoes DEF Held, Pcs
<1> QED BY <1>1, <1>2, <1>4, <1>5, <1>6, <1>7, <1>8, <1>9, <1>10, <1>11 DEF QuietStep

\* The other steps of threads, as far as they are like those.
LEMMA LoadIs ==
    ASSUME TypeInv, NEW k \in Threads, LoadCount(k)
    PROVE  /\ Frame(k) /\ UNCHANGED <<file, list>> /\ thr[k].pc = "load" /\ thr[k].n \in Cells
           /\ thr'[k].pc = "store" /\ thr'[k].n = thr[k].n /\ thr'[k].name = thr[k].name
           /\ UNCHANGED <<node, alive, account>>
           /\ thr'[k].v = node[thr[k].n].wrongPassCount
<1>1. thr[k].pc = "load" /\ thr \in [Threads -> Thread]
  BY TypesAre DEF LoadCount, At
<1>2. PICK v : v = node[thr[k].n].wrongPassCount
  OBVIOUS
<1>3. PICK t : t = [thr[k] EXCEPT !.pc = "store", !.v = v]
  OBVIOUS
<1>4. thr' = [thr EXCEPT ![k] = t]
  BY <1>1, <1>2, <1>3 DEF LoadCount
<1>5. t.pc = "store" /\ t.v = v /\ t.n = thr[k].n /\ t.name = thr[k].name
  BY <1>1, <1>3 DEF Thread
<1>6. thr'[k] = t /\ \A j \in Threads : j # k => thr'[j] = thr[j]
  BY <1>1, <1>4
<1>7. thr[k].n \in Cells
  BY <1>1, TypesAre, MemoryIs DEF ThreadRight, Fits, Logins
<1>8. UNCHANGED <<up, file, listVars, alive, account, boundVars, history>>
  BY DEF LoadCount
<1> QED BY <1>1, <1>2, <1>5, <1>6, <1>7, <1>8 DEF Frame

LEMMA WalkFrame ==
    ASSUME TypeInv, NEW k \in Threads, Walk(k)
    PROVE  /\ Frame(k) /\ UNCHANGED <<file, list>> /\ thr[k].pc = "walk" /\ thr'[k].pc = "write"
           /\ thr'[k].n = thr[k].n /\ thr'[k].name = thr[k].name /\ thr'[k].pass = thr[k].pass
           /\ FileOK(thr'[k].lines) /\ DOMAIN thr'[k].lines = DOMAIN list
           /\ \A i \in DOMAIN list : /\ thr'[k].lines[i].name = node[list[i]].name
                                     /\ thr'[k].lines[i].pass = node[list[i]].pass
                                     /\ thr'[k].lines[i].status = node[list[i]].status
BY WalkIs DEF Frame, Is

LEMMA WriteIs ==
    ASSUME TypeInv, NEW k \in Threads, Write(k)
    PROVE  /\ Frame(k) /\ list' = list /\ thr[k].pc = "write" /\ thr'[k].pc = "told"
           /\ thr'[k].n = thr[k].n /\ thr'[k].name = thr[k].name /\ thr'[k].pass = thr[k].pass
           /\ FileOK(thr[k].lines) /\ FileOK(file) /\ file' = Over(thr[k].lines, file)
           /\ UNCHANGED <<up, listVars, alive, account, boundVars, history>>
<1>1. thr[k].pc = "write" /\ TypeOK
  BY TypesAre DEF Write, At
<1>2. file' = Over(thr[k].lines, file) /\ UNCHANGED <<up, listVars, alive, account, boundVars, history>>
  BY DEF Write
<1>3. PICK t : /\ Is(k, t) /\ t.pc = "told" /\ t.for = thr[k].for /\ t.name = thr[k].name
               /\ t.pass = thr[k].pass /\ t.n = thr[k].n /\ t.lines = thr[k].lines
  BY <1>1, GoesIs DEF Write, Pcs, On
<1>4. FileOK(thr[k].lines) /\ FileOK(file)
  BY <1>1, TypesAre DEF ThreadRight, Fits
<1> QED BY <1>1, <1>2, <1>3, <1>4 DEF Frame, Is

LEMMA LinkFrame ==
    ASSUME TypeInv, NEW k \in Threads, Link(k)
    PROVE  /\ Frame(k) /\ UNCHANGED <<file, node, rear, used, alive, account>> /\ thr[k].pc = "link"
           /\ thr'[k].pc = "rear" /\ thr'[k].n = thr[k].n /\ thr'[k].name = thr[k].name
           /\ thr'[k].pass = thr[k].pass
           /\ Listed' \subseteq Listed \cup {thr[k].n}
<1>1. /\ thr[k].pc = "link" /\ On(k, "rear") /\ past \subseteq past'
      /\ UNCHANGED <<up, file, node, rear, used, alive, account, boundVars, wrongs, made>>
  BY LinkIs
<1>2. Listed' \subseteq Listed \cup {thr[k].n}
  <2>1. CASE list' = list
    BY <2>1 DEF Listed
  <2>2. CASE \E p \in 1 .. Len(list) :
                    /\ DOMAIN list' = 1 .. p + 1
                    /\ \A i \in 1 .. p : list'[i] = list[i]
                    /\ list'[p + 1] = thr[k].n
    <3>1. PICK l \in Nat : l = Len(list) /\ DOMAIN list = 1 .. l
      BY ListShort DEF TypeInv, TypeOK
    <3>2. PICK p \in 1 .. l : /\ DOMAIN list' = 1 .. p + 1
                              /\ \A i \in 1 .. p : list'[i] = list[i]
                              /\ list'[p + 1] = thr[k].n
      BY <2>2, <3>1
    <3>3. ASSUME NEW i \in DOMAIN list'
          PROVE  (i \in DOMAIN list /\ list'[i] = list[i]) \/ list'[i] = thr[k].n
      BY <3>1, <3>2
    <3> QED BY <3>3 DEF Listed
  <2> QED BY <2>1, <2>2, LinkIs
<1>3. PICK t : /\ Is(k, t) /\ t.pc = "rear" /\ t.name = thr[k].name
               /\ t.pass = thr[k].pass /\ t.n = thr[k].n
  BY <1>1 DEF On
<1> QED BY <1>1, <1>2, <1>3 DEF Frame, Is

\* Every step is one of these.
LEMMA StepCases ==
    ASSUME TypeInv, [Next]_vars
    PROVE  \/ UNCHANGED vars
           \/ Restart
           \/ \E why : Dies(why) /\ up
           \/ \E k \in Threads : /\ up /\ up'
                               /\ \/ QuietStep(k) \/ LoadCount(k) \/ StoreCount(k) \/ Compare(k)
                                  \/ Link(k) \/ Walk(k) \/ Write(k)
                                  \/ Add(k) /\ Lookup(thr[k].name) = Nil
<1>1. CASE Die
  BY <1>1 DEF Die
<1>2. ASSUME NEW s \in Slots, Connect(s) \/ HangUp(s) \/ Request(s)
      PROVE  \E k \in Threads : up /\ up' /\ QuietStep(k)
  <2>1. up /\ up' = up
    BY <1>2 DEF Connect, HangUp, Request
  <2>2. CASE HangUp(s)
    <3>1. <<s, 1>> \in Threads /\ SlotOf(<<s, 1>>) = s
      BY ThreadsAre
    <3>2. PICK k \in Threads : SlotOf(k) = s
      BY <3>1
    <3> QED BY <2>1, <2>2, <3>2 DEF QuietStep
  <2> QED BY <1>2, <2>1, <2>2, ConnectIs, RequestIs DEF QuietStep
<1>3. ASSUME NEW k \in Threads, Serve(k)
      PROVE  \/ \E why : Dies(why) /\ up
             \/ /\ up /\ up'
                /\ \/ QuietStep(k) \/ LoadCount(k) \/ StoreCount(k) \/ Compare(k)
                   \/ Link(k) \/ Walk(k) \/ Write(k)
                   \/ Add(k) /\ Lookup(thr[k].name) = Nil
  <2>1. CASE Ask(k) \/ Enter(k) \/ Tell(k) \/ SetRear(k) \/ TellMade(k)
    BY <2>1 DEF Ask, Enter, Tell, SetRear, TellMade, At, QuietStep
  <2>2. CASE Check(k)
    <3>1. PICK n : n = Lookup(thr[k].name)
      OBVIOUS
    <3>2. CASE n = Nil
      BY <2>2, <3>1, <3>2 DEF Check, At
    <3>3. CASE n # Nil
      BY <2>2, <3>1, <3>3 DEF Check, At, QuietStep
    <3> QED BY <3>2, <3>3
  <2>3. CASE SetAccount(k)
    <3>1. PICK n : n = Lookup(thr[k].name)
      OBVIOUS
    <3>2. CASE n = Nil
      BY <2>3, <3>1, <3>2 DEF SetAccount, At
    <3>3. CASE n # Nil
      BY <2>3, <3>1, <3>3 DEF SetAccount, At, QuietStep
    <3> QED BY <3>2, <3>3
  <2>4. CASE LoadCount(k) \/ StoreCount(k) \/ Compare(k) \/ Link(k) \/ Walk(k) \/ Write(k)
    <3>1. up /\ up' = up
      BY <2>4 DEF LoadCount, StoreCount, Compare, Link, Walk, Write, At
    <3> QED BY <2>4, <3>1
  <2>5. CASE Add(k)
    BY <2>5 DEF Add, At, QuietStep
  <2> QED BY <1>3, <2>1, <2>2, <2>3, <2>4, <2>5 DEF Serve
<1> QED BY <1>1, <1>2, <1>3 DEF Next

\* The thread that counted the third.
Third(j, n) == thr[j].pc = "compare" /\ thr[j].n = n /\ thr[j].v = 2

\* The count of an account is what was typed, and the account is blocked from
\* the third on, or a thread is about to block it.
WrongRight(n) ==
    /\ wrongs[n] = node[n].wrongPassCount
    /\ n > used => wrongs[n] = 0
    /\ node[n].wrongPassCount >= 3 => node[n].status = "BLOCKED" \/ \E j \in Threads : Third(j, n)

\* So it is while no two threads have counted wrong passwords of one account
\* at once.
WrongInv == up /\ Never({"torn", "skipped"}) => \A n \in Cells : WrongRight(n)

\* An account that nobody counts for.
LEMMA WrongKept ==
    ASSUME TypeInv, NEW n \in Cells, WrongRight(n),
           wrongs'[n] = wrongs[n], used' = used \/ (used' \in Nat /\ used < used'),
           node'[n].wrongPassCount = node[n].wrongPassCount, node'[n].status = node[n].status,
           \A j \in Threads : Third(j, n) => Third(j, n)'
    PROVE  WrongRight(n)'
<1>1. PICK m \in Nat : m = n
  BY MemoryIs
<1>2. PICK u \in Nat : u = used
  BY MemoryIs
<1>3. n > used' => n > used
  BY <1>1, <1>2
<1> QED BY <1>3 DEF WrongRight

LEMMA NeverKept ==
    ASSUME NEW events, past \subseteq past', Never(events)'
    PROVE  Never(events)
BY DEF Never

LEMMA WrongStep ==
    ASSUME TypeInv, WrongInv, NEW k \in Threads, up, Never({"torn", "skipped"})',
           \/ QuietStep(k) /\ up'
           \/ LoadCount(k) \/ StoreCount(k) \/ Compare(k) \/ Link(k) \/ Walk(k) \/ Write(k)
           \/ Add(k) /\ Lookup(thr[k].name) = Nil
    PROVE  \A n \in Cells : WrongRight(n)'
<1>1. CASE (QuietStep(k) /\ up') \/ LoadCount(k) \/ Link(k) \/ Walk(k) \/ Write(k)
  <2>1. Frame(k) /\ (thr'[k] = thr[k] \/ thr[k].pc # "compare")
    BY <1>1, QuietIs, LoadIs, LinkFrame, WalkFrame, WriteIs DEF Quietly, Held
  <2>2. \A n \in Cells : WrongRight(n)
    BY <2>1, NeverKept DEF Frame, WrongInv
  <2>3. ASSUME NEW n \in Cells PROVE WrongRight(n)'
    <3>1. \A j \in Threads : Third(j, n) => Third(j, n)'
      BY <2>1 DEF Third, Frame
    <3> QED BY <2>1, <2>2, <3>1, WrongKept DEF Frame
  <2> QED BY <2>3
<1>2. CASE StoreCount(k)
  <2>1. PICK m \in Cells : m = thr[k].n /\ m \in 1 .. used
    BY <1>2, StoreIs
  <2>2. past \subseteq past' /\ "torn" \notin past'
    BY <1>2, StoreIs DEF Never
  <2>3. \A n \in Cells : WrongRight(n)
    BY <2>2, NeverKept DEF WrongInv
  <2>4. PICK t : Is(k, t) /\ t.pc = "compare" /\ t.n = m /\ t.v = thr[k].v
    BY <1>2, <2>1, StoreIs DEF On
  <2>5. thr[k].pc = "store" /\ thr'[k] = t /\ \A j \in Threads : j # k => thr'[j] = thr[j]
    BY <1>2, <2>4, StoreIs DEF Is
  <2>6. \A n \in Cells, j \in Threads : Third(j, n) => Third(j, n)'
    BY <2>5 DEF Third
  <2>7. ASSUME NEW n \in Cells, n # m PROVE WrongRight(n)'
    <3>1. /\ wrongs'[n] = wrongs[n] /\ used' = used
          /\ node'[n].wrongPassCount = node[n].wrongPassCount /\ node'[n].status = node[n].status
      BY <1>2, <2>1, <2>7, StoreIs
    <3> QED BY <2>3, <2>6, <3>1, WrongKept
  <2>8. WrongRight(m)'
    <3>1. PICK w \in Nat : w = node[m].wrongPassCount
      BY TypesAre DEF Account
    <3>2. thr[k].v = w
      BY <1>2, <2>1, <2>2, <3>1, StoreIs
    <3>3. wrongs[m] = w
      BY <2>3, <3>1 DEF WrongRight
    <3>4. node'[m].wrongPassCount = w + 1 /\ wrongs'[m] = w + 1 /\ node'[m].status = node[m].status
      BY <1>2, <2>1, <3>2, <3>3, StoreIs
    <3>5. ~(m > used')
      <4>1. PICK u \in Nat : u = used
        BY MemoryIs
      <4>2. used' = used
        BY <1>2, StoreIs
      <4> QED BY <2>1, <4>1, <4>2
    <3>6. w + 1 >= 3 => node'[m].status = "BLOCKED" \/ \E j \in Threads : Third(j, m)'
      <4>1. CASE w = 2
        <5>1. Third(k, m)'
          BY <2>4, <2>5, <3>2, <4>1 DEF Third
        <5> QED BY <5>1
      <4>2. CASE w >= 3
        <5>1. node[m].status = "BLOCKED" \/ \E j \in Threads : Third(j, m)
          BY <2>3, <3>1, <4>2 DEF WrongRight
        <5> QED BY <2>6, <3>4, <5>1
      <4> QED BY <3>1, <4>1, <4>2
    <3> QED BY <3>4, <3>5, <3>6 DEF WrongRight
  <2> QED BY <2>7, <2>8
<1>3. CASE Compare(k)
  <2>1. PICK m \in Cells : m = thr[k].n
    BY <1>3, CompareIs
  <2>2. past \subseteq past' /\ "skipped" \notin past'
    BY <1>3, CompareIs DEF Never
  <2>3. \A n \in Cells : WrongRight(n)
    BY <2>2, NeverKept DEF WrongInv
  <2>4. thr[k].pc = "compare" /\ \A j \in Threads : j # k => thr'[j] = thr[j]
    BY <1>3, CompareIs DEF Is
  <2>5. ASSUME NEW n \in Cells, n # m PROVE WrongRight(n)'
    <3>1. /\ wrongs'[n] = wrongs[n] /\ used' = used
          /\ node'[n].wrongPassCount = node[n].wrongPassCount /\ node'[n].status = node[n].status
      BY <1>3, <2>1, <2>5, CompareIs
    <3>2. \A j \in Threads : Third(j, n) => Third(j, n)'
      BY <2>1, <2>4, <2>5 DEF Third
    <3> QED BY <2>3, <3>1, <3>2, WrongKept
  <2>6. WrongRight(m)'
    <3>1. /\ wrongs'[m] = wrongs[m] /\ used' = used /\ node'[m].wrongPassCount = node[m].wrongPassCount
          /\ node'[m].status = IF node[m].wrongPassCount = 3 THEN "BLOCKED" ELSE node[m].status
      BY <1>3, <2>1, CompareIs
    <3>2. node[m].wrongPassCount = thr[k].v + 1
      BY <1>3, <2>1, <2>2, CompareIs
    <3>3. CASE thr[k].v = 2
      <4>1. node'[m].status = "BLOCKED"
        BY <3>1, <3>2, <3>3
      <4> QED BY <2>3, <3>1, <4>1 DEF WrongRight
    <3>4. CASE thr[k].v # 2
      <4>1. \A j \in Threads : Third(j, m) => Third(j, m)'
        BY <2>4, <3>4 DEF Third
      <4>2. node[m].status = "BLOCKED" => node'[m].status = "BLOCKED"
        BY <3>1
      <4> QED BY <2>3, <3>1, <4>1, <4>2 DEF WrongRight
    <3> QED BY <3>3, <3>4
  <2> QED BY <2>5, <2>6
<1>4. CASE Add(k) /\ Lookup(thr[k].name) = Nil
  <2>1. /\ thr[k].pc = "add" /\ wrongs' = wrongs /\ past' = past
        /\ used' = used + 1 /\ used' \in Cells
        /\ \A n \in Cells : n # used' => node'[n] = node[n]
        /\ node'[used'].wrongPassCount = 0
    BY <1>4, AddIs
  <2>2. PICK t : Is(k, t) /\ t.pc = "link"
    BY <1>4, AddIs
  <2>3. \A n \in Cells : WrongRight(n)
    BY <2>1, NeverKept DEF WrongInv
  <2>4. PICK u \in Nat : u = used /\ used' = u + 1
    BY <2>1, MemoryIs
  <2>5. \A n \in Cells, j \in Threads : Third(j, n) => Third(j, n)'
    BY <2>1, <2>2 DEF Third, Is
  <2>6. ASSUME NEW n \in Cells, n # used' PROVE WrongRight(n)'
    <3>1. used' \in Nat /\ used < used'
      BY <2>4
    <3> QED BY <2>1, <2>3, <2>5, <2>6, <3>1, WrongKept
  <2>7. ASSUME NEW n \in Cells, n = used' PROVE WrongRight(n)'
    <3>1. n > used
      BY <2>4, <2>7
    <3>2. WrongRight(n)
      BY <2>3
    <3>3. wrongs[n] = 0
      BY <3>1, <3>2 DEF WrongRight
    <3>4. wrongs'[n] = 0 /\ node'[n].wrongPassCount = 0
      BY <2>1, <2>7, <3>3
    <3> QED BY <3>4 DEF WrongRight
  <2> QED BY <2>1, <2>6, <2>7
<1> QED BY <1>1, <1>2, <1>3, <1>4

LEMMA WrongStart == Started => WrongInv
<1> SUFFICES ASSUME Started, NEW n \in Cells PROVE WrongRight(n)
  BY DEF WrongInv
<1>1. PICK f : f = file /\ FileOK(f)
  BY DEF Started
<1>2. Loaded(f)[n].wrongPassCount = 0
  BY <1>1, LoadedIs
<1>3. node[n].wrongPassCount = 0 /\ wrongs[n] = 0
  BY <1>1, <1>2 DEF Started
<1> QED BY <1>3 DEF WrongRight

LEMMA WrongStartNext == (Started => WrongInv)'
BY WrongStart, PTL

LEMMA WrongNext == TypeInv /\ WrongInv /\ [Next]_vars => WrongInv'
<1> SUFFICES ASSUME TypeInv, WrongInv, [Next]_vars PROVE WrongInv'
  OBVIOUS
<1>1. CASE UNCHANGED vars
  BY <1>1 DEF WrongInv, WrongRight, Third, Never
<1>2. CASE Restart
  BY <1>2, RestartIs, WrongStartNext
<1>3. ASSUME NEW why, Dies(why) PROVE WrongInv'
  BY <1>3 DEF Dies, WrongInv
<1>4. ASSUME NEW k \in Threads, up, up',
             \/ QuietStep(k) \/ LoadCount(k) \/ StoreCount(k) \/ Compare(k)
             \/ Link(k) \/ Walk(k) \/ Write(k)
             \/ Add(k) /\ Lookup(thr[k].name) = Nil
      PROVE  WrongInv'
  <2>1. CASE Never({"torn", "skipped"})'
    BY <1>4, <2>1, WrongStep DEF WrongInv
  <2>2. CASE ~Never({"torn", "skipped"})'
    BY <2>2 DEF WrongInv
  <2> QED BY <2>1, <2>2
<1> QED BY <1>1, <1>2, <1>3, <1>4, StepCases

\* The count in memory is the number of wrong passwords since the start, unless
\* wrongPassCount++ met itself: who is at a count of three and not blocked is
\* about to be, by the thread that counted the third.
THEOREM WrongInvariant == Spec => [](TypeInv /\ WrongInv)
<1>1. Init => TypeInv /\ WrongInv
  BY TypeInit, WrongStart
<1>2. TypeInv /\ WrongInv /\ [Next]_vars => (TypeInv /\ WrongInv)'
  BY TypeNext, WrongNext
<1> QED BY <1>1, <1>2, PTL DEF Spec

\* Three wrong passwords block an account, once the threads that counted them
\* are done, unless two of them counted at once.
THEOREM ThreeWrongBlock == Spec => []WrongBlocks
<1>1. TypeInv /\ WrongInv => WrongBlocks
  <2> SUFFICES ASSUME TypeInv, WrongInv, NEW n \in Listed, up, Never({"torn", "skipped"}),
                      wrongs[n] >= MAX_WRONG_PASS,
                      \A k \in Threads : thr[k].pc = "compare" => thr[k].n # n
               PROVE  node[n].status = "BLOCKED"
    BY DEF WrongBlocks
  <2>1. n \in Cells
    BY MemoryIs
  <2>2. WrongRight(n)
    BY <2>1 DEF WrongInv
  <2> QED BY <2>2 DEF WrongRight, Third, MAX_WRONG_PASS
<1> QED BY <1>1, WrongInvariant, PTL

-----------------------------------------------------------------------------
(***************************************************************************)
(* Why an account is blocked.                                              *)
(***************************************************************************)

\* Blocked, and not for what was typed since the start.
ByFile(n) == node[n].status = "BLOCKED" /\ ~(wrongs[n] >= 3)

Blocks(f, name) == \E i \in DOMAIN f : f[i].name = name /\ f[i].status = "BLOCKED"

\* No account counts more than was typed, also not the one that a thread is
\* about to count for.
CountsRight ==
    /\ \A n \in Cells : node[n].wrongPassCount <= wrongs[n]
    /\ \A j \in Threads : thr[j].pc = "store" => thr[j].v <= wrongs[thr[j].n]

\* The file, and every store that is under way, have the line that blocked it;
\* an account that is to be linked is new.
LinesRight ==
    /\ \A n \in Listed : ByFile(n) => Blocks(file, node[n].name)
    /\ \A j \in Threads : thr[j].pc = "write" =>
          \A n \in Listed : ByFile(n) => Blocks(thr[j].lines, node[n].name)
    /\ \A j \in Threads : thr[j].pc = "link" => ~ByFile(thr[j].n)

CauseInv == CountsRight /\ LinesRight

\* No step but a start blocks an account for less than three wrong passwords.
LEMMA ByFileShrinks ==
    ASSUME TypeInv, CauseInv, NEW k \in Threads,
           Frame(k) \/ StoreCount(k) \/ Compare(k)
    PROVE  \A n \in Cells : (ByFile(n)' => ByFile(n)) /\ node'[n].name = node[n].name
<1>1. CASE Frame(k)
  BY <1>1 DEF Frame, ByFile
<1>2. CASE StoreCount(k)
  <2>1. ASSUME NEW n \in Cells PROVE (ByFile(n)' => ByFile(n)) /\ node'[n].name = node[n].name
    <3>1. node'[n].status = node[n].status /\ node'[n].name = node[n].name
      BY <1>2, StoreIs
    <3>2. PICK w \in Nat : w = wrongs[n]
      BY TypesAre
    <3>3. wrongs'[n] = w \/ wrongs'[n] = w + 1
      BY <1>2, <3>2, StoreIs
    <3> QED BY <3>1, <3>2, <3>3 DEF ByFile
  <2> QED BY <2>1
<1>3. CASE Compare(k)
  <2>1. ASSUME NEW n \in Cells PROVE (ByFile(n)' => ByFile(n)) /\ node'[n].name = node[n].name
    <3>1. wrongs' = wrongs /\ node'[n].name = node[n].name
      BY <1>3, CompareIs
    <3>2. node'[n].status = node[n].status \/ node[n].wrongPassCount = 3
      BY <1>3, CompareIs
    <3>3. node[n].wrongPassCount = 3 => wrongs[n] >= 3
      <4>1. PICK w \in Nat, c \in Nat : w = wrongs[n] /\ c = node[n].wrongPassCount /\ c <= w
        BY TypesAre DEF CauseInv, CountsRight, Account
      <4> QED BY <4>1
    <3> QED BY <3>1, <3>2, <3>3 DEF ByFile
  <2> QED BY <2>1
<1> QED BY <1>1, <1>2, <1>3

\* So the lines are right when the list and the file stay.
LEMMA LinesKept ==
    ASSUME TypeInv, CauseInv, NEW k \in Threads,
           \A n \in Cells : (ByFile(n)' => ByFile(n)) /\ node'[n].name = node[n].name,
           UNCHANGED <<file, list>>,
           \A j \in Threads : j # k => thr'[j] = thr[j],
           thr'[k] = thr[k] \/ thr'[k].pc \notin {"write", "link"}
    PROVE  LinesRight'
<1>1. Listed' = Listed /\ Listed \subseteq Cells
  BY MemoryIs DEF Listed
<1>2. ASSUME NEW n \in Listed', ByFile(n)' PROVE Blocks(file', node'[n].name)
  BY <1>1, <1>2 DEF CauseInv, LinesRight
<1>3. ASSUME NEW j \in Threads, thr'[j].pc = "write", NEW n \in Listed', ByFile(n)'
      PROVE  Blocks(thr'[j].lines, node'[n].name)
  BY <1>1, <1>3 DEF CauseInv, LinesRight
<1>4. ASSUME NEW j \in Threads, thr'[j].pc = "link", NEW n, n = thr'[j].n PROVE ~ByFile(n)'
  <2>1. thr'[j] = thr[j] /\ thr[j].n \in Cells
    BY <1>4, TypesAre, MemoryIs DEF ThreadRight, Fits, SignUps
  <2>2. ~ByFile(thr[j].n)
    BY <1>4, <2>1 DEF CauseInv, LinesRight
  <2> QED BY <1>4, <2>1, <2>2
<1> QED BY <1>2, <1>3, <1>4 DEF LinesRight, ByFile

LEMMA CountsKept ==
    ASSUME TypeInv, CauseInv, NEW k \in Threads, Frame(k),
           thr'[k] = thr[k] \/ thr'[k].pc # "store"
    PROVE  CountsRight'
BY DEF Frame, CauseInv, CountsRight

LEMMA CauseStep ==
    ASSUME TypeInv, CauseInv, NEW k \in Threads, up, up',
           \/ QuietStep(k) \/ LoadCount(k) \/ StoreCount(k) \/ Compare(k)
           \/ Link(k) \/ Walk(k) \/ Write(k)
           \/ Add(k) /\ Lookup(thr[k].name) = Nil
    PROVE  CauseInv'
<1>1. CASE QuietStep(k)
  <2>1. Frame(k) /\ UNCHANGED <<file, list>> /\ (thr'[k] = thr[k] \/ thr'[k].pc \notin Held)
    BY <1>1, QuietIs DEF Quietly
  <2>2. CountsRight'
    BY <2>1, CountsKept DEF Held
  <2>3. LinesRight'
    BY <2>1, ByFileShrinks, LinesKept DEF Held, Frame
  <2> QED BY <2>2, <2>3 DEF CauseInv
<1>2. CASE LoadCount(k)
  <2>1. /\ Frame(k) /\ UNCHANGED <<file, list>> /\ thr'[k].pc = "store" /\ thr'[k].n = thr[k].n
        /\ thr[k].n \in Cells /\ thr'[k].v = node[thr[k].n].wrongPassCount
    BY <1>2, LoadIs
  <2>2. CountsRight'
    <3>1. thr'[k].v <= wrongs'[thr'[k].n]
      BY <2>1 DEF CauseInv, CountsRight, Frame
    <3>2. \A j \in Threads : thr'[j].pc = "store" => thr'[j].v <= wrongs'[thr'[j].n]
      BY <2>1, <3>1 DEF CauseInv, CountsRight, Frame
    <3>3. \A n \in Cells : node'[n].wrongPassCount <= wrongs'[n]
      BY <2>1 DEF CauseInv, CountsRight, Frame
    <3> QED BY <3>2, <3>3 DEF CountsRight
  <2>3. LinesRight'
    BY <2>1, ByFileShrinks, LinesKept DEF Frame
  <2> QED BY <2>2, <2>3 DEF CauseInv
<1>3. CASE StoreCount(k)
  <2>1. PICK m \in Cells : m = thr[k].n
    BY <1>3, StoreIs
  <2>2. PICK t : Is(k, t) /\ t.pc = "compare"
    BY <1>3, StoreIs DEF On
  <2>3. thr'[k].pc = "compare" /\ \A j \in Threads : j # k => thr'[j] = thr[j]
    BY <2>2 DEF Is
  <2>4. LinesRight'
    BY <1>3, <2>3, StoreIs, ByFileShrinks, LinesKept
  <2>5. CountsRight'
    <3>1. PICK w \in Nat, v \in Nat : w = wrongs[m] /\ v = thr[k].v
      BY TypesAre DEF Thread
    <3>2. v <= w /\ wrongs'[m] = w + 1 /\ node'[m].wrongPassCount = v + 1
      BY <1>3, <2>1, <3>1, StoreIs DEF CauseInv, CountsRight
    <3>3. ASSUME NEW n \in Cells PROVE node'[n].wrongPassCount <= wrongs'[n]
      <4>1. CASE n = m
        BY <3>1, <3>2, <4>1
      <4>2. CASE n # m
        <5>1. node'[n] = node[n] /\ wrongs'[n] = wrongs[n]
          BY <1>3, <2>1, <4>2, StoreIs
        <5> QED BY <5>1 DEF CauseInv, CountsRight
      <4> QED BY <4>1, <4>2
    <3>4. ASSUME NEW j \in Threads, thr'[j].pc = "store" PROVE thr'[j].v <= wrongs'[thr'[j].n]
      <4>1. thr'[j] = thr[j] /\ thr[j].v <= wrongs[thr[j].n]
        BY <2>3, <3>4 DEF CauseInv, CountsRight
      <4>2. PICK n \in Cells, x \in Nat : n = thr[j].n /\ x = thr[j].v
        BY <3>4, <4>1, TypesAre, MemoryIs DEF ThreadRight, Fits, Logins, Thread
      <4>3. CASE n = m
        BY <3>1, <3>2, <4>1, <4>2, <4>3
      <4>4. CASE n # m
        <5>1. wrongs'[n] = wrongs[n]
          BY <1>3, <2>1, <4>4, StoreIs
        <5> QED BY <4>1, <4>2, <5>1
      <4> QED BY <4>3, <4>4
    <3> QED BY <3>3, <3>4 DEF CountsRight
  <2> QED BY <2>4, <2>5 DEF CauseInv
<1>4. CASE Compare(k)
  <2>1. Is(k, NoThread)
    BY <1>4, CompareIs
  <2>2. thr'[k].pc = "none" /\ \A j \in Threads : j # k => thr'[j] = thr[j]
    BY <2>1, NoThreadType DEF Is
  <2>3. LinesRight'
    BY <1>4, <2>2, CompareIs, ByFileShrinks, LinesKept
  <2>4. wrongs' = wrongs /\ \A n \in Cells : node'[n].wrongPassCount = node[n].wrongPassCount
    BY <1>4, CompareIs
  <2>5. CountsRight'
    BY <2>2, <2>4 DEF CauseInv, CountsRight
  <2> QED BY <2>3, <2>5 DEF CauseInv
<1>5. CASE Link(k)
  <2>1. /\ Frame(k) /\ UNCHANGED <<file, node>> /\ thr[k].pc = "link" /\ thr'[k].pc = "rear"
        /\ thr'[k].n = thr[k].n /\ Listed' \subseteq Listed \cup {thr[k].n}
    BY <1>5, LinkFrame
  <2>2. CountsRight'
    BY <2>1, CountsKept
  <2>3. \A n \in Cells : (ByFile(n)' => ByFile(n)) /\ node'[n].name = node[n].name
    BY <2>1, ByFileShrinks
  <2>4. ~ByFile(thr[k].n) /\ thr[k].n \in Cells
    BY <2>1, TypesAre, MemoryIs DEF CauseInv, LinesRight, ThreadRight, Fits, SignUps
  <2>5. ASSUME NEW n \in Listed', ByFile(n)' PROVE n \in Listed /\ n \in Cells /\ ByFile(n)
    <3>1. n \in Cells
      BY <2>1, <2>4, MemoryIs
    <3> QED BY <2>1, <2>3, <2>4, <2>5, <3>1
  <2>6. ASSUME NEW n \in Listed', ByFile(n)' PROVE Blocks(file', node'[n].name)
    BY <2>1, <2>5, <2>6 DEF CauseInv, LinesRight
  <2>7. ASSUME NEW j \in Threads, thr'[j].pc = "write", NEW n \in Listed', ByFile(n)'
        PROVE  Blocks(thr'[j].lines, node'[n].name)
    BY <2>1, <2>5, <2>7 DEF CauseInv, LinesRight, Frame
  <2>8. ASSUME NEW j \in Threads, thr'[j].pc = "link", NEW n, n = thr'[j].n PROVE ~ByFile(n)'
    <3>1. thr'[j] = thr[j] /\ thr[j].n \in Cells
      BY <2>1, <2>8, TypesAre, MemoryIs DEF ThreadRight, Fits, SignUps, Frame
    <3>2. ~ByFile(thr[j].n)
      BY <2>8, <3>1 DEF CauseInv, LinesRight
    <3> QED BY <2>3, <2>8, <3>1, <3>2
  <2>9. LinesRight'
    BY <2>6, <2>7, <2>8 DEF LinesRight, ByFile
  <2> QED BY <2>2, <2>9 DEF CauseInv
<1>6. CASE Walk(k)
  <2>1. /\ Frame(k) /\ UNCHANGED <<file, list>> /\ thr'[k].pc = "write"
        /\ DOMAIN thr'[k].lines = DOMAIN list
        /\ \A i \in DOMAIN list : /\ thr'[k].lines[i].name = node[list[i]].name
                                  /\ thr'[k].lines[i].status = node[list[i]].status
    BY <1>6, WalkFrame
  <2>2. CountsRight'
    BY <2>1, CountsKept
  <2>3. \A n \in Cells : (ByFile(n)' => ByFile(n)) /\ node'[n].name = node[n].name
    BY <2>1, ByFileShrinks
  <2>4. Listed' = Listed /\ Listed \subseteq Cells
    BY <2>1, MemoryIs DEF Listed
  <2>5. ASSUME NEW n \in Listed', ByFile(n)' PROVE Blocks(file', node'[n].name)
    BY <2>1, <2>3, <2>4, <2>5 DEF CauseInv, LinesRight
  <2>6. ASSUME NEW j \in Threads, thr'[j].pc = "write", NEW n \in Listed', ByFile(n)'
        PROVE  Blocks(thr'[j].lines, node'[n].name)
    <3>1. CASE j = k
      <4>1. PICK i \in DOMAIN list : list[i] = n
        BY <2>4, <2>6 DEF Listed
      <4>2. node[n].status = "BLOCKED" /\ node'[n].name = node[n].name
        BY <2>3, <2>4, <2>6 DEF ByFile
      <4> QED BY <2>1, <3>1, <4>1, <4>2 DEF Blocks
    <3>2. CASE j # k
      BY <2>1, <2>3, <2>4, <2>6, <3>2 DEF CauseInv, LinesRight, Frame
    <3> QED BY <3>1, <3>2
  <2>7. ASSUME NEW j \in Threads, thr'[j].pc = "link", NEW n, n = thr'[j].n PROVE ~ByFile(n)'
    <3>1. thr'[j] = thr[j] /\ thr[j].n \in Cells
      BY <2>1, <2>7, TypesAre, MemoryIs DEF ThreadRight, Fits, SignUps, Frame
    <3>2. ~ByFile(thr[j].n)
      BY <2>7, <3>1 DEF CauseInv, LinesRight
    <3> QED BY <2>3, <2>7, <3>1, <3>2
  <2>8. LinesRight'
    BY <2>5, <2>6, <2>7 DEF LinesRight, ByFile
  <2> QED BY <2>2, <2>8 DEF CauseInv
<1>7. CASE Write(k)
  <2>1. /\ Frame(k) /\ list' = list /\ thr[k].pc = "write" /\ thr'[k].pc = "told"
        /\ FileOK(thr[k].lines) /\ FileOK(file) /\ file' = Over(thr[k].lines, file)
    BY <1>7, WriteIs
  <2>2. CountsRight'
    BY <2>1, CountsKept
  <2>3. \A n \in Cells : (ByFile(n)' => ByFile(n)) /\ node'[n].name = node[n].name
    BY <2>1, ByFileShrinks
  <2>4. Listed' = Listed /\ Listed \subseteq Cells
    BY <2>1, MemoryIs DEF Listed
  <2>5. ASSUME NEW n \in Listed', ByFile(n)' PROVE Blocks(file', node'[n].name)
    <3>1. PICK new : new = thr[k].lines
      OBVIOUS
    <3>2. Blocks(new, node[n].name)
      BY <2>1, <2>3, <2>4, <2>5, <3>1 DEF CauseInv, LinesRight
    <3>3. PICK i \in DOMAIN new : new[i].name = node[n].name /\ new[i].status = "BLOCKED"
      BY <3>2 DEF Blocks
    <3>o. PICK old : old = file
      OBVIOUS
    <3>a. FileOK(new) /\ FileOK(old) /\ file' = Over(new, old)
      BY <2>1, <3>1, <3>o
    <3>b. /\ DOMAIN Over(new, old) = DOMAIN new \cup DOMAIN old
          /\ \A h \in DOMAIN new : Over(new, old)[h] = new[h]
      BY <3>a, OverIs
    <3>4. i \in DOMAIN file' /\ file'[i] = new[i]
      BY <3>3, <3>a, <3>b
    <3> QED BY <2>3, <2>4, <3>3, <3>4 DEF Blocks
  <2>6. ASSUME NEW j \in Threads, thr'[j].pc = "write", NEW n \in Listed', ByFile(n)'
        PROVE  Blocks(thr'[j].lines, node'[n].name)
    BY <2>1, <2>3, <2>4, <2>6 DEF CauseInv, LinesRight, Frame
  <2>7. ASSUME NEW j \in Threads, thr'[j].pc = "link", NEW n, n = thr'[j].n PROVE ~ByFile(n)'
    <3>1. thr'[j] = thr[j] /\ thr[j].n \in Cells
      BY <2>1, <2>7, TypesAre, MemoryIs DEF ThreadRight, Fits, SignUps, Frame
    <3>2. ~ByFile(thr[j].n)
      BY <2>7, <3>1 DEF CauseInv, LinesRight
    <3> QED BY <2>3, <2>7, <3>1, <3>2
  <2>8. LinesRight'
    BY <2>5, <2>6, <2>7 DEF LinesRight, ByFile
  <2> QED BY <2>2, <2>8 DEF CauseInv
<1>8. CASE Add(k) /\ Lookup(thr[k].name) = Nil
  <2>1. /\ UNCHANGED <<file, list, wrongs>> /\ used' = used + 1 /\ used' \in Cells
        /\ \A n \in Cells : n # used' => node'[n] = node[n]
        /\ node'[used'].status = "ACTIVE" /\ node'[used'].wrongPassCount = 0
    BY <1>8, AddIs
  <2>2. PICK t : Is(k, t) /\ t.pc = "link" /\ t.n = used'
    BY <1>8, AddIs
  <2>3. thr'[k] = t /\ \A j \in Threads : j # k => thr'[j] = thr[j]
    BY <2>2 DEF Is
  <2>4. \A n \in Cells : n = used' => ~ByFile(n)'
    BY <2>1 DEF ByFile
  <2>5. \A n \in Cells : ByFile(n)' => ByFile(n) /\ n # used'
    BY <2>1, <2>4 DEF ByFile
  <2>6. \A n \in 1 .. used : n \in Cells /\ n # used' /\ node'[n] = node[n]
    BY <2>1, MemoryIs
  <2>7. CountsRight'
    <3>1. ASSUME NEW n \in Cells PROVE node'[n].wrongPassCount <= wrongs'[n]
      <4>1. PICK w \in Nat : w = wrongs[n]
        BY TypesAre
      <4>2. node'[n].wrongPassCount = 0 \/ node'[n] = node[n]
        BY <2>1
      <4> QED BY <2>1, <4>1, <4>2 DEF CauseInv, CountsRight
    <3> QED BY <2>1, <2>2, <2>3, <3>1 DEF CauseInv, CountsRight
  <2>8. Listed' = Listed /\ Listed \subseteq 1 .. used
    BY <2>1, MemoryIs DEF Listed
  <2>9. ASSUME NEW n \in Listed', ByFile(n)' PROVE Blocks(file', node'[n].name)
    BY <2>1, <2>5, <2>6, <2>8, <2>9 DEF CauseInv, LinesRight
  <2>10. ASSUME NEW j \in Threads, thr'[j].pc = "write", NEW n \in Listed', ByFile(n)'
        PROVE  Blocks(thr'[j].lines, node'[n].name)
    BY <2>2, <2>3, <2>5, <2>6, <2>8, <2>10 DEF CauseInv, LinesRight
  <2>11. ASSUME NEW j \in Threads, thr'[j].pc = "link", NEW n, n = thr'[j].n PROVE ~ByFile(n)'
    <3>1. CASE j = k
      BY <2>1, <2>2, <2>3, <2>4, <2>11, <3>1
    <3>2. CASE j # k
      <4>1. thr'[j] = thr[j] /\ thr[j].n \in Cells /\ ~ByFile(thr[j].n)
        BY <2>3, <2>11, <3>2, TypesAre, MemoryIs DEF ThreadRight, Fits, SignUps, CauseInv, LinesRight
      <4> QED BY <2>5, <2>11, <4>1
    <3> QED BY <3>1, <3>2
  <2>12. LinesRight'
    BY <2>9, <2>10, <2>11 DEF LinesRight, ByFile
  <2> QED BY <2>7, <2>12 DEF CauseInv
<1> QED BY <1>1, <1>2, <1>3, <1>4, <1>5, <1>6, <1>7, <1>8

LEMMA CauseStart == Started => CauseInv
<1> SUFFICES ASSUME Started PROVE CauseInv
  OBVIOUS
<1>1. PICK f : f = file /\ FileOK(f)
  BY DEF Started
<1>2. \A k \in Threads : thr[k].pc = "none"
  BY NoThreadType DEF Started
<1>3. CountsRight
  <2>1. ASSUME NEW n \in Cells PROVE node[n].wrongPassCount = 0 /\ wrongs[n] = 0
    <3>1. Loaded(f)[n].wrongPassCount = 0
      BY <1>1, LoadedIs
    <3> QED BY <1>1, <3>1 DEF Started
  <2> QED BY <1>2, <2>1 DEF CountsRight
<1>4. ASSUME NEW n \in Listed, ByFile(n) PROVE Blocks(file, node[n].name)
  <2>1. n \in 1 .. Loads(f)
    BY <1>1 DEF Started, Listed
  <2>2. /\ node[n].name = f[LineOf(f, n)].name /\ node[n].status = f[LineOf(f, n)].status
    <3>1. node = Loaded(f)
      BY <1>1 DEF Started
    <3> QED BY <1>1, <2>1, <3>1, LoadedIs
  <2>3. LineOf(f, n) \in DOMAIN f
    BY <1>1, <2>1, RankIs, FreshIs
  <2> QED BY <1>1, <1>4, <2>2, <2>3 DEF ByFile, Blocks
<1>5. LinesRight
  BY <1>2, <1>4 DEF LinesRight
<1> QED BY <1>3, <1>5 DEF CauseInv

LEMMA CauseStartNext == (Started => CauseInv)'
BY CauseStart, PTL

LEMMA CauseNext == TypeInv /\ CauseInv /\ [Next]_vars => CauseInv'
<1> SUFFICES ASSUME TypeInv, CauseInv, [Next]_vars PROVE CauseInv'
  OBVIOUS
<1>1. CASE UNCHANGED vars
  BY <1>1 DEF CauseInv, CountsRight, LinesRight, ByFile, Listed
<1>2. CASE Restart
  BY <1>2, RestartIs, CauseStartNext
<1>3. ASSUME NEW why, Dies(why) PROVE CauseInv'
  <2>1. /\ UNCHANGED <<file, node, list, wrongs>> /\ Listed' = Listed
        /\ \A j \in Threads : thr'[j].pc = "none"
    BY <1>3, NoThreadType DEF Dies, Listed
  <2> QED BY <2>1 DEF CauseInv, CountsRight, LinesRight, ByFile
<1>4. ASSUME NEW k \in Threads, up, up',
             \/ QuietStep(k) \/ LoadCount(k) \/ StoreCount(k) \/ Compare(k)
             \/ Link(k) \/ Walk(k) \/ Write(k)
             \/ Add(k) /\ Lookup(thr[k].name) = Nil
      PROVE  CauseInv'
  BY <1>4, CauseStep
<1> QED BY <1>1, <1>2, <1>3, <1>4, StepCases

\* What is blocked in memory, in the file, or in the lines that a thread is
\* about to store has its reason: three wrong passwords of this run, or the
\* file; an old store cannot take the reason out of the file.
THEOREM CauseInvariant == Spec => [](TypeInv /\ CauseInv)
<1>1. Init => TypeInv /\ CauseInv
  BY TypeInit, CauseStart
<1>2. TypeInv /\ CauseInv /\ [Next]_vars => (TypeInv /\ CauseInv)'
  BY TypeNext, CauseNext
<1> QED BY <1>1, <1>2, PTL DEF Spec

\* An account is blocked for three wrong passwords, or was when the server
\* started and still is in the file, whatever threads count and store at once.
THEOREM NobodyBlockedForLess == Spec => []BlockedForCause
<1>1. TypeInv /\ CauseInv => BlockedForCause
  BY DEF CauseInv, LinesRight, ByFile, Blocks, BlockedForCause, MAX_WRONG_PASS
<1> QED BY <1>1, CauseInvariant, PTL

-----------------------------------------------------------------------------
(***************************************************************************)
(* Who has signed up.  v is the list as a file has it: names and passwords *)
(* in the order of the list; f is a file.                                  *)
(***************************************************************************)

Apart(v) == \A i, j \in DOMAIN v : v[i].name = v[j].name => i = j

\* Every name of the file is in the list, no later than in the file.
Covers(v, f) == \A i \in DOMAIN f : \E p \in DOMAIN v : p <= i /\ v[p].name = f[i].name

\* The line that a start takes for a name has the password of its account.
Agrees(v, f) == \A i \in Fresh(f), p \in DOMAIN v : f[i].name = v[p].name => f[i].pass = v[p].pass

\* The lines of a store are the list as it was.
Prefix(l, v) ==
    /\ DOMAIN l \subseteq DOMAIN v
    /\ \A i \in DOMAIN l : l[i].name = v[i].name /\ l[i].pass = v[i].pass

Has(v, name, pass) == \E p \in DOMAIN v : v[p].name = name /\ v[p].pass = pass

Kept(v, f, name, pass) == Has(v, name, pass) /\ \E i \in DOMAIN f : f[i].name = name

\* A store of an earlier list loses no name, and gives none another password.
LEMMA StoreKeeps ==
    ASSUME NEW c \in Nat, NEW v, DOMAIN v = 1 .. c, NEW f, NEW l, FileOK(f), FileOK(l),
           Apart(v), Covers(v, f), Agrees(v, f), Prefix(l, v)
    PROVE  /\ Covers(v, Over(l, f)) /\ Agrees(v, Over(l, f))
           /\ \A name, pass : Kept(v, f, name, pass) => Kept(v, Over(l, f), name, pass)
           /\ \A name, pass : Has(l, name, pass) => Kept(v, Over(l, f), name, pass)
<1>1. PICK o : o = Over(l, f)
  OBVIOUS
<1>a. /\ DOMAIN Over(l, f) = DOMAIN l \cup DOMAIN f
      /\ \A i \in DOMAIN l : Over(l, f)[i] = l[i]
  BY OverIs
<1>b. \A i \in DOMAIN f : i \notin DOMAIN l => Over(l, f)[i] = f[i]
  BY OverIs
<1>2. /\ DOMAIN o = DOMAIN l \cup DOMAIN f
      /\ \A i \in DOMAIN l : o[i] = l[i]
      /\ \A i \in DOMAIN f : i \notin DOMAIN l => o[i] = f[i]
  BY <1>1, <1>a, <1>b
<1>3. PICK a \in Nat, b \in Nat : DOMAIN l = 1 .. a /\ DOMAIN f = 1 .. b
  BY DEF FileOK
<1>4. \A i \in DOMAIN l : i \in DOMAIN v /\ o[i].name = v[i].name /\ o[i].pass = v[i].pass
  BY <1>2 DEF Prefix
<1>5. ASSUME NEW i \in DOMAIN f, i \in DOMAIN l
      PROVE  \E p \in DOMAIN l : p <= i /\ o[p].name = f[i].name
  <2>1. PICK p \in DOMAIN v : p <= i /\ v[p].name = f[i].name
    BY DEF Covers
  <2>3. p \in 1 .. a
    BY <1>3, <1>5, <2>1
  <2> QED BY <1>3, <1>4, <2>1, <2>3
<1>6. Covers(v, o)
  <2>1. ASSUME NEW i \in DOMAIN o PROVE \E p \in DOMAIN v : p <= i /\ v[p].name = o[i].name
    <3>1. CASE i \in DOMAIN l
      <4>1. i <= i /\ i \in DOMAIN v /\ v[i].name = o[i].name
        BY <1>3, <1>4, <3>1
      <4> QED BY <4>1
    <3>2. CASE i \notin DOMAIN l
      BY <1>2, <3>2 DEF Covers
    <3> QED BY <3>1, <3>2
  <2> QED BY <2>1 DEF Covers
<1>7. Agrees(v, o)
  <2>1. ASSUME NEW i \in Fresh(o), NEW p \in DOMAIN v, o[i].name = v[p].name
        PROVE  o[i].pass = v[p].pass
    <3>1. i \in DOMAIN o /\ \A j \in 1 .. i - 1 : o[j].name # o[i].name
      BY DEF Fresh
    <3>2. CASE i \in DOMAIN l
      BY <1>4, <2>1, <3>2 DEF Apart
    <3>3. CASE i \notin DOMAIN l
      <4>1. i \in 1 .. b /\ i \in DOMAIN f /\ o[i] = f[i]
        BY <1>2, <1>3, <3>1, <3>3
      <4>2. ASSUME NEW j \in 1 .. i - 1, f[j].name = f[i].name PROVE FALSE
        <5>1. j \in 1 .. b
          BY <4>1, <4>2
        <5>2. j \in DOMAIN f
          BY <1>3, <5>1
        <5>3. CASE j \in DOMAIN l
          <6>1. PICK q \in DOMAIN l : q <= j /\ o[q].name = f[j].name
            BY <1>5, <5>2, <5>3
          <6>2. q \in 1 .. i - 1
            BY <1>3, <4>1, <4>2, <6>1
          <6> QED BY <3>1, <4>1, <4>2, <6>1, <6>2
        <5>4. CASE j \notin DOMAIN l
          <6>1. o[j] = f[j]
            BY <1>2, <5>2, <5>4
          <6> QED BY <3>1, <4>1, <4>2, <6>1
        <5> QED BY <5>3, <5>4
      <4>3. i \in Fresh(f)
        BY <4>1, <4>2 DEF Fresh
      <4> QED BY <2>1, <4>1, <4>3 DEF Agrees
    <3> QED BY <3>2, <3>3
  <2> QED BY <2>1 DEF Agrees
<1>8. ASSUME NEW name, NEW pass, Kept(v, f, name, pass) PROVE Kept(v, o, name, pass)
  <2>1. Has(v, name, pass)
    BY <1>8 DEF Kept
  <2>2. PICK i \in DOMAIN f : f[i].name = name
    BY <1>8 DEF Kept
  <2>3. CASE i \in DOMAIN l
    <3>1. PICK p \in DOMAIN l : o[p].name = name
      BY <1>5, <2>2, <2>3
    <3> QED BY <1>2, <2>1, <3>1 DEF Kept
  <2>4. CASE i \notin DOMAIN l
    BY <1>2, <2>1, <2>2, <2>4 DEF Kept
  <2> QED BY <2>3, <2>4
<1>9. ASSUME NEW name, NEW pass, Has(l, name, pass) PROVE Kept(v, o, name, pass)
  <2>1. PICK p \in DOMAIN l : l[p].name = name /\ l[p].pass = pass
    BY <1>9 DEF Has
  <2>2. p \in DOMAIN v /\ v[p].name = name /\ v[p].pass = pass /\ p \in DOMAIN o /\ o[p].name = name
    BY <1>2, <2>1 DEF Prefix
  <2> QED BY <2>2 DEF Kept, Has
<1> QED BY <1>1, <1>6, <1>7, <1>8, <1>9

\* A new name at the end of the list is in no file and no store before.
LEMMA AppendKeeps ==
    ASSUME NEW c \in Nat, NEW v, DOMAIN v = 1 .. c, NEW w, DOMAIN w = 1 .. c + 1,
           \A i \in 1 .. c : w[i] = v[i] /\ v[i].name # w[c + 1].name
    PROVE  /\ Apart(v) => Apart(w)
           /\ \A l : Prefix(l, v) => Prefix(l, w)
           /\ \A name, pass : Has(v, name, pass) => Has(w, name, pass)
           /\ Has(w, w[c + 1].name, w[c + 1].pass)
           /\ \A f : /\ Covers(v, f) => Covers(w, f)
                     /\ Covers(v, f) /\ Agrees(v, f) => Agrees(w, f)
                     /\ \A name, pass : Kept(v, f, name, pass) => Kept(w, f, name, pass)
<1>1. \A i \in DOMAIN w : i \in 1 .. c \/ i = c + 1
  OBVIOUS
<1>2. DOMAIN v \subseteq DOMAIN w /\ c + 1 \in DOMAIN w
  OBVIOUS
<1>3. Apart(v) => Apart(w)
  BY <1>1 DEF Apart
<1>4. \A l : Prefix(l, v) => Prefix(l, w)
  BY <1>2 DEF Prefix
<1>5. \A name, pass : Has(v, name, pass) => Has(w, name, pass)
  BY <1>2 DEF Has
<1>6. Has(w, w[c + 1].name, w[c + 1].pass)
  BY <1>2 DEF Has
<1>7. \A f : Covers(v, f) => Covers(w, f)
  BY <1>2 DEF Covers
<1>8. ASSUME NEW f, Covers(v, f), Agrees(v, f), NEW i \in Fresh(f), NEW p \in DOMAIN w,
             f[i].name = w[p].name
      PROVE  f[i].pass = w[p].pass
  <2>1. PICK q \in DOMAIN v : v[q].name = f[i].name
    BY <1>8 DEF Covers, Fresh
  <2>2. p # c + 1
    BY <1>8, <2>1
  <2>3. p \in DOMAIN v /\ w[p] = v[p]
    BY <1>1, <2>2
  <2> QED BY <1>8, <2>3 DEF Agrees
<1>9. \A f : Covers(v, f) /\ Agrees(v, f) => Agrees(w, f)
  BY <1>8 DEF Agrees
<1>10. \A f : \A name, pass : Kept(v, f, name, pass) => Kept(w, f, name, pass)
  BY <1>5 DEF Kept
<1> QED BY <1>3, <1>4, <1>5, <1>6, <1>7, <1>9, <1>10

\* A start makes an account of the first line of each name.
LEMMA LoadKeeps ==
    ASSUME NEW f, FileOK(f), NEW v, DOMAIN v = 1 .. Loads(f),
           \A n \in 1 .. Loads(f) : /\ v[n].name = f[LineOf(f, n)].name
                                    /\ v[n].pass = f[LineOf(f, n)].pass
    PROVE  /\ Apart(v) /\ Covers(v, f) /\ Agrees(v, f)
           /\ \A i \in Fresh(f) : Kept(v, f, f[i].name, f[i].pass)
<1>0. PICK a \in Nat : DOMAIN f = 1 .. a
  BY DEF FileOK
<1>1. \A i, j \in Fresh(f) : f[i].name = f[j].name => i = j
  <2>1. ASSUME NEW i \in Fresh(f), NEW j \in Fresh(f), f[i].name = f[j].name, i < j PROVE FALSE
    <3>1. i \in 1 .. a /\ j \in 1 .. a
      BY <1>0 DEF Fresh
    <3>2. i \in 1 .. j - 1
      BY <2>1, <3>1
    <3> QED BY <2>1, <3>2 DEF Fresh
  <2>2. \A i \in Fresh(f) : i \in Nat
    BY <1>0 DEF Fresh
  <2>3. \A i, j \in Fresh(f) : i = j \/ i < j \/ j < i
    BY <2>2
  <2> QED BY <2>1, <2>3
<1>2. \A n \in 1 .. Loads(f) : LineOf(f, n) \in Fresh(f) /\ Rank(f, LineOf(f, n)) = n
  BY RankIs
<1>3. \A i \in Fresh(f) : Rank(f, i) \in 1 .. Loads(f) /\ Rank(f, i) <= i /\ LineOf(f, Rank(f, i)) = i
  BY RankIs
<1>4. Apart(v)
  <2>1. ASSUME NEW n \in DOMAIN v, NEW m \in DOMAIN v, v[n].name = v[m].name PROVE n = m
    BY <1>1, <1>2, <2>1
  <2> QED BY <2>1 DEF Apart
<1>5. Covers(v, f)
  <2>1. ASSUME NEW i \in DOMAIN f PROVE \E p \in DOMAIN v : p <= i /\ v[p].name = f[i].name
    <3>1. PICK j \in Fresh(f) : j <= i /\ f[j].name = f[i].name
      BY FreshIs
    <3>2. PICK p : p = Rank(f, j)
      OBVIOUS
    <3>3. p \in DOMAIN v /\ p <= j /\ v[p].name = f[j].name
      BY <1>3, <3>2
    <3>4. p <= i
      <4>1. i \in Nat /\ j \in Nat
        BY <1>0 DEF Fresh
      <4>2. p \in Nat
        BY <3>3, FreshIs
      <4> QED BY <3>1, <3>3, <4>1, <4>2
    <3> QED BY <3>1, <3>3, <3>4
  <2> QED BY <2>1 DEF Covers
<1>6. Agrees(v, f)
  <2>1. ASSUME NEW i \in Fresh(f), NEW p \in DOMAIN v, f[i].name = v[p].name PROVE f[i].pass = v[p].pass
    <3>1. LineOf(f, p) = i
      BY <1>1, <1>2, <2>1
    <3> QED BY <3>1
  <2> QED BY <2>1 DEF Agrees
<1>7. ASSUME NEW i \in Fresh(f) PROVE Kept(v, f, f[i].name, f[i].pass)
  <2>1. PICK p : p = Rank(f, i)
    OBVIOUS
  <2>2. p \in DOMAIN v /\ v[p].name = f[i].name /\ v[p].pass = f[i].pass
    BY <1>3, <2>1
  <2>3. i \in DOMAIN f
    BY DEF Fresh
  <2> QED BY <2>2, <2>3 DEF Kept, Has
<1> QED BY <1>4, <1>5, <1>6, <1>7

\* The list as a store would write it.
View == [i \in DOMAIN list |-> [name |-> node[list[i]].name, pass |-> node[list[i]].pass]]

\* A sign-up that is past its link is in the list, then in the lines, then in
\* the file.
SignUpRight(t) ==
    /\ t.pc \in {"rear", "walk"} => Has(View, t.name, t.pass)
    /\ t.pc = "write" => Prefix(t.lines, View) /\ Has(t.lines, t.name, t.pass)
    /\ t.pc = "told" => Kept(View, file, t.name, t.pass)

ViewRight ==
    /\ Apart(View) /\ Covers(View, file) /\ Agrees(View, file)
    /\ \A m \in made : Kept(View, file, m[1], m[2])

KeptInv == Never({"append", "name"}) => ViewRight /\ \A j \in Threads : SignUpRight(thr[j])

LEMMA ViewIs ==
    ASSUME TypeInv
    PROVE  /\ DOMAIN View = DOMAIN list /\ DOMAIN View = 1 .. Len(list)
           /\ \A i \in DOMAIN list : /\ View[i].name = node[list[i]].name
                                     /\ View[i].pass = node[list[i]].pass
BY DEF View, TypeInv, TypeOK

\* The list reads as before when the steps of the accounts leave names and
\* passwords.
LEMMA ViewKept ==
    ASSUME TypeInv, list' = list,
           \A n \in 1 .. used : node'[n].name = node[n].name /\ node'[n].pass = node[n].pass
    PROVE  View' = View
<1>1. \A i \in DOMAIN list : list[i] \in 1 .. used
  BY MemoryIs DEF Listed
<1>2. \A i \in DOMAIN list : /\ node'[list[i]].name = node[list[i]].name
                             /\ node'[list[i]].pass = node[list[i]].pass
  BY <1>1
<1>3. View' = [i \in DOMAIN list |-> [name |-> node'[list[i]].name, pass |-> node'[list[i]].pass]]
  BY DEF View
<1> QED BY <1>2, <1>3 DEF View

LEMMA FrameView ==
    ASSUME TypeInv, NEW k \in Threads, Frame(k) \/ StoreCount(k) \/ Compare(k), list' = list
    PROVE  View' = View
<1>1. \A n \in Cells : node'[n].name = node[n].name /\ node'[n].pass = node[n].pass
  BY StoreIs, CompareIs DEF Frame
<1> QED BY <1>1, MemoryIs, ViewKept

\* What a step does that is no store, no walk and no link.
LEMMA QuietKeeps ==
    ASSUME TypeInv, NEW k \in Threads, QuietStep(k), up', "name" \notin past'
    PROVE  /\ \/ thr'[k].pc \notin {"rear", "walk", "write", "told"} \/ thr'[k] = thr[k]
              \/ /\ thr[k].pc = "rear" /\ thr'[k].pc = "walk"
                 /\ thr'[k].name = thr[k].name /\ thr'[k].pass = thr[k].pass
           /\ made' = made \/ (thr[k].pc = "told" /\ made' = made \cup {<<thr[k].name, thr[k].pass>>})
<1>0. thr \in [Threads -> Thread] /\ TypeOK
  BY TypesAre
<1>e. Ends(k) => thr'[k].pc \notin {"rear", "walk", "write", "told"}
  BY <1>0, EndsIs, NoThreadType DEF Is
<1>g. \A pc \in Pcs : Goes(k, pc) => thr'[k].pc = pc
  BY <1>0, GoesIs DEF On, Is
<1>1. CASE ConnectsAt(k) \/ RequestsAt(k)
  <2>1. PICK t \in Thread : BegunAt(k, t) /\ t.pc \in {"ask", "check"}
    BY <1>1, NewAre DEF ConnectsAt, RequestsAt
  <2>2. made' = made
    BY <1>1 DEF ConnectsAt, RequestsAt
  <2> QED BY <1>0, <2>1, <2>2 DEF BegunAt
<1>2. CASE HangUp(SlotOf(k))
  BY <1>2 DEF HangUp
<1>4. CASE Ask(k)
  <2>1. made' = made /\ (Ends(k) \/ Goes(k, "check") \/ Goes(k, "add"))
    BY <1>4 DEF Ask
  <2> QED BY <1>e, <1>g, <2>1 DEF Pcs
<1>5. CASE Check(k)
  <2>1. PICK n : n = Lookup(thr[k].name)
    OBVIOUS
  <2>2. n # Nil
    BY <1>5, <2>1 DEF Check, Dies
  <2>3. made' = made
    BY <1>5, <2>1, <2>2 DEF Check
  <2>4. CASE Ends(k)
    BY <1>e, <2>3, <2>4
  <2>5. CASE ~Ends(k)
    <3>1. PICK pc \in {"enter", "load"} : pc = IF node[n].pass = thr[k].pass THEN "enter" ELSE "load"
      OBVIOUS
    <3>2. PICK t : t = [thr[k] EXCEPT !.n = n, !.pc = pc]
      OBVIOUS
    <3>3. thr' = [thr EXCEPT ![k] = t]
      BY <1>0, <1>5, <2>1, <2>2, <2>5, <3>1, <3>2 DEF Check
    <3>4. t.pc = pc
      BY <1>0, <3>2 DEF Thread
    <3> QED BY <1>0, <2>3, <3>1, <3>3, <3>4
  <2> QED BY <2>4, <2>5
<1>6. CASE Enter(k)
  <2>1. made' = made /\ (Goes(k, "tell") \/ Goes(k, "set"))
    BY <1>6 DEF Enter
  <2> QED BY <1>g, <2>1 DEF Pcs
<1>7. CASE SetAccount(k)
  <2>1. PICK n : n = Lookup(thr[k].name)
    OBVIOUS
  <2>2. n # Nil
    BY <1>7, <2>1 DEF SetAccount, Dies
  <2>3. (Ends(k) \/ Goes(k, "tell")) /\ made' = made
    BY <1>7, <2>1, <2>2 DEF SetAccount
  <2> QED BY <1>e, <1>g, <2>3 DEF Pcs
<1>8. CASE Tell(k)
  <2>1. made' = made /\ (Ends(k) \/ Goes(k, "set"))
    BY <1>8 DEF Tell
  <2> QED BY <1>e, <1>g, <2>1 DEF Pcs
<1>9. CASE SetRear(k)
  <2>1. thr[k].pc = "rear" /\ Goes(k, "walk") /\ made' = made
    BY <1>9 DEF SetRear, At
  <2>2. On(k, "walk")
    BY <1>0, <2>1, GoesIs DEF Pcs
  <2> QED BY <2>1, <2>2 DEF On, Is
<1>10. CASE TellMade(k)
  <2>1. /\ thr[k].pc = "told" /\ Ends(k)
        /\ made' = made \/ made' = made \cup {<<thr[k].name, thr[k].pass>>}
    BY <1>10 DEF TellMade, At
  <2> QED BY <1>e, <2>1
<1>11. CASE Add(k) /\ Lookup(thr[k].name) # Nil
  BY <1>11 DEF Add
<1> QED BY <1>1, <1>2, <1>4, <1>5, <1>6, <1>7, <1>8, <1>9, <1>10, <1>11 DEF QuietStep

\* The list, the file and the others are as they were.
LEMMA KeptStays ==
    ASSUME TypeInv, ViewRight, \A j \in Threads : SignUpRight(thr[j]), NEW k \in Threads,
           View' = View, file' = file,
           \A j \in Threads : j # k => thr'[j] = thr[j],
           SignUpRight(thr'[k]),
           made' = made \/ (thr[k].pc = "told" /\ made' = made \cup {<<thr[k].name, thr[k].pass>>})
    PROVE  KeptInv'
<1>1. \A t : SignUpRight(t) => /\ t.pc \in {"rear", "walk"} => Has(View', t.name, t.pass)
                               /\ t.pc = "write" => Prefix(t.lines, View') /\ Has(t.lines, t.name, t.pass)
                               /\ t.pc = "told" => Kept(View', file', t.name, t.pass)
  BY DEF SignUpRight
<1>2. \A j \in Threads : SignUpRight(thr'[j])
  OBVIOUS
<1>3. (\A j \in Threads : SignUpRight(thr[j]))'
  BY <1>1, <1>2 DEF SignUpRight
<1>4. \A m \in made' : Kept(View, file, m[1], m[2])
  <2>1. CASE made' = made
    BY <2>1 DEF ViewRight
  <2>2. CASE thr[k].pc = "told" /\ made' = made \cup {<<thr[k].name, thr[k].pass>>}
    BY <2>2 DEF ViewRight, SignUpRight
  <2> QED BY <2>1, <2>2
<1>5. ViewRight'
  BY <1>4 DEF ViewRight
<1> QED BY <1>3, <1>5 DEF KeptInv

LEMMA KeptQuiet ==
    ASSUME TypeInv, ViewRight, \A j \in Threads : SignUpRight(thr[j]), NEW k \in Threads, up',
           "name" \notin past',
           QuietStep(k) \/ LoadCount(k) \/ StoreCount(k) \/ Compare(k)
           \/ (Add(k) /\ Lookup(thr[k].name) = Nil)
    PROVE  KeptInv'
<1>1. CASE QuietStep(k)
  <2>1. Frame(k) /\ UNCHANGED <<file, list>>
    BY <1>1, QuietIs DEF Quietly
  <2>2. View' = View /\ \A j \in Threads : j # k => thr'[j] = thr[j]
    BY <2>1, FrameView DEF Frame
  <2>3. SignUpRight(thr'[k])
    BY <1>1, QuietKeeps DEF SignUpRight
  <2>4. made' = made \/ (thr[k].pc = "told" /\ made' = made \cup {<<thr[k].name, thr[k].pass>>})
    BY <1>1, QuietKeeps
  <2> QED BY <2>1, <2>2, <2>3, <2>4, KeptStays
<1>2. CASE LoadCount(k)
  <2>1. Frame(k) /\ UNCHANGED <<file, list, made>> /\ thr'[k].pc = "store"
    BY <1>2, LoadIs DEF LoadCount
  <2>2. View' = View /\ \A j \in Threads : j # k => thr'[j] = thr[j]
    BY <2>1, FrameView DEF Frame
  <2> QED BY <2>1, <2>2, KeptStays DEF SignUpRight
<1>3. CASE StoreCount(k)
  <2>1. PICK t : Is(k, t) /\ t.pc = "compare"
    BY <1>3, StoreIs DEF On
  <2>2. UNCHANGED <<file, list, made>> /\ thr'[k].pc = "compare" /\ \A j \in Threads : j # k => thr'[j] = thr[j]
    BY <1>3, <2>1, StoreIs DEF Is
  <2>3. View' = View
    BY <1>3, <2>2, FrameView
  <2> QED BY <2>2, <2>3, KeptStays DEF SignUpRight
<1>4. CASE Compare(k)
  <2>1. UNCHANGED <<file, list, made>> /\ Is(k, NoThread)
    BY <1>4, CompareIs
  <2>2. thr'[k].pc = "none" /\ \A j \in Threads : j # k => thr'[j] = thr[j]
    BY <2>1, NoThreadType DEF Is
  <2>3. View' = View
    BY <1>4, <2>1, FrameView
  <2> QED BY <2>1, <2>2, <2>3, KeptStays DEF SignUpRight
<1>5. CASE Add(k) /\ Lookup(thr[k].name) = Nil
  <2>1. /\ UNCHANGED <<file, list, made>> /\ used' = used + 1
        /\ \A n \in Cells : n # used' => node'[n] = node[n]
    BY <1>5, AddIs
  <2>2. PICK t : Is(k, t) /\ t.pc = "link"
    BY <1>5, AddIs
  <2>3. thr'[k].pc = "link" /\ \A j \in Threads : j # k => thr'[j] = thr[j]
    BY <2>2 DEF Is
  <2>4. \A n \in 1 .. used : node'[n].name = node[n].name /\ node'[n].pass = node[n].pass
    BY <2>1, MemoryIs
  <2>5. View' = View
    BY <2>1, <2>4, ViewKept
  <2> QED BY <2>1, <2>3, <2>5, KeptStays DEF SignUpRight
<1> QED BY <1>1, <1>2, <1>3, <1>4, <1>5

LEMMA KeptWalk ==
    ASSUME TypeInv, ViewRight, \A j \in Threads : SignUpRight(thr[j]), NEW k \in Threads, Walk(k)
    PROVE  KeptInv'
<1>1. /\ Frame(k) /\ UNCHANGED <<file, list>> /\ thr[k].pc = "walk" /\ thr'[k].pc = "write"
      /\ thr'[k].name = thr[k].name /\ thr'[k].pass = thr[k].pass
      /\ DOMAIN thr'[k].lines = DOMAIN list
      /\ \A i \in DOMAIN list : /\ thr'[k].lines[i].name = node[list[i]].name
                                /\ thr'[k].lines[i].pass = node[list[i]].pass
  BY WalkFrame
<1>2. View' = View /\ (\A j \in Threads : j # k => thr'[j] = thr[j])
  BY <1>1, FrameView DEF Frame
<1>3. made' = made
  BY WalkIs
<1>4. PICK l : l = thr'[k].lines
  OBVIOUS
<1>5. DOMAIN l = DOMAIN View /\ \A i \in DOMAIN l : l[i].name = View[i].name /\ l[i].pass = View[i].pass
  BY <1>1, <1>4, ViewIs
<1>6. Has(View, thr[k].name, thr[k].pass)
  BY <1>1 DEF SignUpRight
<1>7. Prefix(l, View) /\ Has(l, thr[k].name, thr[k].pass)
  BY <1>5, <1>6 DEF Prefix, Has
<1>8. SignUpRight(thr'[k])
  BY <1>1, <1>4, <1>7 DEF SignUpRight
<1> QED BY <1>1, <1>2, <1>3, <1>8, KeptStays

LEMMA KeptWrite ==
    ASSUME TypeInv, ViewRight, \A j \in Threads : SignUpRight(thr[j]), NEW k \in Threads, Write(k)
    PROVE  KeptInv'
<1>1. /\ Frame(k) /\ list' = list /\ thr[k].pc = "write" /\ thr'[k].pc = "told"
      /\ thr'[k].name = thr[k].name /\ thr'[k].pass = thr[k].pass /\ made' = made
      /\ FileOK(thr[k].lines) /\ FileOK(file) /\ file' = Over(thr[k].lines, file)
  BY WriteIs
<1>2. View' = View /\ (\A j \in Threads : j # k => thr'[j] = thr[j])
  BY <1>1, FrameView DEF Frame
<1>c. PICK c \in Nat : DOMAIN View = 1 .. c
  BY ViewIs, ListShort
<1>3. PICK l, f, v : l = thr[k].lines /\ f = file /\ v = View /\ DOMAIN v = 1 .. c
  BY <1>c
<1>4. FileOK(f) /\ FileOK(l) /\ Apart(v) /\ Covers(v, f) /\ Agrees(v, f) /\ Prefix(l, v)
  BY <1>1, <1>3 DEF ViewRight, SignUpRight
<1>5. /\ Covers(v, Over(l, f)) /\ Agrees(v, Over(l, f))
      /\ \A name, pass : Kept(v, f, name, pass) => Kept(v, Over(l, f), name, pass)
      /\ \A name, pass : Has(l, name, pass) => Kept(v, Over(l, f), name, pass)
  BY <1>c, <1>3, <1>4, StoreKeeps
<1>6. /\ Covers(View, file') /\ Agrees(View, file')
      /\ \A name, pass : Kept(View, file, name, pass) => Kept(View, file', name, pass)
      /\ Kept(View, file', thr[k].name, thr[k].pass)
  BY <1>1, <1>3, <1>5 DEF SignUpRight
<1>7. ViewRight'
  BY <1>1, <1>2, <1>6 DEF ViewRight
<1>8. (\A j \in Threads : SignUpRight(thr[j]))'
  <2>1. ASSUME NEW j \in Threads
        PROVE  /\ thr'[j].pc \in {"rear", "walk"} => Has(View, thr'[j].name, thr'[j].pass)
               /\ thr'[j].pc = "write" => Prefix(thr'[j].lines, View) /\ Has(thr'[j].lines, thr'[j].name, thr'[j].pass)
               /\ thr'[j].pc = "told" => Kept(View, file', thr'[j].name, thr'[j].pass)
    <3>1. CASE j = k
      BY <1>1, <1>6, <3>1
    <3>2. CASE j # k
      BY <1>2, <1>6, <3>2 DEF SignUpRight
    <3> QED BY <3>1, <3>2
  <2> QED BY <1>2, <2>1 DEF SignUpRight
<1> QED BY <1>7, <1>8 DEF KeptInv

LEMMA KeptLink ==
    ASSUME TypeInv, ViewRight, \A j \in Threads : SignUpRight(thr[j]), NEW k \in Threads, Link(k),
           "name" \notin past', "append" \notin past'
    PROVE  KeptInv'
<1>1. /\ thr[k].pc = "link" /\ UNCHANGED <<file, node, made>> /\ rear = list[Len(list)]
      /\ Lookup(thr[k].name) = Nil
  BY LinkIs
<1>2. PICK c \in Nat : c = Len(list) /\ c >= 1 /\ list \in Seq(Cells) /\ DOMAIN list = 1 .. c
  BY ListShort DEF TypeInv, TypeOK
<1>3. rear \in Listed /\ rear = list[c] /\ c \in 1 .. c
  BY <1>1, <1>2 DEF Listed
<1>4. PICK p \in 1 .. c : /\ DOMAIN list' = 1 .. p + 1
                          /\ \A i \in 1 .. p : list'[i] = list[i]
                          /\ list'[p + 1] = thr[k].n /\ list[p] = rear
  BY <1>2, <1>3, LinkIs
<1>5. p = c
  BY <1>2, <1>3, <1>4 DEF TypeInv, ListRight
<1>6. PICK v, w : v = View /\ w = View'
  OBVIOUS
<1>7. w = [i \in 1 .. c + 1 |-> [name |-> node[list'[i]].name, pass |-> node[list'[i]].pass]]
  BY <1>1, <1>4, <1>5, <1>6 DEF View
<1>8. v = [i \in 1 .. c |-> [name |-> node[list[i]].name, pass |-> node[list[i]].pass]]
  BY <1>2, <1>6 DEF View
<1>9. DOMAIN v = 1 .. c /\ DOMAIN w = 1 .. c + 1
  BY <1>7, <1>8
<1>10. c + 1 \in 1 .. c + 1 /\ \A i \in 1 .. c : i \in 1 .. c + 1
  OBVIOUS
<1>11. node[thr[k].n].name = thr[k].name /\ node[thr[k].n].pass = thr[k].pass
  BY <1>1, TypesAre DEF ThreadRight, Fits, SignUps
<1>12. w[c + 1].name = thr[k].name /\ w[c + 1].pass = thr[k].pass
  BY <1>4, <1>5, <1>7, <1>10, <1>11
<1>13. \A i \in 1 .. c : node[list[i]].name # thr[k].name
  BY <1>1, <1>2, LookupIsLookIn, LookInIs, NilIsNoCell
<1>14. \A i \in 1 .. c : w[i] = v[i] /\ v[i].name # w[c + 1].name
  BY <1>4, <1>5, <1>7, <1>8, <1>10, <1>12, <1>13
<1>15. /\ Apart(v) => Apart(w)
       /\ \A l : Prefix(l, v) => Prefix(l, w)
       /\ \A name, pass : Has(v, name, pass) => Has(w, name, pass)
       /\ Has(w, w[c + 1].name, w[c + 1].pass)
       /\ \A f : /\ Covers(v, f) => Covers(w, f)
                 /\ Covers(v, f) /\ Agrees(v, f) => Agrees(w, f)
                 /\ \A name, pass : Kept(v, f, name, pass) => Kept(w, f, name, pass)
  BY <1>9, <1>14, AppendKeeps
<1>16. ViewRight'
  <2>1. Apart(w) /\ Covers(w, file) /\ Agrees(w, file) /\ \A m \in made : Kept(w, file, m[1], m[2])
    BY <1>6, <1>15 DEF ViewRight
  <2> QED BY <1>1, <1>6, <2>1 DEF ViewRight
<1>17. Has(w, thr[k].name, thr[k].pass)
  BY <1>12, <1>15
<1>18. (\A j \in Threads : SignUpRight(thr[j]))'
  <2>1. ASSUME NEW j \in Threads
        PROVE  /\ thr'[j].pc \in {"rear", "walk"} => Has(w, thr'[j].name, thr'[j].pass)
               /\ thr'[j].pc = "write" => Prefix(thr'[j].lines, w) /\ Has(thr'[j].lines, thr'[j].name, thr'[j].pass)
               /\ thr'[j].pc = "told" => Kept(w, file, thr'[j].name, thr'[j].pass)
    <3>1. CASE j = k
      BY <1>17, <3>1, LinkFrame
    <3>2. CASE j # k
      <4>1. thr'[j] = thr[j]
        BY <3>2, LinkFrame DEF Frame
      <4> QED BY <1>6, <1>15, <4>1 DEF SignUpRight
    <3> QED BY <3>1, <3>2
  <2> QED BY <1>1, <1>6, <2>1 DEF SignUpRight
<1> QED BY <1>16, <1>18 DEF KeptInv

\* What is in the file when the server starts, it has.
LEMMA KeptStart ==
    ASSUME Started, \A m \in made : \E i \in Fresh(file) : file[i].name = m[1] /\ file[i].pass = m[2]
    PROVE  KeptInv
<1>1. PICK f : f = file /\ FileOK(f)
  BY DEF Started
<1>2. list = [n \in 1 .. Loads(f) |-> n] /\ node = Loaded(f)
  BY <1>1 DEF Started
<1>3. PICK v : v = View
  OBVIOUS
<1>4. v = [i \in 1 .. Loads(f) |-> [name |-> Loaded(f)[i].name, pass |-> Loaded(f)[i].pass]]
  BY <1>2, <1>3 DEF View
<1>5. /\ DOMAIN v = 1 .. Loads(f)
      /\ \A n \in 1 .. Loads(f) : /\ v[n].name = f[LineOf(f, n)].name
                                  /\ v[n].pass = f[LineOf(f, n)].pass
  BY <1>1, <1>4, LoadedIs
<1>6. /\ Apart(v) /\ Covers(v, f) /\ Agrees(v, f)
      /\ \A i \in Fresh(f) : Kept(v, f, f[i].name, f[i].pass)
  BY <1>1, <1>5, LoadKeeps
<1>7. ViewRight
  BY <1>1, <1>3, <1>6 DEF ViewRight
<1>8. \A j \in Threads : SignUpRight(thr[j])
  BY NoThreadType DEF Started, SignUpRight
<1> QED BY <1>7, <1>8 DEF KeptInv

MadeInFile == \A m \in made : \E i \in Fresh(file) : file[i].name = m[1] /\ file[i].pass = m[2]

LEMMA KeptStartNext == (Started /\ MadeInFile => KeptInv)'
<1>1. Started /\ MadeInFile => KeptInv
  BY KeptStart DEF MadeInFile
<1> QED BY <1>1, PTL

\* Who was told has the first line of his name in the file.
LEMMA MadeLines ==
    ASSUME TypeInv, ViewRight
    PROVE  MadeInFile
<1>1. PICK f : f = file /\ FileOK(f)
  BY TypesAre
<1>2. ASSUME NEW m \in made
      PROVE  \E i \in Fresh(f) : f[i].name = m[1] /\ f[i].pass = m[2]
  <2>1. Kept(View, f, m[1], m[2]) /\ Agrees(View, f)
    BY <1>1 DEF ViewRight
  <2>2. PICK i \in DOMAIN f : f[i].name = m[1]
    BY <2>1 DEF Kept
  <2>3. PICK j \in Fresh(f) : f[j].name = m[1]
    BY <1>1, <2>2, FreshIs
  <2>4. f[j].pass = m[2]
    BY <2>1, <2>3 DEF Kept, Has, Agrees
  <2> QED BY <2>3, <2>4
<1> QED BY <1>1, <1>2 DEF MadeInFile

LEMMA KeptNext == TypeInv /\ KeptInv /\ [Next]_vars => KeptInv'
<1> SUFFICES ASSUME TypeInv, KeptInv, [Next]_vars PROVE KeptInv'
  OBVIOUS
<1>1. CASE UNCHANGED vars
  BY <1>1 DEF KeptInv, Never, ViewRight, SignUpRight, View
<1>2. CASE Restart
  <2>1. Started' /\ UNCHANGED <<file, made, past>>
    BY <1>2, RestartIs
  <2>2. CASE Never({"append", "name"})
    <3>1. MadeInFile
      BY <2>2, MadeLines DEF KeptInv
    <3>2. MadeInFile'
      BY <2>1, <3>1 DEF MadeInFile
    <3> QED BY <2>1, <3>2, KeptStartNext
  <2>3. CASE ~Never({"append", "name"})
    BY <2>1, <2>3 DEF KeptInv, Never
  <2> QED BY <2>2, <2>3
<1>3. ASSUME NEW why, Dies(why) PROVE KeptInv'
  <2>1. /\ UNCHANGED <<file, node, list, made>> /\ past \subseteq past'
        /\ \A j \in Threads : thr'[j].pc = "none"
    BY <1>3, NoThreadType DEF Dies
  <2>2. View' = View
    BY <2>1 DEF View
  <2>3. CASE Never({"append", "name"})'
    <3>1. ViewRight
      BY <2>1, <2>3, NeverKept DEF KeptInv
    <3> QED BY <2>1, <2>2, <3>1 DEF KeptInv, ViewRight, SignUpRight
  <2>4. CASE ~Never({"append", "name"})'
    BY <2>4 DEF KeptInv
  <2> QED BY <2>3, <2>4
<1>4. ASSUME NEW k \in Threads, up, up',
             \/ QuietStep(k) \/ LoadCount(k) \/ StoreCount(k) \/ Compare(k)
             \/ Link(k) \/ Walk(k) \/ Write(k)
             \/ Add(k) /\ Lookup(thr[k].name) = Nil
      PROVE  KeptInv'
  <2>1. past \subseteq past'
    BY <1>4, QuietIs, LoadIs, StoreIs, CompareIs, LinkFrame, WalkFrame, WriteIs, AddIs DEF Quietly, Frame
  <2>2. CASE Never({"append", "name"})'
    <3>1. ViewRight /\ \A j \in Threads : SignUpRight(thr[j])
      BY <2>1, <2>2, NeverKept DEF KeptInv
    <3>2. "append" \notin past' /\ "name" \notin past'
      BY <2>2 DEF Never
    <3> QED BY <1>4, <3>1, <3>2, KeptQuiet, KeptWalk, KeptWrite, KeptLink
  <2>3. CASE ~Never({"append", "name"})'
    BY <2>3 DEF KeptInv
  <2> QED BY <2>2, <2>3
<1> QED BY <1>1, <1>2, <1>3, <1>4, StepCases

\* The list, the file and every buffer of lines are views of one growing
\* sequence of accounts, each with its password: a store that comes late
\* writes a prefix of what is there, and r+ leaves the rest.  So it is until
\* two threads append at once or sign up one name.
THEOREM KeptInvariant == Spec => [](TypeInv /\ KeptInv)
<1>1. Init => TypeInv /\ KeptInv
  <2> SUFFICES ASSUME Init PROVE KeptInv
    BY TypeInit
  <2>1. Started /\ made = {}
    BY TypeInit DEF Init
  <2> QED BY <2>1, KeptStart
<1>2. TypeInv /\ KeptInv /\ [Next]_vars => (TypeInv /\ KeptInv)'
  BY TypeNext, KeptNext
<1> QED BY <1>1, <1>2, PTL DEF Spec

\* Who was told that his account is made finds it with his password, also
\* after a restart and in whatever order stores that overlap reach the file,
\* unless two threads appended at once or signed up one name.
THEOREM SignedUpStays == Spec => []SignedUpKept
<1>1. TypeInv /\ KeptInv => SignedUpKept
  <2> SUFFICES ASSUME TypeInv, KeptInv, Never({"append", "name"}), NEW m \in made
               PROVE  Lookup(m[1]) # Nil /\ node[Lookup(m[1])].pass = m[2]
    BY DEF SignedUpKept
  <2>1. Apart(View) /\ Has(View, m[1], m[2])
    BY DEF KeptInv, ViewRight, Kept
  <2>2. PICK p \in DOMAIN list : node[list[p]].name = m[1] /\ node[list[p]].pass = m[2]
    BY <2>1, ViewIs DEF Has
  <2>3. list \in Seq(Cells) /\ Lookup(m[1]) = LookIn(node, list, m[1])
    BY LookupIsLookIn DEF TypeInv, TypeOK
  <2>4. PICK i \in DOMAIN list : Lookup(m[1]) = list[i] /\ Lookup(m[1]) \in Cells /\ node[list[i]].name = m[1]
    BY <2>2, <2>3, LookInIs
  <2>5. i = p
    BY <2>1, <2>2, <2>4, ViewIs DEF Apart
  <2> QED BY <2>2, <2>4, <2>5, NilIsNoCell
<1> QED BY <1>1, KeptInvariant, PTL

-----------------------------------------------------------------------------
(***************************************************************************)
(* Who is logged in.                                                       *)
(***************************************************************************)

\* Who was found is found, as long as the list only grows.
LEMMA LookInStays ==
    ASSUME NEW nodes, NEW cells \in Seq(Cells), NEW nodes2, NEW cells2 \in Seq(Cells), NEW name,
           DOMAIN cells \subseteq DOMAIN cells2,
           \A i \in DOMAIN cells : /\ cells2[i] = cells[i]
                                   /\ nodes2[cells[i]].name = nodes[cells[i]].name,
           LookIn(nodes, cells, name) # Nil
    PROVE  LookIn(nodes2, cells2, name) = LookIn(nodes, cells, name)
<1>1. PICK i \in DOMAIN cells :
         /\ LookIn(nodes, cells, name) = cells[i] /\ nodes[cells[i]].name = name
         /\ \A j \in DOMAIN cells : j < i => nodes[cells[j]].name # name
  <2>1. \/ /\ LookIn(nodes, cells, name) = Nil
           /\ \A i \in DOMAIN cells : nodes[cells[i]].name # name
        \/ \E i \in DOMAIN cells :
              /\ LookIn(nodes, cells, name) = cells[i]
              /\ LookIn(nodes, cells, name) \in Cells
              /\ nodes[cells[i]].name = name
              /\ \A j \in DOMAIN cells : j < i => nodes[cells[j]].name # name
    BY LookInIs
  <2> QED BY <2>1
<1>2. i \in DOMAIN cells2 /\ nodes2[cells2[i]].name = name
  BY <1>1
<1>3. PICK h \in DOMAIN cells2 :
         /\ LookIn(nodes2, cells2, name) = cells2[h] /\ nodes2[cells2[h]].name = name
         /\ \A j \in DOMAIN cells2 : j < h => nodes2[cells2[j]].name # name
  <2>1. \/ \A j \in DOMAIN cells2 : nodes2[cells2[j]].name # name
        \/ \E h \in DOMAIN cells2 :
              /\ LookIn(nodes2, cells2, name) = cells2[h]
              /\ nodes2[cells2[h]].name = name
              /\ \A j \in DOMAIN cells2 : j < h => nodes2[cells2[j]].name # name
    BY LookInIs
  <2> QED BY <1>2, <2>1
<1>4. PICK a \in Nat, b \in Nat : DOMAIN cells = 1 .. a /\ DOMAIN cells2 = 1 .. b
  <2>1. Len(cells) \in Nat /\ Len(cells2) \in Nat
    OBVIOUS
  <2> QED BY <2>1
<1>5. ~(i < h)
  BY <1>2, <1>3
<1>6. ~(h < i)
  <2>1. SUFFICES ASSUME h < i PROVE FALSE
    OBVIOUS
  <2>2. h \in 1 .. a
    BY <1>4, <2>1
  <2> QED BY <1>1, <1>3, <1>4, <2>1, <2>2
<1>7. i = h
  BY <1>4, <1>5, <1>6
<1> QED BY <1>1, <1>3, <1>7

Found == \A name : Lookup(name) # Nil => Lookup(name)' = Lookup(name)

\* So it is with every step that appends no account in the wrong place.
LEMMA FoundStays ==
    ASSUME TypeInv, NEW k \in Threads, up', "append" \notin past',
           \/ QuietStep(k) \/ LoadCount(k) \/ StoreCount(k) \/ Compare(k)
           \/ Link(k) \/ Walk(k) \/ Write(k)
           \/ Add(k) /\ Lookup(thr[k].name) = Nil
    PROVE  Found
<1>1. \A n \in 1 .. used : node'[n].name = node[n].name
  <2>1. CASE Frame(k)
    BY <2>1, MemoryIs DEF Frame
  <2>2. CASE StoreCount(k) \/ Compare(k)
    BY <2>2, MemoryIs, StoreIs, CompareIs
  <2>3. CASE Add(k) /\ Lookup(thr[k].name) = Nil
    <3>1. used' = used + 1 /\ \A n \in Cells : n # used' => node'[n] = node[n]
      BY <2>3, AddIs
    <3> QED BY <3>1, MemoryIs
  <2> QED BY <2>1, <2>2, <2>3, QuietIs, LoadIs, LinkFrame, WalkFrame, WriteIs DEF Quietly
<1>2. list \in Seq(Cells) /\ \A i \in DOMAIN list : list[i] \in 1 .. used
  BY MemoryIs DEF TypeInv, TypeOK, Listed
<1>3. list' \in Seq(Cells) /\ DOMAIN list \subseteq DOMAIN list' /\ \A i \in DOMAIN list : list'[i] = list[i]
  <2>1. CASE list' = list
    BY <1>2, <2>1
  <2>2. CASE Link(k)
    <3>1. rear = list[Len(list)]
      BY <2>2, LinkIs
    <3>2. PICK c \in Nat : c = Len(list) /\ c >= 1 /\ DOMAIN list = 1 .. c
      BY <1>2, ListShort
    <3>3. rear \in Listed /\ rear = list[c] /\ c \in 1 .. c
      BY <3>1, <3>2 DEF Listed
    <3>4. PICK p \in 1 .. c : /\ DOMAIN list' = 1 .. p + 1 /\ list' \in Seq(Cells)
                              /\ \A i \in 1 .. p : list'[i] = list[i]
                              /\ list[p] = rear
      BY <2>2, <3>2, <3>3, LinkIs
    <3>5. p = c
      BY <3>2, <3>3, <3>4 DEF TypeInv, ListRight
    <3> QED BY <3>2, <3>4, <3>5
  <2> QED BY <2>1, <2>2, QuietIs, LoadIs, StoreIs, CompareIs, WalkFrame, WriteIs, AddIs DEF Quietly
<1>4. ASSUME NEW name, Lookup(name) # Nil PROVE Lookup(name)' = Lookup(name)
  <2>0. PICK a, b, c, d : a = node /\ b = list /\ c = node' /\ d = list'
    OBVIOUS
  <2>a. b \in Seq(Cells) /\ d \in Seq(Cells) /\ DOMAIN b \subseteq DOMAIN d
    BY <1>2, <1>3, <2>0
  <2>b. \A i \in DOMAIN b : d[i] = b[i] /\ c[b[i]].name = a[b[i]].name
    BY <1>1, <1>2, <1>3, <2>0
  <2>c. LookIn(a, b, name) # Nil
    BY <1>4, <2>0, LookupIsLookIn
  <2>d. LookIn(c, d, name) = LookIn(a, b, name)
    BY ONLY <2>a, <2>b, <2>c, LookInStays
  <2>1. LookIn(node', list', name) = LookIn(node, list, name)
    BY <2>0, <2>d
  <2> QED BY <2>1, LookupIsLookIn
<1> QED BY <1>4 DEF Found

\* What follows is about the first threads of the slots.
USE OwnIs

\* A thread that has logged in to its account, and has not given it to the
\* connection yet.
Given(k) == thr[Own(k)].pc = "set" \/ (thr[Own(k)].pc = "tell" /\ thr[Own(k)].for = "connect")

Holder(k, n) == account[k] = n \/ (Given(k) /\ thr[Own(k)].n = n)

LoginRight(k) ==
    /\ thr[Own(k)].pc # "none" /\ ~(thr[Own(k)].pc = "tell" /\ thr[Own(k)].for = "login") => account[k] = Nil
    /\ thr[Own(k)].pc = "none" /\ ~alive[k] => account[k] = Nil
    /\ \A n \in Cells : Holder(k, n) => node[n].isLogined /\ node[n].loginedClientConnfd = k
    /\ thr[Own(k)].pc \in Logins => LookIn(node, list, thr[Own(k)].name) = thr[Own(k)].n

HoldersRight == up => \A n \in Cells : node[n].isLogined => \E j \in Slots : Holder(j, n)

LoginInv ==
    Never({"twice", "left", "append", "stale"}) => (\A k \in Slots : LoginRight(k)) /\ HoldersRight

\* The other threads, while k takes no account from them.
LEMMA OthersKept ==
    ASSUME TypeInv, NEW k \in Slots, NEW j \in Slots, j # k, LoginRight(j), Found,
           thr'[Own(j)] = thr[Own(j)], account'[j] = account[j], alive'[j] = alive[j],
           \A n \in 1 .. used : Holder(j, n) =>
               /\ node'[n].isLogined = node[n].isLogined
               /\ node'[n].loginedClientConnfd = node[n].loginedClientConnfd
    PROVE  LoginRight(j)' /\ \A n \in Cells : Holder(j, n)' <=> Holder(j, n)
<1>1. \A n \in Cells : Holder(j, n)' <=> Holder(j, n)
  BY DEF Holder, Given
<1>2. \A n \in Cells : Holder(j, n) => n \in 1 .. used
  <2>1. ASSUME NEW n \in Cells, Holder(j, n) PROVE n \in 1 .. used
    <3>1. CASE account[j] = n
      BY <3>1, TypesAre, MemoryIs, NilIsNoCell
    <3>2. CASE Given(j) /\ thr[Own(j)].n = n
      BY <3>2, TypesAre DEF Given, ThreadRight, Fits, Logins
    <3> QED BY <2>1, <3>1, <3>2 DEF Holder
  <2> QED BY <2>1
<1>3. thr[Own(j)].pc \in Logins => Lookup(thr[Own(j)].name) # Nil
  <2>1. thr[Own(j)].pc \in Logins => thr[Own(j)].n # Nil
    BY TypesAre, MemoryIs, NilIsNoCell DEF ThreadRight, Fits
  <2> QED BY <2>1, LookupIsLookIn DEF LoginRight
<1>5. \A n \in Cells : Holder(j, n)' => node'[n].isLogined /\ node'[n].loginedClientConnfd = j
  BY <1>1, <1>2 DEF LoginRight
<1>6. thr'[Own(j)].pc \in Logins => LookIn(node', list', thr'[Own(j)].name) = thr'[Own(j)].n
  <2>1. PICK name : name = thr[Own(j)].name
    OBVIOUS
  <2>2. LookIn(node', list', name) = Lookup(name)' /\ LookIn(node, list, name) = Lookup(name)
    BY LookupIsLookIn
  <2>3. thr[Own(j)].pc \in Logins => Lookup(name)' = Lookup(name)
    BY <1>3, <2>1 DEF Found
  <2> QED BY <2>1, <2>2, <2>3 DEF LoginRight
<1> QED BY <1>1, <1>5, <1>6 DEF LoginRight

\* A step of a thread that has no account, and takes none.
LEMMA LoginNeutral ==
    ASSUME TypeInv, \A j \in Slots : LoginRight(j), HoldersRight, NEW k \in Slots, Found, up, up',
           account' = account, account[k] = Nil, ~Given(k),
           \A j \in Slots : j # k => thr'[Own(j)] = thr[Own(j)] /\ alive'[j] = alive[j],
           thr'[Own(k)].pc # "set", ~(thr'[Own(k)].pc = "tell" /\ thr'[Own(k)].for = "connect"),
           \A name : thr'[Own(k)].pc \in Logins /\ name = thr'[Own(k)].name => Lookup(name)' = thr'[Own(k)].n,
           \A n \in 1 .. used : /\ node'[n].isLogined = node[n].isLogined
                                /\ node'[n].loginedClientConnfd = node[n].loginedClientConnfd,
           \A n \in Cells : node'[n].isLogined => node[n].isLogined
    PROVE  LoginInv'
<1>1. ASSUME NEW j \in Slots, j # k
      PROVE  LoginRight(j)' /\ \A n \in Cells : Holder(j, n)' <=> Holder(j, n)
  BY <1>1, OthersKept
<1>2. \A n \in Cells : ~Holder(k, n) /\ ~Holder(k, n)'
  BY NilIsNoCell DEF Holder, Given
<1>3. LoginRight(k)'
  <2>1. thr'[Own(k)].pc \in Logins => LookIn(node', list', thr'[Own(k)].name) = thr'[Own(k)].n
    <3>1. PICK name : name = thr'[Own(k)].name
      OBVIOUS
    <3>2. LookIn(node', list', name) = Lookup(name)'
      BY LookupIsLookIn
    <3> QED BY <3>1, <3>2
  <2> QED BY <1>2, <2>1 DEF LoginRight
<1>4. HoldersRight'
  <2>1. ASSUME NEW n \in Cells, node'[n].isLogined PROVE \E j \in Slots : Holder(j, n)'
    <3>1. PICK j \in Slots : Holder(j, n)
      BY <2>1 DEF HoldersRight
    <3>2. j # k
      BY <1>2, <3>1
    <3> QED BY <1>1, <3>1, <3>2
  <2> QED BY <2>1 DEF HoldersRight
<1> QED BY <1>1, <1>3, <1>4 DEF LoginInv

\* A thread that is no longer there, or has not looked for its account.
NoLogin == {"none", "ask", "check", "add", "link", "rear", "walk", "write", "told"}

LEMMA LoginIdle ==
    ASSUME TypeInv, \A j \in Slots : LoginRight(j), HoldersRight, NEW k \in Slots, Found, up, up',
           account' = account, account[k] = Nil, ~Given(k),
           \A j \in Slots : j # k => thr'[Own(j)] = thr[Own(j)] /\ alive'[j] = alive[j],
           thr'[Own(k)].pc \in NoLogin,
           \A n \in 1 .. used : /\ node'[n].isLogined = node[n].isLogined
                                /\ node'[n].loginedClientConnfd = node[n].loginedClientConnfd,
           \A n \in Cells : node'[n].isLogined => node[n].isLogined
    PROVE  LoginInv'
<1>1. thr'[Own(k)].pc \notin Logins /\ thr'[Own(k)].pc # "set" /\ thr'[Own(k)].pc # "tell"
  BY DEF NoLogin, Logins
<1> QED BY <1>1, LoginNeutral

LEMMA LoginStep ==
    ASSUME TypeInv, \A j \in Slots : LoginRight(j), HoldersRight, NEW k \in Slots, Found, up, up',
           "stale" \notin past',
           \/ ConnectsAt(Own(k)) \/ RequestsAt(Own(k)) \/ Ask(Own(k)) \/ Check(Own(k)) \/ LoadCount(Own(k)) \/ StoreCount(Own(k))
           \/ Compare(Own(k)) \/ Add(Own(k)) \/ Link(Own(k)) \/ SetRear(Own(k)) \/ Walk(Own(k)) \/ Write(Own(k)) \/ TellMade(Own(k))
    PROVE  LoginInv'
<1>0. TypeOK /\ thr \in [Threads -> Thread] /\ alive \in [Slots -> BOOLEAN]
  BY TypesAre
<1>a. 1 .. used \subseteq Cells
  BY MemoryIs
<1>e. Ends(Own(k)) => thr'[Own(k)].pc = "none" /\ \A j \in Slots : j # k => thr'[Own(j)] = thr[Own(j)]
  BY <1>0, EndsIs, NoThreadType DEF Is
<1>g. \A pc \in Pcs : Goes(Own(k), pc) => thr'[Own(k)].pc = pc /\ \A j \in Slots : j # k => thr'[Own(j)] = thr[Own(j)]
  BY <1>0, GoesIs DEF On, Is
<1>b. thr[Own(k)].pc \notin {"none", "tell"} => account[k] = Nil
  BY DEF LoginRight
<1>1. CASE ConnectsAt(Own(k))
  <2>1. PICK t \in Thread : BegunAt(Own(k), t) /\ t.pc = "check"
    BY <1>1, NewAre DEF ConnectsAt
  <2>2. /\ thr' = [thr EXCEPT ![Own(k)] = t] /\ thr[Own(k)].pc = "none" /\ ~alive[k]
        /\ alive' = [alive EXCEPT ![k] = TRUE] /\ UNCHANGED <<node, account>>
    BY <1>1, <2>1 DEF ConnectsAt, BegunAt
  <2>4. account[k] = Nil
    BY <2>2 DEF LoginRight
  <2>5. \A j \in Slots : j # k => thr'[Own(j)] = thr[Own(j)] /\ alive'[j] = alive[j]
    BY <1>0, <2>2
  <2>6. thr'[Own(k)].pc \in NoLogin
    BY <1>0, <2>1, <2>2 DEF NoLogin
  <2> QED BY <2>2, <2>4, <2>5, <2>6, LoginIdle DEF Given
<1>2. CASE RequestsAt(Own(k))
  <2>1. PICK t \in Thread : BegunAt(Own(k), t) /\ t.pc = "ask"
    BY <1>2, NewAre DEF RequestsAt
  <2>3. /\ thr' = [thr EXCEPT ![Own(k)] = t] /\ thr[Own(k)].pc = "none" /\ account[k] = Nil
        /\ UNCHANGED <<node, account, alive>>
    BY <1>2, <2>1, NilIsNoCell DEF RequestsAt, BegunAt
  <2>5. \A j \in Slots : j # k => thr'[Own(j)] = thr[Own(j)] /\ alive'[j] = alive[j]
    BY <1>0, <2>3
  <2>6. thr'[Own(k)].pc \in NoLogin
    BY <1>0, <2>1, <2>3 DEF NoLogin
  <2> QED BY <2>3, <2>5, <2>6, LoginIdle DEF Given
<1>3. CASE Ask(Own(k))
  <2>1. thr[Own(k)].pc = "ask" /\ UNCHANGED <<node, account, alive>>
        /\ (Ends(Own(k)) \/ Goes(Own(k), "check") \/ Goes(Own(k), "add"))
    BY <1>3 DEF Ask, At
  <2>2. thr'[Own(k)].pc \in NoLogin /\ \A j \in Slots : j # k => thr'[Own(j)] = thr[Own(j)]
    BY <1>e, <1>g, <2>1 DEF Pcs, NoLogin
  <2> QED BY <1>b, <2>1, <2>2, LoginIdle DEF Given
<1>4. CASE Check(Own(k))
  <2>1. PICK n : n = Lookup(thr[Own(k)].name)
    OBVIOUS
  <2>2. n # Nil
    BY <1>4, <2>1 DEF Check, Dies
  <2>3. thr[Own(k)].pc = "check" /\ UNCHANGED <<node, list, account, alive>>
    BY <1>4, <2>1, <2>2 DEF Check, At
  <2>4. CASE Ends(Own(k))
    <3>1. thr'[Own(k)].pc \in NoLogin /\ \A j \in Slots : j # k => thr'[Own(j)] = thr[Own(j)]
      BY <1>e, <2>4 DEF NoLogin
    <3> QED BY <1>b, <2>3, <3>1, LoginIdle DEF Given
  <2>5. CASE ~Ends(Own(k))
    <3>1. PICK pc \in {"enter", "load"} : pc = IF node[n].pass = thr[Own(k)].pass THEN "enter" ELSE "load"
      OBVIOUS
    <3>2. PICK t : t = [thr[Own(k)] EXCEPT !.n = n, !.pc = pc]
      OBVIOUS
    <3>3. thr' = [thr EXCEPT ![Own(k)] = t]
      BY <1>0, <1>4, <2>1, <2>2, <2>5, <3>1, <3>2 DEF Check
    <3>4. t.pc = pc /\ t.n = n /\ t.name = thr[Own(k)].name
      BY <1>0, <3>2 DEF Thread
    <3>5. thr'[Own(k)] = t /\ \A j \in Slots : j # k => thr'[Own(j)] = thr[Own(j)]
      BY <1>0, <3>3
    <3>6. \A name : name = thr[Own(k)].name => Lookup(name)' = n
      BY <2>1, <2>2 DEF Found
    <3> QED BY <1>b, <2>3, <3>1, <3>4, <3>5, <3>6, LoginNeutral DEF Given
  <2> QED BY <2>4, <2>5
<1>5. CASE LoadCount(Own(k))
  <2>1. /\ thr[Own(k)].pc = "load" /\ UNCHANGED <<node, account, alive>> /\ thr'[Own(k)].pc = "store"
        /\ thr'[Own(k)].n = thr[Own(k)].n /\ thr'[Own(k)].name = thr[Own(k)].name
        /\ \A j \in Slots : j # k => thr'[Own(j)] = thr[Own(j)]
    BY <1>5, LoadIs DEF Frame
  <2>2. PICK name, n : name = thr[Own(k)].name /\ n = thr[Own(k)].n
    OBVIOUS
  <2>3. Lookup(name) = n /\ n # Nil
    <3>1. LookIn(node, list, name) = n
      BY <2>1, <2>2 DEF LoginRight, Logins
    <3>2. n # Nil
      BY <2>1, <2>2, TypesAre, MemoryIs, NilIsNoCell DEF ThreadRight, Fits, Logins
    <3> QED BY <3>1, <3>2, LookupIsLookIn
  <2>4. Lookup(name)' = n
    BY <2>3 DEF Found
  <2> QED BY <1>b, <2>1, <2>2, <2>4, LoginNeutral DEF Given
<1>6. CASE StoreCount(Own(k))
  <2>1. PICK t : Is(Own(k), t) /\ t.pc = "compare" /\ t.n = thr[Own(k)].n /\ t.name = thr[Own(k)].name
    BY <1>6, StoreIs DEF On
  <2>2. /\ thr[Own(k)].pc = "store" /\ UNCHANGED <<account, alive>>
        /\ \A n \in Cells : /\ node'[n].isLogined = node[n].isLogined
                            /\ node'[n].loginedClientConnfd = node[n].loginedClientConnfd
    BY <1>6, StoreIs
  <2>3. thr'[Own(k)] = t /\ \A j \in Slots : j # k => thr'[Own(j)] = thr[Own(j)]
    BY <2>1 DEF Is
  <2>4. PICK name, n : name = thr[Own(k)].name /\ n = thr[Own(k)].n
    OBVIOUS
  <2>5. Lookup(name) = n /\ n # Nil
    <3>1. LookIn(node, list, name) = n
      BY <2>2, <2>4 DEF LoginRight, Logins
    <3>2. n # Nil
      BY <2>2, <2>4, TypesAre, MemoryIs, NilIsNoCell DEF ThreadRight, Fits, Logins
    <3> QED BY <3>1, <3>2, LookupIsLookIn
  <2>6. Lookup(name)' = n
    BY <2>5 DEF Found
  <2> QED BY <1>a, <1>b, <2>1, <2>2, <2>3, <2>4, <2>6, LoginNeutral DEF Given
<1>7. CASE Compare(Own(k))
  <2>1. /\ thr[Own(k)].pc = "compare" /\ UNCHANGED <<account, alive>> /\ Is(Own(k), NoThread)
        /\ \A n \in Cells : /\ node'[n].isLogined = node[n].isLogined
                            /\ node'[n].loginedClientConnfd = node[n].loginedClientConnfd
    BY <1>7, CompareIs
  <2>2. thr'[Own(k)].pc \in NoLogin /\ \A j \in Slots : j # k => thr'[Own(j)] = thr[Own(j)]
    BY <2>1, NoThreadType DEF Is, NoLogin
  <2> QED BY <1>a, <1>b, <2>1, <2>2, LoginIdle DEF Given
<1>8. CASE Add(Own(k))
  <2>1. thr[Own(k)].pc = "add" /\ UNCHANGED <<account, alive>>
    BY <1>8, AddIs
  <2>2. \/ On(Own(k), "told") /\ node' = node
        \/ /\ used' = used + 1 /\ \A n \in Cells : n # used' => node'[n] = node[n]
           /\ node'[used'].isLogined = FALSE
           /\ \E t : Is(Own(k), t) /\ t.pc = "link"
    BY <1>8, AddIs
  <2>3. thr'[Own(k)].pc \in NoLogin /\ \A j \in Slots : j # k => thr'[Own(j)] = thr[Own(j)]
    BY <2>2 DEF On, Is, NoLogin
  <2>4. /\ \A n \in 1 .. used : /\ node'[n].isLogined = node[n].isLogined
                                /\ node'[n].loginedClientConnfd = node[n].loginedClientConnfd
        /\ \A n \in Cells : node'[n].isLogined => node[n].isLogined
    BY <2>2, MemoryIs
  <2> QED BY <1>b, <2>1, <2>3, <2>4, LoginIdle DEF Given
<1>9. CASE Link(Own(k))
  <2>1. /\ thr[Own(k)].pc = "link" /\ UNCHANGED <<node, account, alive>> /\ thr'[Own(k)].pc \in NoLogin
        /\ \A j \in Slots : j # k => thr'[Own(j)] = thr[Own(j)]
    BY <1>9, LinkFrame DEF NoLogin, Frame
  <2> QED BY <1>b, <2>1, LoginIdle DEF Given
<1>10. CASE SetRear(Own(k))
  <2>1. thr[Own(k)].pc = "rear" /\ Goes(Own(k), "walk") /\ UNCHANGED <<node, account, alive>>
    BY <1>10 DEF SetRear, At
  <2>2. thr'[Own(k)].pc \in NoLogin /\ \A j \in Slots : j # k => thr'[Own(j)] = thr[Own(j)]
    BY <1>g, <2>1 DEF Pcs, NoLogin
  <2> QED BY <1>b, <2>1, <2>2, LoginIdle DEF Given
<1>11. CASE Walk(Own(k))
  <2>1. /\ thr[Own(k)].pc = "walk" /\ UNCHANGED <<node, account, alive>> /\ thr'[Own(k)].pc \in NoLogin
        /\ \A j \in Slots : j # k => thr'[Own(j)] = thr[Own(j)]
    BY <1>11, WalkFrame, WalkIs DEF NoLogin, Frame
  <2> QED BY <1>b, <2>1, LoginIdle DEF Given
<1>12. CASE Write(Own(k))
  <2>1. /\ thr[Own(k)].pc = "write" /\ UNCHANGED <<node, account, alive>> /\ thr'[Own(k)].pc \in NoLogin
        /\ \A j \in Slots : j # k => thr'[Own(j)] = thr[Own(j)]
    BY <1>12, WriteIs DEF NoLogin, Frame
  <2> QED BY <1>b, <2>1, LoginIdle DEF Given
<1>13. CASE TellMade(Own(k))
  <2>1. thr[Own(k)].pc = "told" /\ Ends(Own(k)) /\ UNCHANGED <<node, account, alive>>
    BY <1>13 DEF TellMade, At
  <2>2. thr'[Own(k)].pc \in NoLogin /\ \A j \in Slots : j # k => thr'[Own(j)] = thr[Own(j)]
    BY <1>e, <2>1 DEF NoLogin
  <2> QED BY <1>b, <2>1, <2>2, LoginIdle DEF Given
<1> QED BY <1>1, <1>2, <1>3, <1>4, <1>5, <1>6, <1>7, <1>8, <1>9, <1>10, <1>11, <1>12, <1>13

\* The slot of the one holder is not that of another.
LEMMA OneHolder ==
    ASSUME NEW k \in Slots, NEW j \in Slots, LoginRight(k), LoginRight(j), NEW n \in Cells,
           Holder(k, n), Holder(j, n)
    PROVE  j = k
BY DEF LoginRight

LEMMA SameLookup ==
    ASSUME TypeInv, NEW k \in Slots, LoginRight(k), Found, thr[Own(k)].pc \in Logins,
           thr'[Own(k)].name = thr[Own(k)].name, thr'[Own(k)].n = thr[Own(k)].n
    PROVE  LookIn(node', list', thr'[Own(k)].name) = thr'[Own(k)].n /\ Lookup(thr[Own(k)].name) = thr[Own(k)].n
<1>1. PICK name, n : name = thr[Own(k)].name /\ n = thr[Own(k)].n
  OBVIOUS
<1>2. LookIn(node, list, name) = n
  BY <1>1 DEF LoginRight
<1>3. n # Nil
  BY <1>1, TypesAre, MemoryIs, NilIsNoCell DEF ThreadRight, Fits
<1>4. Lookup(name) = n
  BY <1>2, LookupIsLookIn
<1>5. Lookup(name)' = n
  BY <1>3, <1>4 DEF Found
<1>6. LookIn(node', list', name) = n
  BY <1>5, LookupIsLookIn
<1> QED BY <1>1, <1>4, <1>6

\* Signing out, by the end of the connection or of its thread.
LEMMA LoginOut ==
    ASSUME TypeInv, \A j \in Slots : LoginRight(j), HoldersRight, NEW k \in Slots, Found, up,
           node' = SignedOut(k), account' = [account EXCEPT ![k] = Nil],
           \A j \in Slots : j # k => thr'[Own(j)] = thr[Own(j)] /\ alive'[j] = alive[j],
           thr'[Own(k)] = thr[Own(k)] \/ (thr'[Own(k)].pc = "none" /\ ~Given(k))
    PROVE  LoginInv'
<1>0. account \in [Slots -> Cells \cup {Nil}]
  BY TypesAre
<1>1. account'[k] = Nil /\ \A j \in Slots : j # k => account'[j] = account[j]
  BY <1>0
<1>2. \A n \in Cells : /\ node'[n].isLogined = (node[n].isLogined /\ account[k] # n)
                       /\ node'[n].loginedClientConnfd = node[n].loginedClientConnfd
  BY SignedOutIs
<1>3. ASSUME NEW j \in Slots, j # k, NEW n \in Cells, Holder(j, n) PROVE account[k] # n
  <2>1. SUFFICES ASSUME account[k] = n PROVE FALSE
    OBVIOUS
  <2>2. Holder(k, n)
    BY <2>1 DEF Holder
  <2> QED BY <1>3, <2>2, OneHolder
<1>4. ASSUME NEW j \in Slots, j # k
      PROVE  LoginRight(j)' /\ \A n \in Cells : Holder(j, n)' <=> Holder(j, n)
  <2>1. \A n \in 1 .. used : Holder(j, n) =>
               /\ node'[n].isLogined = node[n].isLogined
               /\ node'[n].loginedClientConnfd = node[n].loginedClientConnfd
    <3>1. ASSUME NEW n \in 1 .. used, Holder(j, n)
          PROVE  /\ node'[n].isLogined = node[n].isLogined
                 /\ node'[n].loginedClientConnfd = node[n].loginedClientConnfd
      <4>1. n \in Cells /\ account[k] # n
        BY <1>3, <1>4, <3>1, MemoryIs
      <4>2. node[n].isLogined \in BOOLEAN
        BY <4>1, TypesAre DEF Account
      <4> QED BY <1>2, <4>1, <4>2
    <3> QED BY <3>1
  <2> QED BY <1>1, <1>4, <2>1, OthersKept
<1>5. Given(k) => account[k] = Nil
  BY DEF Given, LoginRight
<1>6. \A n \in Cells : Holder(k, n)' <=> (thr'[Own(k)] = thr[Own(k)] /\ Given(k) /\ thr[Own(k)].n = n)
  BY <1>1, NilIsNoCell DEF Holder, Given
<1>7. LoginRight(k)'
  <2>1. \A n \in Cells : Holder(k, n)' => node'[n].isLogined /\ node'[n].loginedClientConnfd = k
    <3>1. ASSUME NEW n \in Cells, Holder(k, n)'
          PROVE  node'[n].isLogined /\ node'[n].loginedClientConnfd = k
      <4>1. Holder(k, n) /\ account[k] # n
        BY <1>5, <1>6, <3>1, NilIsNoCell DEF Holder
      <4> QED BY <1>2, <4>1 DEF LoginRight
    <3> QED BY <3>1
  <2>2. thr'[Own(k)].pc \in Logins => LookIn(node', list', thr'[Own(k)].name) = thr'[Own(k)].n
    <3>1. thr'[Own(k)].pc \in Logins => thr'[Own(k)] = thr[Own(k)]
      BY DEF Logins
    <3> QED BY <3>1, SameLookup
  <2> QED BY <1>1, <2>1, <2>2 DEF LoginRight
<1>8. HoldersRight'
  <2>1. ASSUME NEW n \in Cells, node'[n].isLogined PROVE \E j \in Slots : Holder(j, n)'
    <3>1. node[n].isLogined /\ account[k] # n
      BY <1>2, <2>1
    <3>2. PICK j \in Slots : Holder(j, n)
      BY <3>1 DEF HoldersRight
    <3>3. CASE j = k
      <4>1. Given(k) /\ thr[Own(k)].n = n
        BY <3>1, <3>2, <3>3 DEF Holder
      <4> QED BY <1>6, <4>1
    <3>4. CASE j # k
      BY <1>4, <3>2, <3>4
    <3> QED BY <3>3, <3>4
  <2> QED BY <2>1 DEF HoldersRight
<1> QED BY <1>4, <1>7, <1>8 DEF LoginInv

LEMMA LoginHangUp ==
    ASSUME TypeInv, \A j \in Slots : LoginRight(j), HoldersRight, NEW k \in Slots, Found, HangUp(k)
    PROVE  LoginInv'
<1>1. /\ up /\ node' = SignedOut(k) /\ account' = [account EXCEPT ![k] = Nil]
      /\ alive' = [alive EXCEPT ![k] = FALSE] /\ thr' = thr
  BY DEF HangUp
<1>2. \A j \in Slots : j # k => thr'[Own(j)] = thr[Own(j)] /\ alive'[j] = alive[j]
  BY <1>1, TypesAre
<1> QED BY <1>1, <1>2, LoginOut

LEMMA LoginEnter ==
    ASSUME TypeInv, \A j \in Slots : LoginRight(j), HoldersRight, NEW k \in Slots, Found, Enter(Own(k)),
           "twice" \notin past'
    PROVE  LoginInv'
<1>1. /\ up /\ thr[Own(k)].pc = "enter" /\ UNCHANGED <<up, alive, account>>
      /\ ~node[thr[Own(k)].n].isLogined
      /\ node'[thr[Own(k)].n].isLogined = TRUE /\ node'[thr[Own(k)].n].loginedClientConnfd = k
      /\ \A n \in Cells : n # thr[Own(k)].n => node'[n] = node[n]
  BY EnterIs
<1>2. PICK m \in Cells : m = thr[Own(k)].n
  BY EnterIs
<1>3. thr[Own(k)].for \in {"connect", "login"}
  BY <1>1, TypesAre DEF ThreadRight, Fits, Logins
<1>4. (thr[Own(k)].for = "connect" /\ On(Own(k), "tell")) \/ (thr[Own(k)].for # "connect" /\ On(Own(k), "set"))
  BY EnterIs
<1>5. PICK t : /\ Is(Own(k), t) /\ (t.pc = "set" \/ (t.pc = "tell" /\ t.for = "connect"))
               /\ t.n = m /\ t.name = thr[Own(k)].name
  BY <1>2, <1>4 DEF On
<1>6. thr'[Own(k)] = t /\ \A j \in Slots : j # k => thr'[Own(j)] = thr[Own(j)]
  BY <1>5 DEF Is
<1>7. account[k] = Nil
  BY <1>1 DEF LoginRight
<1>8. ASSUME NEW j \in Slots, j # k
      PROVE  LoginRight(j)' /\ \A n \in Cells : Holder(j, n)' <=> Holder(j, n)
  <2>1. \A n \in 1 .. used : Holder(j, n) => node'[n] = node[n]
    <3>1. ASSUME NEW n \in 1 .. used, Holder(j, n) PROVE node'[n] = node[n]
      <4>1. n \in Cells
        BY MemoryIs
      <4>2. n # m
        BY <1>1, <1>2, <3>1, <4>1 DEF LoginRight
      <4> QED BY <1>1, <1>2, <4>1, <4>2
    <3> QED BY <3>1
  <2> QED BY <1>1, <1>6, <1>8, <2>1, OthersKept
<1>9. \A n \in Cells : Holder(k, n)' <=> n = m
  BY <1>1, <1>5, <1>6, <1>7, NilIsNoCell DEF Holder, Given
<1>10. LoginRight(k)'
  <2>1. \A n \in Cells : Holder(k, n)' => node'[n].isLogined /\ node'[n].loginedClientConnfd = k
    BY <1>1, <1>2, <1>9
  <2>2. LookIn(node', list', thr'[Own(k)].name) = thr'[Own(k)].n
    BY <1>1, <1>2, <1>5, <1>6, SameLookup DEF Logins
  <2> QED BY <1>1, <1>7, <2>1, <2>2 DEF LoginRight
<1>11. HoldersRight'
  <2>1. ASSUME NEW n \in Cells, node'[n].isLogined PROVE \E j \in Slots : Holder(j, n)'
    <3>1. CASE n = m
      BY <1>9, <3>1
    <3>2. CASE n # m
      <4>1. node[n].isLogined
        BY <1>1, <1>2, <2>1, <3>2
      <4>2. PICK j \in Slots : Holder(j, n)
        BY <1>1, <4>1 DEF HoldersRight
      <4>3. j # k
        BY <1>1, <1>7, <4>2, NilIsNoCell DEF Holder, Given
      <4> QED BY <1>8, <4>2, <4>3
    <3> QED BY <3>1, <3>2
  <2> QED BY <2>1 DEF HoldersRight
<1> QED BY <1>8, <1>10, <1>11 DEF LoginInv

\* The thread's account goes to the connection, or it stays where it is.
LEMMA LoginGive ==
    ASSUME TypeInv, \A j \in Slots : LoginRight(j), HoldersRight, NEW k \in Slots, Found, up,
           UNCHANGED <<node, alive>>,
           \A j \in Slots : j # k => thr'[Own(j)] = thr[Own(j)] /\ account'[j] = account[j],
           \A n \in Cells : Holder(k, n)' <=> Holder(k, n),
           thr'[Own(k)].pc # "none" /\ ~(thr'[Own(k)].pc = "tell" /\ thr'[Own(k)].for = "login") => account'[k] = Nil,
           thr'[Own(k)].pc = "none" /\ ~alive[k] => account'[k] = Nil,
           thr'[Own(k)].pc \in Logins =>
              thr[Own(k)].pc \in Logins /\ thr'[Own(k)].name = thr[Own(k)].name /\ thr'[Own(k)].n = thr[Own(k)].n
    PROVE  LoginInv'
<1>1. ASSUME NEW j \in Slots, j # k
      PROVE  LoginRight(j)' /\ \A n \in Cells : Holder(j, n)' <=> Holder(j, n)
  BY <1>1, OthersKept
<1>2. \A n \in Cells : Holder(k, n)' => node'[n].isLogined /\ node'[n].loginedClientConnfd = k
  BY DEF LoginRight
<1>3. thr'[Own(k)].pc \in Logins => LookIn(node', list', thr'[Own(k)].name) = thr'[Own(k)].n
  BY SameLookup
<1>4. LoginRight(k)'
  BY <1>2, <1>3 DEF LoginRight
<1>5. HoldersRight'
  <2>1. ASSUME NEW n \in Cells, node'[n].isLogined PROVE \E j \in Slots : Holder(j, n)'
    <3>1. PICK j \in Slots : Holder(j, n)
      BY <2>1 DEF HoldersRight
    <3> QED BY <1>1, <3>1
  <2> QED BY <2>1 DEF HoldersRight
<1> QED BY <1>1, <1>4, <1>5 DEF LoginInv

LEMMA LoginSetAccount ==
    ASSUME TypeInv, \A j \in Slots : LoginRight(j), HoldersRight, NEW k \in Slots, Found,
           SetAccount(Own(k)), up', "left" \notin past'
    PROVE  LoginInv'
<1>0. TypeOK /\ account \in [Slots -> Cells \cup {Nil}]
  BY TypesAre
<1>1. up /\ thr[Own(k)].pc = "set"
  BY DEF SetAccount, At
<1>2. PICK n : n = Lookup(thr[Own(k)].name)
  OBVIOUS
<1>3. n # Nil
  BY <1>2 DEF SetAccount, Dies
<1>4. /\ account' = [account EXCEPT ![k] = n] /\ UNCHANGED <<node, alive>>
      /\ (thr[Own(k)].for = "connect" => alive[k] /\ Ends(Own(k)))
      /\ (thr[Own(k)].for # "connect" => Goes(Own(k), "tell"))
  BY <1>2, <1>3 DEF SetAccount
<1>5. n = thr[Own(k)].n
  BY <1>1, <1>2, LookupIsLookIn DEF LoginRight, Logins
<1>6. account'[k] = n /\ \A j \in Slots : j # k => account'[j] = account[j]
  BY <1>0, <1>4
<1>7. account[k] = Nil
  BY <1>1 DEF LoginRight
<1>8. \A m \in Cells : Holder(k, m) <=> m = n
  BY <1>1, <1>5, <1>7, NilIsNoCell DEF Holder, Given
<1>9. thr[Own(k)].for \in {"connect", "login"}
  BY <1>1, TypesAre DEF ThreadRight, Fits, Logins
<1>10. CASE thr[Own(k)].for = "connect"
  <2>1. thr'[Own(k)].pc = "none" /\ \A j \in Slots : j # k => thr'[Own(j)] = thr[Own(j)]
    BY <1>0, <1>4, <1>10, EndsIs, NoThreadType DEF Is
  <2>2. \A m \in Cells : Holder(k, m)' <=> Holder(k, m)
    BY <1>6, <1>8, <2>1 DEF Holder, Given
  <2>3. thr'[Own(k)].pc \notin Logins
    BY <2>1 DEF Logins
  <2> QED BY <1>1, <1>4, <1>6, <1>10, <2>1, <2>2, <2>3, LoginGive
<1>11. CASE thr[Own(k)].for = "login"
  <2>1. On(Own(k), "tell")
    BY <1>0, <1>4, <1>11, GoesIs DEF Pcs
  <2>2. /\ thr'[Own(k)].pc = "tell" /\ thr'[Own(k)].for = "login" /\ thr'[Own(k)].name = thr[Own(k)].name
        /\ thr'[Own(k)].n = thr[Own(k)].n /\ \A j \in Slots : j # k => thr'[Own(j)] = thr[Own(j)]
    BY <1>11, <2>1 DEF On, Is
  <2>3. \A m \in Cells : Holder(k, m)' <=> Holder(k, m)
    BY <1>6, <1>8, <2>2 DEF Holder, Given
  <2>4. thr[Own(k)].pc \in Logins
    BY <1>1 DEF Logins
  <2> QED BY <1>1, <1>4, <1>6, <2>2, <2>3, <2>4, LoginGive
<1> QED BY <1>9, <1>10, <1>11

LEMMA LoginTell ==
    ASSUME TypeInv, \A j \in Slots : LoginRight(j), HoldersRight, NEW k \in Slots, Found,
           Tell(Own(k)), "left" \notin past'
    PROVE  LoginInv'
<1>0. TypeOK
  BY TypesAre
<1>1. up /\ thr[Own(k)].pc = "tell" /\ alive' = alive
  BY DEF Tell, At
<1>2. thr[Own(k)].for \in {"connect", "login"}
  BY <1>1, TypesAre DEF ThreadRight, Fits, Logins
<1>3. CASE thr[Own(k)].for = "connect"
  <2>1. alive[k]
    BY <1>3 DEF Tell
  <2>2. Goes(Own(k), "set") /\ UNCHANGED <<node, account>>
    BY <1>3, <2>1 DEF Tell
  <2>3. On(Own(k), "set")
    BY <1>0, <2>2, GoesIs DEF Pcs
  <2>4. /\ thr'[Own(k)].pc = "set" /\ thr'[Own(k)].name = thr[Own(k)].name
        /\ thr'[Own(k)].n = thr[Own(k)].n /\ \A j \in Slots : j # k => thr'[Own(j)] = thr[Own(j)]
    BY <2>3 DEF On, Is
  <2>5. \A m \in Cells : Holder(k, m)' <=> Holder(k, m)
    BY <1>1, <1>3, <2>2, <2>4 DEF Holder, Given
  <2>6. thr[Own(k)].pc \in Logins /\ account[k] = Nil
    BY <1>1, <1>3 DEF Logins, LoginRight
  <2> QED BY <1>1, <2>2, <2>4, <2>5, <2>6, LoginGive
<1>4. CASE thr[Own(k)].for = "login"
  <2>1. Ends(Own(k))
    BY <1>4 DEF Tell
  <2>2. thr'[Own(k)].pc = "none" /\ \A j \in Slots : j # k => thr'[Own(j)] = thr[Own(j)]
    BY <1>0, <2>1, EndsIs, NoThreadType DEF Is
  <2>3. ~Given(k) /\ thr'[Own(k)].pc \notin Logins
    BY <1>1, <1>4, <2>2 DEF Given, Logins
  <2>4. CASE alive[k]
    <3>1. UNCHANGED <<node, account>>
      BY <2>4 DEF Tell
    <3>2. \A m \in Cells : Holder(k, m)' <=> Holder(k, m)
      BY <2>2, <2>3, <3>1 DEF Holder, Given
    <3> QED BY <1>1, <2>2, <2>3, <2>4, <3>1, <3>2, LoginGive
  <2>5. CASE ~alive[k]
    <3>1. node' = SignedOut(k) /\ account' = [account EXCEPT ![k] = Nil]
      BY <2>5 DEF Tell
    <3> QED BY <1>1, <2>2, <2>3, <3>1, LoginOut
  <2> QED BY <2>4, <2>5
<1> QED BY <1>2, <1>3, <1>4

LEMMA LoginStart == Started => LoginInv
<1> SUFFICES ASSUME Started PROVE LoginInv
  OBVIOUS
<1>1. PICK f : f = file /\ FileOK(f)
  BY DEF Started
<1>2. ASSUME NEW n \in Cells PROVE node[n].isLogined = FALSE
  <2>1. Loaded(f)[n].isLogined = FALSE
    BY <1>1, LoadedIs
  <2> QED BY <1>1, <2>1 DEF Started
<1>3. \A k \in Slots : account[k] = Nil /\ thr[Own(k)].pc = "none"
  BY NoThreadType DEF Started
<1>4. \A k \in Slots : LoginRight(k)
  BY <1>3, NilIsNoCell DEF LoginRight, Holder, Given, Logins
<1>5. HoldersRight
  BY <1>2 DEF HoldersRight
<1> QED BY <1>4, <1>5 DEF LoginInv

LEMMA LoginStartNext == (Started => LoginInv)'
BY LoginStart, PTL

\* Only the first thread of a slot runs, until the slot is taken again while
\* one runs.
Lone == \A k \in Threads : thr[k].pc # "none" => k = Own(SlotOf(k))

LoneInv == Never({"stale"}) => Lone

LEMMA LoneStart == Started => LoneInv
BY NoThreadType DEF Started, LoneInv, Lone

LEMMA LoneStartNext == (Started => LoneInv)'
BY LoneStart, PTL

\* The steps that are taken while the server stays up.
StepOf(k) ==
    /\ up /\ up'
    /\ \/ QuietStep(k) \/ LoadCount(k) \/ StoreCount(k) \/ Compare(k)
       \/ Link(k) \/ Walk(k) \/ Write(k)
       \/ Add(k) /\ Lookup(thr[k].name) = Nil

LEMMA StepKeeps ==
    ASSUME TypeInv, NEW k \in Threads, StepOf(k)
    PROVE  past \subseteq past' /\ \A j \in Threads : j # k => thr'[j] = thr[j]
<1>1. CASE QuietStep(k)
  BY <1>1, QuietIs DEF Quietly, Frame, StepOf
<1>2. CASE LoadCount(k) \/ Link(k) \/ Walk(k) \/ Write(k)
  BY <1>2, LoadIs, LinkFrame, WalkFrame, WriteIs DEF Frame
<1>3. CASE StoreCount(k) \/ Compare(k)
  BY <1>3, StoreIs, CompareIs DEF On, Is
<1>4. CASE Add(k) /\ Lookup(thr[k].name) = Nil
  BY <1>4, AddIs DEF On, Is
<1> QED BY <1>1, <1>2, <1>3, <1>4 DEF StepOf

\* A thread that steps was running, or begins in a slot where none runs.
LEMMA StepIsLone ==
    ASSUME TypeInv, LoneInv, NEW k \in Threads, StepOf(k), "stale" \notin past', ~HangUp(SlotOf(k))
    PROVE  k = Own(SlotOf(k))
<1>1. Lone
  BY StepKeeps DEF LoneInv, Never
<1>2. CASE ConnectsAt(k) \/ RequestsAt(k)
  <2>1. Running(SlotOf(k)) = {}
    <3>1. CASE ConnectsAt(k)
      BY <3>1 DEF ConnectsAt
    <3>2. CASE RequestsAt(k)
      BY <3>2 DEF RequestsAt
    <3> QED BY <1>2, <3>1, <3>2
  <2>2. thr[Own(SlotOf(k))].pc = "none"
    BY <2>1, ThreadsAre DEF Running
  <2> QED BY <1>2, <2>2 DEF ConnectsAt, RequestsAt, BegunAt
<1>3. CASE ~(ConnectsAt(k) \/ RequestsAt(k))
  <2>1. thr[k].pc # "none"
    BY <1>3 DEF StepOf, QuietStep, Ask, Check, LoadCount, StoreCount, Compare, Enter, SetAccount, Tell,
       Add, Link, SetRear, Walk, Write, TellMade, At
  <2> QED BY <1>1, <2>1 DEF Lone
<1> QED BY <1>2, <1>3

LEMMA LoneNext == TypeInv /\ LoneInv /\ [Next]_vars => LoneInv'
<1> SUFFICES ASSUME TypeInv, LoneInv, [Next]_vars PROVE LoneInv'
  OBVIOUS
<1>1. CASE UNCHANGED vars
  BY <1>1 DEF LoneInv, Lone, Never
<1>2. CASE Restart
  BY <1>2, RestartIs, LoneStartNext
<1>3. ASSUME NEW why, Dies(why) PROVE LoneInv'
  BY <1>3, NoThreadType DEF Dies, LoneInv, Lone
<1>4. ASSUME NEW k \in Threads, StepOf(k) PROVE LoneInv'
  <2>1. SUFFICES ASSUME "stale" \notin past' PROVE Lone'
    BY DEF LoneInv, Never
  <2>2. Lone
    BY <1>4, <2>1, StepKeeps DEF LoneInv, Never
  <2>3. CASE HangUp(SlotOf(k))
    BY <2>2, <2>3 DEF HangUp, Lone
  <2>4. CASE ~HangUp(SlotOf(k))
    BY <1>4, <2>1, <2>2, <2>4, StepIsLone, StepKeeps DEF Lone
  <2> QED BY <2>3, <2>4
<1> QED BY <1>1, <1>2, <1>3, <1>4, StepCases DEF StepOf

LEMMA LoginNext == TypeInv /\ LoneInv /\ LoginInv /\ [Next]_vars => LoginInv'
<1> SUFFICES ASSUME TypeInv, LoneInv, LoginInv, [Next]_vars PROVE LoginInv'
  OBVIOUS
<1>1. CASE UNCHANGED vars
  <2>1. Never({"twice", "left", "append", "stale"})' => Never({"twice", "left", "append", "stale"})
    BY <1>1 DEF Never
  <2> QED BY <1>1, <2>1 DEF LoginInv, LoginRight, HoldersRight, Holder, Given
<1>2. CASE Restart
  BY <1>2, RestartIs, LoginStartNext
<1>3. ASSUME NEW why, Dies(why) PROVE LoginInv'
  <2>1. up' = FALSE /\ \A k \in Slots : account'[k] = Nil /\ thr'[Own(k)].pc = "none"
    BY <1>3, NoThreadType DEF Dies
  <2>2. (\A k \in Slots : LoginRight(k))'
    BY <2>1, NilIsNoCell DEF LoginRight, Holder, Given, Logins
  <2> QED BY <2>1, <2>2 DEF LoginInv, HoldersRight
<1>4. ASSUME NEW k \in Threads, StepOf(k) PROVE LoginInv'
  <2>1. past \subseteq past'
    BY <1>4, StepKeeps
  <2>2. CASE Never({"twice", "left", "append", "stale"})'
    <3>1. (\A j \in Slots : LoginRight(j)) /\ HoldersRight
      BY <2>1, <2>2, NeverKept DEF LoginInv
    <3>2. "twice" \notin past' /\ "left" \notin past' /\ "append" \notin past' /\ "stale" \notin past'
      BY <2>2 DEF Never
    <3>3. Found
      BY <1>4, <3>2, FoundStays DEF StepOf
    <3>4. PICK s \in Slots : s = SlotOf(k)
      BY ThreadsAre
    <3>5. CASE HangUp(s)
      BY <3>1, <3>3, <3>5, LoginHangUp
    <3>6. CASE ~HangUp(s)
      <4>1. k = Own(s)
        BY <1>4, <3>2, <3>4, <3>6, StepIsLone
      <4>2. up /\ up' /\ StepOf(Own(s))
        BY <1>4, <4>1 DEF StepOf
      <4> QED BY <3>1, <3>2, <3>3, <3>6, <4>2, LoginStep, LoginEnter, LoginSetAccount, LoginTell
              DEF StepOf, QuietStep
    <3> QED BY <3>5, <3>6
  <2>3. CASE ~Never({"twice", "left", "append", "stale"})'
    BY <2>3 DEF LoginInv
  <2> QED BY <2>2, <2>3
<1> QED BY <1>1, <1>2, <1>3, <1>4, StepCases DEF StepOf

\* Each account that is logged in has one holder, a connection or a thread on
\* the way to give it to its connection, and who holds one is who sends go to;
\* looking its name up again finds the same account.  So it is until an account
\* is logged into twice or lost, a client leaves while newConnection logs in, or
\* a slot is taken again while a thread of its last client runs.
THEOREM LoginInvariant == Spec => [](TypeInv /\ LoneInv /\ LoginInv)
<1>1. Init => TypeInv /\ LoneInv /\ LoginInv
  BY TypeInit, LoneStart, LoginStart
<1>2. TypeInv /\ LoneInv /\ LoginInv /\ [Next]_vars => (TypeInv /\ LoneInv /\ LoginInv)'
  BY TypeNext, LoneNext, LoginNext
<1> QED BY <1>1, <1>2, PTL DEF Spec

\* An account is logged in while one connection has it or is being given it,
\* and what is sent to the account goes there, unless an account was logged
\* into twice, was lost to two threads that appended, its client left while
\* newConnection was logging it in, or a slot was taken again while a thread of
\* its last client was running.
THEOREM LoginsAreRight == Spec => []LoggedInRight
<1>1. TypeInv /\ LoginInv => LoggedInRight
  <2> SUFFICES ASSUME TypeInv, LoginInv, Never({"twice", "left", "append", "stale"}) PROVE LoggedInRight
    BY DEF LoggedInRight
  <2>1. ASSUME NEW k \in Slots, account[k] # Nil
        PROVE  node[account[k]].isLogined /\ node[account[k]].loginedClientConnfd = k
    <3>1. PICK n \in Cells : n = account[k]
      BY <2>1, TypesAre
    <3>2. Holder(k, n)
      BY <3>1 DEF Holder
    <3> QED BY <3>1, <3>2 DEF LoginInv, LoginRight
  <2>2. ASSUME up, NEW n \in Listed, node[n].isLogined
        PROVE  \/ \E k \in Slots : account[k] = n
               \/ \E t \in Threads : thr[t].pc \in {"set", "tell"} /\ thr[t].n = n
    <3>1. n \in Cells
      BY MemoryIs
    <3>2. PICK k \in Slots : Holder(k, n)
      BY <2>2, <3>1 DEF LoginInv, HoldersRight
    <3> QED BY <3>2 DEF Holder, Given
  <2> QED BY <2>1, <2>2 DEF LoggedInRight
<1> QED BY <1>1, LoginInvariant, PTL

================================================================================
