--------------------------------- MODULE Quiz ---------------------------------
(***************************************************************************)
(* What one game promises its players, free of sockets, prompts and turns: *)
(* a number of questions is asked one after the other, points are paid for *)
(* letters at the price of the wheel and for the whole answer, letters of  *)
(* a question are paid for at most once, and one who has the most points   *)
(* wins.  A game may break off at any time.                                *)
(***************************************************************************)
EXTENDS Integers, Sequences, FiniteSets

CONSTANTS Players, ROOM_QUEST_NUM, Questions, Ans, Prices, NoWiner

VARIABLES
    stage,      \* asking, open, solved, over, won, broken
    ques,       \* the question on the table
    shown,      \* its places that are shown
    points,     \* of every player
    passed,     \* questions that are solved and done with
    champion    \* the winner, once there is one

rules == <<stage, ques, shown, points, passed, champion>>

Init ==
    /\ stage = "asking"
    /\ ques \in Questions
    /\ shown = {}
    /\ points = [j \in Players |-> 0]
    /\ passed = 0
    /\ champion = NoWiner

Ask ==
    /\ stage = "asking"
    /\ stage' = "open"
    /\ ques' \in Questions
    /\ shown' = {}
    /\ UNCHANGED <<points, passed, champion>>

\* All places of a letter that was hidden, each at the price of the wheel;
\* the last of them solves the question.
PayLetter(j) ==
    /\ stage = "open"
    /\ \E i \in (1 .. Len(Ans[ques])) \ shown, price \in Prices :
         LET found == {k \in 1 .. Len(Ans[ques]) : Ans[ques][k] = Ans[ques][i]}
         IN  /\ found \cap shown = {}
             /\ shown' = shown \cup found
             /\ points' = [points EXCEPT ![j] = @ + price * Cardinality(found)]
    /\ stage' = IF shown' = 1 .. Len(Ans[ques]) THEN "solved" ELSE "open"
    /\ UNCHANGED <<ques, passed, champion>>

PayAnswer(j) ==
    /\ stage = "open"
    /\ points' = [points EXCEPT ![j] = @ + 300]
    /\ stage' = "solved"
    /\ UNCHANGED <<ques, shown, passed, champion>>

Pass ==
    /\ stage = "solved"
    /\ passed' = passed + 1
    /\ stage' = IF passed' = ROOM_QUEST_NUM THEN "over" ELSE "asking"
    /\ UNCHANGED <<ques, shown, points, champion>>

Crown ==
    /\ stage = "over"
    /\ stage' = "won"
    /\ champion' \in {j \in Players : \A k \in Players : points[k] <= points[j]}
    /\ UNCHANGED <<ques, shown, points, passed>>

Break ==
    /\ stage # "won"
    /\ stage' = "broken"
    /\ UNCHANGED <<ques, shown, points, passed, champion>>

Next ==
    \/ Ask \/ Pass \/ Crown \/ Break
    \/ \E j \in Players : PayLetter(j) \/ PayAnswer(j)

Spec == Init /\ [][Next]_rules
=============================================================================
