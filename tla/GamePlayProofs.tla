---------------------------- MODULE GamePlayProofs ----------------------------
(***************************************************************************)
(* Theorems about GamePlay, for every number of players and questions, all *)
(* answers, wheels and guesses, and with or without late answers.          *)
(***************************************************************************)
EXTENDS GamePlay, FiniteSetTheorems, TLAPS

USE DEF gameVars, quesVars, turnVars, tallyVars, peerVars, roomVars, vars

\* TypeOK by itself is not inductive: that numQuesPass does not run past
\* ROOM_QUEST_NUM needs that a question is only asked while one is left.
QuestionsLeft ==
    pc \in Sections \ {"scores", "tally", "finish"} => numQuesPass < ROOM_QUEST_NUM

TypeInv == TypeOK /\ QuestionsLeft

LEMMA NextPlayerType ==
    ASSUME RoomTypeOK
    PROVE  NextPlayer \in Players
BY NAssumption DEF RoomTypeOK, NextPlayer, Players

\* What the wheel can say and what it is worth.
LEMMA RollType ==
    ASSUME NEW m \in Message
    PROVE  /\ RollValue(m) \in 0 .. 9
           /\ ~LostTurn(RollValue(m)) => ScoreOf(RollValue(m)) \in {20, 50, 100}
<1>1. RollValue(m) \in 0 .. 9
  BY TypedAssumption DEF Message, RollValue
<1>2. ASSUME NEW r \in 0 .. 9, ~LostTurn(r)
      PROVE  ScoreOf(r) \in {20, 50, 100}
  BY <1>2 DEF LostTurn, ScoreOf
<1> QED BY <1>1, <1>2

\* The places of a letter, and that there are finitely many of them.
LEMMA HitsType ==
    ASSUME RoomTypeOK, NEW c
    PROVE  /\ Hits(c) \subseteq Places
           /\ IsFiniteSet(Places)
           /\ Cardinality(Places) = Len(Ans[ques])
           /\ IsFiniteSet(Hits(c))
           /\ Cardinality(Hits(c)) \in Nat
<1>1. Len(Ans[ques]) \in Nat
  BY AnsAssumption DEF RoomTypeOK
<1>2. IsFiniteSet(Places) /\ Cardinality(Places) = Len(Ans[ques])
  BY <1>1, FS_Interval DEF Places
<1>3. Hits(c) \subseteq Places
  BY DEF Hits
<1> QED BY <1>2, <1>3, FS_Subset, FS_CardinalityType

\* What a letter is worth: the price of the wheel for each of its places.
LEMMA PayType ==
    ASSUME RoomTypeOK, NEW h \in Nat
    PROVE  /\ turnScore * h \in Nat
           /\ turnScore * h <= 100 * h
           /\ turnScore # 0 /\ h # 0 => turnScore * h > 0
<1>1. CASE turnScore = 0   BY <1>1
<1>2. CASE turnScore = 20  BY <1>2
<1>3. CASE turnScore = 50  BY <1>3
<1>4. CASE turnScore = 100 BY <1>4
<1> QED BY <1>1, <1>2, <1>3, <1>4 DEF RoomTypeOK

-----------------------------------------------------------------------------
LEMMA TypeInit == Init => TypeInv
<1> SUFFICES ASSUME Init PROVE TypeInv
  OBVIOUS
<1>1. ques \in Questions
  BY AnsAssumption DEF Init
<1>2. 0 \in Players
  BY NAssumption DEF Players
<1>3. RoomTypeOK
  BY <1>1, <1>2, QuestAssumption, NAssumption
     DEF Init, RoomTypeOK, Sections, Places, Nothing
<1>4. PeerTypeOK
  BY BoundAssumption DEF Init, PeerTypeOK
<1>5. QuestionsLeft
  BY QuestAssumption DEF Init, QuestionsLeft
<1> QED BY <1>3, <1>4, <1>5 DEF TypeInv, TypeOK

\* What every step needs that leaves the players' side alone.
LEMMA PeerTypeKept == PeerTypeOK /\ UNCHANGED <<peerVars, mail>> => PeerTypeOK'
BY DEF PeerTypeOK

LEMMA TakeMailType ==
    ASSUME TypeOK, TakeMail, UNCHANGED peerVars
    PROVE  PeerTypeOK' /\ recvBuff' \in Message
<1>1. Head(mail[inTurnPlayer]) \in Message
  BY DEF TypeOK, RoomTypeOK, PeerTypeOK, TakeMail
<1>2. mail' \in [Players -> Seq(Message)]
  <2>1. <<>> \in Seq(Message)
    OBVIOUS
  <2> QED BY <2>1 DEF TypeOK, PeerTypeOK, TakeMail
<1>3. \A j \in Players : Len(mail'[j]) <= 1
  BY DEF TypeOK, PeerTypeOK, TakeMail
<1> QED BY <1>1, <1>2, <1>3 DEF TypeOK, PeerTypeOK, TakeMail

LEMMA PromptType ==
    ASSUME PeerTypeOK, NEW j \in Players, NEW k \in {"roll", "answer"}
    PROVE  [prompts EXCEPT ![j] = Append(@, k)] \in [Players -> Seq({"roll", "hold", "answer"})]
<1>1. Append(prompts[j], k) \in Seq({"roll", "hold", "answer"})
  BY DEF PeerTypeOK
<1> QED BY <1>1 DEF PeerTypeOK

LEMMA TypeJudge == TypeInv /\ Judge => TypeInv'
<1> SUFFICES ASSUME TypeInv, Judge PROVE TypeInv'
  OBVIOUS
<1> USE DEF TypeInv, TypeOK
<1>1. PeerTypeOK'
  BY PeerTypeKept DEF Judge
<1>2. playerPoint' \in [Players -> Nat]
  <2>1. CASE JudgeSolve BY <2>1 DEF JudgeSolve, RoomTypeOK
  <2>2. CASE JudgeLetter
    <3>1. \A c : Cardinality(Hits(c)) \in Nat /\ turnScore * Cardinality(Hits(c)) \in Nat
      BY HitsType, PayType
    <3> QED BY <2>2, <3>1 DEF JudgeLetter, RoomTypeOK
  <2>3. CASE JudgeIgnored BY <2>3 DEF JudgeIgnored, RoomTypeOK
  <2>4. CASE JudgeCrash BY <2>4 DEF JudgeCrash, RoomTypeOK
  <2> QED BY <2>1, <2>2, <2>3, <2>4 DEF Judge
<1>3. shown' \subseteq Places' /\ ansSolvedLetterNum' \in Nat /\ ques' \in Questions
  <2>1. ques' = ques /\ Places' = Places
    BY DEF Judge, Places
  <2>2. CASE JudgeLetter
    <3>1. \A c : Hits(c) \subseteq Places /\ Cardinality(Hits(c)) \in Nat
      BY HitsType
    <3> QED BY <2>1, <2>2, <3>1 DEF JudgeLetter, RoomTypeOK
  <2>3. CASE ~JudgeLetter
    BY <2>1, <2>3 DEF Judge, JudgeCrash, JudgeSolve, JudgeIgnored, RoomTypeOK
  <2> QED BY <2>2, <2>3
<1>4. /\ inTurnPlayer' \in Players /\ acted' \subseteq Players
      /\ pc' \in {"crash", "endquestion", "endround", "turn"}
  <2>1. inTurnPlayer \in Players /\ acted \subseteq Players
    BY DEF RoomTypeOK
  <2>2. CASE NextPlayerTurn
    BY <2>1, <2>2, NextPlayerType DEF NextPlayerTurn
  <2>3. CASE ~NextPlayerTurn
    BY <2>1, <2>3 DEF Judge, JudgeCrash, JudgeSolve, JudgeLetter, JudgeIgnored
  <2> QED BY <2>2, <2>3
<1>5. RoomTypeOK'
  BY <1>2, <1>3, <1>4 DEF Judge, RoomTypeOK, Sections, Returned
<1>6. QuestionsLeft'
  BY <1>4 DEF Judge, QuestionsLeft, Sections
<1> QED BY <1>1, <1>5, <1>6

LEMMA TypeRoom == TypeInv /\ Room => TypeInv'
<1> SUFFICES ASSUME TypeInv, Room PROVE TypeInv'
  OBVIOUS
<1> USE PeerTypeKept DEF TypeInv, TypeOK, RoomTypeOK, QuestionsLeft, Places, Sections, Returned
<1>1. CASE SendFails BY <1>1 DEF SendFails
<1>2. CASE SendKills BY <1>2 DEF SendKills
<1>3. CASE Start
  <2>1. 0 \in Players
    BY NAssumption DEF Players
  <2> QED BY <1>3, <2>1 DEF Start
<1>4. CASE First BY <1>4, QuestAssumption DEF First
<1>5. CASE NextQuestion BY <1>5 DEF NextQuestion
<1>6. CASE StartRound BY <1>6 DEF StartRound
<1>7. CASE Turn
  <2>1. pc' \in {"rollcall", "limit"}
    BY <1>7 DEF Turn
  <2>2. prompts' \in [Players -> Seq({"roll", "hold", "answer"})]
    <3>1. \/ prompts' = prompts
          \/ prompts' = [prompts EXCEPT ![inTurnPlayer] = Append(@, "roll")]
      BY <1>7 DEF Turn
    <3>2. CASE prompts' = prompts
      BY <3>2 DEF PeerTypeOK
    <3>3. CASE prompts' = [prompts EXCEPT ![inTurnPlayer] = Append(@, "roll")]
      BY <3>3, PromptType
    <3> QED BY <3>1, <3>2, <3>3
  <2>3. PeerTypeOK'
    BY <1>7, <2>2 DEF Turn, PeerTypeOK
  <2> QED BY <1>7, <2>1, <2>3 DEF Turn
<1>8. CASE RollCall BY <1>8 DEF RollCall
<1>9. CASE ReadRoll BY <1>9, TakeMailType DEF ReadRoll
<1>10. CASE Spun
  <2>1. CASE LostTurn(RollValue(recvBuff))
    BY <1>10, <2>1, NextPlayerType DEF Spun, NextPlayerTurn
  <2>2. CASE ~LostTurn(RollValue(recvBuff))
    <3>1. recvBuff \in Message
      BY <1>10 DEF Spun
    <3>2. turnScore' \in {20, 50, 100}
      BY <1>10, <2>2, <3>1, RollType DEF Spun
    <3> QED BY <1>10, <2>2, <3>2 DEF Spun
  <2> QED BY <2>1, <2>2
<1>11. CASE Limit
  <2>1. prompts' \in [Players -> Seq({"roll", "hold", "answer"})]
    <3>1. \/ prompts' = prompts
          \/ prompts' = [prompts EXCEPT ![inTurnPlayer] = Append(@, "answer")]
      BY <1>11 DEF Limit
    <3>2. CASE prompts' = prompts
      BY <3>2 DEF PeerTypeOK
    <3>3. CASE prompts' = [prompts EXCEPT ![inTurnPlayer] = Append(@, "answer")]
      BY <3>3, PromptType
    <3> QED BY <3>1, <3>2, <3>3
  <2>2. PeerTypeOK'
    BY <1>11, <2>1 DEF Limit, PeerTypeOK
  <2> QED BY <1>11, <2>2 DEF Limit
<1>12. CASE Timeout BY <1>12 DEF Timeout
<1>13. CASE Late BY <1>13, NextPlayerType DEF Late, NextPlayerTurn
<1>14. CASE ReadAnswer BY <1>14, TakeMailType DEF ReadAnswer
<1>15. CASE Judge BY <1>15, TypeJudge
<1>16. CASE EndRound BY <1>16 DEF EndRound
<1>17. CASE EndQuestion BY <1>17, QuestAssumption DEF EndQuestion
<1>18. CASE Scores BY <1>18, NAssumption DEF Scores
<1>19. CASE Tally
  <2>1. CASE scan = N BY <1>19, <2>1 DEF Tally
  <2>2. CASE scan # N
    <3>1. scan \in Players /\ scan + 1 \in 0 .. N
      BY <2>2, NAssumption DEF Players
    <3>2. playerPoint[scan] \in Nat
      BY <3>1
    <3> QED BY <1>19, <2>2, <3>1, <3>2 DEF Tally
  <2> QED BY <2>1, <2>2
<1>20. CASE Finish BY <1>20 DEF Finish
<1> QED
  BY <1>1, <1>2, <1>3, <1>4, <1>5, <1>6, <1>7, <1>8, <1>9, <1>10, <1>11, <1>12,
     <1>13, <1>14, <1>15, <1>16, <1>17, <1>18, <1>19, <1>20 DEF Room

LEMMA TypePeer == ASSUME TypeInv, NEW j \in Players, Peer(j) PROVE TypeInv'
<1> USE DEF TypeInv, TypeOK
<1>1. UNCHANGED roomVars
  BY DEF Peer, ClientRoll, ClientStops, ClientEnters, ClientAnswer, ClientGivesUp, Arrive, HangUp, Reap
<1>2. RoomTypeOK' /\ QuestionsLeft'
  BY <1>1 DEF RoomTypeOK, QuestionsLeft, Places
<1>3. PeerTypeOK'
  <2> USE DEF PeerTypeOK
  <2>0. ASSUME NEW m \in Message, Replies(j, m), prompts[j] # <<>>
        PROVE  /\ net' \in [Players -> Seq(Message)]
               /\ prompts' \in [Players -> Seq({"roll", "hold", "answer"})]
    BY <2>0 DEF Replies
  <2>1. CASE ClientRoll(j)
    <3>1. [kind |-> "roll", text |-> <<0>>] \in Message
      BY TypedAssumption DEF Message
    <3> QED BY <2>0, <2>1, <3>1 DEF ClientRoll
  <2>7. CASE ClientStops(j)
    BY <2>7 DEF ClientStops
  <2>8. CASE ClientEnters(j)
    BY <2>0, <2>8 DEF ClientEnters, Message
  <2>2. CASE ClientAnswer(j)
    <3>1. PICK m \in Message : Replies(j, m)
      BY <2>2 DEF ClientAnswer, Message
    <3> QED BY <2>0, <2>2, <3>1 DEF ClientAnswer
  <2>3. CASE ClientGivesUp(j) BY <2>3 DEF ClientGivesUp
  <2>4. CASE Arrive(j) BY <2>4 DEF Arrive
  <2>5. CASE HangUp(j) BY <2>5, BoundAssumption DEF HangUp
  <2>6. CASE Reap(j) BY <2>6 DEF Reap
  <2> QED BY <2>1, <2>2, <2>3, <2>4, <2>5, <2>6, <2>7, <2>8 DEF Peer
<1> QED BY <1>2, <1>3

\* The loop's exit is the end of the thread, and changes nothing else.
LEMMA ExitStep ==
    ASSUME NEW j \in Players, RecvFails(j)
    PROVE  /\ pc \notin Returned /\ pc' = "crash"
           /\ UNCHANGED <<gameVars, quesVars, turnVars, recvBuff, tallyVars, peerVars, mail>>
BY DEF RecvFails

Exit == \E j \in Players : RecvFails(j)

\* TypeOK and what makes it inductive.
LEMMA TypeInvariant == Spec => []TypeInv
<1>1. Init => TypeInv
  BY TypeInit
<1>2. TypeInv /\ [Next]_vars => TypeInv'
  <2> SUFFICES ASSUME TypeInv, [Next]_vars PROVE TypeInv'
    OBVIOUS
  <2>1. CASE Room BY <2>1, TypeRoom
  <2>2. CASE \E j \in Players : Peer(j) BY <2>2, TypePeer
  <2>3. CASE UNCHANGED vars
    BY <2>3 DEF TypeInv, TypeOK, RoomTypeOK, PeerTypeOK, QuestionsLeft, Places
  <2>4. CASE Exit
    <3>1. /\ pc' = "crash"
          /\ UNCHANGED <<gameVars, quesVars, turnVars, recvBuff, tallyVars, peerVars, mail>>
      BY <2>4, ExitStep DEF Exit
    <3>2. PeerTypeOK'
      BY <3>1, PeerTypeKept DEF TypeInv, TypeOK
    <3>3. RoomTypeOK'
      BY <3>1 DEF TypeInv, TypeOK, RoomTypeOK, Places, Returned
    <3>4. QuestionsLeft'
      BY <3>1 DEF TypeInv, QuestionsLeft, Sections
    <3> QED BY <3>2, <3>3, <3>4 DEF TypeInv, TypeOK
  <2> QED BY <2>1, <2>2, <2>3, <2>4 DEF Next, Exit
<1> QED BY <1>1, <1>2, PTL DEF Spec

\* Every variable keeps to its type, in every run of every game.
THEOREM TypeCorrect == Spec => []TypeOK
<1>1. TypeInv => TypeOK
  BY DEF TypeInv
<1> QED BY <1>1, TypeInvariant, PTL
-----------------------------------------------------------------------------
(***************************************************************************)
(* Letters.  LettersCountedOnce is inductive: a letter that is not in the  *)
(* mask has none of its places shown, so filling them adds their number.   *)
(***************************************************************************)

LEMMA FillLetter ==
    ASSUME RoomTypeOK, NEW c, ~checkIfGuessed(c)
    PROVE  /\ shown \cap Hits(c) = {}
           /\ IsFiniteSet(shown)
           /\ Cardinality(shown) \in Nat
           /\ Cardinality(shown \cup Hits(c)) = Cardinality(shown) + Cardinality(Hits(c))
           /\ Cardinality(shown \cup Hits(c)) <= Len(Ans[ques])
           /\ shown \cup Hits(c) = Places
                 => Cardinality(shown \cup Hits(c)) = Len(Ans[ques])
<1>1. shown \cap Hits(c) = {}
  BY DEF checkIfGuessed, Hits, curQuesAns
<1>2. shown \subseteq Places
  BY DEF RoomTypeOK
<1>3. IsFiniteSet(shown) /\ Cardinality(shown) \in Nat
  BY <1>2, HitsType, FS_Subset, FS_CardinalityType
<1>4. Cardinality(shown \cap Hits(c)) = 0
  BY <1>1, FS_EmptySet
<1>5. Cardinality(shown \cup Hits(c))
        = Cardinality(shown) + Cardinality(Hits(c)) - Cardinality(shown \cap Hits(c))
  BY <1>3, HitsType, FS_Union
<1>6. Cardinality(shown \cup Hits(c)) = Cardinality(shown) + Cardinality(Hits(c))
  BY <1>3, <1>4, <1>5, HitsType
<1>7. shown \cup Hits(c) \subseteq Places
  BY <1>2, HitsType
<1>8. Cardinality(shown \cup Hits(c)) <= Len(Ans[ques])
  BY <1>7, HitsType, FS_Subset
<1> QED BY <1>1, <1>3, <1>6, <1>8, HitsType

LEMMA LettersRoom == TypeInv /\ LettersCountedOnce /\ Room => LettersCountedOnce'
<1> SUFFICES ASSUME TypeInv, LettersCountedOnce, Room PROVE LettersCountedOnce'
  OBVIOUS
<1> USE DEF LettersCountedOnce, OnTheTable
<1>1. CASE Judge
  <2>1. pc = "judge" /\ ques' = ques /\ Places' = Places
    BY <1>1 DEF Judge, Places
  <2>2. CASE JudgeLetter
    <3>1. RoomTypeOK
      BY DEF TypeInv, TypeOK
    <3>2. CASE ~checkIfGuessed(recvBuff.text[1]) /\ Hits(recvBuff.text[1]) # {}
      <4> DEFINE c == recvBuff.text[1]
      <4>1. /\ shown' = shown \cup Hits(c)
            /\ ansSolvedLetterNum' = ansSolvedLetterNum + Cardinality(Hits(c))
            /\ pc' = IF ansSolvedLetterNum' = Len(Ans[ques])
                       THEN "endquestion" ELSE "endround"
        BY <2>2, <3>2 DEF JudgeLetter
      <4>2. ansSolvedLetterNum' = Cardinality(shown')
        BY <2>1, <3>1, <3>2, <4>1, FillLetter
      <4>3. shown' = Places => ansSolvedLetterNum' = Len(Ans[ques])
        BY <3>1, <3>2, <4>1, <4>2, FillLetter
      <4> QED BY <2>1, <4>1, <4>2, <4>3
    <3>3. CASE checkIfGuessed(recvBuff.text[1]) \/ Hits(recvBuff.text[1]) = {}
      <4>1. UNCHANGED <<shown, ansSolvedLetterNum>>
        BY <2>2, <3>3 DEF JudgeLetter
      <4> QED BY <2>1, <4>1
    <3> QED BY <3>2, <3>3
  <2>3. CASE JudgeCrash \/ JudgeSolve \/ JudgeIgnored
    <3>1. UNCHANGED <<shown, ansSolvedLetterNum>>
      BY <2>3 DEF JudgeCrash, JudgeSolve, JudgeIgnored
    <3> QED BY <2>1, <3>1
  <2> QED BY <1>1, <2>2, <2>3 DEF Judge
<1>2. CASE NextQuestion
  <2>1. shown' = {} /\ ansSolvedLetterNum' = 0 /\ ques' \in Questions
    BY <1>2 DEF NextQuestion
  <2>2. 1 \in Places'
    BY <2>1, AnsAssumption DEF Places
  <2> QED BY <2>1, <2>2, FS_EmptySet
<1>3. CASE ~Judge /\ ~NextQuestion
  <2>1. UNCHANGED quesVars
    BY <1>3 DEF Room, SendFails, SendKills, Start, First, StartRound, Turn, RollCall,
       ReadRoll, Spun, Limit, Timeout, Late, ReadAnswer, EndRound, EndQuestion, Scores,
       Tally, Finish
  <2>2. pc' \in OnTheTable => pc \in OnTheTable
    BY <1>3 DEF Room, SendFails, SendKills, Start, First, StartRound, Turn, RollCall,
       ReadRoll, Spun, Limit, Timeout, Late, ReadAnswer, EndRound, EndQuestion, Scores,
       Tally, Finish, NextPlayerTurn
  <2>3. pc' = "endquestion" => pc = "endquestion"
    BY <1>3 DEF Room, SendFails, SendKills, Start, First, StartRound, Turn, RollCall,
       ReadRoll, Spun, Limit, Timeout, Late, ReadAnswer, EndRound, EndQuestion, Scores,
       Tally, Finish, NextPlayerTurn
  <2> QED BY <2>1, <2>2, <2>3 DEF Places
<1> QED BY <1>1, <1>2, <1>3

\* Steps of the players and of the receive loop.
LEMMA PeerKeepsRoom == ASSUME NEW j \in Players, Peer(j) PROVE UNCHANGED roomVars
BY DEF Peer, ClientRoll, ClientStops, ClientEnters, ClientAnswer, ClientGivesUp, Arrive, HangUp, Reap

\* No letter is paid for twice, and a question is over as soon as all of its
\* letters are shown.
THEOREM LettersCountedOnceHolds == Spec => []LettersCountedOnce
<1>1. Init => LettersCountedOnce
  BY DEF Init, LettersCountedOnce, OnTheTable
<1>2. TypeInv /\ LettersCountedOnce /\ [Next]_vars => LettersCountedOnce'
  <2> SUFFICES ASSUME TypeInv, LettersCountedOnce, [Next]_vars
               PROVE  LettersCountedOnce'
    OBVIOUS
  <2>1. CASE Room BY <2>1, LettersRoom
  <2>2. CASE UNCHANGED roomVars
    BY <2>2 DEF LettersCountedOnce, Places
  <2>3. CASE Exit
    BY <2>3, ExitStep DEF Exit, LettersCountedOnce, OnTheTable
  <2> QED BY <2>1, <2>2, <2>3, PeerKeepsRoom DEF Next, Exit
<1> QED BY <1>1, <1>2, TypeInvariant, PTL DEF Spec
-----------------------------------------------------------------------------
(***************************************************************************)
(* Rolls and turns.                                                        *)
(***************************************************************************)

\* Why an inherited roll exists: a player who need not roll is not the first
\* of the round, and the player before him did not lose the turn.
RollInv ==
    /\ ScoreRolledThisRound
    /\ pc = "turn" /\ inTurnPlayer # startRoundPlayer /\ wheelRoll # 1 => turnScore # 0

LEMMA RollRoom == TypeInv /\ RollInv /\ Room => RollInv'
<1> SUFFICES ASSUME TypeInv, RollInv, Room PROVE RollInv'
  OBVIOUS
<1> USE DEF RollInv, ScoreRolledThisRound
<1>1. CASE Spun
  <2>1. recvBuff \in Message
    BY <1>1 DEF TypeInv, TypeOK, RoomTypeOK, Spun
  <2>2. CASE LostTurn(RollValue(recvBuff))
    BY <1>1, <2>2 DEF Spun, NextPlayerTurn
  <2>3. CASE ~LostTurn(RollValue(recvBuff))
    <3>1. turnScore' \in {20, 50, 100} /\ pc' = "limit"
      BY <1>1, <2>1, <2>3, RollType DEF Spun
    <3> QED BY <3>1
  <2> QED BY <2>2, <2>3
<1>2. CASE Judge
  <2>1. pc = "judge" /\ UNCHANGED <<startRoundPlayer, wheelRoll, turnScore>>
    BY <1>2 DEF Judge
  <2>2. pc' \in {"crash", "endquestion", "endround", "turn"}
    BY <1>2 DEF Judge, JudgeCrash, JudgeSolve, JudgeLetter, JudgeIgnored, NextPlayerTurn
  <2> QED BY <2>1, <2>2
<1>3. CASE Late BY <1>3 DEF Late, NextPlayerTurn
<1>4. CASE Turn BY <1>4 DEF Turn
<1>5. CASE Limit \/ Timeout \/ ReadAnswer BY <1>5 DEF Limit, Timeout, ReadAnswer
<1>6. CASE SendFails \/ SendKills \/ Start \/ First \/ NextQuestion \/ RollCall \/ ReadRoll
  BY <1>6 DEF SendFails, SendKills, Start, First, NextQuestion, RollCall, ReadRoll
<1>7. CASE StartRound BY <1>7 DEF StartRound
<1>8. CASE EndRound \/ EndQuestion \/ Scores \/ Tally \/ Finish
  BY <1>8 DEF EndRound, EndQuestion, Scores, Tally, Finish
<1> QED BY <1>1, <1>2, <1>3, <1>4, <1>5, <1>6, <1>7, <1>8 DEF Room

LEMMA RollInvariant == Spec => []RollInv
<1>1. Init => RollInv
  BY DEF Init, RollInv, ScoreRolledThisRound
<1>2. TypeInv /\ RollInv /\ [Next]_vars => RollInv'
  <2> SUFFICES ASSUME TypeInv, RollInv, [Next]_vars PROVE RollInv'
    OBVIOUS
  <2>1. CASE Room BY <2>1, RollRoom
  <2>2. CASE UNCHANGED roomVars
    BY <2>2 DEF RollInv, ScoreRolledThisRound
  <2>3. CASE Exit
    BY <2>3, ExitStep DEF Exit, RollInv, ScoreRolledThisRound
  <2> QED BY <2>1, <2>2, <2>3, PeerKeepsRoom DEF Next, Exit
<1> QED BY <1>1, <1>2, TypeInvariant, PTL DEF Spec

\* A turn that is played for points has a roll of its own round.
THEOREM ScoreRolledHolds == Spec => []ScoreRolledThisRound
<1>1. RollInv => ScoreRolledThisRound
  BY DEF RollInv
<1> QED BY <1>1, RollInvariant, PTL

\* The turns of a round that are over, from its first player up to the one
\* in turn, around the table.
TurnsBefore(t) ==
    IF startRoundPlayer <= t THEN startRoundPlayer .. (t - 1)
                             ELSE (startRoundPlayer .. (N - 1)) \cup (0 .. (t - 1))

InRound == {"turn", "rollcall", "rollwait", "spun", "limit", "answerwait", "late", "judge"}

TurnInv == pc \in InRound => acted = TurnsBefore(inTurnPlayer)

LEMMA NextPlayerKeepsTurnInv ==
    ASSUME TypeInv, TurnInv, pc \in InRound, NextPlayerTurn, UNCHANGED startRoundPlayer
    PROVE  TurnInv'
<1> USE DEF TypeInv, TypeOK, RoomTypeOK, Players
<1>1. acted = TurnsBefore(inTurnPlayer)
  BY DEF TurnInv
<1>2. CASE startRoundPlayer # NextPlayer
  <2>1. acted \cup {inTurnPlayer} = TurnsBefore(NextPlayer)
    <3>1. CASE inTurnPlayer # N - 1
      BY <1>1, <1>2, <3>1, NAssumption DEF TurnsBefore, NextPlayer
    <3>2. CASE inTurnPlayer = N - 1
      BY <1>1, <1>2, <3>2, NAssumption DEF TurnsBefore, NextPlayer
    <3> QED BY <3>1, <3>2
  <2> QED BY <2>1 DEF TurnInv, NextPlayerTurn, TurnsBefore
<1>3. CASE startRoundPlayer = NextPlayer
  BY <1>3 DEF TurnInv, NextPlayerTurn, InRound
<1> QED BY <1>2, <1>3

LEMMA TurnRoom == TypeInv /\ TurnInv /\ Room => TurnInv'
<1> SUFFICES ASSUME TypeInv, TurnInv, Room PROVE TurnInv'
  OBVIOUS
<1>1. CASE NextPlayerTurn /\ (Spun \/ Late \/ Judge)
  BY <1>1, NextPlayerKeepsTurnInv DEF Spun, Late, Judge, InRound
<1>2. CASE StartRound
  <2>1. startRoundPlayer' = inTurnPlayer' /\ acted' = {} /\ inTurnPlayer' \in Int
    BY <1>2 DEF StartRound, TypeInv, TypeOK, RoomTypeOK, Players
  <2> QED BY <2>1 DEF TurnInv, TurnsBefore
<1>3. CASE ~NextPlayerTurn /\ (Spun \/ Judge)
  <2>1. UNCHANGED <<inTurnPlayer, startRoundPlayer, acted>> /\ pc \in InRound
    BY <1>3 DEF Spun, Judge, JudgeCrash, JudgeSolve, JudgeLetter, JudgeIgnored, InRound
  <2> QED BY <2>1 DEF TurnInv, TurnsBefore
<1>4. CASE \/ Turn \/ RollCall \/ ReadRoll \/ Limit \/ Timeout \/ ReadAnswer
  <2>1. UNCHANGED <<inTurnPlayer, startRoundPlayer, acted>> /\ pc \in InRound
    BY <1>4 DEF Turn, RollCall, ReadRoll, Limit, Timeout, ReadAnswer, InRound
  <2> QED BY <2>1 DEF TurnInv, TurnsBefore
<1>5. CASE \/ SendFails \/ SendKills \/ Start \/ First \/ NextQuestion \/ EndRound
           \/ EndQuestion \/ Scores \/ Tally \/ Finish
  BY <1>5 DEF SendFails, SendKills, Start, First, NextQuestion, EndRound, EndQuestion,
     Scores, Tally, Finish, TurnInv, InRound
<1>6. Late => NextPlayerTurn
  BY DEF Late
<1> QED BY <1>1, <1>2, <1>3, <1>4, <1>5, <1>6 DEF Room

\* A round goes around the table once.
THEOREM OneTurnPerRoundHolds == Spec => []OneTurnPerRound
<1>1. Init => TurnInv
  BY DEF Init, TurnInv, InRound
<1>2. TypeInv /\ TurnInv /\ [Next]_vars => TurnInv'
  <2> SUFFICES ASSUME TypeInv, TurnInv, [Next]_vars PROVE TurnInv'
    OBVIOUS
  <2>1. CASE Room BY <2>1, TurnRoom
  <2>2. CASE UNCHANGED roomVars
    BY <2>2 DEF TurnInv, TurnsBefore
  <2>3. CASE Exit
    BY <2>3, ExitStep DEF Exit, TurnInv, InRound
  <2> QED BY <2>1, <2>2, <2>3, PeerKeepsRoom DEF Next, Exit
<1>3. TypeInv /\ TurnInv => OneTurnPerRound
  <2> SUFFICES ASSUME TypeInv, TurnInv, pc \in InRound PROVE inTurnPlayer \notin acted
    BY DEF OneTurnPerRound, InRound
  <2> QED BY NAssumption DEF TypeInv, TypeOK, RoomTypeOK, Players, TurnInv, TurnsBefore
<1> QED BY <1>1, <1>2, <1>3, TypeInvariant, PTL DEF Spec
-----------------------------------------------------------------------------
(***************************************************************************)
(* Scores.                                                                 *)
(***************************************************************************)

\* ScoreBounded speaks of scores from the first question on; that they are 0
\* before it makes it inductive.
ScoreInv ==
    /\ ScoreBounded
    /\ pc = "first" => playerPoint = [j \in Players |-> 0]

Passed == numQuesPass * MaxScore

LEMMA PassedType ==
    ASSUME TypeInv
    PROVE  /\ MaxScore \in Nat
           /\ Passed \in Nat
           /\ (numQuesPass + 1) * MaxScore = Passed + MaxScore
<1>1. MaxScore \in Nat
  BY AnsAssumption DEF MaxScore
<1>2. numQuesPass \in Nat
  BY QuestAssumption DEF TypeInv, TypeOK, RoomTypeOK
<1>3. ASSUME NEW m \in Nat, NEW n \in Nat
      PROVE  n * m \in Nat /\ (n + 1) * m = n * m + m
  OBVIOUS
<1> QED BY <1>1, <1>2, <1>3 DEF Passed

LEMMA ScoreJudge ==
    ASSUME TypeInv, LettersCountedOnce, ScoreInv, Judge
    PROVE  ScoreInv'
<1> DEFINE B == Passed
<1>1. pc = "judge" /\ numQuesPass' = numQuesPass /\ Passed' = Passed
  BY DEF Judge, Passed, MaxScore
<1>2. B \in Nat /\ MaxScore = 100 * MaxAns + 300 /\ MaxAns \in Nat
  BY PassedType, AnsAssumption DEF MaxScore
<1>3. Len(Ans[ques]) \in Nat /\ Len(Ans[ques]) <= MaxAns
  BY AnsAssumption DEF TypeInv, TypeOK, RoomTypeOK
<1>4. Cardinality(shown) \in Nat /\ Cardinality(shown) <= Len(Ans[ques])
  BY HitsType, FS_Subset, FS_CardinalityType DEF TypeInv, TypeOK, RoomTypeOK
<1>5. \A j \in Players : playerPoint[j] \in Nat /\ playerPoint[j] <= B + 100 * Cardinality(shown)
  BY <1>1 DEF ScoreInv, ScoreBounded, OnTheTable, TypeInv, TypeOK, RoomTypeOK, Passed
<1>6. inTurnPlayer \in Players /\ playerPoint \in [Players -> Nat]
  BY DEF TypeInv, TypeOK, RoomTypeOK
<1>7. pc' \in {"crash", "endquestion", "endround", "turn"}
  BY DEF Judge, JudgeCrash, JudgeSolve, JudgeLetter, JudgeIgnored, NextPlayerTurn
<1>8. ASSUME \A j \in Players : /\ playerPoint'[j] <= B + 100 * Cardinality(shown')
                                 /\ playerPoint'[j] <= B + MaxScore
      PROVE  ScoreInv'
  BY <1>1, <1>7, <1>8 DEF ScoreInv, ScoreBounded, OnTheTable, Passed, MaxScore
<1>9. CASE UNCHANGED <<playerPoint, shown>>
  <2>1. \A j \in Players : playerPoint[j] <= B + MaxScore
    BY <1>2, <1>3, <1>4, <1>5
  <2> QED BY <1>5, <1>8, <1>9, <2>1
<1>10. CASE /\ playerPoint' = [playerPoint EXCEPT ![inTurnPlayer] = @ + 300]
            /\ pc' = "endquestion"
  <2>1. \A j \in Players : playerPoint'[j] <= B + MaxScore
    BY <1>2, <1>3, <1>4, <1>5, <1>6, <1>10
  <2> QED BY <1>1, <1>10, <2>1 DEF ScoreInv, ScoreBounded, OnTheTable, Passed, MaxScore
<1>11. ASSUME NEW c, ~checkIfGuessed(c), shown' = shown \cup Hits(c),
              playerPoint' = [playerPoint EXCEPT
                                ![inTurnPlayer] = @ + turnScore * Cardinality(Hits(c))]
       PROVE  ScoreInv'
  <2> DEFINE h == Cardinality(Hits(c))
  <2>1. /\ h \in Nat
        /\ Cardinality(shown') = Cardinality(shown) + h
        /\ Cardinality(shown') <= Len(Ans[ques])
    BY <1>11, FillLetter, HitsType DEF TypeInv, TypeOK
  <2>2. turnScore * h \in Nat /\ turnScore * h <= 100 * h
    BY <2>1, PayType DEF TypeInv, TypeOK
  <2>3. \A j \in Players : playerPoint'[j] <= playerPoint[j] + turnScore * h
    BY <1>6, <1>11, <2>2
  <2>4. \A j \in Players : playerPoint'[j] \in Nat
    BY <1>6, <1>11, <2>2
  <2> HIDE DEF h, B
  <2>5. \A j \in Players : playerPoint'[j] <= B + 100 * Cardinality(shown')
    <3> SUFFICES ASSUME NEW j \in Players
                 PROVE  playerPoint'[j] <= B + 100 * Cardinality(shown')
      OBVIOUS
    <3>1. playerPoint[j] <= B + 100 * Cardinality(shown) /\ playerPoint[j] \in Nat
      BY <1>5
    <3>2. playerPoint'[j] <= playerPoint[j] + turnScore * h /\ playerPoint'[j] \in Nat
      BY <2>3, <2>4
    <3>3. 100 * Cardinality(shown') = 100 * Cardinality(shown) + 100 * h
      BY <1>4, <2>1
    <3> QED BY <1>2, <1>4, <2>1, <2>2, <3>1, <3>2, <3>3
  <2>6. \A j \in Players : playerPoint'[j] <= B + MaxScore
    <3>1. Cardinality(shown') \in Nat /\ Cardinality(shown') <= MaxAns
      BY <1>2, <1>3, <1>4, <2>1
    <3> QED BY <1>2, <2>4, <2>5, <3>1
  <2> QED BY <1>8, <2>5, <2>6
<1>12. CASE JudgeLetter /\ ~UNCHANGED <<playerPoint, shown>>
  BY <1>11, <1>12 DEF JudgeLetter
<1>13. CASE JudgeSolve /\ ~UNCHANGED <<playerPoint, shown>>
  BY <1>10, <1>13 DEF JudgeSolve
<1>14. JudgeIgnored \/ JudgeCrash => UNCHANGED <<playerPoint, shown>>
  BY DEF JudgeIgnored, JudgeCrash
<1> QED BY <1>9, <1>12, <1>13, <1>14 DEF Judge

LEMMA ScoreRoom ==
    ASSUME TypeInv, LettersCountedOnce, ScoreInv, Room
    PROVE  ScoreInv'
<1> USE DEF ScoreInv, ScoreBounded, OnTheTable, MaxScore
<1>1. CASE Judge BY <1>1, ScoreJudge
<1>2. CASE Start BY <1>2 DEF Start
<1>3. CASE First
  <2>1. playerPoint' = [j \in Players |-> 0] /\ numQuesPass' = 0 /\ pc' = "ask"
    BY <1>3 DEF First
  <2> QED BY <2>1, AnsAssumption
<1>4. CASE NextQuestion
  <2>1. /\ pc = "ask" /\ pc' = "round"
        /\ Cardinality(shown') = 0
        /\ UNCHANGED <<playerPoint, numQuesPass>>
    BY <1>4, FS_EmptySet DEF NextQuestion
  <2>2. Passed \in Nat /\ \A j \in Players : playerPoint[j] <= Passed
    BY <2>1, PassedType DEF Passed
  <2> QED BY <2>1, <2>2 DEF Passed
<1>5. CASE EndQuestion
  <2>1. /\ pc = "endquestion" /\ pc' \in {"ask", "scores"}
        /\ numQuesPass' = numQuesPass + 1 /\ playerPoint' = playerPoint
    BY <1>5 DEF EndQuestion
  <2>2. \A j \in Players : playerPoint[j] <= (numQuesPass + 1) * MaxScore
    BY <2>1, PassedType DEF Passed
  <2> QED BY <2>1, <2>2
<1>6. CASE \/ SendFails \/ SendKills \/ StartRound \/ Turn \/ RollCall \/ ReadRoll
           \/ Limit \/ Timeout \/ ReadAnswer \/ EndRound \/ Scores \/ Tally \/ Finish
  <2>1. UNCHANGED <<playerPoint, numQuesPass, shown>>
    BY <1>6 DEF SendFails, SendKills, StartRound, Turn, RollCall, ReadRoll, Limit,
       Timeout, ReadAnswer, EndRound, Scores, Tally, Finish
  <2>2. /\ pc' \in OnTheTable => pc \in OnTheTable
        /\ pc' \in {"ask", "scores", "tally", "finish", "done"}
              => pc \in {"ask", "scores", "tally", "finish", "done"}
        /\ pc' # "endquestion" /\ pc' # "first"
    BY <1>6 DEF SendFails, SendKills, StartRound, Turn, RollCall, ReadRoll, Limit,
       Timeout, ReadAnswer, EndRound, Scores, Tally, Finish
  <2> QED BY <2>1, <2>2
<1>7. CASE Spun \/ Late
  <2>1. UNCHANGED <<playerPoint, numQuesPass, shown>> /\ pc \in OnTheTable
    BY <1>7 DEF Spun, Late
  <2>2. pc' \in {"endround", "turn", "limit"}
    BY <1>7 DEF Spun, Late, NextPlayerTurn
  <2> QED BY <2>1, <2>2
<1> QED BY <1>1, <1>2, <1>3, <1>4, <1>5, <1>6, <1>7 DEF Room

\* No score outgrows what the letters shown and the questions passed pay.
THEOREM ScoreBoundedHolds == Spec => []ScoreBounded
<1>1. Init => ScoreInv
  BY DEF Init, ScoreInv, ScoreBounded, OnTheTable
<1>2. TypeInv /\ LettersCountedOnce /\ ScoreInv /\ [Next]_vars => ScoreInv'
  <2> SUFFICES ASSUME TypeInv, LettersCountedOnce, ScoreInv, [Next]_vars PROVE ScoreInv'
    OBVIOUS
  <2>1. CASE Room BY <2>1, ScoreRoom
  <2>2. CASE UNCHANGED roomVars
    BY <2>2 DEF ScoreInv, ScoreBounded, MaxScore
  <2>3. CASE Exit
    BY <2>3, ExitStep DEF Exit, ScoreInv, ScoreBounded, OnTheTable
  <2> QED BY <2>1, <2>2, <2>3, PeerKeepsRoom DEF Next, Exit
<1>3. ScoreInv => ScoreBounded
  BY DEF ScoreInv
<1> QED BY <1>1, <1>2, <1>3, TypeInvariant, LettersCountedOnceHolds, PTL DEF Spec

\* With the questions the server loads, of answers up to 25 letters, and three
\* questions a game, a final score has at most four digits: score[5] of
\* printAllScore holds it and its end.
THEOREM ScoreFitsItsBuffer ==
    ASSUME ROOM_QUEST_NUM <= 3, MaxAns <= 25
    PROVE  Spec => [](pc \in {"scores", "tally", "finish", "done"} =>
                        \A j \in Players : playerPoint[j] <= 9999)
<1>1. ASSUME TypeInv, ScoreBounded, pc \in {"scores", "tally", "finish", "done"}
      PROVE  \A j \in Players : playerPoint[j] <= 9999
  <2>1. MaxScore \in Nat /\ MaxScore <= 2800
    BY AnsAssumption DEF MaxScore
  <2>2. numQuesPass \in {0, 1, 2, 3}
    BY <1>1, QuestAssumption DEF TypeInv, TypeOK, RoomTypeOK
  <2>3. numQuesPass * MaxScore <= 8400 /\ numQuesPass * MaxScore \in Nat
    BY <2>1, <2>2
  <2>4. \A j \in Players : playerPoint[j] <= numQuesPass * MaxScore
    BY <1>1 DEF ScoreBounded
  <2>5. \A j \in Players : playerPoint[j] \in Nat
    BY <1>1 DEF TypeInv, TypeOK, RoomTypeOK
  <2> QED BY <2>3, <2>4, <2>5
<1>2. TypeInv /\ ScoreBounded =>
        (pc \in {"scores", "tally", "finish", "done"}
           => \A j \in Players : playerPoint[j] <= 9999)
  BY <1>1
<1> QED BY <1>2, TypeInvariant, ScoreBoundedHolds, PTL
-----------------------------------------------------------------------------
(***************************************************************************)
(* The winner.                                                             *)
(***************************************************************************)

\* Once a question has been solved, somebody has a point.
SomeoneScored ==
    (\/ pc \in {"endquestion", "scores", "tally", "finish", "done"}
     \/ pc \in OnTheTable \cup {"ask"} /\ numQuesPass > 0)
    => \E j \in Players : playerPoint[j] > 0

\* The loop over the seats: of those seen, winer is the first of the highest,
\* if any of them has a point.
TallyInv ==
    pc = "tally" =>
        /\ \A j \in 0 .. scan - 1 : playerPoint[j] <= highestScore
        /\ winer = NoWiner => highestScore = 0
        /\ winer # NoWiner => /\ winer \in 0 .. scan - 1
                              /\ playerPoint[winer] = highestScore
                              /\ highestScore > 0
                              /\ \A j \in 0 .. winer - 1 : playerPoint[j] < highestScore

WinnerInv ==
    /\ SomeoneScored
    /\ TallyInv
    /\ WinnerHasTheHighestScore

LEMMA ScoredJudge ==
    ASSUME TypeInv, RollInv, SomeoneScored, Judge
    PROVE  SomeoneScored'
<1>1. pc = "judge" /\ numQuesPass' = numQuesPass
  BY DEF Judge
<1>2. inTurnPlayer \in Players /\ playerPoint \in [Players -> Nat] /\ RoomTypeOK
  BY DEF TypeInv, TypeOK, RoomTypeOK
<1>3. CASE playerPoint' = playerPoint /\ pc' # "endquestion"
  <2>1. pc' \in {"crash", "endround", "turn"}
    BY <1>3 DEF Judge, JudgeCrash, JudgeSolve, JudgeLetter, JudgeIgnored, NextPlayerTurn
  <2> QED BY <1>1, <1>3, <2>1 DEF SomeoneScored, OnTheTable
<1>4. CASE playerPoint' = [playerPoint EXCEPT ![inTurnPlayer] = @ + 300]
  BY <1>2, <1>4 DEF SomeoneScored
<1>5. ASSUME NEW c, Hits(c) # {},
             playerPoint' = [playerPoint EXCEPT
                               ![inTurnPlayer] = @ + turnScore * Cardinality(Hits(c))]
      PROVE  SomeoneScored'
  <2>1. Cardinality(Hits(c)) \in Nat /\ Cardinality(Hits(c)) # 0
    BY <1>2, <1>5, HitsType, FS_EmptySet
  <2>2. turnScore # 0
    BY <1>1 DEF RollInv, ScoreRolledThisRound
  <2>3. turnScore * Cardinality(Hits(c)) > 0 /\ turnScore * Cardinality(Hits(c)) \in Nat
    BY <1>2, <2>1, <2>2, PayType
  <2> QED BY <1>2, <1>5, <2>3 DEF SomeoneScored
<1>6. CASE JudgeSolve BY <1>3, <1>4, <1>6 DEF JudgeSolve, NextPlayerTurn
<1>7. CASE JudgeLetter
  <2> DEFINE c == recvBuff.text[1]
  <2>1. CASE ~checkIfGuessed(c) /\ Hits(c) # {}
    BY <1>5, <1>7, <2>1 DEF JudgeLetter
  <2>2. CASE checkIfGuessed(c) \/ Hits(c) = {}
    BY <1>3, <1>7, <2>2 DEF JudgeLetter, NextPlayerTurn
  <2> QED BY <2>1, <2>2
<1>8. CASE JudgeIgnored BY <1>3, <1>8 DEF JudgeIgnored, NextPlayerTurn
<1>9. CASE JudgeCrash BY <1>3, <1>9 DEF JudgeCrash
<1> QED BY <1>6, <1>7, <1>8, <1>9 DEF Judge

LEMMA ScoredRoom ==
    ASSUME TypeInv, RollInv, SomeoneScored, Room
    PROVE  SomeoneScored'
<1> USE DEF SomeoneScored, OnTheTable
<1>1. CASE Judge BY <1>1, ScoredJudge
<1>2. CASE Start \/ First BY <1>2 DEF Start, First
<1>3. CASE EndQuestion BY <1>3 DEF EndQuestion
<1>4. CASE Spun \/ Late
  <2>1. /\ UNCHANGED <<playerPoint, numQuesPass>> /\ pc \in OnTheTable
        /\ pc' \in {"endround", "turn", "limit"}
    BY <1>4 DEF Spun, Late, NextPlayerTurn
  <2> QED BY <2>1
<1>5. CASE \/ SendFails \/ SendKills \/ NextQuestion \/ StartRound \/ Turn \/ RollCall
           \/ ReadRoll \/ Limit \/ Timeout \/ ReadAnswer \/ EndRound \/ Scores \/ Tally
           \/ Finish
  <2>1. UNCHANGED <<playerPoint, numQuesPass>>
    BY <1>5 DEF SendFails, SendKills, NextQuestion, StartRound, Turn, RollCall, ReadRoll,
       Limit, Timeout, ReadAnswer, EndRound, Scores, Tally, Finish
  <2>2. /\ pc' \in OnTheTable \cup {"ask"} => pc \in OnTheTable \cup {"ask"}
        /\ pc' \in {"endquestion", "scores", "tally", "finish", "done"}
             => pc \in {"endquestion", "scores", "tally", "finish", "done"}
    BY <1>5 DEF SendFails, SendKills, NextQuestion, StartRound, Turn, RollCall, ReadRoll,
       Limit, Timeout, ReadAnswer, EndRound, Scores, Tally, Finish
  <2> QED BY <2>1, <2>2
<1> QED BY <1>1, <1>2, <1>3, <1>4, <1>5 DEF Room

LEMMA TallyStep ==
    ASSUME TypeInv, SomeoneScored, TallyInv, Tally
    PROVE  TallyInv' /\ WinnerHasTheHighestScore'
<1> USE DEF TypeInv, TypeOK, RoomTypeOK, Players
<1>1. pc = "tally" /\ playerPoint' = playerPoint
  BY DEF Tally
<1>2. CASE scan = N
  <2>1. pc' = "finish" /\ UNCHANGED tallyVars
    BY <1>2 DEF Tally
  <2>2. PICK j \in Players : playerPoint[j] > 0
    BY <1>1 DEF SomeoneScored
  <2>3. winer # NoWiner
    BY <1>1, <1>2, <2>2, NAssumption DEF TallyInv
  <2> QED
    BY <1>1, <1>2, <2>1, <2>3, NAssumption DEF TallyInv, WinnerHasTheHighestScore
<1>3. CASE scan # N
  <2>1. pc' = "tally" /\ scan' = scan + 1 /\ scan \in Players /\ playerPoint[scan] \in Nat
    BY <1>1, <1>3, NAssumption DEF Tally
  <2>2. CASE playerPoint[scan] > highestScore
    <3>1. highestScore' = playerPoint[scan] /\ winer' = scan
      BY <1>3, <2>2 DEF Tally
    <3>2. \A j \in 0 .. scan - 1 : playerPoint[j] \in Nat /\ playerPoint[j] < playerPoint[scan]
      BY <1>1, <2>1, <2>2, NAssumption DEF TallyInv
    <3>3. TallyInv'
      BY <1>1, <2>1, <2>2, <3>1, <3>2, NAssumption DEF TallyInv, NoWiner
    <3> QED BY <2>1, <3>3 DEF WinnerHasTheHighestScore
  <2>3. CASE ~(playerPoint[scan] > highestScore)
    <3>1. UNCHANGED <<highestScore, winer>>
      BY <1>3, <2>3 DEF Tally
    <3>2. TallyInv'
      BY <1>1, <2>1, <2>3, <3>1, NAssumption DEF TallyInv, NoWiner
    <3> QED BY <2>1, <3>2 DEF WinnerHasTheHighestScore
  <2> QED BY <2>2, <2>3
<1> QED BY <1>2, <1>3

LEMMA WinnerRoom ==
    ASSUME TypeInv, RollInv, WinnerInv, Room
    PROVE  WinnerInv'
<1>1. SomeoneScored'
  BY ScoredRoom DEF WinnerInv
<1>2. CASE Tally
  BY <1>1, <1>2, TallyStep DEF WinnerInv
<1>3. CASE Scores
  BY <1>1, <1>3 DEF Scores, WinnerInv, TallyInv, WinnerHasTheHighestScore
<1>4. CASE Finish
  BY <1>1, <1>4 DEF Finish, WinnerInv, TallyInv, WinnerHasTheHighestScore
<1>5. CASE ~Tally /\ ~Scores /\ ~Finish
  <2>1. pc' \notin {"tally", "finish", "done"}
    BY <1>5 DEF Room, SendFails, SendKills, Start, First, NextQuestion, StartRound, Turn,
       RollCall, ReadRoll, Spun, Limit, Timeout, Late, ReadAnswer, Judge, JudgeCrash,
       JudgeSolve, JudgeLetter, JudgeIgnored, EndRound, EndQuestion, NextPlayerTurn
  <2> QED BY <1>1, <2>1 DEF WinnerInv, TallyInv, WinnerHasTheHighestScore
<1> QED BY <1>2, <1>3, <1>4, <1>5

\* There always is a winner to announce, and it is the right one.
THEOREM WinnerHolds == Spec => []WinnerHasTheHighestScore
<1>1. Init => RollInv /\ WinnerInv
  BY DEF Init, RollInv, ScoreRolledThisRound, WinnerInv, SomeoneScored, TallyInv,
     WinnerHasTheHighestScore, OnTheTable
<1>2. TypeInv /\ RollInv /\ WinnerInv /\ [Next]_vars => (RollInv /\ WinnerInv)'
  <2> SUFFICES ASSUME TypeInv, RollInv, WinnerInv, [Next]_vars
               PROVE  RollInv' /\ WinnerInv'
    OBVIOUS
  <2>1. CASE Room BY <2>1, RollRoom, WinnerRoom
  <2>2. CASE UNCHANGED roomVars
    BY <2>2 DEF RollInv, ScoreRolledThisRound, WinnerInv, SomeoneScored, TallyInv,
       WinnerHasTheHighestScore
  <2>3. CASE Exit
    BY <2>3, ExitStep DEF Exit, RollInv, ScoreRolledThisRound, WinnerInv, SomeoneScored, TallyInv,
       WinnerHasTheHighestScore, OnTheTable
  <2> QED BY <2>1, <2>2, <2>3, PeerKeepsRoom DEF Next, Exit
<1>3. WinnerInv => WinnerHasTheHighestScore
  BY DEF WinnerInv
<1> QED BY <1>1, <1>2, <1>3, TypeInvariant, PTL DEF Spec
-----------------------------------------------------------------------------
(***************************************************************************)
(* Prompts and replies, when answers are never late.                       *)
(***************************************************************************)

Quiet(j) == prompts[j] = <<>> /\ net[j] = <<>> /\ mail[j] = <<>>

\* How far the client may be with a prompt.
Under(prompt) == IF prompt = "roll" THEN {"roll", "hold"} ELSE {prompt}

\* One prompt at most, or the one reply to it on its way or in the mailbox.
OneReply(j, prompt, kinds) ==
    \/ Quiet(j)
    \/ /\ \E p \in Under(prompt) : prompts[j] = <<p>>
       /\ net[j] = <<>> /\ mail[j] = <<>>
    \/ \E m \in Message :
         /\ m.kind \in kinds
         /\ prompts[j] = <<>>
         /\ \/ net[j] = <<m>> /\ mail[j] = <<>>
            \/ net[j] = <<>>  /\ mail[j] = <<m>>

Waits == {"rollcall", "rollwait", "answerwait"}

PromptInv ==
    /\ \A j \in Players : ~Quiet(j) => j = inTurnPlayer /\ pc \in Waits \cup Returned
    /\ pc \in {"rollcall", "rollwait"} => OneReply(inTurnPlayer, "roll", {"roll"})
    /\ pc = "answerwait" => OneReply(inTurnPlayer, "answer", {"solve", "letter"})
    /\ pc = "spun"  => recvBuff.kind = "roll"
    /\ pc = "judge" => recvBuff.kind \in {"solve", "letter"}

\* A step that leaves the players alone keeps them quiet.
LEMMA QuietKept ==
    ASSUME UNCHANGED <<prompts, net, mail>>
    PROVE  /\ \A j : Quiet(j)' = Quiet(j)
           /\ \A j, prompt, kinds :
                OneReply(j, prompt, kinds)' = OneReply(j, prompt, kinds)
BY DEF Quiet, OneReply

LEMMA PromptSent ==
    ASSUME TypeInv, NEW prompt \in {"roll", "answer"}, NEW kinds,
           \A j \in Players : Quiet(j),
           \/ prompts' = prompts
           \/ prompts' = [prompts EXCEPT ![inTurnPlayer] = Append(@, prompt)],
           UNCHANGED <<inTurnPlayer, net, mail>>
    PROVE  /\ \A j \in Players : ~Quiet(j)' => j = inTurnPlayer'
           /\ OneReply(inTurnPlayer, prompt, kinds)'
<1>1. inTurnPlayer \in Players /\ prompts \in [Players -> Seq({"roll", "hold", "answer"})]
  BY DEF TypeInv, TypeOK, RoomTypeOK, PeerTypeOK
<1>2. Append(<<>>, prompt) = <<prompt>>
  OBVIOUS
<1>3. CASE prompts' = prompts
  BY <1>1, <1>3 DEF Quiet, OneReply
<1>4. CASE prompts' = [prompts EXCEPT ![inTurnPlayer] = Append(@, prompt)]
  <2>1. prompts'[inTurnPlayer] = <<prompt>>
    BY <1>1, <1>2, <1>4 DEF Quiet
  <2>2. \A j \in Players : j # inTurnPlayer => prompts'[j] = prompts[j]
    BY <1>1, <1>4
  <2> QED BY <1>1, <2>1, <2>2 DEF Quiet, OneReply, Under
<1> QED BY <1>3, <1>4

\* Reading empties the mailbox, and what is read is the one reply.
LEMMA ReplyTaken ==
    ASSUME TypeInv, NEW prompt, NEW kinds, OneReply(inTurnPlayer, prompt, kinds),
           \A j \in Players : ~Quiet(j) => j = inTurnPlayer,
           TakeMail, UNCHANGED peerVars
    PROVE  recvBuff'.kind \in kinds /\ \A j \in Players : Quiet(j)'
<1>1. PICK m \in Message : /\ m.kind \in kinds
                           /\ prompts[inTurnPlayer] = <<>> /\ net[inTurnPlayer] = <<>>
                           /\ mail[inTurnPlayer] = <<m>>
  BY DEF OneReply, Quiet, TakeMail
<1>2. recvBuff' = m
  BY <1>1 DEF TakeMail
<1>3. \A j \in Players : j # inTurnPlayer => mail'[j] = mail[j]
  BY DEF TakeMail, TypeInv, TypeOK, PeerTypeOK, RoomTypeOK
<1>4. mail'[inTurnPlayer] = <<>>
  BY DEF TakeMail, TypeInv, TypeOK, PeerTypeOK, RoomTypeOK
<1> QED BY <1>1, <1>2, <1>3, <1>4 DEF Quiet

LEMMA PromptRoom ==
    ASSUME Timely, TypeInv, PromptInv, Room
    PROVE  PromptInv'
<1> USE DEF PromptInv, Waits, Returned
<1>1. CASE Turn
  <2>1. \A j \in Players : Quiet(j)
    BY <1>1 DEF Turn
  <2>2. CASE pc' = "limit"
    BY <1>1, <2>1, <2>2, QuietKept DEF Turn
  <2>3. CASE pc' # "limit"
    <3>1. /\ pc' = "rollcall" /\ UNCHANGED <<inTurnPlayer, net, mail>>
          /\ \/ prompts' = prompts
             \/ prompts' = [prompts EXCEPT ![inTurnPlayer] = Append(@, "roll")]
      BY <1>1, <2>3 DEF Turn
    <3> QED BY <2>1, <3>1, PromptSent
  <2> QED BY <2>2, <2>3
<1>2. CASE Limit
  <2>1. \A j \in Players : Quiet(j)
    BY <1>2 DEF Limit
  <2>2. /\ pc' = "answerwait" /\ UNCHANGED <<inTurnPlayer, net, mail>>
        /\ \/ prompts' = prompts
           \/ prompts' = [prompts EXCEPT ![inTurnPlayer] = Append(@, "answer")]
    BY <1>2 DEF Limit
  <2> QED BY <2>1, <2>2, PromptSent
<1>3. CASE RollCall
  <2>1. /\ pc = "rollcall" /\ pc' \in {"outroom", "rollwait"}
        /\ UNCHANGED <<inTurnPlayer, prompts, net, mail>>
    BY <1>3 DEF RollCall
  <2> QED BY <2>1, QuietKept DEF OneReply, Quiet
<1>4. CASE ReadRoll
  <2>1. /\ pc = "rollwait" /\ pc' = "spun" /\ TakeMail
        /\ UNCHANGED <<peerVars, inTurnPlayer>>
    BY <1>4 DEF ReadRoll
  <2> QED BY <2>1, ReplyTaken
<1>5. CASE ReadAnswer
  <2>1. pc = "answerwait" /\ UNCHANGED <<peerVars, inTurnPlayer>>
    BY <1>5 DEF ReadAnswer
  <2>2. CASE pc' = "outroom" /\ UNCHANGED mail
    BY <2>1, <2>2, QuietKept
  <2>3. CASE pc' = "judge" /\ TakeMail
    BY <2>1, <2>3, ReplyTaken
  <2> QED BY <1>5, <2>2, <2>3 DEF ReadAnswer
<1>6. CASE Timeout
  <2>1. /\ pc = "answerwait" /\ pc' = "late" /\ Quiet(inTurnPlayer)
        /\ UNCHANGED <<inTurnPlayer, prompts, net, mail>>
    BY <1>6 DEF Timeout, Quiet
  <2> QED BY <2>1, QuietKept
<1>7. CASE Spun \/ Late \/ Judge
  <2>1. \A j \in Players : Quiet(j)
    BY <1>7 DEF Spun, Late, Judge
  <2>2. UNCHANGED <<prompts, net, mail>>
    BY <1>7 DEF Spun, Late, Judge
  <2>3. pc' \in {"crash", "endquestion", "endround", "turn", "limit"}
    BY <1>7 DEF Spun, Late, Judge, JudgeCrash, JudgeSolve, JudgeLetter, JudgeIgnored, NextPlayerTurn
  <2> QED BY <2>1, <2>2, <2>3, QuietKept
<1>8. CASE SendFails \/ SendKills
  <2>1. pc' \in Returned /\ UNCHANGED <<inTurnPlayer, prompts, net, mail>>
    BY <1>8 DEF SendFails, SendKills
  <2> QED BY <2>1, QuietKept
<1>9. CASE \/ Start \/ First \/ NextQuestion \/ StartRound \/ EndRound \/ EndQuestion
           \/ Scores \/ Tally \/ Finish
  <2>1. \A j \in Players : Quiet(j)
    BY <1>9 DEF Start, First, NextQuestion, StartRound, EndRound, EndQuestion, Scores,
       Tally, Finish
  <2>2. /\ UNCHANGED <<prompts, net, mail>>
        /\ pc' \notin {"rollcall", "rollwait", "answerwait", "spun", "judge"}
    BY <1>9 DEF Start, First, NextQuestion, StartRound, EndRound, EndQuestion, Scores,
       Tally, Finish
  <2> QED BY <2>1, <2>2, QuietKept
<1> QED BY <1>1, <1>2, <1>3, <1>4, <1>5, <1>6, <1>7, <1>8, <1>9 DEF Room

LEMMA PromptPeer ==
    ASSUME TypeInv, PromptInv, NEW j \in Players, Peer(j)
    PROVE  PromptInv'
<1>1. UNCHANGED roomVars
  BY PeerKeepsRoom
<1>2. inTurnPlayer \in Players /\ PeerTypeOK
  BY DEF TypeInv, TypeOK, RoomTypeOK
<1>3. \A k \in Players \ {j} : /\ prompts'[k] = prompts[k] /\ net'[k] = net[k]
                               /\ mail'[k] = mail[k]
  BY <1>2 DEF Peer, ClientRoll, ClientStops, ClientEnters, ClientAnswer, ClientGivesUp, Arrive, HangUp, Reap, Replies,
     PeerTypeOK
<1>4. Quiet(j) => Quiet(j)'
  BY <1>2 DEF Quiet, Peer, ClientRoll, ClientStops, ClientEnters, ClientAnswer, ClientGivesUp, Arrive, HangUp, Reap,
     PeerTypeOK
<1>5. ASSUME NEW prompt \in {"roll", "answer"}, NEW kinds, OneReply(j, prompt, kinds),
             kinds = (IF prompt = "roll" THEN {"roll"} ELSE {"solve", "letter"})
      PROVE  OneReply(j, prompt, kinds)'
  <2>1. CASE Quiet(j)
    BY <1>4, <2>1 DEF OneReply
  <2>2. ASSUME NEW p \in Under(prompt), prompts[j] = <<p>>, net[j] = <<>>, mail[j] = <<>>
        PROVE  OneReply(j, prompt, kinds)'
    <3>1. Head(prompts[j]) = p /\ Tail(prompts[j]) = <<>>
      BY <2>2
    <3>2. ASSUME NEW m \in Message, Replies(j, m), m.kind \in kinds, mail' = mail
          PROVE  OneReply(j, prompt, kinds)'
      <4>1. prompts'[j] = <<>> /\ net'[j] = <<m>> /\ mail'[j] = <<>>
        BY <1>2, <2>2, <3>1, <3>2 DEF Replies, PeerTypeOK
      <4> QED BY <3>2, <4>1 DEF OneReply
    <3>3. CASE ClientRoll(j)
      <4>1. PICK m \in Message : Replies(j, m) /\ m.kind = "roll"
        BY <3>3, TypedAssumption DEF ClientRoll, Message
      <4> QED BY <1>5, <3>1, <3>2, <3>3, <4>1 DEF ClientRoll, Under
    <3>9. CASE ClientStops(j)
      <4>1. prompts'[j] = <<"hold">> /\ p = "roll"
        BY <1>2, <2>2, <3>1, <3>9 DEF ClientStops, PeerTypeOK
      <4>2. "hold" \in Under(prompt)
        BY <1>5, <4>1 DEF Under
      <4> QED BY <2>2, <3>9, <4>1, <4>2 DEF ClientStops, OneReply
    <3>10. CASE ClientEnters(j)
      <4>1. PICK m \in Message : Replies(j, m) /\ m.kind = "roll"
        BY <3>10 DEF ClientEnters, Message
      <4> QED BY <1>5, <3>1, <3>2, <3>10, <4>1 DEF ClientEnters, Under
    <3>4. CASE ClientAnswer(j)
      <4>0. /\ \A w \in Words : [kind |-> "solve", text |-> w] \in Message
            /\ \A c \in Guesses : [kind |-> "letter", text |-> <<c>>] \in Message
        BY DEF Message
      <4>1. PICK m \in Message : Replies(j, m) /\ m.kind \in {"solve", "letter"}
        <5>1. CASE \E w \in Words : Replies(j, [kind |-> "solve", text |-> w])
          BY <4>0, <5>1
        <5>2. CASE \E c \in Guesses : Replies(j, [kind |-> "letter", text |-> <<c>>])
          BY <4>0, <5>2
        <5> QED BY <3>4, <5>1, <5>2 DEF ClientAnswer
      <4> QED BY <1>5, <3>1, <3>2, <3>4, <4>1 DEF ClientAnswer, Under
    <3>5. CASE ClientGivesUp(j)
      BY <1>2, <2>2, <3>1, <3>5 DEF ClientGivesUp, OneReply, Quiet, PeerTypeOK
    <3>6. CASE HangUp(j)
      BY <1>2, <2>2, <3>6 DEF HangUp, OneReply, Quiet, PeerTypeOK
    <3>7. CASE Reap(j)
      BY <2>2, <3>7 DEF Reap, OneReply, Quiet
    <3>8. CASE Arrive(j)
      BY <2>2, <3>8 DEF Arrive
    <3> QED BY <3>3, <3>4, <3>5, <3>6, <3>7, <3>8, <3>9, <3>10 DEF Peer
  <2>3. ASSUME NEW m \in Message, m.kind \in kinds, prompts[j] = <<>>,
               \/ net[j] = <<m>> /\ mail[j] = <<>>
               \/ net[j] = <<>>  /\ mail[j] = <<m>>
        PROVE  OneReply(j, prompt, kinds)'
    <3>1. CASE Arrive(j)
      <4>0. <<m>> # <<>> /\ Head(<<m>>) = m /\ Tail(<<m>>) = <<>>
        OBVIOUS
      <4>1. net[j] = <<m>> /\ Head(net[j]) = m /\ Tail(net[j]) = <<>>
        BY <2>3, <3>1, <4>0 DEF Arrive
      <4>2. prompts'[j] = <<>> /\ net'[j] = <<>> /\ mail'[j] = <<m>>
        BY <1>2, <2>3, <3>1, <4>1 DEF Arrive, PeerTypeOK
      <4> QED BY <2>3, <4>2 DEF OneReply
    <3>2. CASE HangUp(j) \/ Reap(j)
      <4>1. prompts'[j] = <<>> /\ net' = net /\ mail' = mail
        BY <1>2, <2>3, <3>2 DEF HangUp, Reap, PeerTypeOK
      <4> QED BY <2>3, <4>1 DEF OneReply
    <3>3. /\ ~ClientRoll(j) /\ ~ClientStops(j) /\ ~ClientEnters(j)
          /\ ~ClientAnswer(j) /\ ~ClientGivesUp(j)
      BY <2>3 DEF ClientRoll, ClientStops, ClientEnters, ClientAnswer, ClientGivesUp
    <3> QED BY <3>1, <3>2, <3>3 DEF Peer
  <2> QED BY <1>5, <2>1, <2>2, <2>3 DEF OneReply
<1>6. \A prompt, kinds : j # inTurnPlayer /\ OneReply(inTurnPlayer, prompt, kinds)
        => OneReply(inTurnPlayer, prompt, kinds)'
  BY <1>1, <1>2, <1>3 DEF OneReply, Quiet
<1>7. pc \in {"rollcall", "rollwait"} => OneReply(inTurnPlayer, "roll", {"roll"})'
  BY <1>1, <1>5, <1>6 DEF PromptInv
<1>8. pc = "answerwait" => OneReply(inTurnPlayer, "answer", {"solve", "letter"})'
  BY <1>1, <1>5, <1>6 DEF PromptInv
<1>9. \A k \in Players : ~Quiet(k)' => ~Quiet(k)
  BY <1>3, <1>4 DEF Quiet
<1> QED BY <1>1, <1>7, <1>8, <1>9 DEF PromptInv

LEMMA PromptInvariant == ASSUME Timely PROVE Spec => []PromptInv
<1>1. Init => PromptInv
  BY DEF Init, PromptInv, Quiet, OneReply
<1>2. TypeInv /\ PromptInv /\ [Next]_vars => PromptInv'
  <2> SUFFICES ASSUME TypeInv, PromptInv, [Next]_vars PROVE PromptInv'
    OBVIOUS
  <2>1. CASE Room BY <2>1, PromptRoom
  <2>2. CASE \E j \in Players : Peer(j) BY <2>2, PromptPeer
  <2>3. CASE UNCHANGED vars
    BY <2>3, QuietKept DEF PromptInv
  <2>4. CASE Exit
    <3>1. pc' = "crash" /\ UNCHANGED <<inTurnPlayer, prompts, net, mail>>
      BY <2>4, ExitStep DEF Exit
    <3>2. \A j \in Players : ~Quiet(j)' => ~Quiet(j)
      BY <3>1, QuietKept
    <3>3. pc \notin Returned
      BY <2>4, ExitStep DEF Exit
    <3> QED BY <3>1, <3>2, <3>3 DEF PromptInv, Waits, Returned
  <2> QED BY <2>1, <2>2, <2>3, <2>4 DEF Next, Exit
<1> QED BY <1>1, <1>2, TypeInvariant, PTL DEF Spec

\* When answers are never late, every reply is read by its own prompt.
THEOREM RepliesMatchHolds == ASSUME Timely PROVE Spec => []RepliesMatchPrompts
<1>1. PromptInv => RepliesMatchPrompts
  BY DEF PromptInv, RepliesMatchPrompts, Quiet, Waits
<1> QED BY <1>1, PromptInvariant, PTL

\* And when no send overtakes an end of file, no connection is reset and nobody
\* types a dash for an answer, the thread survives the game: nothing it parses lacks a part, and it
\* has a winner to name.
THEOREM NoCrashHolds ==
    ASSUME Timely, ~SendRaces, ~Resets, <<>> \notin Words, Dash \notin Guesses
    PROVE  Spec => []NoCrash
<1>1. Init => NoCrash
  BY DEF Init, NoCrash
<1>2. TypeInv /\ WinnerHasTheHighestScore /\ PromptInv /\ NoCrash /\ [Next]_vars => NoCrash'
  <2> SUFFICES ASSUME TypeInv, WinnerHasTheHighestScore, PromptInv, NoCrash, [Next]_vars
               PROVE  NoCrash'
    OBVIOUS
  <2>1. CASE Judge
    <3>1. recvBuff \in Message /\ recvBuff.kind \in {"solve", "letter"}
      BY <2>1 DEF Judge, PromptInv, TypeInv, TypeOK, RoomTypeOK
    <3>2. recvBuff.kind = "solve" => ~NoSecondPart(recvBuff)
      <4> HAVE recvBuff.kind = "solve"
      <4>1. recvBuff.text \in Words
        BY <3>1 DEF Message
      <4>2. recvBuff.text # <<>> /\ recvBuff.text \in Seq(Letters)
        BY <4>1, TypedAssumption
      <4>3. recvBuff.text # <<Dash>>
        BY <4>2, AnsAssumption
      <4> QED BY <4>2, <4>3 DEF NoSecondPart
    <3>3. recvBuff.kind = "letter" => ~NoSecondPart(recvBuff)
      <4> HAVE recvBuff.kind = "letter"
      <4>1. PICK c \in Guesses : recvBuff.text = <<c>>
        BY <3>1 DEF Message
      <4> QED BY <4>1 DEF NoSecondPart
    <3>4. ~NoSecondPart(recvBuff)
      BY <3>1, <3>2, <3>3
    <3> QED BY <2>1, <3>4 DEF Judge, JudgeCrash, JudgeSolve, JudgeLetter, JudgeIgnored,
               NextPlayerTurn, NoCrash
  <2>2. CASE Finish
    BY <2>2, NAssumption DEF Finish, WinnerHasTheHighestScore, NoCrash, NoWiner, Players
  <2>3. CASE Room /\ ~Judge /\ ~Finish
    BY <2>3 DEF Room, SendFails, SendKills, Start, First, NextQuestion, StartRound, Turn,
       RollCall, ReadRoll, Spun, Limit, Timeout, Late, ReadAnswer, EndRound, EndQuestion,
       Scores, Tally, NextPlayerTurn, NoCrash
  <2>4. CASE UNCHANGED roomVars BY <2>4 DEF NoCrash
  <2>5. ~Exit
    BY DEF Exit, RecvFails
  <2> QED BY <2>1, <2>2, <2>3, <2>4, <2>5, PeerKeepsRoom DEF Next, Exit
<1> QED BY <1>1, <1>2, TypeInvariant, WinnerHolds, PromptInvariant, PTL DEF Spec
-----------------------------------------------------------------------------
(***************************************************************************)
(* The rules of the game: GamePlay implements Quiz.                        *)
(***************************************************************************)

\* Before the first question nobody has a point and no question is passed, so
\* that what Start and First assign is what is there.
FreshInv ==
    pc \in {"start", "first"} => numQuesPass = 0 /\ playerPoint = [j \in Players |-> 0]

LEMMA FreshInvariant == Spec => []FreshInv
<1>1. Init => FreshInv
  BY DEF Init, FreshInv
<1>2. FreshInv /\ [Next]_vars => FreshInv'
  <2> SUFFICES ASSUME FreshInv, [Next]_vars PROVE FreshInv'
    OBVIOUS
  <2>1. CASE Start BY <2>1 DEF Start, FreshInv
  <2>2. CASE Judge
    <3>1. pc' \in {"crash", "endquestion", "endround", "turn"}
      BY <2>2 DEF Judge, JudgeCrash, JudgeSolve, JudgeLetter, JudgeIgnored, NextPlayerTurn
    <3> QED BY <3>1 DEF FreshInv
  <2>3. CASE Room /\ ~Start /\ ~Judge
    <3>1. pc' \notin {"start", "first"}
      BY <2>3 DEF Room, SendFails, SendKills, First, NextQuestion, StartRound, Turn,
         RollCall, ReadRoll, Spun, Limit, Timeout, Late, ReadAnswer, EndRound, EndQuestion,
         Scores, Tally, Finish, NextPlayerTurn
    <3> QED BY <3>1 DEF FreshInv
  <2>4. CASE UNCHANGED roomVars
    BY <2>4 DEF FreshInv
  <2>5. CASE Exit
    BY <2>5, ExitStep DEF Exit, FreshInv
  <2> QED BY <2>1, <2>2, <2>3, <2>4, <2>5, PeerKeepsRoom DEF Next, Exit
<1> QED BY <1>1, <1>2, PTL DEF Spec

\* What every state of the thread is to the rules.
LEMMA StageIs ==
    /\ pc \in {"start", "first", "ask"} => Stage = "asking"
    /\ pc \in OnTheTable => Stage = "open"
    /\ pc = "endquestion" => Stage = "solved"
    /\ pc \in {"scores", "tally", "finish"} => Stage = "over"
    /\ pc = "done" => Stage = "won"
    /\ pc \in {"outroom", "crash"} => Stage = "broken"
BY DEF Stage, OnTheTable

\* The thread gives up: nothing the rules speak of has changed.
LEMMA BreakIsBreak ==
    ASSUME TypeInv, FreshInv, pc # "done", pc' \in {"outroom", "crash"},
           UNCHANGED <<gameVars, ques, shown>>
    PROVE  [Rules!Next]_(Rules!rules)
<1>1. Stage' = "broken"
  BY StageIs DEF Stage, OnTheTable
<1>2. Stage # "won"
  BY StageIs DEF Stage, OnTheTable, TypeInv, TypeOK, RoomTypeOK, Sections, Returned
<1>3. Points' = Points
  BY DEF Points, FreshInv
<1>4. Champion' = Champion
  BY DEF Champion
<1> QED BY <1>1, <1>2, <1>3, <1>4 DEF Rules!Next, Rules!Break

\* A step within a stage, without points.
LEMMA StageKept ==
    ASSUME Stage' = Stage, Points' = Points, Champion' = Champion,
           UNCHANGED <<ques, shown, numQuesPass>>
    PROVE  [Rules!Next]_(Rules!rules)
BY DEF Rules!rules

\* Quiz counts with the same operator.
LEMMA SameCardinality == \A S : Rules!Cardinality(S) = Cardinality(S)
BY DEF Rules!Cardinality, Cardinality

LEMMA JudgeIsRules ==
    ASSUME TypeInv, LettersCountedOnce, RollInv, FreshInv, Judge
    PROVE  [Rules!Next]_(Rules!rules)
<1>1. /\ pc = "judge" /\ ques' = ques /\ numQuesPass' = numQuesPass /\ RoomTypeOK
      /\ inTurnPlayer \in Players /\ turnScore \in {20, 50, 100}
  BY DEF Judge, TypeInv, TypeOK, RoomTypeOK, RollInv, ScoreRolledThisRound
<1>2. pc' \in {"crash", "endquestion", "endround", "turn"}
  BY DEF Judge, JudgeCrash, JudgeSolve, JudgeLetter, JudgeIgnored, NextPlayerTurn
<1>3. Stage = "open" /\ Points = playerPoint /\ Champion = NoWiner
  BY <1>1, StageIs DEF OnTheTable, Points, Champion
<1>4. Points' = playerPoint' /\ Champion' = NoWiner
  BY <1>2 DEF Points, Champion, NoWiner
<1>5. /\ pc' \in {"endround", "turn"} => Stage' = "open"
      /\ pc' = "endquestion" => Stage' = "solved"
  BY <1>2 DEF Stage, OnTheTable
<1>6. CASE pc' \in {"endround", "turn"} /\ UNCHANGED <<playerPoint, shown>>
  BY <1>1, <1>3, <1>4, <1>5, <1>6, StageKept
<1>7. CASE JudgeCrash
  BY <1>1, <1>7, BreakIsBreak DEF JudgeCrash
<1>8. CASE JudgeSolve
  <2>1. CASE pc' = "endquestion"
    <3>1. /\ playerPoint' = [playerPoint EXCEPT ![inTurnPlayer] = @ + 300]
          /\ shown' = shown
      BY <1>8, <2>1 DEF JudgeSolve, NextPlayerTurn
    <3>2. Rules!PayAnswer(inTurnPlayer)
      BY <1>1, <1>3, <1>4, <1>5, <2>1, <3>1 DEF Rules!PayAnswer
    <3> QED BY <1>1, <3>2 DEF Rules!Next
  <2>2. CASE pc' # "endquestion"
    BY <1>6, <1>8, <2>2 DEF JudgeSolve, NextPlayerTurn
  <2> QED BY <2>1, <2>2
<1>9. CASE JudgeLetter
  <2> DEFINE c == recvBuff.text[1]
  <2>1. CASE checkIfGuessed(c) \/ Hits(c) = {}
    BY <1>6, <1>9, <2>1 DEF JudgeLetter, NextPlayerTurn
  <2>2. CASE ~checkIfGuessed(c) /\ Hits(c) # {}
    <3>1. /\ shown' = shown \cup Hits(c)
          /\ ansSolvedLetterNum' = ansSolvedLetterNum + Cardinality(Hits(c))
          /\ playerPoint' = [playerPoint EXCEPT
                               ![inTurnPlayer] = @ + turnScore * Cardinality(Hits(c))]
          /\ pc' = IF ansSolvedLetterNum' = Len(Ans[ques]) THEN "endquestion" ELSE "endround"
      BY <1>9, <2>2 DEF JudgeLetter
    <3>2. PICK i \in Places : i \in Hits(c) /\ Ans[ques][i] = c
      BY <2>2 DEF Hits
    <3>3. Hits(c) \cap shown = {} /\ i \notin shown
      BY <1>1, <2>2, <3>2, FillLetter
    <3>4. Hits(c) = {k \in 1 .. Len(Ans[ques]) : Ans[ques][k] = Ans[ques][i]}
      BY <3>2 DEF Hits, Places
    <3>5. ansSolvedLetterNum' = Cardinality(shown \cup Hits(c))
      BY <1>1, <2>2, <3>1, FillLetter DEF LettersCountedOnce, OnTheTable
    <3>6. shown \cup Hits(c) \subseteq Places
      BY <1>1, HitsType DEF RoomTypeOK
    <3>7. ansSolvedLetterNum' = Len(Ans[ques]) <=> shown' = Places
      <4>1. Cardinality(shown \cup Hits(c)) = Cardinality(Places)
              => shown \cup Hits(c) = Places
        BY <1>1, <3>6, HitsType, FS_Subset
      <4> QED BY <1>1, <3>1, <3>5, <4>1, HitsType
    <3>8. Stage' = IF shown' = 1 .. Len(Ans[ques]) THEN "solved" ELSE "open"
      BY <1>5, <3>1, <3>7 DEF Places
    <3>9. Rules!PayLetter(inTurnPlayer)
      <4>1. i \in (1 .. Len(Ans[ques])) \ shown
        BY <3>2, <3>3 DEF Places
      <4>2. /\ {k \in 1 .. Len(Ans[ques]) : Ans[ques][k] = Ans[ques][i]} \cap shown = {}
            /\ shown' = shown \cup {k \in 1 .. Len(Ans[ques]) : Ans[ques][k] = Ans[ques][i]}
            /\ Points' = [Points EXCEPT ![inTurnPlayer] = @ + turnScore *
                  Cardinality({k \in 1 .. Len(Ans[ques]) : Ans[ques][k] = Ans[ques][i]})]
        BY <1>3, <1>4, <3>1, <3>3, <3>4
      <4>3. turnScore \in {20, 50, 100} /\ Stage = "open"
        BY <1>1, <1>3
      <4>4. UNCHANGED <<ques, numQuesPass>> /\ Champion' = Champion
        BY <1>1, <1>3, <1>4
      <4>5. PICK price \in {20, 50, 100} : price = turnScore
        BY <4>3
      <4> QED BY <3>8, <4>1, <4>2, <4>3, <4>4, <4>5, SameCardinality DEF Rules!PayLetter
    <3> QED BY <1>1, <3>9 DEF Rules!Next
  <2> QED BY <2>1, <2>2
<1>10. CASE JudgeIgnored
  BY <1>6, <1>10 DEF JudgeIgnored, NextPlayerTurn
<1> QED BY <1>7, <1>8, <1>9, <1>10 DEF Judge

LEMMA RoomIsRules ==
    ASSUME TypeInv, LettersCountedOnce, RollInv, FreshInv, WinnerHasTheHighestScore, Room
    PROVE  [Rules!Next]_(Rules!rules)
<1>1. CASE SendFails \/ SendKills
  <2>1. pc # "done" /\ pc' \in {"outroom", "crash"} /\ UNCHANGED <<gameVars, ques, shown>>
    BY <1>1 DEF SendFails, SendKills, Audience
  <2> QED BY <2>1, BreakIsBreak
<1>2. CASE (RollCall \/ ReadAnswer) /\ pc' = "outroom"
  <2>1. pc # "done" /\ UNCHANGED <<gameVars, ques, shown>>
    BY <1>2 DEF RollCall, ReadAnswer
  <2> QED BY <1>2, <2>1, BreakIsBreak
<1>3. CASE \/ StartRound \/ Turn \/ ReadRoll \/ Spun \/ Limit \/ Timeout \/ Late \/ EndRound
           \/ (RollCall \/ ReadAnswer) /\ pc' # "outroom"
  <2>1. pc \in OnTheTable /\ pc' \in OnTheTable /\ UNCHANGED <<gameVars, ques, shown>>
    BY <1>3 DEF StartRound, Turn, RollCall, ReadRoll, Spun, Limit, Timeout, Late, ReadAnswer,
       EndRound, NextPlayerTurn, OnTheTable
  <2>2. Stage = "open" /\ Stage' = "open"
    BY <2>1 DEF Stage, OnTheTable
  <2>3. Points' = Points /\ Champion' = Champion
    BY <2>1 DEF Points, Champion, OnTheTable
  <2> QED BY <2>1, <2>2, <2>3, StageKept
<1>4. CASE Start \/ First
  <2>1. /\ pc \in {"start", "first"} /\ pc' \in {"first", "ask"}
        /\ UNCHANGED <<ques, shown>> /\ numQuesPass' = numQuesPass
        /\ playerPoint' = playerPoint
    BY <1>4 DEF Start, First, FreshInv
  <2>2. Stage' = "asking" /\ Stage = "asking" /\ Champion' = Champion
    BY <2>1 DEF Stage, OnTheTable, Champion
  <2>3. Points' = Points
    BY <2>1 DEF Points, FreshInv
  <2> QED BY <2>1, <2>2, <2>3, StageKept
<1>5. CASE NextQuestion
  <2>1. /\ pc = "ask" /\ pc' = "round" /\ ques' \in Questions /\ shown' = {}
        /\ UNCHANGED gameVars
    BY <1>5 DEF NextQuestion
  <2>2. /\ Stage = "asking" /\ Stage' = "open" /\ Champion' = Champion
        /\ Points' = Points
    BY <2>1 DEF Stage, Champion, Points, OnTheTable
  <2> QED BY <2>1, <2>2 DEF Rules!Next, Rules!Ask
<1>6. CASE EndQuestion
  <2>1. /\ pc = "endquestion" /\ numQuesPass' = numQuesPass + 1
        /\ pc' = IF numQuesPass' = ROOM_QUEST_NUM THEN "scores" ELSE "ask"
        /\ UNCHANGED <<playerPoint, ques, shown>>
    BY <1>6 DEF EndQuestion
  <2>2. /\ Stage = "solved"
        /\ Stage' = IF numQuesPass' = ROOM_QUEST_NUM THEN "over" ELSE "asking"
    BY <2>1 DEF Stage, OnTheTable
  <2>3. Champion' = Champion /\ Points' = Points
    BY <2>1 DEF Champion, Points
  <2> QED BY <2>1, <2>2, <2>3 DEF Rules!Next, Rules!Pass
<1>7. CASE Judge BY <1>7, JudgeIsRules
<1>8. CASE Scores \/ Tally
  <2>1. /\ pc \in {"scores", "tally"} /\ pc' \in {"tally", "finish"}
        /\ UNCHANGED <<gameVars, ques, shown>>
    BY <1>8 DEF Scores, Tally
  <2>2. Stage = "over" /\ Stage' = "over" /\ Champion' = Champion /\ Points' = Points
    BY <2>1 DEF Stage, OnTheTable, Champion, Points
  <2> QED BY <2>1, <2>2, StageKept
<1>9. CASE Finish
  <2>1. pc = "finish" /\ winer \in Players /\ \A j \in Players : playerPoint[j] <= playerPoint[winer]
    BY <1>9 DEF Finish, WinnerHasTheHighestScore
  <2>2. winer # NoWiner
    BY <2>1, NAssumption DEF Players, NoWiner
  <2>3. pc' = "done" /\ UNCHANGED <<gameVars, ques, shown, winer>>
    BY <1>9, <2>2 DEF Finish
  <2>4. Stage = "over" /\ Stage' = "won" /\ Champion' = winer /\ Points' = Points /\ Points = playerPoint
    BY <2>1, <2>3 DEF Stage, OnTheTable, Champion, Points
  <2> QED BY <2>1, <2>3, <2>4 DEF Rules!Next, Rules!Crown
<1> QED BY <1>1, <1>2, <1>3, <1>4, <1>5, <1>6, <1>7, <1>8, <1>9 DEF Room

\* The game the thread of the room plays over sockets, turns and time limits is
\* the game of the rules: letters and answers are paid as they promise, each
\* question is passed once, and who wins has the most points.
THEOREM GamePlayImplementsQuiz == Spec => RulesKept
<1>1. Init => Rules!Init
  <2> SUFFICES ASSUME Init PROVE Rules!Init
    OBVIOUS
  <2>1. /\ pc = "start" /\ numQuesPass = 0 /\ shown = {} /\ ques \in Questions
    BY AnsAssumption DEF Init
  <2>2. Stage = "asking" /\ Points = [j \in Players |-> 0] /\ Champion = NoWiner
    BY <2>1 DEF Stage, OnTheTable, Points, Champion
  <2> QED BY <2>1, <2>2 DEF Rules!Init
<1>2. TypeInv /\ LettersCountedOnce /\ RollInv /\ FreshInv /\ WinnerHasTheHighestScore
        /\ [Next]_vars => [Rules!Next]_(Rules!rules)
  <2> SUFFICES ASSUME TypeInv, LettersCountedOnce, RollInv, FreshInv,
                      WinnerHasTheHighestScore, [Next]_vars
               PROVE  [Rules!Next]_(Rules!rules)
    OBVIOUS
  <2>1. CASE Room BY <2>1, RoomIsRules
  <2>2. CASE UNCHANGED roomVars
    BY <2>2, StageKept DEF Stage, Points, Champion
  <2>3. CASE Exit
    <3>1. /\ pc \notin Returned /\ pc' = "crash"
          /\ UNCHANGED <<gameVars, ques, shown>>
      BY <2>3, ExitStep DEF Exit
    <3> QED BY <3>1, BreakIsBreak DEF Returned
  <2> QED BY <2>1, <2>2, <2>3, PeerKeepsRoom DEF Next, Exit
<1> QED
  BY <1>1, <1>2, TypeInvariant, LettersCountedOnceHolds, RollInvariant, FreshInvariant,
     WinnerHolds, PTL DEF Spec, RulesKept, Rules!Spec

================================================================================
