------------------------------- MODULE GamePlay -------------------------------
(***************************************************************************)
(* One game of a full room: roomPlay of Server/src/room.c, the thread of   *)
(* the room once every seat is ready, and what it talks to: the player's   *)
(* client (soldQuestion of Client/src/client.c) and the one-message        *)
(* mailbox the receive loop fills (recv_message of recvMessage.c).         *)
(*                                                                         *)
(* pc names the section of roomPlay the thread is in.  A section that      *)
(* sends to several players is one step; that a send of the section fails  *)
(* is a step of its own (SendFails), after which roomPlay has returned.    *)
(* The variables of the function are dead from then on, so what the        *)
(* section assigned before the failed send is not recorded.                *)
(*                                                                         *)
(* Chat lines and score lines the players are shown are left out: no state *)
(* of the server depends on them.                                          *)
(***************************************************************************)
EXTENDS Integers, Sequences, FiniteSets

CONSTANTS
    N,              \* playerNumPreSet, the seats of the room
    ROOM_QUEST_NUM, \* questions of a game
    Questions,      \* the nodes of the question list
    Ans,            \* their answers, sequences of letters
    MaxAns,         \* no answer is longer
    Letters,        \* what an answer is made of
    Blank,          \* the '_' of a letter that is not shown yet
    Dash,           \* the '-' that parts the choice from the answer
    Words,          \* what a player may type as the whole answer; <<>>: only dashes
    Guesses,        \* what a player may type as one letter
    AnswerKept,     \* letters of a typed answer the server keeps
    Rolls,          \* what the wheel of the client may stop at
    Timely,         \* TRUE: an answer given in time is never 5 s on its way
    SendRaces,      \* TRUE: the room may send before the end of file is read
    Resets,         \* TRUE: a client that ends may reset its connection
    MaxDrops,       \* players that may hang up
    PendingCap      \* bound on what a client has been asked and is not received

ASSUME NAssumption == N \in Nat /\ N >= 2
ASSUME QuestAssumption == ROOM_QUEST_NUM \in Nat /\ ROOM_QUEST_NUM >= 1
ASSUME AnsAssumption ==
    /\ MaxAns \in Nat
    /\ Questions # {}
    /\ Ans \in [Questions -> Seq(Letters)]
    /\ \A q \in Questions : Len(Ans[q]) \in 1 .. MaxAns
    /\ Blank \notin Letters /\ Dash \notin Letters
ASSUME TypedAssumption ==
    /\ Words \subseteq Seq(Letters)
    /\ Guesses \subseteq Letters \cup {Blank, Dash}
    /\ AnswerKept \in Nat
    /\ Rolls \subseteq 0 .. 9
    /\ 0 \in Rolls
ASSUME BoundAssumption ==
    /\ Timely \in BOOLEAN
    /\ SendRaces \in BOOLEAN
    /\ Resets \in BOOLEAN
    /\ MaxDrops \in Nat
    /\ PendingCap \in Nat

Players == 0 .. N - 1

\* recvBuff before getMessage has filled it, winer before a score beats 0
Nothing == [kind |-> "none", text |-> <<>>]
NoWiner == -1

\* A CLIENT_MESSAGE of a game: "7", "1-word" or "2-c".
Message ==
    [kind : {"roll"}, text : {<<r>> : r \in Rolls}]
        \cup [kind : {"solve"}, text : Words]
        \cup [kind : {"letter"}, text : {<<c>> : c \in Guesses}]

VARIABLES
    pc,                 \* section of roomPlay
    playerPoint,        \* currentRoom->playerPoint
    numQuesPass,
    ques,               \* cur_ques_ans
    shown,              \* places of curQuesAns that hold their letter
    ansSolvedLetterNum,
    inTurnPlayer,
    startRoundPlayer,
    wheelRoll,          \* 1: the player in turn has to roll
    turnScore,          \* 0: not assigned since the round began
    recvBuff,           \* what the last getMessage of the thread returned
    scan, highestScore, winer,  \* the loop that looks for the winner
    link,               \* player's connection, as server and kernel see it
    prompts,            \* what the player's client has been asked and not done
    net,                \* what the client has sent and the server not received
    mail,               \* messageRecv_fromClient, empty when not ready
    drops,              \* players that have hung up
    acted               \* history: players whose turn of this round is over

gameVars  == <<playerPoint, numQuesPass>>
quesVars  == <<ques, shown, ansSolvedLetterNum>>
turnVars  == <<inTurnPlayer, startRoundPlayer, wheelRoll, turnScore, acted>>
tallyVars == <<scan, highestScore, winer>>
peerVars  == <<link, prompts, net, drops>>
vars == <<pc, gameVars, quesVars, turnVars, recvBuff, tallyVars, peerVars, mail>>

Sections == {"start", "first", "ask", "round", "turn", "rollcall", "rollwait",
             "spun", "limit", "answerwait", "late", "judge", "endround",
             "endquestion", "scores", "tally", "finish"}
Returned == {"done", "outroom", "crash"}

Init ==
    /\ pc = "start"
    /\ playerPoint = [j \in Players |-> 0]
    /\ numQuesPass = 0
    /\ ques = CHOOSE q \in Questions : TRUE
    /\ shown = {}
    /\ ansSolvedLetterNum = 0
    /\ inTurnPlayer = 0
    /\ startRoundPlayer = 0
    /\ wheelRoll = 1
    /\ turnScore = 0
    /\ recvBuff = Nothing
    /\ scan = 0 /\ highestScore = 0 /\ winer = NoWiner
    /\ link = [j \in Players |-> "up"]
    /\ prompts = [j \in Players |-> <<>>]
    /\ net = [j \in Players |-> <<>>]
    /\ mail = [j \in Players |-> <<>>]
    /\ drops = 0
    /\ acted = {}

-----------------------------------------------------------------------------
(***************************************************************************)
(* The data of a question.                                                 *)
(***************************************************************************)

Places == 1 .. Len(Ans[ques])

\* curQuesAns: what the players see of the answer
curQuesAns == [i \in Places |-> IF i \in shown THEN Ans[ques][i] ELSE Blank]

\* mutant: the first loop over the answer is left out
MutCheckIfGuessed(c) == FALSE

\* the first loop over the answer: is the letter in the mask already?
checkIfGuessed(c) == \E i \in Places : curQuesAns[i] = c

\* mutant: the second loop stops at the first place
MutHits(c) ==
    {i \in Places : Ans[ques][i] = c /\ \A k \in 1 .. i - 1 : Ans[ques][k] # c}

\* the second loop: the places it would fill, numOfChar many
Hits(c) == {i \in Places : Ans[ques][i] = c}

\* getMessage always returns 10, and the caller ends the buffer there
Kept(word) ==
    SubSeq(word, 1, IF Len(word) <= AnswerKept THEN Len(word) ELSE AnswerKept)

\* atoi of what was read where a roll is expected
RollValue(m) == CASE m.kind = "roll"   -> m.text[1]
                  [] m.kind = "solve"  -> 1
                  [] m.kind = "letter" -> 2

LostTurn(roll) == roll \in {0, 6}
ScoreOf(roll)  == CASE roll \in {1, 3, 4, 8} -> 20
                    [] roll \in {2, 7, 9}    -> 50
                    [] roll = 5              -> 100

\* what the read text starts with, where an answer is expected
ChoseToSolve(m) == m.kind = "solve" \/ (m.kind = "roll" /\ m.text[1] = 1)
ChoseALetter(m) == m.kind = "letter" \/ (m.kind = "roll" /\ m.text[1] = 2)

\* Behind the choice there is nothing, or dashes: the second strtok returns
\* NULL, and strcpy is given it.
NoSecondPart(m) == m.kind = "roll" \/ m.text \in {<<>>, <<Dash>>}

-----------------------------------------------------------------------------
(***************************************************************************)
(* send_message: fails when the receive loop has closed the descriptor; a  *)
(* send to a peer that is gone but not yet closed succeeds, or raises      *)
(* SIGPIPE, which nothing ignores.                                         *)
(***************************************************************************)

\* what follows the choice is needed before the first send of a whole answer,
\* and after the first broadcast of a letter
JudgeAudience ==
    CASE ~NoSecondPart(recvBuff) -> Players
      [] NoSecondPart(recvBuff) /\ ChoseALetter(recvBuff) -> Players \ {inTurnPlayer}
      [] OTHER -> {}

\* who the section sends to
Audience ==
    CASE pc \in {"start", "ask", "turn", "spun", "endround", "endquestion",
                 "scores", "finish"} -> Players
      [] pc = "first" -> {0}
      [] pc = "limit" -> {inTurnPlayer}
      [] pc = "late"  -> Players \ {inTurnPlayer}
      [] pc = "judge" -> JudgeAudience
      [] OTHER -> {}

Sent == \A j \in Audience : link[j] = "up" \/ (SendRaces /\ link[j] = "hungup")

\* a send returned CONNFD_CANNOT_CONNECT: return ROOM_ERROR_PLAYER_OUTROOM
SendFails ==
    /\ \E j \in Audience : link[j] = "closed"
    /\ pc' = "outroom"
    /\ UNCHANGED <<gameVars, quesVars, turnVars, recvBuff, tallyVars, peerVars, mail>>

SendKills ==
    /\ SendRaces
    /\ \E j \in Audience : link[j] = "hungup"
    /\ pc' = "crash"
    /\ UNCHANGED <<gameVars, quesVars, turnVars, recvBuff, tallyVars, peerVars, mail>>

\* PendingCap bounds the runs in which clients are late; when Timely, nothing
\* is pending where the room prompts (RepliesMatchPrompts), so 1 hides nothing.
Pending(j) == Len(prompts[j]) + Len(net[j])

-----------------------------------------------------------------------------
(***************************************************************************)
(* The thread of the room.                                                 *)
(***************************************************************************)

\* GAME_START, and every score is 0
Start ==
    /\ pc = "start" /\ Sent
    /\ playerPoint' = [j \in Players |-> 0]
    /\ inTurnPlayer' = 0
    /\ pc' = "first"
    /\ UNCHANGED <<numQuesPass, quesVars, startRoundPlayer, wheelRoll, turnScore, acted,
                   recvBuff, tallyVars, peerVars, mail>>

\* "You go first" to the host
First ==
    /\ pc = "first" /\ Sent
    /\ numQuesPass' = 0
    /\ pc' = "ask"
    /\ UNCHANGED <<playerPoint, quesVars, turnVars, recvBuff, tallyVars, peerVars, mail>>

\* Any question: avoidID changes nothing in getRandomQues_ans.
NextQuestion ==
    /\ pc = "ask" /\ Sent
    /\ ques' \in Questions
    /\ shown' = {}
    /\ ansSolvedLetterNum' = 0
    /\ pc' = "round"
    /\ UNCHANGED <<gameVars, turnVars, recvBuff, tallyVars, peerVars, mail>>

StartRound ==
    /\ pc = "round"
    /\ startRoundPlayer' = inTurnPlayer
    /\ wheelRoll' = 1
    /\ turnScore' = 0
    /\ acted' = {}
    /\ pc' = "turn"
    /\ UNCHANGED <<gameVars, quesVars, inTurnPlayer, recvBuff, tallyVars, peerVars, mail>>

\* mutant: WHEEL_ROLL goes to every player in turn
MutTurn ==
    /\ pc = "turn" /\ Sent
    /\ pc' = IF inTurnPlayer = startRoundPlayer \/ wheelRoll = 1 THEN "rollcall" ELSE "limit"
    /\ Pending(inTurnPlayer) < PendingCap
    /\ prompts' = IF link[inTurnPlayer] = "up"
                    THEN [prompts EXCEPT ![inTurnPlayer] = Append(@, "roll")]
                    ELSE prompts
    /\ UNCHANGED <<gameVars, quesVars, turnVars, recvBuff, tallyVars, link, net, drops, mail>>

\* YOUR_TURN; WHEEL_ROLL only for who starts the round or follows a lost turn
Turn ==
    /\ pc = "turn" /\ Sent
    /\ IF inTurnPlayer = startRoundPlayer \/ wheelRoll = 1
         THEN /\ pc' = "rollcall"
              /\ Pending(inTurnPlayer) < PendingCap
              /\ prompts' = IF link[inTurnPlayer] = "up"
                              THEN [prompts EXCEPT ![inTurnPlayer] = Append(@, "roll")]
                              ELSE prompts
         ELSE /\ pc' = "limit"
              /\ UNCHANGED prompts
    /\ UNCHANGED <<gameVars, quesVars, turnVars, recvBuff, tallyVars, link, net, drops, mail>>

\* getMessage looks the descriptor up, once, before it waits
RollCall ==
    /\ pc = "rollcall"
    /\ pc' = IF link[inTurnPlayer] = "closed" THEN "outroom" ELSE "rollwait"
    /\ UNCHANGED <<gameVars, quesVars, turnVars, recvBuff, tallyVars, peerVars, mail>>

\* the mailbox is emptied into recvBuff
TakeMail ==
    /\ mail[inTurnPlayer] # <<>>
    /\ recvBuff' = Head(mail[inTurnPlayer])
    /\ mail' = [mail EXCEPT ![inTurnPlayer] = <<>>]

ReadRoll ==
    /\ pc = "rollwait"
    /\ TakeMail
    /\ wheelRoll' = 0
    /\ pc' = "spun"
    /\ UNCHANGED <<gameVars, quesVars, inTurnPlayer, startRoundPlayer, turnScore, acted,
                   tallyVars, peerVars>>

\* mutant: one seat too many before it starts again
MutNextPlayer == IF inTurnPlayer # N THEN inTurnPlayer + 1 ELSE 0

\* nextPlayerTurn, and the condition of the round's loop
NextPlayer == IF inTurnPlayer # N - 1 THEN inTurnPlayer + 1 ELSE 0

\* mutant: the loop's condition looks at the player whose turn it was
MutNextPlayerTurn ==
    /\ inTurnPlayer' = NextPlayer
    /\ acted' = acted \cup {inTurnPlayer}
    /\ pc' = IF startRoundPlayer = inTurnPlayer /\ acted # {} THEN "endround" ELSE "turn"

NextPlayerTurn ==
    /\ inTurnPlayer' = NextPlayer
    /\ acted' = acted \cup {inTurnPlayer}
    /\ pc' = IF startRoundPlayer = NextPlayer THEN "endround" ELSE "turn"

\* mutant: a lost turn does not make the next player roll
MutSpun ==
    /\ pc = "spun" /\ Sent
    /\ \/ /\ LostTurn(RollValue(recvBuff))
          /\ NextPlayerTurn
          /\ UNCHANGED <<turnScore, wheelRoll>>
       \/ /\ ~LostTurn(RollValue(recvBuff))
          /\ turnScore' = ScoreOf(RollValue(recvBuff))
          /\ pc' = "limit"
          /\ UNCHANGED <<inTurnPlayer, acted, wheelRoll>>
    /\ recvBuff' = Nothing
    /\ UNCHANGED <<gameVars, quesVars, startRoundPlayer, tallyVars, peerVars, mail>>

\* the switch over the roll and, when it lost the turn, the next player
Spun ==
    /\ pc = "spun" /\ Sent
    /\ \/ /\ LostTurn(RollValue(recvBuff))
          /\ wheelRoll' = 1
          /\ NextPlayerTurn
          /\ UNCHANGED turnScore
       \/ /\ ~LostTurn(RollValue(recvBuff))
          /\ turnScore' = ScoreOf(RollValue(recvBuff))
          /\ pc' = "limit"
          /\ UNCHANGED <<inTurnPlayer, acted, wheelRoll>>
    /\ recvBuff' = Nothing
    /\ UNCHANGED <<gameVars, quesVars, startRoundPlayer, tallyVars, peerVars, mail>>

\* the 10 s of the answer are sent, the 15 s of the server begin
Limit ==
    /\ pc = "limit" /\ Sent
    /\ Pending(inTurnPlayer) < PendingCap
    /\ prompts' = IF link[inTurnPlayer] = "up"
                    THEN [prompts EXCEPT ![inTurnPlayer] = Append(@, "answer")]
                    ELSE prompts
    /\ pc' = "answerwait"
    /\ UNCHANGED <<gameVars, quesVars, turnVars, recvBuff, tallyVars, link, net, drops, mail>>

\* mutant: no limit for the answer, as there is none for the roll
MutTimeout == FALSE /\ UNCHANGED vars

\* The 15 s are over: when Timely, the client is no longer asking and
\* nothing it sent is on its way.
Timeout ==
    /\ pc = "answerwait"
    /\ mail[inTurnPlayer] = <<>>
    /\ Timely => prompts[inTurnPlayer] = <<>> /\ net[inTurnPlayer] = <<>>
    /\ pc' = "late"
    /\ UNCHANGED <<gameVars, quesVars, turnVars, recvBuff, tallyVars, peerVars, mail>>

\* mutant: the player who was late is asked again
MutLate ==
    /\ pc = "late" /\ Sent
    /\ pc' = "limit"
    /\ UNCHANGED <<gameVars, quesVars, turnVars, recvBuff, tallyVars, peerVars, mail>>

\* "Player is timeout" to the others
Late ==
    /\ pc = "late" /\ Sent
    /\ NextPlayerTurn
    /\ UNCHANGED <<gameVars, quesVars, startRoundPlayer, wheelRoll, turnScore, recvBuff,
                   tallyVars, peerVars, mail>>

\* The flag was seen up; getMessage looks the descriptor up and reads.
ReadAnswer ==
    /\ pc = "answerwait"
    /\ mail[inTurnPlayer] # <<>>
    /\ IF link[inTurnPlayer] = "closed"
         THEN /\ pc' = "outroom"
              /\ UNCHANGED <<recvBuff, mail>>
         ELSE /\ pc' = "judge"
              /\ TakeMail
    /\ UNCHANGED <<gameVars, quesVars, turnVars, tallyVars, peerVars>>

\* A choice without its second part ends the server, and every game with it.
JudgeCrash ==
    /\ ChoseToSolve(recvBuff) \/ ChoseALetter(recvBuff)
    /\ NoSecondPart(recvBuff)
    /\ pc' = "crash"
    /\ UNCHANGED <<playerPoint, inTurnPlayer, acted, shown, ansSolvedLetterNum>>

\* "1-": the whole answer
JudgeSolve ==
    /\ ChoseToSolve(recvBuff) /\ ~NoSecondPart(recvBuff)
    /\ \/ /\ Kept(recvBuff.text) = Ans[ques]
          /\ playerPoint' = [playerPoint EXCEPT ![inTurnPlayer] = @ + 300]
          /\ pc' = "endquestion"
          /\ UNCHANGED <<inTurnPlayer, acted>>
       \/ /\ Kept(recvBuff.text) # Ans[ques]
          /\ NextPlayerTurn
          /\ UNCHANGED playerPoint
    /\ UNCHANGED <<shown, ansSolvedLetterNum>>

\* "2-": one letter
JudgeLetter ==
    /\ ChoseALetter(recvBuff) /\ ~NoSecondPart(recvBuff)
    /\ LET c == recvBuff.text[1] IN
       IF checkIfGuessed(c) \/ Hits(c) = {}
         THEN /\ NextPlayerTurn
              /\ UNCHANGED <<playerPoint, shown, ansSolvedLetterNum>>
         ELSE /\ shown' = shown \cup Hits(c)
              /\ ansSolvedLetterNum' = ansSolvedLetterNum + Cardinality(Hits(c))
              /\ playerPoint' = [playerPoint EXCEPT
                                   ![inTurnPlayer] = @ + turnScore * Cardinality(Hits(c))]
              /\ pc' = IF ansSolvedLetterNum' = Len(Ans[ques])
                         THEN "endquestion" ELSE "endround"
              /\ UNCHANGED <<inTurnPlayer, acted>>

\* anything else is passed over without a word
JudgeIgnored ==
    /\ ~ChoseToSolve(recvBuff) /\ ~ChoseALetter(recvBuff)
    /\ NextPlayerTurn
    /\ UNCHANGED <<playerPoint, shown, ansSolvedLetterNum>>

Judge ==
    /\ pc = "judge" /\ Sent
    /\ JudgeCrash \/ JudgeSolve \/ JudgeLetter \/ JudgeIgnored
    /\ recvBuff' = Nothing
    /\ UNCHANGED <<numQuesPass, ques, startRoundPlayer, wheelRoll, turnScore,
                   tallyVars, peerVars, mail>>

\* The question is not solved: scores, NEXT_ROUND and the mask.  printAllScore
\* ends without a return; built as the Makefile does, its caller then finds
\* playerNumPreSet in the register, which is not ROOM_ERROR_PLAYER_OUTROOM.
EndRound ==
    /\ pc = "endround" /\ Sent
    /\ pc' = "round"
    /\ UNCHANGED <<gameVars, quesVars, turnVars, recvBuff, tallyVars, peerVars, mail>>

\* mutant: the question that was solved is not counted
MutEndQuestion ==
    /\ pc = "endquestion" /\ Sent
    /\ pc' = IF numQuesPass + 1 = ROOM_QUEST_NUM THEN "scores" ELSE "ask"
    /\ UNCHANGED <<gameVars, quesVars, turnVars, recvBuff, tallyVars, peerVars, mail>>

\* scores and QUES_SOLVED
EndQuestion ==
    /\ pc = "endquestion" /\ Sent
    /\ numQuesPass' = numQuesPass + 1
    /\ pc' = IF numQuesPass' = ROOM_QUEST_NUM THEN "scores" ELSE "ask"
    /\ UNCHANGED <<playerPoint, quesVars, turnVars, recvBuff, tallyVars, peerVars, mail>>

\* the last scores; the search for the winner begins
Scores ==
    /\ pc = "scores" /\ Sent
    /\ scan' = 0 /\ highestScore' = 0 /\ winer' = NoWiner
    /\ pc' = "tally"
    /\ UNCHANGED <<gameVars, quesVars, turnVars, recvBuff, peerVars, mail>>

\* mutant: the highest score so far is not kept
MutTally ==
    /\ pc = "tally"
    /\ IF scan = N
         THEN /\ pc' = "finish"
              /\ UNCHANGED tallyVars
         ELSE /\ scan' = scan + 1
              /\ winer' = IF playerPoint[scan] > highestScore THEN scan ELSE winer
              /\ UNCHANGED <<highestScore, pc>>
    /\ UNCHANGED <<gameVars, quesVars, turnVars, recvBuff, peerVars, mail>>

\* mutant: only the highest score is kept, not whose it is
MutTallyNoName ==
    /\ pc = "tally"
    /\ IF scan = N
         THEN /\ pc' = "finish"
              /\ UNCHANGED tallyVars
         ELSE /\ scan' = scan + 1
              /\ highestScore' = IF playerPoint[scan] > highestScore
                                   THEN playerPoint[scan] ELSE highestScore
              /\ UNCHANGED <<winer, pc>>
    /\ UNCHANGED <<gameVars, quesVars, turnVars, recvBuff, peerVars, mail>>

Tally ==
    /\ pc = "tally"
    /\ IF scan = N
         THEN /\ pc' = "finish"
              /\ UNCHANGED tallyVars
         ELSE /\ scan' = scan + 1
              /\ IF playerPoint[scan] > highestScore
                   THEN highestScore' = playerPoint[scan] /\ winer' = scan
                   ELSE UNCHANGED <<highestScore, winer>>
              /\ UNCHANGED pc
    /\ UNCHANGED <<gameVars, quesVars, turnVars, recvBuff, peerVars, mail>>

\* "The winner is" and END_GAME; without a winner, winer has any value, of a
\* seat or out of bounds
Finish ==
    /\ pc = "finish" /\ Sent
    /\ pc' \in IF winer = NoWiner THEN {"crash", "done"} ELSE {"done"}
    /\ UNCHANGED <<gameVars, quesVars, turnVars, recvBuff, tallyVars, peerVars, mail>>

Room ==
    \/ SendFails \/ SendKills
    \/ Start \/ First \/ NextQuestion \/ StartRound \/ Turn
    \/ RollCall \/ ReadRoll \/ Spun \/ Limit \/ Timeout \/ Late
    \/ ReadAnswer \/ Judge \/ EndRound \/ EndQuestion
    \/ Scores \/ Tally \/ Finish

-----------------------------------------------------------------------------
(***************************************************************************)
(* The clients, one prompt at a time, and the receive loop of the server.  *)
(***************************************************************************)

roomVars == <<pc, gameVars, quesVars, turnVars, recvBuff, tallyVars>>

Replies(j, m) ==
    /\ net' = [net EXCEPT ![j] = Append(@, m)]
    /\ prompts' = [prompts EXCEPT ![j] = Tail(@)]

\* WHEEL_ROLL and no key for 5 s: bigNumberChoose returns 0
ClientRoll(j) ==
    /\ prompts[j] # <<>> /\ Head(prompts[j]) = "roll"
    /\ Replies(j, [kind |-> "roll", text |-> <<0>>])
    /\ UNCHANGED <<roomVars, link, drops, mail>>

\* a key stops the wheel: bigNumberChoose shows the number and holds the screen
ClientStops(j) ==
    /\ prompts[j] # <<>> /\ Head(prompts[j]) = "roll"
    /\ prompts' = [prompts EXCEPT ![j] = <<"hold">> \o Tail(@)]
    /\ UNCHANGED <<roomVars, link, net, drops, mail>>

\* holdScreen has its Enter, for which it waits without limit
ClientEnters(j) ==
    /\ prompts[j] # <<>> /\ Head(prompts[j]) = "hold"
    /\ \E r \in Rolls : Replies(j, [kind |-> "roll", text |-> <<r>>])
    /\ UNCHANGED <<roomVars, link, drops, mail>>

\* getAnswer returned 1 within its 10 s
ClientAnswer(j) ==
    /\ prompts[j] # <<>> /\ Head(prompts[j]) = "answer"
    /\ \/ \E w \in Words : Replies(j, [kind |-> "solve", text |-> w])
       \/ \E c \in Guesses : Replies(j, [kind |-> "letter", text |-> <<c>>])
    /\ UNCHANGED <<roomVars, link, drops, mail>>

\* getAnswer ran into its 10 s
ClientGivesUp(j) ==
    /\ prompts[j] # <<>> /\ Head(prompts[j]) = "answer"
    /\ prompts' = [prompts EXCEPT ![j] = Tail(@)]
    /\ UNCHANGED <<roomVars, link, net, drops, mail>>

\* the receive loop copies a message into the free mailbox and raises its flag
Arrive(j) ==
    /\ net[j] # <<>> /\ mail[j] = <<>>
    /\ mail' = [mail EXCEPT ![j] = <<Head(net[j])>>]
    /\ net' = [net EXCEPT ![j] = Tail(@)]
    /\ UNCHANGED <<roomVars, link, prompts, drops>>

\* the client program ends
HangUp(j) ==
    /\ link[j] = "up" /\ drops < MaxDrops
    /\ link' = [link EXCEPT ![j] = "hungup"]
    /\ prompts' = [prompts EXCEPT ![j] = <<>>]
    /\ drops' = drops + 1
    /\ UNCHANGED <<roomVars, net, mail>>

\* recv returns 0: clientConnfdUnconnect closes the descriptor.  The loop
\* waits for the mailbox to be free before it reads, an end of file too.
Reap(j) ==
    /\ link[j] = "hungup" /\ net[j] = <<>> /\ mail[j] = <<>>
    /\ link' = [link EXCEPT ![j] = "closed"]
    /\ UNCHANGED <<roomVars, prompts, net, drops, mail>>

\* recv fails on a connection that was reset: the loop calls exit(0).  What
\* that does to rooms whose game is over is not followed.
RecvFails(j) ==
    /\ Resets /\ pc \notin Returned
    /\ link[j] = "hungup" /\ net[j] = <<>> /\ mail[j] = <<>>
    /\ pc' = "crash"
    /\ UNCHANGED <<gameVars, quesVars, turnVars, recvBuff, tallyVars, peerVars, mail>>

Peer(j) == \/ ClientRoll(j) \/ ClientStops(j) \/ ClientEnters(j)
           \/ ClientAnswer(j) \/ ClientGivesUp(j)
           \/ Arrive(j) \/ HangUp(j) \/ Reap(j)

Next == \/ Room
        \/ \E j \in Players : Peer(j)
        \/ \E j \in Players : RecvFails(j)

\* The thread runs, the receive loop runs, the wheel of a prompted client or
\* its timer stops.  A player need not press Enter, and nobody has to hang up.
Fairness ==
    /\ WF_vars(Room)
    /\ \A j \in Players : /\ WF_vars(ClientRoll(j) \/ ClientStops(j))
                          /\ WF_vars(ClientAnswer(j) \/ ClientGivesUp(j))
                          /\ WF_vars(Arrive(j))
                          /\ WF_vars(Reap(j))

Spec == Init /\ [][Next]_vars
FairSpec == Spec /\ Fairness
-----------------------------------------------------------------------------
(***************************************************************************)
(* Properties.                                                             *)
(***************************************************************************)

MaxScore == 100 * MaxAns + 300

RoomTypeOK ==
    /\ pc \in Sections \cup Returned
    /\ playerPoint \in [Players -> Nat]
    /\ numQuesPass \in 0 .. ROOM_QUEST_NUM
    /\ ques \in Questions
    /\ shown \subseteq Places
    /\ ansSolvedLetterNum \in Nat
    /\ inTurnPlayer \in Players
    /\ startRoundPlayer \in Players
    /\ wheelRoll \in {0, 1}
    /\ turnScore \in {0, 20, 50, 100}
    /\ recvBuff \in Message \cup {Nothing}
    /\ pc \in {"spun", "judge"} => recvBuff \in Message
    /\ scan \in 0 .. N
    /\ highestScore \in Nat
    /\ winer \in Players \cup {NoWiner}
    /\ acted \subseteq Players

PeerTypeOK ==
    /\ link \in [Players -> {"up", "hungup", "closed"}]
    /\ prompts \in [Players -> Seq({"roll", "hold", "answer"})]
    /\ net \in [Players -> Seq(Message)]
    /\ mail \in [Players -> Seq(Message)]
    /\ \A j \in Players : Len(mail[j]) <= 1
    /\ drops \in 0 .. MaxDrops

\* Every variable holds a value of its kind: seats, sections and counters in
\* their ranges, mailboxes of at most one message; and the buffer has been
\* filled where the thread looks into it.
TypeOK == RoomTypeOK /\ PeerTypeOK

\* The question on the table: asked, and not yet recorded as passed.
OnTheTable == {"round", "turn", "rollcall", "rollwait", "spun", "limit", "answerwait",
               "late", "judge", "endround"}

\* ansSolvedLetterNum, which room.c only ever adds to, is the number of
\* places the mask shows, so no letter is paid for twice; and as long as the
\* question is played on, some place is still hidden: the question ends the
\* moment its last letter is shown (room.c:1144).
LettersCountedOnce ==
    /\ pc \in OnTheTable \cup {"endquestion"} => ansSolvedLetterNum = Cardinality(shown)
    /\ pc \in OnTheTable => shown # Places

\* No player's score outgrows what the questions passed so far and the
\* places shown of the one on the table can have paid.  After the last
\* question that is ROOM_QUEST_NUM * MaxScore, 8400 with the questions the
\* server loads: the four digits "char score[5]" of printAllScore holds.
ScoreBounded ==
    \A j \in Players :
        /\ pc \in OnTheTable =>
              playerPoint[j] <= numQuesPass * MaxScore + 100 * Cardinality(shown)
        /\ pc = "endquestion" =>
              playerPoint[j] <= numQuesPass * MaxScore + MaxScore
        /\ pc \in {"ask", "scores", "tally", "finish", "done"} =>
              playerPoint[j] <= numQuesPass * MaxScore

\* turnScore, which roomPlay declares without a value in every round, has
\* been assigned by a roll of this round when an answer is waited for and
\* paid: a player who need not roll inherits the roll of an earlier player.
ScoreRolledThisRound ==
    pc \in {"limit", "answerwait", "late", "judge"} => turnScore # 0

\* In a round every player has at most one turn: a turn never comes back to
\* a player before the round has ended (nextPlayerTurn against
\* startRoundPlayer).
OneTurnPerRound ==
    pc \in {"turn", "rollcall", "rollwait", "spun", "limit", "answerwait", "late", "judge"}
        => inTurnPlayer \notin acted

\* Whoever is announced as the winner holds a score nobody exceeds, and
\* nobody before him in the seats has the same: winer, declared without a
\* value, always has one (room.c:1202-1217).
WinnerHasTheHighestScore ==
    pc \in {"finish", "done"} =>
        /\ winer \in Players
        /\ \A j \in Players : playerPoint[j] <= playerPoint[winer]
        /\ \A j \in 0 .. winer - 1 : playerPoint[j] < playerPoint[winer]

\* A reply is read by the prompt it answers: the roll where the roll is
\* waited for, the answer where the answer is waited for, and a player who
\* is not in turn has nothing pending anywhere.
RepliesMatchPrompts ==
    /\ \A j \in Players :
          prompts[j] # <<>> \/ net[j] # <<>> \/ mail[j] # <<>>
              => j = inTurnPlayer /\ pc \in {"rollcall", "rollwait", "answerwait"} \cup Returned
    /\ pc = "spun"  => recvBuff.kind = "roll"
    /\ pc = "judge" => recvBuff.kind \in {"solve", "letter"}

\* The thread of the room, and with it the server, does not die in a game:
\* no part of an answer is missing and there is a winner to be named.
NoCrash == pc # "crash"

\* The game waits for the roll of a player whose connection was closed
\* after the mailbox was looked up.
StuckOnRoll == pc = "rollwait" /\ link[inTurnPlayer] = "closed"

\* The player in turn has stopped his wheel and does not press Enter: neither
\* his client nor the room has a limit for that.
RollHeldBack ==
    pc = "rollwait" /\ prompts[inTurnPlayer] # <<>> /\ Head(prompts[inTurnPlayer]) = "hold"

\* A round that starts ends, whoever answers or drops out, unless it waits
\* for ever for the roll of a player who dropped out (recvMessage.c:397) or
\* who holds it back.
RoundEnds ==
    pc = "round" ~> \/ pc \in {"endround", "endquestion"} \cup Returned
                    \/ []StuckOnRoll
                    \/ []RollHeldBack

\* A player who drops out ends the game for the room, unless the room waits
\* for ever for a roll, his own or one that is held back.
DropIsNoticed ==
    (\E j \in Players : link[j] = "closed")
        ~> (pc \in Returned \/ []StuckOnRoll \/ []RollHeldBack)

(***************************************************************************)
(* The game as the players know it.                                        *)
(***************************************************************************)
Stage ==
    CASE pc \in {"start", "first", "ask"} -> "asking"
      [] pc \in OnTheTable -> "open"
      [] pc = "endquestion" -> "solved"
      [] pc \in {"scores", "tally", "finish"} -> "over"
      [] pc = "done" -> "won"
      [] pc \in {"outroom", "crash"} -> "broken"

Points == IF pc = "start" THEN [j \in Players |-> 0] ELSE playerPoint

Champion == IF pc = "done" THEN winer ELSE NoWiner

Rules == INSTANCE Quiz WITH
    stage <- Stage, points <- Points, passed <- numQuesPass, champion <- Champion,
    Prices <- {20, 50, 100}

\* Every step of the thread and of its surroundings is a step of the rules
\* of the game, or changes nothing of what they speak of.
RulesKept == Rules!Spec

=============================================================================
