------------------------------ MODULE MCGamePlay ------------------------------
(***************************************************************************)
(* Small games for TLC: answers of one to three letters, one of them with  *)
(* a letter that comes twice; wheels that lose the turn and wheels that    *)
(* pay.                                                                    *)
(***************************************************************************)
EXTENDS GamePlay

CONSTANTS a, b

OneLetter  == <<b>>
TwoLetters == <<a, b>>
Twice      == <<a, b, a>>

\* three questions, one of them with a letter that comes twice
AllLengths == <<OneLetter, Twice, TwoLetters>>
JustTwo    == <<TwoLetters>>
JustOne    == <<OneLetter>>

\* every answer, typed in full, and one more word; and every letter, and the blank
MCWords   == {OneLetter} \cup {Ans[q] : q \in Questions}
MCGuesses == Letters \cup {Blank}

\* and nothing but dashes
MCAllWords == MCWords \cup {<<>>}
=============================================================================
