------------------------------ MODULE MCAccounts ------------------------------
(***************************************************************************)
(* The account that every client tries first: blocked as in the file that  *)
(* comes with the server, with another password, as there, or usable.      *)
(***************************************************************************)
EXTENDS Accounts, TLC

CONSTANTS hust, ann, bob, right, wrong

Acc(name, pass, status) == [name |-> name, pass |-> pass, status |-> status]

MCPreset == <<hust, right>>
MCFiles == {<<Acc(hust, wrong, "BLOCKED")>>, <<Acc(hust, wrong, "ACTIVE")>>, <<Acc(hust, right, "ACTIVE")>>}

\* ann and bob are only names that may be signed up.
MCNames == Permutations({ann, bob})
===============================================================================
