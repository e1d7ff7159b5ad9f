------------------------------- MODULE MCMailbox -------------------------------
(***************************************************************************)
(* Bounds on the requests: one each, or two of the first client.  A run    *)
(* whose properties speak of the undisturbed mailbox stops where it is     *)
(* disturbed; one that expects a violation looks at one disturbance.       *)
(***************************************************************************)
EXTENDS Mailbox

MCOneEach == [k \in Slots |-> 1]
MCTwoOfOne == [k \in Slots |-> IF k = 0 THEN 2 ELSE 1]

Undisturbed == past = {}
OnlyCoalesced == past \subseteq {"coalesced"}
OnlyLate == past \subseteq {"late"}
================================================================================
