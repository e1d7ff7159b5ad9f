-------------------------------- MODULE Channel --------------------------------
(***************************************************************************)
(* What the threads of the server take a connection for: a channel that    *)
(* hands over what the client sent, in order, every message once.          *)
(***************************************************************************)
EXTENDS Naturals, Sequences

CONSTANTS Conns, Messages

VARIABLES sent, got     \* of every connection, since it was made

vars == <<sent, got>>

Init == sent = [c \in Conns |-> <<>>] /\ got = [c \in Conns |-> <<>>]

Send(c, m) ==
    /\ sent' = [sent EXCEPT ![c] = Append(@, m)]
    /\ UNCHANGED got

Deliver(c) ==
    /\ Len(got[c]) < Len(sent[c])
    /\ got' = [got EXCEPT ![c] = Append(@, sent[c][Len(@) + 1])]
    /\ UNCHANGED sent

Next == \E c \in Conns : Deliver(c) \/ \E m \in Messages : Send(c, m)

Spec == Init /\ [][Next]_vars
================================================================================
