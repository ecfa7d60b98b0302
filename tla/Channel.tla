------------------------------- MODULE Channel -------------------------------
(***************************************************************************)
(* What a connection promises in one direction, without buffers, queues,   *)
(* completions or bytes: messages arrive one at a time, in the order in    *)
(* which they were sent, none twice and none left out, until the           *)
(* connection breaks; from then on nothing arrives.                        *)
(***************************************************************************)
EXTENDS Naturals, Sequences

CONSTANT Messages

VARIABLES
    sent,           \* all that has been sent, in this order
    delivered,      \* all that has arrived
    broken

vars == <<sent, delivered, broken>>

Init == sent = <<>> /\ delivered = <<>> /\ broken = FALSE

\* Sending may be how the sender finds that the connection is broken, and it
\* may go on without having noticed.
Send(m) ==
    /\ sent' = Append(sent, m)
    /\ broken' \in {broken, TRUE}
    /\ UNCHANGED delivered

Deliver ==
    /\ ~broken /\ Len(delivered) < Len(sent)
    /\ delivered' = Append(delivered, sent[Len(delivered) + 1])
    /\ UNCHANGED <<sent, broken>>

Break == broken' = TRUE /\ UNCHANGED <<sent, delivered>>

Next == (\E m \in Messages : Send(m)) \/ Deliver \/ Break

Spec == Init /\ [][Next]_vars
=============================================================================
