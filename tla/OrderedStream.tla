---------------------------- MODULE OrderedStream ----------------------------
(***************************************************************************)
(* What an endpoint promises about its reliable messages: they reach the   *)
(* connection in the order they were accepted, none twice and none left    *)
(* out, until the connection breaks; then the messages that are still      *)
(* pending may be lost, but only from the end of the stream.               *)
(***************************************************************************)
EXTENDS Naturals, Sequences

VARIABLES
    pending,     \* messages accepted and not yet delivered, oldest first
    delivered,   \* messages delivered, oldest first
    open         \* the connection still accepts messages

streamVars == <<pending, delivered, open>>

Init == pending = <<>> /\ delivered = <<>> /\ open = TRUE

\* A message is accepted.
Accept ==
    /\ open
    /\ Len(pending') = Len(pending) + 1
    /\ pending = SubSeq(pending', 1, Len(pending))
    /\ UNCHANGED <<delivered, open>>

\* The oldest pending message is delivered.
Deliver ==
    /\ pending # <<>>
    /\ delivered' = Append(delivered, Head(pending))
    /\ pending' = Tail(pending)
    /\ UNCHANGED open

\* The connection breaks, or the rest of a broken stream is given up.
Break ==
    /\ open' = FALSE
    /\ \E n \in 0..Len(pending) : pending' = SubSeq(pending, 1, n)
    /\ UNCHANGED delivered

Spec == Init /\ [][Accept \/ Deliver \/ Break]_streamVars
=============================================================================
