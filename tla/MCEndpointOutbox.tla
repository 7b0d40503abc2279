--------------------------- MODULE MCEndpointOutbox ---------------------------
(* Values for model checking EndpointOutbox. *)
EXTENDS EndpointOutbox

CONSTANTS p1, p2

\* A reliable snapshot is twice as long as any other message.
MCSizeOf == [k \in Kinds |-> IF k = "state" THEN 2 ELSE 1]
=============================================================================
