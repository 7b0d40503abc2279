-------------------------- MODULE MCResultReceipts --------------------------
(* Values for model checking ResultReceipts. *)
EXTENDS ResultReceipts

CONSTANTS a1, a2

\* The client cannot read the receipts of the second battle.
MCMalformed == {r \in Receipts : r.boot = 1 /\ r.round = 2}
=============================================================================
