--------------------------- MODULE MCProjectiles ---------------------------
(* Values for model checking Projectiles. *)
EXTENDS Projectiles
=============================================================================
