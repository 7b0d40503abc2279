---------------------------- MODULE RewardLedger ----------------------------
(***************************************************************************)
(* What a settled battle promises an account: a reward is earned when the  *)
(* battle is settled, an earned reward stays earned, and it is paid at     *)
(* most once and never before it was earned.                               *)
(***************************************************************************)
EXTENDS Naturals

CONSTANT Rewards

VARIABLES
    earned,   \* the rewards of settled battles
    paid      \* how often each reward was paid

rewardVars == <<earned, paid>>

Init == earned = {} /\ paid = [r \in Rewards |-> 0]

\* A battle is settled.
Earn ==
    /\ earned' \in SUBSET Rewards
    /\ earned \subseteq earned'
    /\ UNCHANGED paid

\* An earned reward is paid.
Pay(r) ==
    /\ r \in earned /\ paid[r] = 0
    /\ paid' = [paid EXCEPT ![r] = 1]
    /\ UNCHANGED earned

Spec == Init /\ [][Earn \/ \E r \in Rewards : Pay(r)]_rewardVars
=============================================================================
