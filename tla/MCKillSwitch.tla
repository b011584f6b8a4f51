---------------------------- MODULE MCKillSwitch ----------------------------
(* Constant values for model-checking KillSwitch. *)
EXTENDS KillSwitch, TLC

ActorSymmetry == Permutations(Clicks) \cup Permutations(Runs)
=============================================================================
