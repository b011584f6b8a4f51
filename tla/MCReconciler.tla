---------------------------- MODULE MCReconciler ----------------------------
(* Constant values for model-checking Reconciler. *)
EXTENDS Reconciler, TLC

MCBatch1 == <<"dca:QQQ">>
MCBatch2 == <<"dca:QQQ", "dca:SHY">>

PassSymmetry == Permutations(Passes)
=============================================================================
