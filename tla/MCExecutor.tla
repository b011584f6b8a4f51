----------------------------- MODULE MCExecutor -----------------------------
(* Constant values for model-checking Executor. *)
EXTENDS Executor, TLC

MCBatch1 == <<"bucket:SHY">>

\* A trend exit and a rotation exit of one holding share a key.
MCBatch3 == <<"bucket:TQQQ", "bucket:TQQQ", "bucket:SHY">>

RunSymmetry == Permutations(Runs)
=============================================================================
