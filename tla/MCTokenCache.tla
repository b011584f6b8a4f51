---------------------------- MODULE MCTokenCache ----------------------------
(* Constant values for model-checking TokenCache: a dashboard with two threads *)
(* and a trade run with one credential.                                        *)
EXTENDS TokenCache, TLC

MCThreads == {"d1", "d2", "run"}
MCClient  == "d1" :> "dashboard" @@ "d2" :> "dashboard" @@ "run" :> "trade"
MCOwner   == "dashboard" :> "c1" @@ "trade" :> "c1"
=============================================================================
