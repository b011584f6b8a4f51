---------------------------- MODULE MCOversight ----------------------------
(* Constant values for model-checking Oversight. *)
EXTENDS Oversight, TLC

CONSTANTS a, b, c, x, y, z, cap

\* a, b and c may be traded; x and y may be proposed; z was taken out on purpose.
MCSymbols  == {a, b, c, x, y, z}
MCLimits  == {cap}
MCFirst   == [k \in MCSymbols \cup MCLimits |-> CASE k = a -> "1" [] k = cap -> "1" [] OTHER -> None]
MCSecond  == [k \in MCSymbols \cup MCLimits |->
                CASE k = a -> "2" [] k \in {b, c} -> "1" [] k = cap -> "2" [] OTHER -> None]
MCSettings == {MCFirst, MCSecond}

ReportSymmetry == Permutations(Reports)

Row(s, sound) == [symbol |-> s, sound |-> sound]
MCVetoReplies ==
  {<<Row(a, TRUE), Row(x, TRUE), Row(a, TRUE)>>,
   <<Row(a, FALSE), Row(b, TRUE), Row(z, TRUE), Row(a, TRUE), Row(c, TRUE)>>}
MCIdeaReplies == {[growth |-> <<z, a, x>>, core |-> <<x, x, b, y>>]}
=============================================================================
