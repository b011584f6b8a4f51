----------------------------- MODULE ActAsAsked -----------------------------
(***************************************************************************)
(* What the order executor promises (src/execution/executor.py, "a signal  *)
(* that has been acted on is never acted on twice"): each signal is        *)
(* claimed in the store first, and then placed at the broker at most once. *)
(* Signals that one key cannot tell apart are counted together.            *)
(***************************************************************************)
EXTENDS Naturals

CONSTANTS Signals,    \* the kinds of signal that can be told apart
          copies      \* how many signals of each kind there are

VARIABLES claims,     \* how many of them have a row
          placements  \* how many broker orders carry one

Claim(x) ==
  /\ claims[x] < copies[x]
  /\ claims' = [claims EXCEPT ![x] = @ + 1]
  /\ UNCHANGED placements

Place(x) ==
  /\ placements[x] < claims[x]
  /\ placements' = [placements EXCEPT ![x] = @ + 1]
  /\ UNCHANGED claims

Init == claims = [x \in Signals |-> 0] /\ placements = [x \in Signals |-> 0]
Next == \E x \in Signals : Claim(x) \/ Place(x)
Spec == Init /\ [][Next]_<<claims, placements>>
=============================================================================
