----------------------------- MODULE MCHostApply -----------------------------
(* Values of the constants of HostApply for TLC.                           *)
EXTENDS HostApply, TLC

CONSTANTS default, s0

MCForeign == {[name |-> default, secret |-> s0]}

\* Slots, users and panel secrets are interchangeable.
Symmetry ==
  Permutations(Slot) \cup Permutations(User) \cup Permutations(Secret \ {s0})
==============================================================================
