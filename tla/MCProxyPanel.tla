---------------------------- MODULE MCProxyPanel ----------------------------
(* Values of the constants of ProxyPanel for TLC.                          *)
EXTENDS PanelLifecycle, TLC

CONSTANTS default, s0

MCForeign == {[name |-> default, secret |-> s0]}

MCNoForeign == {}

\* Slots, users and panel secrets are interchangeable.
Symmetry ==
  Permutations(Slot) \cup Permutations(User) \cup Permutations(Secret \ {s0})
==============================================================================
