---------------------------- MODULE NetworkToggle ----------------------------
(***************************************************************************)
(* What the spec (4.6) promises of switchnetwork: the network-active flag  *)
(* is negated by one atomic read-modify-write per call. parity counts the  *)
(* switches modulo 2, so a call that leaves the flag as it was is not a    *)
(* step of this specification.                                             *)
(***************************************************************************)
EXTENDS Naturals

VARIABLES active, parity

Init == active \in BOOLEAN /\ parity = 0

Switch == active' = ~active /\ parity' = 1 - parity

Spec == Init /\ [][Switch]_<<active, parity>>
====
