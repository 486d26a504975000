--------------------------- MODULE MCSwitchNetwork ---------------------------
(* Two RPC threads calling switchnetwork.                                  *)
EXTENDS SwitchNetwork

CONSTANTS w1, w2

TwoCallers == {w1, w2}
====
