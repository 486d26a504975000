---------------------------- MODULE SwitchNetwork ----------------------------
(***************************************************************************)
(* switchnetwork (rpcnet.cpp lines 461-470) on concurrent RPC threads.     *)
(*                                                                         *)
(*     SetNetworkActive(!fNetworkActive);                                  *)
(*     return fNetworkActive;                                              *)
(*                                                                         *)
(* fNetworkActive is read, SetNetworkActive stores the negation, and the   *)
(* flag is read again for the result: three accesses to the shared flag    *)
(* with no lock around them, so each is an atomic step of its own.        *)
(***************************************************************************)
EXTENDS Naturals

CONSTANT Workers    \* RPC server threads

ASSUME Workers # {}

VARIABLES
    fNetworkActive, \* the process-wide flag
    pc,             \* per worker: "idle", "set" or "ret"
    seen,           \* per worker: the flag as read for the negation
    result,         \* per worker: the value its last call returned
    sets            \* stores done by SetNetworkActive, modulo 2

vars == <<fNetworkActive, pc, seen, result, sets>>

Init ==
    /\ fNetworkActive \in BOOLEAN
    /\ pc = [w \in Workers |-> "idle"]
    /\ seen = [w \in Workers |-> FALSE]
    /\ result = [w \in Workers |-> FALSE]
    /\ sets = 0

(* Lines 461-467: the call starts; the argument !fNetworkActive is         *)
(* evaluated.                                                               *)
ReadFlag(w) ==
    /\ pc[w] = "idle"
    /\ seen' = [seen EXCEPT ![w] = fNetworkActive]
    /\ pc' = [pc EXCEPT ![w] = "set"]
    /\ UNCHANGED <<fNetworkActive, result, sets>>

(* SetNetworkActive (net.cpp, from the spec): stores the new value.        *)
SetNetworkActive(active) ==
    /\ fNetworkActive' = active
    /\ sets' = 1 - sets

(* Line 467: SetNetworkActive(!fNetworkActive).                            *)
SetFlag(w) ==
    /\ pc[w] = "set"
    /\ SetNetworkActive(~seen[w])
    /\ pc' = [pc EXCEPT ![w] = "ret"]
    /\ UNCHANGED <<seen, result>>

(* Line 469: return fNetworkActive, read again.                            *)
ReturnFlag(w) ==
    /\ pc[w] = "ret"
    /\ result' = [result EXCEPT ![w] = fNetworkActive]
    /\ pc' = [pc EXCEPT ![w] = "idle"]
    /\ UNCHANGED <<fNetworkActive, seen, sets>>

Next == \E w \in Workers : ReadFlag(w) \/ SetFlag(w) \/ ReturnFlag(w)

(* A started call completes: RPC threads are not descheduled forever.      *)
Spec == Init /\ [][Next]_vars /\ \A w \in Workers : WF_vars(SetFlag(w) \/ ReturnFlag(w))

-----------------------------------------------------------------------------

TypeOK ==
    /\ fNetworkActive \in BOOLEAN
    /\ pc \in [Workers -> {"idle", "set", "ret"}]
    /\ seen \in [Workers -> BOOLEAN]
    /\ result \in [Workers -> BOOLEAN]
    /\ sets \in {0, 1}

(* Spec 4.6 and 8.5: switchnetwork returns the new state, the negation of  *)
(* the flag as the call found it, so two calls in succession return the    *)
(* original value.                                                          *)
ReturnsNewState ==
    [][\A w \in Workers :
          (pc[w] = "ret" /\ pc'[w] = "idle") => result'[w] = ~seen[w]]_vars

(* Spec 4.6: every switchnetwork is an atomic negation of the flag: the    *)
(* flag with the count of stores refines NetworkToggle.                    *)
Toggle == INSTANCE NetworkToggle WITH active <- fNetworkActive, parity <- sets

TogglesAtomically == Toggle!Spec
====
