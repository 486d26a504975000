---------------------------- MODULE AddedNodeSet ----------------------------
(***************************************************************************)
(* What the added-node manager promises (spec 4.4 and 8.4, 8.7): a set of  *)
(* endpoints with duplicates rejected; add fails when present, remove when *)
(* absent; onetry only asks for a connection; list names every member, or *)
(* the one named, failing when it is not a member.  Each call is atomic   *)
(* and leaves the caller's request and answer in reply[w].                *)
(***************************************************************************)
CONSTANTS Workers, Endpoints, NoFilter

VARIABLES members, reply

Reply(op, arg, kind, rows) == [op |-> op, arg |-> arg, kind |-> kind, rows |-> rows]

Init ==
    /\ members = {}
    /\ reply = [w \in Workers |-> Reply("none", NoFilter, "none", {})]

Answer(w, r) == reply' = [reply EXCEPT ![w] = r]

Add(w, e) ==
    IF e \in members
    THEN Answer(w, Reply("add", e, "already", {})) /\ UNCHANGED members
    ELSE Answer(w, Reply("add", e, "ok", {})) /\ members' = members \cup {e}

Remove(w, e) ==
    IF e \in members
    THEN Answer(w, Reply("remove", e, "ok", {})) /\ members' = members \ {e}
    ELSE Answer(w, Reply("remove", e, "notadded", {})) /\ UNCHANGED members

OneTry(w, e) == Answer(w, Reply("onetry", e, "ok", {})) /\ UNCHANGED members

List(w, f) ==
    /\ IF f = NoFilter THEN Answer(w, Reply("list", f, "rows", members))
       ELSE IF f \in members THEN Answer(w, Reply("list", f, "rows", {f}))
       ELSE Answer(w, Reply("list", f, "notadded", {}))
    /\ UNCHANGED members

Next ==
    \E w \in Workers :
        \/ \E e \in Endpoints : Add(w, e) \/ Remove(w, e) \/ OneTry(w, e)
        \/ \E f \in Endpoints \cup {NoFilter} : List(w, f)

Spec == Init /\ [][Next]_<<members, reply>>
=============================================================================
