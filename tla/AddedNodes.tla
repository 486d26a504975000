----------------------------- MODULE AddedNodes -----------------------------
(***************************************************************************)
(* addnode (rpcnet.cpp 303-347) and getaddednodeinfo (371-436) over the    *)
(* added-node list vAddedNodes, called by concurrent RPC threads.  addnode *)
(* add/remove search and mutate the list under one LOCK(cs_vAddedNodes):  *)
(* one atomic step.  onetry hands the endpoint to OpenNetworkConnection    *)
(* and leaves the list alone.  getaddednodeinfo calls GetAddedNodeInfo()   *)
(* (net.cpp, from the spec), which copies the list under cs_vAddedNodes    *)
(* and then, in a second scope under cs_vNodes, looks each copied entry up *)
(* among the live peers: two steps, with other threads' calls in between. *)
(* The answer of each thread's last call is kept in reply.  A row of       *)
(* getaddednodeinfo is reduced to the entry it names: its connected flag   *)
(* and address (lines 420-431) format the networking layer's view of the   *)
(* peer, which no property here is about.                                  *)
(***************************************************************************)
EXTENDS Sequences, SequencesExt, FiniteSets

CONSTANTS Workers, Endpoints, NoFilter

ASSUME Workers # {} /\ NoFilter \notin Endpoints

VARIABLES
    vAddedNodes, \* the added-node list
    copied,      \* worker -> the list GetAddedNodeInfo copied, with params[1]
    reply        \* worker -> the answer of its last call

vars == <<vAddedNodes, copied, reply>>

NoCopy == [busy |-> FALSE, filter |-> NoFilter, list |-> <<>>]

Reply(op, arg, kind, rows) == [op |-> op, arg |-> arg, kind |-> kind, rows |-> rows]

(* Lines 330-334: the iterator to the first entry equal to strNode (0 for *)
(* vAddedNodes.end()).                                                      *)
FindAdded(e) == SelectInSeq(vAddedNodes, LAMBDA x : x = e)

Init ==
    /\ vAddedNodes = <<>>
    /\ copied = [w \in Workers |-> NoCopy]
    /\ reply = [w \in Workers |-> Reply("none", NoFilter, "none", <<>>)]

(* A thread starts a call only when its previous one has returned.         *)
Free(w) == ~copied[w].busy

Answer(w, r) == reply' = [reply EXCEPT ![w] = r]

(* Mutant: the duplicate check at 337-338 is dropped.                      *)
AddNodeNoDupCheck(w, e) ==
    /\ Free(w)
    /\ vAddedNodes' = Append(vAddedNodes, e)
    /\ Answer(w, Reply("add", e, "ok", <<>>))
    /\ UNCHANGED copied

(* Lines 330-339 and 346: add appends unless found.                        *)
AddNode(w, e) ==
    /\ Free(w)
    /\ IF FindAdded(e) # 0
         THEN Answer(w, Reply("add", e, "already", <<>>)) /\ UNCHANGED vAddedNodes
         ELSE Answer(w, Reply("add", e, "ok", <<>>)) /\ vAddedNodes' = Append(vAddedNodes, e)
    /\ UNCHANGED copied

(* Lines 330-334, 340-346: remove erases the entry found.                  *)
RemoveNode(w, e) ==
    /\ Free(w)
    /\ IF FindAdded(e) = 0
         THEN Answer(w, Reply("remove", e, "notadded", <<>>)) /\ UNCHANGED vAddedNodes
         ELSE /\ Answer(w, Reply("remove", e, "ok", <<>>))
              /\ vAddedNodes' = RemoveAt(vAddedNodes, FindAdded(e))
    /\ UNCHANGED copied

(* Lines 322-328: onetry opens a connection and never touches the list.    *)
OneTry(w, e) ==
    /\ Free(w)
    /\ Answer(w, Reply("onetry", e, "ok", <<>>))
    /\ UNCHANGED <<vAddedNodes, copied>>

(* GetAddedNodeInfo(), first scope (net.cpp, from the spec): the list is   *)
(* copied under cs_vAddedNodes.  f is params[1], used at line 404.         *)
CopyAddedNodes(w, f) ==
    /\ Free(w)
    /\ copied' = [copied EXCEPT ![w] = [busy |-> TRUE, filter |-> f, list |-> vAddedNodes]]
    /\ UNCHANGED <<vAddedNodes, reply>>

(* Lines 404-435 on the copy vInfo: the first entry named by the filter,   *)
(* or "not added" when there is none; else one row per entry.              *)
ListAnswer(f, vInfo) ==
    LET hit == SelectInSeq(vInfo, LAMBDA x : x = f)
    IN  IF f = NoFilter THEN Reply("list", f, "rows", vInfo)
        ELSE IF hit # 0 THEN Reply("list", f, "rows", <<vInfo[hit]>>)
        ELSE Reply("list", f, "notadded", <<>>)

(* Mutant: the found flag of 404-416 is not checked, so an unknown filter  *)
(* falls through and returns every added node.                             *)
GetAddedNodeInfoNoThrow(w) ==
    /\ copied[w].busy
    /\ LET vInfo == copied[w].list
           hit   == SelectInSeq(vInfo, LAMBDA x : x = copied[w].filter)
       IN  Answer(w, Reply("list", copied[w].filter, "rows",
                           IF copied[w].filter # NoFilter /\ hit # 0
                           THEN <<vInfo[hit]>> ELSE vInfo))
    /\ copied' = [copied EXCEPT ![w] = NoCopy]
    /\ UNCHANGED vAddedNodes

(* GetAddedNodeInfo(), second scope (the lookup of each copied entry among *)
(* the live peers under cs_vNodes), then lines 404-435 on its result.      *)
GetAddedNodeInfo(w) ==
    /\ copied[w].busy
    /\ Answer(w, ListAnswer(copied[w].filter, copied[w].list))
    /\ copied' = [copied EXCEPT ![w] = NoCopy]
    /\ UNCHANGED vAddedNodes

Next ==
    \E w \in Workers :
        \/ \E e \in Endpoints : AddNode(w, e) \/ RemoveNode(w, e) \/ OneTry(w, e)
        \/ \E f \in Endpoints \cup {NoFilter} : CopyAddedNodes(w, f)
        \/ GetAddedNodeInfo(w)

Spec == Init /\ [][Next]_vars

-----------------------------------------------------------------------------
(* The list never holds more entries than there are distinct endpoints:   *)
(* a longer list must repeat one, which the duplicate check of addnode add *)
(* (337-338) is there to prevent.  Replies name known endpoints.           *)
TypeOK ==
    /\ vAddedNodes \in BoundedSeq(Endpoints, Cardinality(Endpoints))
    /\ \A w \in Workers :
          /\ copied[w].list \in BoundedSeq(Endpoints, Cardinality(Endpoints))
          /\ reply[w].op \in {"none", "add", "remove", "onetry", "list"}
          /\ reply[w].arg \in Endpoints \cup {NoFilter}
          /\ reply[w].kind \in {"none", "ok", "already", "notadded", "rows"}
          /\ ToSet(reply[w].rows) \subseteq Endpoints

(* The refinement mapping.  The list is read as a set, and so are the rows *)
(* of an answer.  A getaddednodeinfo call takes effect when the list is    *)
(* copied: from then on its answer is fixed by the copy, and the abstract  *)
(* caller already holds it.                                                 *)
AsSet(r) == [r EXCEPT !.rows = ToSet(r.rows)]

AbsReply(w) ==
    IF copied[w].busy THEN AsSet(ListAnswer(copied[w].filter, copied[w].list))
    ELSE AsSet(reply[w])

Abstract == INSTANCE AddedNodeSet
    WITH members <- ToSet(vAddedNodes),
         reply <- [w \in Workers |-> AbsReply(w)]

(* addnode and getaddednodeinfo behave as the added-node set of spec 4.4, *)
(* whatever other threads do between the two scopes of GetAddedNodeInfo:   *)
(* every add, remove, onetry and list call of the code, with its answer,  *)
(* is one step of the atomic set; e.g. a second add of E answers           *)
(* "already", a remove after it empties E, and a filter naming a           *)
(* non-member fails.                                                        *)
ImplementsAddedNodeSet == Abstract!Spec
=============================================================================
