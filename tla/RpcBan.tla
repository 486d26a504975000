------------------------------- MODULE RpcBan -------------------------------
(***************************************************************************)
(* The ban-list RPCs of rpcnet.cpp (setban, listbanned, clearbanned) and  *)
(* disconnectnode, run by concurrent RPC worker threads against the ban   *)
(* table and the live peer list kept by the networking layer (CNode).     *)
(*                                                                         *)
(* Each RPC handler is split into atomic steps exactly where the handler  *)
(* calls into a collaborator that takes its own lock (cs_setBanned,       *)
(* cs_vNodes): rpcnet.cpp holds no lock across those calls, so steps of   *)
(* other workers and of the networking layer interleave between them.     *)
(* The collaborators (CNode::Ban, Unban, IsBanned, FindNode,              *)
(* CloseSocketDisconnect, DumpBanlist) are not in src/ and are modelled   *)
(* from the spec, one atomic step each.                                   *)
(*                                                                         *)
(* Addresses are model values; a ban key is the set of addresses it       *)
(* covers, so an address and its single-host subnet are the same key, as  *)
(* CSubNet(CNetAddr) is.                                                   *)
(***************************************************************************)
EXTENDS Integers, FiniteSets, TLC

CONSTANTS
    Workers,        \* RPC server threads
    Addr,           \* peer addresses
    Subnets,        \* CIDR ranges that can be named in setban, as address sets
    MaxPeers,       \* connections the networking layer opens in a behaviour
    BanTimes,       \* bantime arguments of setban (0 = not given)
    DefaultBanTime, \* -bantime default applied when bantime is 0
    MaxTime,        \* bound of the clock
    TimeBits,       \* width of the int64 timestamps, scaled down
    MaxRestarts     \* process restarts in a behaviour

ASSUME Subnets \subseteq (SUBSET Addr \ {{}})
ASSUME 0 \in BanTimes /\ DefaultBanTime > 0
ASSUME TimeBits \in Nat \ {0} /\ MaxRestarts \in Nat

VARIABLES
    now,      \* GetTime()
    banned,   \* CNode::setBanned: key -> ban entry
    disk,     \* the ban list last written by DumpBanlist
    peers,    \* vNodes: live peer id -> remote address
    nextId,   \* next peer id the networking layer hands out
    pc,       \* per worker: where in its handler it is
    arg,      \* per worker: the parsed arguments of its call
    target,   \* per worker: the CNode* FindNode returned
    disconnect, \* peers whose fDisconnect is set, in vNodes until erased
    acked,    \* (history) keys of setban add calls that returned success
    restarts  \* process restarts so far

vars == <<now, banned, disk, peers, nextId, pc, arg, target, disconnect, acked, restarts>>

PeerIds == 1..MaxPeers

NoPeer == 0  \* the null CNode*

Keys == {{a} : a \in Addr} \cup Subnets
Reasons == {"manual", "misbehaving"}
Entry == [until : Int, created : Int, reason : Reasons]

(* Signed two's-complement arithmetic of TimeBits bits: what the build     *)
(* produces for an int64_t sum that overflows.                              *)
Half == 2^(TimeBits - 1)
Wrap(x) == ((x + Half) % (2 * Half)) - Half

(* The strings setban's first argument can be, abstracted to what parsing  *)
(* them yields: whether they contain "/", whether CNetAddr/CSubNet accept  *)
(* them, and the addresses they name.                                      *)
Inputs ==
    {[slash |-> FALSE, valid |-> TRUE, net |-> {a}] : a \in Addr}
    \cup {[slash |-> TRUE, valid |-> TRUE, net |-> s] : s \in Subnets}
    \cup {[slash |-> b, valid |-> FALSE, net |-> {}] : b \in BOOLEAN}

-----------------------------------------------------------------------------
(* Collaborators, from the spec (CNode in net.cpp, not under src/).        *)

(* CNode::IsBanned(CNetAddr): some unexpired entry covers the address.     *)
IsBannedAddr(a) ==
    \E k \in DOMAIN banned : a \in k /\ now < banned[k].until

(* CNode::IsBanned(CSubNet): the exact key has an unexpired entry.         *)
IsBannedSubnet(k) ==
    k \in DOMAIN banned /\ now < banned[k].until

(* CNode::Ban: bantime 0 means the default; absolute makes the bantime the *)
(* ban-until timestamp itself, else it is added to GetTime() in int64_t;   *)
(* the entry for the key is created or replaced.                           *)
Ban(k, reason, t, absolute) ==
    LET until == IF t = 0 THEN Wrap(now + DefaultBanTime)
                 ELSE IF absolute THEN t ELSE Wrap(now + t)
    IN  banned' = (k :> [until |-> until, created |-> now, reason |-> reason])
                  @@ banned

(* CNode::Unban: removes the exact key; FALSE if it has no entry.          *)
Unbannable(k) == k \in DOMAIN banned
Unban(k) == banned' = [x \in DOMAIN banned \ {k} |-> banned[x]]

(* FindNode(CSubNet)/FindNode(CNetAddr): a live peer the key covers.       *)
FindNode(k) == {p \in DOMAIN peers : peers[p] \in k}

(* CNode::CloseSocketDisconnect: fDisconnect is set and the socket is    *)
(* closed; the node stays in vNodes until ThreadSocketHandler erases it    *)
(* (SocketErase).  On a node already erased it writes freed memory, which  *)
(* changes nothing the model sees.                                          *)
CloseSocketDisconnect(p) == disconnect' = disconnect \cup ({p} \cap DOMAIN peers)

(* DumpBanlist: the ban table is written to banlist.dat.                   *)
DumpBanlist == disk' = banned

-----------------------------------------------------------------------------
(* rpcnet.cpp                                                               *)

NoArg == [in |-> [slash |-> FALSE, valid |-> FALSE, net |-> {}], t |-> 0, abs |-> FALSE]

(* setban, lines 591-594: the check that refuses an already banned target: *)
(* by exact key for a subnet, by coverage for a single address.            *)
AlreadyBanned(in) ==
    IF in.slash THEN IsBannedSubnet(in.net)
    ELSE \E a \in in.net : IsBannedAddr(a)

(* The handler returns (or throws): the worker is free for the next call.  *)
Return(w) ==
    /\ pc' = [pc EXCEPT ![w] = "idle"]
    /\ arg' = [arg EXCEPT ![w] = NoArg]
    /\ target' = [target EXCEPT ![w] = NoPeer]

(* An add call that returns has its ban acknowledged, unless a concurrent   *)
(* remove or clear of the key already took effect (that call is ordered    *)
(* after this one).                                                         *)
Acknowledge(w) ==
    acked' = IF arg[w] # NoArg /\ arg[w].in.net \in DOMAIN banned
             THEN acked \cup {arg[w].in.net} ELSE acked

(* Mutant: the validity check of lines 588-589 is dropped, so an          *)
(* unparsable target goes on to CNode::Ban.                                 *)
SetBanAddNoValidity(w, in, t, absolute) ==
    /\ pc[w] = "idle"
    /\ IF AlreadyBanned(in)
       THEN Return(w)
       ELSE /\ pc' = [pc EXCEPT ![w] = "ban"]
            /\ arg' = [arg EXCEPT ![w] = [in |-> in, t |-> t, abs |-> absolute]]
            /\ UNCHANGED target
    /\ UNCHANGED <<now, banned, disk, peers, nextId, disconnect, acked, restarts>>

(* setban <target> add [bantime] [absolute], lines 576-602: parse the      *)
(* arguments; an invalid target or one already banned throws before        *)
(* anything changes.                                                        *)
SetBanAdd(w, in, t, absolute) ==
    /\ pc[w] = "idle"
    /\ IF ~in.valid \/ AlreadyBanned(in)
       THEN Return(w)
       ELSE /\ pc' = [pc EXCEPT ![w] = "ban"]
            /\ arg' = [arg EXCEPT ![w] = [in |-> in, t |-> t, abs |-> absolute]]
            /\ UNCHANGED target
    /\ UNCHANGED <<now, banned, disk, peers, nextId, disconnect, acked, restarts>>

(* setban, line 604: CNode::Ban with reason BanReasonManually.             *)
SetBanBan(w) ==
    /\ pc[w] = "ban"
    /\ Ban(arg[w].in.net, "manual", arg[w].t, arg[w].abs)
    /\ pc' = [pc EXCEPT ![w] = "find"]
    /\ UNCHANGED <<now, disk, peers, nextId, arg, target, disconnect, acked, restarts>>

(* Mutant: add returns straight after the loop, without DumpBanlist.       *)
SetBanFindNoDump(w) ==
    /\ pc[w] = "find"
    /\ IF FindNode(arg[w].in.net) = {}
       THEN Acknowledge(w) /\ Return(w)
       ELSE /\ \E p \in FindNode(arg[w].in.net) :
                   /\ target' = [target EXCEPT ![w] = p]
                   /\ pc' = [pc EXCEPT ![w] = "close"]
            /\ UNCHANGED <<arg, acked>>
    /\ UNCHANGED <<now, banned, disk, peers, nextId, disconnect, restarts>>

(* setban, line 607: while (CNode *bannedNode = FindNode(...)).            *)
SetBanFind(w) ==
    /\ pc[w] = "find"
    /\ IF FindNode(arg[w].in.net) = {}
       THEN /\ pc' = [pc EXCEPT ![w] = "dump"]
            /\ UNCHANGED <<arg, target>>
       ELSE \E p \in FindNode(arg[w].in.net) :
                /\ target' = [target EXCEPT ![w] = p]
                /\ pc' = [pc EXCEPT ![w] = "close"]
                /\ UNCHANGED arg
    /\ UNCHANGED <<now, banned, disk, peers, nextId, disconnect, acked, restarts>>

(* Mutant: FindNode hoisted out of the loop of line 607, as in           *)
(* "CNode *n = FindNode(..); while (n) n->CloseSocketDisconnect();": the   *)
(* handler keeps closing the pointer it found first.                        *)
CloseTargetNoRefind(w) ==
    /\ pc[w] \in {"close", "dnclose"}
    /\ CloseSocketDisconnect(target[w])
    /\ IF pc[w] = "close" THEN UNCHANGED <<pc, arg, target>> ELSE Return(w)
    /\ UNCHANGED <<now, banned, disk, peers, nextId, acked, restarts>>

(* setban, line 608, and disconnectnode, line 366:                         *)
(* pNode->CloseSocketDisconnect() on the pointer FindNode returned, after  *)
(* cs_vNodes was released; setban then loops back to FindNode.             *)
CloseTarget(w) ==
    /\ pc[w] \in {"close", "dnclose"}
    /\ CloseSocketDisconnect(target[w])
    /\ IF pc[w] = "close"
       THEN /\ pc' = [pc EXCEPT ![w] = "find"]
            /\ target' = [target EXCEPT ![w] = NoPeer]
            /\ UNCHANGED arg
       ELSE Return(w)
    /\ UNCHANGED <<now, banned, disk, peers, nextId, acked, restarts>>

(* Mutant: the remove branch returns without DumpBanlist.                  *)
SetBanRemoveUnsaved(w, in) ==
    /\ pc[w] = "idle"
    /\ IF in.valid /\ Unbannable(in.net)
       THEN Unban(in.net) /\ acked' = acked \ {in.net}
       ELSE UNCHANGED <<banned, acked>>
    /\ Return(w)
    /\ UNCHANGED <<now, disk, peers, nextId, disconnect, restarts>>

(* setban <target> remove, lines 556-589 and 610-614: parse, then          *)
(* CNode::Unban; "Unban failed" is thrown when the exact key has no entry. *)
SetBanRemove(w, in) ==
    /\ pc[w] = "idle"
    /\ IF in.valid /\ Unbannable(in.net)
       THEN /\ Unban(in.net)
            /\ acked' = acked \ {in.net}
            /\ pc' = [pc EXCEPT ![w] = "dump"]
            /\ UNCHANGED <<arg, target>>
       ELSE UNCHANGED <<banned, acked>> /\ Return(w)
    /\ UNCHANGED <<now, disk, peers, nextId, disconnect, restarts>>

(* setban line 616 and clearbanned line 662: DumpBanlist(), then return.   *)
SaveBanlist(w) ==
    /\ pc[w] = "dump"
    /\ DumpBanlist
    /\ Acknowledge(w)
    /\ Return(w)
    /\ UNCHANGED <<now, banned, peers, nextId, disconnect, restarts>>

(* clearbanned, lines 650-661: CNode::ClearBanned().                       *)
ClearBanned(w) ==
    /\ pc[w] = "idle"
    /\ banned' = <<>>
    /\ acked' = {}
    /\ pc' = [pc EXCEPT ![w] = "dump"]
    /\ UNCHANGED <<now, disk, peers, nextId, arg, target, disconnect, restarts>>

(* listbanned, lines 620-648: CNode::GetBanned copies the table under its  *)
(* lock and every entry, expired or not, is listed; nothing changes.       *)
ListBanned(w) ==
    /\ pc[w] = "idle"
    /\ UNCHANGED vars

(* disconnectnode <addr>, lines 349-364: FindNode(string) by exact         *)
(* address; "Node not found" is thrown when no live peer has it.           *)
DisconnectNode(w, a) ==
    /\ pc[w] = "idle"
    /\ \/ /\ \A p \in DOMAIN peers : peers[p] # a
          /\ UNCHANGED <<pc, target>>
       \/ \E p \in DOMAIN peers :
             /\ peers[p] = a
             /\ target' = [target EXCEPT ![w] = p]
             /\ pc' = [pc EXCEPT ![w] = "dnclose"]
    /\ UNCHANGED <<now, banned, disk, peers, nextId, arg, disconnect, acked, restarts>>

-----------------------------------------------------------------------------
(* The environment: the networking layer and the clock (from the spec).    *)

(* A connection is opened (inbound, or outbound by the connection threads).*)
Connect(a) ==
    /\ nextId \in PeerIds
    /\ peers' = (nextId :> a) @@ peers
    /\ nextId' = nextId + 1
    /\ UNCHANGED <<now, banned, disk, pc, arg, target, disconnect, acked, restarts>>

(* The remote end closes or the socket fails: ThreadSocketHandler calls    *)
(* CloseSocketDisconnect on the node itself.                               *)
PeerGone(p) ==
    /\ p \in DOMAIN peers \ disconnect
    /\ CloseSocketDisconnect(p)
    /\ UNCHANGED <<now, banned, disk, peers, nextId, pc, arg, target, acked, restarts>>

(* ThreadSocketHandler, each pass of its loop: a node with fDisconnect set *)
(* is erased from vNodes (under cs_vNodes) and later freed.                *)
SocketErase(p) ==
    /\ p \in disconnect
    /\ peers' = [x \in DOMAIN peers \ {p} |-> peers[x]]
    /\ disconnect' = disconnect \ {p}
    /\ UNCHANGED <<now, banned, disk, nextId, pc, arg, target, acked, restarts>>

(* Misbehaviour scoring bans a peer's address (BanReasonNodeMisbehaving).  *)
MisbehavingBan(a) ==
    /\ Ban({a}, "misbehaving", 0, FALSE)
    /\ UNCHANGED <<now, disk, peers, nextId, pc, arg, target, disconnect, acked, restarts>>

Tick ==
    /\ now < MaxTime
    /\ now' = now + 1
    /\ UNCHANGED <<banned, disk, peers, nextId, pc, arg, target, disconnect, acked, restarts>>

(* The process dies and starts again: every RPC call in flight is lost,   *)
(* every connection is gone, and the ban table is read back from           *)
(* banlist.dat (CBanDB::Read, SetBanned at startup).                       *)
Restart ==
    /\ restarts < MaxRestarts
    /\ restarts' = restarts + 1
    /\ banned' = disk
    /\ peers' = <<>>
    /\ pc' = [w \in Workers |-> "idle"]
    /\ arg' = [w \in Workers |-> NoArg]
    /\ target' = [w \in Workers |-> NoPeer]
    /\ disconnect' = {}
    /\ UNCHANGED <<now, disk, nextId, acked>>

-----------------------------------------------------------------------------

Init ==
    /\ now = 0
    /\ banned = <<>>
    /\ disk = <<>>
    /\ peers = <<>>
    /\ nextId = 1
    /\ pc = [w \in Workers |-> "idle"]
    /\ arg = [w \in Workers |-> NoArg]
    /\ target = [w \in Workers |-> NoPeer]
    /\ disconnect = {}
    /\ acked = {}
    /\ restarts = 0

(* The steps a worker takes inside a call it has started.                  *)
WorkerStep(w) ==
    \/ SetBanBan(w)
    \/ SetBanFind(w)
    \/ CloseTarget(w)
    \/ SaveBanlist(w)

(* A worker starts a call.                                                 *)
Invoke(w) ==
    \/ \E in \in Inputs, t \in BanTimes :
           \* absolute only matters with a non-zero bantime
           \E absolute \in IF t = 0 THEN {FALSE} ELSE BOOLEAN :
               SetBanAdd(w, in, t, absolute)
    \/ \E in \in Inputs : SetBanRemove(w, in)
    \/ ClearBanned(w)
    \/ ListBanned(w)
    \/ \E a \in Addr : DisconnectNode(w, a)

Environment ==
    \/ \E a \in Addr : Connect(a)
    \/ \E p \in PeerIds : PeerGone(p)
    \/ \E p \in PeerIds : SocketErase(p)
    \/ \E a \in Addr : MisbehavingBan(a)
    \/ Tick
    \/ Restart

Next ==
    \/ \E w \in Workers : Invoke(w) \/ WorkerStep(w)
    \/ Environment

(* A started call keeps running: the RPC thread is never descheduled       *)
(* forever.  ThreadSocketHandler loops for as long as the node runs, and   *)
(* every pass erases the nodes whose fDisconnect is set.  Callers and the  *)
(* remote peers are not obliged to do anything.                            *)
Fairness ==
    /\ \A w \in Workers : WF_vars(WorkerStep(w))
    /\ WF_vars(\E p \in PeerIds : SocketErase(p))

Spec == Init /\ [][Next]_vars /\ Fairness

-----------------------------------------------------------------------------
(* Properties                                                               *)

(* The variables keep their types; in particular only keys setban can     *)
(* parse (an address or a subnet) ever enter the ban table, which is what *)
(* the validity check of line 588 is for.                                  *)
TypeOK ==
    /\ now \in 0..MaxTime
    /\ DOMAIN banned \subseteq Keys
    /\ \A k \in DOMAIN banned : banned[k] \in Entry
    /\ DOMAIN disk \subseteq Keys
    /\ DOMAIN peers \subseteq PeerIds /\ \A p \in DOMAIN peers : peers[p] \in Addr
    /\ pc \in [Workers -> {"idle", "ban", "find", "close", "dnclose", "dump"}]
    /\ arg \in [Workers -> {NoArg} \cup [in : Inputs, t : BanTimes, abs : BOOLEAN]]
    /\ target \in [Workers -> PeerIds \cup {NoPeer}]
    /\ disconnect \subseteq DOMAIN peers
    /\ acked \subseteq Keys
    /\ restarts \in 0..MaxRestarts

(* setban/clearbanned save the table before returning (lines 616, 662):    *)
(* whenever no call is in flight, every manual ban in memory is on disk as *)
(* it is in memory, and nothing is on disk that memory no longer has.      *)
DurableWhenQuiet ==
    (\A w \in Workers : pc[w] = "idle") =>
        /\ DOMAIN disk \subseteq DOMAIN banned
        /\ \A k \in DOMAIN banned :
               banned[k].reason = "manual" => k \in DOMAIN disk /\ disk[k] = banned[k]

(* A setban add that returned success survives a crash: its key is in     *)
(* banlist.dat, so a restart reloads it, until a later remove or clear.    *)
(* This is what the DumpBanlist before returning (line 616) is for, with   *)
(* other threads' dumps, removes and misbehaviour bans interleaved.        *)
AckedBansSurviveRestart ==
    \A k \in acked : k \in DOMAIN disk /\ k \in DOMAIN banned

(* Every setban, clearbanned and disconnectnode call returns.  The loop   *)
(* of line 607 finds the same node again after closing it, until the      *)
(* socket thread has erased it from vNodes: it ends only because FindNode *)
(* is asked again on every iteration and the socket thread makes progress. *)
CallsReturn == \A w \in Workers : [](pc[w] # "idle" => <>(pc[w] = "idle"))

-----------------------------------------------------------------------------
(* Properties the code is found to violate (see README, findings).         *)

(* Spec 5: concurrent setban add of the same target never both succeed.    *)
(* The "already banned" check (line 593) still holds when CNode::Ban runs  *)
(* (line 604): no other ban of the target landed in between.               *)
BanCheckStillHolds ==
    [][\A w \in Workers :
          (pc[w] = "ban" /\ pc'[w] = "find") => ~AlreadyBanned(arg[w].in)]_vars

(* Spec 4.3: setban add fails "if that exact key is already banned": the   *)
(* check of line 593 refuses a target exactly when its key is banned.       *)
RefusedOnlyIfKeyBanned ==
    \A in \in Inputs : in.valid => (AlreadyBanned(in) <=> IsBannedSubnet(in.net))

(* Spec 3: a ban entry ends after it was created (ban-until > creation     *)
(* time); setban passes its bantime/absolute arguments (lines 596-604).    *)
BanEntryWellFormed ==
    \A k \in DOMAIN banned : banned[k].created < banned[k].until

(* Spec 3/9: the handlers only use peer handles the networking layer still *)
(* owns: the CNode* FindNode returned (lines 362, 607) is live when         *)
(* CloseSocketDisconnect is called on it (lines 366, 608).                 *)
CloseOnLivePeer ==
    \A w \in Workers : pc[w] \in {"close", "dnclose"} => target[w] \in DOMAIN peers

=============================================================================
