---------------------------- MODULE RegistryLocks ----------------------------
(***************************************************************************)
(* The lock discipline of the RPC handlers of rpcnet.cpp over the live     *)
(* peer list vNodes: getconnectioncount, ping, getpeerinfo, getnetworkinfo, *)
(* getnettotals and destination in full, the other handlers reduced to     *)
(* their locks, against the networking threads that open and delete nodes *)
(* and consume the ping requests; and the argument check every handler    *)
(* makes before it takes a lock.                                           *)
(*                                                                         *)
(* A handler is its program: the LOCK/LOCK2 acquisitions, the accesses to  *)
(* shared state and the releases at scope exit, in the order the code      *)
(* performs them; a thread executes one instruction per step, so any other *)
(* thread may run between two of them.  The result a handler builds       *)
(* (counts, stats, JSON) is left out: only vNodes, the per-node state of   *)
(* main.cpp, the fPingQueued flags and the locks are shared.  LOCK2(a, b)  *)
(* takes a then b and releases in reverse.                                 *)
(***************************************************************************)
EXTENDS Integers, Sequences, FiniteSets

CONSTANTS
    Workers,        \* RPC server threads
    SocketThread,   \* opens, accepts and deletes connections
    MessageThread,  \* ThreadMessageHandler: sends the queued pings
    MaxPeers,       \* connections opened in a behaviour
    MaxArgs         \* most positional arguments an RPC call carries

ASSUME Assumption ==
    /\ Workers # {}                                   \* at least one RPC thread
    /\ {SocketThread, MessageThread} \cap Workers = {} \* networking threads serve no RPC
    /\ SocketThread # MessageThread
    /\ MaxPeers \in Nat \ {0} /\ MaxArgs \in Nat

LOCAL G == INSTANCE Graphs

Threads == Workers \cup {SocketThread, MessageThread}
Locks == {"cs_main", "cs_vNodes", "cs_mapLocalHost", "cs_vAddedNodes"}
NoOwner == "none"
PeerIds == 1..MaxPeers
NoNode == 0
NoCall == [cmd |-> "none", n |-> 0, ok |-> TRUE]

VARIABLES
    owner,       \* lock -> thread holding it
    prog,        \* thread -> the program it runs ("idle" when it runs none)
    ip,          \* thread -> index of its next instruction
    vNodes,      \* ids of the live peers
    nodeState,   \* ids with a CNodeState in main.cpp's mapNodeState
    pingQueued,  \* peers whose fPingQueued is set
    vstats,      \* worker -> ids in the CNodeStats copy getpeerinfo made
    sockNode,    \* the node the socket thread is opening or deleting
    nextId,      \* next peer id
    call         \* worker -> command and params.size() of a refused call

vars == <<owner, prog, ip, vNodes, nodeState, pingQueued, vstats, sockNode, nextId, call>>

Lock(l) == [op |-> "lock", lock |-> l]
Unlock(l) == [op |-> "unlock", lock |-> l]
Do(op) == [op |-> op, lock |-> NoOwner]

-----------------------------------------------------------------------------
(* The argument checks.  Each handler first throws its usage text when     *)
(* fHelp is set or its parameters are malformed; the text is abstracted   *)
(* away.  n is params.size(); ok whether params[1] is one of the command   *)
(* words the handler accepts.  Calls are modelled with fHelp false.        *)

GetConnectionCountHelp(n) == n # 0              \* lines 28-35
PingHelp(n) == n # 0                            \* lines 43-50
DestinationHelp(n) == n > 2                     \* lines 63-110
GetPeerInfoHelp(n) == n # 0                     \* lines 219-252
AddNodeHelp(n, ok) == n # 2 \/ ~ok              \* lines 305-321
DisconnectNodeHelp(n) == n # 1                  \* lines 351-360
(* Mutant: the filter argument is counted as one too many.                 *)
GetAddedNodeInfoHelpOffByOne(n) == n < 1 \/ n >= 2
GetAddedNodeInfoHelp(n) == n < 1 \/ n > 2       \* lines 373-400
GetNetTotalsHelp(n) == n > 0                    \* lines 440-452
SwitchNetworkHelp(n) == n # 0                   \* lines 462-465
GetNetworkInfoHelp(n) == n # 0                  \* lines 493-525
SetBanHelp(n, ok) == n < 2 \/ ~ok               \* lines 556-575
ListBannedHelp(n) == n # 0                      \* lines 622-630
ClearBannedHelp(n) == n # 0                     \* lines 652-659

(* The handlers whose params[1] is a command word (addnode 305-309,       *)
(* setban 556-560); ok is whether it is one of the words they accept.     *)
WordCommands == {"addnode", "setban"}

(* Whether a call of command h answers with its usage text.               *)
Usage(h, n, ok) ==
    CASE h = "getconnectioncount" -> GetConnectionCountHelp(n)
      [] h = "ping"               -> PingHelp(n)
      [] h = "destination"        -> DestinationHelp(n)
      [] h = "getpeerinfo"        -> GetPeerInfoHelp(n)
      [] h = "addnode"            -> AddNodeHelp(n, ok)
      [] h = "disconnectnode"     -> DisconnectNodeHelp(n)
      [] h = "getaddednodeinfo"   -> GetAddedNodeInfoHelp(n)
      [] h = "getnettotals"       -> GetNetTotalsHelp(n)
      [] h = "switchnetwork"      -> SwitchNetworkHelp(n)
      [] h = "getnetworkinfo"     -> GetNetworkInfoHelp(n)
      [] h = "setban"             -> SetBanHelp(n, ok)
      [] h = "listbanned"         -> ListBannedHelp(n)
      [] h = "clearbanned"        -> ClearBannedHelp(n)

-----------------------------------------------------------------------------
(* The handlers of rpcnet.cpp as programs.                                 *)

(* getconnectioncount, lines 37-38: LOCK2(cs_main, cs_vNodes); size().    *)
GetConnectionCount ==
    <<Lock("cs_main"), Lock("cs_vNodes"), Do("read"), Unlock("cs_vNodes"), Unlock("cs_main")>>

(* Mutant: ping takes the two locks in the other order.                    *)
PingReversed ==
    <<Lock("cs_vNodes"), Lock("cs_main"), Do("queueping"), Unlock("cs_main"), Unlock("cs_vNodes")>>

(* ping, lines 53-56: LOCK2(cs_main, cs_vNodes); fPingQueued on each node. *)
Ping ==
    <<Lock("cs_main"), Lock("cs_vNodes"), Do("queueping"), Unlock("cs_vNodes"), Unlock("cs_main")>>

(* CopyNodeStats, lines 204-214: LOCK(cs_vNodes); copy every node's stats. *)
CopyNodeStats == <<Lock("cs_vNodes"), Do("copystats"), Unlock("cs_vNodes")>>

(* Mutant: cs_main is taken only after the stats were copied.              *)
GetPeerInfoLateMain ==
    CopyNodeStats \o <<Lock("cs_main"), Do("statestats"), Unlock("cs_main")>>

(* getpeerinfo, lines 254-300: LOCK(cs_main); CopyNodeStats; then          *)
(* GetNodeStateStats for each copied id (264) still under cs_main.         *)
GetPeerInfo ==
    <<Lock("cs_main")>> \o CopyNodeStats \o <<Do("statestats"), Unlock("cs_main")>>

(* getnetworkinfo, lines 527-551: LOCK(cs_main); vNodes.size() at 536      *)
(* without cs_vNodes; then LOCK(cs_mapLocalHost) for the local addresses.  *)
GetNetworkInfo ==
    <<Lock("cs_main"), Do("read"), Lock("cs_mapLocalHost"),
      Unlock("cs_mapLocalHost"), Unlock("cs_main")>>

(* getnettotals, lines 454-458: byte counters behind their own locks, no   *)
(* lock of rpcnet.cpp and no access to vNodes.                             *)
GetNetTotals == <<Do("totals")>>

(* destination, line 113: LOCK2(cs_main, cs_vNodes) around the addrman     *)
(* scan (modelled in Destination).                                          *)
DestinationLocks ==
    <<Lock("cs_main"), Lock("cs_vNodes"), Do("scan"), Unlock("cs_vNodes"), Unlock("cs_main")>>

(* The other handlers, whose bodies are modelled in RpcBan, AddedNodes and *)
(* SwitchNetwork, reduced to the locks they take; a step that touches      *)
(* nothing of this module between two locks is left out.  addnode          *)
(* add/remove searches and changes vAddedNodes under LOCK(cs_vAddedNodes), *)
(* lines 330-346 (onetry, 322-328, hands the endpoint to                   *)
(* OpenNetworkConnection and is left out).                                 *)
AddNodeLocks == <<Lock("cs_vAddedNodes"), Do("addednodes"), Unlock("cs_vAddedNodes")>>

(* disconnectnode, lines 362-366: FindNode searches vNodes under cs_vNodes *)
(* (CloseSocketDisconnect then runs on the pointer outside it, RpcBan).    *)
DisconnectNodeLocks == <<Lock("cs_vNodes"), Do("findnode"), Unlock("cs_vNodes")>>

(* getaddednodeinfo, line 402: GetAddedNodeInfo copies vAddedNodes under   *)
(* cs_vAddedNodes, then joins it with the live peers under cs_vNodes, one  *)
(* lock at a time (spec 4.1, 4.4, 5).                                       *)
GetAddedNodeInfoLocks ==
    <<Lock("cs_vAddedNodes"), Do("addednodes"), Unlock("cs_vAddedNodes"),
      Lock("cs_vNodes"), Do("read"), Unlock("cs_vNodes")>>

(* setban, lines 591-616: IsBanned, Ban and DumpBanlist use CNode's own    *)
(* ban lock; one FindNode of the disconnect loop takes cs_vNodes.          *)
SetBanLocks == <<Lock("cs_vNodes"), Do("findnode"), Unlock("cs_vNodes")>>

(* listbanned 632, clearbanned 661-662: the ban table behind its own lock. *)
ListBannedLocks == <<Do("banlist")>>
ClearBannedLocks == <<Do("banlist")>>

(* switchnetwork, line 467: SetNetworkActive, no lock of rpcnet.cpp.       *)
SwitchNetworkLocks == <<Do("toggle")>>

(* A call refused by its argument check: runtime_error unwinds at once.   *)
Refused == <<Do("throw")>>

(* The networking threads (net.cpp and main.cpp, from the spec).  A new    *)
(* CNode registers its CNodeState under cs_main (InitializeNode) before    *)
(* it is pushed onto vNodes under cs_vNodes; a disconnected node is erased *)
(* from vNodes under cs_vNodes and its CNodeState dropped under cs_main    *)
(* (FinalizeNode) when it is deleted.  The message thread sends the queued *)
(* pings under cs_main.                                                     *)
OpenNode ==
    <<Lock("cs_main"), Do("initnode"), Unlock("cs_main"),
      Lock("cs_vNodes"), Do("pushnode"), Unlock("cs_vNodes")>>
DeleteNode ==
    <<Lock("cs_vNodes"), Do("erasenode"), Unlock("cs_vNodes"),
      Lock("cs_main"), Do("finalizenode"), Unlock("cs_main")>>
MessageHandler == <<Lock("cs_main"), Do("sendpings"), Unlock("cs_main")>>

Handlers == {"getconnectioncount", "ping", "destination", "getpeerinfo", "addnode",
             "disconnectnode", "getaddednodeinfo", "getnettotals", "switchnetwork",
             "getnetworkinfo", "setban", "listbanned", "clearbanned"}

Program(h) ==
    CASE h = "getconnectioncount" -> GetConnectionCount
      [] h = "ping"               -> Ping
      [] h = "getpeerinfo"        -> GetPeerInfo
      [] h = "getnetworkinfo"     -> GetNetworkInfo
      [] h = "getnettotals"       -> GetNetTotals
      [] h = "destination"        -> DestinationLocks
      [] h = "addnode"            -> AddNodeLocks
      [] h = "disconnectnode"     -> DisconnectNodeLocks
      [] h = "getaddednodeinfo"   -> GetAddedNodeInfoLocks
      [] h = "switchnetwork"      -> SwitchNetworkLocks
      [] h = "setban"             -> SetBanLocks
      [] h = "listbanned"         -> ListBannedLocks
      [] h = "clearbanned"        -> ClearBannedLocks
      [] h = "usage"              -> Refused
      [] h = "opennode"           -> OpenNode
      [] h = "deletenode"         -> DeleteNode
      [] h = "messagehandler"     -> MessageHandler

(* The instruction thread t executes next.                                 *)
At(t) == Program(prog[t])[ip[t]]

-----------------------------------------------------------------------------
(* Executing one instruction.                                              *)

(* The thread moves on; a worker or the socket thread whose program ends   *)
(* is free again (a worker's call and its stats copy go out of scope), the *)
(* message thread starts its loop over.                                    *)
Advance(t) ==
    IF ip[t] < Len(Program(prog[t]))
    THEN ip' = [ip EXCEPT ![t] = ip[t] + 1] /\ UNCHANGED <<prog, call, vstats>>
    ELSE /\ ip' = [ip EXCEPT ![t] = 1]
         /\ prog' = IF t = MessageThread THEN prog ELSE [prog EXCEPT ![t] = "idle"]
         /\ call' = IF t \in Workers THEN [call EXCEPT ![t] = NoCall] ELSE call
         /\ vstats' = IF t \in Workers THEN [vstats EXCEPT ![t] = {}] ELSE vstats

Running(t) == prog[t] # "idle"

(* LOCK: CCriticalSection blocks until the lock is free.                   *)
Acquire(t) ==
    /\ Running(t) /\ At(t).op = "lock"
    /\ owner[At(t).lock] = NoOwner
    /\ owner' = [owner EXCEPT ![At(t).lock] = t]
    /\ Advance(t)
    /\ UNCHANGED <<vNodes, nodeState, pingQueued, sockNode, nextId>>

(* Scope exit releases the lock.                                           *)
Release(t) ==
    /\ Running(t) /\ At(t).op = "unlock"
    /\ owner' = [owner EXCEPT ![At(t).lock] = NoOwner]
    /\ Advance(t)
    /\ UNCHANGED <<vNodes, nodeState, pingQueued, sockNode, nextId>>

(* vNodes.size(), FindNode, GetNodeStateStats, the byte counters, the     *)
(* addrman scan, the throw of a refused call, and the state of the other   *)
(* modules (ban table, added nodes, network flag):                         *)
(* nothing this module tracks changes.                                      *)
ReadOnly(t) ==
    /\ Running(t)
    /\ At(t).op \in {"read", "findnode", "statestats", "totals", "scan", "throw",
                     "banlist", "addednodes", "toggle"}
    /\ Advance(t)
    /\ UNCHANGED <<owner, vNodes, nodeState, pingQueued, sockNode, nextId>>

(* CopyNodeStats, lines 209-213: one CNodeStats per node of vNodes.        *)
CopyStats(t) ==
    /\ Running(t) /\ At(t).op = "copystats"
    /\ vstats' = [vstats EXCEPT ![t] = vNodes]
    /\ ip' = [ip EXCEPT ![t] = ip[t] + 1]
    /\ UNCHANGED <<prog, call>>
    /\ UNCHANGED <<owner, vNodes, nodeState, pingQueued, sockNode, nextId>>

(* ping, lines 54-56: every node in vNodes gets fPingQueued = true.        *)
QueuePing(t) ==
    /\ Running(t) /\ At(t).op = "queueping"
    /\ pingQueued' = pingQueued \cup vNodes
    /\ Advance(t)
    /\ UNCHANGED <<owner, vNodes, nodeState, sockNode, nextId>>

(* InitializeNode: the new id gets its CNodeState.                         *)
InitNode(t) ==
    /\ Running(t) /\ At(t).op = "initnode"
    /\ nodeState' = nodeState \cup {sockNode}
    /\ Advance(t)
    /\ UNCHANGED <<owner, vNodes, pingQueued, sockNode, nextId>>

(* vNodes.push_back of the new node.                                        *)
PushNode(t) ==
    /\ Running(t) /\ At(t).op = "pushnode"
    /\ vNodes' = vNodes \cup {sockNode}
    /\ Advance(t)
    /\ UNCHANGED <<owner, nodeState, pingQueued, sockNode, nextId>>

(* vNodes.erase of a disconnected node; its fPingQueued goes with it.      *)
EraseNode(t) ==
    /\ Running(t) /\ At(t).op = "erasenode"
    /\ vNodes' = vNodes \ {sockNode}
    /\ pingQueued' = pingQueued \ {sockNode}
    /\ Advance(t)
    /\ UNCHANGED <<owner, nodeState, sockNode, nextId>>

(* FinalizeNode: the deleted node's CNodeState is erased.                   *)
FinalizeNode(t) ==
    /\ Running(t) /\ At(t).op = "finalizenode"
    /\ nodeState' = nodeState \ {sockNode}
    /\ Advance(t)
    /\ UNCHANGED <<owner, vNodes, pingQueued, sockNode, nextId>>

(* The message thread sends a ping to every node that has one queued.      *)
SendPings(t) ==
    /\ Running(t) /\ At(t).op = "sendpings"
    /\ pingQueued' = {}
    /\ Advance(t)
    /\ UNCHANGED <<owner, vNodes, nodeState, sockNode, nextId>>

(* The socket thread takes a new connection (its CNode gets the next id)   *)
(* or starts deleting a live one.                                           *)
SocketLoop ==
    /\ prog[SocketThread] = "idle"
    /\ \/ /\ nextId \in PeerIds
          /\ sockNode' = nextId /\ nextId' = nextId + 1
          /\ prog' = [prog EXCEPT ![SocketThread] = "opennode"]
       \/ \E p \in vNodes : /\ sockNode' = p /\ UNCHANGED nextId
                            /\ prog' = [prog EXCEPT ![SocketThread] = "deletenode"]
    /\ UNCHANGED <<owner, ip, vNodes, nodeState, pingQueued, vstats, call>>

(* An RPC call of command h with n parameters, its command word one the    *)
(* handler knows, is dispatched to a free worker; it runs its handler      *)
(* unless the argument check refuses it.                                    *)
Invoke(w) ==
    /\ prog[w] = "idle"
    /\ \E h \in Handlers, n \in 0..MaxArgs :
       \E ok \in IF h \in WordCommands THEN BOOLEAN ELSE {TRUE} :
           /\ prog' = [prog EXCEPT ![w] = IF Usage(h, n, ok) THEN "usage" ELSE h]
           /\ call' = IF Usage(h, n, ok) THEN [call EXCEPT ![w] = [cmd |-> h, n |-> n, ok |-> ok]]
                                          ELSE call
    /\ UNCHANGED <<owner, ip, vNodes, nodeState, pingQueued, vstats, sockNode, nextId>>

Init ==
    /\ owner = [l \in Locks |-> NoOwner]
    /\ prog = [t \in Threads |-> IF t = MessageThread THEN "messagehandler" ELSE "idle"]
    /\ ip = [t \in Threads |-> 1]
    /\ vNodes = {}
    /\ nodeState = {}
    /\ pingQueued = {}
    /\ vstats = [w \in Workers |-> {}]
    /\ sockNode = NoNode
    /\ nextId = 1
    /\ call = [w \in Workers |-> NoCall]

Step(t) ==
    \/ Acquire(t)
    \/ Release(t)
    \/ ReadOnly(t)
    \/ CopyStats(t)
    \/ QueuePing(t)
    \/ InitNode(t)
    \/ PushNode(t)
    \/ EraseNode(t)
    \/ FinalizeNode(t)
    \/ SendPings(t)

Next ==
    \/ \E w \in Workers : Invoke(w)
    \/ SocketLoop
    \/ \E t \in Threads : Step(t)

Spec == Init /\ [][Next]_vars

-----------------------------------------------------------------------------
(* Properties                                                               *)

(* Thread t waits for thread u: t's next instruction locks what u holds.   *)
WaitsFor ==
    {<<t, u>> \in Threads \X Threads :
        /\ Running(t) /\ At(t).op = "lock"
        /\ owner[At(t).lock] = u}

(* No deadlock among the handlers and the networking threads: the         *)
(* wait-for graph never has a cycle, because every thread takes cs_main    *)
(* before cs_vNodes or cs_mapLocalHost (lines 37, 53, 113, 254 with 208,   *)
(* 527 with 541) and the networking threads take one lock at a time.       *)
NoWaitCycle == ~G!HasCycle([node |-> Threads, edge |-> WaitsFor])

(* getpeerinfo reports the sync state (banscore, synced_headers,           *)
(* synced_blocks, inflight; lines 262 and 278-286) of every peer it lists: *)
(* when GetNodeStateStats runs, every id in the copy CopyNodeStats made    *)
(* still has its CNodeState, although cs_vNodes was released in between    *)
(* and the socket thread may have deleted the node.  It rests on cs_main   *)
(* being held from line 254 and on the node's state outliving its place   *)
(* in vNodes.                                                               *)
PeerStatsHaveState ==
    \A w \in Workers :
        Running(w) /\ At(w).op = "statestats" => vstats[w] \subseteq nodeState

(* Spec 6: an operation answers with its usage text only when called with *)
(* the help flag or with a malformed argument list.  The argument checks  *)
(* of the thirteen handlers never refuse a call whose argument count is in *)
(* the table of spec 6 and whose command word is one the spec lists.       *)
SpecArgCounts ==
    [getconnectioncount |-> {0}, ping |-> {0}, destination |-> 0..2,
     getpeerinfo |-> {0}, addnode |-> {2}, disconnectnode |-> {1},
     getaddednodeinfo |-> 1..2, getnettotals |-> {0}, switchnetwork |-> {0},
     getnetworkinfo |-> {0}, setban |-> 2..4, listbanned |-> {0}, clearbanned |-> {0}]

HelpOnlyWhenMalformed ==
    \A w \in Workers :
        prog[w] = "usage" => call[w].n \notin SpecArgCounts[call[w].cmd] \/ ~call[w].ok

(* Spec 3 and 4.5: vNodes is a lock-guarded collection and the connection *)
(* count is read through the registry lock: no thread reads vNodes (line   *)
(* 536 of getnetworkinfo among them) while the socket thread is inside its *)
(* cs_vNodes section changing it.                                           *)
NoConcurrentvNodesAccess ==
    ~\E t \in Threads :
        /\ Running(t) /\ At(t).op \in {"read", "findnode", "copystats", "queueping"}
        /\ Running(SocketThread) /\ At(SocketThread).op \in {"pushnode", "erasenode"}
=============================================================================
