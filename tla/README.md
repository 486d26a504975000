# TLA+ models of `src/src/rpcnet.cpp`

`rpcnet.cpp` holds the network RPC handlers of the node: getconnectioncount, ping,
getpeerinfo, destination, addnode, disconnectnode, getaddednodeinfo, getnettotals,
switchnetwork, getnetworkinfo, setban, listbanned and clearbanned. Each handler runs on an
RPC server thread, and several may run at once. They work on state owned by collaborators
outside this file:

- the peer registry (`vNodes`, guarded by `cs_vNodes`, with `FindNode` and
  `CNode::CloseSocketDisconnect`);
- the ban table (`CNode::Ban/Unban/IsBanned/ClearBanned`, with its own lock, and
  `DumpBanlist` writing `banlist.dat`);
- the address manager (read by `destination`);
- the added-node list (`vAddedNodes` under `cs_vAddedNodes`);
- the global `fNetworkActive` flag (`SetNetworkActive`).

These collaborators are not under `src/`. Their behaviour is taken from `spec.md` (§3, §4, §9).
The corresponding definitions are marked `spec_modelled` in `PROJECT.json`.

## Inventory

| Part | Code | State it changes | Status |
|---|---|---|---|
| Ban table RPCs | `setban` 554-618, `listbanned` 620-648, `clearbanned` 650-665 | ban table, banlist.dat, peers (disconnects) | modelled: `RpcBan` |
| Peer registry ops | `disconnectnode` 349-369; `getconnectioncount` 27-39, `ping` 41-51, `getpeerinfo` 204-301 | peers; `fPingQueued` | modelled: `disconnectnode` in `RpcBan`, the rest in `RegistryLocks` |
| Address-book query | `destination` 61-202 | none (builds a result under `cs_main, cs_vNodes`) | modelled: `Destination` |
| Network toggle | `switchnetwork` 461-470 | `fNetworkActive` | modelled: `SwitchNetwork`, checked against `NetworkToggle` |
| Added nodes | `addnode` 303-347, `getaddednodeinfo` 371-436 | `vAddedNodes` | modelled: `AddedNodes`, checked against `AddedNodeSet` |
| Command surface | the `fHelp`/arity check at the top of each of the 13 handlers | none (throws the usage text) | modelled: `RegistryLocks` (`Usage`), and `Destination` (`Help`) |
| Network info | `getnettotals` 437-448, `getnetworkinfo` 492-552, `GetNetworksInfo` 472-490 | none | partly: the locks and the `vNodes` read of getnetworkinfo, and getnettotals, in `RegistryLocks`. `GetNetworksInfo` only formats collaborator values |

### Where the handlers interact

A handler takes a lock only around each call into a collaborator. It never holds one across
a whole operation. So between any two collaborator calls in one handler, another RPC
thread or the networking layer can act. Examples of the latter are a peer connecting or
dropping, or a misbehaviour ban. Each such call is therefore one atomic step of the model,
and a handler is a sequence of steps tracked by a per-thread program counter `pc`.

## Modules

### `RpcBan` (ban table, setban loop, disconnectnode)

`RpcBan` is parameterised by `Workers` (the RPC threads), `Addr`, `Subnets`, `MaxPeers`,
`BanTimes`, `DefaultBanTime` and `MaxTime`.

State:

| Variable | Meaning |
|---|---|
| `now` | `GetTime()` |
| `banned` | the in-memory ban table: key ↦ `[until, created, reason]`. A key is the set of addresses it covers, so an address and its /32 are one key |
| `disk` | the contents of banlist.dat |
| `peers` | the registry: peer id ↦ address |
| `nextId` | bounded by `MaxPeers` |
| `disconnect` | the peers whose `fDisconnect` is set: still in `vNodes` until the socket thread erases them |
| `pc`, `arg`, `target` | each RPC thread's position and locals |

Actions, in the order of the code:

| Action | Lines | What it does |
|---|---|---|
| `SetBanAdd` | 576-602 | parse and validate, then the already-banned check (593). An error return leaves the state unchanged |
| `SetBanBan` | 604 | `CNode::Ban` |
| `SetBanFind` / `CloseTarget` | 606-608 | one `FindNode` per loop iteration, then one `CloseSocketDisconnect` on the pointer it returned, in a later step |
| `SetBanRemove` | 610-614 | |
| `SaveBanlist` | 616 | `DumpBanlist` |
| `ClearBanned` | 661 | |
| `ListBanned` | 620-648 | |
| `DisconnectNode` | 362-364 | `FindNode` by address, then close as a later step |

`CloseSocketDisconnect` only sets the peer's `fDisconnect` flag (spec §4.5); the peer stays
in `vNodes`, and `FindNode` still returns it, until the socket thread erases it
(`SocketErase`). The loop at 606-608 therefore ends only because the socket thread makes
progress: a flagged peer found again is flagged again.

The environment provides `Connect`, `PeerGone` (the peer's own socket fails, which flags it
the same way), `SocketErase`, `MisbehavingBan` and `Tick`. `Ban` follows
`CNode::Ban` as spec §4.3 describes it: bantime 0 means the default, `absolute` means until =
bantime, otherwise until = now + bantime, and the entry is overwritten.

`CNode::Ban` adds the bantime to `GetTime()` in `int64_t`. `Wrap` models that sum as
two's-complement arithmetic of `TimeBits` bits. Full 64 bits are out of TLC's reach, so the
width is scaled down and the overflow happens at a small bantime instead of near 2^63.

`Restart` is a process crash and start. Every call in flight is lost, every connection is gone,
and the table is read back from banlist.dat (`banned' = disk`). It fires at most
`MaxRestarts` times.

`acked` is a history variable: the keys of `setban add` calls that returned success.
Remove and clear take a key out of it. An add overtaken by a concurrent remove of its key is
ordered before that remove and is not acknowledged.

`IsBanned(addr)` tests whether any unexpired entry covers the address.
`IsBanned(subnet)` tests the exact key. `Inputs` abstracts the parse at lines 576-589: an
input has a slash or not, is valid or not, and names one key.

### `SwitchNetwork` and `NetworkToggle`

`switchnetwork` is three accesses to one unguarded flag:

1. read `fNetworkActive` (467);
2. `SetNetworkActive(!read)` (467);
3. read it again for the result (469).

`SwitchNetwork` models each as a step of a caller. `NetworkToggle` is the abstract
specification spec §4.6 promises: every call flips the flag atomically. `sets` counts stores
modulo 2 and refines `parity`. `TogglesAtomically == Toggle!Spec` states the refinement.

### `AddedNodes` and `AddedNodeSet`

`addnode` searches and mutates `vAddedNodes` inside one `LOCK(cs_vAddedNodes)` (330-346),
so add and remove are one atomic step each. `onetry` only calls `OpenNetworkConnection`
(322-328) and leaves the list alone. `getaddednodeinfo` calls `GetAddedNodeInfo()` (402),
which, as spec §4.4 describes it, copies the list under `cs_vAddedNodes` and then looks each
copied entry up among the live peers in a second scope under `cs_vNodes`. The handler is
therefore two steps, and other threads' calls can run between them.

State:

| Variable | Meaning |
|---|---|
| `vAddedNodes` | a sequence |
| `copied` | per thread: whether it is between the two scopes of `GetAddedNodeInfo`, its filter, and the copy |
| `reply` | per thread: the request and the answer of its last call |

The actions are `AddNode`, `RemoveNode` (erases the first match, 343), `OneTry`,
`CopyAddedNodes` (the first scope) and `GetAddedNodeInfo` (the second scope and lines
404-435: the first entry equal to the filter or `NotAdded`, 404-416, then one row per entry).
A row is reduced to the entry it names. Its `connected` flag and address (420-431) format
the networking layer's view of the peer, and no property is about them.

`TypeOK` bounds the list by the number of endpoints: a longer list must repeat an entry,
which the duplicate check at 337-338 prevents. It does not say more than that; that the list
has no duplicates is what the refinement below needs: it reads the list as a set, and a
duplicate would survive a remove (which erases only the first match) that the set performs.

`AddedNodeSet` is the abstract set of spec 4.4, with one reply per thread. It is linked to
`AddedNodes` by a refinement mapping:

- the list maps to its set of elements;
- a thread's reply maps to its reply with the rows read as a set;
- a thread between the two scopes of `getaddednodeinfo` maps to the answer its copy fixes:
  the call takes effect at the copy, so the abstract `List` step is the copy step.

`ImplementsAddedNodeSet` checks the refinement.

### `RegistryLocks` (locks of every handler, argument checks, node lifetime)

Each handler is written as a program: the sequence of `LOCK`/`LOCK2` acquisitions, accesses
to shared state and releases that the handler performs. `LOCK2(a, b)` takes a then b and
releases in reverse at scope exit. The read side is modelled in full:

- `getconnectioncount`;
- `ping`;
- `getpeerinfo`: `LOCK(cs_main)`, then `CopyNodeStats` under `cs_vNodes`, then
  `GetNodeStateStats` at 264 still under `cs_main`;
- `getnetworkinfo`;
- `getnettotals`;
- the lock of `destination`.

The other seven handlers are reduced to the locks they take:

- `addnode` add/remove: `cs_vAddedNodes`;
- `disconnectnode`, and one `FindNode` of setban's loop: `cs_vNodes`;
- `getaddednodeinfo`: `cs_vAddedNodes`, then `cs_vNodes`, one at a time;
- ban table, toggle: steps without a lock of this file.

Their effects are modelled in `RpcBan`, `AddedNodes` and `SwitchNetwork`.

`Invoke` dispatches a call of any of the thirteen commands with 0 to `MaxArgs` parameters.
For `addnode` and `setban`, whose `params[1]` is a command word (305-309, 556-560), it
also chooses whether the word is one the handler accepts.
`Usage` is the handler's own check: `GetConnectionCountHelp`, ..., `ClearBannedHelp`, each
the `if (fHelp || params.size() ...) throw runtime_error(...)` of its handler with the
usage text abstracted. A refused call throws before any lock (`Refused`). An accepted call
runs its program.

Each worker executes one instruction per step: `Acquire` (blocks while the lock is held),
`Release`, `ReadOnly`, `CopyStats` and `QueuePing` (ping sets `fPingQueued` on every node).
Two networking threads run beside them, modelled from the spec:

- the socket thread (`SocketLoop`) either opens a node or deletes one:
  - opening: `InitNode` gives it its `CNodeState` under `cs_main`, then `PushNode` appends
    it to `vNodes` under `cs_vNodes`;
  - deleting: `EraseNode` under `cs_vNodes`, then `FinalizeNode` drops the state under
    `cs_main`;
- the message thread sends the queued pings inside `cs_main` (`SendPings`).

The JSON the handlers build is left out.

The properties:

- `NoWaitCycle` checks the wait-for graph of all threads with `Graphs!HasCycle`.
- `PeerStatsHaveState`: when `getpeerinfo` looks up the sync state of the peers it copied,
  every one still has its `CNodeState`. `cs_vNodes` was released in between, and the node
  may already be erased from `vNodes`. The property holds because `cs_main` is held from
  254 and because a node's state is created before, and dropped after, its place in
  `vNodes`.
- `HelpOnlyWhenMalformed` compares the thirteen checks with the signature table of spec §6:
  a call with an argument count the table allows and a command word §6 lists is never
  refused. The converse does not
  hold. `setban` (559) has no upper bound, so a call with five arguments runs, although
  §6 lists at most four. `MaxArgs` = 4 is the largest count §6 allows and one more than
  any other handler accepts. The five-argument `setban` call is outside the bound, and no
  run checks the converse.
- `NoConcurrentvNodesAccess` states the lock discipline spec §3 and §4.5 require for
  `vNodes`.

### `Destination`

`destination` is a single lock scope, so it is sequential. The model keeps its control flow:

| Action | Lines | What it does |
|---|---|---|
| `Help` | 63-110 | the arity check |
| `Parse` | 113-140 | the parse of the subcommand and its argument into a filter |
| `Visit` | 151-187 | one loop iteration over an address-book entry |
| `EndPass` | 189-197 | the end of each of the two passes |

The address book is `vecStats`, a sequence of records `[sAddress, sSource, sBase64, fInTried,
fGood, fAttempt, fConnect]`. The strings are sequences over a two-letter alphabet, and the
substring test at lines 154-156 is `Occurs`. `Reference` is a declarative statement of spec
§4.2 / §8.1: a sizes object `[tablesize, matchsize]` comes first, then one object per
matching entry in order, with base64 only when a filter is given. It is written independently
of the loop. `MatchObject` and `SizesObject` (the shape of one output object) are
shared by the loop and the reference; only the selection and the order are independent.

## Runs

| Run | Expect | Bounds | What it shows |
|---|---|---|---|
| `ban_core` | pass | 2 threads (symmetric), 2 addresses, 1 subnet over both, 1 peer id, default bantime, clock 0..1, one restart | `TypeOK`, `DurableWhenQuiet`, `AckedBansSurviveRestart` |
| `ban_progress` | pass | 1 thread, 2 peer ids, frozen clock, no restart | `CallsReturn`: every setban and disconnectnode call returns, under the fairness below |
| `ban_race` | violation | 2 threads | `BanCheckStillHolds`: the check at 593 is stale when `CNode::Ban` runs at 604 |
| `ban_cover` | violation | 1 thread | `RefusedOnlyIfKeyBanned`: an address is refused because a covering subnet is banned |
| `ban_bantime` | violation | bantimes {-1,0,3}, clock 0..2, 3-bit timestamps | `BanEntryWellFormed`: an entry ends before it was created. TLC's shortest trace uses bantime -1. Bantime 3 at now = 1 overflows to until = -4, which violates the property too |
| `ban_stale` | violation | 1 thread, 2 peer ids | `CloseOnLivePeer`: `CloseSocketDisconnect` on a peer already removed |
| `switch_lost` | violation | 2 callers | `TogglesAtomically`: two calls, one toggle |
| `switch_result` | violation | 2 callers | `ReturnsNewState`: a call returns the other call's value |
| `added_nodes` | pass | 2 threads (symmetric), 2 endpoints, every call, every interleaving of the two scopes of getaddednodeinfo | `TypeOK` (list bounded), `ImplementsAddedNodeSet` |
| `registry_locks` | pass | 2 RPC threads (symmetric) calling any of the 13 commands with 0-4 arguments and a valid or invalid command word, socket and message threads, 2 peer ids | `NoWaitCycle` over every handler's locks, `PeerStatsHaveState`, `HelpOnlyWhenMalformed` |
| `registry_race` | violation | same | `NoConcurrentvNodesAccess`: getnetworkinfo reads `vNodes.size()` (536) while the socket thread is changing `vNodes` |
| `destination` | pass | every book of ≤3 entries over 3 entry shapes, every parameter shape | `ReturnsReference` |

The `ban_core` properties in detail:

- `DurableWhenQuiet`: when no call is in flight, every manual ban is on disk exactly as in
  memory, and disk holds nothing memory lacks.
- `AckedBansSurviveRestart`: every add that returned success is on disk, and so in memory
  after a restart, until a later remove or clear. Another thread's dump, remove or
  misbehaviour ban may land at any point.
- `CallsReturn` (`ban_progress`): every call returns. The loop at 606-608 re-asks
  `FindNode` after each close and exits only when no covered peer is left in `vNodes`; it
  ends because the socket thread erases flagged peers. With `FindNode` asked once and the
  same peer closed repeatedly, or without the socket thread's fairness, TLC finds a call
  that never returns.

`TypeOK` of `ban_core` is more than a type: it states that a ban entry is only ever made
from a valid input (the check at 588-589), and that every flagged peer is still in the
registry until it is erased.

Each property of a passing run has a mutant in `PROJECT.json`: a plausible bug in the mapped
code that makes TLC report the property violated.

### Why the bounds are enough

Two threads and one subnet covering two addresses are enough to produce each of these:

- a check and a ban separated by another thread's ban;
- an address check meeting a subnet entry;
- a loop that must close two peers (`ban_progress`);
- two dumps in either order.

`ban_core` has one peer id, the clock from 0 to 1 (so an entry made at 0 with the default
bantime expires), and one restart, so acknowledged bans, expiry and a crash meet in one
run over all interleavings of two threads. The threads are interchangeable and the
properties are safety properties, so the run uses symmetry over them. `ban_progress` has
two peer ids, so a peer can drop and another connect while the loop runs, and one thread,
because the property is about a call finishing and a second thread only adds states.
Peers are never re-used after `nextId` passes `MaxPeers`. This bounds the runs but keeps
every pointer-after-removal case, since the same id is never re-added.

### Fairness

Each thread's in-call steps (`WorkerStep`: Ban, Find, Close, Dump) are weakly fair. Once a
handler is running, the RPC server thread keeps executing it; nothing in the code parks it.
`SocketErase` is weakly fair: `ThreadSocketHandler` loops forever and erases every node with
`fDisconnect` set on each pass.
Starting a call, and all environment actions (connect, drop, misbehaviour, time), are not
fair. Nothing obliges a client to call or a peer to connect. In `SwitchNetwork` the steps of
a started call are weakly fair. `destination` runs to completion under weak fairness of its
single sequential thread.

In `RegistryLocks`, two workers and the two networking threads give every pair of handlers
a chance to hold one lock while waiting for another. A wait-for cycle needs two threads,
so two workers are enough to expose an inverted order in any handler. Two peer ids let one
node be deleted while another is opened, and they let a copy made by `getpeerinfo` outlive
the node it names. The workers are interchangeable, so `registry_locks` uses symmetry over
them. `RegistryLocks` has no fairness: it states only safety properties.

## Findings

`PROJECT.json` lists the findings with their source lines:

- the setban check-then-ban race (593/604);
- the address-vs-subnet asymmetry of the already-banned check (593);
- unchecked negative, past or overflowing bantimes (598);
- `CloseSocketDisconnect` on a pointer used after `cs_vNodes` is released (608, 366);
- the lost toggle of `switchnetwork` (467);
- the stale return value of `switchnetwork` (469);
- the unguarded `vNodes.size()` read of `getnetworkinfo` (536).

## Not modelled, and the plan

1. The output of the read-only handlers: the JSON of `getpeerinfo` and `getnetworkinfo`, and
   `GetNetworksInfo` (472-490). These format values owned by collaborators and change no
   state, so no property could tell the outcomes apart. One thing seen while reading it is
   left unchecked for the same reason: `GetNetworksInfo` declares `UniValue networks;`
   (line 474), the only result array of the file not constructed as `UniValue::VARR`. If
   UniValue's `push_back` refuses to append to a null value, `networks` comes out null
   instead of the array of spec 6. UniValue is not in this repository, so this depends on a
   library the model cannot see, and a run would only restate that assumption.
2. Liveness of the read-side handlers. `CCriticalSection` is not a fair lock, and a waiter can
   be overtaken forever. Only deadlock freedom (`NoWaitCycle`) is claimed.
3. `addnode onetry` (322-328) in `RegistryLocks`. It takes no lock of this file, and the
   locks `OpenNetworkConnection` takes are not in this repository.
4. `DumpBanlist` as two steps (copy under the lock, write unlocked). Its implementation is
   not in this repository, and the spec does not say it is split.
5. The `connected` flag and addresses of a `getaddednodeinfo` row (420-431), which format
   the networking layer's view of the peer.
6. `TypeOK` is not checked in `Destination` and `RegistryLocks`: both models build their
   values from small sets by construction, so no plausible bug of the code could make a
   type invariant fail there, and the runs spend their properties on the results and the
   locks.
7. Argument-type errors (`get_str`, `get_int`, `get_bool`). They throw before any state
   change, like a refused arity check.
