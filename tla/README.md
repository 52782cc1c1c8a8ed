# TLA+ models of the bittoro link and path layers

This directory holds TLA+ models of the C++ sources under `src/llarp`.
TLC checks them. The models follow the code, not `spec.md`; where the two
disagree, the disagreement is recorded as a finding in `PROJECT.json`.

## 1. The system

`spec.md` names five core parts; the table lists them, leaves first, and then the node database, router profiling, the hidden-service outbound context and the DHT's introset lookups, which `spec.md` treats as collaborators.

| Part | Source | State | Operations |
|---|---|---|---|
| Crypto provider | `crypto/*`, `pow.cpp` | none (pure) | encrypt, HMAC, DH, sign |
| Link session (iwp) | `iwp/session.cpp` | `m_State`, `m_SessionKey`, `m_TXID`, `m_TXMsgs`, `m_RXMsgs`, `m_ReplayFilter`, `m_SendMACKs`, `m_LastRX`/`m_LastTX`, `GotLIM` | `Start`, `Recv_LL` → handshake handlers or `HandlePlaintext` (XMIT, DATA, ACKS, MACK, NACK, PING, CLOS), `SendMessageBuffer`, `Pump`, `Tick`, `Close`, `TimedOut` |
| Link layer | `link/server.cpp` | `m_Pending` (by address), `m_AuthedLinks` (by key, multimap), `m_RecentlyClosed` | `TryEstablishTo`, `RecvFrom`, `MapAddr`, `Pump`, `Tick`, `SendTo`, `CloseSessionTo`, `PutSession` |
| Path / transit hop | `path/path_context.cpp`, `path/transit_hop.hpp`, `path/pathset.cpp` | transit-hop map keyed by both path ids, own paths | put, lookup, expire, flush |
| Outbound message handler | `router/outbound_message_handler.cpp` | ingress ring, per-path queues, round-robin order, pending-session lists, `removedPaths` | `QueueMessage`, `Tick` (drain, remove, round robin), session-result finaliser |
| Node database | `nodedb.cpp`, `router_contact.cpp` | `entries` (key to RC and insert time), the RC files, the disk, crypto and logic job queues | `UpdateAsyncIfNewer`, `Insert`, `Remove`, `RemoveIf`, `RemoveStaleRCs`, `SaveAll`, `Load`, `llarp_nodedb_async_verify`, `select_random_exit` |
| Hidden-service outbound context | `service/outbound_context.cpp`, `service/intro.hpp` | `remoteIntro`, `m_NextIntro`, `m_BadIntros`, `lastShift`, `currentIntroSet`, `updatingIntroSet`, the failure counters, the context's paths | `ShiftIntroduction`, `SwapIntros`, `MarkIntroBad`, `HandlePathBuilt`/`BuildTimeout`/`Died`, `HandleDataDrop`, `OnIntroSetUpdate`, `UpdateIntroSet`, `Pump`, `AsyncGenIntro`, `SelectHop`, `Stop` |
| DHT introset lookups | `dht/txholder.hpp`, `dht/serviceaddresslookup.cpp` | `tx` (owner to lookup), `waiting` (target to owners), `timeouts` (target to deadline) | `NewTX`, `Found`, `NotFound`, `Inform`, `Expire`; `ServiceAddressLookup::Validate`, `Start`, `DoNextRequest`, `SendReply` |
| Congestion queue (CoDel) | `util/codel.hpp` | `m_Queue` (fixed array), `m_QueueIdx`, `firstPut`, `dropNum`, `nextTickInterval`, `nextTickAt` | `Emplace`, `EmplaceIf`, `Process` (with or without a filter) |
| Router profiling | `profiling.cpp` | `m_Profiles` (router to counters), `m_LastSave`, the profiles file | `Mark*`, `ClearProfile`, `Tick`, `Save`, `Load`, `IsBad` |

How they interact:
- The router hands a message to the outbound message handler.
- The handler queues it per path and sends through `ILinkLayer::SendTo`.
- `SendTo` calls `Session::SendMessageBuffer`.
- On the other side, UDP packets reach `ILinkLayer::RecvFrom`.
- `RecvFrom` hands each packet to a session's `Recv_LL`.
- A completed message goes up through `HandleMessage`.
- The LIM handlers call back into the link layer: `MapAddr` and `SessionEstablished`.
- Path expiry posts the path id to the outbound message handler's `removedPaths`.
- A hidden service's outbound context aligns paths to the routers of the remote's introductions. It moves to another introduction when its paths time out or die, or when messages are dropped. It looks the introset up again over a path.
- The DHT holds one transaction per lookup in a `TXHolder`. Only the first lookup of a service address sends a request; later ones wait on it, and one answer, or `Expire`, replies to all of them.

Behaviours that make this hard:
- The network is UDP. It loses, duplicates and reorders packets.
- Timers race late packets: delivery timeout, receival timeout, replay-window decay, session alive timeout, and the recently-closed grace window.
- Completion callbacks run after the state they captured has changed.
- Sessions can exist several times per key and per address.
- The queues are bounded and some block.

Correctness properties the code must keep:
- No message is delivered upward twice.
- A sender is told "success" only for a message the peer delivered.
- Ready means both LIMs were exchanged.
- Closed is terminal.
- A half-open handshake resolves.
- Per-key session caps hold.
- Every queued message's callback fires exactly once.
- Round robin gives every path a turn (not checked: see omh_queues).

## 2. Modules

### IwpSession (built)

`IwpSession.tla` models one link between two routers:
- **A** is the outbound `Session` created by `TryEstablishTo`.
- **B** is the inbound `Session` created when A's intro arrives.
- The link layer's view of each session is the variable `inMap`: `none`, `pending`, `authed` or `removed`.

`MCIwpSession.tla` adds the `InFlightBound` state constraint for TLC.

Variables and the code they stand for:

| Variable | Code |
|---|---|
| `state` | `m_State` |
| `key` | `m_SessionKey`: `pub` before the DH step, `dh` after; a packet under another key fails the HMAC in `DecryptWorker` |
| `gotLIM` | which `GotLIM` handler is installed |
| `txid`, `tx`, `acked` | `m_TXID`, `m_TXMsgs` ids and their ack bits |
| `rx`, `got` | `m_RXMsgs` ids and the fragments received |
| `replay` | `m_ReplayFilter` |
| `net[s]` | the set of packets in flight to `s` |
| `heard`, `expired` | `m_LastRX` against `SessionAliveTimeout`, see Time below |
| `tokenCmd` | what B's random token reads as when a stale handshake packet reaches the data path |
| `delivered`, `outcome` | observers: how often `HandleMessage` saw each message, and what the completion handler reported |

Actions:
- One action per handler: `Start`, `RecvIntro`, `RecvIntroAck`, `RecvSessionRequest`, `RecvXMIT`, `RecvDATA*`, `RecvACKS`, `RecvMACK`, `RecvNACK`, `RecvPING`, `RecvCLOS`.
- `RecvStaleHandshake` is a stale handshake packet in the data path.
- The `Session::Pump` steps: `SendACKS`, `FlushUnAcked`, `SendKeepAlive`.
- `SendTo`.
- The `Session::Tick` steps: `TxTimeout`, `RxTimeout`, `ReplayDecay`.
- The `ILinkLayer::Pump` removals: `AuthedTimeout`, `PendingTimeout`.
- `AliveTick` is the clock.
- `Lose` is the network.

A handler's MACK (`SendMACK` at the end of `HandlePlaintext`) goes out in the same step. So do the LIM handlers and their `MapAddr`.

The network: a receive either consumes the packet or leaves a copy behind, which models a duplicate. `Lose` drops a packet.

Time:
- The sub-second timers may fire at any moment, because network delay is unbounded. Two facts of their ordering are kept as guards:
  - An inbound message times out only after the sender has given up on it. The receival timeout is 800 ms and the delivery timeout is 500 ms.
  - The replay window decays only when no XMIT or DATA of the id is in flight.
- `AliveTick` is one `SessionAliveTimeout`. It expires a session in LinkIntro or Ready that heard nothing since the previous tick. It expires a session in any other state outright: its creation time is older than the timeout.

### LinkLayer (built)

`LinkLayer.tla` models the session maps of one `ILinkLayer` (`link/server.cpp`). `MCLinkLayer.tla` gives it three or four session slots, two or three addresses and a time bound.

| Variable | Code |
|---|---|
| `sst`, `dir`, `addr`, `lim` | the session object in each slot: its `m_State` (or `free` when no object exists), whether it was created by `TryEstablishTo` or `RecvFrom`, `GetRemoteEndpoint()`, and whether its LIM handler ran |
| `pending` | `m_Pending`, keyed by address (`PendingAt(a)`) |
| `authed` | `m_AuthedLinks`, keyed by the router key of the address (`AuthedTo(k)`) |
| `recently` | `m_RecentlyClosed`: address to expiry time |
| `now`, `ticking` | `Now()` in 100 ms ticks, and whether the `OnTick` timer is still scheduled |
| `graceEnd` | history variable: the end of the latest grace window of each address |

Actions:
- `TryEstablishTo` checks both caps, then calls `PutSession`.
- `RecvFrom` creates an inbound session for an address that has none and is not recently closed.
- `Establish` is a session's LIM handler. It sets Ready and calls `MapAddr`, or sets Closed when `MapAddr` rejects it for the cap.
- `Close` is `Session::Close`.
- `AuthedTimeout` and `PendingTimeout` are `Pump`'s removals.
- `CloseSessionTo`, `Stop` and `OnTick` (→ `Tick`) are the other link-layer operations.

A session's handshake is reduced to the `Establish` step, because IwpSession checks it in detail. Erased sessions free their slot, so sessions are created again and again within three slots.

Runs:
- **link_maps** (pass) checks `TypeOK`, which includes that no endpoint has more pending sessions than `PutSession` allows (the mutant lets `RecvFrom` open a session at an address that already has one).
  - Four slots on two addresses of one router with a per-key cap of 2: `MapAddr` promotes a second session at an address, finds no pending entry, and closes a session over the cap.
- **SessionCapHolds** (off the run list, `LinkLayerSessionCapHolds.cfg`: 3 slots, 3 addresses, caps 2/2, 6 ticks; violated; kept as the hazard of `server.cpp:203` since the project is at its limit of runs): `MapAddr` rejects only when `count(pk) > MaxSessionsPerKey`. Three LIMs to one router leave three authed sessions under a cap of 2, against `spec.md` §8 (the number never exceeds the cap).
- **AuthedAreEstablished** (off the run list, `LinkLayerAuthedAreEstablished.cfg`, violated; the project is at its limit of runs, so it is kept as a hazard of `server.cpp:200`):
  1. Two sessions are pending at one endpoint.
  2. The LIM of one of them runs.
  3. `m_Pending.find(addr)` hands `MapAddr` the other one, which moves to `m_AuthedLinks` before its handshake is done.
  4. The established session stays in `m_Pending`.
- **GraceWindowHonoured** (off the run list, `LinkLayerGraceWindowHonoured.cfg`, violated; kept as a hazard of `server.cpp:325`): `Tick` erases an entry while `expiry >= now`, that is, while it is still valid. One tick after `CloseSessionTo`, a packet from the closed address opens a new inbound session, inside the 500 ms window.

Bounds:
- Three slots are the fewest that give a third session to a key with a cap of 2, and two sessions at one endpoint beside a third. The cap's reject branch needs three authed sessions and a fourth establishing, hence four slots in link_maps.
- `MaxTime` 1 in link_maps lets an entry of `m_RecentlyClosed` be created and decayed. The violation runs use 6 ticks, which is more than the window of 5.
- Symmetry over the session slots is sound: nothing tells them apart.

No fairness: the link layer's properties here are safety properties.

### OutboundMessageHandler (built)

`OutboundMessageHandler.tla` models `router/outbound_message_handler.cpp`. `MCOutboundMessageHandler.tla` gives it these messages:
- `m1` and `m2` to router `r1` on path `p1`;
- `m3` to `r2` on `p2`;
- `m4` to `r2` on no path.

| Variable | Code |
|---|---|
| `ingress` | `outboundQueue` |
| `pathQ`, `qkeys` | `outboundMessageQueues` and its keys (`zeroID` from `Init` on) |
| `rr` | `roundRobinOrder` |
| `removed`, `removedSome` | `removedPaths`, `removedSomePaths` |
| `pend`, `pkeys` | `pendingSessionMessageQueues` |
| `reqs` | the session maker's outstanding `CreateSessionTo` calls |
| `session` | `HasSessionTo` |
| `stage`, `cb`, `why` | observers: where each message is, how often its callback was posted, and why it left unsent |

Actions:
- `QueueMessage` is split at its one interleaving point: `QueueMessageDirect` or `QueueMessageNoSession` reads `HasSessionTo`, and `QueueMessagePending` is the `_mutex` section.
- `SessionResult` is `OnSessionResult` → `FinalizeSessionRequest`.
- `Tick` is one logic-thread step. `ProcessOutboundQueue` and the loop of `SendRoundRobin` (`RoundRobin`) are RECURSIVE operators, translated statement by statement, with the head drop, the emplace-once rotation slot, the `removedSomePaths` filter, the budget and the empty-streak break.
- `QueueRemoveEmptyPath` is disabled while `removedPaths` is full, because `pushBack` blocks.
- `LinkCompleted` is `Send`'s completion lambda.
- `SessionChange` is a session appearing or timing out below.

`SendTo` is modelled from `ILinkLayer::SendTo` and `Session::SendMessageBuffer`. It takes the message only if a session exists and its send queue is not full. Which sessions are full during a tick is a free choice.

Runs:
- **omh_queues** (pass; `m1` and `m3` on two paths to two routers, one outbound queue slot, budget 2; about 4 K states, 10 s). Under the fairness below:
  - `TypeOK`: the outbound queue never holds more than `MAX_OUTBOUND_QUEUE_SIZE`; the second message meets the full queue and gets `Congestion`.
  - `CallbackAtMostOnce`: no callback is posted twice.
  - `RoundRobinMatchesQueues`: `roundRobinOrder` holds each non-zero queue exactly once.
  - `MessagesLeaveHandler`, a liveness property: every message leaves the handler, including across the race between `HasSessionTo` and the session result.
  With one message per path, the head drop of a full path queue is not reached here; omh_silent_drop reaches it. For the same reason no path can hog the budget, so spec 7's fairness claim is not checked: an instance with two messages on one path and path queues of two takes about 4.5 minutes under the liveness property, more than a run may take.
- **omh_silent_drop** (violation; the trace is queue, then a session with a full send queue, then `Tick`): `Send` ignores `SendTo`'s `false` (lines 296, 335 and 380), so the callback never fires. The head drop at line 262 loses callbacks the same way. Messages of a torn-down path are excluded, because spec §5 says they are abandoned.

Fairness for omh_queues:
- Weak fairness on `Tick`, which runs from the router's periodic timer.
- Weak fairness on `SessionResult`. The session maker answers every request, at the latest by its connect timeout.
- Weak fairness on `QueueMessagePending` and `LinkCompleted`.
- `SessionChange` is not fair.

### PathContext (built)

`PathContext.tla` models `path/path_context.cpp`, one `PathSet` of `path/pathset.cpp`, and the part of the outbound message handler that path expiry drives. `MCPathContext.tla` gives it two transit hops `h1`, `h2` and one own path `p1`, each with its own txID and rxID, over two routers; `Us` (`rb`) is this router, the upstream of `h2` and `p1` (a hop ends here when its upstream is us).

| Variable | Code |
|---|---|
| `transit` | `m_TransitPaths`: a multimap, as a set of `<<id, hop>>` entries |
| `owned` | `m_OurPaths`, the same shape |
| `paths` | the PathSet's `m_Paths`, keyed by `(Upstream, RXID)` (`PathKey`) |
| `created`, `expired` | which hops and paths exist, and which have `Expired(now)` |
| `logic` | the single logic thread: `idle`, or inside one of the two expiry passes |
| `removed` | the handler's `removedPaths` |
| `ingress`, `queues` | path ids of the messages in `outboundQueue`, and the keys of `outboundMessageQueues` |

Actions:
- `PutTransitHop`, `AddOwnPath` (with `PathSet::AddPath`), `RemovePath`.
- `Expire` is time passing. `Expired` itself is in a file outside this tree and is taken from the spec: a hop expires at `started + lifetime`.
- `PathContext::ExpirePaths` is `StartExpirePaths`, then one `ExpireTransitEntry` per erased entry, then `FinishExpirePaths` (which drops expired own paths from `m_OurPaths`, with no notification).
- `PathSet::ExpirePaths` is `StartPathSetExpire`, `ExpirePathSetEntry` and `FinishPathSetExpire`.
- Each erase first calls `QueueRemoveEmptyPath`, whose `pushBack` cannot proceed while `removedPaths` is full (`PushRemoved`).
- Lookups are operators over the maps: `GetByUpstream`, `GetByDownstream`, and `GetHandler`, which asks `GetLocalPathSet` (`m_OurPaths`) and then the set's `GetPathByID` (`m_Paths` by RXID), and falls back to `GetPathForTransfer` (a transit hop under the id whose upstream is us).
- `QueuePathMessage` and `OmhTick` are the handler's side. `OmhTick` is `Tick` reduced to what concerns path ids: `ProcessOutboundQueue` gives each queued id a queue, and `RemoveEmptyPathQueues` erases the queues of every id popped from `removedPaths`. OutboundMessageHandler checks the rest of `Tick`.

Spec §5 puts every action on one logic thread, so an action starts only when `logic = "idle"`. An expiry pass is split into steps because `pushBack` can wait in the middle of it. `Queue::pushBack` lives outside this tree; the model takes it as blocking when the queue is full.

Runs:
- **path_expiry** (pass; `removedPaths` holds 5 ids, every id the passes can push):
  - `HopFoundBothWays`: between passes, `GetByUpstream` finds a hop under its txID exactly when `GetByDownstream` finds it under its rxID.
  - `HandlerFoundForLivePaths`: `GetHandler` returns exactly the own path for its RXID while the path is in `m_Paths` and has not expired, and finds a transit hop that ends here under both of its ids. An own path lives in two maps that `AddOwnPath` fills together and the two expiry passes empty separately; a path put in `m_OurPaths` under its TXID only (the mutant) loses its handler.
  - `TransitQueuesFollowHops`: between passes, every handler queue of a transit id belongs to a hop still in the map or has its removal waiting in `removedPaths`.
- **LogicThreadNeverBlocks** (off the run list, `PathLogicBlocks.cfg`, violated; `removedPaths` holds 2 ids). It was a listed run until the outbound context needed the slot, and it is kept as a hazard in `PROJECT.json`. TLC's trace:
  1. Both hops are put and expire.
  2. `ExpirePaths` pushes their first two ids.
  3. The third `pushBack` waits. The only thread that could drain the queue is the logic thread, which is the one waiting.

  The capacity of 2 stands for the constructor's 20. With 20, eleven transit hops expiring in one pass, or fewer on top of ids left from earlier passes, block the logic thread for good. Spec §5 says the logic context never blocks.

An own path dropped by `PathSet::RemovePath` and then expired leaves its handler queue with no removal ever pushed for it. The model reaches this. No run checks it, because `RemovePath`'s callers are not in this tree (see the hazards in `PROJECT.json`).

No fairness: these are safety properties.

### NodeDB (built)

`NodeDB.tla` models `llarp_nodedb` and the parts of `RouterContact` it uses (`OtherIsNewer`, `Verify`, whose `IsExpired` always returns false, `IsPublicRouter`, `IsExit`, and the file format: `BEncode`, `Clear`, `DecodeKey`, `Read`). `MCNodeDB.tla` gives the RCs: key `ka` at versions 1 (an exit) and 2, key `kb` at version 1, and two verify requests, one valid and one invalid.

| Variable | Code |
|---|---|
| `entries` | `entries`: key to RC and `inserted` time |
| `files` | the RC files under `nodePath`: the dict entries `BEncode` wrote, in key order, each carrying the abstract RC field it encodes, and whether the dict's end was written (not after a failed write, which keeps the first `WriteCuts` entries) |
| `diskQ`, `dw` | the disk worker's jobs (insert, setrc, kill, save), and an `Insert` between its file write and its locked emplace |
| `cryptoQ`, `logicQ` | the crypto worker's verify jobs and the logic thread's hook jobs |
| `req` | where each `llarp_async_verify_rc` is, and its `valid` |
| `stale` | the keys `RemoveStaleRCs` collected under its first lock |

The caller thread's operations (`UpdateAsyncIfNewer`, `Remove`, `Clear`, `AsyncFlushToDisk`, the two halves of `RemoveStaleRCs`, `llarp_nodedb_async_verify`) are atomic steps under the mutex. `Insert` is two steps: an unlocked file write, which may fail (open or write fault), then the locked erase and emplace. `Restart` is a crash and `Load`: every file is read with `Read`, folding `DecodeKey` over its entries from `Clear`'s empty RC, and the ones that parse and verify are loaded; every queue is lost. `Read` BDecodes its whole uninitialised `MAX_RC_SIZE` array, not only the bytes of the file, so for a file without its end the model chooses, per file, whether the leftover bytes close the dict (and the entries present load) or not (the file is skipped). `select_random_exit` is an operator over a table in iteration order and a start index.

- **nodedb** (pass; 2 keys, 2 requests, `MaxJobs` 1, one write fault leaving every entry but the dict's end (`WriteCuts` {8}, the only cut after which an RC can still verify), 1 tick; 218 K states, about 2 min):
  - `MaxJobs` bounds the caller's disk jobs. The verified RCs from the crypto worker are not bounded, because bounding them would block the worker.
  - `SelectRandomExitFindsExit`: on the database's own RCs in every order, and on every table of up to 4 RCs, the scan and its wrap-around return an exit whenever the table has 3 or more RCs and holds one.
  - `VerifyServiceRefined`: NodeDB implements `VerifyService.tla`, the abstract promise of `llarp_nodedb_async_verify`. In that promise a submitted request is answered once, with `valid` TRUE only for an RC that verifies, and a restart loses the requests in flight. Weak fairness on `Answer` is part of the abstract spec, so this includes that every request given to the crypto worker has its hook run or is lost. The refinement mapping sends a request in any of the three job queues to `"pending"`. The hook's `valid` maps to `vok`, and `Good` is the set of requests whose RC passes `RCVerify`. This holds whether the insert succeeds or fails.
  - `FilesLoadAsWritten`: for every file and either outcome of the leftover bytes, an RC that `Read` parses and that verifies is the RC written to that file. So a cut-short file never loads an RC that differs from the one written. A `DecodeKey` that skipped a key, such as the exits list, would load a different RC.
- **RCReplacedOnlyByNewer** (off the run list, `NodeDBNewerOnly.cfg`, violated): `UpdateAsyncIfNewer` checks `OtherIsNewer` when it queues the insert, but `Insert` does not check again. Two updates of one key, versions 2 and 1, both queued while the key is absent, land in queue order. Version 1 then replaces version 2, against `spec.md` §3 (RouterContact: "replaced only by a newer RC").

Fairness for nodedb: weak fairness on the crypto, disk and logic workers. Each is a thread pool or event loop that runs its queued jobs. There is no fairness on the caller's operations or on `Restart`.

### Profiling (built)

`Profiling.tla` models `llarp::Profiling`. Every operation holds `m_ProfilesMutex` for its whole body, so each is one step. The router that calls them is not under `src/`, so any operation may come at any time.

| Variable | Code |
|---|---|
| `profiles` | `m_Profiles`: router to `RouterProfile` counters, `lastUpdated` and `lastDecay` |
| `disabled`, `lastSave` | `m_DisableProfiling`, `m_LastSave` |
| `file` | the profiles file: absent, truncated, or a router-to-dict map as `BEncodeNoLock` writes it |

`BEncodeProfile` and `DecodeProfile` are the bencoding as the code does it: the keys g, p, s and t and u, each read back through `DecodeKey`'s own table. `lastDecay` is not written. `Restart` is `Load`: it clears the map, decodes the file, and stamps `m_LastSave` only on success.

- **profiling** (pass; 2 routers, paths `<<ra, rb>>` and `<<rb>>`, at most 2 marks in all, both save faults, clock 0..1; 81 K states, about 10 s):
  - `ProfilesRoundTrip`: for every reachable map, save then load gives back every counter and `lastUpdated`; only `lastDecay` returns as 0, so the first `Tick` after a restart decays every loaded profile.
  - `SuccessNeverMakesBad`: `RouterProfile::IsGood` (on which `IsBad` rests) is monotone. It is checked on the live profiles and on every profile with counters up to 3, for chances 1 to 3.
- **KindSuccessNeverMakesBad** (off the run list, `ProfilingKindMonotone.cfg`, violated): the same for `checkIsGood`, which `IsBadForConnect` and `IsBadForPath` use, fails. With chances 3, 2 failures and no success are good, and 2 failures with 1 success are bad.

`MaxMarks` bounds the sum of all counters, because the file holds a copy of the map and squares the state space. It is 2, so a 2-hop `MarkPathSuccess` (which adds 2 to each hop) is out of reach. The 1-hop path fires it, and the counter rules are checked over larger counters by the probe. No fairness: safety only.

### OutboundContext (built)

`OutboundContext.tla` models `service::OutboundContext` (`service/outbound_context.cpp`), together with `Introduction::IsExpired` and `ExpiresSoon` from `intro.hpp`. Handlers call one another: `HandleDataDrop` calls `MarkIntroBad`, which calls `ShiftIntroduction` and `UpdateIntroSet`, and then `SwapIntros`, which shifts again. So the intro logic is a set of operators from a context record to a context record. Each action runs one whole handler through them and commits the result with `Commit`. `MCOutboundContext.tla` gives the intros:
- `ra` carries an old intro (A1) and a new one (A2), and `rb` one in between (B).
- The initial introset is {A1, B}. A lookup may return the newer {B, A2}.

| Variable | Code |
|---|---|
| `remoteIntro`, `nextIntro`, `badIntros`, `lastShift` | `remoteIntro`, `m_NextIntro`, `m_BadIntros` (intro to the time it was marked), `lastShift` |
| `currentIntroSet`, `updatingIntroSet`, `inflight` | `currentIntroSet`, `updatingIntroSet`, and a lookup request on the wire |
| `markedBad`, `lookupFails`, `buildFails` | `markedBad`, `m_LookupFails`, `m_BuildFails` |
| `paths` | the context's own paths, counted by last-hop router and status (building, established, timed out) |
| `convoTag`, `now` | whether `currentConvoTag` is set; `Now()` |

The actions:
- `HandlePathBuilt`, `HandlePathBuildTimeout` and `HandlePathDied` are the builder's callbacks.
- `HandleDataDrop` is a drop reported on a path to the remote intro's router.
- `LookupFound` and `LookupFailed` are the two outcomes of `OnIntroSetUpdate`.
- `Pump` is the endpoint's tick.
- `AsyncGenIntro` sends the first frame.
- `BuildMore` is a build that the builder starts when `ShouldBuildMore` holds, with `SelectHop`'s last hop.
- `Stop` marks the context bad.
- `Tick` advances the clock and runs `PathSet::ExpirePaths`, which erases the paths that timed out.

The path builder (`BuildOneAlignedTo`, `BuildCooldownHit`), `IntroSet`, the endpoint and `SendContext` are not under `src/`. Their results are free inputs:
- whether the cooldown is hit;
- whether a lookup could be sent (a path was found and `SendRequestViaPath` succeeded);
- whether the endpoint has a path to a router;
- whether the nodedb knows the last hop.

`HasExpiredIntros` and `IntroSet::IsExpired` are taken as "some intro" and "every intro" has expired. `Pump`'s `lastGoodSend` branch is left out, because `lastGoodSend` belongs to `SendContext`. Its return value, which tells the endpoint to remove the context, is also left out. `Pump`'s `ShiftIntroduction()` call takes the header's default, `rebuild` true.

The shuffle of `ShiftIntroduction` is an input `ord` ranging over every order of the current intros. A handler that shifts twice reuses one order. `ShiftIntroduction`'s result depends on the order only when two usable intros on one router tie, and the MC's introsets, with one intro per router and distinct expiry times, never have that.

Bounds:
- One tick, with `ExpireDelta` 1 and expiry times 1, 2 and 3. At time 0 A1 already expires soon. At time 1 A1 has expired and B expires soon. `MIN_SHIFT_INTERVAL` is 1, so a shift is refused at 0 and allowed at 1. `BadIntroLifetime` is 0, so a mark made at 0 is stale at 1.
- Failure limits of 0, so one lookup failure or one build failure stops `Pump`, as 17 and 11 do in the code.
- `MaxPaths` 2: a path can die while another to the same router is still ready. With two paths `HandlePathDied`'s arms for three or more paths cannot happen.

There is no deadlock check. The context's life ends: after `Stop`, or once its failures pass the limits, the endpoint removes it, and the clock stops at its bound.

Runs:
- **outbound_context** (pass; 220 K states, about 100 s):
  - `ShiftPicksNewestUsable` checks `ShiftIntroduction` against a plain statement of what it is for, in every reachable state and for every shuffle. It succeeds exactly when the interval has passed and a usable intro (not expiring soon, not marked bad) newer than `m_NextIntro` exists. It then moves to one of those intros, and to the newest one unless it stays on the remote intro's router. Otherwise it leaves `m_NextIntro` alone.
  - `LookupSettles`: once `updatingIntroSet` is set, it is cleared again, unless the context was stopped first. This rests on `UpdateIntroSet` setting the flag only when the request went out, and on `OnIntroSetUpdate` running for every request.
- **NeverSwapToBadIntro** (off the run list, `OutboundContextBadIntro.cfg`, violated in 8 states). The intro the context sends to can become one it marked bad, while the mark still holds. TLC's trace:
  1. A drop marks B bad, and the shift is refused at time 0.
  2. B's path dies. `HandlePathDied` moves `m_NextIntro` to A1 and builds to `ra`.
  3. That path is built and dies.
  4. `HandlePathDied` picks the newest intro off `ra`, which is B.
  5. `HandlePathBuilt`'s `SwapIntros` sends to B again.

  `ShiftIntroduction` skips bad intros, but `HandlePathDied` and `ShiftIntroRouter` do not. No comment or spec line states the rule, so this is recorded as a hazard and not as a finding.

Fairness: weak fairness on the answer to a lookup (`LookupFound` or `LookupFailed`). The lookup's transaction either gets a reply or times out, and both call `OnIntroSetUpdate`. No other action is fair.

### TXHolder (built)

`TXHolder.tla` models `dht::TXHolder` (`dht/txholder.hpp`) holding `ServiceAddressLookup` transactions (`dht/serviceaddresslookup.cpp`): the introset lookups of one DHT context.

| Variable | Code |
|---|---|
| `tx` | `tx`: owner (peer asked, txid) to the lookup: `whoasked`, `target`, `valuesFound`, and `offered`, a history of every introset `Inform` handed it |
| `waiting` | `waiting`, the multimap target to owner, as a set of pairs |
| `timeouts` | `timeouts`: target to deadline |
| `asked` | the owners `Start` sent a `FindIntroMessage` to |
| `replies` | what `SendReply` sent (`handleResult` and the `GotIntroMessage`), with the time and deadline as history |
| `lookups`, `ids`, `now` | the lookups the context started, its txid counter, the clock |

Actions:
- `LookupIntroSet(a, k, p)`: the context makes a lookup owned by `(p, ++ids)` for asker `a` and hands it to `NewTX`. `NewTX` sets the deadline if the target has none, and calls `Start` only when nobody waited on the target yet.
- `Found(o, values)`: a `GotIntroMessage` with introsets from the peer of a pending lookup (`GetPendingLookupFrom`). `Inform` gives the values to every lookup waiting on the target. Each keeps the ones `Validate` accepts (for the target, and verifying), replies with the newest by `T`, and is erased.
- `NotFound(o)`: either `Inform` with nothing, or `DoNextRequest` to another peer, which makes a new lookup through `NewTX`.
- `Expire`: every target whose deadline has passed by `requestTimeoutMS` is informed with nothing.
- `AdvanceClock`.

Taken from outside the sources: `TX::OnFound` keeps a value `Validate` accepts, which is folded into `Inform`. The context's `LookupIntroSetRecursive`/`Iterative` make a lookup through `NewTX`, which is folded into `DoNextRequest`. `IntroSet::OtherIsNewer` compares `T`. An introset is a record of its address, `T`, and whether it verifies.

Bounds: one target, so that the second asker's lookup waits on the first. Two peers, so that `DoNextRequest` has another to ask. Three txids: two lookups and one next request. `requestTimeoutMS` is one tick. `LookupIntroSet` is enabled only while `now + 2 * RequestTimeout <= MaxTime`, so every lookup can reach its expiry before the clock stops at 3. `TimeMod` (16) stands for 2^64: above every time reached, it gives the same comparisons. The introsets are an old and a new valid one, a new one that does not verify, and a new one for another address. There is no deadlock check: the clock stops at its bound.

Fairness: weak fairness on `Expire` and on the clock. The context's tick runs on a timer and calls `Expire`. Peers owe no answer.

Run **dht_lookups** (pass, 93 K states):
- `ReplyIsNewestValid`: every reply holds the newest introset that verifies and is for the address asked, among all the introsets delivered to that lookup, or none if there is none. `Inform` hands one peer's answer to every lookup waiting on the target, including lookups for the same target made by other askers.
- `LookupAnswered`: every lookup is answered. That includes lookups waiting without a request, and lookups made by `NotFound` for the next peer.

Hazards the run reaches but no property claims (see `PROJECT.json`):
- `Expire` fires at deadline + `requestTimeoutMS`, which is twice the timeout.
- `Expire` computes `now - deadline` in unsigned time; only the `now > deadline` test before it keeps a deadline still ahead from wrapping. A property saying so would restate that test.
- `DoNextRequest`'s lookup joins a target that is still waited on, so the next peer is never asked. The lookup ends by `Expire`, and the asker gets one reply per lookup.
- `SendReply` starts from a default introset with `T` = 0, so an introset of `T` = 0 is never chosen.

### CoDel (built)

`CoDel.tla` models `llarp::util::CoDelQueue`. No code under `src/` instantiates the queue, so its owner is free: it makes up to `MaxItems` items, `_putTime` stamps them with the clock, the visitor records them, and the filter returns true exactly for the items in `Held`.

| Variable | Code |
|---|---|
| `slots`, `live` | `m_Queue`: the item last constructed in each slot, and the slots whose item has not been destroyed |
| `idx`, `firstPut`, `dropNum`, `nextTickInterval`, `nextTickAt` | the members of the same names |
| `emplaced`, `visited`, `dropped` | history: what the queue accepted, what the visitor saw, what `Process` dropped |

`Emplace` and `EmplaceIf` are one step each under `m_QueueMutex`; `EmplaceIf`'s predicate accepts or refuses. `Process` is enabled once the clock reaches `nextTickAt` (before that it returns at once), and is one step: `ProcessSingle` for `m_QueueIdx = 1`, else `ProcessLoop`, whose `while` loop is the recursive operator `Drain` over the loop's locals. Time is unsigned: `dlt` and `nextTickAt` are taken modulo `TimeMod`. `initialIntervalMs / std::sqrt(++dropNum)` added to the interval is `IntervalStep`, the largest `q` with `q*q*n <= I*I`.

- **codel_fifo** (pass; `MaxSize` 2 with 3 items, so `Emplace` meets a full queue; `EmplaceIf` refuses or accepts; `dropMs` 1, interval 2, clock 0..5; 1.8 K states, seconds). There is no fairness, since the runs check safety only.
  - `TypeOK`.
  - `FifoExactlyOnce`: the items visited, followed by those in slots `0 .. m_QueueIdx-1`, are always the items accepted and not dropped, in order. This holds for `Process(v)`, through both paths and the reuse of slots.
- **CoDelFilter.cfg** (off the run list, violated): with a filter that holds item 2 back, the loop breaks with `m_QueueIdx` 1 while item 2 sits in slot 1. The next `Process` takes the single-item path and visits slot 0, item 1, a second time, and item 2 is never visited. The single-item path never asks the filter. No comment or spec states what a filter promises, so this is a hazard of `codel.hpp:121`, not a finding.
- The drop (`lowest > dropMs`) never fires for `Process(v)`: slot 0 holds the first put, whose `dlt` is 0, and later items' `dlt` wraps. This is the hazard of `codel.hpp:124`.

### Planned modules (later sittings)

`VerifyService.tla` is the abstract module of the refinement above. It has no code of its own: its variables `vst` and `vok` are the request status and the result each hook saw, and its actions are `Submit`, `Answer` and `Crash`.

1. **ReliableChannel** (abstract): the promise of the session's transport, that each message is delivered at most once and success implies delivery. IwpSession will be shown to implement it through a refinement mapping from `tx`/`delivered`.

## 3. Runs

All IwpSession runs (the first three) use `MCIwpSession`. All assume `Senders = {"B"}`: only B's router sends a link message after the LIMs. This keeps each run under two minutes. A's only message is its LIM, whose path through `SendMessageBuffer` and `Complete` is the one of any message.

| Run | cfg | Bounds | Checks | Expect |
|---|---|---|---|---|
| iwp_handshake | `IwpHandshake.cfg` | 2 msgs, 2 fragments, queue 1, 2 in flight | `TypeOK`, `NoDuplicateDelivery`, `SuccessImpliesDelivered`, `LIMsExchanged` | pass (1.3 M states, about 105 s) |
| iwp_half_open | `IwpHalfOpen.cfg` | 1 msg, 1 fragment, 2 in flight | `HandshakeResolves` | pass |
| iwp_closed_terminal | `IwpClosedIsTerminal.cfg` | as half_open | `ClosedIsTerminal` | violation |
| link_maps | `LinkLayerMaps.cfg` | 4 slots, 2 addresses of 1 router, caps 2/2, 1 tick | `TypeOK` | pass (366 K states, about 75 s) |
| omh_queues | `OmhDrain.cfg` | 2 msgs, 2 routers, ingress 1, budget 2 | `TypeOK`, `CallbackAtMostOnce`, `RoundRobinMatchesQueues`, `MessagesLeaveHandler` | pass (about 4 K states, 10 s) |
| omh_silent_drop | `OmhSilentDrop.cfg` | as queues | `NoSilentDrop` | violation |
| path_expiry | `PathExpiry.cfg` | 2 hops, 1 own path, `removedPaths` 5 | `HopFoundBothWays`, `TransitQueuesFollowHops`, `HandlerFoundForLivePaths` | pass (1.3 M states, about 25 s) |
| nodedb | `NodeDB.cfg` | 2 keys, 2 requests, 1 disk job, write fault, 1 tick | `SelectRandomExitFindsExit`, `VerifyServiceRefined`, `FilesLoadAsWritten` | pass (218 K states, about 2 min) |
| profiling | `Profiling.cfg` | 2 routers, 2 marks, both save faults, clock 0..1 | `TypeOK`, `ProfilesRoundTrip`, `SuccessNeverMakesBad` | pass (81 K states, about 10 s) |
| outbound_context | `OutboundContext.cfg` | 2 routers, 3 intros in 2 introsets, 2 paths, 1 tick | `ShiftPicksNewestUsable`, `LookupSettles` | pass (220 K states, about 100 s) |
| codel_fifo | `CoDel.cfg` | 2 slots, 3 items, `dropMs` 1, interval 2, clock 0..5 | `TypeOK`, `FifoExactlyOnce` | pass (1.8 K states, seconds) |
| dht_lookups | `TXHolder.cfg` | 2 askers, 2 peers, 1 target, 4 introsets, 3 txids, clock 0..3 | `TypeOK`, `ReplyIsNewestValid`, `LookupAnswered` | pass (93 K states, about 15 s) |

Why the bounds are enough:
- Two messages give a replayed id beside a live one.
- Two fragments give partial DATA, partial ACKS bits and the retransmission of the unacked fragment.
- A queue of 1 makes a second `SendMessageBuffer` fail while the LIM is pending.
- Two packets in flight (counted over both directions) cover a duplicate beside a new packet, and a stale handshake packet beside a data packet. Every action and every branch of every action fires in the safety run iwp_handshake.

What the runs show:
- **iwp_handshake**: on a lossy, duplicating, reordering network with every timeout racing every packet:
  - The replay filter keeps every message from reaching `HandleMessage` twice.
  - `Completed()` is reported only for messages the peer has delivered.
  - Neither session is Ready before both LIMs were delivered.
- **iwp_half_open**: a session in LinkIntro ends Ready, Closed or removed. A session in LinkIntro sends nothing of its own, so a silent peer lets `TimedOut` fire and `ILinkLayer::Pump` remove it.
- **iwp_closed_terminal**: a Closed session returns to Ready. `GotInboundLIM` (session.cpp:79) and the completion handler of `GotOutboundLIM` (session.cpp:99) set `m_State = Ready` without checking for Closed. `Recv_LL` keeps feeding data to a Closed session. TLC's trace:
  1. A stale session request read as CLOS closes B.
  2. A's LIM then completes on B.
  3. B turns Ready and calls `MapAddr`.

  The same happens when `MapAddr` rejects a session for the key cap: it calls `Close()`, which sends CLOS before the MACK.

Fairness (the half-open run only):
- Weak fairness on the clock, on `Session::Pump`, `Session::Tick` and the link layer's timeout removal. `ILinkLayer::Pump` and `Tick` run from a periodic timer.
- Strong fairness on each side's receive, because a packet in flight can be lost and re-sent.
- Weak fairness on `Lose` of every packet. No packet is in flight, or duplicated, forever.
- `SendTo` is not fair: the router need not send.

Each property of a passing run has a mutant in `PROJECT.json`. A mutant is a variant of one handler that breaks the property, and it is defined in the module before the handler it replaces. A property that no plausible bug of the code can break is not checked: for that reason PathContext, NodeDB and OutboundContext have no type invariant in their runs, since their state can only leave its types through changes the C++ types would reject or through the model's own bounds. For example:
- `RecvDATACompleteNoErase` keeps a completed message in `m_RXMsgs`.
- `RecvMACKAll` completes every pending message.
- `AliveTickSparesLinkIntro` never times out a LinkIntro session.

## 4. Not modelled

- Byte-rate counters and `ExtractStatus`: reporting only.
- `RenegotiateSession`: it sends nothing new.
- The encrypt/decrypt batches (`m_EncryptNext`, `m_DecryptNext`). The worker pool only transforms bytes, and the logic thread applies the results in batch order, so one receive step is one packet.
- `InboundMessage`/`OutboundMessage` live in a file that is not in this tree. Their XMIT and fragment packets are modelled from the spec and marked `spec_modelled`. Ack bits from ACKS are merged, as the spec describes.
- Bencode, DNS, config, RPC, logging, JNI and libabyss: parsing and I/O.
- Crypto: only its contract is used (a wrong key fails the HMAC).
- The DHT, and the hidden-service endpoint other than its outbound context: external collaborators per `spec.md` §1. This covers protocol frames, addresses, key exchange and the router lookup job. Of the DHT only the introset lookups of `TXHolder` are modelled (see TXHolder above): router lookups and exploration use the same holder, and the kademlia bucket and message decoding are distance arithmetic and encoding.
- `select_random_hop` and `select_random_hop_excluding` (`nodedb.cpp:539`, `:585`): their retry loop runs `while(itr == entries.end())`, which is false on entry, so they make one random pick.
- The NodeDB file layout (`getRCFilePath`, `ensure_dir`) and the async `load_rc` path, which is compiled out.
- `Profiling::ShouldSave` and `IsBadForConnect`/`IsBadForPath` as actions: the first has its caller outside `src/`, and the others are `IsBad` over `checkIsGood`, which is modelled.
