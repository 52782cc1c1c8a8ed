----------------------------- MODULE PathContext -----------------------------
(***************************************************************************)
(* The path registry of one router (llarp/path/path_context.cpp) and one   *)
(* of its PathSets (llarp/path/pathset.cpp), with the part of the          *)
(* OutboundMessageHandler they drive: QueueRemoveEmptyPath pushes a path   *)
(* id into the bounded removedPaths queue, whose only consumer is the      *)
(* handler's Tick, and Tick erases the per-path queues of those ids.       *)
(*                                                                         *)
(* Every action runs on the single logic thread, so an action may start   *)
(* only while the thread is idle. The two expiry passes are loops: each    *)
(* erased entry is one step, and a step whose pushBack finds removedPaths *)
(* full cannot be taken. The thread then waits for a Tick that it would   *)
(* have to run itself.                                                     *)
(***************************************************************************)
EXTENDS Naturals, Sequences, FiniteSets

CONSTANTS
    Hops,            \* transit hops this router relays for
    OwnPaths,        \* paths this router built, all in one PathSet
    Routers,
    TxID, RxID,      \* the two path ids of each hop and path
    Upstream,        \* the next router of each hop and path
    Downstream,      \* the previous router of each hop
    Us,              \* this router: the upstream of a hop that ends here
    RemovedPathsCap  \* capacity of removedPaths (20 in the constructor)

ASSUME
    /\ \A x \in Hops \cup OwnPaths : Upstream[x] \in Routers
    /\ \A h \in Hops : Downstream[h] \in Routers
    /\ RemovedPathsCap \in Nat \ {0}
    /\ Us \in Routers

Objs == Hops \cup OwnPaths

Ids == {TxID[x] : x \in Objs} \cup {RxID[x] : x \in Objs}

VARIABLES
    transit,   \* m_TransitPaths: a multimap, as a set of <<id, hop>> entries
    owned,     \* m_OurPaths: a multimap, as a set of <<id, path>> entries
    paths,     \* the PathSet's m_Paths, keyed by (upstream, RXID)
    created,   \* the hops and paths that have been put or added
    expired,   \* the hops and paths whose Expired(now) holds
    logic,     \* the logic thread: "idle", "ctx" or "set" (in an expiry pass)
    removed,   \* the handler's removedPaths queue
    ingress,   \* path ids of the messages in the handler's outboundQueue
    queues     \* path ids that have a queue in outboundMessageQueues

vars == <<transit, owned, paths, created, expired, logic, removed, ingress,
          queues>>

Range(s) == {s[i] : i \in 1..Len(s)}

\* The key of a path in PathSet::m_Paths.
PathKey(p) == <<Upstream[p], RxID[p]>>

Init ==
    /\ transit = {}
    /\ owned = {}
    /\ paths = {}
    /\ created = {}
    /\ expired = {}
    /\ logic = "idle"
    /\ removed = <<>>
    /\ ingress = {}
    /\ queues = {}

-----------------------------------------------------------------------------
(* Lookups, as the sets of entries the multimap loops may return: the     *)
(* iteration order of an unordered_multimap is unspecified.               *)

\* MapGet: the values under key k; the caller keeps those that pass its check.
MapGet(map, k) == {x[2] : x \in {e \in map : e[1] = k}}

\* GetByUpstream: an own path under id, whatever its upstream; otherwise a
\* transit hop under id whose upstream is remote.
GetByUpstream(remote, id) ==
    IF MapGet(owned, id) # {} THEN MapGet(owned, id)
    ELSE {h \in MapGet(transit, id) : Upstream[h] = remote}

\* GetByDownstream: a transit hop under id whose downstream is remote.
GetByDownstream(remote, id) == {h \in MapGet(transit, id) : Downstream[h] = remote}

\* GetPathForTransfer: a transit hop under id that ends here.
GetPathForTransfer(id) == {h \in MapGet(transit, id) : Upstream[h] = Us}

\* PathSet::GetPathByID: the path of m_Paths whose RXID is id.
GetPathByID(id) == {p \in paths : RxID[p] = id}

\* GetLocalPathSet finds the PathSet of an own path under id in m_OurPaths
\* (the model has one PathSet).
GetLocalPathSet(id) == MapGet(owned, id) # {}

\* GetHandler: the PathSet's path by id when m_OurPaths knows the id and
\* the set still has it; otherwise a transit hop under id that ends here.
GetHandler(id) ==
    IF GetLocalPathSet(id) /\ GetPathByID(id) # {} THEN GetPathByID(id)
    ELSE GetPathForTransfer(id)

-----------------------------------------------------------------------------
(* The handler's side.                                                     *)

\* QueueRemoveEmptyPath: removedPaths.pushBack(pathid), which waits while
\* the queue is full.
PushRemoved(id) ==
    /\ Len(removed) < RemovedPathsCap
    /\ removed' = Append(removed, id)

\* QueueOutboundMessage: a message tagged with the id of a path that has
\* not expired enters outboundQueue. Relayed traffic is tagged with a
\* hop's txID or rxID, the traffic of an own path with its TXID.
QueuePathMessage(id) ==
    /\ logic = "idle"
    /\ \/ \E e \in transit : e[1] = id /\ e[2] \notin expired
       \/ \E p \in paths \ expired : TxID[p] = id
    /\ ingress' = ingress \cup {id}
    /\ UNCHANGED <<transit, owned, paths, created, expired, logic, removed,
                   queues>>

\* Tick: ProcessOutboundQueue gives every queued id a queue, then
\* RemoveEmptyPathQueues pops every id of removedPaths and erases its queue.
RemoveEmptyPathQueues ==
    /\ queues' = (queues \cup ingress) \ Range(removed)
    /\ removed' = <<>>

OmhTick ==
    /\ logic = "idle"
    /\ RemoveEmptyPathQueues
    /\ ingress' = {}
    /\ UNCHANGED <<transit, owned, paths, created, expired, logic>>

-----------------------------------------------------------------------------
(* PathContext and PathSet.                                                *)

\* PutTransitHop: one MapPut under txID and one under rxID.
PutTransitHop(h) ==
    /\ logic = "idle" /\ h \in Hops \ created
    /\ transit' = transit \cup {<<TxID[h], h>>, <<RxID[h], h>>}
    /\ created' = created \cup {h}
    /\ UNCHANGED <<owned, paths, expired, logic, removed, ingress, queues>>

\* PathSet::AddPath: emplace under (upstream, RXID); a duplicate key is
\* logged and the set is left as it was.
AddPath(p) ==
    paths' = IF \E q \in paths : PathKey(q) = PathKey(p) THEN paths
             ELSE paths \cup {p}

\* Variant: the path is put in m_OurPaths under its TXID only.
AddOwnPathTxOnly(p) ==
    /\ logic = "idle" /\ p \in OwnPaths \ created
    /\ AddPath(p)
    /\ owned' = owned \cup {<<TxID[p], p>>}
    /\ created' = created \cup {p}
    /\ UNCHANGED <<transit, expired, logic, removed, ingress, queues>>

\* AddOwnPath: set->AddPath, then MapPut under TXID and under RXID.
AddOwnPath(p) ==
    /\ logic = "idle" /\ p \in OwnPaths \ created
    /\ AddPath(p)
    /\ owned' = owned \cup {<<TxID[p], p>>, <<RxID[p], p>>}
    /\ created' = created \cup {p}
    /\ UNCHANGED <<transit, expired, logic, removed, ingress, queues>>

\* PathSet::RemovePath: erase the entry under the path's key. m_OurPaths
\* keeps the path until it expires.
RemovePath(p) ==
    /\ logic = "idle" /\ p \in OwnPaths \cap created
    /\ paths' = {q \in paths : PathKey(q) # PathKey(p)}
    /\ UNCHANGED <<transit, owned, created, expired, logic, removed, ingress,
                   queues>>

\* Time passes between two events of the logic thread: a hop or path
\* reaches started + lifetime.
Expire(x) ==
    /\ logic = "idle" /\ x \in created \ expired
    /\ expired' = expired \cup {x}
    /\ UNCHANGED <<transit, owned, paths, created, logic, removed, ingress,
                   queues>>

\* PathContext::ExpirePaths, entered with m_TransitPaths locked.
StartExpirePaths ==
    /\ logic = "idle"
    /\ logic' = "ctx"
    /\ UNCHANGED <<transit, owned, paths, created, expired, removed, ingress,
                   queues>>

\* Variant: every entry of the hop pushes the hop's txID, not the key.
ExpireTransitEntryTxOnly(e) ==
    /\ logic = "ctx" /\ e \in transit /\ e[2] \in expired
    /\ PushRemoved(TxID[e[2]])
    /\ transit' = transit \ {e}
    /\ UNCHANGED <<owned, paths, created, expired, logic, ingress, queues>>

\* One expired entry: QueueRemoveEmptyPath(itr->first), then erase.
ExpireTransitEntry(e) ==
    /\ logic = "ctx" /\ e \in transit /\ e[2] \in expired
    /\ PushRemoved(e[1])
    /\ transit' = transit \ {e}
    /\ UNCHANGED <<owned, paths, created, expired, logic, ingress, queues>>

\* Variant: the loop erases and then also advances, skipping entries.
FinishExpirePathsSkips ==
    /\ logic = "ctx"
    /\ owned' = {e \in owned : e[2] \notin expired}
    /\ logic' = "idle"
    /\ UNCHANGED <<transit, paths, created, expired, removed, ingress, queues>>

\* The loop has passed every entry; then m_OurPaths loses its expired
\* entries, with no notification to the handler.
FinishExpirePaths ==
    /\ logic = "ctx" /\ \A e \in transit : e[2] \notin expired
    /\ owned' = {e \in owned : e[2] \notin expired}
    /\ logic' = "idle"
    /\ UNCHANGED <<transit, paths, created, expired, removed, ingress, queues>>

\* PathSet::ExpirePaths: returns at once when m_Paths is empty.
StartPathSetExpire ==
    /\ logic = "idle" /\ paths # {}
    /\ logic' = "set"
    /\ UNCHANGED <<transit, owned, paths, created, expired, removed, ingress,
                   queues>>

\* One expired path: QueueRemoveEmptyPath(TXID()), then erase.
ExpirePathSetEntry(p) ==
    /\ logic = "set" /\ p \in paths \cap expired
    /\ PushRemoved(TxID[p])
    /\ paths' = paths \ {p}
    /\ UNCHANGED <<transit, owned, created, expired, logic, ingress, queues>>

FinishPathSetExpire ==
    /\ logic = "set" /\ paths \cap expired = {}
    /\ logic' = "idle"
    /\ UNCHANGED <<transit, owned, paths, created, expired, removed, ingress,
                   queues>>

Next ==
    \/ \E h \in Hops : PutTransitHop(h)
    \/ \E p \in OwnPaths : AddOwnPath(p) \/ RemovePath(p)
    \/ \E x \in Objs : Expire(x)
    \/ StartExpirePaths
    \/ \E e \in transit : ExpireTransitEntry(e)
    \/ FinishExpirePaths
    \/ StartPathSetExpire
    \/ \E p \in paths : ExpirePathSetEntry(p)
    \/ FinishPathSetExpire
    \/ \E id \in Ids : QueuePathMessage(id)
    \/ OmhTick

Spec == Init /\ [][Next]_vars

-----------------------------------------------------------------------------
(* Properties.                                                             *)

\* The logic thread is inside an expiry pass, the next erase must first
\* push an id, and removedPaths is full.
Blocked ==
    /\ Len(removed) = RemovedPathsCap
    /\ \/ logic = "ctx" /\ \E e \in transit : e[2] \in expired
       \/ logic = "set" /\ paths \cap expired # {}

\* spec.md: the logic context never blocks; all waiting is a deferred
\* callback. ExpirePaths calls QueueRemoveEmptyPath, a blocking pushBack,
\* on the logic thread that alone runs the Tick that empties the queue.
LogicThreadNeverBlocks == ~Blocked

\* Between two passes, every transit hop is found through both of its
\* ids or through neither: GetByUpstream finds it under txID exactly when
\* GetByDownstream finds it under rxID. ExpirePaths erases the two entries
\* one at a time and must not stop between them.
HopFoundBothWays ==
    logic = "idle" =>
        \A h \in Hops :
            (h \in GetByUpstream(Upstream[h], TxID[h]))
                <=> (h \in GetByDownstream(Downstream[h], RxID[h]))

\* A routing message for a path that has not expired finds its handler:
\* GetHandler, through m_OurPaths and then the PathSet's m_Paths, returns
\* exactly the own path for its RXID, and a transit hop that ends here is
\* found under both of its ids. The two maps of an own path are filled by
\* AddOwnPath and emptied by two separate expiry passes.
HandlerFoundForLivePaths ==
    /\ \A p \in paths \ expired : GetHandler(RxID[p]) = {p}
    /\ \A h \in (created \cap Hops) \ expired :
          Upstream[h] = Us => h \in GetHandler(TxID[h]) \cap GetHandler(RxID[h])

\* The ids that still name a path: keys of m_TransitPaths or m_OurPaths,
\* and the TXIDs of the PathSet's paths.
LiveIds == {e[1] : e \in transit \cup owned} \cup {TxID[p] : p \in paths}

TransitIds == {TxID[h] : h \in Hops} \cup {RxID[h] : h \in Hops}

\* A handler queue that must still be erased: its path is in no map and no
\* removal for it is waiting in removedPaths.
Orphaned(id) == id \notin LiveIds /\ id \notin Range(removed)

\* spec.md: a queued message is abandoned when its path disappears, via
\* the empty-path-queue removal. Between two passes, no handler queue of a
\* transit id is orphaned: ExpirePaths pushes every key it erases.
TransitQueuesFollowHops ==
    logic = "idle" => \A id \in (queues \cup ingress) \cap TransitIds : ~Orphaned(id)
=============================================================================
