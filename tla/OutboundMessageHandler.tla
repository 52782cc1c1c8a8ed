------------------------ MODULE OutboundMessageHandler -----------------------
(***************************************************************************)
(* OutboundMessageHandler (src/llarp/router/outbound_message_handler.cpp).  *)
(* Messages Msgs are handed in by QueueMessage.  Each has a destination     *)
(* router Dest[m] and a path id PathOf[m] (Zero for a message on no path). *)
(* A message to a router with a session goes through the bounded ingress   *)
(* queue (outboundQueue) into a per-path queue and is sent by Tick's round *)
(* robin; one to a router without a session waits in a per-router pending  *)
(* queue until the session maker reports the outcome of CreateSessionTo.   *)
(*                                                                         *)
(* The link manager and the session maker are not in this tree; they are  *)
(* modelled by their contract: SendTo succeeds only when a session to the  *)
(* router exists and its send queue is not full (ILinkLayer::SendTo,       *)
(* Session::SendMessageBuffer), and a session request is answered once.    *)
(* A message accepted by a session eventually completes, and the completion*)
(* handler posts the caller's callback.                                    *)
(***************************************************************************)
EXTENDS Integers, Sequences, FiniteSets

CONSTANTS
    Msgs,               \* the messages handed to QueueMessage
    Routers,            \* remote routers
    Paths,              \* path ids, Zero included
    Zero,               \* zeroID: the queue of messages on no path
    Dest,               \* Dest[m]: the RouterID m is sent to
    PathOf,             \* PathOf[m]: msg->pathid
    MaxQueueSize,       \* capacity of outboundQueue
    MaxPathQueueSize,   \* MAX_PATH_QUEUE_SIZE
    MaxOutboundPerTick, \* MAX_OUTBOUND_MESSAGES_PER_TICK
    RemovedPathsCap     \* capacity of removedPaths (20 in the constructor)

ASSUME /\ Zero \in Paths
       /\ \A m \in Msgs : Dest[m] \in Routers /\ PathOf[m] \in Paths
       /\ {MaxQueueSize, MaxPathQueueSize, MaxOutboundPerTick,
           RemovedPathsCap} \subseteq Nat \ {0}

VARIABLES
    stage,      \* where each message is, see Stages
    cb,         \* cb[m]: how many times m's callback was posted (DoCallback)
    why,        \* how a message left without being sent: observer only
    ingress,    \* outboundQueue
    pathQ,      \* outboundMessageQueues: the queue of each path
    qkeys,      \* the paths that have an entry in outboundMessageQueues
    rr,         \* roundRobinOrder
    removed,    \* removedPaths
    removedSome,\* removedSomePaths
    pend,       \* pendingSessionMessageQueues: the queue of each router
    pkeys,      \* the routers that have an entry there
    reqs,       \* reqs[r]: CreateSessionTo(r) calls not answered yet
    session     \* session[r]: the link manager has a session to r

vars == <<stage, cb, why, ingress, pathQ, qkeys, rr, removed, removedSome,
          pend, pkeys, reqs, session>>

\* "nosess": QueueMessage saw no session and has not yet taken _mutex.
Stages == {"idle", "nosess", "pending", "ingress", "pathq", "link", "gone"}
Range(s) == {s[i] : i \in 1 .. Len(s)}

Init ==
    /\ stage = [m \in Msgs |-> "idle"]
    /\ cb = [m \in Msgs |-> 0]
    /\ why = [m \in Msgs |-> "none"]
    /\ ingress = <<>>
    /\ pathQ = [p \in Paths |-> <<>>]
    /\ qkeys = {Zero}                    \* Init emplaces zeroID
    /\ rr = <<>>
    /\ removed = <<>> /\ removedSome = FALSE
    /\ pend = [r \in Routers |-> <<>>] /\ pkeys = {}
    /\ reqs = [r \in Routers |-> 0]
    /\ session \in [Routers -> BOOLEAN]

\* SendTo's result for m while the routers in full have a full send queue:
\* the link takes m only when a session exists and has room.
Accepts(m, full) == session'[Dest[m]] /\ Dest[m] \notin full

-----------------------------------------------------------------------------
(* QueueMessage(remote, msg, callback).                                    *)

\* Variant: the queue accepts a push while it holds MaxQueueSize entries.
QueueMessageDirectOffByOne(m) ==
    /\ stage[m] = "idle" /\ session[Dest[m]]
    /\ IF Len(ingress) <= MaxQueueSize
       THEN /\ ingress' = Append(ingress, m)
            /\ stage' = [stage EXCEPT ![m] = "ingress"]
            /\ UNCHANGED cb
       ELSE /\ stage' = [stage EXCEPT ![m] = "gone"]
            /\ cb' = [cb EXCEPT ![m] = @ + 1]
            /\ UNCHANGED ingress
    /\ UNCHANGED <<why, pathQ, qkeys, rr, removed, removedSome, pend, pkeys,
                   reqs, session>>

\* Variant: the tryPushBack test inverted; Congestion is posted for a
\* message that was queued.
QueueMessageDirectInverted(m) ==
    /\ stage[m] = "idle" /\ session[Dest[m]]
    /\ IF Len(ingress) < MaxQueueSize
       THEN /\ ingress' = Append(ingress, m)
            /\ stage' = [stage EXCEPT ![m] = "ingress"]
            /\ cb' = [cb EXCEPT ![m] = @ + 1]
       ELSE /\ stage' = [stage EXCEPT ![m] = "gone"]
            /\ UNCHANGED <<cb, ingress>>
    /\ UNCHANGED <<why, pathQ, qkeys, rr, removed, removedSome, pend, pkeys,
                   reqs, session>>

\* HasSessionTo(remote) holds: QueueOutboundMessage pushes to outboundQueue,
\* or posts Congestion when it is full.
QueueMessageDirect(m) ==
    /\ stage[m] = "idle" /\ session[Dest[m]]
    /\ IF Len(ingress) < MaxQueueSize
       THEN /\ ingress' = Append(ingress, m)
            /\ stage' = [stage EXCEPT ![m] = "ingress"]
            /\ UNCHANGED cb
       ELSE /\ stage' = [stage EXCEPT ![m] = "gone"]
            /\ cb' = [cb EXCEPT ![m] = @ + 1]
            /\ UNCHANGED ingress
    /\ UNCHANGED <<why, pathQ, qkeys, rr, removed, removedSome, pend, pkeys,
                   reqs, session>>

\* HasSessionTo(remote) is false; the rest runs after _mutex is taken.
QueueMessageNoSession(m) ==
    /\ stage[m] = "idle" /\ ~session[Dest[m]]
    /\ stage' = [stage EXCEPT ![m] = "nosess"]
    /\ UNCHANGED <<cb, why, ingress, pathQ, qkeys, rr, removed, removedSome,
                   pend, pkeys, reqs, session>>

\* Variant: shouldCreateSession ignored; no session is ever requested.
QueueMessagePendingNoRequest(m) ==
    LET r == Dest[m]
    IN /\ stage[m] = "nosess"
       /\ stage' = [stage EXCEPT ![m] = "pending"]
       /\ pend' = [pend EXCEPT ![r] = Append(IF r \notin pkeys THEN <<>> ELSE @, m)]
       /\ pkeys' = pkeys \cup {r}
       /\ UNCHANGED <<cb, why, ingress, pathQ, qkeys, rr, removed,
                      removedSome, session, reqs>>

\* Under _mutex: emplace the router's pending queue and push m; the call
\* that created the queue then calls QueueSessionCreation.
QueueMessagePending(m) ==
    LET r == Dest[m]
        created == r \notin pkeys
    IN /\ stage[m] = "nosess"
       /\ stage' = [stage EXCEPT ![m] = "pending"]
       /\ pend' = [pend EXCEPT ![r] = Append(IF created THEN <<>> ELSE @, m)]
       /\ pkeys' = pkeys \cup {r}
       /\ reqs' = [reqs EXCEPT ![r] = IF created THEN @ + 1 ELSE @]
       /\ UNCHANGED <<cb, why, ingress, pathQ, qkeys, rr, removed,
                      removedSome, session>>

-----------------------------------------------------------------------------
(* The session maker's answer and FinalizeSessionRequest.                  *)

\* OnSessionResult(router, result) -> FinalizeSessionRequest: take the
\* router's pending queue out under _mutex; on success Send each message
\* (its result is ignored), otherwise post the failure to each callback.
SessionResult(r) ==
    \E ok \in BOOLEAN, full \in SUBSET Routers :
      LET moved == IF r \in pkeys THEN Range(pend[r]) ELSE {}
          sent(m) == ok /\ Accepts(m, full)
      IN /\ reqs[r] > 0
         /\ reqs' = [reqs EXCEPT ![r] = @ - 1]
         /\ session' = [session EXCEPT ![r] = ok \/ @]
         /\ pend' = [pend EXCEPT ![r] = <<>>]
         /\ pkeys' = pkeys \ {r}
         /\ stage' = [m \in Msgs |-> IF m \notin moved THEN stage[m]
                                     ELSE IF sent(m) THEN "link" ELSE "gone"]
         /\ cb' = [m \in Msgs |-> IF m \in moved /\ ~ok THEN cb[m] + 1
                                  ELSE cb[m]]
         /\ why' = [m \in Msgs |-> IF m \in moved /\ ok /\ ~sent(m)
                                   THEN "refused" ELSE why[m]]
         /\ UNCHANGED <<ingress, pathQ, qkeys, rr, removed, removedSome>>

-----------------------------------------------------------------------------
(* Tick: ProcessOutboundQueue, RemoveEmptyPathQueues, SendRoundRobin, one   *)
(* step of the logic thread.  The loops are recursive operators over a     *)
(* record of the queues they change.                                       *)

\* ProcessOutboundQueue: move each entry of outboundQueue to its path's
\* queue, emplacing the queue (and a round-robin slot for a non-zero path)
\* the first time the path is seen, and head-dropping a full queue.
RECURSIVE ProcessOutboundQueue(_, _)
ProcessOutboundQueue(in, st) ==
    IF in = <<>> THEN st
    ELSE LET m == Head(in)
             p == PathOf[m]
             new == p \notin st.keys
             q == IF new THEN <<>> ELSE st.q[p]
             drop == Len(q) >= MaxPathQueueSize
         IN ProcessOutboundQueue(Tail(in),
              [keys |-> st.keys \cup {p},
               q |-> [st.q EXCEPT ![p] = Append(IF drop THEN Tail(q) ELSE q, m)],
               rr |-> IF new /\ p # Zero THEN Append(st.rr, p) ELSE st.rr,
               dropped |-> IF drop THEN st.dropped \cup {Head(q)}
                           ELSE st.dropped])

\* The loop of SendRoundRobin over the n round-robin slots: take the head
\* path, send one message of its queue if it has one, rotate it to the back;
\* stop at the budget or after n empty queues in a row.
RECURSIVE RoundRobin(_, _)
RoundRobin(st, n) ==
    IF st.count >= MaxOutboundPerTick THEN st
    ELSE LET p == Head(st.rr)
             rot == Append(Tail(st.rr), p)
         IN IF st.q[p] # <<>>
            THEN RoundRobin([rr |-> rot, q |-> [st.q EXCEPT ![p] = Tail(@)],
                             out |-> Append(st.out, Head(st.q[p])),
                             count |-> st.count + 1, empty |-> 0], n)
            ELSE IF st.empty + 1 = n
                 THEN [st EXCEPT !.rr = rot, !.empty = @ + 1]
                 ELSE RoundRobin([st EXCEPT !.rr = rot, !.empty = @ + 1], n)

\* Variant: the removedSomePaths filter keeps the slots whose queue is gone.
SendRoundRobinInvertedFilter(st, some) ==
    LET order == IF some THEN SelectSeq(st.rr, LAMBDA p : p \notin st.keys)
                 ELSE st.rr
        n == Len(order)
        start == [rr |-> order, q |-> [st.q EXCEPT ![Zero] = <<>>],
                  out |-> <<>>, count |-> 0, empty |-> 0]
        done == IF n = 0 THEN start ELSE RoundRobin(start, n)
    IN [keys |-> st.keys \cup {Zero} \cup Range(order),
        q |-> done.q, rr |-> done.rr,
        out |-> Range(st.q[Zero]) \cup Range(done.out)]

\* SendRoundRobin: drain the Zero queue first, drop round-robin slots of
\* erased queues if RemoveEmptyPathQueues erased any, then run the loop.
\* outboundMessageQueues[pathid] re-creates the entry of every visited path.
SendRoundRobin(st, some) ==
    LET order == IF some THEN SelectSeq(st.rr, LAMBDA p : p \in st.keys)
                 ELSE st.rr
        n == Len(order)
        start == [rr |-> order, q |-> [st.q EXCEPT ![Zero] = <<>>],
                  out |-> <<>>, count |-> 0, empty |-> 0]
        done == IF n = 0 THEN start ELSE RoundRobin(start, n)
    IN [keys |-> st.keys \cup {Zero} \cup Range(order),
        q |-> done.q, rr |-> done.rr,
        out |-> Range(st.q[Zero]) \cup Range(done.out)]

\* RemoveEmptyPathQueues: erase the queue of every path in removedPaths;
\* the messages still in them are abandoned.
RemoveEmptyPathQueues(st, ids) ==
    LET gone == Range(ids) \cap st.keys
    IN [keys |-> st.keys \ gone, rr |-> st.rr, dropped |-> st.dropped,
        q |-> [p \in Paths |-> IF p \in gone THEN <<>> ELSE st.q[p]],
        erased |-> UNION {Range(st.q[p]) : p \in gone}]

\* OutboundMessageHandler::Tick.  Each recursive result is bound once.
Tick ==
    \E d \in {ProcessOutboundQueue(ingress, [keys |-> qkeys, q |-> pathQ,
                                             rr |-> rr, dropped |-> {}])} :
    \E k \in {RemoveEmptyPathQueues(d, removed)} :
    \E s \in {SendRoundRobin(k, removed # <<>>)} :
    \E full \in SUBSET Routers :
      LET fate(m) == CASE m \in s.out /\ Accepts(m, full) -> "link"
                       [] m \in s.out -> "refused"
                       [] m \in k.dropped -> "headdrop"
                       [] m \in k.erased -> "pathgone"
                       [] OTHER -> "queued"
      IN /\ UNCHANGED <<cb, pend, pkeys, reqs, session>>
         /\ ingress' = <<>>
         /\ qkeys' = s.keys /\ pathQ' = s.q /\ rr' = s.rr
         /\ removed' = <<>> /\ removedSome' = (removed # <<>>)
         /\ stage' = [m \in Msgs |->
                        IF stage[m] \notin {"ingress", "pathq"} THEN stage[m]
                        ELSE CASE fate(m) = "link" -> "link"
                               [] fate(m) = "queued" -> "pathq"
                               [] OTHER -> "gone"]
         /\ why' = [m \in Msgs |->
                      IF stage[m] \in {"ingress", "pathq"}
                         /\ fate(m) \notin {"link", "queued"}
                      THEN fate(m) ELSE why[m]]

\* QueueRemoveEmptyPath(pathid): path expiry posts the id; pushBack blocks
\* while removedPaths is full.
QueueRemoveEmptyPath(p) ==
    /\ p # Zero /\ Len(removed) < RemovedPathsCap
    /\ removed' = Append(removed, p)
    /\ UNCHANGED <<stage, cb, why, ingress, pathQ, qkeys, rr, removedSome,
                   pend, pkeys, reqs, session>>

-----------------------------------------------------------------------------
(* The link layer below.                                                   *)

\* The session's completion handler (Send's lambda): Success or Congestion
\* is posted to the caller's callback.
LinkCompleted(m) ==
    /\ stage[m] = "link"
    /\ stage' = [stage EXCEPT ![m] = "gone"]
    /\ cb' = [cb EXCEPT ![m] = @ + 1]
    /\ UNCHANGED <<why, ingress, pathQ, qkeys, rr, removed, removedSome,
                   pend, pkeys, reqs, session>>

\* A session to r comes up (an inbound session) or times out.
SessionChange(r) ==
    /\ session' = [session EXCEPT ![r] = ~@]
    /\ UNCHANGED <<stage, cb, why, ingress, pathQ, qkeys, rr, removed,
                   removedSome, pend, pkeys, reqs>>

Next ==
    \/ \E m \in Msgs :
          \/ QueueMessageDirect(m) \/ QueueMessageNoSession(m)
          \/ QueueMessagePending(m) \/ LinkCompleted(m)
    \/ \E r \in Routers : SessionResult(r) \/ SessionChange(r)
    \/ \E p \in Paths : QueueRemoveEmptyPath(p)
    \/ Tick

Spec == Init /\ [][Next]_vars

Fairness ==
    /\ WF_vars(Tick)
    /\ \A m \in Msgs : WF_vars(QueueMessagePending(m)) /\ WF_vars(LinkCompleted(m))
    /\ \A r \in Routers : WF_vars(SessionResult(r))

FairSpec == Spec /\ Fairness

-----------------------------------------------------------------------------

TypeOK ==
    /\ stage \in [Msgs -> Stages] /\ cb \in [Msgs -> Nat]
    /\ why \in [Msgs -> {"none", "headdrop", "pathgone", "refused"}]
    /\ ingress \in Seq(Msgs) /\ Len(ingress) <= MaxQueueSize
    /\ pathQ \in [Paths -> Seq(Msgs)] /\ qkeys \subseteq Paths
    /\ rr \in Seq(Paths \ {Zero}) /\ removed \in Seq(Paths)
    /\ removedSome \in BOOLEAN
    /\ pend \in [Routers -> Seq(Msgs)] /\ pkeys \subseteq Routers
    /\ reqs \in [Routers -> Nat] /\ session \in [Routers -> BOOLEAN]
    /\ \A p \in Paths : Len(pathQ[p]) <= MaxPathQueueSize

\* Every message's callback is posted at most once, whichever of
\* QueueOutboundMessage's Congestion, FinalizeSessionRequest's failure or
\* the session's completion handler posts it.
CallbackAtMostOnce == \A m \in Msgs : cb[m] <= 1

\* roundRobinOrder holds each non-zero path of outboundMessageQueues exactly
\* once (ProcessOutboundQueue's emplace, RemoveEmptyPathQueues' erase and
\* SendRoundRobin's removedSomePaths filter keep them in step): no queue is
\* left out of the rotation and none gets two turns.
RoundRobinMatchesQueues ==
    /\ \A i, j \in 1 .. Len(rr) : rr[i] = rr[j] => i = j
    /\ Range(rr) = qkeys \ {Zero}

\* A message that left the handler without being handed to a session has
\* had its callback posted, unless its path was torn down (spec 4.4:
\* messages are never silently dropped; spec 6: callers are notified).
NoSilentDrop ==
    \A m \in Msgs : stage[m] = "gone" /\ why[m] # "pathgone" => cb[m] = 1

\* Every message handed to QueueMessage leaves the handler: it reaches a
\* session, or it is answered or dropped; no queue keeps it forever.
MessagesLeaveHandler ==
    \A m \in Msgs :
        stage[m] \in {"nosess", "pending", "ingress", "pathq"}
            ~> stage[m] \in {"link", "gone"}
=============================================================================
