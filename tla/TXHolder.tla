------------------------------ MODULE TXHolder ------------------------------
(***************************************************************************)
(* The DHT's table of pending introset lookups, dht::TXHolder              *)
(* (llarp/dht/txholder.hpp) holding dht::ServiceAddressLookup transactions *)
(* (llarp/dht/serviceaddresslookup.cpp).                                   *)
(*                                                                         *)
(* tx maps the owner (peer asked, txid) of each transaction to it; waiting *)
(* is the multimap target -> owner; timeouts maps a target to its          *)
(* deadline. Only the first transaction for a target sends a request       *)
(* (NewTX starts it when no one waits on the target yet); later ones wait  *)
(* on the same target and are answered together by Inform. Peers answer   *)
(* the requests with introsets (Found), with nothing (NotFound, which may  *)
(* ask the next peer) or not at all; the context's tick runs Expire.       *)
(*                                                                         *)
(* An introset is a record: the address it is for, its timestamp T and     *)
(* whether its signature and intros verify. Time is in ticks;             *)
(* llarp_time_t is unsigned, so a difference is taken modulo TimeMod.     *)
(***************************************************************************)
EXTENDS Integers, Sequences, FiniteSets, TLC

SE == INSTANCE SequencesExt

CONSTANTS
    Askers,          \* who asked: the local handler or a remote router and txid
    Peers,           \* routers a lookup can be sent to
    Targets,         \* service addresses looked up
    IntroSets,       \* introsets a peer may answer with
    NoIntroSet,      \* the default-constructed IntroSet (T = 0)
    RequestTimeout,  \* requestTimeoutMS
    TimeMod,         \* 2^64, the range of llarp_time_t
    MaxTime,         \* bound on the clock
    MaxTx            \* bound on the txid counter

VARIABLES
    tx,        \* owner -> transaction
    waiting,   \* set of <<target, owner>>
    timeouts,  \* target -> deadline
    asked,     \* owners a request was sent to (Start)
    replies,   \* GotIntroMessages sent to askers, and handleResult calls
    lookups,   \* the lookups the context has started: [asker, target]
    ids,       \* the context's txid counter
    now

vars == <<tx, waiting, timeouts, asked, replies, lookups, ids, now>>

Owners == [node : Peers, txid : 1..MaxTx]

\* llarp_time_t subtraction.
Minus(a, b) == (a - b) % TimeMod

-----------------------------------------------------------------------------
(* ServiceAddressLookup                                                    *)

\* Mutant: Validate without the address check.
ValidateAnyTarget(v, target) == v.verifies

\* The introset verifies and is for the address looked up.
Validate(v, target) == v.verifies /\ v.addr = target

\* The newest introset found, starting from a default IntroSet (T = 0).
NewestIntroSet(found) ==
    SE!FoldLeft(LAMBDA cur, v : IF cur.T < v.T THEN v ELSE cur,
                NoIntroSet, found)

\* Mutant: reply with every introset found, not only the newest.
SendReplyAll(o, t) ==
    [owner |-> o, to |-> t.whoasked, target |-> t.target, got |-> t.valuesFound,
     offered |-> t.offered, deadline |-> timeouts[t.target], at |-> now,
     byExpire |-> FALSE]

\* Start: send the FindIntroMessage to the peer of the owner.
Start(askpeer) == asked \cup {askpeer}

\* Reply to whoasked with the newest introset found, or with none. The
\* handler (local lookups) and the GotIntroMessage see the same list.
SendReply(o, t) ==
    [owner |-> o, to |-> t.whoasked, target |-> t.target,
     got |-> IF t.valuesFound = <<>> THEN <<>>
             ELSE <<NewestIntroSet(t.valuesFound)>>,
     offered |-> t.offered, deadline |-> timeouts[t.target], at |-> now,
     byExpire |-> FALSE]

-----------------------------------------------------------------------------
(* TXHolder                                                                *)

\* Mutant: a transaction joining a target already waited on is not put in
\* waiting.
NewTXJoinNotWaiting(askpeer, whoasked, k) ==
    /\ tx' = tx @@ (askpeer :> [whoasked |-> whoasked, target |-> k,
                                valuesFound |-> <<>>, offered |-> {}])
    /\ waiting' = IF \E w \in waiting : w[1] = k THEN waiting
                  ELSE waiting \cup {<<k, askpeer>>}
    /\ timeouts' = IF k \in DOMAIN timeouts THEN timeouts
                   ELSE timeouts @@ (k :> now + RequestTimeout)
    /\ asked' = IF \E w \in waiting : w[1] = k THEN asked
                ELSE asked \cup {askpeer}

\* NewTX: record the transaction and wait on its target; set the target's
\* deadline if it has none; Start (send FindIntroMessage) only when no one
\* was waiting on the target yet.
NewTX(askpeer, whoasked, k) ==
    /\ tx' = tx @@ (askpeer :> [whoasked |-> whoasked, target |-> k,
                                valuesFound |-> <<>>, offered |-> {}])
    /\ waiting' = waiting \cup {<<k, askpeer>>}
    /\ timeouts' = IF k \in DOMAIN timeouts THEN timeouts
                   ELSE timeouts @@ (k :> now + RequestTimeout)
    /\ asked' = IF \E w \in waiting : w[1] = k THEN asked
                ELSE Start(askpeer)

\* The transaction of an owner a GotIntroMessage comes from, if pending.
HasPendingLookupFrom(o) == o \in DOMAIN tx

\* Inform every transaction waiting on the targets K: OnFound keeps the
\* values Validate accepts, then each sends its reply and is erased; the
\* targets' waiting entries and deadlines are erased. Every caller passes
\* sendreply = TRUE; Expire erases the deadline itself.
Inform(K, values, byExpire) ==
    LET ws == {w[2] : w \in {w \in waiting : w[1] \in K}} \cap DOMAIN tx
        OnFound(t) ==
            [t EXCEPT !.valuesFound =
                         @ \o SelectSeq(values, LAMBDA v : Validate(v, t.target)),
                      !.offered = @ \cup SE!ToSet(values)]
    IN
    /\ replies' = replies \cup
          {[SendReply(o, OnFound(tx[o])) EXCEPT !.byExpire = byExpire] : o \in ws}
    /\ tx' = SE!Restrict(tx, DOMAIN tx \ ws)
    /\ waiting' = {w \in waiting : w[1] \notin K}
    /\ timeouts' = SE!Restrict(timeouts, DOMAIN timeouts \ K)

\* Targets whose deadline Expire finds passed.
Expired ==
    {k \in DOMAIN timeouts : now > timeouts[k]
                             /\ Minus(now, timeouts[k]) >= RequestTimeout}

-----------------------------------------------------------------------------

Init ==
    /\ tx = <<>>
    /\ waiting = {}
    /\ timeouts = <<>>
    /\ asked = {}
    /\ replies = {}
    /\ lookups = {}
    /\ ids = 0
    /\ now = 0

\* The context looks up k for asker a through peer p: a ServiceAddressLookup
\* owned by (p, ++ids) goes to NewTX. Lookups start while the clock bound
\* leaves room for their expiry.
LookupIntroSet(a, k, p) ==
    /\ a \notin {l.asker : l \in lookups}
    /\ ids < MaxTx
    /\ now + 2 * RequestTimeout <= MaxTime
    /\ NewTX([node |-> p, txid |-> ids + 1], a, k)
    /\ lookups' = lookups \cup {[asker |-> a, target |-> k]}
    /\ ids' = ids + 1
    /\ UNCHANGED <<replies, now>>

\* A GotIntroMessage with introsets from the peer of a pending transaction:
\* Found informs every transaction waiting on its target.
Found(o, values) ==
    /\ o \in asked   \* only a peer sent a request answers
    /\ HasPendingLookupFrom(o)
    /\ Inform({tx[o].target}, values, FALSE)
    /\ UNCHANGED <<asked, lookups, ids, now>>

\* DoNextRequest: a new lookup, owned by (p, ++ids), for the same asker and
\* target, handed to NewTX (LookupIntroSetRecursive or ...Iterative).
DoNextRequest(o, p) ==
    /\ NewTX([node |-> p, txid |-> ids + 1], tx[o].whoasked, tx[o].target)
    /\ ids' = ids + 1

\* A GotIntroMessage with no introsets: NotFound asks the next peer, which
\* DoNextRequest does by a new lookup for the same asker and target, or, if
\* there is no peer left to ask, informs the waiters with nothing.
NotFound(o) ==
    /\ o \in asked   \* only a peer sent a request answers
    /\ HasPendingLookupFrom(o)
    /\ \/ /\ Inform({tx[o].target}, <<>>, FALSE)
          /\ UNCHANGED <<asked, ids>>
       \/ /\ ids < MaxTx
          /\ \E p \in Peers \ {o.node} : DoNextRequest(o, p)
          /\ UNCHANGED replies
    /\ UNCHANGED <<lookups, now>>

\* Expire: every target past its deadline by RequestTimeout is informed
\* with nothing and its deadline erased.
Expire ==
    /\ Expired # {}
    /\ Inform(Expired, <<>>, TRUE)
    /\ UNCHANGED <<asked, lookups, ids, now>>

AdvanceClock ==
    /\ now < MaxTime
    /\ now' = now + 1
    /\ UNCHANGED <<tx, waiting, timeouts, asked, replies, lookups, ids>>

Answers == UNION {SE!SetToSeqs(S) : S \in {S \in SUBSET IntroSets : Cardinality(S) \in 1..2}}

Next ==
    \/ \E a \in Askers, k \in Targets, p \in Peers : LookupIntroSet(a, k, p)
    \/ \E o \in Owners : \/ \E vs \in Answers : Found(o, vs)
                         \/ NotFound(o)
    \/ Expire
    \/ AdvanceClock

Spec == Init /\ [][Next]_vars

\* The context ticks the clock and runs Expire on every tick.
FairSpec == Spec /\ WF_vars(Expire) /\ WF_vars(AdvanceClock)

-----------------------------------------------------------------------------

TypeOK ==
    /\ DOMAIN tx \subseteq Owners
    /\ \A o \in DOMAIN tx : tx[o].target \in Targets /\ tx[o].whoasked \in Askers
    /\ waiting \subseteq Targets \X Owners
    /\ DOMAIN timeouts \subseteq Targets
    /\ asked \subseteq Owners
    /\ \A r \in replies : Len(r.got) <= 1 /\ SE!ToSet(r.got) \subseteq IntroSets
    /\ ids \in 0..MaxTx
    /\ now \in 0..MaxTime

\* Every reply SendReply sends holds the newest introset, by T, among those
\* the peers' answers delivered to its transaction that verify and are for
\* the address asked (Validate in OnFound, the loop in SendReply), or none
\* when there is no such introset, even though Inform hands one answer to
\* every transaction waiting on the target.
ReplyIsNewestValid ==
    \A r \in replies :
        LET valid == {v \in r.offered : v.verifies /\ v.addr = r.target} IN
        IF valid = {} THEN r.got = <<>>
        ELSE /\ r.got # <<>>
             /\ r.got[1] \in valid
             /\ \A v \in valid : v.T <= r.got[1].T

\* Every lookup the context starts is answered: the transactions that
\* wait on a target without sending a request, and those made by NotFound
\* for the next peer, are answered with the first one or by Expire.
LookupAnswered ==
    \A a \in Askers :
        (a \in {l.asker : l \in lookups}) ~> (\E r \in replies : r.to = a)

=============================================================================
