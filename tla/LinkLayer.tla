----------------------------- MODULE LinkLayer ------------------------------
(***************************************************************************)
(* The session maps of one ILinkLayer (src/llarp/link/server.cpp): the     *)
(* pending sessions, keyed by remote address (m_Pending), the authed ones, *)
(* keyed by the remote router's key (m_AuthedLinks), and the addresses of  *)
(* recently closed sessions (m_RecentlyClosed) with their expiry time.     *)
(* A session is an object in one of the slots Sess; its handshake is abstracted to one *)
(* step, Establish, at which its LIM handler runs and calls MapAddr.  Each *)
(* address belongs to one remote router, Owner[a]; a router may listen on  *)
(* several addresses.                                                      *)
(*                                                                         *)
(* Time counts LINK_LAYER_TICK_INTERVAL (100 ms) units: OnTick runs once   *)
(* per unit.  Session::TimedOut is a free choice: a session may time out   *)
(* whenever its peer falls silent.                                         *)
(***************************************************************************)
EXTENDS Integers, FiniteSets

CONSTANTS
    Sess,                   \* session objects that may be created
    Addrs,                  \* remote UDP endpoints
    Owner,                  \* Owner[a]: the router key listening on a
    MaxSessionsPerKey,      \* server.cpp:14
    MaxSessionsPerEndpoint, \* PutSession
    CloseGraceWindow        \* CloseSessionTo, in tick units

ASSUME /\ MaxSessionsPerKey \in Nat \ {0}
       /\ MaxSessionsPerEndpoint \in Nat \ {0}
       /\ CloseGraceWindow \in Nat

Keys == {Owner[a] : a \in Addrs}
NoExpiry == -1
AnyAddr == CHOOSE a \in Addrs : TRUE   \* the address field of a free slot

VARIABLES
    sst,        \* "free" (no object in this slot), "handshake", "ready", "closed"
    dir,        \* "out" (TryEstablishTo) or "in" (RecvFrom)
    addr,       \* GetRemoteEndpoint
    lim,        \* the session's LIM handler has run
    pending,    \* sessions in m_Pending
    authed,     \* sessions in m_AuthedLinks
    recently,   \* m_RecentlyClosed: address -> expiry, or NoExpiry
    now,        \* Now(), in ticks
    graceEnd,   \* history: end of the latest grace window of each address
    ticking     \* the OnTick timer is scheduled (Stop removes it)

vars == <<sst, dir, addr, lim, pending, authed, recently, now, graceEnd,
          ticking>>

KeyOf(s) == Owner[addr[s]]
AuthedTo(k) == {s \in authed : KeyOf(s) = k}
PendingAt(a) == {s \in pending : addr[s] = a}

Init ==
    /\ sst = [s \in Sess |-> "free"]
    /\ dir = [s \in Sess |-> "out"]
    /\ addr = [s \in Sess |-> AnyAddr]
    /\ lim = [s \in Sess |-> FALSE]
    /\ pending = {} /\ authed = {}
    /\ recently = [a \in Addrs |-> NoExpiry]
    /\ now = 0
    /\ graceEnd = [a \in Addrs |-> 0]
    /\ ticking = TRUE

\* A new session object in the free slot s, at address a, enters m_Pending.
NewSession(s, a, d) ==
    /\ sst[s] = "free"
    /\ sst' = [sst EXCEPT ![s] = "handshake"]
    /\ dir' = [dir EXCEPT ![s] = d]
    /\ addr' = [addr EXCEPT ![s] = a]
    /\ lim' = [lim EXCEPT ![s] = FALSE]
    /\ pending' = pending \cup {s}

\* PutSession: refuse a sixth session at one endpoint.
PutSession(s, a) ==
    /\ Cardinality(PendingAt(a)) < MaxSessionsPerEndpoint
    /\ NewSession(s, a, "out")

\* TryEstablishTo(rc): per-key cap on the authed sessions, per-address cap
\* on the pending ones, then PutSession and Start.
TryEstablishTo(s, a) ==
    /\ Cardinality(AuthedTo(Owner[a])) < MaxSessionsPerKey
    /\ Cardinality(PendingAt(a)) < MaxSessionsPerKey
    /\ PutSession(s, a)
    /\ UNCHANGED <<authed, recently, now, graceEnd, ticking>>

\* Variant: RecvFrom that opens a session beside an existing one.
RecvFromAnyAddr(s, a) ==
    /\ recently[a] = NoExpiry
    /\ NewSession(s, a, "in")
    /\ UNCHANGED <<authed, recently, now, graceEnd, ticking>>

\* udp_tick drops packets from recently closed addresses; RecvFrom creates
\* an inbound session for an address that has none.
RecvFrom(s, a) ==
    /\ recently[a] = NoExpiry
    /\ \A t \in pending \cup authed : addr[t] # a
    /\ NewSession(s, a, "in")
    /\ UNCHANGED <<authed, recently, now, graceEnd, ticking>>

\* MapAddr(pk, s): m_Pending.find(addr) yields some pending session at s's
\* address; over the cap s is closed, else that session moves to authed.
MapAddr(s) ==
    IF PendingAt(addr[s]) = {}
    THEN UNCHANGED <<pending, authed>>
    ELSE \E t \in PendingAt(addr[s]) :
           IF Cardinality(AuthedTo(KeyOf(s))) > MaxSessionsPerKey
           THEN UNCHANGED <<pending, authed>>
           ELSE /\ authed' = authed \cup {t}
                /\ pending' = pending \ {t}

\* Whether MapAddr closes s: the cap test, when a pending entry is found.
MapAddrCloses(s) ==
    PendingAt(addr[s]) # {} /\ Cardinality(AuthedTo(KeyOf(s))) > MaxSessionsPerKey

\* The LIM handler (GotInboundLIM, or GotOutboundLIM's completion handler)
\* sets Ready and calls MapAddr, whatever m_State was.
Establish(s) ==
    /\ s \in pending \cup authed /\ ~lim[s]
    /\ lim' = [lim EXCEPT ![s] = TRUE]
    /\ sst' = [sst EXCEPT ![s] = IF MapAddrCloses(s) THEN "closed" ELSE "ready"]
    /\ MapAddr(s)
    /\ UNCHANGED <<dir, addr, recently, now, graceEnd, ticking>>

\* Session::Close on a CLOS from the peer or a local failure: the session
\* stays in its map until Pump finds it timed out.
Close(s) ==
    /\ s \in pending \cup authed /\ sst[s] # "closed"
    /\ sst' = [sst EXCEPT ![s] = "closed"]
    /\ UNCHANGED <<dir, addr, lim, pending, authed, recently, now, graceEnd,
                   ticking>>

\* The last reference to the session objects S is dropped: their slots
\* are free again.
Release(S) ==
    /\ sst' = [s \in Sess |-> IF s \in S THEN "free" ELSE sst[s]]
    /\ dir' = [s \in Sess |-> IF s \in S THEN "out" ELSE dir[s]]
    /\ addr' = [s \in Sess |-> IF s \in S THEN AnyAddr ELSE addr[s]]
    /\ lim' = [s \in Sess |-> IF s \in S THEN FALSE ELSE lim[s]]

\* ILinkLayer::Pump: a timed-out authed session is closed and erased.
AuthedTimeout(s) ==
    /\ s \in authed
    /\ authed' = authed \ {s}
    /\ Release({s})
    /\ UNCHANGED <<pending, recently, now, graceEnd, ticking>>

\* ILinkLayer::Pump: a timed-out pending session is erased (HandleTimeout).
PendingTimeout(s) ==
    /\ s \in pending
    /\ pending' = pending \ {s}
    /\ Release({s})
    /\ UNCHANGED <<authed, recently, now, graceEnd, ticking>>

\* CloseSessionTo(k): close and erase every authed session to k and put its
\* address in m_RecentlyClosed (emplace keeps an existing entry).
CloseSessionTo(k) ==
    LET gone == AuthedTo(k)   \* closed, erased and freed
        addrs == {addr[s] : s \in gone}
    IN /\ gone # {}
       /\ authed' = authed \ gone
       /\ Release(gone)
       /\ recently' = [a \in Addrs |->
                         IF a \in addrs /\ recently[a] = NoExpiry
                         THEN now + CloseGraceWindow ELSE recently[a]]
       /\ graceEnd' = [a \in Addrs |->
                         IF a \in addrs THEN now + CloseGraceWindow
                         ELSE graceEnd[a]]
       /\ UNCHANGED <<pending, now, ticking>>

\* Stop: remove the tick timer and Close every session in both maps; the
\* sessions stay in the maps.
Stop ==
    /\ ticking
    /\ ticking' = FALSE
    /\ sst' = [s \in Sess |-> IF s \in pending \cup authed THEN "closed" ELSE sst[s]]
    /\ UNCHANGED <<dir, addr, lim, pending, authed, recently, now, graceEnd>>

\* OnTick -> Tick(now): decay m_RecentlyClosed.  The sessions' own Tick is
\* IwpSession's business.
Decayed(e, t) == e # NoExpiry /\ e >= t

OnTick ==
    /\ ticking
    /\ now' = now + 1
    /\ recently' = [a \in Addrs |->
                      IF Decayed(recently[a], now') THEN NoExpiry ELSE recently[a]]
    /\ UNCHANGED <<sst, dir, addr, lim, pending, authed, graceEnd, ticking>>

Next ==
    \/ OnTick
    \/ Stop
    \/ \E s \in Sess, a \in Addrs : TryEstablishTo(s, a) \/ RecvFrom(s, a)
    \/ \E s \in Sess :
          Establish(s) \/ Close(s) \/ AuthedTimeout(s) \/ PendingTimeout(s)
    \/ \E k \in Keys : CloseSessionTo(k)

Spec == Init /\ [][Next]_vars

-----------------------------------------------------------------------------

TypeOK ==
    /\ sst \in [Sess -> {"free", "handshake", "ready", "closed"}]
    /\ dir \in [Sess -> {"out", "in"}]
    /\ addr \in [Sess -> Addrs]
    /\ lim \in [Sess -> BOOLEAN]
    /\ pending \subseteq Sess /\ authed \subseteq Sess
    /\ recently \in [Addrs -> {NoExpiry} \cup Nat]
    /\ now \in Nat /\ graceEnd \in [Addrs -> Nat] /\ ticking \in BOOLEAN
    /\ \A a \in Addrs : Cardinality(PendingAt(a)) <= MaxSessionsPerEndpoint

\* The per-key cap (spec 8, "session cap invariant"): MapAddr never leaves
\* more than MaxSessionsPerKey authed sessions to one router.
SessionCapHolds ==
    \A k \in Keys : Cardinality(AuthedTo(k)) <= MaxSessionsPerKey

\* Only a session whose LIM handler ran is promoted to m_AuthedLinks.
AuthedAreEstablished == \A s \in authed : lim[s]

\* A packet from an address closed by CloseSessionTo less than
\* CloseGraceWindow ago does not open a new session (m_RecentlyClosed).
GraceWindowHonoured ==
    [][\A s \in Sess :
         (sst[s] = "free" /\ sst'[s] = "handshake" /\ dir'[s] = "in")
            => now >= graceEnd[addr'[s]]]_vars
=============================================================================
