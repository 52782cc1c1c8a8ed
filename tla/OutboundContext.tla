-------------------------- MODULE OutboundContext --------------------------
(***************************************************************************)
(* A hidden service's outbound session, service::OutboundContext          *)
(* (service/outbound_context.cpp): which introduction of the remote        *)
(* introset it sends to (remoteIntro), which one it moves to next          *)
(* (m_NextIntro), the intros it marked bad, the introset lookups that      *)
(* refresh currentIntroSet, and the paths its builder aligns to intro      *)
(* routers.                                                                *)
(*                                                                         *)
(* Handlers call one another (MarkIntroBad calls ShiftIntroduction and     *)
(* UpdateIntroSet, SwapIntros calls ShiftIntroduction), so the intro logic *)
(* is written as operators from a context record to a context record, and *)
(* each action runs one whole handler through them and commits the result. *)
(* The random parts are inputs: the shuffle order of the intros, whether   *)
(* the builder's cooldown is hit, whether the lookup could be sent.        *)
(***************************************************************************)
EXTENDS Integers, FiniteSets, Sequences, TLC

SE == INSTANCE SequencesExt

CONSTANTS
    Routers,          \* the routers intros point at
    NoRouter,         \* the zero RouterID
    ZeroIntro,        \* a default-constructed Introduction
    InitialIntroSet,  \* the introset the context is made from
    IntroSets,        \* the introsets a lookup may return
    ExpireDelta,      \* Introduction::ExpiresSoon's dlt
    MinShiftInterval, \* MIN_SHIFT_INTERVAL
    BadIntroLifetime, \* path::default_lifetime, how long an intro stays bad
    LookupFailLimit,  \* Pump gives up after this many lookup failures (16)
    BuildFailLimit,   \* ... or this many failed last hops (10)
    MaxPaths,         \* bound: paths the builder holds at once
    MaxTime           \* bound: clock ticks

Status == {"building", "established", "timeout"}

VARIABLES
    remoteIntro,      \* the intro frames are sent to
    nextIntro,        \* m_NextIntro
    badIntros,        \* m_BadIntros: intro -> time it was marked bad
    lastShift,
    currentIntroSet,
    updatingIntroSet,
    inflight,         \* a lookup request is on the wire
    markedBad,
    lookupFails,      \* m_LookupFails
    buildFails,       \* m_BuildFails
    paths,            \* router -> status -> number of the context's paths
    convoTag,         \* currentConvoTag is set
    now

vars == <<remoteIntro, nextIntro, badIntros, lastShift, currentIntroSet,
          updatingIntroSet, inflight, markedBad, lookupFails, buildFails,
          paths, convoTag, now>>

-----------------------------------------------------------------------------
(* Introduction (service/intro.hpp).                                       *)

IsExpired(i, t) == t >= i.expiresAt

\* expiresAt - dlt is unsigned: for an intro younger than dlt it wraps to a
\* huge value and the intro never "expires soon".
ExpiresSoon(i, t) ==
    IF i.expiresAt < ExpireDelta THEN FALSE ELSE t >= i.expiresAt - ExpireDelta

\* IntroSet is not under src/: an introset has expired intros if any intro
\* has expired, and is expired when all of them have.
HasExpiredIntros(s, t) == \E i \in s.I : IsExpired(i, t)
IntroSetIsExpired(s, t) == \A i \in s.I : IsExpired(i, t)

\* The first intro with the greatest expiresAt in a scan, as the
\* constructor and ShiftIntroRouter do: only a strictly newer one replaces.
NewestOf(S) ==
    IF S = {} THEN ZeroIntro
    ELSE CHOOSE i \in S : \A j \in S : j.expiresAt <= i.expiresAt

-----------------------------------------------------------------------------
(* PathSet queries over the context's own paths.                           *)

Ready(r) == paths[r]["established"]
PathsTo(p, r) == p[r]["building"] + p[r]["established"] + p[r]["timeout"]
NumPaths(p) == SE!MapThenSumSet(LAMBDA r : PathsTo(p, r), Routers)

\* BuildOneAlignedTo(r): a new path whose last hop is r. It is dropped once
\* the builder holds MaxPaths, and NoRouter means no build.
Launch(p, r) ==
    IF r \in Routers /\ NumPaths(p) < MaxPaths
    THEN [p EXCEPT ![r]["building"] = @ + 1] ELSE p

-----------------------------------------------------------------------------
(* The handlers' shared logic, over a context record.                      *)

Ctx == [remote |-> remoteIntro, next |-> nextIntro, bad |-> badIntros,
        lastShift |-> lastShift, set |-> currentIntroSet,
        updating |-> updatingIntroSet, lookup |-> FALSE, build |-> NoRouter,
        ok |-> FALSE]

\* Mutant: the bad-intro check dropped.
UsableIgnoresBad(c, i) == ~ExpiresSoon(i, now)

Usable(c, i) == ~ExpiresSoon(i, now) /\ i \notin DOMAIN c.bad

\* ShiftIntroduction(rebuild), with the intros in shuffled order ord.
ShiftIntroduction(c, rebuild, ord, cool) ==
    IF now - c.lastShift < MinShiftInterval THEN [c EXCEPT !.ok = FALSE]
    ELSE
    LET same == {k \in 1..Len(ord) :
                    /\ Usable(c, ord[k])
                    /\ c.remote.router = ord[k].router
                    /\ ord[k].expiresAt > c.next.expiresAt}
        Step(acc, i) ==
            IF Usable(c, i) /\ acc.next # i /\ i.expiresAt > acc.next.expiresAt
            THEN [next |-> i, shifted |-> i.router # acc.next.router, ok |-> TRUE]
            ELSE acc
        r == SE!FoldLeft(Step, [next |-> c.next, shifted |-> FALSE, ok |-> FALSE], ord)
    IN IF same # {} THEN [c EXCEPT !.next = ord[SE!Min(same)], !.ok = TRUE]
       ELSE IF r.next.router = NoRouter THEN [c EXCEPT !.ok = FALSE]
       ELSE [c EXCEPT !.next = r.next,
                      !.lastShift = IF r.shifted THEN now ELSE @,
                      !.build = IF rebuild /\ ~cool THEN r.next.router ELSE @,
                      !.ok = r.ok]

SwapIntros(c, ord, cool) ==
    IF c.remote # c.next
    THEN ShiftIntroduction([c EXCEPT !.remote = c.next], FALSE, ord, cool)
    ELSE c

\* UpdateIntroSet: sent is whether a path was found (the endpoint's or the
\* context's) and SendRequestViaPath succeeded.
\* Mutant: updatingIntroSet set whether or not the request went out.
UpdateIntroSetAssumesSent(c, sent) ==
    IF c.updating \/ markedBad THEN c
    ELSE [c EXCEPT !.updating = TRUE, !.lookup = sent]

UpdateIntroSet(c, sent) ==
    IF c.updating \/ markedBad THEN c
    ELSE [c EXCEPT !.updating = sent, !.lookup = sent]

MarkIntroBad(c, intro, ord, cool, sent) ==
    LET c1 == ShiftIntroduction([c EXCEPT !.bad = (intro :> now) @@ @], FALSE, ord, cool)
    IN IF c1.ok
       THEN [c1 EXCEPT !.build = IF Ready(c1.next.router) > 0 \/ cool THEN @
                                 ELSE c1.next.router]
       ELSE IF \/ now - c1.lastShift >= MinShiftInterval
               \/ HasExpiredIntros(c1.set, now)
               \/ IntroSetIsExpired(c1.set, now)
            THEN [UpdateIntroSet(c1, sent) EXCEPT !.ok = TRUE]
            ELSE [c1 EXCEPT !.ok = FALSE]

ShiftIntroRouter(c, r) ==
    LET sel == NewestOf({i \in c.set.I : i.router # r})
    IN IF sel.router = NoRouter \/ ExpiresSoon(sel, now) THEN c
       ELSE [c EXCEPT !.next = sel]

Commit(c) ==
    /\ remoteIntro' = c.remote
    /\ nextIntro' = c.next
    /\ badIntros' = c.bad
    /\ lastShift' = c.lastShift
    /\ currentIntroSet' = c.set
    /\ updatingIntroSet' = c.updating
    /\ inflight' = (inflight \/ c.lookup)

\* The shuffles std::shuffle can produce for the current intros. A handler
\* that shifts twice (MarkIntroBad then SwapIntros) shuffles twice; the
\* model reuses one order. ShiftIntroduction's result depends on the order
\* only when two usable intros on one router tie, which the MC's introsets
\* (one intro per router, distinct expiry times) never have.
Orders == SE!SetToSeqs(currentIntroSet.I)

Move(p, r, from, to) == [p EXCEPT ![r][from] = @ - 1, ![r][to] = @ + 1]

-----------------------------------------------------------------------------
(* Actions: one per handler.                                               *)

\* The constructor: m_NextIntro is the newest intro of the introset.
Init ==
    /\ remoteIntro = ZeroIntro
    /\ nextIntro = NewestOf(InitialIntroSet.I)
    /\ badIntros = <<>>
    /\ lastShift = 0
    /\ currentIntroSet = InitialIntroSet
    /\ updatingIntroSet = FALSE
    /\ inflight = FALSE
    /\ markedBad = FALSE
    /\ lookupFails = 0
    /\ buildFails = 0
    /\ paths = [r \in Routers |-> [st \in Status |-> 0]]
    /\ convoTag = FALSE
    /\ now = 0

HandlePathBuilt(r) ==
    /\ paths[r]["building"] > 0
    /\ \E ord \in Orders :
         LET c == IF ~markedBad /\ r = nextIntro.router
                  THEN SwapIntros(Ctx, ord, FALSE) ELSE Ctx
         IN /\ Commit(c)
            /\ paths' = Move(paths, r, "building", "established")
    /\ UNCHANGED <<markedBad, lookupFails, buildFails, convoTag, now>>

HandlePathBuildTimeout(r) ==
    /\ paths[r]["building"] > 0
    /\ Commit(ShiftIntroRouter(Ctx, r))
    /\ paths' = Move(paths, r, "building", "timeout")
    /\ UNCHANGED <<markedBad, lookupFails, buildFails, convoTag, now>>

\* An established path to r dies and is erased; then HandlePathDied.
HandlePathDied(r) ==
    /\ paths[r]["established"] > 0
    /\ \E sent \in BOOLEAN :
       LET p1 == [paths EXCEPT ![r]["established"] = @ - 1]
           c0 == UpdateIntroSet(Ctx, sent)
           num == p1[r]["established"]
           picked == NewestOf({i \in c0.set.I : i.router # r})
           c == CASE r # c0.remote.router -> c0
                  [] num = 1 /\ PathsTo(p1, r) <= 2 -> [c0 EXCEPT !.build = r]
                  [] num = 0 /\ picked.router # NoRouter ->
                        [c0 EXCEPT !.next = picked, !.build = picked.router]
                  [] OTHER -> c0
       IN Commit(c) /\ paths' = Launch(p1, c.build)
    /\ UNCHANGED <<markedBad, lookupFails, buildFails, convoTag, now>>

\* A path to the remote intro's router reports a dropped message sent to
\* remoteIntro.pathID (a drop for any other intro changes nothing).
HandleDataDrop(r) ==
    /\ paths[r]["established"] > 0
    /\ r = remoteIntro.router
    /\ \E ord \in Orders, cool, sent \in BOOLEAN :
       LET c1 == MarkIntroBad(Ctx, remoteIntro, ord, cool, sent)
           c2 == IF c1.ok THEN SwapIntros(c1, ord, cool) ELSE c1
           c == UpdateIntroSet(c2, sent)
       IN Commit(c) /\ paths' = Launch(paths, c.build)
    /\ UNCHANGED <<markedBad, lookupFails, buildFails, convoTag, now>>

\* OnIntroSetUpdate with an introset: only a newer, unexpired one is taken.
LookupFound(i) ==
    /\ inflight
    /\ inflight' = FALSE
    /\ IF markedBad
       THEN UNCHANGED <<updatingIntroSet, currentIntroSet>>
       ELSE /\ updatingIntroSet' = FALSE
            /\ currentIntroSet' =
                  IF currentIntroSet.T >= i.T \/ IntroSetIsExpired(i, now)
                  THEN currentIntroSet ELSE i
    /\ UNCHANGED <<remoteIntro, nextIntro, badIntros, lastShift, markedBad,
                   lookupFails, buildFails, paths, convoTag, now>>

\* OnIntroSetUpdate with no introset: the lookup failed or timed out.
LookupFailed ==
    /\ inflight
    /\ lookupFails <= LookupFailLimit
    /\ inflight' = FALSE
    /\ IF markedBad
       THEN UNCHANGED <<updatingIntroSet, lookupFails>>
       ELSE /\ updatingIntroSet' = FALSE
            /\ lookupFails' = lookupFails + 1
    /\ UNCHANGED <<remoteIntro, nextIntro, badIntros, lastShift,
                   currentIntroSet, markedBad, buildFails, paths, convoTag, now>>

\* Pump on the endpoint's tick. With too many failures it only reports the
\* context dead. ShiftIntroduction() takes its default, rebuild.
Pump ==
    /\ lookupFails <= LookupFailLimit
    /\ buildFails <= BuildFailLimit
    /\ \E ord \in Orders, cool, sent \in BOOLEAN :
       LET s == ShiftIntroduction(Ctx, TRUE, ord, cool)
           c1 == IF ~ExpiresSoon(remoteIntro, now) THEN Ctx
                 ELSE IF s.ok THEN SwapIntros(s, ord, cool) ELSE s
           Stale(i) == now > c1.bad[i] /\ now - c1.bad[i] > BadIntroLifetime
           c2 == [c1 EXCEPT !.bad = SE!Restrict(@, {i \in DOMAIN @ : ~Stale(i)})]
           c == IF HasExpiredIntros(c2.set, now) THEN UpdateIntroSet(c2, sent) ELSE c2
       IN Commit(c) /\ paths' = Launch(paths, c.build)
    /\ UNCHANGED <<markedBad, lookupFails, buildFails, convoTag, now>>

\* The first frame: AsyncGenIntro takes a path to the remote intro's router,
\* its own or (found) the endpoint's, or asks for one and drops the frame.
AsyncGenIntro ==
    /\ ~convoTag
    /\ \E ord \in Orders, cool, found \in BOOLEAN :
       LET c1 == IF remoteIntro.router = NoRouter THEN SwapIntros(Ctx, ord, cool) ELSE Ctx
           r == c1.remote.router
           sendable == Ready(r) > 0 \/ (found /\ r # NoRouter)
           c == IF sendable \/ cool THEN c1 ELSE [c1 EXCEPT !.build = r]
       IN /\ Commit(c)
          /\ paths' = Launch(paths, c.build)
          /\ convoTag' = sendable
    /\ UNCHANGED <<markedBad, lookupFails, buildFails, now>>

\* The builder builds a path when ShouldBuildMore (false once markedBad; the
\* rest weighs the cooldown and path expiry, left free here). SelectHop on
\* the last hop shifts off a zero intro or one whose router is among the
\* earlier hops (inPrev), then needs the router's RC from the nodedb
\* (known) or counts a build failure.
ShouldBuildMore == ~markedBad

BuildMore ==
    /\ ShouldBuildMore
    /\ NumPaths(paths) < MaxPaths
    /\ buildFails <= BuildFailLimit
    /\ \E ord \in Orders, inPrev, known \in BOOLEAN :
       LET c1 == IF nextIntro.router = NoRouter \/ inPrev
                 THEN ShiftIntroduction(Ctx, FALSE, ord, FALSE) ELSE Ctx
           r == c1.next.router
           c == IF r # NoRouter /\ known THEN [c1 EXCEPT !.build = r] ELSE c1
       IN /\ Commit(c)
          /\ paths' = Launch(paths, c.build)
          /\ buildFails' = IF r # NoRouter /\ ~known THEN buildFails + 1 ELSE buildFails
    /\ UNCHANGED <<markedBad, lookupFails, convoTag, now>>

Stop ==
    /\ ~markedBad
    /\ markedBad' = TRUE
    /\ UNCHANGED <<remoteIntro, nextIntro, badIntros, lastShift, currentIntroSet,
                   updatingIntroSet, inflight, lookupFails, buildFails, paths,
                   convoTag, now>>

\* PathSet::ExpirePaths erases the paths that have expired; the builder
\* runs it on its tick, and a path that timed out has expired.
ExpirePaths(p) == [r \in Routers |-> [p[r] EXCEPT !["timeout"] = 0]]

Tick ==
    /\ now < MaxTime
    /\ now' = now + 1
    /\ paths' = ExpirePaths(paths)
    /\ UNCHANGED <<remoteIntro, nextIntro, badIntros, lastShift, currentIntroSet,
                   updatingIntroSet, inflight, markedBad, lookupFails,
                   buildFails, convoTag>>

Next ==
    \/ \E r \in Routers :
          \/ HandlePathBuilt(r) \/ HandlePathBuildTimeout(r)
          \/ HandlePathDied(r) \/ HandleDataDrop(r)
    \/ \E i \in IntroSets : LookupFound(i)
    \/ LookupFailed \/ Pump \/ AsyncGenIntro \/ BuildMore \/ Stop \/ Tick

Spec == Init /\ [][Next]_vars

\* The lookup's transaction times out if no answer comes
\* (HiddenServiceAddressLookup), so OnIntroSetUpdate always runs.
FairSpec ==
    Spec /\ WF_vars((\E i \in IntroSets : LookupFound(i)) \/ LookupFailed)

-----------------------------------------------------------------------------
(* Properties.                                                             *)

\* ShiftIntroduction against what it is for: in every shuffle it succeeds
\* exactly when MIN_SHIFT_INTERVAL has passed and the introset holds a usable
\* intro (not expiring soon, not marked bad) newer than m_NextIntro; it then
\* moves to one of them, to the newest one unless it stays on the remote
\* intro's router, and otherwise leaves m_NextIntro alone.
ShiftPicksNewestUsable ==
    \A ord \in Orders :
      LET s == ShiftIntroduction(Ctx, FALSE, ord, TRUE)
          Newer == {i \in currentIntroSet.I :
                      /\ ~ExpiresSoon(i, now) /\ i \notin DOMAIN badIntros
                      /\ i # nextIntro /\ i.expiresAt > nextIntro.expiresAt}
      IN /\ s.ok <=> (now - lastShift >= MinShiftInterval /\ Newer # {})
         /\ s.ok => s.next \in Newer
         /\ s.ok /\ s.next.router # remoteIntro.router => s.next = NewestOf(Newer)
         /\ s.ok \/ s.next = nextIntro

\* An introset lookup in progress is always answered: UpdateIntroSet sets
\* updatingIntroSet only when the request went out, and OnIntroSetUpdate
\* clears it on the answer or on the lookup's timeout (unless the context
\* was stopped meanwhile), so the context can look the introset up again.
LookupSettles == updatingIntroSet ~> (~updatingIntroSet \/ markedBad)

\* An intro the context marked bad is never swapped in as the intro it
\* sends to while it is still marked bad. ShiftIntroduction skips bad intros, but
\* ShiftIntroRouter and HandlePathDied pick m_NextIntro without looking at
\* m_BadIntros, and SwapIntros does not look either.
NeverSwapToBadIntro ==
    [][remoteIntro' # remoteIntro => remoteIntro' \notin DOMAIN badIntros']_vars

====
