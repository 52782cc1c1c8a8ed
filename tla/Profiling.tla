----------------------------- MODULE Profiling -----------------------------
(***************************************************************************)
(* llarp::Profiling (src/llarp/profiling.cpp): a map from router id to a   *)
(* RouterProfile of connect and path counters, updated by the Mark*        *)
(* operations, halved by Tick every update interval, saved to one bencoded *)
(* file and loaded from it when the router starts. Every operation holds   *)
(* m_ProfilesMutex for its whole body, so each is one atomic step; the     *)
(* queries IsBad, IsBadForConnect and IsBadForPath change nothing and are  *)
(* operators. The router code that calls these (when to Save, when to      *)
(* Tick) is not under src/: every operation may happen at any time.        *)
(***************************************************************************)
EXTENDS Naturals, Sequences, FiniteSets, Functions, TLC

SE == INSTANCE SequencesExt

CONSTANTS
    Routers,        \* router ids
    Paths,          \* hop lists of the paths the router builds
    Chances,        \* the chances arguments the callers pass
    SaveFaults,     \* subset of {"open", "write"}: how Save may fail
    UpdateInterval, \* RouterProfile::Tick's 15 s, in model time units
    MaxMarks,       \* model bound on the sum of all counters of all profiles
    MaxProbe,       \* largest counter of the profiles the IsGood check tries
    MaxTime         \* model bound on the clock

ASSUME /\ \A p \in Paths : p \in Seq(Routers) /\ Len(p) > 0
       /\ SaveFaults \subseteq {"open", "write"}
       /\ Chances \subseteq Nat
       /\ UpdateInterval \in Nat /\ MaxTime \in Nat
       /\ MaxMarks \in Nat /\ MaxProbe \in Nat

VARIABLES
    profiles,   \* m_Profiles: router id -> RouterProfile
    disabled,   \* m_DisableProfiling
    lastSave,   \* m_LastSave
    file,       \* the profiles file: <<>> or <<[intact, data]>>
    now         \* llarp::time_now_ms()

vars == <<profiles, disabled, lastSave, file, now>>

Counters == {"connectGoodCount", "connectTimeoutCount",
             "pathSuccessCount", "pathFailCount"}

\* A default-constructed RouterProfile, as m_Profiles[r] creates it.
FreshProfile == [c \in Counters \cup {"lastUpdated", "lastDecay"} |-> 0]

ProfileOf(r) == IF r \in DOMAIN profiles THEN profiles[r] ELSE FreshProfile

TotalMarks == SE!FoldFunction(LAMBDA p, acc : acc + p.connectGoodCount
                  + p.connectTimeoutCount + p.pathSuccessCount
                  + p.pathFailCount, 0, profiles)

-----------------------------------------------------------------------------
(* RouterProfile's rules.                                                  *)

\* Variant: decay takes one off each counter instead of halving it.
DecayDecrement(p) == [c \in DOMAIN p |->
               IF c \in Counters THEN p[c] - 1
               ELSE IF c = "lastDecay" THEN now ELSE p[c]]

Decay(p) == [c \in DOMAIN p |->
               IF c \in Counters THEN p[c] \div 2
               ELSE IF c = "lastDecay" THEN now ELSE p[c]]

DecayDue(p) == p.lastDecay < now /\ now - p.lastDecay > UpdateInterval

\* Variant: a connect timeout above the chances is forgiven when the
\* timeouts outnumber the successes, the comparison turned round.
IsGoodInverted(p, chances) ==
    IF p.connectTimeoutCount > chances
    THEN /\ p.connectGoodCount < p.connectTimeoutCount
         /\ p.pathSuccessCount * chances > p.pathFailCount
    ELSE p.pathSuccessCount * chances > p.pathFailCount

IsGood(p, chances) ==
    IF p.connectTimeoutCount > chances
    THEN /\ p.connectTimeoutCount < p.connectGoodCount
         /\ p.pathSuccessCount * chances > p.pathFailCount
    ELSE p.pathSuccessCount * chances > p.pathFailCount

checkIsGood(fails, success, chances) ==
    IF fails > 0 /\ fails + success >= chances THEN success \div fails > 1
    ELSE IF success = 0 THEN fails < chances
    ELSE TRUE

IsGoodForConnect(p, chances) ==
    checkIsGood(p.connectTimeoutCount, p.connectGoodCount, chances)

IsGoodForPath(p, chances) ==
    checkIsGood(p.pathFailCount, p.pathSuccessCount, chances)

\* Profiling::IsBad: false while disabled or for a router with no profile.
IsBad(r, chances) ==
    /\ ~disabled
    /\ r \in DOMAIN profiles
    /\ ~IsGood(profiles[r], chances)

-----------------------------------------------------------------------------
(* Bencoding. RouterProfile::BEncode writes the dict keys g p s t u (the   *)
(* version key is constant and left out); DecodeKey reads a key into the   *)
(* field its table names and fails on any other key. lastDecay is not      *)
(* written.                                                                 *)

EncodeKey == ("g" :> "connectGoodCount") @@ ("p" :> "pathSuccessCount")
          @@ ("s" :> "pathFailCount") @@ ("t" :> "connectTimeoutCount")
          @@ ("u" :> "lastUpdated")

\* Variant: DecodeKey reads "p" and "s" into each other's counter.
DecodeKeySwapped == ("g" :> "connectGoodCount") @@ ("s" :> "pathSuccessCount")
          @@ ("p" :> "pathFailCount") @@ ("t" :> "connectTimeoutCount")
          @@ ("u" :> "lastUpdated")

DecodeKey == ("g" :> "connectGoodCount") @@ ("t" :> "connectTimeoutCount")
          @@ ("u" :> "lastUpdated") @@ ("s" :> "pathFailCount")
          @@ ("p" :> "pathSuccessCount")

\* The dict of one profile, as a sequence of key/value pairs in key order.
BEncodeProfile(p) ==
    [i \in 1 .. 5 |-> LET k == <<"g", "p", "s", "t", "u">>[i]
                      IN <<k, p[EncodeKey[k]]>>]

\* bencode_decode_dict into a default RouterProfile, one DecodeKey a pair.
DecodeProfile(d) ==
    SE!FoldLeft(LAMBDA p, kv : [p EXCEPT ![DecodeKey[kv[1]]] = kv[2]],
                FreshProfile, d)

\* Profiling::BEncodeNoLock: router id -> profile dict.
SaveProfiles(ps) == [r \in DOMAIN ps |-> BEncodeProfile(ps[r])]

\* Profiling::DecodeKey for every router id of the file.
LoadProfiles(data) == [r \in DOMAIN data |-> DecodeProfile(data[r])]

-----------------------------------------------------------------------------

Init ==
    /\ profiles = [r \in {} |-> FreshProfile]
    /\ disabled = FALSE
    /\ lastSave = 0
    /\ file = <<>>
    /\ now = 0

\* One operator per Mark*: add inc to counter c of every router in hops,
\* creating a profile where there is none, and stamp lastUpdated.
Bump(hops, c, inc) ==
    /\ TotalMarks + inc * Cardinality(hops) <= MaxMarks
    /\ profiles' = [r \in DOMAIN profiles \cup hops |->
                      IF r \in hops
                      THEN [ProfileOf(r) EXCEPT ![c] = @ + inc,
                                                !.lastUpdated = now]
                      ELSE profiles[r]]
    /\ UNCHANGED <<disabled, lastSave, file, now>>

MarkConnectTimeout(r) == Bump({r}, "connectTimeoutCount", 1)

MarkConnectSuccess(r) == Bump({r}, "connectGoodCount", 1)

MarkHopFail(r) == Bump({r}, "pathFailCount", 1)

\* Every hop but the first, which we are connected to directly.
MarkPathFail(p) ==
    /\ Len(p) > 1
    /\ Bump({p[i] : i \in 2 .. Len(p)}, "pathFailCount", 1)

\* Every hop gets the path's length added to its successes.
MarkPathSuccess(p) == Bump(SE!ToSet(p), "pathSuccessCount", Len(p))

ClearProfile(r) ==
    /\ r \in DOMAIN profiles
    /\ profiles' = Restrict(profiles, DOMAIN profiles \ {r})
    /\ UNCHANGED <<disabled, lastSave, file, now>>

\* Profiling::Tick: RouterProfile::Tick on every profile.
Tick ==
    /\ \E r \in DOMAIN profiles : DecayDue(profiles[r])
    /\ profiles' = [r \in DOMAIN profiles |->
                      IF DecayDue(profiles[r]) THEN Decay(profiles[r])
                      ELSE profiles[r]]
    /\ UNCHANGED <<disabled, lastSave, file, now>>

Disable ==
    /\ ~disabled
    /\ disabled' = TRUE
    /\ UNCHANGED <<profiles, lastSave, file, now>>

Enable ==
    /\ disabled
    /\ disabled' = FALSE
    /\ UNCHANGED <<profiles, lastSave, file, now>>

\* Profiling::Save: a failed open returns false with nothing written; a
\* failed write is not checked, so the truncated file is kept and
\* m_LastSave is stamped all the same.
Save ==
    /\ \E out \in {"ok"} \cup SaveFaults :
         \/ /\ out = "ok"
            /\ file' = <<[intact |-> TRUE, data |-> SaveProfiles(profiles)]>>
            /\ lastSave' = now
         \/ /\ out = "write"
            /\ file' = <<[intact |-> FALSE, data |-> [r \in {} |-> <<>>]]>>
            /\ lastSave' = now
         \/ /\ out = "open"
            /\ UNCHANGED <<file, lastSave>>
    /\ UNCHANGED <<profiles, disabled, now>>

\* The router restarts and calls Load: m_Profiles is cleared, the file
\* decoded, and m_LastSave stamped only when that succeeds. A new
\* Profiling is enabled and its m_LastSave is zero.
Restart ==
    /\ IF file # <<>> /\ file[1].intact
       THEN /\ profiles' = LoadProfiles(file[1].data)
            /\ lastSave' = now
       ELSE /\ profiles' = [r \in {} |-> FreshProfile]
            /\ lastSave' = 0
    /\ disabled' = FALSE
    /\ UNCHANGED <<file, now>>

AdvanceClock ==
    /\ now < MaxTime
    /\ now' = now + 1
    /\ UNCHANGED <<profiles, disabled, lastSave, file>>

Next ==
    \/ \E r \in Routers :
          \/ MarkConnectTimeout(r) \/ MarkConnectSuccess(r)
          \/ MarkHopFail(r) \/ ClearProfile(r)
    \/ \E p \in Paths : MarkPathFail(p) \/ MarkPathSuccess(p)
    \/ Tick \/ Disable \/ Enable \/ Save \/ Restart \/ AdvanceClock

Spec == Init /\ [][Next]_vars

-----------------------------------------------------------------------------
(* Properties.                                                             *)

TypeOK ==
    /\ DOMAIN profiles \subseteq Routers
    /\ \A r \in DOMAIN profiles :
         /\ \A c \in Counters : profiles[r][c] \in 0 .. MaxMarks
         /\ profiles[r].lastUpdated \in 0 .. now
         /\ profiles[r].lastDecay \in 0 .. now
    /\ disabled \in BOOLEAN
    /\ lastSave \in 0 .. now
    /\ now \in 0 .. MaxTime

\* Save then Load (BEncodeNoLock, then bencode_decode_dict through
\* Profiling::DecodeKey and RouterProfile::DecodeKey) gives back every
\* profile of the map with every counter and lastUpdated as they were;
\* only lastDecay is lost, and starts again at zero.
ProfilesRoundTrip ==
    LoadProfiles(SaveProfiles(profiles))
        = [r \in DOMAIN profiles |-> [profiles[r] EXCEPT !.lastDecay = 0]]

\* Every profile with counters up to MaxProbe.
ProbeProfiles == {[FreshProfile EXCEPT !.connectGoodCount = g,
                     !.connectTimeoutCount = t, !.pathSuccessCount = ps,
                     !.pathFailCount = pf] : g, t, ps, pf \in 0 .. MaxProbe}

Plus(p, c) == [p EXCEPT ![c] = @ + 1]

IsGoodMonotoneAt(p, c) ==
    /\ IsGood(p, c) => IsGood(Plus(p, "connectGoodCount"), c)
    /\ IsGood(p, c) => IsGood(Plus(p, "pathSuccessCount"), c)
    /\ ~IsGood(p, c) => ~IsGood(Plus(p, "connectTimeoutCount"), c)
    /\ ~IsGood(p, c) => ~IsGood(Plus(p, "pathFailCount"), c)

ProbesIsGoodMonotone == \A p \in ProbeProfiles, c \in Chances : IsGoodMonotoneAt(p, c)

\* RouterProfile::IsGood, on which Profiling::IsBad rests, is monotone: one
\* more connect or path success (MarkConnectSuccess, MarkPathSuccess) never
\* turns a good profile bad, and one more timeout or failure
\* (MarkConnectTimeout, MarkHopFail, MarkPathFail) never turns a bad one
\* good, whatever chances the caller passes; checked on the router's own
\* profiles and on every profile with counters up to MaxProbe.
SuccessNeverMakesBad ==
    /\ ProbesIsGoodMonotone
    /\ \A r \in DOMAIN profiles, c \in Chances : IsGoodMonotoneAt(profiles[r], c)

\* The same for the per-kind checks IsGoodForConnect and IsGoodForPath
\* (checkIsGood), which Profiling::IsBadForConnect and IsBadForPath rest on.
KindSuccessNeverMakesBad ==
    \A p \in ProbeProfiles \cup Range(profiles), c \in Chances :
       /\ IsGoodForConnect(p, c) => IsGoodForConnect(Plus(p, "connectGoodCount"), c)
       /\ IsGoodForPath(p, c) => IsGoodForPath(Plus(p, "pathSuccessCount"), c)

=============================================================================
