------------------------------- MODULE NodeDB -------------------------------
(***************************************************************************)
(* The router-contact database of llarp/nodedb.cpp: the in-memory map     *)
(* entries (pubkey -> NetDBEntry{rc, inserted}) guarded by the access     *)
(* mutex, the one file per RC under the skiplist directory, and the three  *)
(* threads that touch them:                                                *)
(*   - the caller's thread (UpdateAsyncIfNewer, RemoveIf, RemoveStaleRCs,  *)
(*     Clear, AsyncFlushToDisk, llarp_nodedb_async_verify), which holds    *)
(*     the mutex for each call;                                            *)
(*   - the disk worker, running the jobs queued by InsertAsync, RemoveIf,  *)
(*     AsyncFlushToDisk and the verify chain, in order;                    *)
(*   - the crypto worker, running crypto_threadworker_verifyrc;            *)
(* and the logic thread, which runs the verify hooks. Insert writes the    *)
(* file without the mutex and takes it only to replace the entry, so it   *)
(* is two steps. RemoveStaleRCs takes the mutex twice (the visit and the  *)
(* RemoveIf), so it is two steps too. A restart keeps the files and loses  *)
(* everything else; Load reads back the files that verify.                 *)
(*                                                                         *)
(* An RC is abstracted to its key, its last_updated (ver) and the outcome  *)
(* of the checks the code makes of it: Verify (valid), IsPublicRouter      *)
(* (pub) and IsExit (exit). A file holds the dict entries BEncode wrote    *)
(* and whether its end was written; Read decodes them with DecodeKey.      *)
(***************************************************************************)
EXTENDS Naturals, Sequences, FiniteSets, Functions, TLC

SE == INSTANCE SequencesExt

CONSTANTS
    RCs,         \* the RCs the model offers: [pk, ver, valid, pub, exit];
                 \* UpdateAsyncIfNewer's callers pass verified ones
    Reqs,        \* llarp_async_verify_rc jobs
    ReqRC,       \* the RC each verify job carries, of a key of RCs
    Keep,        \* the keep set given to RemoveStaleRCs
    DiskFaults,  \* how a file write may fail: "open" or "write"
    WriteCuts,   \* how many dict entries a failed write leaves in the file
    MaxJobs,     \* bound on the disk worker's queue
    MaxSelect,   \* the largest map hop selection is checked on
    MaxTime      \* bound on the clock

Keys == {rc.pk : rc \in RCs}

ASSUME
    /\ \A r \in Reqs : ReqRC[r].pk \in Keys
    /\ Keep \subseteq Keys
    /\ DiskFaults \subseteq {"open", "write"}
    /\ MaxJobs \in Nat \ {0} /\ MaxTime \in Nat /\ MaxSelect \in Nat

VARIABLES
    entries,  \* the map entries: pubkey -> [rc, inserted]
    files,    \* the RC files on disk: pubkey -> [rc, data, ended]; rc,
              \* the RC written, is history
    diskQ,    \* jobs queued on the disk worker
    dw,       \* <<job>> while an Insert has written its file, else <<>>
    cryptoQ,  \* verify jobs queued on the crypto worker
    logicQ,   \* verify hooks queued on the logic thread
    req,      \* each verify job: [st, valid]
    stale,    \* <<set>> between RemoveStaleRCs' visit and its RemoveIf
    now

vars == <<entries, files, diskQ, dw, cryptoQ, logicQ, req, stale, now>>

ReqStates == {"new", "crypto", "disk", "logic", "done", "lost"}

--------------------------------------------------------------------------
(* RouterContact *)

OtherIsNewer(cur, other) == cur.ver < other.ver

RCIsExpired(rc) == FALSE

RCVerify(rc) == rc.valid /\ ~RCIsExpired(rc)

IsPublicRouter(rc) == rc.pub

IsExit(rc) == rc.exit

\* The keys BEncode writes, in order. "n" is written only for a nickname,
\* which the RCs here do not have.
RCDictKeys == <<"a", "i", "k", "p", "u", "v", "x", "z">>

\* The field of the abstract RC a key carries: addrs (pub), pubkey,
\* last_updated, exits and signature. netID ("i"), enckey ("p") and
\* version ("v") are the same in every RC here.
RCField == ("a" :> "pub") @@ ("k" :> "pk") @@ ("u" :> "ver")
               @@ ("x" :> "exit") @@ ("z" :> "valid")

\* RouterContact::BEncode: the dict's entries; its final "e" is the
\* file's ended flag.
RCBEncode(rc) ==
    [i \in 1 .. Len(RCDictKeys) |->
        LET key == RCDictKeys[i]
        IN <<key, IF key \in DOMAIN RCField THEN rc[RCField[key]] ELSE key>>]

\* RouterContact::Clear: the RC BDecode starts from (no signature).
RCClear == [pk |-> "zero", ver |-> 0, valid |-> FALSE, pub |-> FALSE, exit |-> FALSE]

\* Variant: the exits list is not read back.
DecodeKeyNoExits(rc, kv) ==
    IF kv[1] \in DOMAIN RCField \ {"x"} THEN [rc EXCEPT ![RCField[kv[1]]] = kv[2]]
    ELSE rc

\* RouterContact::DecodeKey: one dict entry into its field.
DecodeKey(rc, kv) ==
    IF kv[1] \in DOMAIN RCField THEN [rc EXCEPT ![RCField[kv[1]]] = kv[2]]
    ELSE rc

\* RouterContact::Read: the file is read into a buffer of MAX_RC_SIZE and
\* BDecode runs over the whole buffer, not the file's length. A file
\* whose end was not written is followed by uninitialised bytes: the dict
\* fails to parse, or, when they happen to close it (closed), parses with
\* the entries the file has. The RC read, or <<>>.
RCRead(f, closed) ==
    IF f.ended \/ closed
    THEN <<SE!FoldLeft(DecodeKey, RCClear, f.data)>>
    ELSE <<>>

--------------------------------------------------------------------------

Init ==
    /\ entries = [k \in {} |-> 0]
    /\ files = [k \in {} |-> 0]
    /\ diskQ = <<>>
    /\ dw = <<>>
    /\ cryptoQ = <<>>
    /\ logicQ = <<>>
    /\ req = [r \in Reqs |-> [st |-> "new", valid |-> FALSE]]
    /\ stale = <<>>
    /\ now = 0

\* disk->addJob from the caller's thread: the pool queue has no bound;
\* MaxJobs bounds the calls the model makes. The verify chain's job is
\* not bounded, so that the bound never holds up a worker.
AddJob(job) ==
    /\ Len(diskQ) < MaxJobs
    /\ diskQ' = Append(diskQ, job)

\* Writing an RC's file: a failed open leaves the old file, a failed write
\* leaves the first cut entries of the dict and no end.
WriteFile(f, rc, out, cut) ==
    IF out = "open" THEN f
    ELSE (rc.pk :> [rc |-> rc,
                    data |-> IF out = "ok" THEN RCBEncode(rc)
                             ELSE SubSeq(RCBEncode(rc), 1, cut),
                    ended |-> out = "ok"]) @@ f

\* RemoveIf: erase the entries the filter picks and queue the deletion of
\* their files.
RemoveIf(pick) ==
    /\ entries' = Restrict(entries, DOMAIN entries \ pick)
    /\ AddJob([op |-> "kill", keys |-> pick \cap DOMAIN entries])

\* The test of UpdateAsyncIfNewer: the key is unknown, or its RC is older.
Newer(rc) ==
    IF rc.pk \in DOMAIN entries THEN OtherIsNewer(entries[rc.pk].rc, rc)
    ELSE TRUE

\* UpdateAsyncIfNewer: queue an Insert when the key is unknown or the
\* stored RC is older; otherwise refresh the insertion time.
UpdateAsyncIfNewer(rc) ==
    /\ stale = <<>>
    /\ \/ /\ Newer(rc)
          /\ AddJob([op |-> "insert", rc |-> rc])
          /\ UNCHANGED entries
       \/ /\ ~Newer(rc)
          /\ entries' = [entries EXCEPT ![rc.pk].inserted = now]
          /\ UNCHANGED diskQ
    /\ UNCHANGED <<files, dw, cryptoQ, logicQ, req, stale, now>>

\* Remove(pk) is RemoveIf on the pubkey.
Remove(pk) ==
    /\ stale = <<>>
    /\ RemoveIf({pk})
    /\ UNCHANGED <<files, dw, cryptoQ, logicQ, req, stale, now>>

Clear ==
    /\ stale = <<>>
    /\ entries' = [k \in {} |-> 0]
    /\ UNCHANGED <<files, diskQ, dw, cryptoQ, logicQ, req, stale, now>>

AsyncFlushToDisk ==
    /\ stale = <<>>
    /\ AddJob([op |-> "save"])
    /\ UNCHANGED <<entries, files, dw, cryptoQ, logicQ, req, stale, now>>

\* RemoveStaleRCs, first lock: VisitInsertedBefore collects the keys
\* inserted before the cutoff that are not kept.
StartRemoveStaleRCs ==
    /\ stale = <<>>
    /\ \E cutoff \in 1 .. now :
          stale' = <<{k \in DOMAIN entries :
                        entries[k].inserted < cutoff /\ k \notin Keep}>>
    /\ UNCHANGED <<entries, files, diskQ, dw, cryptoQ, logicQ, req, now>>

\* RemoveStaleRCs, second lock: RemoveIf on the collected keys.
FinishRemoveStaleRCs ==
    /\ stale # <<>>
    /\ RemoveIf(stale[1])
    /\ stale' = <<>>
    /\ UNCHANGED <<files, dw, cryptoQ, logicQ, req, now>>

\* llarp_nodedb_async_verify: hand the job to the crypto worker.
AsyncVerify(r) ==
    /\ req[r].st = "new"
    /\ cryptoQ' = Append(cryptoQ, r)
    /\ req' = [req EXCEPT ![r].st = "crypto"]
    /\ UNCHANGED <<entries, files, diskQ, dw, logicQ, stale, now>>

\* crypto_threadworker_verifyrc: a valid public RC goes on to the disk
\* worker (disk_threadworker_setRC); any other goes back to the logic thread.
CryptoVerify ==
    /\ cryptoQ # <<>>
    /\ LET r == Head(cryptoQ)
           ok == RCVerify(ReqRC[r])
       IN \/ /\ ok /\ IsPublicRouter(ReqRC[r])
             /\ diskQ' = Append(diskQ, [op |-> "setrc", req |-> r])
             /\ req' = [req EXCEPT ![r] = [st |-> "disk", valid |-> TRUE]]
             /\ UNCHANGED logicQ
          \/ /\ ~(ok /\ IsPublicRouter(ReqRC[r]))
             /\ logicQ' = Append(logicQ, r)
             /\ req' = [req EXCEPT ![r] = [st |-> "logic", valid |-> ok]]
             /\ UNCHANGED diskQ
    /\ cryptoQ' = Tail(cryptoQ)
    /\ UNCHANGED <<entries, files, dw, stale, now>>

\* The RC an insert or setrc job stores.
JobRC(job) == IF job.op = "insert" THEN job.rc ELSE ReqRC[job.req]

\* Variant: the hook is queued only when Insert succeeded.
FinishInsertOnSuccess(job, ok) ==
    IF job.op = "setrc" /\ ok
    THEN /\ req' = [req EXCEPT ![job.req] = [st |-> "logic", valid |-> ok]]
         /\ logicQ' = Append(logicQ, job.req)
    ELSE UNCHANGED <<req, logicQ>>

\* The end of Insert: disk_threadworker_setRC records its result as valid
\* and queues the hook; InsertAsync's completion handler is the caller's.
FinishInsert(job, ok) ==
    IF job.op = "setrc"
    THEN /\ req' = [req EXCEPT ![job.req] = [st |-> "logic", valid |-> ok]]
         /\ logicQ' = Append(logicQ, job.req)
    ELSE UNCHANGED <<req, logicQ>>

\* Insert, first part: write the file, without the mutex. A failed open
\* or write returns false before the map is touched.
InsertWrite ==
    /\ dw = <<>> /\ diskQ # <<>>
    /\ Head(diskQ).op \in {"insert", "setrc"}
    /\ LET job == Head(diskQ)
       IN \E out \in {"ok"} \cup DiskFaults, cut \in WriteCuts :
            /\ files' = WriteFile(files, JobRC(job), out, cut)
            /\ \/ /\ out = "ok"
                  /\ dw' = <<job>>
                  /\ UNCHANGED <<req, logicQ>>
               \/ /\ out # "ok"
                  /\ FinishInsert(job, FALSE)
                  /\ UNCHANGED dw
    /\ diskQ' = Tail(diskQ)
    /\ UNCHANGED <<entries, cryptoQ, stale, now>>

\* Insert, second part: under the mutex, erase any entry of the key and
\* emplace the RC with the current time.
InsertEmplace ==
    /\ dw # <<>>
    /\ LET job == dw[1]
           rc == JobRC(job)
       IN /\ entries' = (rc.pk :> [rc |-> rc, inserted |-> now]) @@ entries
          /\ FinishInsert(job, TRUE)
    /\ dw' = <<>>
    /\ UNCHANGED <<files, diskQ, cryptoQ, stale, now>>

\* KillRCJobs: delete the files RemoveIf collected.
KillRCJobs ==
    /\ dw = <<>> /\ diskQ # <<>> /\ Head(diskQ).op = "kill"
    /\ files' = Restrict(files, DOMAIN files \ Head(diskQ).keys)
    /\ diskQ' = Tail(diskQ)
    /\ UNCHANGED <<entries, dw, cryptoQ, logicQ, req, stale, now>>

\* SaveAll: under the mutex, write the file of every entry.
SaveAll ==
    /\ dw = <<>> /\ diskQ # <<>> /\ Head(diskQ).op = "save"
    /\ \E out \in [DOMAIN entries -> {"ok"} \cup DiskFaults],
         cut \in [DOMAIN entries -> WriteCuts] :
          files' = [k \in DOMAIN files \cup DOMAIN entries |->
                      IF k \in DOMAIN entries
                      THEN WriteFile(files, entries[k].rc, out[k], cut[k])[k]
                      ELSE files[k]]
    /\ diskQ' = Tail(diskQ)
    /\ UNCHANGED <<entries, dw, cryptoQ, logicQ, req, stale, now>>

\* logic_threadworker_callback: the logic thread runs the job's hook.
VerifyHook ==
    /\ logicQ # <<>>
    /\ req' = [req EXCEPT ![Head(logicQ)].st = "done"]
    /\ logicQ' = Tail(logicQ)
    /\ UNCHANGED <<entries, files, diskQ, dw, cryptoQ, stale, now>>

Tick ==
    /\ now < MaxTime
    /\ now' = now + 1
    /\ UNCHANGED <<entries, files, diskQ, dw, cryptoQ, logicQ, req, stale>>

\* The process stops; on start Load reads every file (loadfile): a file
\* that does not parse or whose RC does not Verify is skipped. Queued jobs
\* and the verify jobs in flight are gone. closed: the files without an
\* end that the bytes after them close.
Restart ==
    /\ \E closed \in SUBSET {k \in DOMAIN files : ~files[k].ended} :
          LET read(k) == RCRead(files[k], k \in closed)
          IN entries' = [k \in {k \in DOMAIN files :
                                  read(k) # <<>> /\ RCVerify(read(k)[1])} |->
                           [rc |-> read(k)[1], inserted |-> now]]
    /\ diskQ' = <<>> /\ dw' = <<>> /\ cryptoQ' = <<>> /\ logicQ' = <<>>
    /\ stale' = <<>>
    /\ req' = [r \in Reqs |->
                 IF req[r].st \in {"crypto", "disk", "logic"}
                 THEN [req[r] EXCEPT !.st = "lost"] ELSE req[r]]
    /\ UNCHANGED <<files, now>>

Next ==
    \/ \E rc \in {x \in RCs : RCVerify(x)} : UpdateAsyncIfNewer(rc)
    \/ \E k \in Keys : Remove(k)
    \/ Clear \/ AsyncFlushToDisk
    \/ StartRemoveStaleRCs \/ FinishRemoveStaleRCs
    \/ \E r \in Reqs : AsyncVerify(r)
    \/ CryptoVerify \/ InsertWrite \/ InsertEmplace \/ KillRCJobs \/ SaveAll
    \/ VerifyHook \/ Tick \/ Restart

Spec == Init /\ [][Next]_vars

\* The workers and the logic thread run every job they are given.
FairSpec ==
    /\ Spec
    /\ WF_vars(CryptoVerify) /\ WF_vars(InsertWrite) /\ WF_vars(InsertEmplace)
    /\ WF_vars(KillRCJobs) /\ WF_vars(SaveAll) /\ WF_vars(VerifyHook)

--------------------------------------------------------------------------
(* Hop selection, over ord, the map's RCs in its iteration order (the map *)
(* is unordered, so any order), and idx, llarp::randint() % size.         *)

\* Variant: no wrap-around scan.
SelectRandomExitNoWrap(ord, idx) ==
    LET sz == Len(ord)
        fwd == {i \in (IF idx > 0 THEN idx ELSE 1) .. sz : IsExit(ord[i])}
        first(S) == CHOOSE i \in S : \A j \in S : i <= j
    IN IF sz < 3 \/ fwd = {} THEN <<>> ELSE <<ord[first(fwd)]>>

\* select_random_exit: start at position idx (idx - 1 steps from begin
\* when idx > 0), scan to the end for an exit, then wrap around over the
\* first idx entries. The RC chosen, or <<>>.
SelectRandomExit(ord, idx) ==
    LET sz == Len(ord)
        fwd == {i \in (IF idx > 0 THEN idx ELSE 1) .. sz : IsExit(ord[i])}
        wrap == {i \in 1 .. idx : IsExit(ord[i])}
        first(S) == CHOOSE i \in S : \A j \in S : i <= j
    IN IF sz < 3 THEN <<>>
       ELSE IF fwd # {} THEN <<ord[first(fwd)]>>
       ELSE IF wrap # {} THEN <<ord[first(wrap)]>>
       ELSE <<>>

--------------------------------------------------------------------------
(* Properties *)

\* Spec, RouterContact: an RC is replaced only by a newer RC
\* (OtherIsNewer) or upon expiry. No step of the database puts an older
\* RC of a key in place of the one it holds.
RCReplacedOnlyByNewer ==
    [][\A k \in DOMAIN entries \cap DOMAIN entries' :
          entries[k].rc.ver <= entries'[k].rc.ver]_vars

\* Every table of up to MaxSelect RCs.
ProbeTables ==
    UNION {{[i \in 1 .. n |-> [pk |-> i, ver |-> 1, valid |-> TRUE,
                               pub |-> TRUE, exit |-> ex[i]]] :
            ex \in [1 .. n -> BOOLEAN]} : n \in 0 .. MaxSelect}

\* What select_random_exit returns on table ord from every random start.
FindsExitIn(ord) ==
    \A idx \in 0 .. Len(ord) - 1 :
        LET got == SelectRandomExit(ord, idx)
        IN /\ got = <<>> <=> (Len(ord) < 3 \/ \A i \in 1 .. Len(ord) : ~IsExit(ord[i]))
           /\ got # <<>> => \E i \in 1 .. Len(ord) : ord[i] = got[1] /\ IsExit(ord[i])

ProbesFindExit == \A ord \in ProbeTables : FindsExitIn(ord)

\* select_random_exit finds an exit whenever the table holds at least
\* three RCs and one of them is an exit, whatever the iteration order and
\* the random start, and what it returns is an exit of the table; checked
\* on the database's own RCs in every order and on every table of up to
\* MaxSelect RCs.
SelectRandomExitFindsExit ==
    /\ ProbesFindExit
    /\ \A ord \in SE!SetToSeqs({entries[k].rc : k \in DOMAIN entries}) :
          FindsExitIn(ord)

\* Whatever the bytes after a file whose end was not written, Load accepts
\* from a file only the RC that was written to it: RouterContact::BEncode,
\* a write cut short by a disk fault, and Read's DecodeKey over a buffer
\* larger than the file, followed by Verify.
FilesLoadAsWritten ==
    \A k \in DOMAIN files, closed \in BOOLEAN :
        LET got == RCRead(files[k], closed)
        IN got # <<>> /\ RCVerify(got[1]) => got[1] = files[k].rc

\* The refinement mapping: a request is pending while a worker holds it,
\* and the valid its hook saw is the one recorded when it is done.
VerifyStatus(st) == IF st \in {"crypto", "disk", "logic"} THEN "pending" ELSE st

VS == INSTANCE VerifyService
        WITH vst <- [r \in Reqs |-> VerifyStatus(req[r].st)],
             vok <- [r \in Reqs |-> req[r].st = "done" /\ req[r].valid],
             Good <- {r \in Reqs : RCVerify(ReqRC[r])}

\* The database's async verify pipeline (llarp_nodedb_async_verify, the
\* crypto worker, disk_threadworker_setRC, the logic hook) implements
\* VerifyService under its fairness: every request handed to the crypto
\* worker has its hook run exactly once, unless a restart loses it, and
\* the hook sees valid only for an RC that verifies.
VerifyServiceRefined == VS!FairSpec
=============================================================================
