----------------------------- MODULE Projection -----------------------------
(***************************************************************************)
(* The system of record and its search projection, for one binding: the    *)
(* Postgres records table, the transactional outbox of River jobs written  *)
(* with every record change, the River workers that apply the jobs to the  *)
(* OpenSearch index pb_records, the synthesis pass that rewrites a record, *)
(* and the reconciler that compares both sides and repairs the difference. *)
(*                                                                         *)
(* A transaction takes effect when it commits; its now() is the time it    *)
(* began, and the trigger set_updated_at stamps rows with that time.  Each *)
(* request to OpenSearch is one step.                                      *)
(***************************************************************************)
EXTENDS Integers, FiniteSets

CONSTANTS
    SHAs,           \* content addresses
    Txs,            \* HTTP handlers that may have a transaction open
    Workers,        \* River workers (defaultMaxWorkers)
    Embeddings,     \* whether requests carry an agent-computed embedding
    PageSize,       \* reconcileSoRPageSize
    ScanCap,        \* reconcileMaxPerBinding
    RepairCap,      \* reconcileMaxRepairsPerBinding
    MaxRecords,     \* bound: record ids
    MaxClock,       \* bound: transactions, each begins at its own time
    MaxFaults,      \* bound: failed requests, lost answers, daemon crashes
    MaxDiscards     \* bound: jobs out of retries

ASSUME SizesAssumption ==
    /\ SHAs # {} /\ IsFiniteSet(SHAs)
    /\ IsFiniteSet(Workers)
    /\ Embeddings \subseteq BOOLEAN
    /\ PageSize \in Nat \ {0}
    /\ ScanCap \in Nat \ {0}
    /\ RepairCap \in Nat \ {0}

ASSUME LimitsAssumption ==
    /\ MaxRecords \in Nat
    /\ MaxClock \in Nat
    /\ MaxFaults \in Nat
    /\ MaxDiscards \in Nat

VARIABLES
    records,        \* the records table, by its UNIQUE (profile, vault, sha)
    nextId,         \* records.id
    clock,          \* the time the latest transaction began
    upserts,        \* outbox: project_record upsert jobs, by record id
    deletes,        \* outbox: project_record delete jobs, by sha
    docs,           \* the index pb_records, by _id
    tx,             \* the open transaction of each handler
    synth,          \* the synthesis pass in progress
    worker,         \* the job each River worker is on
    rec,            \* the reconcile cycle in progress
    throughout,     \* shas that have had a record since the cycle began, in a cycle
    writtenAt,      \* the stamp of the latest write that enqueued a projection
    faults, discards

sor == <<records, nextId, clock, writtenAt>>
outbox == <<upserts, deletes>>
bounds == <<faults, discards>>
vars == <<records, nextId, clock, upserts, deletes, docs, tx, synth, worker,
          rec, throughout, writtenAt, faults, discards>>

-----------------------------------------------------------------------------
(* Types.                                                                  *)

Ids == 1 .. MaxRecords

(* What a record says that its projection repeats.                         *)
Body == [id : 0 .. MaxRecords, synthesised : BOOLEAN, embedded : BOOLEAN]

NoBody == [id |-> 0, synthesised |-> FALSE, embedded |-> FALSE]

Record == [updatedAt : Nat, body : Body]

NoRecord == [updatedAt |-> 0, body |-> NoBody]

(* A document and its external version.  OpenSearch keeps the version of a *)
(* deleted document for a while.                                           *)
Doc == [present : BOOLEAN, version : Nat, body : Body]

NoDoc == [present |-> FALSE, version |-> 0, body |-> NoBody]

Tx == [op : {"none", "write", "forget"}, sha : SHAs, embedded : BOOLEAN, began : Nat]

Synth == [pc : {"idle", "distill", "extracted", "begun", "write", "failed"}, sha : SHAs,
          embedded : BOOLEAN, began : Nat, id : 0 .. MaxRecords]

Worker == [pc : {"idle", "put", "delete"}, sha : SHAs, snap : Record]

Rec == [pc : {"idle", "scan", "scroll", "repair", "put"}, cursor : 0 .. MaxRecords,
        seen : SUBSET SHAs, missing : SUBSET SHAs, orphan : SUBSET SHAs,
        sha : SHAs, snap : Record, budget : 0 .. RepairCap]

AnySHA == CHOOSE s \in SHAs : TRUE

NoTx == [op |-> "none", sha |-> AnySHA, embedded |-> FALSE, began |-> 0]
IdleSynth == [pc |-> "idle", sha |-> AnySHA, embedded |-> FALSE, began |-> 0, id |-> 0]
IdleWorker == [pc |-> "idle", sha |-> AnySHA, snap |-> NoRecord]
IdleRec == [pc |-> "idle", cursor |-> 0, seen |-> {}, missing |-> {},
            orphan |-> {}, sha |-> AnySHA, snap |-> NoRecord, budget |-> 0]

TypeOK ==
    /\ records \in [SHAs -> Record]
    /\ nextId \in 1 .. MaxRecords + 1
    /\ clock \in Nat
    /\ upserts \in [Ids -> Nat]
    /\ deletes \in [SHAs -> Nat]
    /\ docs \in [SHAs -> Doc]
    /\ tx \in [Txs -> Tx]
    /\ synth \in Synth
    /\ worker \in [Workers -> Worker]
    /\ rec \in Rec
    /\ throughout \subseteq SHAs
    /\ writtenAt \in [SHAs -> Nat]
    /\ faults \in Nat /\ discards \in Nat

-----------------------------------------------------------------------------
(* The records table.                                                      *)

Present(s) == records[s].body.id # 0

Tick ==
    /\ clock < MaxClock
    /\ clock' = clock + 1

(* UpsertRecord and EnqueueProjectTx: insert, or keep every field and fill *)
(* in a missing embedding; either way enqueue a projection.                *)
UpsertRecord(s, e, now) ==
    IF Present(s)
    THEN /\ records' = [records EXCEPT ![s].updatedAt = now,
                                       ![s].body.embedded = @ \/ e]
         /\ upserts' = [upserts EXCEPT ![records[s].body.id] = @ + 1]
         /\ UNCHANGED nextId
    ELSE /\ nextId <= MaxRecords
         /\ records' = [records EXCEPT ![s] =
                [updatedAt |-> now,
                 body |-> [id |-> nextId, synthesised |-> FALSE, embedded |-> e]]]
         /\ nextId' = nextId + 1
         /\ upserts' = [upserts EXCEPT ![nextId] = @ + 1]

-----------------------------------------------------------------------------
(* HTTP handlers: perceive, learn, attach; and forget.                     *)

Begin(t, op, s, e) ==
    /\ tx[t].op = "none"
    /\ Tick
    /\ tx' = [tx EXCEPT ![t] = [op |-> op, sha |-> s, embedded |-> e, began |-> clock']]
    /\ UNCHANGED <<records, nextId, writtenAt, outbox, docs, synth, worker, rec, throughout, bounds>>

(* WriteRecordAndEnqueue.                                                  *)
CommitWrite(t) ==
    /\ tx[t].op = "write"
    /\ UpsertRecord(tx[t].sha, tx[t].embedded, tx[t].began)
    /\ writtenAt' = [writtenAt EXCEPT ![tx[t].sha] = tx[t].began]
    /\ tx' = [tx EXCEPT ![t] = NoTx]
    /\ UNCHANGED <<clock, deletes, docs, synth, worker, rec, throughout, bounds>>

(* handleForget: DELETE and EnqueueDeleteTx.                               *)
CommitForget(t) ==
    LET s == tx[t].sha IN
    /\ tx[t].op = "forget"
    /\ Present(s)
    /\ records' = [records EXCEPT ![s] = NoRecord]
    /\ deletes' = [deletes EXCEPT ![s] = @ + 1]
    /\ throughout' = throughout \ {s}
    /\ tx' = [tx EXCEPT ![t] = NoTx]
    /\ UNCHANGED <<nextId, clock, writtenAt, upserts, docs, synth, worker, rec, bounds>>

(* A statement fails, the context is cancelled, or there is nothing to     *)
(* forget: neither the record nor the job lands.                           *)
Rollback(t) ==
    /\ tx[t].op # "none"
    /\ tx' = [tx EXCEPT ![t] = NoTx]
    /\ UNCHANGED <<sor, outbox, docs, synth, worker, rec, throughout, bounds>>

-----------------------------------------------------------------------------
(* The synthesis pass, one record at a time (processMu).                   *)

(* processJob reads the record; the LLM calls come next.                   *)
SynthFetch(s) ==
    /\ synth.pc = "idle"
    /\ Present(s)
    /\ ~records[s].body.synthesised
    /\ synth' = [IdleSynth EXCEPT !.pc = "distill", !.sha = s, !.id = records[s].body.id,
                                  !.embedded = records[s].body.embedded]
    /\ UNCHANGED <<sor, outbox, docs, tx, worker, rec, throughout, bounds>>

(* enrichAttachmentRecord: SetExtractedText touches the row that was read  *)
(* and enqueues nothing; the text goes to the index with the pass's result.*)
SynthExtract ==
    /\ synth.pc = "distill"
    /\ Tick
    /\ records' = [s \in SHAs |-> IF records[s].body.id = synth.id
                                  THEN [records[s] EXCEPT !.updatedAt = clock']
                                  ELSE records[s]]
    /\ synth' = [synth EXCEPT !.pc = "extracted"]
    /\ UNCHANGED <<nextId, writtenAt, outbox, docs, tx, worker, rec, throughout, bounds>>

(* writeSynthResult: BEGIN, ...                                            *)
SynthBegin ==
    /\ synth.pc \in {"distill", "extracted"}
    /\ Tick
    /\ synth' = [synth EXCEPT !.pc = "begun", !.began = clock']
    /\ UNCHANGED <<records, nextId, writtenAt, outbox, docs, tx, worker, rec, throughout, bounds>>

(* ... the id of the record that has this sha now, ...                     *)
SynthGet ==
    /\ synth.pc = "begun"
    /\ synth' = [synth EXCEPT !.pc = IF Present(synth.sha) THEN "write" ELSE "failed",
                              !.id = records[synth.sha].body.id]
    /\ UNCHANGED <<sor, outbox, docs, tx, worker, rec, throughout, bounds>>

(* ... UPDATE ... WHERE id, whose embedding is the one read by Fetch, and  *)
(* the job; committed whether or not the row is still there.               *)
SynthCommit ==
    /\ synth.pc = "write"
    /\ records' = [s \in SHAs |->
            IF records[s].body.id = synth.id
            THEN [updatedAt |-> synth.began,
                  body |-> [id |-> synth.id, synthesised |-> TRUE,
                            embedded |-> synth.embedded]]
            ELSE records[s]]
    /\ writtenAt' = [s \in SHAs |->
            IF records[s].body.id = synth.id THEN synth.began ELSE writtenAt[s]]
    /\ upserts' = [upserts EXCEPT ![synth.id] = @ + 1]
    /\ synth' = IdleSynth
    /\ UNCHANGED <<nextId, clock, deletes, docs, tx, worker, rec, throughout, bounds>>

(* An error anywhere in the pass rolls the transaction back.               *)
SynthFails ==
    /\ synth.pc \in {"distill", "extracted", "begun", "write"}
    /\ faults < MaxFaults
    /\ faults' = faults + 1
    /\ synth' = [synth EXCEPT !.pc = "failed"]
    /\ UNCHANGED <<sor, outbox, docs, tx, worker, rec, throughout, discards>>

(* recordSynthFailure: BumpSynthFailure touches the row and enqueues       *)
(* nothing; best effort.                                                   *)
BumpSynthFailure ==
    /\ synth.pc = "failed"
    /\ \/ UNCHANGED <<records, clock>>
       \/ /\ Tick
          /\ Present(synth.sha)
          /\ records' = [records EXCEPT ![synth.sha].updatedAt = clock']
    /\ synth' = IdleSynth
    /\ UNCHANGED <<nextId, writtenAt, outbox, docs, tx, worker, rec, throughout, bounds>>

-----------------------------------------------------------------------------
(* OpenSearch, and the projector that talks to it.                         *)

(* Mutant: an unversioned put.                                             *)
ProjectUnversioned(s, r) ==
    docs' = [docs EXCEPT ![s] = [present |-> TRUE, version |-> r.updatedAt, body |-> r.body]]

(* Project: an upsert under version_type external_gte.  A version conflict *)
(* is success.                                                             *)
Project(s, r) ==
    docs' = [docs EXCEPT ![s] =
                IF r.updatedAt >= @.version
                THEN [present |-> TRUE, version |-> r.updatedAt, body |-> r.body]
                ELSE @]

(* DeleteProjection: unversioned, so OpenSearch counts the version up.     *)
DeleteProjection(s) ==
    docs' = [docs EXCEPT ![s] =
                IF @.present THEN [NoDoc EXCEPT !.version = docs[s].version + 1] ELSE @]

(* index.gc_deletes forgets the version of a deleted document, a minute    *)
(* after the delete: no request in flight is that old.                     *)
TombstoneGC(s) ==
    /\ ~docs[s].present /\ docs[s].version # 0
    /\ \A w \in Workers : ~(worker[w].pc = "put" /\ worker[w].sha = s)
    /\ ~(rec.pc = "put" /\ rec.sha = s)
    /\ docs' = [docs EXCEPT ![s] = NoDoc]
    /\ UNCHANGED <<sor, outbox, tx, synth, worker, rec, throughout, bounds>>

-----------------------------------------------------------------------------
(* River workers.                                                          *)

(* Work, op upsert: load the current record; if it is gone, the job is done.*)
WorkUpsert(w, i) ==
    /\ worker[w].pc = "idle"
    /\ upserts[i] > 0
    /\ upserts' = [upserts EXCEPT ![i] = @ - 1]
    /\ \/ /\ \A s \in SHAs : records[s].body.id # i
          /\ UNCHANGED worker
       \/ \E s \in SHAs :
            /\ records[s].body.id = i
            /\ worker' = [worker EXCEPT ![w] =
                            [pc |-> "put", sha |-> s, snap |-> records[s]]]
    /\ UNCHANGED <<sor, deletes, docs, tx, synth, rec, throughout, bounds>>

WorkPut(w) ==
    /\ worker[w].pc = "put"
    /\ Project(worker[w].sha, worker[w].snap)
    /\ worker' = [worker EXCEPT ![w] = IdleWorker]
    /\ UNCHANGED <<sor, outbox, tx, synth, rec, throughout, bounds>>

(* Work, op delete.                                                        *)
WorkDelete(w, s) ==
    /\ worker[w].pc = "idle"
    /\ deletes[s] > 0
    /\ deletes' = [deletes EXCEPT ![s] = @ - 1]
    /\ worker' = [worker EXCEPT ![w] = [IdleWorker EXCEPT !.pc = "delete", !.sha = s]]
    /\ UNCHANGED <<sor, upserts, docs, tx, synth, rec, throughout, bounds>>

WorkRemove(w) ==
    /\ worker[w].pc = "delete"
    /\ DeleteProjection(worker[w].sha)
    /\ worker' = [worker EXCEPT ![w] = IdleWorker]
    /\ UNCHANGED <<sor, outbox, tx, synth, rec, throughout, bounds>>

(* The jobs in progress at workers W become available again.               *)
Returned(W) ==
    /\ upserts' = [i \in Ids |-> upserts[i] +
            Cardinality({w \in W : worker[w].pc = "put" /\ worker[w].snap.body.id = i})]
    /\ deletes' = [s \in SHAs |-> deletes[s] +
            Cardinality({w \in W : worker[w].pc = "delete" /\ worker[w].sha = s})]

(* The request fails, or lands and the job is not marked complete; River   *)
(* retries it.                                                             *)
WorkRetry(w) ==
    /\ worker[w].pc # "idle"
    /\ faults < MaxFaults
    /\ faults' = faults + 1
    /\ \/ UNCHANGED docs
       \/ worker[w].pc = "put" /\ Project(worker[w].sha, worker[w].snap)
       \/ worker[w].pc = "delete" /\ DeleteProjection(worker[w].sha)
    /\ Returned({w})
    /\ worker' = [worker EXCEPT ![w] = IdleWorker]
    /\ UNCHANGED <<sor, tx, synth, rec, throughout, discards>>

(* The job's last attempt fails: River discards it.                        *)
WorkDiscard(w) ==
    /\ worker[w].pc # "idle"
    /\ discards < MaxDiscards
    /\ discards' = discards + 1
    /\ worker' = [worker EXCEPT ![w] = IdleWorker]
    /\ UNCHANGED <<sor, outbox, docs, tx, synth, rec, throughout, faults>>

-----------------------------------------------------------------------------
(* The reconciler.                                                         *)

RecStart ==
    /\ rec.pc = "idle"
    /\ rec' = [IdleRec EXCEPT !.pc = "scan"]
    /\ throughout' = {s \in SHAs : Present(s)}
    /\ UNCHANGED <<sor, outbox, docs, tx, synth, worker, bounds>>

(* ListSHAs: the page of the n records of lowest id above the cursor, or   *)
(* all of them when they are fewer.                                        *)
ListSHAs(after, n) ==
    LET rest == {s \in SHAs : records[s].body.id > after} IN
    {page \in SUBSET rest :
        /\ Cardinality(page) <= n
        /\ page = rest \/ Cardinality(page) = n
        /\ \A s \in page, r \in rest \ page : records[s].body.id < records[r].body.id}

PageLimit == IF ScanCap - Cardinality(rec.seen) < PageSize
             THEN ScanCap - Cardinality(rec.seen) ELSE PageSize

(* Mutant: the page is skipped by offset, not by key.                      *)
RecPageByOffset ==
    /\ rec.pc = "scan"
    /\ \E upTo \in ListSHAs(0, rec.cursor + PageLimit), done \in ListSHAs(0, rec.cursor) :
        rec' = [rec EXCEPT !.seen = @ \cup (upTo \ done),
                           !.cursor = rec.cursor + Cardinality(upTo \ done),
                           !.pc = IF Cardinality(upTo \ done) < PageLimit
                                  THEN "scroll" ELSE "scan"]
    /\ UNCHANGED <<sor, outbox, docs, tx, synth, worker, throughout, bounds>>

(* One keyset page of the SoR scan, and the id of its last row as the new  *)
(* cursor; PageLimit = 0 is the truncated scan.                            *)
RecPage ==
    /\ rec.pc = "scan"
    /\ \E page \in ListSHAs(rec.cursor, PageLimit) :
       \E after \in {rec.cursor} \cup {records[s].body.id : s \in page} :
        /\ \A s \in page : records[s].body.id <= after
        /\ rec' = [rec EXCEPT
                    !.seen = @ \cup page,
                    !.cursor = after,
                    !.pc = IF PageLimit = 0 \/ Cardinality(page) < PageLimit
                           THEN "scroll" ELSE "scan"]
    /\ UNCHANGED <<sor, outbox, docs, tx, synth, worker, throughout, bounds>>

(* ScrollSHAs, up to the cap and in no particular order; diffProjection.   *)
Scrolled == {S \in SUBSET {s \in SHAs : docs[s].present} :
                \/ S = {s \in SHAs : docs[s].present} /\ Cardinality(S) <= ScanCap
                \/ Cardinality(S) = ScanCap}

(* Mutant: only the missing half of the difference is computed.            *)
RecScrollNoOrphans ==
    /\ rec.pc = "scroll"
    /\ \E S \in Scrolled :
        rec' = [IdleRec EXCEPT !.pc = "repair", !.missing = rec.seen \ S,
                               !.orphan = {}, !.budget = RepairCap]
    /\ UNCHANGED <<sor, outbox, docs, tx, synth, worker, throughout, bounds>>

RecScroll ==
    /\ rec.pc = "scroll"
    /\ \E S \in Scrolled :
        rec' = [IdleRec EXCEPT !.pc = "repair", !.missing = rec.seen \ S,
                               !.orphan = S \ rec.seen, !.budget = RepairCap]
    /\ UNCHANGED <<sor, outbox, docs, tx, synth, worker, throughout, bounds>>

(* Mutant: the repair budget is not checked.                               *)
RecFetchOverBudget(s) ==
    /\ rec.pc = "repair"
    /\ s \in rec.missing
    /\ rec' = [rec EXCEPT !.missing = @ \ {s},
                          !.pc = IF Present(s) THEN "put" ELSE "repair",
                          !.sha = s, !.snap = records[s]]
    /\ UNCHANGED <<sor, outbox, docs, tx, synth, worker, throughout, bounds>>

(* A missing record is fetched in full; one that vanished is skipped.      *)
RecFetch(s) ==
    /\ rec.pc = "repair"
    /\ rec.budget > 0
    /\ s \in rec.missing
    /\ rec' = IF Present(s)
              THEN [rec EXCEPT !.missing = @ \ {s}, !.pc = "put", !.sha = s,
                               !.snap = records[s]]
              ELSE [rec EXCEPT !.missing = @ \ {s}]
    /\ UNCHANGED <<sor, outbox, docs, tx, synth, worker, throughout, bounds>>

RecPut ==
    /\ rec.pc = "put"
    /\ Project(rec.sha, rec.snap)
    /\ rec' = [rec EXCEPT !.pc = "repair", !.budget = @ - 1,
                          !.sha = AnySHA, !.snap = NoRecord]
    /\ UNCHANGED <<sor, outbox, tx, synth, worker, throughout, bounds>>

(* Orphans come after the missing ones.                                    *)
RecRemove(s) ==
    /\ rec.pc = "repair"
    /\ rec.missing = {}
    /\ rec.budget > 0
    /\ s \in rec.orphan
    /\ DeleteProjection(s)
    /\ rec' = [rec EXCEPT !.orphan = @ \ {s}, !.budget = @ - 1]
    /\ UNCHANGED <<sor, outbox, tx, synth, worker, throughout, bounds>>

(* A repair that fails is logged and skipped, at no cost to the budget.    *)
RecRepairFails ==
    /\ faults < MaxFaults
    /\ faults' = faults + 1
    /\ \/ rec.pc = "put" /\ rec' = [rec EXCEPT !.pc = "repair", !.sha = AnySHA, !.snap = NoRecord]
       \/ \E s \in rec.orphan :
            /\ rec.pc = "repair" /\ rec.missing = {} /\ rec.budget > 0
            /\ rec' = [rec EXCEPT !.orphan = @ \ {s}]
    /\ UNCHANGED <<sor, outbox, docs, tx, synth, worker, throughout, discards>>

RecDone ==
    /\ rec.pc = "repair"
    /\ rec.budget = 0 \/ (rec.missing = {} /\ rec.orphan = {})
    /\ rec' = IdleRec
    /\ throughout' = {}
    /\ UNCHANGED <<sor, outbox, docs, tx, synth, worker, bounds>>

(* Either scan fails: the cycle is over, nothing repaired.                 *)
RecAbort ==
    /\ rec.pc \in {"scan", "scroll"}
    /\ faults < MaxFaults
    /\ faults' = faults + 1
    /\ rec' = IdleRec
    /\ throughout' = {}
    /\ UNCHANGED <<sor, outbox, docs, tx, synth, worker, discards>>

-----------------------------------------------------------------------------
(* The daemon dies: transactions roll back, River rescues running jobs.    *)
Crash ==
    /\ faults < MaxFaults
    /\ faults' = faults + 1
    /\ Returned(Workers)
    /\ tx' = [t \in Txs |-> NoTx]
    /\ synth' = IdleSynth
    /\ worker' = [w \in Workers |-> IdleWorker]
    /\ rec' = IdleRec
    /\ throughout' = {}
    /\ UNCHANGED <<sor, docs, discards>>

-----------------------------------------------------------------------------
Init ==
    /\ records = [s \in SHAs |-> NoRecord]
    /\ nextId = 1
    /\ clock = 0
    /\ upserts = [i \in Ids |-> 0]
    /\ deletes = [s \in SHAs |-> 0]
    /\ docs = [s \in SHAs |-> NoDoc]
    /\ tx = [t \in Txs |-> NoTx]
    /\ synth = IdleSynth
    /\ worker = [w \in Workers |-> IdleWorker]
    /\ rec = IdleRec
    /\ throughout = {}
    /\ writtenAt = [s \in SHAs |-> 0]
    /\ faults = 0 /\ discards = 0

TxEnds(t) == CommitWrite(t) \/ CommitForget(t) \/ Rollback(t)

SynthStep == SynthExtract \/ SynthBegin \/ SynthGet \/ SynthCommit \/ BumpSynthFailure

WorkStep(w) ==
    \/ \E i \in Ids : WorkUpsert(w, i)
    \/ \E s \in SHAs : WorkDelete(w, s)
    \/ WorkPut(w) \/ WorkRemove(w)

RecStep ==
    \/ RecStart \/ RecPage \/ RecScroll \/ RecPut \/ RecDone
    \/ \E s \in SHAs : RecFetch(s) \/ RecRemove(s)

Next ==
    \/ \E t \in Txs :
        \/ \E s \in SHAs : \/ \E e \in Embeddings : Begin(t, "write", s, e)
                           \/ Begin(t, "forget", s, FALSE)
        \/ TxEnds(t)
    \/ \E s \in SHAs : SynthFetch(s) \/ TombstoneGC(s)
    \/ SynthStep \/ SynthFails
    \/ \E w \in Workers : WorkStep(w) \/ WorkRetry(w) \/ WorkDiscard(w)
    \/ RecStep \/ RecRepairFails \/ RecAbort
    \/ Crash

Spec == Init /\ [][Next]_vars

(* Workers and the reconciler's ticker keep running, transactions end, and *)
(* OpenSearch forgets deletes: repeated cycles cannot keep it from that, a *)
(* cycle comes every 30 minutes and the tombstone lasts one.               *)
FairSpec ==
    /\ Spec
    /\ \A t \in Txs : WF_vars(TxEnds(t))
    /\ WF_vars(SynthStep)
    /\ \A w \in Workers : WF_vars(WorkStep(w))
    /\ WF_vars(RecStep)
    /\ \A s \in SHAs : SF_vars(TombstoneGC(s))

-----------------------------------------------------------------------------
(* The outbox carries every committed write to the index: a document that  *)
(* is there while its record has moved on is due to be overwritten by a    *)
(* job or a request in flight, across stale reads, retries, deletes,       *)
(* re-ingests and crashes.  (Jobs River discarded, and version order that  *)
(* disagrees with commit order, are the exceptions.)                       *)
NoWriteLeftBehind ==
    discards = 0 => \A s \in SHAs : (docs[s].present /\ Present(s)) =>
        \/ docs[s].body = records[s].body
        \/ docs[s].version > writtenAt[s]
        \/ upserts[records[s].body.id] > 0
        \/ \E w \in Workers : /\ worker[w].pc = "put"
                              /\ worker[w].snap.body = records[s].body

(* The reconciler deletes a document only if at some time in the cycle its *)
(* sha had no record: the keyset scan misses no record that stays, however *)
(* other records come and go under it (reconcileBinding: "delete each doc  *)
(* whose SHA has no SoR record").                                          *)
OrphansHadNoRecord == rec.orphan \cap throughout = {}

(* Once writes stop, the index has a document for exactly the records      *)
(* there are, for good: jobs that overtook each other, ran twice or were   *)
(* discarded, and documents the reconciler deleted or restored from an old *)
(* view, are all repaired by later cycles.                                 *)
PresenceConverges ==
    <>[](\A s \in SHAs : docs[s].present = Present(s))
=============================================================================
