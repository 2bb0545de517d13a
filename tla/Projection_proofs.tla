-------------------------- MODULE Projection_proofs --------------------------
(***************************************************************************)
(* Proofs about Projection.  That the outbox leaves no write behind rests  *)
(* on two facts about time stamps (every transaction has its own, and a    *)
(* record is never stamped before its latest write) and on what every      *)
(* copy of a record that is on its way to the index may still do there.    *)
(* That the reconciler deletes only what had no record rests on the keyset *)
(* scan having seen every lasting record up to its cursor.                 *)
(***************************************************************************)
EXTENDS Projection, FiniteSetTheorems, TLAPS

(* records.id: ids are given out once, and the synthesis pass works on one *)
(* that was.                                                               *)
Unique ==
    /\ \A s \in SHAs : records[s].body.id < nextId
    /\ \A s, r \in SHAs : Present(s) /\ records[s].body.id = records[r].body.id => s = r
    /\ synth.pc \in {"distill", "extracted", "write"} => synth.id # 0

(* A repair under way is within the budget of the cycle.                   *)
Funded == rec.pc = "put" => rec.budget > 0

Base == TypeOK /\ Unique /\ Funded

(* No time stamp lies in the future, and a record's is not before the      *)
(* latest write of it (set_updated_at).                                    *)
Clocked ==
    /\ \A s \in SHAs : records[s].updatedAt <= clock /\ writtenAt[s] <= clock
    /\ \A s \in SHAs : Present(s) => records[s].updatedAt >= writtenAt[s]
    /\ \A w \in Workers : worker[w].snap.updatedAt <= clock
    /\ rec.snap.updatedAt <= clock

(* The stamp of a transaction that has not committed is not in use.        *)
Unused(b) ==
    /\ b \in 1 .. clock
    /\ \A s \in SHAs : records[s].updatedAt # b /\ writtenAt[s] # b
    /\ \A w \in Workers : worker[w].snap.updatedAt # b
    /\ rec.snap.updatedAt # b

Writing == synth.pc \in {"begun", "write"}

Stamped ==
    /\ \A t \in Txs : tx[t].op # "none" => Unused(tx[t].began)
    /\ Writing => Unused(synth.began)
    /\ \A t, u \in Txs :
          t # u /\ tx[t].op # "none" /\ tx[u].op # "none" => tx[t].began # tx[u].began
    /\ \A t \in Txs : tx[t].op # "none" /\ Writing => tx[t].began # synth.began

(* A copy stamped with the latest write of its record repeats the record.  *)
Same(s, x) == x.body = records[s].body

Latest(s, x) == Present(s) /\ x.updatedAt = writtenAt[s] => Same(s, x)

Copied ==
    /\ \A w \in Workers :
          worker[w].pc = "put" =>
              /\ worker[w].snap.body.id # 0
              /\ Latest(worker[w].sha, worker[w].snap)
    /\ rec.pc = "put" => Latest(rec.sha, rec.snap)

(* The current record of s is due to reach the index: by a job, or by a    *)
(* worker whose copy is as new as the latest write.                        *)
Carries(w, s) ==
    /\ worker[w].pc = "put" /\ worker[w].sha = s
    /\ Same(s, worker[w].snap) /\ worker[w].snap.updatedAt >= writtenAt[s]

Due(s) ==
    \/ upserts[records[s].body.id] > 0
    \/ \E w \in Workers : Carries(w, s)

(* What a copy x of the record of s may do to the index.                   *)
Harmless(s, x) ==
    Present(s) =>
        \/ Same(s, x) \/ x.updatedAt > writtenAt[s]
        \/ Due(s) \/ docs[s].version > x.updatedAt

Carried ==
    /\ \A s \in SHAs : docs[s].present /\ Present(s) =>
          \/ docs[s].body = records[s].body
          \/ docs[s].version > writtenAt[s]
          \/ Due(s)
    /\ \A w \in Workers : worker[w].pc = "put" => Harmless(worker[w].sha, worker[w].snap)
    /\ rec.pc = "put" => Harmless(rec.sha, rec.snap)

Stamps == Base /\ Clocked /\ Stamped /\ Copied

OutboxInv == Stamps /\ (discards = 0 => Carried)

(* The scan has seen every record that lasts and is not above its cursor,  *)
(* all of them once it is over.                                            *)
Scanned ==
    /\ \A s \in throughout : Present(s)
    /\ rec.pc = "scan" =>
          \A s \in throughout : records[s].body.id <= rec.cursor => s \in rec.seen
    /\ rec.pc = "scroll" => throughout \subseteq rec.seen

ScanInv == Base /\ Scanned /\ OrphansHadNoRecord

-----------------------------------------------------------------------------
(* Constants of the types.                                                 *)

LEMMA ConstantTypes ==
    /\ AnySHA \in SHAs
    /\ MaxRecords \in Nat /\ RepairCap \in Nat
    /\ NoBody \in Body /\ NoBody.id = 0
    /\ NoRecord \in Record /\ NoRecord.updatedAt = 0 /\ NoRecord.body = NoBody
    /\ NoDoc \in Doc /\ NoDoc.present = FALSE
    /\ NoTx \in Tx /\ NoTx.op = "none"
    /\ IdleSynth \in Synth /\ IdleSynth.pc = "idle"
    /\ IdleWorker \in Worker /\ IdleWorker.pc = "idle" /\ IdleWorker.snap = NoRecord
    /\ IdleRec \in Rec /\ IdleRec.pc = "idle" /\ IdleRec.snap = NoRecord
    /\ IdleRec.orphan = {}
<1>1. AnySHA \in SHAs
  BY SizesAssumption DEF AnySHA
<1>2. MaxRecords \in Nat /\ RepairCap \in Nat
  BY SizesAssumption, LimitsAssumption
<1>3. NoBody \in Body /\ NoBody.id = 0
  BY <1>2 DEF NoBody, Body
<1>4. NoRecord \in Record /\ NoRecord.updatedAt = 0 /\ NoRecord.body = NoBody
  BY <1>3 DEF NoRecord, Record
<1>5. NoDoc \in Doc /\ NoDoc.present = FALSE
  BY <1>3 DEF NoDoc, Doc
<1>6. NoTx \in Tx /\ NoTx.op = "none"
  BY <1>1 DEF NoTx, Tx
<1>7. IdleSynth \in Synth /\ IdleSynth.pc = "idle"
  BY <1>1, <1>2 DEF IdleSynth, Synth
<1>8. IdleWorker \in Worker /\ IdleWorker.pc = "idle" /\ IdleWorker.snap = NoRecord
  BY <1>1, <1>4 DEF IdleWorker, Worker
<1>9. /\ IdleRec \in Rec /\ IdleRec.pc = "idle" /\ IdleRec.snap = NoRecord
      /\ IdleRec.orphan = {}
  BY <1>1, <1>2, <1>4 DEF IdleRec, Rec
<1> QED
  BY <1>1, <1>2, <1>3, <1>4, <1>5, <1>6, <1>7, <1>8, <1>9

-----------------------------------------------------------------------------
(* What the steps do to the records table.                                 *)

(* The record of s is written, inserted or changed, by a transaction that  *)
(* began at b, with its job.                                               *)
Wrote(s, b) ==
    /\ records' \in [SHAs -> Record]
    /\ \A r \in SHAs : r # s => records'[r] = records[r]
    /\ records'[s].updatedAt = b
    /\ writtenAt' = [writtenAt EXCEPT ![s] = b]
    /\ \/ /\ records[s].body.id # 0 /\ records'[s].body.id = records[s].body.id
          /\ nextId' = nextId
       \/ /\ records[s].body.id = 0 /\ records'[s].body.id = nextId
          /\ nextId \in 1 .. MaxRecords /\ nextId' = nextId + 1
    /\ upserts' \in [Ids -> Nat]
    /\ upserts'[records'[s].body.id] > 0
    /\ \A i \in Ids : upserts'[i] >= upserts[i]

(* Records are touched: a new stamp on the same body.                      *)
Touched ==
    /\ clock' = clock + 1
    /\ records' \in [SHAs -> Record]
    /\ \A s \in SHAs :
          /\ records'[s].body = records[s].body
          /\ \/ records'[s].updatedAt = records[s].updatedAt
             \/ records'[s].updatedAt = clock' /\ Present(s)

LEMMA UpsertEffect ==
    ASSUME TypeOK, NEW s \in SHAs, NEW e \in BOOLEAN, NEW b \in Nat,
           UpsertRecord(s, e, b), writtenAt' = [writtenAt EXCEPT ![s] = b]
    PROVE  Wrote(s, b)
<1>0. records \in [SHAs -> Record] /\ records[s] \in Record /\ records[s].body \in Body
  BY DEF TypeOK, Record
<1>1. CASE Present(s)
  <2>1. PICK c \in BOOLEAN : c = (records[s].body.embedded \/ e)
    OBVIOUS
  <2>2. /\ records' = [records EXCEPT ![s].updatedAt = b, ![s].body.embedded = c]
        /\ upserts' = [upserts EXCEPT ![records[s].body.id] = @ + 1]
        /\ nextId' = nextId
    BY <1>1, <2>1 DEF UpsertRecord
  <2>3. /\ [records[s].body EXCEPT !.embedded = c] \in Body
        /\ [records[s].body EXCEPT !.embedded = c].id = records[s].body.id
    BY <1>0 DEF Body
  <2>4. PICK B \in Body : /\ B = [records[s].body EXCEPT !.embedded = c]
                          /\ B.id = records[s].body.id
    BY <2>3
  <2>5. records'[s].updatedAt = b /\ records'[s].body = B
    BY <1>0, <2>2, <2>4 DEF Record
  <2>6. records'[s] \in Record
    BY <1>0, <2>2, <2>3 DEF Record, Body
  <2>7. /\ records' \in [SHAs -> Record]
        /\ \A r \in SHAs : r # s => records'[r] = records[r]
    BY <1>0, <2>2, <2>6
  <2>8. records[s].body.id \in Ids
    BY <1>0, <1>1 DEF Present, Body, Ids
  <2>9. /\ upserts' \in [Ids -> Nat]
        /\ upserts'[records[s].body.id] > 0
        /\ \A i \in Ids : upserts'[i] >= upserts[i]
    BY <2>2, <2>8 DEF TypeOK
  <2> QED
    BY <1>1, <2>2, <2>4, <2>5, <2>7, <2>9 DEF Wrote, Present
<1>2. CASE ~Present(s)
  <2>1. /\ nextId <= MaxRecords
        /\ records' = [records EXCEPT ![s] =
                [updatedAt |-> b,
                 body |-> [id |-> nextId, synthesised |-> FALSE, embedded |-> e]]]
        /\ nextId' = nextId + 1
        /\ upserts' = [upserts EXCEPT ![nextId] = @ + 1]
    BY <1>2 DEF UpsertRecord
  <2>2. nextId \in 1 .. MaxRecords
    BY <2>1, ConstantTypes DEF TypeOK
  <2>3. PICK B : B = [id |-> nextId, synthesised |-> FALSE, embedded |-> e]
    OBVIOUS
  <2>3a. B \in Body /\ B.id = nextId
    BY <2>2, <2>3, ConstantTypes DEF Body
  <2>4. PICK R : R = [updatedAt |-> b, body |-> B]
    OBVIOUS
  <2>4a. R \in Record /\ R.body = B /\ R.updatedAt = b
    BY <2>3a, <2>4 DEF Record
  <2>5. records' = [records EXCEPT ![s] = R]
    BY <2>1, <2>3, <2>4
  <2>6. /\ upserts' \in [Ids -> Nat]
        /\ upserts'[nextId] > 0
        /\ \A i \in Ids : upserts'[i] >= upserts[i]
    <3>1. nextId \in Ids
      BY <2>2 DEF Ids
    <3> QED
      BY <2>1, <3>1 DEF TypeOK
  <2>7. /\ records' \in [SHAs -> Record] /\ records'[s] = R
        /\ \A r \in SHAs : r # s => records'[r] = records[r]
    BY <1>0, <2>4a, <2>5
  <2> QED
    BY <1>2, <2>1, <2>2, <2>3a, <2>4a, <2>6, <2>7 DEF Wrote, Present
<1> QED
  BY <1>1, <1>2

(* SetExtractedText.                                                       *)
LEMMA ExtractEffect ==
    ASSUME TypeOK, synth.pc = "distill" => synth.id # 0, SynthExtract
    PROVE  Touched
<1>1. /\ clock' = clock + 1 /\ synth.id # 0
      /\ records' = [s \in SHAs |-> IF records[s].body.id = synth.id
                                  THEN [records[s] EXCEPT !.updatedAt = clock']
                                  ELSE records[s]]
  BY DEF SynthExtract, Tick
<1>2. clock' \in Nat /\ records \in [SHAs -> Record]
  BY <1>1 DEF TypeOK
<1>3. ASSUME NEW s \in SHAs
      PROVE  /\ [records[s] EXCEPT !.updatedAt = clock'] \in Record
             /\ [records[s] EXCEPT !.updatedAt = clock'].body = records[s].body
             /\ [records[s] EXCEPT !.updatedAt = clock'].updatedAt = clock'
  BY <1>2 DEF Record
<1> QED
  BY <1>1, <1>2, <1>3 DEF Touched, Present

(* BumpSynthFailure, when it takes place.                                  *)
LEMMA BumpEffect ==
    ASSUME TypeOK, BumpSynthFailure
    PROVE  Touched \/ UNCHANGED <<records, clock>>
<1>1. CASE /\ clock' = clock + 1 /\ Present(synth.sha)
           /\ records' = [records EXCEPT ![synth.sha].updatedAt = clock']
  <2>1. clock' \in Nat /\ records \in [SHAs -> Record] /\ synth.sha \in SHAs
    BY <1>1 DEF TypeOK, Synth
  <2>2. /\ records' \in [SHAs -> Record]
        /\ \A s \in SHAs : s # synth.sha => records'[s] = records[s]
        /\ records'[synth.sha].body = records[synth.sha].body
        /\ records'[synth.sha].updatedAt = clock'
    BY <1>1, <2>1 DEF Record
  <2> QED
    BY <1>1, <2>2 DEF Touched
<1> QED
  BY <1>1 DEF BumpSynthFailure, Tick

(* The pass's UPDATE finds its row, or nothing.                            *)
LEMMA SynthCommitEffect ==
    ASSUME TypeOK, Unique, SynthCommit
    PROVE  \/ \E s \in SHAs : Wrote(s, synth.began)
           \/ /\ UNCHANGED <<records, writtenAt, nextId>>
              /\ upserts' \in [Ids -> Nat]
              /\ \A i \in Ids : upserts'[i] >= upserts[i]
<1>0. /\ synth.id # 0 /\ synth.id \in Ids
      /\ synth.embedded \in BOOLEAN /\ synth.began \in Nat
  BY DEF TypeOK, Synth, Unique, SynthCommit, Ids
<1>1. /\ upserts' \in [Ids -> Nat]
      /\ \A i \in Ids : upserts'[i] >= upserts[i]
      /\ upserts'[synth.id] > 0
  BY <1>0 DEF TypeOK, SynthCommit
<1>2. PICK B : B = [id |-> synth.id, synthesised |-> TRUE, embedded |-> synth.embedded]
  OBVIOUS
<1>2a. B \in Body /\ B.id = synth.id
  BY <1>0, <1>2, ConstantTypes DEF Body, Ids
<1>3. PICK R : R = [updatedAt |-> synth.began, body |-> B]
  OBVIOUS
<1>3a. R \in Record /\ R.body = B /\ R.updatedAt = synth.began
  BY <1>0, <1>2a, <1>3 DEF Record
<1>4. /\ records' = [s \in SHAs |-> IF records[s].body.id = synth.id THEN R ELSE records[s]]
      /\ writtenAt' = [s \in SHAs |->
            IF records[s].body.id = synth.id THEN synth.began ELSE writtenAt[s]]
      /\ nextId' = nextId
  BY <1>2, <1>3 DEF SynthCommit
<1>5. records \in [SHAs -> Record] /\ writtenAt \in [SHAs -> Nat]
  BY DEF TypeOK
<1>6. CASE \E s \in SHAs : records[s].body.id = synth.id
  <2>1. PICK s \in SHAs : records[s].body.id = synth.id
    BY <1>6
  <2>2. \A r \in SHAs : records[r].body.id = synth.id => r = s
    BY <1>0, <2>1 DEF Unique, Present
  <2>3. /\ records' \in [SHAs -> Record]
        /\ \A r \in SHAs : r # s => records'[r] = records[r]
        /\ records'[s] = R
    BY <1>3a, <1>4, <1>5, <2>1, <2>2
  <2>4. writtenAt' = [writtenAt EXCEPT ![s] = synth.began]
    BY <1>4, <1>5, <2>1, <2>2
  <2>5. Wrote(s, synth.began)
    BY <1>0, <1>1, <1>2a, <1>3a, <1>4, <2>1, <2>3, <2>4 DEF Wrote
  <2> QED
    BY <2>5
<1>7. CASE ~ \E s \in SHAs : records[s].body.id = synth.id
  <2>1. records' = records /\ writtenAt' = writtenAt
    BY <1>4, <1>5, <1>7
  <2> QED
    BY <1>1, <1>4, <2>1
<1> QED
  BY <1>6, <1>7

-----------------------------------------------------------------------------
(* What the requests do to the index.                                      *)

Put(s, x) ==
    /\ docs' \in [SHAs -> Doc]
    /\ \A r \in SHAs : r # s => docs'[r] = docs[r]
    /\ \/ /\ x.updatedAt >= docs[s].version
          /\ docs'[s].version = x.updatedAt /\ docs'[s].body = x.body
       \/ docs[s].version > x.updatedAt /\ docs'[s] = docs[s]

(* Documents go, and keep at least their version.                          *)
Removed ==
    /\ docs' \in [SHAs -> Doc]
    /\ \A s \in SHAs : \/ docs'[s] = docs[s]
                       \/ docs'[s].present = FALSE /\ docs'[s].version >= docs[s].version

LEMMA ProjectEffect ==
    ASSUME docs \in [SHAs -> Doc], NEW s \in SHAs, NEW x \in Record, Project(s, x)
    PROVE  Put(s, x)
<1>0. x.updatedAt \in Nat /\ x.body \in Body /\ docs[s] \in Doc /\ docs[s].version \in Nat
  BY DEF Record, Doc
<1>1. CASE x.updatedAt >= docs[s].version
  <2>1. PICK d : d = [present |-> TRUE, version |-> x.updatedAt, body |-> x.body]
    OBVIOUS
  <2>2. d \in Doc /\ d.version = x.updatedAt /\ d.body = x.body
    BY <1>0, <2>1 DEF Doc
  <2>3. docs' = [docs EXCEPT ![s] = d]
    BY <1>1, <2>1 DEF Project
  <2> QED
    BY <1>1, <2>2, <2>3 DEF Put
<1>2. CASE ~ (x.updatedAt >= docs[s].version)
  <2>1. docs' = docs
    BY <1>2 DEF Project
  <2>2. docs[s].version > x.updatedAt
    BY <1>0, <1>2
  <2> QED
    BY <2>1, <2>2 DEF Put
<1> QED
  BY <1>1, <1>2

LEMMA DeleteEffect ==
    ASSUME docs \in [SHAs -> Doc], NEW s \in SHAs, DeleteProjection(s)
    PROVE  Removed
<1>0. docs[s] \in Doc /\ docs[s].version \in Nat
  BY DEF Doc
<1>1. PICK d : d = [NoDoc EXCEPT !.version = docs[s].version + 1]
  OBVIOUS
<1>2. d \in Doc /\ d.present = FALSE /\ d.version = docs[s].version + 1
  <2>1. NoBody \in Body
    BY ConstantTypes
  <2>2. docs[s].version + 1 \in Nat
    BY <1>0
  <2>3. PICK v \in Nat : v = docs[s].version + 1
    BY <2>2
  <2>4. d = [present |-> FALSE, version |-> v, body |-> NoBody]
    BY <1>1, <2>3 DEF NoDoc
  <2> QED
    BY <2>1, <2>3, <2>4 DEF Doc
<1>3. docs' = [docs EXCEPT ![s] = d] \/ docs' = docs
  BY <1>1 DEF DeleteProjection
<1> QED
  BY <1>0, <1>2, <1>3 DEF Removed

-----------------------------------------------------------------------------
(* What the steps do to the copies on their way to the index.              *)

(* A carrier (a worker, the reconciler) keeps its copy, drops it, or takes *)
(* a new one of a record that is there.                                    *)
Snapped(o, n) ==
    \/ n.pc = o.pc /\ n.sha = o.sha /\ n.snap = o.snap
    \/ n.pc # "put" /\ n.snap \in {o.snap, NoRecord}
    \/ n.pc = "put" /\ n.sha \in SHAs /\ Present(n.sha) /\ n.snap = records[n.sha]

OthersWork(w) == \A v \in Workers : v # w => worker'[v] = worker[v]

LEMMA WorkUpsertEffect ==
    ASSUME TypeOK, NEW w \in Workers, NEW i \in Ids, WorkUpsert(w, i)
    PROVE  /\ worker' \in [Workers -> Worker] /\ upserts' \in [Ids -> Nat]
           /\ worker[w].pc = "idle"
           /\ OthersWork(w)
           /\ Snapped(worker[w], worker'[w])
           /\ \A j \in Ids : j # i => upserts'[j] = upserts[j]
           /\ \/ worker' = worker /\ \A s \in SHAs : records[s].body.id # i
              \/ /\ worker'[w].pc = "put" /\ worker'[w].sha \in SHAs
                 /\ worker'[w].snap = records[worker'[w].sha]
                 /\ records[worker'[w].sha].body.id = i
<1>1. /\ worker[w].pc = "idle"
      /\ upserts[i] > 0 /\ upserts' = [upserts EXCEPT ![i] = @ - 1]
  BY DEF WorkUpsert
<1>2. upserts' \in [Ids -> Nat] /\ \A j \in Ids : j # i => upserts'[j] = upserts[j]
  BY <1>1 DEF TypeOK
<1>3. CASE worker' = worker /\ \A s \in SHAs : records[s].body.id # i
  BY <1>1, <1>2, <1>3 DEF TypeOK, OthersWork, Snapped
<1>4. ASSUME NEW s \in SHAs, records[s].body.id = i,
             worker' = [worker EXCEPT ![w] = [pc |-> "put", sha |-> s, snap |-> records[s]]]
      PROVE  /\ worker' \in [Workers -> Worker]
             /\ OthersWork(w)
             /\ worker'[w].pc = "put" /\ worker'[w].sha = s /\ worker'[w].snap = records[s]
  <2>1. PICK v : v = [pc |-> "put", sha |-> s, snap |-> records[s]]
    OBVIOUS
  <2>2. v \in Worker /\ v.pc = "put" /\ v.sha = s /\ v.snap = records[s]
    BY <2>1 DEF TypeOK, Worker
  <2>3. worker' = [worker EXCEPT ![w] = v]
    BY <1>4, <2>1
  <2> QED
    BY <2>2, <2>3 DEF TypeOK, OthersWork
<1>5. i # 0
  BY DEF Ids
<1> QED
  BY <1>1, <1>2, <1>3, <1>4, <1>5 DEF WorkUpsert, Snapped, Present

LEMMA WorkDeleteEffect ==
    ASSUME TypeOK, NEW w \in Workers, NEW s \in SHAs, WorkDelete(w, s)
    PROVE  /\ worker' \in [Workers -> Worker] /\ deletes' \in [SHAs -> Nat]
           /\ worker[w].pc = "idle" /\ worker'[w].pc = "delete"
           /\ OthersWork(w)
           /\ Snapped(worker[w], worker'[w])
<1>1. /\ worker[w].pc = "idle"
      /\ deletes[s] > 0 /\ deletes' = [deletes EXCEPT ![s] = @ - 1]
  BY DEF WorkDelete
<1>2. deletes' \in [SHAs -> Nat]
  BY <1>1 DEF TypeOK
<1>3. PICK v : v = [IdleWorker EXCEPT !.pc = "delete", !.sha = s]
  OBVIOUS
<1>4. v \in Worker /\ v.pc = "delete" /\ v.snap = NoRecord
  BY <1>3, ConstantTypes DEF Worker, IdleWorker
<1>5. worker' = [worker EXCEPT ![w] = v]
  BY <1>3 DEF WorkDelete
<1> QED
  BY <1>1, <1>2, <1>4, <1>5 DEF TypeOK, OthersWork, Snapped

(* A worker is done with its job, or gives it up.                          *)
LEMMA WorkEnds ==
    ASSUME TypeOK, NEW w \in Workers, worker' = [worker EXCEPT ![w] = IdleWorker]
    PROVE  /\ worker' \in [Workers -> Worker]
           /\ worker'[w].pc = "idle"
           /\ OthersWork(w)
           /\ Snapped(worker[w], worker'[w])
BY ConstantTypes DEF TypeOK, OthersWork, Snapped

(* River makes jobs available again.                                       *)
LEMMA ReturnedEffect ==
    ASSUME TypeOK, NEW W \in SUBSET Workers, Returned(W)
    PROVE  /\ upserts' \in [Ids -> Nat] /\ deletes' \in [SHAs -> Nat]
           /\ \A i \in Ids : upserts'[i] >= upserts[i]
           /\ \A w \in W : worker[w].pc = "put" /\ worker[w].snap.body.id \in Ids
                              => upserts'[worker[w].snap.body.id] > 0
<1>1. ASSUME NEW i \in Ids
      PROVE  /\ upserts'[i] \in Nat /\ upserts'[i] >= upserts[i]
             /\ \A w \in W : worker[w].pc = "put" /\ worker[w].snap.body.id = i
                                => upserts'[i] > 0
  <2>1. PICK V \in SUBSET W : V = {w \in W : worker[w].pc = "put" /\ worker[w].snap.body.id = i}
    OBVIOUS
  <2>2. IsFiniteSet(V)
    BY SizesAssumption, FS_Subset
  <2>3. Cardinality(V) \in Nat /\ (Cardinality(V) = 0 => V = {})
    BY <2>2, FS_CardinalityType, FS_EmptySet
  <2>4. upserts'[i] = upserts[i] + Cardinality(V) /\ upserts[i] \in Nat
    BY <2>1 DEF Returned, TypeOK
  <2>5. upserts'[i] \in Nat /\ upserts'[i] >= upserts[i] /\ (V # {} => upserts'[i] > 0)
    BY <2>3, <2>4
  <2>6. ASSUME NEW w \in W, worker[w].pc = "put", worker[w].snap.body.id = i
        PROVE  V # {}
    BY <2>1, <2>6
  <2> QED
    BY <2>5, <2>6
<1>2. ASSUME NEW s \in SHAs
      PROVE  deletes'[s] \in Nat
  <2>1. PICK V \in SUBSET W : V = {w \in W : worker[w].pc = "delete" /\ worker[w].sha = s}
    OBVIOUS
  <2>2. IsFiniteSet(V)
    BY SizesAssumption, FS_Subset
  <2>3. Cardinality(V) \in Nat
    BY <2>2, FS_CardinalityType
  <2>4. deletes'[s] = deletes[s] + Cardinality(V) /\ deletes[s] \in Nat
    BY <2>1 DEF Returned, TypeOK
  <2> QED
    BY <2>3, <2>4
<1>3. upserts' \in [Ids -> Nat]
  <2>1. upserts' = [i \in Ids |-> upserts'[i]]
    BY DEF Returned
  <2> QED
    BY <1>1, <2>1
<1>4. deletes' \in [SHAs -> Nat]
  <2>1. deletes' = [s \in SHAs |-> deletes'[s]]
    BY DEF Returned
  <2> QED
    BY <1>2, <2>1
<1> QED
  BY <1>1, <1>3, <1>4

-----------------------------------------------------------------------------
(* What the steps do to the reconcile cycle.                               *)

LEMMA RecStartEffect ==
    ASSUME TypeOK, RecStart
    PROVE  /\ rec' \in Rec /\ Snapped(rec, rec')
           /\ rec'.pc = "scan" /\ rec'.cursor = 0 /\ rec'.orphan = {}
<1>1. rec' = [IdleRec EXCEPT !.pc = "scan"]
  BY DEF RecStart
<1>2. rec' \in Rec
  BY <1>1, ConstantTypes DEF Rec
<1>3. rec'.pc = "scan" /\ rec'.cursor = 0 /\ rec'.orphan = {} /\ rec'.snap = NoRecord
  BY <1>1 DEF IdleRec
<1> QED
  BY <1>2, <1>3 DEF Snapped

LEMMA RecPageEffect ==
    ASSUME TypeOK, RecPage
    PROVE  /\ rec' \in Rec /\ Snapped(rec, rec')
           /\ rec.pc = "scan" /\ rec'.pc \in {"scan", "scroll"}
           /\ rec'.orphan = rec.orphan
           /\ \E page \in ListSHAs(rec.cursor, PageLimit) :
                /\ rec'.seen = rec.seen \cup page
                /\ rec'.cursor \in {rec.cursor} \cup {records[s].body.id : s \in page}
                /\ \A s \in page : records[s].body.id <= rec'.cursor
                /\ rec'.pc = "scroll" => PageLimit = 0 \/ Cardinality(page) < PageLimit
<1>0. PICK page \in ListSHAs(rec.cursor, PageLimit) :
      \E after \in {rec.cursor} \cup {records[s].body.id : s \in page} :
        /\ rec.pc = "scan"
        /\ \A s \in page : records[s].body.id <= after
        /\ rec' = [rec EXCEPT !.seen = @ \cup page, !.cursor = after,
                              !.pc = IF PageLimit = 0 \/ Cardinality(page) < PageLimit
                                     THEN "scroll" ELSE "scan"]
  BY DEF RecPage
<1>1. PICK after \in {rec.cursor} \cup {records[s].body.id : s \in page} :
        /\ rec.pc = "scan"
        /\ \A s \in page : records[s].body.id <= after
        /\ rec' = [rec EXCEPT !.seen = @ \cup page, !.cursor = after,
                              !.pc = IF PageLimit = 0 \/ Cardinality(page) < PageLimit
                                     THEN "scroll" ELSE "scan"]
  BY <1>0
<1>2. PICK c \in {"scan", "scroll"} :
         c = IF PageLimit = 0 \/ Cardinality(page) < PageLimit THEN "scroll" ELSE "scan"
  OBVIOUS
<1>3. page \subseteq SHAs
  BY <1>0 DEF ListSHAs
<1>4. rec.seen \cup page \in SUBSET SHAs /\ rec.cursor \in 0 .. MaxRecords
  BY <1>3 DEF TypeOK, Rec
<1>5. after \in 0 .. MaxRecords
  BY <1>3, <1>4 DEF TypeOK, Record, Body
<1>6. PICK S \in SUBSET SHAs : S = rec.seen \cup page
  BY <1>4
<1>7. rec' = [rec EXCEPT !.seen = S, !.cursor = after, !.pc = c]
  BY <1>1, <1>2, <1>6
<1>8. rec' \in Rec
  BY <1>5, <1>7 DEF TypeOK, Rec
<1>9. /\ rec'.seen = S /\ rec'.cursor = after /\ rec'.pc = c
      /\ rec'.orphan = rec.orphan /\ rec'.sha = rec.sha /\ rec'.snap = rec.snap
  BY <1>7 DEF TypeOK, Rec
<1> QED
  BY <1>1, <1>2, <1>6, <1>8, <1>9 DEF Snapped

LEMMA RecScrollEffect ==
    ASSUME TypeOK, RecScroll
    PROVE  /\ rec' \in Rec /\ Snapped(rec, rec')
           /\ rec.pc = "scroll" /\ rec'.pc = "repair"
           /\ rec'.orphan \cap rec.seen = {}
<1>1. PICK S \in Scrolled :
        /\ rec.pc = "scroll"
        /\ rec' = [IdleRec EXCEPT !.pc = "repair", !.missing = rec.seen \ S,
                                  !.orphan = S \ rec.seen, !.budget = RepairCap]
  BY DEF RecScroll
<1>2. S \subseteq SHAs
  BY DEF Scrolled
<1>3. PICK m \in SUBSET SHAs : m = rec.seen \ S
  BY DEF TypeOK, Rec
<1>4. PICK o \in SUBSET SHAs : o = S \ rec.seen
  BY <1>2
<1>5. RepairCap \in 0 .. RepairCap
  BY ConstantTypes
<1>6. rec' = [IdleRec EXCEPT !.pc = "repair", !.missing = m, !.orphan = o, !.budget = RepairCap]
  BY <1>1, <1>3, <1>4
<1>7. rec' \in Rec
  BY <1>5, <1>6, ConstantTypes DEF Rec
<1>8. rec'.pc = "repair" /\ rec'.orphan = o /\ rec'.snap = NoRecord
  BY <1>6 DEF IdleRec
<1> QED
  BY <1>1, <1>4, <1>7, <1>8 DEF Snapped

LEMMA RecFetchEffect ==
    ASSUME TypeOK, NEW s \in SHAs, RecFetch(s)
    PROVE  /\ rec' \in Rec /\ Snapped(rec, rec')
           /\ rec.pc = "repair" /\ rec'.pc \in {"repair", "put"}
           /\ rec'.orphan = rec.orphan
           /\ rec.budget > 0 /\ rec'.budget = rec.budget
<1>0. rec.pc = "repair" /\ rec.budget > 0
  BY DEF RecFetch
<1>1. PICK m \in SUBSET SHAs : m = rec.missing \ {s}
  BY DEF TypeOK, Rec
<1>2. CASE Present(s)
  <2>1. rec' = [rec EXCEPT !.missing = m, !.pc = "put", !.sha = s, !.snap = records[s]]
    BY <1>1, <1>2 DEF RecFetch
  <2>2. rec' \in Rec
    BY <2>1 DEF TypeOK, Rec
  <2>3. /\ rec'.pc = "put" /\ rec'.sha = s /\ rec'.snap = records[s]
        /\ rec'.orphan = rec.orphan /\ rec'.budget = rec.budget
    BY <2>1 DEF TypeOK, Rec
  <2> QED
    BY <1>0, <1>2, <2>2, <2>3 DEF Snapped
<1>3. CASE ~Present(s)
  <2>1. rec' = [rec EXCEPT !.missing = m]
    BY <1>1, <1>3 DEF RecFetch
  <2>2. rec' \in Rec
    BY <2>1 DEF TypeOK, Rec
  <2>3. /\ rec'.pc = rec.pc /\ rec'.sha = rec.sha /\ rec'.snap = rec.snap
        /\ rec'.orphan = rec.orphan /\ rec'.budget = rec.budget
    BY <2>1 DEF TypeOK, Rec
  <2> QED
    BY <1>0, <2>2, <2>3 DEF Snapped
<1> QED
  BY <1>2, <1>3

(* A repair is over: the next one.                                         *)
LEMMA RecPutEffect ==
    ASSUME TypeOK, NEW b \in 0 .. RepairCap,
           rec' = [rec EXCEPT !.pc = "repair", !.budget = b, !.sha = AnySHA, !.snap = NoRecord]
    PROVE  /\ rec' \in Rec /\ Snapped(rec, rec')
           /\ rec'.pc = "repair" /\ rec'.orphan = rec.orphan
<1>1. rec' \in Rec
  BY ConstantTypes DEF TypeOK, Rec
<1>2. rec'.pc = "repair" /\ rec'.orphan = rec.orphan /\ rec'.snap = NoRecord
  BY DEF TypeOK, Rec
<1> QED
  BY <1>1, <1>2 DEF Snapped

LEMMA RecOrphanEffect ==
    ASSUME TypeOK, NEW s \in SHAs, NEW b \in 0 .. RepairCap,
           rec' = [rec EXCEPT !.orphan = @ \ {s}, !.budget = b]
    PROVE  /\ rec' \in Rec /\ Snapped(rec, rec')
           /\ rec'.pc = rec.pc /\ rec'.orphan \subseteq rec.orphan
<1>1. PICK o \in SUBSET SHAs : o = rec.orphan \ {s}
  BY DEF TypeOK, Rec
<1>2. rec' = [rec EXCEPT !.orphan = o, !.budget = b]
  BY <1>1
<1>3. rec' \in Rec
  BY <1>2 DEF TypeOK, Rec
<1>4. /\ rec'.pc = rec.pc /\ rec'.sha = rec.sha /\ rec'.snap = rec.snap
      /\ rec'.orphan = o
  BY <1>2 DEF TypeOK, Rec
<1> QED
  BY <1>1, <1>3, <1>4 DEF Snapped

LEMMA RecEnds ==
    ASSUME rec' = IdleRec
    PROVE  /\ rec' \in Rec /\ Snapped(rec, rec')
           /\ rec'.pc = "idle" /\ rec'.orphan = {}
BY ConstantTypes DEF Snapped

LEMMA RecPutsEffect ==
    ASSUME TypeOK, RecPut, rec.budget > 0
    PROVE  /\ rec' \in Rec /\ Snapped(rec, rec')
           /\ rec.pc = "put" /\ rec'.pc = "repair" /\ rec'.orphan = rec.orphan
           /\ rec.sha \in SHAs /\ rec.snap \in Record
           /\ Put(rec.sha, rec.snap)
<1>1. PICK b \in 0 .. RepairCap : b = rec.budget - 1
  BY ConstantTypes DEF TypeOK, Rec
<1>2. rec.sha \in SHAs /\ rec.snap \in Record /\ docs \in [SHAs -> Doc]
  BY DEF TypeOK, Rec
<1>3. /\ rec.pc = "put" /\ Project(rec.sha, rec.snap)
      /\ rec' = [rec EXCEPT !.pc = "repair", !.budget = b, !.sha = AnySHA, !.snap = NoRecord]
  BY <1>1 DEF RecPut
<1> QED
  BY <1>2, <1>3, RecPutEffect, ProjectEffect

LEMMA RecRemoveEffect ==
    ASSUME TypeOK, NEW s \in SHAs, RecRemove(s)
    PROVE  /\ rec' \in Rec /\ Snapped(rec, rec')
           /\ rec.pc = "repair" /\ rec'.pc = "repair" /\ rec'.orphan \subseteq rec.orphan
           /\ Removed
<1>1. PICK b \in 0 .. RepairCap : b = rec.budget - 1
  BY ConstantTypes DEF TypeOK, Rec, RecRemove
<1>2. docs \in [SHAs -> Doc]
  BY DEF TypeOK
<1>3. /\ rec.pc = "repair" /\ DeleteProjection(s)
      /\ rec' = [rec EXCEPT !.orphan = @ \ {s}, !.budget = b]
  BY <1>1 DEF RecRemove
<1> QED
  BY <1>2, <1>3, RecOrphanEffect, DeleteEffect

LEMMA RecRepairFailsEffect ==
    ASSUME TypeOK, RecRepairFails
    PROVE  /\ rec' \in Rec /\ Snapped(rec, rec')
           /\ rec'.pc = "repair" /\ rec'.orphan \subseteq rec.orphan
           /\ rec.pc \in {"repair", "put"}
<1>0. rec.budget \in 0 .. RepairCap /\ rec \in Rec /\ rec.orphan \subseteq SHAs
  BY DEF TypeOK, Rec
<1>1. CASE /\ rec.pc = "put"
           /\ rec' = [rec EXCEPT !.pc = "repair", !.sha = AnySHA, !.snap = NoRecord]
  <2>1. rec' = [rec EXCEPT !.pc = "repair", !.budget = rec.budget, !.sha = AnySHA,
                           !.snap = NoRecord]
    BY <1>0, <1>1 DEF Rec
  <2> QED
    BY <1>0, <1>1, <2>1, RecPutEffect
<1>2. ASSUME NEW s \in rec.orphan, rec.pc = "repair", rec' = [rec EXCEPT !.orphan = @ \ {s}]
      PROVE  /\ rec' \in Rec /\ Snapped(rec, rec')
             /\ rec'.pc = "repair" /\ rec'.orphan \subseteq rec.orphan
  <2>1. rec' = [rec EXCEPT !.orphan = @ \ {s}, !.budget = rec.budget]
    BY <1>0, <1>2 DEF Rec
  <2> QED
    BY <1>0, <1>2, <2>1, RecOrphanEffect
<1> QED
  BY <1>1, <1>2 DEF RecRepairFails

-----------------------------------------------------------------------------
(* What the steps do to the synthesis pass and to the open transactions.   *)

Named(p) == p.pc \in {"distill", "extracted", "write"} => p.id # 0

Opens(p) == p.pc \in {"begun", "write"}

(* The pass keeps the stamp of its transaction while that is open.         *)
SynthMoves ==
    /\ synth' \in Synth /\ Named(synth')
    /\ Opens(synth') => Opens(synth) /\ synth'.began = synth.began

LEMMA SynthFetchEffect ==
    ASSUME TypeOK, NEW s \in SHAs, SynthFetch(s)
    PROVE  SynthMoves
<1>1. PICK i \in 0 .. MaxRecords : i = records[s].body.id
  BY DEF TypeOK, Record, Body
<1>2. PICK e \in BOOLEAN : e = records[s].body.embedded
  BY DEF TypeOK, Record, Body
<1>3. /\ synth' = [IdleSynth EXCEPT !.pc = "distill", !.sha = s, !.id = i, !.embedded = e]
      /\ i # 0
  BY <1>1, <1>2 DEF SynthFetch, Present
<1>4. synth' \in Synth
  BY <1>3, ConstantTypes DEF Synth
<1>5. synth'.pc = "distill" /\ synth'.id = i
  BY <1>3 DEF IdleSynth
<1> QED
  BY <1>3, <1>4, <1>5 DEF SynthMoves, Named, Opens

LEMMA SynthExtractEffect ==
    ASSUME TypeOK, Unique, SynthExtract
    PROVE  SynthMoves
<1>1. synth.pc = "distill" /\ synth' = [synth EXCEPT !.pc = "extracted"]
  BY DEF SynthExtract
<1>2. synth' \in Synth /\ synth'.pc = "extracted" /\ synth'.id = synth.id
  BY <1>1 DEF TypeOK, Synth
<1> QED
  BY <1>1, <1>2 DEF Unique, SynthMoves, Named, Opens

LEMMA SynthBeginEffect ==
    ASSUME TypeOK, SynthBegin
    PROVE  /\ synth' \in Synth /\ Named(synth')
           /\ synth'.began = clock' /\ clock' = clock + 1
<1>1. PICK n \in Nat : n = clock'
  BY DEF TypeOK, SynthBegin, Tick
<1>2. synth' = [synth EXCEPT !.pc = "begun", !.began = n]
  BY <1>1 DEF SynthBegin
<1>3. synth' \in Synth
  BY <1>2 DEF TypeOK, Synth
<1>4. synth'.pc = "begun" /\ synth'.began = n
  BY <1>2 DEF TypeOK, Synth
<1> QED
  BY <1>1, <1>3, <1>4 DEF Named, SynthBegin, Tick

LEMMA SynthGetEffect ==
    ASSUME TypeOK, SynthGet
    PROVE  SynthMoves
<1>0. synth.sha \in SHAs
  BY DEF TypeOK, Synth
<1>1. PICK i \in 0 .. MaxRecords : i = records[synth.sha].body.id
  BY <1>0 DEF TypeOK, Record, Body
<1>2. PICK c \in {"write", "failed"} : c = IF Present(synth.sha) THEN "write" ELSE "failed"
  OBVIOUS
<1>3. synth.pc = "begun" /\ synth' = [synth EXCEPT !.pc = c, !.id = i]
  BY <1>1, <1>2 DEF SynthGet
<1>4. c = "write" => i # 0
  BY <1>1, <1>2 DEF Present
<1>5. synth' \in Synth
  BY <1>3 DEF TypeOK, Synth
<1>6. synth'.pc = c /\ synth'.id = i /\ synth'.began = synth.began
  BY <1>3 DEF TypeOK, Synth
<1> QED
  BY <1>3, <1>4, <1>5, <1>6 DEF SynthMoves, Named, Opens

LEMMA SynthFailsEffect ==
    ASSUME TypeOK, SynthFails
    PROVE  SynthMoves
<1>1. synth' = [synth EXCEPT !.pc = "failed"]
  BY DEF SynthFails
<1>2. synth' \in Synth /\ synth'.pc = "failed"
  BY <1>1 DEF TypeOK, Synth
<1> QED
  BY <1>2 DEF SynthMoves, Named, Opens

LEMMA SynthEnds ==
    ASSUME synth' = IdleSynth
    PROVE  SynthMoves
BY ConstantTypes DEF SynthMoves, Named, Opens

LEMMA SynthStays ==
    ASSUME TypeOK, Unique, synth' = synth
    PROVE  SynthMoves
BY DEF TypeOK, Unique, SynthMoves, Named, Opens

(* Transactions end or stay as they are.                                   *)
TxMoves ==
    /\ tx' \in [Txs -> Tx]
    /\ \A t \in Txs : tx'[t].op # "none" => tx'[t] = tx[t]

LEMMA TxEndsEffect ==
    ASSUME TypeOK, NEW t \in Txs, tx' = [tx EXCEPT ![t] = NoTx]
    PROVE  TxMoves
BY ConstantTypes DEF TypeOK, TxMoves

LEMMA TxStays ==
    ASSUME TypeOK, tx' = tx
    PROVE  TxMoves
BY DEF TypeOK, TxMoves

LEMMA BeginEffect ==
    ASSUME TypeOK, NEW t \in Txs, NEW op \in {"write", "forget"}, NEW s \in SHAs,
           NEW e \in BOOLEAN, Begin(t, op, s, e)
    PROVE  /\ tx' \in [Txs -> Tx]
           /\ tx'[t].began = clock' /\ clock' = clock + 1
           /\ \A u \in Txs : u # t => tx'[u] = tx[u]
<1>1. PICK n \in Nat : n = clock' /\ n = clock + 1
  BY DEF TypeOK, Begin, Tick
<1>2. PICK v : v = [op |-> op, sha |-> s, embedded |-> e, began |-> n]
  OBVIOUS
<1>3. v \in Tx /\ v.began = n
  BY <1>2 DEF Tx
<1>4. tx' = [tx EXCEPT ![t] = v]
  BY <1>1, <1>2 DEF Begin
<1> QED
  BY <1>1, <1>3, <1>4 DEF TypeOK

-----------------------------------------------------------------------------
(* The basic invariant.                                                    *)

(* Ids stay unique when no record gets a new one ...                       *)
LEMMA UniqueAside ==
    ASSUME Unique, Named(synth'), nextId' = nextId,
           \A s \in SHAs : records'[s].body.id = records[s].body.id
    PROVE  Unique'
BY DEF Unique, Present, Named

(* ... when one is written, and when one goes.                             *)
LEMMA UniqueWrote ==
    ASSUME TypeOK, Unique, Named(synth'), NEW s \in SHAs, NEW b, Wrote(s, b)
    PROVE  Unique'
<1>1. nextId \in Nat /\ \A r \in SHAs : records[r].body.id \in Nat
  BY ConstantTypes DEF TypeOK, Record, Body
<1> QED
  BY <1>1 DEF Unique, Present, Wrote, Named

LEMMA UniqueForgot ==
    ASSUME TypeOK, Unique, Named(synth'), nextId' = nextId, NEW s \in SHAs,
           records' = [records EXCEPT ![s] = NoRecord]
    PROVE  Unique'
<1>1. nextId > 0
  BY ConstantTypes DEF TypeOK
<1>2. records'[s].body.id = 0 /\ \A r \in SHAs : r # s => records'[r] = records[r]
  BY ConstantTypes DEF TypeOK
<1> QED
  BY <1>1, <1>2 DEF Unique, Present, Named

(* A step that leaves the records and the clock alone.                     *)
CarriersMove ==
    /\ worker' \in [Workers -> Worker]
    /\ \A w \in Workers : Snapped(worker[w], worker'[w])
    /\ rec' \in Rec /\ Snapped(rec, rec')

RestOK ==
    /\ upserts \in [Ids -> Nat] /\ deletes \in [SHAs -> Nat]
    /\ docs \in [SHAs -> Doc] /\ throughout \subseteq SHAs
    /\ faults \in Nat /\ discards \in Nat

QuietStep ==
    /\ UNCHANGED <<records, nextId, writtenAt, clock>>
    /\ TxMoves /\ SynthMoves /\ CarriersMove
    /\ RestOK' /\ Funded'

LEMMA QuietBase ==
    ASSUME Base, QuietStep
    PROVE  Base'
<1>1. TypeOK'
  BY DEF Base, TypeOK, QuietStep, TxMoves, SynthMoves, CarriersMove, RestOK
<1>2. Unique'
  BY UniqueAside DEF Base, QuietStep, SynthMoves
<1> QED
  BY <1>1, <1>2 DEF Base, QuietStep

(* Carriers that a step leaves alone.                                      *)
LEMMA WorkersStay ==
    ASSUME TypeOK, worker' = worker
    PROVE  worker' \in [Workers -> Worker] /\ \A w \in Workers : Snapped(worker[w], worker'[w])
BY DEF TypeOK, Snapped

LEMMA WorkersOther ==
    ASSUME TypeOK, NEW w \in Workers, OthersWork(w), Snapped(worker[w], worker'[w])
    PROVE  \A v \in Workers : Snapped(worker[v], worker'[v])
BY DEF OthersWork, Snapped

LEMMA RecStays ==
    ASSUME TypeOK, rec' = rec
    PROVE  rec' \in Rec /\ Snapped(rec, rec')
BY DEF TypeOK, Snapped

(* The quiet steps, one by one.                                            *)
LEMMA RollbackQuiet ==
    ASSUME Base, NEW t \in Txs, Rollback(t)
    PROVE  QuietStep
<1>1. /\ tx' = [tx EXCEPT ![t] = NoTx]
      /\ UNCHANGED <<records, nextId, clock, writtenAt, upserts, deletes, docs, synth,
                     worker, rec, throughout, faults, discards>>
  BY DEF Rollback, sor, outbox, bounds
<1>2. TxMoves /\ SynthMoves /\ CarriersMove
  BY <1>1, TxEndsEffect, SynthStays, WorkersStay, RecStays DEF Base, CarriersMove
<1>3. RestOK' /\ Funded'
  BY <1>1 DEF Base, TypeOK, RestOK, Funded
<1> QED
  BY <1>1, <1>2, <1>3 DEF QuietStep

LEMMA SynthFetchQuiet ==
    ASSUME Base, NEW s \in SHAs, SynthFetch(s)
    PROVE  QuietStep
<1>1. /\ UNCHANGED <<records, nextId, clock, writtenAt, upserts, deletes, docs, tx,
                     worker, rec, throughout, discards>>
      /\ faults' = faults
  BY DEF SynthFetch, sor, outbox, bounds
<1>2. TxMoves /\ SynthMoves /\ CarriersMove
  BY <1>1, TxStays, SynthFetchEffect, WorkersStay, RecStays DEF Base, CarriersMove
<1>3. RestOK' /\ Funded'
  BY <1>1 DEF Base, TypeOK, RestOK, Funded
<1> QED
  BY <1>1, <1>2, <1>3 DEF QuietStep

LEMMA SynthGetQuiet ==
    ASSUME Base, SynthGet
    PROVE  QuietStep
<1>1. /\ UNCHANGED <<records, nextId, clock, writtenAt, upserts, deletes, docs, tx,
                     worker, rec, throughout, discards>>
      /\ faults' = faults
  BY DEF SynthGet, sor, outbox, bounds
<1>2. TxMoves /\ SynthMoves /\ CarriersMove
  BY <1>1, TxStays, SynthGetEffect, WorkersStay, RecStays DEF Base, CarriersMove
<1>3. RestOK' /\ Funded'
  BY <1>1 DEF Base, TypeOK, RestOK, Funded
<1> QED
  BY <1>1, <1>2, <1>3 DEF QuietStep

LEMMA SynthFailsQuiet ==
    ASSUME Base, SynthFails
    PROVE  QuietStep
<1>1. /\ UNCHANGED <<records, nextId, clock, writtenAt, upserts, deletes, docs, tx,
                     worker, rec, throughout, discards>>
      /\ faults' = faults + 1
  BY DEF SynthFails, sor, outbox, bounds
<1>2. TxMoves /\ SynthMoves /\ CarriersMove
  BY <1>1, TxStays, SynthFailsEffect, WorkersStay, RecStays DEF Base, CarriersMove
<1>3. RestOK' /\ Funded'
  BY <1>1 DEF Base, TypeOK, RestOK, Funded
<1> QED
  BY <1>1, <1>2, <1>3 DEF QuietStep

LEMMA TombstoneGCQuiet ==
    ASSUME Base, NEW s \in SHAs, TombstoneGC(s)
    PROVE  QuietStep
<1>1. /\ UNCHANGED <<records, nextId, clock, writtenAt, upserts, deletes, tx, synth,
                     worker, rec, throughout, faults, discards>>
      /\ docs' = [docs EXCEPT ![s] = NoDoc]
  BY DEF TombstoneGC, sor, outbox, bounds
<1>2. TxMoves /\ SynthMoves /\ CarriersMove
  BY <1>1, TxStays, SynthStays, WorkersStay, RecStays DEF Base, CarriersMove
<1>3. docs' \in [SHAs -> Doc]
  BY <1>1, ConstantTypes DEF Base, TypeOK
<1>4. RestOK' /\ Funded'
  BY <1>1, <1>3 DEF Base, TypeOK, RestOK, Funded
<1> QED
  BY <1>1, <1>2, <1>4 DEF QuietStep

LEMMA WorkUpsertQuiet ==
    ASSUME Base, NEW w \in Workers, NEW i \in Ids, WorkUpsert(w, i)
    PROVE  QuietStep
<1>0. TypeOK
  BY DEF Base
<1>1. /\ UNCHANGED <<records, nextId, clock, writtenAt, tx, synth, rec, throughout>>
      /\ UNCHANGED <<docs, deletes, faults, discards>>
  BY DEF WorkUpsert, sor, outbox, bounds
<1>2. /\ worker' \in [Workers -> Worker]
      /\ OthersWork(w) /\ Snapped(worker[w], worker'[w])
  BY <1>0, WorkUpsertEffect DEF WorkUpsert
<1>3. CarriersMove
  BY <1>0, <1>1, <1>2, WorkersOther, RecStays DEF CarriersMove
<1>4. TxMoves /\ SynthMoves
  BY <1>0, <1>1, TxStays, SynthStays DEF Base
<1>5. docs' \in [SHAs -> Doc]
  BY <1>0, <1>1 DEF TypeOK
<1>6. upserts' \in [Ids -> Nat] /\ deletes' \in [SHAs -> Nat]
  BY <1>0, <1>1, WorkUpsertEffect DEF TypeOK
<1>7. RestOK' /\ Funded'
  BY <1>0, <1>1, <1>5, <1>6 DEF Base, TypeOK, RestOK, Funded
<1> QED
  BY <1>1, <1>3, <1>4, <1>7 DEF QuietStep

LEMMA WorkDeleteQuiet ==
    ASSUME Base, NEW w \in Workers, NEW s \in SHAs, WorkDelete(w, s)
    PROVE  QuietStep
<1>0. TypeOK
  BY DEF Base
<1>1. /\ UNCHANGED <<records, nextId, clock, writtenAt, tx, synth, rec, throughout>>
      /\ UNCHANGED <<docs, upserts, faults, discards>>
  BY DEF WorkDelete, sor, outbox, bounds
<1>2. /\ worker' \in [Workers -> Worker]
      /\ OthersWork(w) /\ Snapped(worker[w], worker'[w])
  BY <1>0, WorkDeleteEffect DEF WorkDelete
<1>3. CarriersMove
  BY <1>0, <1>1, <1>2, WorkersOther, RecStays DEF CarriersMove
<1>4. TxMoves /\ SynthMoves
  BY <1>0, <1>1, TxStays, SynthStays DEF Base
<1>5. docs' \in [SHAs -> Doc]
  BY <1>0, <1>1 DEF TypeOK
<1>6. upserts' \in [Ids -> Nat] /\ deletes' \in [SHAs -> Nat]
  BY <1>0, <1>1, WorkDeleteEffect DEF TypeOK
<1>7. RestOK' /\ Funded'
  BY <1>0, <1>1, <1>5, <1>6 DEF Base, TypeOK, RestOK, Funded
<1> QED
  BY <1>1, <1>3, <1>4, <1>7 DEF QuietStep

LEMMA WorkPutQuiet ==
    ASSUME Base, NEW w \in Workers, WorkPut(w)
    PROVE  QuietStep
<1>0. TypeOK
  BY DEF Base
<1>1. /\ UNCHANGED <<records, nextId, clock, writtenAt, tx, synth, rec, throughout>>
      /\ UNCHANGED <<upserts, deletes, faults, discards>>
  BY DEF WorkPut, sor, outbox, bounds
<1>2. /\ worker' \in [Workers -> Worker]
      /\ OthersWork(w) /\ Snapped(worker[w], worker'[w])
  BY <1>0, WorkEnds DEF WorkPut
<1>3. CarriersMove
  BY <1>0, <1>1, <1>2, WorkersOther, RecStays DEF CarriersMove
<1>4. TxMoves /\ SynthMoves
  BY <1>0, <1>1, TxStays, SynthStays DEF Base
<1>5. docs' \in [SHAs -> Doc]
  <2>1. worker[w].sha \in SHAs /\ worker[w].snap \in Record /\ docs \in [SHAs -> Doc]
    BY <1>0 DEF TypeOK, Worker
  <2> QED
    BY <2>1, ProjectEffect DEF WorkPut, Put
<1>6. upserts' \in [Ids -> Nat] /\ deletes' \in [SHAs -> Nat]
  BY <1>0, <1>1 DEF TypeOK
<1>7. RestOK' /\ Funded'
  BY <1>0, <1>1, <1>5, <1>6 DEF Base, TypeOK, RestOK, Funded
<1> QED
  BY <1>1, <1>3, <1>4, <1>7 DEF QuietStep

LEMMA WorkRemoveQuiet ==
    ASSUME Base, NEW w \in Workers, WorkRemove(w)
    PROVE  QuietStep
<1>0. TypeOK
  BY DEF Base
<1>1. /\ UNCHANGED <<records, nextId, clock, writtenAt, tx, synth, rec, throughout>>
      /\ UNCHANGED <<upserts, deletes, faults, discards>>
  BY DEF WorkRemove, sor, outbox, bounds
<1>2. /\ worker' \in [Workers -> Worker]
      /\ OthersWork(w) /\ Snapped(worker[w], worker'[w])
  BY <1>0, WorkEnds DEF WorkRemove
<1>3. CarriersMove
  BY <1>0, <1>1, <1>2, WorkersOther, RecStays DEF CarriersMove
<1>4. TxMoves /\ SynthMoves
  BY <1>0, <1>1, TxStays, SynthStays DEF Base
<1>5. docs' \in [SHAs -> Doc]
  <2>1. worker[w].sha \in SHAs /\ worker[w].snap \in Record /\ docs \in [SHAs -> Doc]
    BY <1>0 DEF TypeOK, Worker
  <2> QED
    BY <2>1, DeleteEffect DEF WorkRemove, Removed
<1>6. upserts' \in [Ids -> Nat] /\ deletes' \in [SHAs -> Nat]
  BY <1>0, <1>1 DEF TypeOK
<1>7. RestOK' /\ Funded'
  BY <1>0, <1>1, <1>5, <1>6 DEF Base, TypeOK, RestOK, Funded
<1> QED
  BY <1>1, <1>3, <1>4, <1>7 DEF QuietStep

LEMMA WorkDiscardQuiet ==
    ASSUME Base, NEW w \in Workers, WorkDiscard(w)
    PROVE  QuietStep
<1>0. TypeOK
  BY DEF Base
<1>1. /\ UNCHANGED <<records, nextId, clock, writtenAt, tx, synth, rec, throughout>>
      /\ UNCHANGED <<docs, upserts, deletes, faults>> /\ discards' = discards + 1
  BY DEF WorkDiscard, sor, outbox, bounds
<1>2. /\ worker' \in [Workers -> Worker]
      /\ OthersWork(w) /\ Snapped(worker[w], worker'[w])
  BY <1>0, WorkEnds DEF WorkDiscard
<1>3. CarriersMove
  BY <1>0, <1>1, <1>2, WorkersOther, RecStays DEF CarriersMove
<1>4. TxMoves /\ SynthMoves
  BY <1>0, <1>1, TxStays, SynthStays DEF Base
<1>5. docs' \in [SHAs -> Doc]
  BY <1>0, <1>1 DEF TypeOK
<1>6. upserts' \in [Ids -> Nat] /\ deletes' \in [SHAs -> Nat]
  BY <1>0, <1>1 DEF TypeOK
<1>7. RestOK' /\ Funded'
  BY <1>0, <1>1, <1>5, <1>6 DEF Base, TypeOK, RestOK, Funded
<1> QED
  BY <1>1, <1>3, <1>4, <1>7 DEF QuietStep

LEMMA WorkRetryQuiet ==
    ASSUME Base, NEW w \in Workers, WorkRetry(w)
    PROVE  QuietStep
<1>0. TypeOK
  BY DEF Base
<1>1. /\ UNCHANGED <<records, nextId, clock, writtenAt, tx, synth, rec, throughout>>
      /\ faults' = faults + 1 /\ discards' = discards
  BY DEF WorkRetry, sor, outbox, bounds
<1>2. /\ worker' \in [Workers -> Worker]
      /\ OthersWork(w) /\ Snapped(worker[w], worker'[w])
  BY <1>0, WorkEnds DEF WorkRetry
<1>3. CarriersMove
  BY <1>0, <1>1, <1>2, WorkersOther, RecStays DEF CarriersMove
<1>4. TxMoves /\ SynthMoves
  BY <1>0, <1>1, TxStays, SynthStays DEF Base
<1>5. docs' \in [SHAs -> Doc]
  <2>1. worker[w].sha \in SHAs /\ worker[w].snap \in Record /\ docs \in [SHAs -> Doc]
    BY <1>0 DEF TypeOK, Worker
  <2> QED
    BY <2>1, ProjectEffect, DeleteEffect DEF WorkRetry, Put, Removed
<1>6. upserts' \in [Ids -> Nat] /\ deletes' \in [SHAs -> Nat]
  BY <1>0, ReturnedEffect DEF WorkRetry
<1>7. RestOK' /\ Funded'
  BY <1>0, <1>1, <1>5, <1>6 DEF Base, TypeOK, RestOK, Funded
<1> QED
  BY <1>1, <1>3, <1>4, <1>7 DEF QuietStep

LEMMA RecStartQuiet ==
    ASSUME Base, RecStart
    PROVE  QuietStep
<1>0. TypeOK
  BY DEF Base
<1>1. /\ UNCHANGED <<records, nextId, clock, writtenAt, upserts, deletes, tx, synth, worker,
                     discards>>
      /\ UNCHANGED <<docs, faults>> /\ throughout' = {s \in SHAs : Present(s)}
  BY DEF RecStart, sor, outbox, bounds
<1>2. rec' \in Rec /\ Snapped(rec, rec') /\ Funded'
  BY <1>0, RecStartEffect DEF Base, RecStart, Funded
<1>3. TxMoves /\ SynthMoves /\ CarriersMove
  BY <1>0, <1>1, <1>2, TxStays, SynthStays, WorkersStay DEF Base, CarriersMove
<1>4. docs' \in [SHAs -> Doc]
  BY <1>0, <1>1 DEF TypeOK
<1>5. throughout' \subseteq SHAs /\ faults' \in Nat
  BY <1>0, <1>1 DEF TypeOK
<1>6. RestOK'
  BY <1>0, <1>1, <1>4, <1>5 DEF TypeOK, RestOK
<1> QED
  BY <1>1, <1>2, <1>3, <1>6 DEF QuietStep

LEMMA RecPageQuiet ==
    ASSUME Base, RecPage
    PROVE  QuietStep
<1>0. TypeOK
  BY DEF Base
<1>1. /\ UNCHANGED <<records, nextId, clock, writtenAt, upserts, deletes, tx, synth, worker,
                     discards>>
      /\ UNCHANGED <<docs, throughout, faults>>
  BY DEF RecPage, sor, outbox, bounds
<1>2. rec' \in Rec /\ Snapped(rec, rec') /\ Funded'
  BY <1>0, RecPageEffect DEF Base, RecPage, Funded
<1>3. TxMoves /\ SynthMoves /\ CarriersMove
  BY <1>0, <1>1, <1>2, TxStays, SynthStays, WorkersStay DEF Base, CarriersMove
<1>4. docs' \in [SHAs -> Doc]
  BY <1>0, <1>1 DEF TypeOK
<1>5. throughout' \subseteq SHAs /\ faults' \in Nat
  BY <1>0, <1>1 DEF TypeOK
<1>6. RestOK'
  BY <1>0, <1>1, <1>4, <1>5 DEF TypeOK, RestOK
<1> QED
  BY <1>1, <1>2, <1>3, <1>6 DEF QuietStep

LEMMA RecScrollQuiet ==
    ASSUME Base, RecScroll
    PROVE  QuietStep
<1>0. TypeOK
  BY DEF Base
<1>1. /\ UNCHANGED <<records, nextId, clock, writtenAt, upserts, deletes, tx, synth, worker,
                     discards>>
      /\ UNCHANGED <<docs, throughout, faults>>
  BY DEF RecScroll, sor, outbox, bounds
<1>2. rec' \in Rec /\ Snapped(rec, rec') /\ Funded'
  BY <1>0, RecScrollEffect DEF Base, RecScroll, Funded
<1>3. TxMoves /\ SynthMoves /\ CarriersMove
  BY <1>0, <1>1, <1>2, TxStays, SynthStays, WorkersStay DEF Base, CarriersMove
<1>4. docs' \in [SHAs -> Doc]
  BY <1>0, <1>1 DEF TypeOK
<1>5. throughout' \subseteq SHAs /\ faults' \in Nat
  BY <1>0, <1>1 DEF TypeOK
<1>6. RestOK'
  BY <1>0, <1>1, <1>4, <1>5 DEF TypeOK, RestOK
<1> QED
  BY <1>1, <1>2, <1>3, <1>6 DEF QuietStep

LEMMA RecFetchQuiet ==
    ASSUME Base, NEW s \in SHAs, RecFetch(s)
    PROVE  QuietStep
<1>0. TypeOK
  BY DEF Base
<1>1. /\ UNCHANGED <<records, nextId, clock, writtenAt, upserts, deletes, tx, synth, worker,
                     discards>>
      /\ UNCHANGED <<docs, throughout, faults>>
  BY DEF RecFetch, sor, outbox, bounds
<1>2. rec' \in Rec /\ Snapped(rec, rec') /\ Funded'
  BY <1>0, RecFetchEffect DEF Base, RecFetch, Funded
<1>3. TxMoves /\ SynthMoves /\ CarriersMove
  BY <1>0, <1>1, <1>2, TxStays, SynthStays, WorkersStay DEF Base, CarriersMove
<1>4. docs' \in [SHAs -> Doc]
  BY <1>0, <1>1 DEF TypeOK
<1>5. throughout' \subseteq SHAs /\ faults' \in Nat
  BY <1>0, <1>1 DEF TypeOK
<1>6. RestOK'
  BY <1>0, <1>1, <1>4, <1>5 DEF TypeOK, RestOK
<1> QED
  BY <1>1, <1>2, <1>3, <1>6 DEF QuietStep

LEMMA RecPutQuiet ==
    ASSUME Base, RecPut
    PROVE  QuietStep
<1>0. TypeOK
  BY DEF Base
<1>1. /\ UNCHANGED <<records, nextId, clock, writtenAt, upserts, deletes, tx, synth, worker,
                     discards>>
      /\ UNCHANGED <<throughout, faults>>
  BY DEF RecPut, sor, outbox, bounds
<1>2. rec' \in Rec /\ Snapped(rec, rec') /\ Funded'
  BY <1>0, RecPutsEffect DEF Base, RecPut, Funded
<1>3. TxMoves /\ SynthMoves /\ CarriersMove
  BY <1>0, <1>1, <1>2, TxStays, SynthStays, WorkersStay DEF Base, CarriersMove
<1>4. docs' \in [SHAs -> Doc]
  BY <1>0, RecPutsEffect DEF Base, Funded, RecPut, Put
<1>5. throughout' \subseteq SHAs /\ faults' \in Nat
  BY <1>0, <1>1 DEF TypeOK
<1>6. RestOK'
  BY <1>0, <1>1, <1>4, <1>5 DEF TypeOK, RestOK
<1> QED
  BY <1>1, <1>2, <1>3, <1>6 DEF QuietStep

LEMMA RecRemoveQuiet ==
    ASSUME Base, NEW s \in SHAs, RecRemove(s)
    PROVE  QuietStep
<1>0. TypeOK
  BY DEF Base
<1>1. /\ UNCHANGED <<records, nextId, clock, writtenAt, upserts, deletes, tx, synth, worker,
                     discards>>
      /\ UNCHANGED <<throughout, faults>>
  BY DEF RecRemove, sor, outbox, bounds
<1>2. rec' \in Rec /\ Snapped(rec, rec') /\ Funded'
  BY <1>0, RecRemoveEffect DEF Base, RecRemove, Funded
<1>3. TxMoves /\ SynthMoves /\ CarriersMove
  BY <1>0, <1>1, <1>2, TxStays, SynthStays, WorkersStay DEF Base, CarriersMove
<1>4. docs' \in [SHAs -> Doc]
  BY <1>0, RecRemoveEffect DEF Removed
<1>5. throughout' \subseteq SHAs /\ faults' \in Nat
  BY <1>0, <1>1 DEF TypeOK
<1>6. RestOK'
  BY <1>0, <1>1, <1>4, <1>5 DEF TypeOK, RestOK
<1> QED
  BY <1>1, <1>2, <1>3, <1>6 DEF QuietStep

LEMMA RecRepairFailsQuiet ==
    ASSUME Base, RecRepairFails
    PROVE  QuietStep
<1>0. TypeOK
  BY DEF Base
<1>1. /\ UNCHANGED <<records, nextId, clock, writtenAt, upserts, deletes, tx, synth, worker,
                     discards>>
      /\ UNCHANGED <<docs, throughout>> /\ faults' = faults + 1
  BY DEF RecRepairFails, sor, outbox, bounds
<1>2. rec' \in Rec /\ Snapped(rec, rec') /\ Funded'
  BY <1>0, RecRepairFailsEffect DEF Base, RecRepairFails, Funded
<1>3. TxMoves /\ SynthMoves /\ CarriersMove
  BY <1>0, <1>1, <1>2, TxStays, SynthStays, WorkersStay DEF Base, CarriersMove
<1>4. docs' \in [SHAs -> Doc]
  BY <1>0, <1>1 DEF TypeOK
<1>5. throughout' \subseteq SHAs /\ faults' \in Nat
  BY <1>0, <1>1 DEF TypeOK
<1>6. RestOK'
  BY <1>0, <1>1, <1>4, <1>5 DEF TypeOK, RestOK
<1> QED
  BY <1>1, <1>2, <1>3, <1>6 DEF QuietStep

LEMMA RecDoneQuiet ==
    ASSUME Base, RecDone
    PROVE  QuietStep
<1>0. TypeOK
  BY DEF Base
<1>1. /\ UNCHANGED <<records, nextId, clock, writtenAt, upserts, deletes, tx, synth, worker,
                     discards>>
      /\ UNCHANGED <<docs, faults>> /\ throughout' = {}
  BY DEF RecDone, sor, outbox, bounds
<1>2. rec' \in Rec /\ Snapped(rec, rec') /\ Funded'
  BY <1>0, RecEnds DEF Base, RecDone, Funded
<1>3. TxMoves /\ SynthMoves /\ CarriersMove
  BY <1>0, <1>1, <1>2, TxStays, SynthStays, WorkersStay DEF Base, CarriersMove
<1>4. docs' \in [SHAs -> Doc]
  BY <1>0, <1>1 DEF TypeOK
<1>5. throughout' \subseteq SHAs /\ faults' \in Nat
  BY <1>0, <1>1 DEF TypeOK
<1>6. RestOK'
  BY <1>0, <1>1, <1>4, <1>5 DEF TypeOK, RestOK
<1> QED
  BY <1>1, <1>2, <1>3, <1>6 DEF QuietStep

LEMMA RecAbortQuiet ==
    ASSUME Base, RecAbort
    PROVE  QuietStep
<1>0. TypeOK
  BY DEF Base
<1>1. /\ UNCHANGED <<records, nextId, clock, writtenAt, upserts, deletes, tx, synth, worker,
                     discards>>
      /\ docs' = docs /\ throughout' = {} /\ faults' = faults + 1
  BY DEF RecAbort, sor, outbox, bounds
<1>2. rec' \in Rec /\ Snapped(rec, rec') /\ Funded'
  BY <1>0, RecEnds DEF Base, RecAbort, Funded
<1>3. TxMoves /\ SynthMoves /\ CarriersMove
  BY <1>0, <1>1, <1>2, TxStays, SynthStays, WorkersStay DEF Base, CarriersMove
<1>4. docs' \in [SHAs -> Doc]
  BY <1>0, <1>1 DEF TypeOK
<1>5. throughout' \subseteq SHAs /\ faults' \in Nat
  BY <1>0, <1>1 DEF TypeOK
<1>6. RestOK'
  BY <1>0, <1>1, <1>4, <1>5 DEF TypeOK, RestOK
<1> QED
  BY <1>1, <1>2, <1>3, <1>6 DEF QuietStep

LEMMA CrashQuiet ==
    ASSUME Base, Crash
    PROVE  QuietStep
<1>0. TypeOK
  BY DEF Base
<1>1. /\ UNCHANGED <<records, nextId, clock, writtenAt, docs, discards>>
      /\ tx' = [t \in Txs |-> NoTx] /\ synth' = IdleSynth
      /\ worker' = [w \in Workers |-> IdleWorker] /\ rec' = IdleRec
      /\ throughout' = {} /\ faults' = faults + 1
      /\ Returned(Workers)
  BY DEF Crash, sor
<1>2. TxMoves
  BY <1>1, ConstantTypes DEF TxMoves
<1>3. CarriersMove
  BY <1>1, RecEnds, ConstantTypes DEF CarriersMove, Snapped
<1>4. SynthMoves
  BY <1>1, SynthEnds
<1>5. upserts' \in [Ids -> Nat] /\ deletes' \in [SHAs -> Nat]
  BY <1>0, <1>1, ReturnedEffect
<1>6. RestOK' /\ Funded'
  BY <1>0, <1>1, <1>5, RecEnds DEF TypeOK, RestOK, Funded
<1> QED
  BY <1>1, <1>2, <1>3, <1>4, <1>6 DEF QuietStep

-----------------------------------------------------------------------------
(* The time stamps.                                                        *)

(* The stamps in use are numbers.                                          *)
LEMMA StampTypes ==
    ASSUME TypeOK
    PROVE  /\ clock \in Nat
           /\ \A s \in SHAs : records[s].updatedAt \in Nat /\ writtenAt[s] \in Nat
           /\ \A s \in SHAs : docs[s].version \in Nat
           /\ \A w \in Workers : worker[w].snap.updatedAt \in Nat /\ worker[w].sha \in SHAs
           /\ rec.snap.updatedAt \in Nat /\ rec.sha \in SHAs
           /\ \A t \in Txs : tx[t].began \in Nat
           /\ synth.began \in Nat
BY DEF TypeOK, Record, Doc, Worker, Rec, Tx, Synth

(* The stamp b is not in use after the step.                               *)
UnusedNext(b) ==
    /\ b \in 1 .. clock'
    /\ \A s \in SHAs : records'[s].updatedAt # b /\ writtenAt'[s] # b
    /\ \A w \in Workers : worker'[w].snap.updatedAt # b
    /\ rec'.snap.updatedAt # b

LEMMA StampedKept ==
    ASSUME TypeOK, Stamped, TxMoves, SynthMoves,
           \A t \in Txs : tx'[t].op # "none" /\ Unused(tx[t].began)
                             => UnusedNext(tx[t].began),
           Opens(synth') /\ Unused(synth.began) => UnusedNext(synth.began)
    PROVE  Stamped'
<1>1. /\ \A t \in Txs : tx'[t].op # "none" => tx'[t] = tx[t]
      /\ Writing' => Writing /\ synth'.began = synth.began /\ Opens(synth')
  BY DEF TxMoves, SynthMoves, Opens, Writing
<1>2. ASSUME NEW t \in Txs, tx'[t].op # "none"
      PROVE  Unused(tx[t].began)'
  <2>1. UnusedNext(tx[t].began) /\ tx'[t].began = tx[t].began
    BY <1>1, <1>2 DEF Stamped
  <2>2. PICK b : b = tx[t].began
    OBVIOUS
  <2> QED
    BY <2>1, <2>2 DEF Unused, UnusedNext
<1>3. Writing' => Unused(synth.began)'
  <2>1. Writing' => UnusedNext(synth.began) /\ synth'.began = synth.began
    BY <1>1 DEF Stamped
  <2>2. PICK b : b = synth.began
    OBVIOUS
  <2> QED
    BY <2>1, <2>2 DEF Unused, UnusedNext
<1>4. \A t, u \in Txs : t # u /\ tx'[t].op # "none" /\ tx'[u].op # "none"
                          => tx'[t].began # tx'[u].began
  BY <1>1 DEF Stamped
<1>5. \A t \in Txs : tx'[t].op # "none" /\ Writing' => tx'[t].began # synth'.began
  BY <1>1 DEF Stamped
<1> QED
  BY <1>2, <1>3, <1>4, <1>5 DEF Stamped

LEMMA QuietStamps ==
    ASSUME Stamps, QuietStep
    PROVE  Stamps'
<1>0. TypeOK /\ TypeOK' /\ Base'
  BY QuietBase DEF Stamps, Base
<1>1. UNCHANGED <<records, writtenAt, clock>> /\ NoRecord.updatedAt = 0
  BY ConstantTypes DEF QuietStep
<1>2. \A w \in Workers : worker'[w].snap.updatedAt = worker[w].snap.updatedAt
                         \/ worker'[w].snap.updatedAt = 0
                         \/ \E s \in SHAs : worker'[w].snap.updatedAt = records[s].updatedAt
  BY <1>1 DEF QuietStep, CarriersMove, Snapped
<1>3. \/ rec'.snap.updatedAt = rec.snap.updatedAt
      \/ rec'.snap.updatedAt = 0
      \/ \E s \in SHAs : rec'.snap.updatedAt = records[s].updatedAt
  BY <1>1 DEF QuietStep, CarriersMove, Snapped
<1>4. Clocked'
  <2>1. \A w \in Workers : worker'[w].snap.updatedAt <= clock
    BY <1>0, <1>2, StampTypes DEF Stamps, Clocked
  <2>2. rec'.snap.updatedAt <= clock
    BY <1>0, <1>3, StampTypes DEF Stamps, Clocked
  <2> QED
    BY <1>1, <2>1, <2>2 DEF Stamps, Clocked, Present
<1>5. ASSUME NEW b \in Nat, Unused(b)
      PROVE  UnusedNext(b)
  <2>1. \A w \in Workers : worker'[w].snap.updatedAt # b
    BY <1>2, <1>5 DEF Unused
  <2>2. rec'.snap.updatedAt # b
    BY <1>3, <1>5 DEF Unused
  <2> QED
    BY <1>1, <1>5, <2>1, <2>2 DEF Unused, UnusedNext
<1>6. Stamped'
  BY <1>0, <1>5, StampTypes, StampedKept DEF QuietStep, Stamps
<1>7. Copied'
  <2>1. ASSUME NEW w \in Workers, worker'[w].pc = "put"
        PROVE  worker'[w].snap.body.id # 0 /\ Latest(worker[w].sha, worker[w].snap)'
    <3>1. Snapped(worker[w], worker'[w])
      BY DEF QuietStep, CarriersMove
    <3> QED
      BY <1>1, <2>1, <3>1 DEF Stamps, Copied, Latest, Same, Present, Snapped
  <2>2. ASSUME rec'.pc = "put"
        PROVE  Latest(rec.sha, rec.snap)'
    <3>1. Snapped(rec, rec')
      BY DEF QuietStep, CarriersMove
    <3> QED
      BY <1>1, <2>2, <3>1 DEF Stamps, Copied, Latest, Same, Present, Snapped
  <2> QED
    BY <2>1, <2>2 DEF Copied
<1> QED
  BY <1>0, <1>4, <1>6, <1>7 DEF Stamps

(* A transaction opens at a time of its own.                               *)
LEMMA OpenedStamps ==
    ASSUME Stamps, Base', UNCHANGED <<records, writtenAt, worker, rec>>,
           clock' = clock + 1,
           \/ /\ synth' = synth
              /\ \E t \in Txs : /\ tx'[t].began = clock'
                                /\ \A u \in Txs : u # t => tx'[u] = tx[u]
           \/ tx' = tx /\ synth'.began = clock'
    PROVE  Stamps'
<1>0. TypeOK
  BY DEF Stamps, Base
<1>1. Clocked'
  BY <1>0, StampTypes DEF Stamps, Clocked, Present
<1>2. ASSUME NEW b \in Nat, Unused(b)
      PROVE  UnusedNext(b) /\ b # clock'
  BY <1>0, <1>2, StampTypes DEF Unused, UnusedNext
<1>3. UnusedNext(clock + 1)
  BY <1>0, StampTypes DEF UnusedNext, Stamps, Clocked
<1>4. Stamped'
  <2>1. CASE synth' = synth /\ \E t \in Txs : /\ tx'[t].began = clock'
                                /\ \A u \in Txs : u # t => tx'[u] = tx[u]
    <3>1. PICK t \in Txs : /\ tx'[t].began = clock'
                           /\ \A u \in Txs : u # t => tx'[u] = tx[u]
      BY <2>1
    <3>2. \A u \in Txs : u # t /\ tx'[u].op # "none" => tx'[u].began # clock'
      BY <1>0, <1>2, <3>1, StampTypes DEF Stamps, Stamped
    <3>3. Writing' => Writing /\ synth'.began = synth.began /\ synth.began # clock'
      BY <1>0, <1>2, <2>1, StampTypes DEF Stamps, Stamped, Writing
    <3>4. ASSUME NEW u \in Txs, tx'[u].op # "none"
          PROVE  Unused(tx[u].began)'
      <4>1. UnusedNext(tx'[u].began)
        BY <1>0, <1>2, <1>3, <3>1, <3>4, StampTypes DEF Stamps, Stamped
      <4> QED
        BY <4>1 DEF Unused, UnusedNext
    <3>5. Writing' => Unused(synth.began)'
      <4>1. Writing' => UnusedNext(synth'.began)
        BY <1>0, <1>2, <3>3, StampTypes DEF Stamps, Stamped
      <4> QED
        BY <4>1 DEF Unused, UnusedNext
    <3>6. \A u, v \in Txs : u # v /\ tx'[u].op # "none" /\ tx'[v].op # "none"
                              => tx'[u].began # tx'[v].began
      BY <3>1, <3>2 DEF Stamps, Stamped
    <3>7. \A u \in Txs : tx'[u].op # "none" /\ Writing' => tx'[u].began # synth'.began
      BY <3>1, <3>3 DEF Stamps, Stamped
    <3> QED
      BY <3>4, <3>5, <3>6, <3>7 DEF Stamped
  <2>2. CASE tx' = tx /\ synth'.began = clock'
    <3>1. ASSUME NEW u \in Txs, tx'[u].op # "none"
          PROVE  Unused(tx[u].began)' /\ tx'[u].began # clock'
      <4>1. UnusedNext(tx'[u].began) /\ tx'[u].began # clock'
        BY <1>0, <1>2, <2>2, <3>1, StampTypes DEF Stamps, Stamped
      <4> QED
        BY <4>1 DEF Unused, UnusedNext
    <3>2. \A u, v \in Txs : u # v /\ tx'[u].op # "none" /\ tx'[v].op # "none"
                              => tx'[u].began # tx'[v].began
      BY <2>2 DEF Stamps, Stamped
    <3>3. Unused(synth.began)'
      <4>1. UnusedNext(synth'.began)
        BY <1>3, <2>2
      <4> QED
        BY <4>1 DEF Unused, UnusedNext
    <3> QED
      BY <2>2, <3>1, <3>2, <3>3 DEF Stamped
  <2> QED
    BY <2>1, <2>2
<1>5. Copied'
  BY DEF Stamps, Copied, Latest, Same, Present
<1> QED
  BY <1>1, <1>4, <1>5 DEF Stamps

(* A transaction that began at b writes its record.                        *)
LEMMA WroteStamps ==
    ASSUME Stamps, Base', NEW s \in SHAs, NEW b \in Nat, Unused(b), Wrote(s, b),
           UNCHANGED <<worker, rec, clock>>, TxMoves, SynthMoves,
           \A t \in Txs : tx'[t].op # "none" => tx[t].began # b,
           Opens(synth') => synth.began # b
    PROVE  Stamps'
<1>0. TypeOK
  BY DEF Stamps, Base
<1>1. /\ \A r \in SHAs : r # s => records'[r] = records[r] /\ writtenAt'[r] = writtenAt[r]
      /\ records'[s].updatedAt = b /\ writtenAt'[s] = b
  BY <1>0 DEF Wrote, TypeOK
<1>2. b <= clock
  BY <1>0 DEF Unused, TypeOK
<1>3. Clocked'
  BY <1>1, <1>2 DEF Stamps, Clocked, Present
<1>4. ASSUME NEW c \in Nat, Unused(c), c # b
      PROVE  UnusedNext(c)
  BY <1>1, <1>4 DEF Unused, UnusedNext
<1>5. Stamped'
  <2>1. \A t \in Txs : tx'[t].op # "none" /\ Unused(tx[t].began) => UnusedNext(tx[t].began)
    BY <1>0, <1>4, StampTypes
  <2>2. Opens(synth') /\ Unused(synth.began) => UnusedNext(synth.began)
    BY <1>0, <1>4, StampTypes
  <2> QED
    BY <1>0, <2>1, <2>2, StampedKept DEF Stamps
<1>6. Copied'
  <2>1. ASSUME NEW r \in SHAs, NEW x, Latest(r, x), x.updatedAt # b
        PROVE  Present(r)' /\ x.updatedAt = writtenAt'[r] => x.body = records'[r].body
    BY <1>1, <2>1 DEF Latest, Same, Present
  <2> QED
    BY <1>0, <2>1, StampTypes DEF Stamps, Copied, Unused, Latest, Same
<1> QED
  BY <1>3, <1>5, <1>6 DEF Stamps

(* Records are touched at a time of their own.                             *)
LEMMA TouchedStamps ==
    ASSUME Stamps, Base', Touched, UNCHANGED <<worker, rec, writtenAt>>, TxMoves, SynthMoves
    PROVE  Stamps'
<1>0. TypeOK
  BY DEF Stamps, Base
<1>1. /\ clock' = clock + 1
      /\ \A s \in SHAs :
          /\ records'[s].body = records[s].body
          /\ \/ records'[s].updatedAt = records[s].updatedAt
             \/ records'[s].updatedAt = clock'
  BY DEF Touched
<1>2. Clocked'
  BY <1>0, <1>1, StampTypes DEF Stamps, Clocked, Present
<1>3. ASSUME NEW b \in Nat, Unused(b)
      PROVE  UnusedNext(b)
  BY <1>0, <1>1, <1>3, StampTypes DEF Unused, UnusedNext
<1>4. Stamped'
  BY <1>0, <1>3, StampTypes, StampedKept DEF Stamps
<1>5. Copied'
  BY <1>0, <1>1, StampTypes DEF Stamps, Copied, Latest, Same, Present
<1> QED
  BY <1>2, <1>4, <1>5 DEF Stamps

(* A record goes.                                                          *)
LEMMA ForgotStamps ==
    ASSUME Stamps, Base', NEW s \in SHAs, records' = [records EXCEPT ![s] = NoRecord],
           UNCHANGED <<worker, rec, writtenAt, clock>>, TxMoves, SynthMoves
    PROVE  Stamps'
<1>0. TypeOK
  BY DEF Stamps, Base
<1>1. /\ \A r \in SHAs : r # s => records'[r] = records[r]
      /\ records'[s].updatedAt = 0 /\ records'[s].body.id = 0
  BY <1>0, ConstantTypes DEF TypeOK
<1>2. Clocked'
  BY <1>0, <1>1, StampTypes DEF Stamps, Clocked, Present
<1>3. ASSUME NEW b \in Nat, Unused(b)
      PROVE  UnusedNext(b)
  BY <1>1, <1>3 DEF Unused, UnusedNext
<1>4. Stamped'
  BY <1>0, <1>3, StampTypes, StampedKept DEF Stamps
<1>5. Copied'
  BY <1>0, <1>1, StampTypes DEF Stamps, Copied, Latest, Same, Present
<1> QED
  BY <1>2, <1>4, <1>5 DEF Stamps

(* The steps that write records or move the clock, one by one.             *)
LEMMA BeginStamps ==
    ASSUME Base, NEW t \in Txs, NEW op \in {"write", "forget"}, NEW s \in SHAs,
           NEW e \in BOOLEAN, Begin(t, op, s, e)
    PROVE  Base' /\ (Stamps => Stamps')
<1>0. TypeOK
  BY DEF Base
<1>1. UNCHANGED <<records, nextId, writtenAt, upserts, deletes, docs, synth, worker, rec,
                  throughout, faults, discards>>
  BY DEF Begin, outbox, bounds
<1>2. /\ tx' \in [Txs -> Tx] /\ tx'[t].began = clock' /\ clock' = clock + 1
      /\ \A u \in Txs : u # t => tx'[u] = tx[u]
  BY <1>0, BeginEffect
<1>3. TypeOK'
  BY <1>0, <1>1, <1>2 DEF TypeOK
<1>4. Unique' /\ Funded'
  BY <1>1 DEF Base, Unique, Present, Funded
<1>5. Base'
  BY <1>3, <1>4 DEF Base
<1> QED
  BY <1>1, <1>2, <1>5, OpenedStamps

LEMMA SynthBeginStamps ==
    ASSUME Base, SynthBegin
    PROVE  Base' /\ (Stamps => Stamps')
<1>0. TypeOK
  BY DEF Base
<1>1. UNCHANGED <<records, nextId, writtenAt, upserts, deletes, docs, tx, worker, rec,
                  throughout, faults, discards>>
  BY DEF SynthBegin, outbox, bounds
<1>2. synth' \in Synth /\ Named(synth') /\ synth'.began = clock' /\ clock' = clock + 1
  BY <1>0, SynthBeginEffect
<1>3. TypeOK'
  BY <1>0, <1>1, <1>2 DEF TypeOK
<1>4. Unique' /\ Funded'
  BY <1>1, <1>2, UniqueAside DEF Base, Funded
<1>5. Base'
  BY <1>3, <1>4 DEF Base
<1> QED
  BY <1>1, <1>2, <1>5, OpenedStamps

(* The committed transaction writes under a stamp of its own.              *)
LEMMA CommitWriteStamps ==
    ASSUME Base, NEW t \in Txs, CommitWrite(t)
    PROVE  /\ Base' /\ (Stamps => Stamps')
           /\ Wrote(tx[t].sha, tx[t].began)
           /\ tx[t].sha \in SHAs
<1>0. TypeOK
  BY DEF Base
<1>1. PICK s \in SHAs : s = tx[t].sha
  BY <1>0 DEF TypeOK, Tx
<1>2. PICK b \in Nat : b = tx[t].began
  BY <1>0 DEF TypeOK, Tx
<1>3. PICK e \in BOOLEAN : e = tx[t].embedded
  BY <1>0 DEF TypeOK, Tx
<1>4. /\ UpsertRecord(s, e, b) /\ writtenAt' = [writtenAt EXCEPT ![s] = b]
      /\ tx[t].op = "write" /\ tx' = [tx EXCEPT ![t] = NoTx]
      /\ UNCHANGED <<clock, deletes, docs, synth, worker, rec, throughout, faults, discards>>
  BY <1>1, <1>2, <1>3 DEF CommitWrite, bounds
<1>5. Wrote(s, b)
  BY <1>0, <1>4, UpsertEffect
<1>6. TxMoves /\ SynthMoves /\ Named(synth')
  BY <1>0, <1>4, TxEndsEffect, SynthStays DEF Base, SynthMoves
<1>7. nextId' \in 1 .. MaxRecords + 1 /\ writtenAt' \in [SHAs -> Nat]
  BY <1>0, <1>4, <1>5, ConstantTypes DEF TypeOK, Wrote
<1>8. TypeOK'
  BY <1>0, <1>4, <1>5, <1>6, <1>7 DEF TypeOK, Wrote, TxMoves
<1>9. Unique' /\ Funded'
  BY <1>0, <1>4, <1>5, <1>6, UniqueWrote DEF Base, Funded
<1>10. Base'
  BY <1>8, <1>9 DEF Base
<1>11. Stamps => Stamps'
  <2>1. SUFFICES ASSUME Stamps
                 PROVE  Stamps'
    OBVIOUS
  <2>2. Unused(b)
    BY <1>2, <1>4, <2>1 DEF Stamps, Stamped
  <2>3. tx'[t].op = "none"
    BY <1>0, <1>4, ConstantTypes DEF TypeOK
  <2>4. \A u \in Txs : tx'[u].op # "none" => tx[u].began # b
    BY <1>2, <1>4, <1>6, <2>1, <2>3 DEF Stamps, Stamped, TxMoves
  <2>5. Opens(synth') => synth.began # b
    BY <1>2, <1>4, <2>1 DEF Stamps, Stamped, Opens, Writing
  <2> QED
    BY <1>4, <1>5, <1>6, <1>10, <2>1, <2>2, <2>4, <2>5, WroteStamps
<1> QED
  BY <1>1, <1>2, <1>5, <1>10, <1>11

LEMMA CommitForgetStamps ==
    ASSUME Base, NEW t \in Txs, CommitForget(t)
    PROVE  /\ Base' /\ (Stamps => Stamps')
           /\ \E s \in SHAs : records' = [records EXCEPT ![s] = NoRecord]
                              /\ throughout' = throughout \ {s}
<1>0. TypeOK
  BY DEF Base
<1>1. PICK s \in SHAs : s = tx[t].sha
  BY <1>0 DEF TypeOK, Tx
<1>2. /\ records' = [records EXCEPT ![s] = NoRecord]
      /\ deletes' = [deletes EXCEPT ![s] = @ + 1]
      /\ throughout' = throughout \ {s}
      /\ tx' = [tx EXCEPT ![t] = NoTx]
      /\ UNCHANGED <<nextId, clock, writtenAt, upserts, docs, synth, worker, rec, faults,
                     discards>>
  BY <1>1 DEF CommitForget, bounds
<1>3. TxMoves /\ SynthMoves /\ Named(synth')
  BY <1>0, <1>2, TxEndsEffect, SynthStays DEF Base, SynthMoves
<1>4. /\ records' \in [SHAs -> Record] /\ deletes' \in [SHAs -> Nat]
      /\ throughout' \subseteq SHAs
  BY <1>0, <1>2, ConstantTypes DEF TypeOK
<1>5. TypeOK'
  BY <1>0, <1>2, <1>3, <1>4 DEF TypeOK, TxMoves
<1>6. Unique' /\ Funded'
  BY <1>0, <1>2, <1>3, UniqueForgot DEF Base, Funded
<1>7. Base'
  BY <1>5, <1>6 DEF Base
<1> QED
  BY <1>2, <1>3, <1>7, ForgotStamps

LEMMA SynthExtractStamps ==
    ASSUME Base, SynthExtract
    PROVE  Base' /\ (Stamps => Stamps') /\ Touched
<1>0. TypeOK /\ Unique
  BY DEF Base
<1>1. UNCHANGED <<nextId, writtenAt, upserts, deletes, docs, tx, worker, rec, throughout,
                  faults, discards>>
  BY DEF SynthExtract, outbox, bounds
<1>2. Touched
  BY <1>0, ExtractEffect DEF Unique
<1>3. TxMoves /\ SynthMoves
  BY <1>0, <1>1, TxStays, SynthExtractEffect
<1>4. TypeOK'
  BY <1>0, <1>1, <1>2, <1>3 DEF TypeOK, Touched, SynthMoves
<1>5. Unique' /\ Funded'
  BY <1>0, <1>1, <1>2, <1>3, UniqueAside DEF Base, Funded, Touched, SynthMoves
<1>6. Base'
  BY <1>4, <1>5 DEF Base
<1> QED
  BY <1>1, <1>2, <1>3, <1>6, TouchedStamps

(* Best effort: the failure is recorded, or nothing happens.               *)
LEMMA BumpStamps ==
    ASSUME Base, BumpSynthFailure
    PROVE  /\ Base' /\ (Stamps => Stamps')
           /\ Touched \/ QuietStep
<1>0. TypeOK /\ Unique
  BY DEF Base
<1>1. /\ synth' = IdleSynth
      /\ UNCHANGED <<nextId, writtenAt, upserts, deletes, docs, tx, worker, rec, throughout,
                     faults, discards>>
  BY DEF BumpSynthFailure, outbox, bounds
<1>2. TxMoves /\ SynthMoves
  BY <1>0, <1>1, TxStays, SynthEnds
<1>3. CASE Touched
  <2>1. TypeOK'
    BY <1>0, <1>1, <1>2, <1>3 DEF TypeOK, Touched, SynthMoves
  <2>2. Unique' /\ Funded'
    BY <1>0, <1>1, <1>2, <1>3, UniqueAside DEF Base, Funded, Touched, SynthMoves
  <2>3. Base'
    BY <2>1, <2>2 DEF Base
  <2> QED
    BY <1>1, <1>2, <1>3, <2>3, TouchedStamps
<1>4. CASE UNCHANGED <<records, clock>>
  <2>1. CarriersMove /\ RestOK' /\ Funded'
    BY <1>0, <1>1, WorkersStay, RecStays DEF Base, TypeOK, CarriersMove, RestOK, Funded
  <2>2. QuietStep
    BY <1>1, <1>2, <1>4, <2>1 DEF QuietStep
  <2> QED
    BY <2>2, QuietBase, QuietStamps
<1> QED
  BY <1>0, <1>3, <1>4, BumpEffect

LEMMA SynthCommitStamps ==
    ASSUME Base, SynthCommit
    PROVE  /\ Base' /\ (Stamps => Stamps')
           /\ \/ \E s \in SHAs : Wrote(s, synth.began)
              \/ QuietStep /\ \A i \in Ids : upserts'[i] >= upserts[i]
<1>0. TypeOK /\ Unique
  BY DEF Base
<1>1. /\ synth' = IdleSynth
      /\ UNCHANGED <<clock, deletes, docs, tx, worker, rec, throughout, faults, discards>>
  BY DEF SynthCommit, bounds
<1>2. TxMoves /\ SynthMoves
  BY <1>0, <1>1, TxStays, SynthEnds
<1>3. ASSUME NEW s \in SHAs, Wrote(s, synth.began)
      PROVE  Base' /\ (Stamps => Stamps')
  <2>0. PICK b \in Nat : b = synth.began
    BY <1>0 DEF TypeOK, Synth
  <2>1. nextId' \in 1 .. MaxRecords + 1 /\ writtenAt' \in [SHAs -> Nat]
    BY <1>0, <1>3, <2>0, ConstantTypes DEF TypeOK, Wrote
  <2>2. TypeOK'
    BY <1>0, <1>1, <1>2, <1>3, <2>1 DEF TypeOK, Wrote, SynthMoves
  <2>3. Unique' /\ Funded'
    BY <1>0, <1>1, <1>2, <1>3, UniqueWrote DEF Base, Funded, SynthMoves
  <2>4. Base'
    BY <2>2, <2>3 DEF Base
  <2>5. Stamps => Stamps'
    <3>1. SUFFICES ASSUME Stamps
                   PROVE  Stamps'
      OBVIOUS
    <3>2. synth.pc = "write"
      BY DEF SynthCommit
    <3>3. Unused(b)
      BY <2>0, <3>1, <3>2 DEF Stamps, Stamped, Writing
    <3>4. \A u \in Txs : tx'[u].op # "none" => tx[u].began # b
      BY <1>1, <2>0, <3>1, <3>2 DEF Stamps, Stamped, Writing
    <3>5. ~Opens(synth')
      BY <1>1, ConstantTypes DEF Opens
    <3> QED
      BY <1>1, <1>2, <1>3, <2>0, <2>4, <3>1, <3>3, <3>4, <3>5, WroteStamps
  <2> QED
    BY <2>4, <2>5
<1>4. CASE /\ UNCHANGED <<records, writtenAt, nextId>>
           /\ upserts' \in [Ids -> Nat]
           /\ \A i \in Ids : upserts'[i] >= upserts[i]
  <2>1. CarriersMove /\ RestOK' /\ Funded'
    BY <1>0, <1>1, <1>4, WorkersStay, RecStays DEF Base, TypeOK, CarriersMove, RestOK, Funded
  <2>2. QuietStep
    BY <1>1, <1>2, <1>4, <2>1 DEF QuietStep
  <2> QED
    BY <1>4, <2>2, QuietBase, QuietStamps
<1> QED
  BY <1>0, <1>3, <1>4, SynthCommitEffect

-----------------------------------------------------------------------------
(* No write is left behind.                                                *)

DueNext(s) ==
    \/ upserts'[records'[s].body.id] > 0
    \/ \E w \in Workers :
          /\ worker'[w].pc = "put" /\ worker'[w].sha = s
          /\ worker'[w].snap.body = records'[s].body
          /\ worker'[w].snap.updatedAt >= writtenAt'[s]

HarmlessNext(s, x) ==
    records'[s].body.id # 0 =>
        \/ x.body = records'[s].body \/ x.updatedAt > writtenAt'[s]
        \/ DueNext(s) \/ docs'[s].version > x.updatedAt

LEMMA PresentIds ==
    ASSUME TypeOK
    PROVE  \A s \in SHAs : Present(s) => records[s].body.id \in Ids
<1>1. \A s \in SHAs : records[s].body.id \in 0 .. MaxRecords
  BY DEF TypeOK, Record, Body
<1> QED
  BY <1>1, ConstantTypes DEF Present, Ids

LEMMA CarriedNext ==
    ASSUME \A s \in SHAs : docs'[s].present /\ records'[s].body.id # 0 =>
              \/ docs'[s].body = records'[s].body
              \/ docs'[s].version > writtenAt'[s]
              \/ DueNext(s),
           \A w \in Workers :
              worker'[w].pc = "put" => HarmlessNext(worker'[w].sha, worker'[w].snap),
           rec'.pc = "put" => HarmlessNext(rec'.sha, rec'.snap)
    PROVE  Carried'
BY DEF Carried, Present, Same, Due, Carries, DueNext, Harmless, HarmlessNext

(* The index, the workers and the reconciler stand still, and a record     *)
(* that is written gets a job.                                             *)
LEMMA StillCarried ==
    ASSUME TypeOK, TypeOK', Carried, UNCHANGED <<docs, worker, rec>>,
           \A i \in Ids : upserts'[i] >= upserts[i],
           \A s \in SHAs : records'[s].body.id # 0 =>
              \/ records'[s].body = records[s].body /\ writtenAt'[s] = writtenAt[s]
              \/ upserts'[records'[s].body.id] > 0
    PROVE  Carried'
<1>1. /\ \A i \in Ids : upserts[i] \in Nat /\ upserts'[i] \in Nat
      /\ \A s \in SHAs : records[s].body.id # 0 => records[s].body.id \in Ids
  <2>1. \A i \in Ids : upserts[i] \in Nat /\ upserts'[i] \in Nat
    BY DEF TypeOK
  <2> QED
    BY <2>1, PresentIds DEF Present
<1>2. ASSUME NEW s \in SHAs, records'[s].body.id # 0
      PROVE  \/ DueNext(s)
             \/ /\ records'[s].body = records[s].body /\ writtenAt'[s] = writtenAt[s]
                /\ ~Due(s) /\ Present(s)
  <2>1. CASE upserts'[records'[s].body.id] > 0
    BY <2>1 DEF DueNext
  <2>2. CASE records'[s].body = records[s].body /\ writtenAt'[s] = writtenAt[s]
    <3>1. upserts[records[s].body.id] > 0 => upserts'[records'[s].body.id] > 0
      BY <1>1, <1>2, <2>2
    <3>2. Due(s) => DueNext(s)
      BY <2>2, <3>1 DEF Due, DueNext, Carries, Same
    <3> QED
      BY <1>2, <2>2, <3>2 DEF Present
  <2> QED
    BY <1>2, <2>1, <2>2
<1>3. ASSUME NEW s \in SHAs, NEW x, Harmless(s, x)
      PROVE  HarmlessNext(s, x)
  BY <1>2, <1>3 DEF Harmless, HarmlessNext, Same
<1>4. \A s \in SHAs : docs'[s].present /\ records'[s].body.id # 0 =>
              \/ docs'[s].body = records'[s].body
              \/ docs'[s].version > writtenAt'[s]
              \/ DueNext(s)
  BY <1>2 DEF Carried
<1>5. \A w \in Workers :
              worker'[w].pc = "put" => HarmlessNext(worker'[w].sha, worker'[w].snap)
  BY <1>3, StampTypes DEF Carried
<1>6. rec'.pc = "put" => HarmlessNext(rec'.sha, rec'.snap)
  BY <1>3, StampTypes DEF Carried
<1> QED
  BY <1>4, <1>5, <1>6, CarriedNext

(* After a quiet step every copy is one that was there, or repeats its     *)
(* record.                                                                 *)
LEMMA CopiesMove ==
    ASSUME Base, QuietStep,
           \A w \in Workers : worker'[w].pc = "put" /\ worker[w].pc = "put"
                                 => HarmlessNext(worker[w].sha, worker[w].snap),
           rec'.pc = "put" /\ rec.pc = "put" => HarmlessNext(rec.sha, rec.snap)
    PROVE  /\ \A w \in Workers :
                 worker'[w].pc = "put" => HarmlessNext(worker'[w].sha, worker'[w].snap)
           /\ rec'.pc = "put" => HarmlessNext(rec'.sha, rec'.snap)
<1>1. /\ \A w \in Workers : Snapped(worker[w], worker'[w])
      /\ Snapped(rec, rec') /\ records' = records
  BY DEF QuietStep, CarriersMove
<1>2. \A s \in SHAs : HarmlessNext(s, records[s])
  BY <1>1 DEF HarmlessNext
<1> QED
  BY <1>1, <1>2 DEF Snapped

(* Documents go or stay, and what was due still is.                        *)
LEMMA RemovedCarried ==
    ASSUME Base, Carried, QuietStep, Removed,
           \A s \in SHAs : Present(s) /\ Due(s) => DueNext(s)
    PROVE  Carried'
<1>0. TypeOK /\ TypeOK'
  BY QuietBase DEF Base
<1>1. records' = records /\ writtenAt' = writtenAt
  BY DEF QuietStep
<1>2. \A s \in SHAs : docs'[s].version >= docs[s].version
  BY <1>0, StampTypes DEF Removed
<1>3. ASSUME NEW s \in SHAs, NEW x, x.updatedAt \in Nat, Harmless(s, x)
      PROVE  HarmlessNext(s, x)
  <2>1. docs'[s].version \in Nat /\ docs[s].version \in Nat
    BY <1>0 DEF TypeOK, Doc
  <2>2. docs[s].version > x.updatedAt => docs'[s].version > x.updatedAt
    BY <1>2, <1>3, <2>1
  <2> QED
    BY <1>1, <1>3, <2>2 DEF Harmless, HarmlessNext, Same, Present
<1>4. \A s \in SHAs : docs'[s].present /\ records'[s].body.id # 0 =>
              \/ docs'[s].body = records'[s].body
              \/ docs'[s].version > writtenAt'[s]
              \/ DueNext(s)
  BY <1>1 DEF Carried, Removed, Present
<1>5. /\ \A w \in Workers : worker[w].pc = "put" => HarmlessNext(worker[w].sha, worker[w].snap)
      /\ rec.pc = "put" => HarmlessNext(rec.sha, rec.snap)
  BY <1>0, <1>3, StampTypes DEF Carried
<1> QED
  BY <1>4, <1>5, CopiesMove, CarriedNext

(* OpenSearch forgets a version when no put of the document is in flight.  *)
LEMMA TombstoneCarried ==
    ASSUME Base, Carried, NEW s \in SHAs, TombstoneGC(s)
    PROVE  Carried'
<1>0. TypeOK /\ QuietStep
  BY TombstoneGCQuiet DEF Base
<1>1. /\ \A w \in Workers : ~(worker[w].pc = "put" /\ worker[w].sha = s)
      /\ ~(rec.pc = "put" /\ rec.sha = s)
      /\ docs' = [docs EXCEPT ![s] = NoDoc]
      /\ UNCHANGED <<records, writtenAt, upserts, worker, rec>>
  BY DEF TombstoneGC, sor, outbox
<1>2. /\ \A r \in SHAs : r # s => docs'[r] = docs[r]
      /\ docs'[s].present = FALSE
  BY <1>0, <1>1, ConstantTypes DEF TypeOK
<1>3. \A r \in SHAs : Due(r) => DueNext(r)
  BY <1>1 DEF Due, DueNext, Carries, Same
<1>4. ASSUME NEW r \in SHAs, NEW x, r # s, Harmless(r, x)
      PROVE  HarmlessNext(r, x)
  BY <1>1, <1>2, <1>3, <1>4 DEF Harmless, HarmlessNext, Same, Present
<1>5. \A r \in SHAs : docs'[r].present /\ records'[r].body.id # 0 =>
              \/ docs'[r].body = records'[r].body
              \/ docs'[r].version > writtenAt'[r]
              \/ DueNext(r)
  BY <1>1, <1>2, <1>3 DEF Carried, Present
<1>6. /\ \A w \in Workers : worker[w].pc = "put" => HarmlessNext(worker[w].sha, worker[w].snap)
      /\ rec.pc = "put" => HarmlessNext(rec.sha, rec.snap)
  BY <1>0, <1>1, <1>4, StampTypes DEF Carried
<1> QED
  BY <1>0, <1>5, <1>6, CopiesMove, CarriedNext

(* A copy x of the record of s is put.  Either what was due still is, or x *)
(* was what was due: then it is in the index now, or something newer is.   *)
LEMMA PutCarried ==
    ASSUME Stamps, Carried, QuietStep, NEW s \in SHAs, NEW x \in Record,
           Put(s, x), Harmless(s, x),
           \A r \in SHAs : Present(r) /\ Due(r) =>
              \/ DueNext(r)
              \/ r = s /\ Same(s, x) /\ x.updatedAt >= writtenAt[s]
    PROVE  Carried'
<1>0. Base /\ TypeOK /\ TypeOK'
  BY QuietBase DEF Stamps, Base
<1>1. records' = records /\ writtenAt' = writtenAt
  BY DEF QuietStep
<1>2. /\ x.updatedAt \in Nat /\ writtenAt[s] \in Nat
      /\ \A r \in SHAs : docs[r].version \in Nat /\ docs'[r].version \in Nat
  BY <1>0 DEF TypeOK, Doc, Record
<1>3. /\ \A r \in SHAs : docs'[r].version >= docs[r].version
      /\ docs'[s].version >= x.updatedAt
  BY <1>2 DEF Put
<1>4. ASSUME NEW r \in SHAs, NEW y \in Record, Harmless(r, y), Latest(r, y)
      PROVE  HarmlessNext(r, y)
  <2>0. y.updatedAt \in Nat
    BY DEF Record
  <2>1. docs[r].version > y.updatedAt => docs'[r].version > y.updatedAt
    BY <1>2, <1>3, <2>0
  <2>2. CASE r = s /\ Same(s, x) /\ x.updatedAt >= writtenAt[s]
    <3>1. \/ y.updatedAt > writtenAt[s]
          \/ y.updatedAt = writtenAt[s]
          \/ docs'[s].version > y.updatedAt
      BY <1>2, <1>3, <2>0, <2>2
    <3> QED
      BY <1>1, <1>4, <2>2, <3>1 DEF Latest, Same, Present, HarmlessNext
  <2>3. CASE Present(r) /\ Due(r) => DueNext(r)
    BY <1>1, <1>4, <2>1, <2>3 DEF Harmless, HarmlessNext, Same, Present
  <2> QED
    BY <2>2, <2>3
<1>5. ASSUME NEW r \in SHAs, docs'[r].present, records'[r].body.id # 0
      PROVE  \/ docs'[r].body = records'[r].body
             \/ docs'[r].version > writtenAt'[r]
             \/ DueNext(r)
  <2>1. CASE r # s
    BY <1>1, <1>5, <2>1 DEF Carried, Put, Present
  <2>2. CASE r = s /\ docs[s].version > x.updatedAt /\ docs'[s] = docs[s]
    <3>1. x.updatedAt >= writtenAt[s] => docs'[s].version > writtenAt[s]
      BY <1>2, <2>2
    <3> QED
      BY <1>1, <1>5, <2>2, <3>1 DEF Carried, Present
  <2>3. CASE /\ r = s /\ x.updatedAt >= docs[s].version
             /\ docs'[s].version = x.updatedAt /\ docs'[s].body = x.body
    <3>1. ~(docs[s].version > x.updatedAt)
      BY <1>2, <2>3
    <3> QED
      BY <1>1, <1>5, <2>3, <3>1 DEF Harmless, Same, Present
  <2> QED
    BY <2>1, <2>2, <2>3 DEF Put
<1>6. /\ \A w \in Workers : worker[w].pc = "put" => HarmlessNext(worker[w].sha, worker[w].snap)
      /\ rec.pc = "put" => HarmlessNext(rec.sha, rec.snap)
  <2>1. /\ \A w \in Workers : worker[w].sha \in SHAs /\ worker[w].snap \in Record
        /\ rec.sha \in SHAs /\ rec.snap \in Record
    BY <1>0 DEF TypeOK, Worker, Rec
  <2> QED
    BY <1>4, <2>1 DEF Carried, Stamps, Copied
<1> QED
  BY <1>0, <1>5, <1>6, CopiesMove, CarriedNext

(* What is due stays due while the workers stand still ...                 *)
LEMMA DueStays ==
    ASSUME TypeOK, UNCHANGED <<records, writtenAt, worker, upserts>>, NEW s \in SHAs, Due(s)
    PROVE  DueNext(s)
BY DEF Due, DueNext, Carries, Same

(* ... while a job is taken up: the worker has the record as it is ...     *)
LEMMA DueTaken ==
    ASSUME Stamps, NEW w \in Workers, NEW i \in Ids, WorkUpsert(w, i), NEW s \in SHAs,
           Present(s), Due(s)
    PROVE  DueNext(s)
<1>0. TypeOK /\ Unique
  BY DEF Stamps, Base
<1>1. UNCHANGED <<records, writtenAt>>
  BY DEF WorkUpsert, sor
<1>2. /\ worker[w].pc = "idle"
      /\ OthersWork(w)
      /\ \A j \in Ids : j # i => upserts'[j] = upserts[j]
      /\ \/ worker' = worker /\ \A r \in SHAs : records[r].body.id # i
         \/ /\ worker'[w].pc = "put" /\ worker'[w].sha \in SHAs
            /\ worker'[w].snap = records[worker'[w].sha]
            /\ records[worker'[w].sha].body.id = i
  BY <1>0, WorkUpsertEffect
<1>3. CASE records[s].body.id = i
  <2>1. worker'[w].sha = s
    BY <1>0, <1>2, <1>3 DEF Unique
  <2>2. records[s].updatedAt >= writtenAt[s]
    BY DEF Stamps, Clocked
  <2> QED
    BY <1>1, <1>2, <1>3, <2>1, <2>2 DEF DueNext
<1>4. CASE records[s].body.id # i
  <2>1. records[s].body.id \in Ids
    BY <1>0, PresentIds
  <2>2. ASSUME NEW v \in Workers, Carries(v, s)
        PROVE  worker'[v] = worker[v]
    BY <1>2, <2>2 DEF Carries, OthersWork
  <2> QED
    BY <1>1, <1>2, <1>4, <2>1, <2>2 DEF Due, DueNext, Carries, Same
<1> QED
  BY <1>3, <1>4

(* ... and while one worker ends, unless it carried the record.            *)
LEMMA DueElsewhere ==
    ASSUME TypeOK, NEW w \in Workers, OthersWork(w), UNCHANGED <<records, writtenAt>>,
           \A i \in Ids : upserts'[i] >= upserts[i], upserts' \in [Ids -> Nat],
           NEW s \in SHAs, Present(s), Due(s)
    PROVE  DueNext(s) \/ Carries(w, s)
<1>1. records[s].body.id \in Ids
  BY PresentIds
<1>2. upserts[records[s].body.id] > 0 => upserts'[records[s].body.id] > 0
  BY <1>1 DEF TypeOK
<1>3. ASSUME NEW v \in Workers, Carries(v, s), v # w
      PROVE  worker'[v] = worker[v]
  BY <1>3 DEF OthersWork
<1> QED
  BY <1>2, <1>3 DEF Due, DueNext, Carries, Same

(* A job that is returned is due.                                          *)
LEMMA DueReturned ==
    ASSUME TypeOK, NEW W \in SUBSET Workers, Returned(W), NEW w \in W, UNCHANGED records,
           NEW s \in SHAs, Present(s), Carries(w, s)
    PROVE  DueNext(s)
<1>1. records[s].body.id \in Ids
  BY PresentIds
<1>2. worker[w].pc = "put" /\ worker[w].snap.body.id = records[s].body.id
  BY DEF Carries, Same
<1>3. upserts'[worker[w].snap.body.id] > 0
  BY <1>1, <1>2, ReturnedEffect
<1> QED
  BY <1>2, <1>3 DEF DueNext

(* The steps, one group after the other: those that leave the index and    *)
(* the jobs alone, ...                                                     *)
LEMMA AsideCarried ==
    ASSUME Stamps, Carried, QuietStep, UNCHANGED <<docs, worker, upserts>>
    PROVE  Carried'
<1>0. Base /\ TypeOK
  BY DEF Stamps, Base
<1>1. Removed
  BY DEF Removed, QuietStep, RestOK
<1>2. \A s \in SHAs : Present(s) /\ Due(s) => DueNext(s)
  BY <1>0, DueStays DEF QuietStep
<1> QED
  BY <1>0, <1>1, <1>2, RemovedCarried

(* ... those of the workers, ...                                           *)
LEMMA WorkUpsertCarried ==
    ASSUME Stamps, Carried, NEW w \in Workers, NEW i \in Ids, WorkUpsert(w, i)
    PROVE  Carried'
<1>0. Base /\ TypeOK
  BY DEF Stamps, Base
<1>1. QuietStep /\ docs' = docs
  BY <1>0, WorkUpsertQuiet DEF WorkUpsert
<1>2. Removed
  BY <1>1 DEF Removed, QuietStep, RestOK
<1>3. \A s \in SHAs : Present(s) /\ Due(s) => DueNext(s)
  BY DueTaken
<1> QED
  BY <1>0, <1>1, <1>2, <1>3, RemovedCarried

LEMMA WorkDeleteCarried ==
    ASSUME Stamps, Carried, NEW w \in Workers, NEW s \in SHAs, WorkDelete(w, s)
    PROVE  Carried'
<1>0. Base /\ TypeOK
  BY DEF Stamps, Base
<1>1. QuietStep /\ docs' = docs /\ upserts' = upserts
  BY <1>0, WorkDeleteQuiet DEF WorkDelete
<1>2. Removed
  BY <1>1 DEF Removed, QuietStep, RestOK
<1>3. OthersWork(w) /\ worker[w].pc = "idle"
  BY <1>0, WorkDeleteEffect
<1>4. \A i \in Ids : upserts'[i] >= upserts[i]
  BY <1>0, <1>1 DEF TypeOK
<1>5. ASSUME NEW r \in SHAs, Present(r), Due(r)
      PROVE  DueNext(r)
  <2>1. ~Carries(w, r)
    BY <1>3 DEF Carries
  <2>2. UNCHANGED <<records, writtenAt>> /\ upserts' \in [Ids -> Nat]
    BY <1>1 DEF QuietStep, RestOK
  <2> QED
    BY <1>0, <1>3, <1>4, <1>5, <2>1, <2>2, DueElsewhere
<1> QED
  BY <1>0, <1>1, <1>2, <1>5, RemovedCarried

LEMMA WorkRemoveCarried ==
    ASSUME Stamps, Carried, NEW w \in Workers, WorkRemove(w)
    PROVE  Carried'
<1>0. Base /\ TypeOK
  BY DEF Stamps, Base
<1>1. /\ QuietStep /\ upserts' = upserts /\ worker[w].pc = "delete"
      /\ DeleteProjection(worker[w].sha)
  BY <1>0, WorkRemoveQuiet DEF WorkRemove, outbox
<1>2. Removed
  BY <1>0, <1>1, StampTypes, DeleteEffect DEF TypeOK
<1>3. OthersWork(w)
  BY <1>0, WorkEnds DEF WorkRemove
<1>4. \A i \in Ids : upserts'[i] >= upserts[i]
  BY <1>0, <1>1 DEF TypeOK
<1>5. ASSUME NEW r \in SHAs, Present(r), Due(r)
      PROVE  DueNext(r)
  <2>1. ~Carries(w, r)
    BY <1>1 DEF Carries
  <2>2. UNCHANGED <<records, writtenAt>> /\ upserts' \in [Ids -> Nat]
    BY <1>1 DEF QuietStep, RestOK
  <2> QED
    BY <1>0, <1>3, <1>4, <1>5, <2>1, <2>2, DueElsewhere
<1> QED
  BY <1>0, <1>1, <1>2, <1>5, RemovedCarried

LEMMA WorkPutCarried ==
    ASSUME Stamps, Carried, NEW w \in Workers, WorkPut(w)
    PROVE  Carried'
<1>0. Base /\ TypeOK
  BY DEF Stamps, Base
<1>1. PICK s \in SHAs : s = worker[w].sha
  BY <1>0, StampTypes
<1>2. PICK x \in Record : x = worker[w].snap
  BY <1>0 DEF TypeOK, Worker
<1>3. /\ QuietStep /\ upserts' = upserts /\ worker[w].pc = "put" /\ Project(s, x)
  BY <1>0, <1>1, <1>2, WorkPutQuiet DEF WorkPut, outbox
<1>4. Put(s, x)
  BY <1>0, <1>3, ProjectEffect DEF TypeOK
<1>5. Harmless(s, x)
  BY <1>1, <1>2, <1>3 DEF Carried
<1>6. OthersWork(w)
  BY <1>0, WorkEnds DEF WorkPut
<1>7. \A i \in Ids : upserts'[i] >= upserts[i]
  BY <1>0, <1>3 DEF TypeOK
<1>8. ASSUME NEW r \in SHAs, Present(r), Due(r)
      PROVE  DueNext(r) \/ (r = s /\ Same(s, x) /\ x.updatedAt >= writtenAt[s])
  <2>1. UNCHANGED <<records, writtenAt>> /\ upserts' \in [Ids -> Nat]
    BY <1>3 DEF QuietStep, RestOK
  <2>2. DueNext(r) \/ Carries(w, r)
    BY <1>0, <1>6, <1>7, <1>8, <2>1, DueElsewhere
  <2> QED
    BY <1>1, <1>2, <2>2 DEF Carries
<1> QED
  BY <1>3, <1>4, <1>5, <1>8, PutCarried

LEMMA WorkRetryCarried ==
    ASSUME Stamps, Carried, NEW w \in Workers, WorkRetry(w)
    PROVE  Carried'
<1>0. Base /\ TypeOK
  BY DEF Stamps, Base
<1>1. PICK s \in SHAs : s = worker[w].sha
  BY <1>0, StampTypes
<1>2. PICK x \in Record : x = worker[w].snap
  BY <1>0 DEF TypeOK, Worker
<1>3. /\ QuietStep /\ Returned({w}) /\ {w} \in SUBSET Workers
      /\ \/ docs' = docs
         \/ worker[w].pc = "put" /\ Project(s, x)
         \/ DeleteProjection(s)
  BY <1>0, <1>1, <1>2, WorkRetryQuiet DEF WorkRetry
<1>4. OthersWork(w)
  BY <1>0, WorkEnds DEF WorkRetry
<1>5. ASSUME NEW r \in SHAs, Present(r), Due(r)
      PROVE  DueNext(r)
  <2>1. /\ UNCHANGED <<records, writtenAt>> /\ upserts' \in [Ids -> Nat]
        /\ \A i \in Ids : upserts'[i] >= upserts[i]
    BY <1>0, <1>3, ReturnedEffect DEF QuietStep
  <2>2. DueNext(r) \/ Carries(w, r)
    BY <1>0, <1>4, <1>5, <2>1, DueElsewhere
  <2>3. Carries(w, r) => DueNext(r)
    BY <1>0, <1>3, <1>5, <2>1, DueReturned
  <2> QED
    BY <2>2, <2>3
<1>6. CASE docs' = docs
  <2>1. Removed
    BY <1>3, <1>6 DEF Removed, QuietStep, RestOK
  <2> QED
    BY <1>0, <1>3, <1>5, <2>1, RemovedCarried
<1>7. CASE DeleteProjection(s)
  <2>1. Removed
    BY <1>0, <1>7, DeleteEffect DEF TypeOK
  <2> QED
    BY <1>0, <1>3, <1>5, <2>1, RemovedCarried
<1>8. CASE worker[w].pc = "put" /\ Project(s, x)
  <2>1. Put(s, x)
    BY <1>0, <1>8, ProjectEffect DEF TypeOK
  <2>2. Harmless(s, x)
    BY <1>1, <1>2, <1>8 DEF Carried
  <2> QED
    BY <1>3, <1>5, <2>1, <2>2, PutCarried
<1> QED
  BY <1>3, <1>6, <1>7, <1>8

(* ... those of the reconciler, ...                                        *)
LEMMA RecPutCarried ==
    ASSUME Stamps, Carried, RecPut
    PROVE  Carried'
<1>0. Base /\ TypeOK
  BY DEF Stamps, Base
<1>1. PICK s \in SHAs : s = rec.sha
  BY <1>0, StampTypes
<1>2. PICK x \in Record : x = rec.snap
  BY <1>0 DEF TypeOK, Rec
<1>3. QuietStep /\ UNCHANGED <<upserts, worker>> /\ rec.pc = "put" /\ Project(s, x)
  BY <1>0, <1>1, <1>2, RecPutQuiet DEF RecPut, outbox
<1>4. Put(s, x)
  BY <1>0, <1>3, ProjectEffect DEF TypeOK
<1>5. Harmless(s, x)
  BY <1>1, <1>2, <1>3 DEF Carried
<1>6. \A r \in SHAs : Present(r) /\ Due(r) => DueNext(r)
  BY <1>0, <1>3, DueStays DEF QuietStep
<1> QED
  BY <1>3, <1>4, <1>5, <1>6, PutCarried

LEMMA RecRemoveCarried ==
    ASSUME Stamps, Carried, NEW s \in SHAs, RecRemove(s)
    PROVE  Carried'
<1>0. Base /\ TypeOK
  BY DEF Stamps, Base
<1>1. QuietStep /\ UNCHANGED <<upserts, worker>>
  BY <1>0, RecRemoveQuiet DEF RecRemove, outbox
<1>2. Removed
  BY <1>0, RecRemoveEffect
<1>3. \A r \in SHAs : Present(r) /\ Due(r) => DueNext(r)
  BY <1>0, <1>1, DueStays DEF QuietStep
<1> QED
  BY <1>0, <1>1, <1>2, <1>3, RemovedCarried

(* ... the crash, ...                                                      *)
LEMMA CrashCarried ==
    ASSUME Stamps, Carried, Crash
    PROVE  Carried'
<1>0. Base /\ TypeOK
  BY DEF Stamps, Base
<1>1. QuietStep /\ docs' = docs /\ Returned(Workers)
  BY <1>0, CrashQuiet DEF Crash
<1>2. Removed
  BY <1>1 DEF Removed, QuietStep, RestOK
<1>3. ASSUME NEW s \in SHAs, Present(s), Due(s)
      PROVE  DueNext(s)
  <2>1. /\ UNCHANGED <<records, writtenAt>> /\ upserts' \in [Ids -> Nat]
        /\ \A i \in Ids : upserts'[i] >= upserts[i]
    BY <1>0, <1>1, ReturnedEffect DEF QuietStep
  <2>2. CASE upserts[records[s].body.id] > 0
    <3>1. records[s].body.id \in Ids
      BY <1>0, <1>3, PresentIds
    <3>2. upserts'[records'[s].body.id] > 0
      BY <1>0, <2>1, <2>2, <3>1 DEF TypeOK
    <3> QED
      BY <3>2 DEF DueNext
  <2>3. ASSUME NEW w \in Workers, Carries(w, s)
        PROVE  DueNext(s)
    BY <1>0, <1>1, <1>3, <2>1, <2>3, DueReturned
  <2> QED
    BY <1>3, <2>2, <2>3 DEF Due
<1> QED
  BY <1>0, <1>1, <1>2, <1>3, RemovedCarried

(* ... and those that write records.                                       *)
LEMMA NoisyCarried ==
    ASSUME Stamps, Base', Carried, UNCHANGED <<docs, worker, rec>>,
           \/ UNCHANGED <<records, writtenAt, upserts>>
           \/ Touched /\ UNCHANGED <<writtenAt, upserts>>
           \/ \E s \in SHAs, b \in Nat : Wrote(s, b)
           \/ UNCHANGED <<writtenAt, upserts>>
              /\ \E s \in SHAs : records' = [records EXCEPT ![s] = NoRecord]
           \/ UNCHANGED <<records, writtenAt>> /\ \A i \in Ids : upserts'[i] >= upserts[i]
    PROVE  Carried'
<1>0. TypeOK /\ TypeOK'
  BY DEF Stamps, Base
<1>1. upserts' = upserts => \A i \in Ids : upserts'[i] >= upserts[i]
  BY <1>0 DEF TypeOK
<1>2. CASE UNCHANGED <<records, writtenAt>> /\ \A i \in Ids : upserts'[i] >= upserts[i]
  BY <1>0, <1>2, StillCarried
<1>3. CASE Touched /\ UNCHANGED <<writtenAt, upserts>>
  BY <1>0, <1>1, <1>3, StillCarried DEF Touched
<1>4. ASSUME NEW s \in SHAs, NEW b \in Nat, Wrote(s, b)
      PROVE  Carried'
  <2>1. \A r \in SHAs : r # s => records'[r] = records[r] /\ writtenAt'[r] = writtenAt[r]
    BY <1>0, <1>4 DEF TypeOK, Wrote
  <2>2. /\ upserts'[records'[s].body.id] > 0
        /\ \A i \in Ids : upserts'[i] >= upserts[i]
    BY <1>4 DEF Wrote
  <2> QED
    BY <1>0, <2>1, <2>2, StillCarried
<1>5. ASSUME NEW s \in SHAs, records' = [records EXCEPT ![s] = NoRecord],
             UNCHANGED <<writtenAt, upserts>>
      PROVE  Carried'
  <2>1. /\ \A r \in SHAs : r # s => records'[r] = records[r]
        /\ records'[s].body.id = 0
    BY <1>0, <1>5, ConstantTypes DEF TypeOK
  <2> QED
    BY <1>0, <1>1, <1>5, <2>1, StillCarried
<1> QED
  BY <1>1, <1>2, <1>3, <1>4, <1>5

-----------------------------------------------------------------------------
(* Every step keeps the basic invariant, the stamps and, while no job has  *)
(* been discarded, what is carried.                                        *)
Keeps ==
    /\ Base'
    /\ Stamps => Stamps'
    /\ Stamps /\ discards' = 0 => discards = 0 /\ (Carried => Carried')

LEMMA QuietKeeps ==
    ASSUME Base, QuietStep, discards' = discards, Stamps /\ Carried => Carried'
    PROVE  Keeps
BY QuietBase, QuietStamps DEF Keeps

LEMMA NoisyKeeps ==
    ASSUME Base, Base', Stamps => Stamps', discards' = discards, UNCHANGED <<docs, worker, rec>>,
           \/ UNCHANGED <<records, writtenAt, upserts>>
           \/ Touched /\ UNCHANGED <<writtenAt, upserts>>
           \/ \E s \in SHAs, b \in Nat : Wrote(s, b)
           \/ UNCHANGED <<writtenAt, upserts>>
              /\ \E s \in SHAs : records' = [records EXCEPT ![s] = NoRecord]
           \/ UNCHANGED <<records, writtenAt>> /\ \A i \in Ids : upserts'[i] >= upserts[i]
    PROVE  Keeps
BY NoisyCarried DEF Keeps

LEMMA HandlerKeeps ==
    ASSUME Base, NEW t \in Txs,
           \/ \E s \in SHAs : \/ \E e \in Embeddings : Begin(t, "write", s, e)
                              \/ Begin(t, "forget", s, FALSE)
           \/ TxEnds(t)
    PROVE  Keeps
<1>0. TypeOK /\ Embeddings \subseteq BOOLEAN
  BY SizesAssumption DEF Base
<1>1. ASSUME NEW op \in {"write", "forget"}, NEW s \in SHAs, NEW e \in BOOLEAN,
             Begin(t, op, s, e)
      PROVE  Keeps
  <2>1. Base' /\ (Stamps => Stamps')
    BY <1>1, BeginStamps
  <2>2. UNCHANGED <<records, writtenAt, upserts, docs, worker, rec, discards>>
    BY <1>1 DEF Begin, outbox, bounds
  <2> QED
    BY <2>1, <2>2, NoisyKeeps
<1>2. CASE CommitWrite(t)
  <2>1. /\ Base' /\ (Stamps => Stamps')
        /\ Wrote(tx[t].sha, tx[t].began) /\ tx[t].sha \in SHAs
    BY <1>2, CommitWriteStamps
  <2>2. UNCHANGED <<docs, worker, rec, discards>>
    BY <1>2 DEF CommitWrite, bounds
  <2>3. tx[t].began \in Nat
    BY <1>0, StampTypes
  <2> QED
    BY <2>1, <2>2, <2>3, NoisyKeeps
<1>3. CASE CommitForget(t)
  <2>1. /\ Base' /\ (Stamps => Stamps')
        /\ \E s \in SHAs : records' = [records EXCEPT ![s] = NoRecord]
    BY <1>3, CommitForgetStamps
  <2>2. UNCHANGED <<writtenAt, upserts, docs, worker, rec, discards>>
    BY <1>3 DEF CommitForget, bounds
  <2> QED
    BY <2>1, <2>2, NoisyKeeps
<1>4. CASE Rollback(t)
  <2>1. QuietStep /\ UNCHANGED <<docs, worker, upserts, discards>>
    BY <1>4, RollbackQuiet DEF Rollback, outbox, bounds
  <2> QED
    BY <2>1, AsideCarried, QuietKeeps
<1> QED
  BY <1>0, <1>1, <1>2, <1>3, <1>4 DEF TxEnds

LEMMA SynthKeeps ==
    ASSUME Base, (\E s \in SHAs : SynthFetch(s)) \/ SynthStep \/ SynthFails
    PROVE  Keeps
<1>0. TypeOK
  BY DEF Base
<1>1. ASSUME NEW s \in SHAs, SynthFetch(s)
      PROVE  Keeps
  <2>1. QuietStep /\ UNCHANGED <<docs, worker, upserts, discards>>
    BY <1>1, SynthFetchQuiet DEF SynthFetch, outbox, bounds
  <2> QED
    BY <2>1, AsideCarried, QuietKeeps
<1>2. CASE SynthExtract
  <2>1. UNCHANGED <<writtenAt, upserts, docs, worker, rec, discards>>
    BY <1>2 DEF SynthExtract, outbox, bounds
  <2> QED
    BY <1>2, <2>1, SynthExtractStamps, NoisyKeeps
<1>3. CASE SynthBegin
  <2>1. UNCHANGED <<records, writtenAt, upserts, docs, worker, rec, discards>>
    BY <1>3 DEF SynthBegin, outbox, bounds
  <2> QED
    BY <1>3, <2>1, SynthBeginStamps, NoisyKeeps
<1>4. CASE SynthGet
  <2>1. QuietStep /\ UNCHANGED <<docs, worker, upserts, discards>>
    BY <1>4, SynthGetQuiet DEF SynthGet, outbox, bounds
  <2> QED
    BY <2>1, AsideCarried, QuietKeeps
<1>5. CASE SynthCommit
  <2>1. UNCHANGED <<docs, worker, rec, discards>> /\ synth.began \in Nat
    BY <1>0, <1>5, StampTypes DEF SynthCommit, bounds
  <2>2. /\ Base' /\ (Stamps => Stamps')
        /\ \/ \E s \in SHAs : Wrote(s, synth.began)
           \/ UNCHANGED <<records, writtenAt>> /\ \A i \in Ids : upserts'[i] >= upserts[i]
    BY <1>5, SynthCommitStamps DEF QuietStep
  <2> QED
    BY <2>1, <2>2, NoisyKeeps
<1>6. CASE BumpSynthFailure
  <2>1. UNCHANGED <<writtenAt, upserts, docs, worker, rec, discards>>
    BY <1>6 DEF BumpSynthFailure, outbox, bounds
  <2>2. Base' /\ (Stamps => Stamps') /\ (Touched \/ records' = records)
    BY <1>6, BumpStamps DEF QuietStep
  <2> QED
    BY <2>1, <2>2, NoisyKeeps
<1>7. CASE SynthFails
  <2>1. QuietStep /\ UNCHANGED <<docs, worker, upserts, discards>>
    BY <1>7, SynthFailsQuiet DEF SynthFails, outbox
  <2> QED
    BY <2>1, AsideCarried, QuietKeeps
<1> QED
  BY <1>1, <1>2, <1>3, <1>4, <1>5, <1>6, <1>7 DEF SynthStep

LEMMA WorkKeeps ==
    ASSUME Base, NEW w \in Workers, WorkStep(w) \/ WorkRetry(w) \/ WorkDiscard(w)
    PROVE  Keeps
<1>1. ASSUME NEW i \in Ids, WorkUpsert(w, i)
      PROVE  Keeps
  <2>1. QuietStep /\ discards' = discards
    BY <1>1, WorkUpsertQuiet DEF WorkUpsert, bounds
  <2> QED
    BY <1>1, <2>1, WorkUpsertCarried, QuietKeeps
<1>2. ASSUME NEW s \in SHAs, WorkDelete(w, s)
      PROVE  Keeps
  <2>1. QuietStep /\ discards' = discards
    BY <1>2, WorkDeleteQuiet DEF WorkDelete, bounds
  <2> QED
    BY <1>2, <2>1, WorkDeleteCarried, QuietKeeps
<1>3. CASE WorkPut(w)
  <2>1. QuietStep /\ discards' = discards
    BY <1>3, WorkPutQuiet DEF WorkPut, bounds
  <2> QED
    BY <1>3, <2>1, WorkPutCarried, QuietKeeps
<1>4. CASE WorkRemove(w)
  <2>1. QuietStep /\ discards' = discards
    BY <1>4, WorkRemoveQuiet DEF WorkRemove, bounds
  <2> QED
    BY <1>4, <2>1, WorkRemoveCarried, QuietKeeps
<1>5. CASE WorkRetry(w)
  <2>1. QuietStep /\ discards' = discards
    BY <1>5, WorkRetryQuiet DEF WorkRetry
  <2> QED
    BY <1>5, <2>1, WorkRetryCarried, QuietKeeps
<1>6. CASE WorkDiscard(w)
  <2>1. discards' # 0
    BY <1>6 DEF WorkDiscard, Base, TypeOK
  <2>2. QuietStep
    BY <1>6, WorkDiscardQuiet
  <2> QED
    BY <2>1, <2>2, QuietBase, QuietStamps DEF Keeps
<1> QED
  BY <1>1, <1>2, <1>3, <1>4, <1>5, <1>6 DEF WorkStep

LEMMA RecKeeps ==
    ASSUME Base, RecStep \/ RecRepairFails \/ RecAbort
    PROVE  Keeps
<1>1. CASE RecStart
  <2>1. QuietStep /\ UNCHANGED <<docs, worker, upserts, discards>>
    BY <1>1, RecStartQuiet DEF RecStart, outbox, bounds
  <2> QED
    BY <2>1, AsideCarried, QuietKeeps
<1>2. CASE RecPage
  <2>1. QuietStep /\ UNCHANGED <<docs, worker, upserts, discards>>
    BY <1>2, RecPageQuiet DEF RecPage, outbox, bounds
  <2> QED
    BY <2>1, AsideCarried, QuietKeeps
<1>3. CASE RecScroll
  <2>1. QuietStep /\ UNCHANGED <<docs, worker, upserts, discards>>
    BY <1>3, RecScrollQuiet DEF RecScroll, outbox, bounds
  <2> QED
    BY <2>1, AsideCarried, QuietKeeps
<1>4. CASE RecDone
  <2>1. QuietStep /\ UNCHANGED <<docs, worker, upserts, discards>>
    BY <1>4, RecDoneQuiet DEF RecDone, outbox, bounds
  <2> QED
    BY <2>1, AsideCarried, QuietKeeps
<1>5. CASE RecRepairFails
  <2>1. QuietStep /\ UNCHANGED <<docs, worker, upserts, discards>>
    BY <1>5, RecRepairFailsQuiet DEF RecRepairFails, outbox
  <2> QED
    BY <2>1, AsideCarried, QuietKeeps
<1>6. CASE RecAbort
  <2>1. QuietStep /\ UNCHANGED <<docs, worker, upserts, discards>>
    BY <1>6, RecAbortQuiet DEF RecAbort, outbox
  <2> QED
    BY <2>1, AsideCarried, QuietKeeps
<1>7. ASSUME NEW s \in SHAs, RecFetch(s)
      PROVE  Keeps
  <2>1. QuietStep /\ UNCHANGED <<docs, worker, upserts, discards>>
    BY <1>7, RecFetchQuiet DEF RecFetch, outbox, bounds
  <2> QED
    BY <2>1, AsideCarried, QuietKeeps
<1>8. CASE RecPut
  <2>1. QuietStep /\ discards' = discards
    BY <1>8, RecPutQuiet DEF RecPut, bounds
  <2> QED
    BY <1>8, <2>1, RecPutCarried, QuietKeeps
<1>9. ASSUME NEW s \in SHAs, RecRemove(s)
      PROVE  Keeps
  <2>1. QuietStep /\ discards' = discards
    BY <1>9, RecRemoveQuiet DEF RecRemove, bounds
  <2> QED
    BY <1>9, <2>1, RecRemoveCarried, QuietKeeps
<1> QED
  BY <1>1, <1>2, <1>3, <1>4, <1>5, <1>6, <1>7, <1>8, <1>9 DEF RecStep

LEMMA StepKeeps ==
    ASSUME Base, [Next]_vars
    PROVE  Keeps
<1>1. ASSUME NEW s \in SHAs, TombstoneGC(s)
      PROVE  Keeps
  <2>1. QuietStep /\ discards' = discards
    BY <1>1, TombstoneGCQuiet DEF TombstoneGC, bounds
  <2> QED
    BY <1>1, <2>1, TombstoneCarried, QuietKeeps
<1>2. CASE Crash
  <2>1. QuietStep /\ discards' = discards
    BY <1>2, CrashQuiet DEF Crash
  <2> QED
    BY <1>2, <2>1, CrashCarried, QuietKeeps
<1>3. CASE UNCHANGED vars
  <2>1. /\ Base' /\ (Stamps => Stamps') /\ discards' = discards
    BY <1>3 DEF vars, Base, TypeOK, Unique, Present, Funded, Stamps, Clocked, Stamped,
                Unused, Writing, Copied, Latest, Same
  <2>2. UNCHANGED <<records, writtenAt, upserts, docs, worker, rec>>
    BY <1>3 DEF vars
  <2> QED
    BY <2>1, <2>2, NoisyKeeps
<1> QED
  BY <1>1, <1>2, <1>3, HandlerKeeps, SynthKeeps, WorkKeeps, RecKeeps DEF Next

LEMMA InitBase == Init => Base
<1> SUFFICES ASSUME Init
             PROVE  Base
  OBVIOUS
<1>1. TypeOK
  BY ConstantTypes, SizesAssumption DEF Init, TypeOK
<1>2. Unique /\ Funded
  BY ConstantTypes DEF Init, Unique, Present, Funded
<1> QED
  BY <1>1, <1>2 DEF Base

LEMMA InitOutbox == Init => OutboxInv
<1> SUFFICES ASSUME Init
             PROVE  OutboxInv
  OBVIOUS
<1>1. Base /\ TypeOK
  BY InitBase DEF Base
<1>2. Clocked
  BY <1>1, ConstantTypes DEF Init, Clocked, Present
<1>3. Stamped
  BY ConstantTypes DEF Init, Stamped, Writing
<1>4. Copied /\ Carried
  BY ConstantTypes DEF Init, Copied, Carried
<1> QED
  BY <1>1, <1>2, <1>3, <1>4 DEF OutboxInv, Stamps

(* The types of Projection, in every reachable state.                      *)
THEOREM TypeCorrect == Spec => []TypeOK
<1>1. Base /\ [Next]_vars => Base'
  BY StepKeeps DEF Keeps
<1>2. Base => TypeOK
  BY DEF Base
<1> QED
  BY InitBase, <1>1, <1>2, PTL DEF Spec

(* Project, UpsertRecord and EnqueueProjectTx: while River has discarded   *)
(* no job, a document that differs from its record and is not stamped      *)
(* after the record's latest write will be overwritten by a job or a       *)
(* request in flight.                                                      *)
THEOREM NoWriteLeftBehindHolds == Spec => []NoWriteLeftBehind
<1>1. OutboxInv /\ [Next]_vars => OutboxInv'
  <2>1. SUFFICES ASSUME OutboxInv, [Next]_vars
                 PROVE  OutboxInv'
    OBVIOUS
  <2>2. Base /\ Stamps /\ (discards = 0 => Carried)
    BY <2>1 DEF OutboxInv, Stamps
  <2> QED
    BY <2>1, <2>2, StepKeeps DEF OutboxInv, Keeps
<1>2. OutboxInv => NoWriteLeftBehind
  BY DEF OutboxInv, Carried, NoWriteLeftBehind, Due, Carries, Same
<1> QED
  BY InitOutbox, <1>1, <1>2, PTL DEF Spec

-----------------------------------------------------------------------------
(* The reconciler's scan.                                                  *)

ScanKeeps == Scanned' /\ OrphansHadNoRecord'

(* Other steps keep the id of a record that lasts.                         *)
LEMMA ScanAside ==
    ASSUME Scanned, OrphansHadNoRecord, rec' = rec, throughout' \subseteq throughout,
           \A s \in throughout' : records'[s].body.id = records[s].body.id
    PROVE  ScanKeeps
BY DEF ScanKeeps, Scanned, OrphansHadNoRecord, Present

LEMMA ScanRepair ==
    ASSUME Scanned, OrphansHadNoRecord, UNCHANGED <<records, throughout>>,
           rec'.pc \notin {"scan", "scroll"}, rec'.orphan \subseteq rec.orphan
    PROVE  ScanKeeps
BY DEF ScanKeeps, Scanned, OrphansHadNoRecord, Present

LEMMA ScanEnds ==
    ASSUME throughout' = {}
    PROVE  ScanKeeps
BY DEF ScanKeeps, Scanned, OrphansHadNoRecord

LEMMA ScanWrote ==
    ASSUME TypeOK, Scanned, OrphansHadNoRecord, UNCHANGED <<rec, throughout>>,
           NEW s \in SHAs, NEW b, Wrote(s, b)
    PROVE  ScanKeeps
<1>1. \A r \in throughout : records'[r].body.id = records[r].body.id
  BY DEF TypeOK, Scanned, Present, Wrote
<1> QED
  BY <1>1, ScanAside

LEMMA ScanTouched ==
    ASSUME TypeOK, Scanned, OrphansHadNoRecord, UNCHANGED <<rec, throughout>>,
           Touched \/ records' = records
    PROVE  ScanKeeps
<1>1. \A r \in throughout : records'[r].body.id = records[r].body.id
  BY DEF TypeOK, Touched
<1> QED
  BY <1>1, ScanAside

LEMMA ScanForgot ==
    ASSUME TypeOK, Scanned, OrphansHadNoRecord, rec' = rec, NEW s \in SHAs,
           records' = [records EXCEPT ![s] = NoRecord], throughout' = throughout \ {s}
    PROVE  ScanKeeps
<1>1. \A r \in throughout' : records'[r].body.id = records[r].body.id
  BY DEF TypeOK
<1> QED
  BY <1>1, ScanAside

LEMMA ScanStart ==
    ASSUME Base, RecStart
    PROVE  ScanKeeps
<1>0. TypeOK
  BY DEF Base
<1>1. /\ rec'.pc = "scan" /\ rec'.cursor = 0 /\ rec'.orphan = {}
      /\ records' = records /\ throughout' = {s \in SHAs : Present(s)}
  BY <1>0, RecStartEffect DEF RecStart, sor
<1>2. \A s \in SHAs : Present(s) => ~(records[s].body.id <= 0)
  BY <1>0, PresentIds DEF Ids
<1>3. \A s \in throughout' : Present(s)'
  BY <1>1 DEF Present
<1> QED
  BY <1>1, <1>2, <1>3 DEF ScanKeeps, Scanned, OrphansHadNoRecord

(* A page leaves out only records above its last one; the page that ends   *)
(* the scan leaves out none.                                               *)
LEMMA ScanPage ==
    ASSUME Base, Scanned, OrphansHadNoRecord, RecPage, Cardinality(SHAs) <= ScanCap
    PROVE  ScanKeeps
<1>0. TypeOK
  BY DEF Base
<1>1. PICK page \in ListSHAs(rec.cursor, PageLimit) :
        /\ rec'.seen = rec.seen \cup page
        /\ rec'.cursor \in {rec.cursor} \cup {records[s].body.id : s \in page}
        /\ rec'.pc = "scroll" => PageLimit = 0 \/ Cardinality(page) < PageLimit
  BY <1>0, RecPageEffect
<1>2. /\ rec.pc = "scan" /\ rec'.pc \in {"scan", "scroll"} /\ rec'.orphan = rec.orphan
      /\ records' = records /\ throughout' = throughout
  BY <1>0, RecPageEffect DEF RecPage, sor
<1>3. PICK rest \in SUBSET SHAs : rest = {s \in SHAs : records[s].body.id > rec.cursor}
  OBVIOUS
<1>4. /\ page \subseteq rest
      /\ page = rest \/ Cardinality(page) = PageLimit
      /\ \A s \in page, r \in rest \ page : records[s].body.id < records[r].body.id
  BY <1>1, <1>3 DEF ListSHAs
<1>5. /\ \A s \in SHAs : records[s].body.id \in Nat
      /\ rec.cursor \in Nat /\ throughout \subseteq SHAs /\ rec.seen \subseteq SHAs
  BY <1>0 DEF TypeOK, Record, Body, Rec
<1>6. \A s \in throughout : s \in rec.seen \/ s \in rest
  BY <1>2, <1>3, <1>5 DEF Scanned
<1>7. \A s \in throughout : records[s].body.id <= rec'.cursor => s \in rec'.seen
  <2>1. SUFFICES ASSUME NEW s \in throughout, s \in rest \ page
                 PROVE  ~(records[s].body.id <= rec'.cursor)
    BY <1>1, <1>6
  <2>2. rec'.cursor < records[s].body.id
    BY <1>1, <1>3, <1>4, <1>5, <2>1
  <2>3. rec'.cursor \in Nat
    BY <1>1, <1>3, <1>4, <1>5
  <2> QED
    BY <1>5, <2>2, <2>3
<1>8. rec'.pc = "scroll" => throughout \subseteq rec'.seen
  <2>1. SUFFICES ASSUME rec'.pc = "scroll"
                 PROVE  throughout \subseteq rec'.seen
    OBVIOUS
  <2>2. CASE PageLimit = 0
    <3>1. /\ Cardinality(rec.seen) \in Nat /\ Cardinality(SHAs) \in Nat
          /\ Cardinality(rec.seen) <= Cardinality(SHAs)
          /\ Cardinality(SHAs) = Cardinality(rec.seen) => SHAs = rec.seen
      BY <1>5, SizesAssumption, FS_Subset, FS_CardinalityType
    <3>2. Cardinality(rec.seen) = ScanCap
      BY <2>2, <3>1, SizesAssumption DEF PageLimit
    <3>3. SHAs = rec.seen
      BY <3>1, <3>2
    <3> QED
      BY <1>1, <1>5, <3>3
  <2>3. CASE Cardinality(page) < PageLimit
    <3>1. PageLimit \in Int
      <4>1. Cardinality(rec.seen) \in Nat
        BY <1>5, SizesAssumption, FS_Subset, FS_CardinalityType
      <4> QED
        BY <4>1, SizesAssumption DEF PageLimit
    <3>2. Cardinality(page) # PageLimit
      BY <2>3, <3>1
    <3> QED
      BY <1>1, <1>4, <1>6, <3>2
  <2> QED
    BY <1>1, <2>1, <2>2, <2>3
<1>9. (\A s \in throughout : Present(s)) /\ rec.orphan \cap throughout = {}
  BY DEF Scanned, OrphansHadNoRecord
<1> QED
  BY <1>2, <1>7, <1>8, <1>9 DEF ScanKeeps, Scanned, OrphansHadNoRecord, Present

LEMMA ScanScroll ==
    ASSUME Base, Scanned, RecScroll
    PROVE  ScanKeeps
<1>1. /\ rec.pc = "scroll" /\ rec'.pc = "repair" /\ rec'.orphan \cap rec.seen = {}
      /\ records' = records /\ throughout' = throughout
  BY RecScrollEffect DEF Base, RecScroll, sor
<1>2. (\A s \in throughout : Present(s)) /\ throughout \subseteq rec.seen
  BY <1>1 DEF Scanned
<1> QED
  BY <1>1, <1>2 DEF ScanKeeps, Scanned, OrphansHadNoRecord, Present

LEMMA ScanStep ==
    ASSUME ScanInv, [Next]_vars, Cardinality(SHAs) <= ScanCap
    PROVE  ScanInv'
<1>0. Base /\ TypeOK /\ Scanned /\ OrphansHadNoRecord /\ Base'
  <2>1. Base /\ TypeOK /\ Scanned /\ OrphansHadNoRecord
    BY DEF ScanInv, Base
  <2> QED
    BY <2>1, StepKeeps DEF Keeps
<1> SUFFICES ScanKeeps
  BY <1>0 DEF ScanInv, ScanKeeps
<1>1. ASSUME UNCHANGED <<records, rec, throughout>>
      PROVE  ScanKeeps
  BY <1>0, <1>1, ScanTouched
<1>2. ASSUME NEW t \in Txs,
             \/ \E s \in SHAs : \/ \E e \in Embeddings : Begin(t, "write", s, e)
                                \/ Begin(t, "forget", s, FALSE)
             \/ TxEnds(t)
      PROVE  ScanKeeps
  <2>1. ASSUME NEW op, NEW s, NEW e, Begin(t, op, s, e)
        PROVE  ScanKeeps
    BY <1>1, <2>1 DEF Begin
  <2>2. CASE CommitWrite(t)
    <3>1. UNCHANGED <<rec, throughout>>
      BY <2>2 DEF CommitWrite
    <3> QED
      BY <1>0, <2>2, <3>1, CommitWriteStamps, ScanWrote
  <2>3. CASE CommitForget(t)
    <3>1. rec' = rec
      BY <2>3 DEF CommitForget
    <3> QED
      BY <1>0, <2>3, <3>1, CommitForgetStamps, ScanForgot
  <2>4. CASE Rollback(t)
    BY <1>1, <2>4 DEF Rollback, sor
  <2> QED
    BY <1>2, <2>1, <2>2, <2>3, <2>4 DEF TxEnds
<1>3. CASE (\E s \in SHAs : SynthFetch(s)) \/ SynthStep \/ SynthFails
  <2>1. ASSUME NEW s \in SHAs, SynthFetch(s)
        PROVE  ScanKeeps
    BY <1>1, <2>1 DEF SynthFetch, sor
  <2>2. CASE SynthExtract
    <3>1. UNCHANGED <<rec, throughout>>
      BY <2>2 DEF SynthExtract
    <3> QED
      BY <1>0, <2>2, <3>1, SynthExtractStamps, ScanTouched
  <2>3. CASE SynthBegin
    BY <1>1, <2>3 DEF SynthBegin
  <2>4. CASE SynthGet
    BY <1>1, <2>4 DEF SynthGet, sor
  <2>5. CASE SynthCommit
    <3>1. UNCHANGED <<rec, throughout>>
      BY <2>5 DEF SynthCommit
    <3>2. (\E s \in SHAs : Wrote(s, synth.began)) \/ records' = records
      BY <1>0, <2>5, SynthCommitStamps DEF QuietStep
    <3> QED
      BY <1>0, <3>1, <3>2, ScanWrote, ScanTouched
  <2>6. CASE BumpSynthFailure
    <3>1. UNCHANGED <<rec, throughout>>
      BY <2>6 DEF BumpSynthFailure
    <3>2. Touched \/ records' = records
      BY <1>0, <2>6, BumpStamps DEF QuietStep
    <3> QED
      BY <1>0, <3>1, <3>2, ScanTouched
  <2>7. CASE SynthFails
    BY <1>1, <2>7 DEF SynthFails, sor
  <2> QED
    BY <1>3, <2>1, <2>2, <2>3, <2>4, <2>5, <2>6, <2>7 DEF SynthStep
<1>4. ASSUME NEW s \in SHAs, TombstoneGC(s)
      PROVE  ScanKeeps
  BY <1>1, <1>4 DEF TombstoneGC, sor
<1>5. ASSUME NEW w \in Workers, WorkStep(w) \/ WorkRetry(w) \/ WorkDiscard(w)
      PROVE  ScanKeeps
  <2>1. UNCHANGED <<records, rec, throughout>>
    BY <1>5 DEF WorkStep, WorkUpsert, WorkDelete, WorkPut, WorkRemove, WorkRetry, WorkDiscard, sor
  <2> QED
    BY <1>1, <2>1
<1>6. CASE RecStep \/ RecRepairFails \/ RecAbort
  <2>1. CASE RecPut
    <3>1. UNCHANGED <<records, throughout>> /\ rec.budget > 0
      BY <1>0, <2>1 DEF RecPut, sor, Base, Funded
    <3> QED
      BY <1>0, <2>1, <3>1, RecPutsEffect, ScanRepair
  <2>2. CASE RecRepairFails
    <3>1. UNCHANGED <<records, throughout>>
      BY <2>2 DEF RecRepairFails, sor
    <3> QED
      BY <1>0, <2>2, <3>1, RecRepairFailsEffect, ScanRepair
  <2>3. ASSUME NEW s \in SHAs, RecFetch(s)
        PROVE  ScanKeeps
    <3>1. UNCHANGED <<records, throughout>>
      BY <2>3 DEF RecFetch, sor
    <3> QED
      BY <1>0, <2>3, <3>1, RecFetchEffect, ScanRepair
  <2>4. ASSUME NEW s \in SHAs, RecRemove(s)
        PROVE  ScanKeeps
    <3>1. UNCHANGED <<records, throughout>>
      BY <2>4 DEF RecRemove, sor
    <3> QED
      BY <1>0, <2>4, <3>1, RecRemoveEffect, ScanRepair
  <2>5. CASE RecDone \/ RecAbort
    BY <2>5, ScanEnds DEF RecDone, RecAbort
  <2> QED
    BY <1>0, <1>6, <2>1, <2>2, <2>3, <2>4, <2>5, ScanStart, ScanPage, ScanScroll DEF RecStep
<1>7. CASE Crash
  BY <1>7, ScanEnds DEF Crash
<1>8. CASE UNCHANGED vars
  BY <1>1, <1>8 DEF vars
<1> QED
  BY <1>2, <1>3, <1>4, <1>5, <1>6, <1>7, <1>8 DEF Next

(* reconcileBinding, as long as the content addresses fit in one scan      *)
(* (reconcileMaxPerBinding): the reconciler takes a document for an orphan *)
(* only if its sha was without a record at some time in the cycle.         *)
THEOREM OrphansHadNoRecordHolds ==
    ASSUME Cardinality(SHAs) <= ScanCap
    PROVE  Spec => []OrphansHadNoRecord
<1>1. Init => ScanInv
  BY InitBase, ConstantTypes DEF Init, ScanInv, Scanned, OrphansHadNoRecord
<1>2. ScanInv /\ [Next]_vars => ScanInv'
  BY ScanStep
<1>3. ScanInv => OrphansHadNoRecord
  BY DEF ScanInv
<1> QED
  BY <1>1, <1>2, <1>3, PTL DEF Spec
=============================================================================
