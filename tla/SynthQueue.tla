----------------------------- MODULE SynthQueue -----------------------------
(***************************************************************************)
(* The synthesis worker of the daemon (internal/server/synth_queue.go): a  *)
(* bounded channel of jobs fed by the write handlers, the loop that drains *)
(* it, the sweeper that walks the unsynthesised records of the system of   *)
(* record on a ticker, and the operator's resynth backfill.  The three     *)
(* share processMu; failures are counted on the record after it is         *)
(* released, and a record that fails too often leaves the backlog.         *)
(***************************************************************************)
EXTENDS Integers, Sequences, FiniteSets, Functions

CONSTANTS
    SHAs,               \* content addresses
    BufferSize,         \* capacity of the channel
    PageSize,           \* synthBacklogPageSize
    MaxSynthAttempts,   \* dead-letter threshold
    Limits,             \* limits operators pass to resynth; 0 is none
    MaxRecords,         \* bound: record ids
    MaxIngests,         \* bound: write requests
    MaxResynths,        \* bound: resynth requests
    MaxFaults           \* bound: restarts, failed statements, lost views

ASSUME SynthSizesAssumption ==
    /\ BufferSize \in Nat \ {0}
    /\ PageSize \in Nat \ {0}
    /\ MaxSynthAttempts \in Nat \ {0}
    /\ Limits \subseteq Nat

ASSUME SHAsAssumption == SHAs # {}

ASSUME SynthBoundsAssumption ==
    /\ MaxRecords \in Nat /\ MaxIngests \in Nat
    /\ MaxResynths \in Nat /\ MaxFaults \in Nat

VARIABLES
    records,        \* per sha: id, synthesised, synth_attempts
    nextId,
    queue,          \* the channel
    processMu,      \* the goroutine that holds it
    loop,           \* local state of the three goroutines
    backfilling,    \* at most one backfill
    view,           \* the binding's view is registered
    ingests,        \* write requests, by sha
    writes,         \* WriteSynth commits, by id of a record that is there
    resynths, faults

table == <<records, nextId>>
ghosts == <<ingests, writes>>
vars == <<records, nextId, queue, processMu, loop, backfilling, view,
          ingests, writes, resynths, faults>>

-----------------------------------------------------------------------------
Record == [id : 0 .. MaxRecords, synthesised : BOOLEAN, attempts : Nat]
NoRecord == [id |-> 0, synthesised |-> FALSE, attempts |-> 0]

Loops == {"live", "sweep", "fill"}
Nobody == "nobody"

(* pc: "list" and "walk" are drainBacklog's, the others handle's.          *)
Loop == [pc : {"idle", "list", "walk", "lock", "work", "failed"},
         sha : SHAs, page : SUBSET (Nat \X SHAs), short : BOOLEAN,
         cursor : Nat, left : Int]

IdleLoop == [pc |-> "idle", sha |-> CHOOSE s \in SHAs : TRUE, page |-> {},
             short |-> FALSE, cursor |-> 0, left |-> 0]

TypeOK ==
    /\ records \in [SHAs -> Record]
    /\ nextId \in 1 .. MaxRecords + 1
    /\ queue \in Seq(SHAs) /\ Len(queue) <= BufferSize
    /\ processMu \in Loops \cup {Nobody}
    /\ loop \in [Loops -> Loop]
    /\ backfilling \in BOOLEAN
    /\ view \in BOOLEAN
    /\ ingests \in [SHAs -> Nat]
    /\ writes \in [1 .. MaxRecords -> Nat]
    /\ resynths \in Nat /\ faults \in Nat

Present(s) == records[s].id # 0
Unsynthesised(s) == Present(s) /\ ~records[s].synthesised
Dead(s) == Unsynthesised(s) /\ records[s].attempts >= MaxSynthAttempts

Fault ==
    /\ faults < MaxFaults
    /\ faults' = faults + 1

-----------------------------------------------------------------------------
(* Write handlers.                                                         *)

(* Mutant: a job is sent to a channel that is full.                        *)
EnqueueUnbounded(s) == queue' = Append(queue, s)

(* Enqueue: never blocks; a full channel drops the job.                    *)
Enqueue(s) ==
    queue' = IF Len(queue) < BufferSize THEN Append(queue, s) ELSE queue

(* A write commits its record (a re-ingest keeps the one there) and        *)
(* enqueues it.                                                            *)
Ingest(s) ==
    /\ SumFunction(ingests) < MaxIngests
    /\ ingests' = [ingests EXCEPT ![s] = @ + 1]
    /\ \/ Present(s) /\ UNCHANGED table
       \/ /\ ~Present(s)
          /\ nextId <= MaxRecords
          /\ records' = [records EXCEPT ![s] = [NoRecord EXCEPT !.id = nextId]]
          /\ nextId' = nextId + 1
    /\ Enqueue(s)
    /\ UNCHANGED <<processMu, loop, backfilling, view, writes, resynths, faults>>

(* brain_forget.                                                           *)
Forget(s) ==
    /\ Present(s)
    /\ records' = [records EXCEPT ![s] = NoRecord]
    /\ writes' = [writes EXCEPT ![records[s].id] = 0]
    /\ UNCHANGED <<nextId, queue, processMu, loop, backfilling, view, ingests,
                   resynths, faults>>

-----------------------------------------------------------------------------
(* The goroutines' outer loops.                                            *)

(* run: the next job of the channel.                                       *)
Receive ==
    /\ loop["live"].pc = "idle"
    /\ queue # <<>>
    /\ loop' = [loop EXCEPT !["live"].pc = "lock", !["live"].sha = Head(queue)]
    /\ queue' = Tail(queue)
    /\ UNCHANGED <<table, processMu, backfilling, view, ghosts, resynths, faults>>

(* runSweeper's ticker fires: sweepOnce, drainBacklog without a limit.     *)
Sweep ==
    /\ loop["sweep"].pc = "idle"
    /\ loop' = [loop EXCEPT !["sweep"] = [IdleLoop EXCEPT !.pc = "list"]]
    /\ UNCHANGED <<table, queue, processMu, backfilling, view, ghosts, resynths, faults>>

(* ResynthBacklog, apply: report the backlog as pending and start a        *)
(* backfill, unless one runs (ErrResynthInProgress).                       *)
Resynth(limit) ==
    /\ resynths < MaxResynths
    /\ resynths' = resynths + 1
    /\ view
    /\ \E s \in SHAs : Unsynthesised(s)
    /\ ~backfilling
    /\ backfilling' = TRUE
    /\ loop' = [loop EXCEPT !["fill"] = [IdleLoop EXCEPT !.pc = "list", !.left = limit]]
    /\ UNCHANGED <<table, queue, processMu, view, ingests, writes, faults>>

-----------------------------------------------------------------------------
(* drainBacklog, in the sweeper and in the backfill.                       *)

(* Mutant: the flag is cleared by the wrong goroutine.                     *)
FinishKeepsFlag(l) ==
    /\ loop' = [loop EXCEPT ![l] = IdleLoop]
    /\ backfilling' = (backfilling /\ l # "live")

(* The end of a drain; a backfill clears its flag.                         *)
Finish(l) ==
    /\ loop' = [loop EXCEPT ![l] = IdleLoop]
    /\ backfilling' = (backfilling /\ l # "fill")

(* handle has returned.  A row of a drain counts as processed: left is     *)
(* what remains of a limit, 0 if there is none.                            *)
AfterHandle(l) ==
    IF l = "live" \/ loop[l].left = 1
    THEN Finish(l)
    ELSE /\ loop' = [loop EXCEPT ![l].pc = "walk", ![l].sha = IdleLoop.sha,
                                 ![l].left = IF @ = 0 THEN 0 ELSE @ - 1]
         /\ UNCHANGED backfilling

(* Mutant: the page includes dead-lettered records.                        *)
ListAll(after, n) ==
    LET rest == {s \in SHAs : Unsynthesised(s) /\ records[s].id > after} IN
    {<<records[s].id, s>> : s \in {s \in rest :
        Cardinality({r \in rest : records[r].id <= records[s].id}) <= n}}

(* Mutant: the keyset cursor is off by one.                                *)
ListSkipsOne(after, n) ==
    LET rest == {s \in SHAs : /\ Unsynthesised(s)
                              /\ records[s].attempts < MaxSynthAttempts
                              /\ records[s].id > after + 1} IN
    {<<records[s].id, s>> : s \in {s \in rest :
        Cardinality({r \in rest : records[r].id <= records[s].id}) <= n}}

(* ListSynthBacklog: the n live rows of lowest id above the cursor.        *)
ListSynthBacklog(after, n) ==
    LET rest == {s \in SHAs : /\ Unsynthesised(s)
                              /\ records[s].attempts < MaxSynthAttempts
                              /\ records[s].id > after} IN
    {<<records[s].id, s>> : s \in {s \in rest :
        Cardinality({r \in rest : records[r].id <= records[s].id}) <= n}}

PageLimit(l) == IF loop[l].left > 0 /\ loop[l].left < PageSize
                THEN loop[l].left ELSE PageSize

(* One page.  The store is resolved once, for the first page; a later one  *)
(* may still be read after the view is gone.                               *)
ListPage(l) ==
    LET page == ListSynthBacklog(loop[l].cursor, PageLimit(l)) IN
    /\ loop[l].pc = "list"
    /\ view \/ loop[l].cursor # 0
    /\ loop' = [loop EXCEPT ![l].pc = "walk", ![l].page = page,
                            ![l].short = Cardinality(page) < PageLimit(l)]
    /\ UNCHANGED <<table, queue, processMu, backfilling, view, ghosts, resynths, faults>>

(* No view registered, or the query fails: the drain ends.                 *)
ListFails(l) ==
    /\ loop[l].pc = "list"
    /\ \/ ~view /\ UNCHANGED faults
       \/ Fault
    /\ Finish(l)
    /\ UNCHANGED <<table, queue, processMu, view, ghosts, resynths>>

(* The next row of the page, lowest id first, or the next page, or done.   *)
Walk(l) ==
    /\ loop[l].pc = "walk"
    /\ \/ \E item \in loop[l].page :
            /\ \A other \in loop[l].page : item[1] <= other[1]
            /\ loop' = [loop EXCEPT ![l].pc = "lock", ![l].sha = item[2],
                                    ![l].page = @ \ {item}, ![l].cursor = item[1]]
            /\ UNCHANGED backfilling
       \/ /\ loop[l].page = {}
          /\ loop[l].short
          /\ Finish(l)
       \/ /\ loop[l].page = {}
          /\ ~loop[l].short
          /\ loop' = [loop EXCEPT ![l].pc = "list"]
          /\ UNCHANGED backfilling
    /\ UNCHANGED <<table, queue, processMu, view, ghosts, resynths, faults>>

-----------------------------------------------------------------------------
(* handle.                                                                 *)

(* Mutant: the record is not looked at again under the lock.               *)
LockUnchecked(l) ==
    LET s == loop[l].sha IN
    /\ loop[l].pc = "lock"
    /\ processMu = Nobody
    /\ IF view /\ Present(s)
       THEN /\ processMu' = l
            /\ loop' = [loop EXCEPT ![l].pc = "work"]
            /\ UNCHANGED backfilling
       ELSE /\ AfterHandle(l)
            /\ UNCHANGED processMu
    /\ UNCHANGED <<table, queue, view, ingests, writes, resynths, faults>>

(* processMu.Lock, resolveForJob and Fetch: without a view, a record or    *)
(* anything left to do, the job is dropped and the lock released.          *)
Lock(l) ==
    LET s == loop[l].sha IN
    /\ loop[l].pc = "lock"
    /\ processMu = Nobody
    /\ IF view /\ Unsynthesised(s)
       THEN /\ processMu' = l
            /\ loop' = [loop EXCEPT ![l].pc = "work"]
            /\ UNCHANGED backfilling
       ELSE /\ AfterHandle(l)
            /\ UNCHANGED processMu
    /\ UNCHANGED <<table, queue, view, ingests, writes, resynths, faults>>

(* ... or Fetch fails, before it is known whether there is anything to do. *)
FetchFails(l) ==
    /\ loop[l].pc = "lock"
    /\ processMu = Nobody
    /\ view
    /\ loop' = [loop EXCEPT ![l].pc = "failed"]
    /\ UNCHANGED <<table, queue, processMu, backfilling, view, ingests, writes,
                   resynths, faults>>

(* WriteSynth commits, on the record that has the sha by then; it resolves *)
(* the view again.                                                         *)
WriteSynth(l) ==
    LET s == loop[l].sha IN
    /\ loop[l].pc = "work"
    /\ Present(s)
    /\ view
    /\ records' = [records EXCEPT ![s].synthesised = TRUE]
    /\ writes' = [writes EXCEPT ![records[s].id] = @ + 1]
    /\ processMu' = Nobody
    /\ AfterHandle(l)
    /\ UNCHANGED <<nextId, queue, view, ingests, resynths, faults>>

(* Any error of the pass.                                                  *)
ProcessFails(l) ==
    /\ loop[l].pc = "work"
    /\ processMu' = Nobody
    /\ loop' = [loop EXCEPT ![l].pc = "failed"]
    /\ UNCHANGED <<table, queue, backfilling, view, ghosts, resynths, faults>>

(* recordSynthFailure, outside the lock.                                   *)
BumpSynthFailure(l) ==
    LET s == loop[l].sha IN
    /\ loop[l].pc = "failed"
    /\ records' = IF view /\ Present(s) THEN [records EXCEPT ![s].attempts = @ + 1]
                  ELSE records
    /\ AfterHandle(l)
    /\ UNCHANGED <<nextId, queue, processMu, view, ghosts, resynths, faults>>

BumpFails(l) ==
    /\ loop[l].pc = "failed"
    /\ Fault
    /\ AfterHandle(l)
    /\ UNCHANGED <<table, queue, processMu, view, ghosts, resynths>>

-----------------------------------------------------------------------------
(* A reload may leave the binding without a view for a while.              *)
LoseView ==
    /\ view
    /\ Fault
    /\ view' = FALSE
    /\ UNCHANGED <<table, queue, processMu, loop, backfilling, ghosts, resynths>>

RegisterView ==
    /\ ~view
    /\ view' = TRUE
    /\ UNCHANGED <<table, queue, processMu, loop, backfilling, ghosts, resynths, faults>>

(* The daemon restarts; the channel is lost.                               *)
Restart ==
    /\ Fault
    /\ queue' = <<>>
    /\ processMu' = Nobody
    /\ loop' = [l \in Loops |-> IdleLoop]
    /\ backfilling' = FALSE
    /\ view' = TRUE
    /\ UNCHANGED <<table, ingests, writes, resynths>>

-----------------------------------------------------------------------------
Init ==
    /\ records = [s \in SHAs |-> NoRecord]
    /\ nextId = 1
    /\ queue = <<>>
    /\ processMu = Nobody
    /\ loop = [l \in Loops |-> IdleLoop]
    /\ backfilling = FALSE
    /\ view = TRUE
    /\ ingests = [s \in SHAs |-> 0]
    /\ writes = [i \in 1 .. MaxRecords |-> 0]
    /\ resynths = 0 /\ faults = 0

LoopStep(l) ==
    \/ ListPage(l) \/ ListFails(l) \/ Walk(l)
    \/ WriteSynth(l) \/ ProcessFails(l) \/ BumpSynthFailure(l)

Next ==
    \/ \E s \in SHAs : Ingest(s) \/ Forget(s)
    \/ Receive \/ Sweep
    \/ \E limit \in Limits : Resynth(limit)
    \/ \E l \in Loops : LoopStep(l) \/ Lock(l) \/ FetchFails(l) \/ BumpFails(l)
    \/ LoseView \/ RegisterView \/ Restart

Spec == Init /\ [][Next]_vars

(* Goroutines run, the ticker keeps firing, sync.Mutex starves nobody, and *)
(* a lost view is registered again.                                        *)
FairSpec ==
    /\ Spec
    /\ WF_vars(Receive) /\ WF_vars(Sweep) /\ WF_vars(RegisterView)
    /\ \A l \in Loops : WF_vars(LoopStep(l)) /\ SF_vars(Lock(l) \/ FetchFails(l))

-----------------------------------------------------------------------------
(* However often a record is queued, swept and backfilled at once, its     *)
(* synthesis is written at most once (processMu and the Synthesised check  *)
(* under it).                                                              *)
SynthesisedOnce == \A i \in 1 .. MaxRecords : writes[i] <= 1

(* A poison record costs a bounded number of passes: beyond the threshold  *)
(* only jobs already in the channel and the pages two drains had already   *)
(* read can still try it (ListSynthBacklog: "neither wedges the page       *)
(* window nor hot-loops the LLM").                                         *)
PoisonIsBounded ==
    \A s \in SHAs : records[s].attempts <= MaxSynthAttempts + 1 + ingests[s]

(* A record that was written is synthesised, dead-lettered or forgotten,   *)
(* whatever the channel dropped and however often the daemon restarts      *)
(* (runSweeper: "the channel is an optimisation, the SoR is the queue").   *)
BacklogSettles ==
    \A s \in SHAs : Unsynthesised(s) ~> (~Unsynthesised(s) \/ Dead(s))

(* A resynth request is refused only while a backfill really runs: through *)
(* errors, lost views and restarts, the flag falls when the backfill ends  *)
(* and never before (ErrResynthInProgress).                                *)
BackfillFlag == backfilling <=> loop["fill"].pc # "idle"
=============================================================================
