---------------------------- MODULE WriteQueue -----------------------------
(***************************************************************************)
(* The agent-side write-ahead queue: internal/brain/wqueue (one SQLite     *)
(* table and a staging directory shared by every process of a binding),    *)
(* the MCP write path that enqueues and attempts (enqueueAndAttempt), the  *)
(* background drainer, and the operator's `queue drain-now` / `clear`.     *)
(*                                                                         *)
(* An SQL statement or transaction is one step, and so is a file system    *)
(* call; everything between two of them may interleave with other          *)
(* processes.  Wall-clock time is abstracted: a claim is honoured until    *)
(* ClaimExpires, a failed row waits until BackoffElapses.                  *)
(***************************************************************************)
EXTENDS Integers, FiniteSets

CONSTANTS
    Notes,          \* keys (kind, sha) of perceive, learn, trace, task_promote
    Blobs,          \* keys of kind attach: their bytes are staged on disk
    Exts,           \* file extensions a blob is attached under
    Writers,        \* MCP tool calls that may be in flight
    Drainers,       \* background drainers, one per agent process
    Clis,           \* operator commands
    BatchLimit,     \* rows claimed by one pass
    MaxAttempts,    \* wqueue.MaxAttempts
    MaxCalls,       \* bound: tool calls
    MaxCliRuns,     \* bound: operator commands
    MaxCrashes      \* bound: crashes and cancelled passes

ASSUME KeysAssumption == Notes \cap Blobs = {} /\ Notes \cup Blobs # {}

ASSUME ActorsAssumption ==
    /\ Writers \cap Drainers = {}
    /\ Writers \cap Clis = {}
    /\ Drainers \cap Clis = {}

ASSUME BoundsAssumption ==
    /\ BatchLimit \in Nat \ {0}
    /\ MaxAttempts \in Nat \ {0}
    /\ MaxCalls \in Nat
    /\ MaxCliRuns \in Nat
    /\ MaxCrashes \in Nat

VARIABLES
    rows,           \* the wqueue table, by its UNIQUE(kind, sha)
    nextId,         \* AUTOINCREMENT
    files,          \* the staging directory wqueue-attach/
    writer,         \* each tool call's local state
    drainer,        \* each drain pass's local state
    delivered,      \* writes the daemon has accepted
    queued,         \* writes whose caller was told "Queued ... pending sync"
    cleared,        \* writes whose row an operator cleared
    calls, cliRuns, crashes

shared == <<rows, nextId, files>>
bounds == <<calls, cliRuns, crashes>>
vars == <<rows, nextId, files, writer, drainer, delivered, queued, cleared,
          calls, cliRuns, crashes>>

-----------------------------------------------------------------------------
(* Types.                                                                  *)

Keys == Notes \cup Blobs

(* wqueue-attach/<sha><ext>                                                *)
Paths == Blobs \X Exts

FileState == {"none", "partial", "full"}

(* A row; id 0 stands for "no row with this (kind, sha)".                  *)
Row == [id : Nat, staged : SUBSET Paths, attempts : Nat,
        waiting : BOOLEAN, claimed : BOOLEAN, dead : BOOLEAN]

NoRow == [id |-> 0, staged |-> {}, attempts |-> 0,
          waiting |-> FALSE, claimed |-> FALSE, dead |-> FALSE]

(* The copy of a row a pass works from.                                    *)
Item == [id : Nat, key : Keys, staged : SUBSET Paths, attempts : Nat]

WriterPC == {"idle", "write", "insert", "dup", "lookup", "undo", "attempt",
             "mark", "delete", "unlink"}

Writer == [pc : WriterPC, key : Keys, staged : SUBSET Paths, id : Nat]

DrainerPC == {"idle", "drain", "retry", "dead", "sent", "unlink", "sweep", "wipe"}

Drainer == [pc : DrainerPC, batch : SUBSET Item, staged : SUBSET Paths]

Passes == Drainers \cup Clis

IdleWriter == [pc |-> "idle", key |-> CHOOSE k \in Keys : TRUE,
               staged |-> {}, id |-> 0]
IdleDrainer == [pc |-> "idle", batch |-> {}, staged |-> {}]

TypeOK ==
    /\ rows \in [Keys -> Row]
    /\ nextId \in Nat \ {0}
    /\ files \in [Paths -> FileState]
    /\ writer \in [Writers -> Writer]
    /\ drainer \in [Passes -> Drainer]
    /\ delivered \subseteq Keys
    /\ queued \subseteq Keys
    /\ cleared \subseteq Keys
    /\ calls \in Nat /\ cliRuns \in Nat /\ crashes \in Nat

-----------------------------------------------------------------------------
(* The table and the staging directory.                                    *)

Present(k) == rows[k].id # 0

Live(k) == Present(k) /\ ~rows[k].dead

StagedPath(k, e) == IF k \in Blobs THEN {<<k, e>>} ELSE {}

(* os.Remove of the staged path, if there is one.                          *)
RemoveFiles(paths) ==
    files' = [p \in Paths |-> IF p \in paths THEN "none" ELSE files[p]]

(* Mutants: the counter runs the wrong way; a late mark revives a dead row.*)
MarkAttemptCountsDown(id) ==
    rows' = [k \in Keys |->
                IF rows[k].id = id
                THEN [rows[k] EXCEPT !.attempts = @ - 1, !.waiting = TRUE,
                                     !.claimed = FALSE]
                ELSE rows[k]]

MarkAttemptRevives(id) ==
    rows' = [k \in Keys |->
                IF rows[k].id = id
                THEN [rows[k] EXCEPT !.attempts = @ + 1, !.waiting = TRUE,
                                     !.claimed = FALSE, !.dead = FALSE]
                ELSE rows[k]]

(* MarkAttempt(id): UPDATE ... WHERE id = ?; no row, no effect.            *)
MarkAttempt(id) ==
    rows' = [k \in Keys |->
                IF rows[k].id = id
                THEN [rows[k] EXCEPT !.attempts = @ + 1, !.waiting = TRUE,
                                     !.claimed = FALSE]
                ELSE rows[k]]

(* MarkDead(id): MarkAttempt and dead = 1.                                 *)
MarkDead(id) ==
    rows' = [k \in Keys |->
                IF rows[k].id = id
                THEN [rows[k] EXCEPT !.attempts = @ + 1, !.waiting = TRUE,
                                     !.claimed = FALSE, !.dead = TRUE]
                ELSE rows[k]]

(* Delete(id), its two statements: SELECT staged_path and DELETE.  The     *)
(* staged file is removed in a later step from the path read here.         *)
StagedOf(id) == UNION {rows[k].staged : k \in {j \in Keys : rows[j].id = id}}

DeleteRow(id) ==
    rows' = [k \in Keys |-> IF rows[k].id = id THEN NoRow ELSE rows[k]]

-----------------------------------------------------------------------------
(* The MCP write path: Enqueue, then an immediate attempt on the same      *)
(* request, outside any claim.                                             *)

(* Enqueue opens (and truncates) the staged file before anything else.     *)
StartCall(w, k, e) ==
    /\ writer[w].pc = "idle"
    /\ calls < MaxCalls
    /\ calls' = calls + 1
    /\ files' = [p \in Paths |->
                    IF p \in StagedPath(k, e) THEN "partial" ELSE files[p]]
    /\ writer' = [writer EXCEPT ![w] =
                    [pc |-> IF k \in Blobs THEN "write" ELSE "insert",
                     key |-> k, staged |-> StagedPath(k, e), id |-> 0]]
    /\ UNCHANGED <<rows, nextId, drainer, delivered, queued, cleared,
                   cliRuns, crashes>>

(* os.WriteFile completes.  An unlinked file keeps being written to its    *)
(* inode: the name stays gone.                                             *)
FinishStaging(w) ==
    /\ writer[w].pc = "write"
    /\ files' = [p \in Paths |->
                    IF p \in writer[w].staged /\ files[p] = "partial"
                    THEN "full" ELSE files[p]]
    /\ writer' = [writer EXCEPT ![w].pc = "insert"]
    /\ UNCHANGED <<rows, nextId, drainer, delivered, queued, cleared, bounds>>

(* Mutant: ids without AUTOINCREMENT, the highest one in the table plus 1. *)
InsertRowReusesIds(w) ==
    LET k == writer[w].key
        n == CHOOSE n \in 0 .. nextId : /\ \A j \in Keys : rows[j].id <= n
                                       /\ \E j \in Keys : rows[j].id = n
    IN
    /\ writer[w].pc = "insert"
    /\ ~Present(k)
    /\ rows' = [rows EXCEPT ![k] = [NoRow EXCEPT !.id = n + 1,
                                                 !.staged = writer[w].staged]]
    /\ nextId' = n + 2
    /\ writer' = [writer EXCEPT ![w].pc = "attempt", ![w].id = n + 1]
    /\ UNCHANGED <<files, drainer, delivered, queued, cleared, bounds>>

(* INSERT INTO wqueue.                                                     *)
InsertRow(w) ==
    LET k == writer[w].key IN
    /\ writer[w].pc = "insert"
    /\ ~Present(k)
    /\ rows' = [rows EXCEPT ![k] = [NoRow EXCEPT !.id = nextId,
                                                 !.staged = writer[w].staged]]
    /\ nextId' = nextId + 1
    /\ writer' = [writer EXCEPT ![w].pc = "attempt", ![w].id = nextId]
    /\ UNCHANGED <<files, drainer, delivered, queued, cleared, bounds>>

(* ... UNIQUE(kind, sha) refuses it.                                       *)
InsertCollides(w) ==
    /\ writer[w].pc = "insert"
    /\ Present(writer[w].key)
    /\ writer' = [writer EXCEPT ![w].pc = "dup"]
    /\ UNCHANGED <<shared, drainer, delivered, queued, cleared, bounds>>

(* ... any other error: disk, busy timeout, cancelled context.             *)
InsertFails(w) ==
    /\ writer[w].pc = "insert"
    /\ writer' = [writer EXCEPT ![w].pc = "undo"]
    /\ UNCHANGED <<shared, drainer, delivered, queued, cleared, bounds>>

(* "duplicate blob; first staging wins" ...                                *)
DropDuplicate(w) ==
    /\ writer[w].pc = "dup"
    /\ RemoveFiles(writer[w].staged)
    /\ writer' = [writer EXCEPT ![w].pc = "lookup"]
    /\ UNCHANGED <<rows, nextId, drainer, delivered, queued, cleared, bounds>>

(* ... then lookupByKindSHA: go on with the row that is already there ...  *)
AdoptExisting(w) ==
    LET k == writer[w].key IN
    /\ writer[w].pc = "lookup"
    /\ Present(k)
    /\ writer' = [writer EXCEPT ![w].pc = "attempt", ![w].id = rows[k].id]
    /\ UNCHANGED <<shared, drainer, delivered, queued, cleared, bounds>>

(* ... or fail: it is gone by now, or cannot be read.                      *)
LookupFails(w) ==
    /\ writer[w].pc = "lookup"
    /\ writer' = [writer EXCEPT ![w].pc = "undo"]
    /\ UNCHANGED <<shared, drainer, delivered, queued, cleared, bounds>>

(* The error return of Enqueue: unstage and report the error.              *)
UndoStaging(w) ==
    /\ writer[w].pc = "undo"
    /\ RemoveFiles(writer[w].staged)
    /\ writer' = [writer EXCEPT ![w] = IdleWriter]
    /\ UNCHANGED <<rows, nextId, drainer, delivered, queued, cleared, bounds>>

(* op(ctx) succeeds.                                                       *)
AttemptSucceeds(w) ==
    /\ writer[w].pc = "attempt"
    /\ delivered' = delivered \cup {writer[w].key}
    /\ writer' = [writer EXCEPT ![w].pc = "delete"]
    /\ UNCHANGED <<shared, drainer, queued, cleared, bounds>>

(* op(ctx) fails, of whatever error; the daemon may have accepted the      *)
(* write all the same and only its answer was lost.                        *)
AttemptFails(w) ==
    /\ writer[w].pc = "attempt"
    /\ delivered' \in {delivered, delivered \cup {writer[w].key}}
    /\ writer' = [writer EXCEPT ![w].pc = "mark"]
    /\ UNCHANGED <<shared, drainer, queued, cleared, bounds>>

(* The failure branch: MarkAttempt, whose own error is ignored (the        *)
(* context of the call may be gone), NoteFailure, and the "Queued" notice. *)
ReportQueued(w) ==
    /\ writer[w].pc = "mark"
    /\ MarkAttempt(writer[w].id) \/ UNCHANGED rows
    /\ queued' = queued \cup {writer[w].key}
    /\ writer' = [writer EXCEPT ![w] = IdleWriter]
    /\ UNCHANGED <<nextId, files, drainer, delivered, cleared, bounds>>

(* The success branch: Delete, in its two parts.                           *)
DropPosted(w) ==
    /\ writer[w].pc = "delete"
    /\ DeleteRow(writer[w].id)
    /\ writer' = [writer EXCEPT ![w].pc = "unlink",
                                ![w].staged = StagedOf(writer[w].id)]
    /\ UNCHANGED <<nextId, files, drainer, delivered, queued, cleared, bounds>>

UnlinkPosted(w) ==
    /\ writer[w].pc = "unlink"
    /\ RemoveFiles(writer[w].staged)
    /\ writer' = [writer EXCEPT ![w] = IdleWriter]
    /\ UNCHANGED <<rows, nextId, drainer, delivered, queued, cleared, bounds>>

-----------------------------------------------------------------------------
(* Drain passes.                                                           *)

(* eligible(): never attempted, or its backoff window has elapsed; and not *)
(* under a claim that is still honoured.                                   *)
Eligible(k) == Live(k) /\ ~rows[k].waiting /\ ~rows[k].claimed

(* The members of S that are among its n oldest, ORDER BY id LIMIT n.      *)
Oldest(S, n) ==
    {k \in S : Cardinality({j \in S : rows[j].id <= rows[k].id}) <= n}

(* NextEligible scans limit*4 rows and keeps up to limit of them.          *)
Claimable ==
    Oldest({k \in Oldest({j \in Keys : Live(j)}, 4 * BatchLimit) : Eligible(k)},
           BatchLimit)

ItemOf(k) == [id |-> rows[k].id, key |-> k, staged |-> rows[k].staged,
              attempts |-> rows[k].attempts]

(* NextEligible: select and claim in one transaction.                      *)
NextEligible(d) ==
    /\ drainer[d].pc = "idle"
    /\ d \in Clis => cliRuns < MaxCliRuns
    /\ cliRuns' = IF d \in Clis THEN cliRuns + 1 ELSE cliRuns
    /\ drainer' = [drainer EXCEPT ![d] =
                    [pc |-> "drain", batch |-> {ItemOf(k) : k \in Claimable},
                     staged |-> {}]]
    /\ rows' = [k \in Keys |-> IF k \in Claimable
                               THEN [rows[k] EXCEPT !.claimed = TRUE]
                               ELSE rows[k]]
    /\ UNCHANGED <<nextId, files, writer, delivered, queued, cleared, calls, crashes>>

(* The item a pass works on: its oldest.                                   *)
IsHead(d, it) ==
    /\ it \in drainer[d].batch
    /\ \A other \in drainer[d].batch : it.id <= other.id

(* isPermanentFailure, over the error classes dispatch can return.         *)
ErrorClass == {"unreachable", "http5xx", "http4xx", "permanentDispatch", "other"}

IsPermanentFailure(err) == err \in {"http4xx", "permanentDispatch"}

(* Mutant: a permanently rejected item is dropped like a sent one.         *)
AfterFailureDrops(d, it, err) ==
    CASE d \in Drainers /\ IsPermanentFailure(err) -> "sent"
      [] d \in Drainers /\ ~IsPermanentFailure(err)
                        /\ it.attempts + 1 >= MaxAttempts -> "dead"
      [] OTHER -> "retry"

(* What DrainOnce does with a failed item.  The attempt count is the one   *)
(* read when the row was claimed.  drain-now never dead-letters.           *)
AfterFailure(d, it, err) ==
    IF d \in Drainers /\ (IsPermanentFailure(err) \/ it.attempts + 1 >= MaxAttempts)
    THEN "dead" ELSE "retry"

(* The bytes dispatch reads for an item: a note needs none.                *)
Readable(it) == \A p \in it.staged : files[p] # "none"
Intact(it)   == \A p \in it.staged : files[p] = "full"

(* The errors a dispatch of this item can end in, and whether the daemon   *)
(* can have accepted the write nevertheless: the daemon checks the bytes   *)
(* of an attachment against its SHA and rejects a truncated read.          *)
DispatchErrors(it) ==
    CASE ~Readable(it) -> {"other"}
      [] Readable(it) /\ ~Intact(it) -> {"unreachable", "http4xx"}
      [] OTHER -> ErrorClass

DispatchOK(d) ==
    \E it \in drainer[d].batch :
        /\ drainer[d].pc = "drain"
        /\ IsHead(d, it)
        /\ Intact(it)
        /\ delivered' = delivered \cup {it.key}
        /\ drainer' = [drainer EXCEPT ![d].pc = "sent"]
        /\ UNCHANGED <<shared, writer, queued, cleared, bounds>>

DispatchFails(d) ==
    \E it \in drainer[d].batch : \E err \in DispatchErrors(it) :
        /\ drainer[d].pc = "drain"
        /\ IsHead(d, it)
        /\ \/ UNCHANGED delivered
           \/ /\ Intact(it)
              /\ err \in {"unreachable", "http5xx"}
              /\ delivered' = delivered \cup {it.key}
        /\ drainer' = [drainer EXCEPT ![d].pc = AfterFailure(d, it, err)]
        /\ UNCHANGED <<shared, writer, queued, cleared, bounds>>

(* The statement that settles the item; the pass then takes the next one.  *)
SettleRetry(d) ==
    \E it \in drainer[d].batch :
        /\ drainer[d].pc = "retry"
        /\ IsHead(d, it)
        /\ MarkAttempt(it.id)
        /\ drainer' = [drainer EXCEPT ![d].pc = "drain", ![d].batch = @ \ {it}]
        /\ UNCHANGED <<nextId, files, writer, delivered, queued, cleared, bounds>>

(* Mutant: dead-lettering deletes the row.                                 *)
SettleDeadDeletes(d) ==
    \E it \in drainer[d].batch :
        /\ drainer[d].pc = "dead"
        /\ IsHead(d, it)
        /\ DeleteRow(it.id)
        /\ drainer' = [drainer EXCEPT ![d].pc = "drain", ![d].batch = @ \ {it}]
        /\ UNCHANGED <<nextId, files, writer, delivered, queued, cleared, bounds>>

SettleDead(d) ==
    \E it \in drainer[d].batch :
        /\ drainer[d].pc = "dead"
        /\ IsHead(d, it)
        /\ MarkDead(it.id)
        /\ drainer' = [drainer EXCEPT ![d].pc = "drain", ![d].batch = @ \ {it}]
        /\ UNCHANGED <<nextId, files, writer, delivered, queued, cleared, bounds>>

SettleSent(d) ==
    \E it \in drainer[d].batch :
        /\ drainer[d].pc = "sent"
        /\ IsHead(d, it)
        /\ DeleteRow(it.id)
        /\ drainer' = [drainer EXCEPT ![d] =
                        [pc |-> "unlink", batch |-> @.batch \ {it},
                         staged |-> StagedOf(it.id)]]
        /\ UNCHANGED <<nextId, files, writer, delivered, queued, cleared, bounds>>

UnlinkSent(d) ==
    /\ drainer[d].pc = "unlink"
    /\ RemoveFiles(drainer[d].staged)
    /\ drainer' = [drainer EXCEPT ![d].pc = "drain", ![d].staged = {}]
    /\ UNCHANGED <<rows, nextId, writer, delivered, queued, cleared, bounds>>

(* A settling statement that fails is logged and the pass goes on: the row *)
(* keeps its claim.                                                        *)
SettleFails(d) ==
    \E it \in drainer[d].batch :
        /\ drainer[d].pc \in {"retry", "dead", "sent"}
        /\ crashes < MaxCrashes
        /\ crashes' = crashes + 1
        /\ IsHead(d, it)
        /\ drainer' = [drainer EXCEPT ![d].pc = "drain", ![d].batch = @ \ {it}]
        /\ UNCHANGED <<shared, writer, delivered, queued, cleared, calls, cliRuns>>

(* Cleanup, after the pass of a background drainer: list the directory,    *)
(* read the paths rows know of (ReadDir and SELECT, one step here), ...    *)
Orphans == {p \in Paths : files[p] # "none" /\ \A k \in Keys : p \notin rows[k].staged}

(* Mutant: the sweep knows every file it lists.                            *)
CleanupScanKeepsAll(d) ==
    /\ d \in Drainers
    /\ drainer[d].pc = "drain"
    /\ drainer[d].batch = {}
    /\ drainer' = [drainer EXCEPT ![d] = IdleDrainer]
    /\ UNCHANGED <<shared, writer, delivered, queued, cleared, bounds>>

CleanupScan(d) ==
    /\ d \in Drainers
    /\ drainer[d].pc = "drain"
    /\ drainer[d].batch = {}
    /\ drainer' = [drainer EXCEPT ![d] =
                    [pc |-> "sweep", batch |-> {}, staged |-> Orphans]]
    /\ UNCHANGED <<shared, writer, delivered, queued, cleared, bounds>>

(* ... then remove the files no row knew of.                               *)
CleanupRemove(d) ==
    /\ drainer[d].pc = "sweep"
    /\ RemoveFiles(drainer[d].staged)
    /\ drainer' = [drainer EXCEPT ![d] = IdleDrainer]
    /\ UNCHANGED <<rows, nextId, writer, delivered, queued, cleared, bounds>>

(* drain-now stops after its pass.                                         *)
CliDone(c) ==
    /\ c \in Clis
    /\ drainer[c].pc = "drain"
    /\ drainer[c].batch = {}
    /\ drainer' = [drainer EXCEPT ![c] = IdleDrainer]
    /\ UNCHANGED <<shared, writer, delivered, queued, cleared, bounds>>

(* `queue clear --confirm`: every row, then every file.                    *)
ClearRows(c) ==
    /\ c \in Clis
    /\ drainer[c].pc = "idle"
    /\ cliRuns < MaxCliRuns
    /\ cliRuns' = cliRuns + 1
    /\ cleared' = cleared \cup {k \in Keys : Present(k)}
    /\ rows' = [k \in Keys |-> NoRow]
    /\ drainer' = [drainer EXCEPT ![c].pc = "wipe"]
    /\ UNCHANGED <<nextId, files, writer, delivered, queued, calls, crashes>>

ClearFiles(c) ==
    /\ drainer[c].pc = "wipe"
    /\ RemoveFiles(Paths)
    /\ drainer' = [drainer EXCEPT ![c] = IdleDrainer]
    /\ UNCHANGED <<rows, nextId, writer, delivered, queued, cleared, bounds>>

-----------------------------------------------------------------------------
(* Time and crashes.                                                       *)

(* Mutant: any claimed row is skipped, however old the claim.              *)
ClaimNeverExpires(k) == FALSE /\ rows[k].claimed /\ UNCHANGED vars

(* ClaimTTL runs out, whatever the claimant is doing.                      *)
ClaimExpires(k) ==
    /\ rows[k].claimed
    /\ rows' = [rows EXCEPT ![k].claimed = FALSE]
    /\ UNCHANGED <<nextId, files, writer, drainer, delivered, queued, cleared, bounds>>

(* backoffBase(attempts) has passed since last_attempt_at.                 *)
BackoffElapses(k) ==
    /\ rows[k].waiting
    /\ rows' = [rows EXCEPT ![k].waiting = FALSE]
    /\ UNCHANGED <<nextId, files, writer, drainer, delivered, queued, cleared, bounds>>

(* A process dies, or the context of a call or a pass is cancelled: its    *)
(* local state is gone, claims and files stay.  A writer whose staging or  *)
(* Delete fails (that error is ignored) leaves the same state behind.      *)
CrashWriter(w) ==
    /\ writer[w].pc # "idle"
    /\ crashes < MaxCrashes
    /\ crashes' = crashes + 1
    /\ writer' = [writer EXCEPT ![w] = IdleWriter]
    /\ UNCHANGED <<shared, drainer, delivered, queued, cleared, calls, cliRuns>>

CrashDrainer(d) ==
    /\ drainer[d].pc # "idle"
    /\ crashes < MaxCrashes
    /\ crashes' = crashes + 1
    /\ drainer' = [drainer EXCEPT ![d] = IdleDrainer]
    /\ UNCHANGED <<shared, writer, delivered, queued, cleared, calls, cliRuns>>

-----------------------------------------------------------------------------
Init ==
    /\ rows = [k \in Keys |-> NoRow]
    /\ nextId = 1
    /\ files = [p \in Paths |-> "none"]
    /\ writer = [w \in Writers |-> IdleWriter]
    /\ drainer = [d \in Passes |-> IdleDrainer]
    /\ delivered = {} /\ queued = {} /\ cleared = {}
    /\ calls = 0 /\ cliRuns = 0 /\ crashes = 0

WriterStep(w) ==
    \/ FinishStaging(w) \/ InsertRow(w) \/ InsertCollides(w) \/ InsertFails(w)
    \/ DropDuplicate(w) \/ AdoptExisting(w) \/ LookupFails(w) \/ UndoStaging(w)
    \/ AttemptSucceeds(w) \/ AttemptFails(w)
    \/ ReportQueued(w) \/ DropPosted(w) \/ UnlinkPosted(w)

PassStep(d) ==
    \/ DispatchOK(d) \/ DispatchFails(d)
    \/ SettleRetry(d) \/ SettleDead(d) \/ SettleSent(d) \/ UnlinkSent(d)
    \/ CleanupScan(d) \/ CleanupRemove(d)
    \/ CliDone(d) \/ ClearFiles(d)

Next ==
    \/ \E w \in Writers : \/ \E k \in Keys, e \in Exts : StartCall(w, k, e)
                          \/ WriterStep(w)
                          \/ CrashWriter(w)
    \/ \E d \in Passes : \/ NextEligible(d) \/ PassStep(d) \/ ClearRows(d)
                         \/ SettleFails(d) \/ CrashDrainer(d)
    \/ \E k \in Keys : ClaimExpires(k) \/ BackoffElapses(k)

Spec == Init /\ [][Next]_vars

(* Goroutines that can run do run, the drainer's ticker keeps firing, and  *)
(* time passes.  Nothing is assumed of callers, of operators, of crashes   *)
(* or of the daemon's answers.                                             *)
FairSpec ==
    /\ Spec
    /\ \A w \in Writers : WF_vars(WriterStep(w))
    /\ \A d \in Passes : WF_vars(PassStep(d))
    /\ \A d \in Drainers : WF_vars(NextEligible(d))
    /\ \A k \in Keys : WF_vars(ClaimExpires(k)) /\ WF_vars(BackoffElapses(k))

-----------------------------------------------------------------------------
(* What the queue promises, stated abstractly.                             *)

Outbox == INSTANCE DurableOutbox WITH
    pending   <- {k \in Keys : Present(k)},
    promised  <- queued,
    discarded <- cleared

(* A write whose caller was told "Queued ... pending sync" still has its   *)
(* row, has reached the daemon, or was cleared by the operator: across     *)
(* duplicates, late answers, double claims and crashes no row is deleted   *)
(* for a write the daemon does not have (enqueueAndAttempt, DrainOnce).    *)
QueuedIsDurable ==
    \A k \in queued : Present(k) \/ k \in delivered \/ k \in cleared

(* A pass that settles late (its claim expired, another pass took the row) *)
(* never settles a row other than the one it dispatched: an id names one   *)
(* write for good, deleted and re-enqueued rows included (AUTOINCREMENT).  *)
ItemsNameTheirWrite ==
    \A d \in Passes : \A it \in drainer[d].batch : \A k \in Keys :
        rows[k].id = it.id => k = it.key

(* The queue implements the durable outbox.                                *)
ImplementsOutbox == Outbox!OutboxSpec

(* A dead-lettered row is never revived and is never claimed by a new      *)
(* pass; it leaves the table only once the daemon has the write, or        *)
(* cleared (MarkDead: "never retried again", "retained until cleared").    *)
DeadIsFinal ==
    [][\A k \in Keys :
          (Present(k) /\ rows[k].dead) =>
              /\ rows'[k].claimed => rows[k].claimed
              /\ \/ rows'[k].id = rows[k].id /\ rows'[k].dead
                 \/ rows'[k].id = 0 /\ k \in delivered \cup cleared']_vars

(* Every row ends: it is sent and deleted, or dead-lettered.  Outages,     *)
(* crashes mid-pass and lost claims delay this and no more.                *)
EveryRowSettles ==
    \A k \in Keys : (Present(k) /\ ~rows[k].dead) ~> (~Present(k) \/ rows[k].dead)

(* A staged file whose row never came (a crash mid-Enqueue) or is gone (a  *)
(* crash between DELETE and Remove) is swept, or gets a row again.         *)
OrphansAreSwept ==
    \A p \in Paths : (p \in Orphans) ~> (p \notin Orphans)

(* Enqueue: "a crash mid-Enqueue leaves an orphan file ... rather than a   *)
(* row pointing at a missing file (unrecoverable)".                        *)
NoRowWithoutItsFile ==
    \A k \in Keys \ delivered : \A p \in rows[k].staged : files[p] # "none"
=============================================================================
