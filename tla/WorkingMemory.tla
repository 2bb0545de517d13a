--------------------------- MODULE WorkingMemory ---------------------------
(***************************************************************************)
(* Working memory: every agent process keeps the tasks of its session in   *)
(* wm-<pid>.sqlite under an index directory that several processes share   *)
(* (internal/working, internal/mcp/task.go).  At startup a process removes *)
(* the shards of dead pids and opens its own.  task_complete lists what    *)
(* the task logged, ingests it as one note and marks the task, in separate *)
(* statements; the MCP server runs tool calls concurrently.                *)
(*                                                                         *)
(* A shard's name and the file a process has open are kept apart: removing *)
(* the name leaves the process writing a file nobody will find again.      *)
(***************************************************************************)
EXTENDS Naturals, FiniteSets

CONSTANTS
    Sessions,    \* agent processes, restarted again and again
    Pids,        \* process ids, reused
    Calls,       \* concurrent task_complete calls
    Tasks,       \* task ids; one whose rows are gone stands for another task
    Findings,    \* medium and high importance findings
    Unpromoted,  \* low importance findings and steps
    Artifacts,
    Questions

Items == Findings \cup Unpromoted \cup Artifacts \cup Questions
\* A file is named by a number; 0 is no file.
Files == 1 .. Cardinality(Sessions) + Cardinality(Pids)
NoPid == "none"

ASSUME WorkingAssumption ==
    NoPid \notin Pids /\ IsFiniteSet(Pids) /\ IsFiniteSet(Sessions)

VARIABLES
    sess,      \* session -> startup or serving state
    shard,     \* pid -> file of that name, or 0
    status,    \* task -> "none", "active", "completed"
    home,      \* task -> the file its rows are in
    log,       \* task -> items logged
    call,      \* task_complete calls under way
    promoted,  \* task -> items in the notes ingested for it
    unlisted,  \* history: task -> items logged after they could be listed
    raced,     \* history: sessions whose pid a reaper had found dead
    corpses    \* history: session -> dead pids whose shard it has to remove

rows == <<status, home, log>>
memoryHist == <<unlisted, raced, corpses>>
memoryVars == <<sess, shard, rows, call, promoted, memoryHist>>

Off  == [pc |-> "off", pid |-> NoPid, todo |-> {}, victim |-> NoPid, file |-> 0]
Idle == [pc |-> "idle", by |-> "none", task |-> "none", saw |-> {}]

\* Mutant: only processes that are still starting count as alive.
pidStarting(p) == \E s \in Sessions : sess[s].pid = p /\ sess[s].pc # "serving"

\* pidAlive: signal 0 reaches a process of that pid.
pidAlive(p) == \E s \in Sessions : sess[s].pid = p

MemoryInit ==
    /\ sess = [s \in Sessions |-> Off]
    /\ shard = [p \in Pids |-> 0]
    /\ status = [t \in Tasks |-> "none"] /\ home = [t \in Tasks |-> 0]
    /\ log = [t \in Tasks |-> {}]
    /\ call = [c \in Calls |-> Idle]
    /\ promoted = [t \in Tasks |-> {}]
    /\ unlisted = [t \in Tasks |-> {}] /\ raced = {}
    /\ corpses = [s \in Sessions |-> {}]

-----------------------------------------------------------------------------
(* Startup and exit.                                                       *)

\* A new process; the system gives it a pid no live process has.
Start(s) ==
    /\ sess[s].pc = "off"
    /\ \E p \in Pids :
        /\ ~pidAlive(p)
        /\ sess' = [sess EXCEPT ![s] = [Off EXCEPT !.pc = "list", !.pid = p]]
        /\ raced' = IF \E q \in Sessions : sess[q].victim = p THEN raced \cup {s} ELSE raced
        /\ corpses' = [q \in Sessions |-> corpses[q] \ {p}]
    /\ UNCHANGED <<shard, rows, call, promoted, unlisted>>

\* Mutant: the walk ends at its own shard instead of skipping it.
ReapListStopsAtSelf(s) ==
    /\ sess[s].pc = "list"
    /\ sess' = [sess EXCEPT ![s].pc = "reap",
                            ![s].todo = IF shard[sess[s].pid] # 0 THEN {}
                                        ELSE {p \in Pids : shard[p] # 0}]
    /\ corpses' = [corpses EXCEPT ![s] = {p \in Pids : shard[p] # 0 /\ ~pidAlive(p)}]
    /\ UNCHANGED <<shard, rows, call, promoted, unlisted, raced>>

\* ReapOrphanedShards: the directory is listed, its own shard skipped.
ReapList(s) ==
    /\ sess[s].pc = "list"
    /\ sess' = [sess EXCEPT ![s].pc = "reap",
                            ![s].todo = {p \in Pids \ {sess[s].pid} : shard[p] # 0}]
    /\ corpses' = [corpses EXCEPT ![s] = {p \in Pids : shard[p] # 0 /\ ~pidAlive(p)}]
    /\ UNCHANGED <<shard, rows, call, promoted, unlisted, raced>>

\* The error of ReadDir is ignored: nothing is reaped, the process goes on.
ReapListFails(s) ==
    /\ sess[s].pc = "list"
    /\ sess' = [sess EXCEPT ![s].pc = "reap"]
    /\ UNCHANGED <<shard, rows, call, promoted, memoryHist>>

\* The next shard: left alone if its process lives.
ReapProbe(s) ==
    /\ sess[s].pc = "reap" /\ sess[s].victim = NoPid
    /\ \E p \in sess[s].todo :
        sess' = [sess EXCEPT ![s].todo = @ \ {p},
                             ![s].victim = IF pidAlive(p) THEN NoPid ELSE p]
    /\ UNCHANGED <<shard, rows, call, promoted, memoryHist>>

\* A file with no name that no process has open is gone, and its rows with it.
LoseRows(names, procs) ==
    LET kept == {names[p] : p \in Pids} \cup {procs[s].file : s \in Sessions}
        Rest(f, none) == [t \in Tasks |-> IF home[t] \in kept THEN f[t] ELSE none]
    IN
    /\ status' = Rest(status, "none") /\ home' = Rest(home, 0) /\ log' = Rest(log, {})
    /\ promoted' = Rest(promoted, {}) /\ unlisted' = Rest(unlisted, {})

\* os.Remove of the shard and its sidecars.
ReapRemove(s) ==
    /\ sess[s].pc = "reap" /\ sess[s].victim # NoPid
    /\ shard' = [shard EXCEPT ![sess[s].victim] = 0]
    /\ sess' = [sess EXCEPT ![s].victim = NoPid]
    /\ LoseRows(shard', sess')
    /\ UNCHANGED <<call, raced, corpses>>

\* The error of os.Remove is ignored: this shard stays, the walk goes on.
ReapRemoveFails(s) ==
    /\ sess[s].pc = "reap" /\ sess[s].victim # NoPid
    /\ sess' = [sess EXCEPT ![s].victim = NoPid]
    /\ corpses' = [corpses EXCEPT ![s] = @ \ {sess[s].victim}]
    /\ UNCHANGED <<shard, rows, call, promoted, unlisted, raced>>

Free == CHOOSE f \in Files : /\ \A p \in Pids : shard[p] # f
                             /\ \A s \in Sessions : sess[s].file # f

\* Open: creates wm-<pid>.sqlite, or reuses the one that is there.
Open(s) ==
    LET p == sess[s].pid
        f == IF shard[p] # 0 THEN shard[p] ELSE Free
    IN
    /\ sess[s].pc = "reap" /\ sess[s].todo = {} /\ sess[s].victim = NoPid
    /\ sess' = [sess EXCEPT ![s].pc = "serving", ![s].file = f]
    /\ shard' = [shard EXCEPT ![p] = f]
    /\ UNCHANGED <<rows, call, promoted, memoryHist>>

\* The process ends, by Close or by a crash; its shard stays.
Exit(s) ==
    /\ sess[s].pc # "off"
    /\ sess' = [sess EXCEPT ![s] = Off]
    /\ call' = [c \in Calls |-> IF call[c].pc # "idle" /\ call[c].by = s THEN Idle ELSE call[c]]
    /\ raced' = raced \ {s}
    /\ corpses' = [corpses EXCEPT ![s] = {}]
    /\ LoseRows(shard, sess')
    /\ UNCHANGED shard

-----------------------------------------------------------------------------
(* Tools.                                                                  *)

\* GetTask finds the row in the file the process has open.
Finds(s, t) == sess[s].pc = "serving" /\ home[t] # 0 /\ home[t] = sess[s].file

\* task_start.
CreateTask(s, t) ==
    /\ sess[s].pc = "serving" /\ status[t] = "none"
    /\ status' = [status EXCEPT ![t] = "active"]
    /\ home' = [home EXCEPT ![t] = sess[s].file]
    /\ UNCHANGED <<sess, shard, log, call, promoted, memoryHist>>

\* Calls on the task that have listed the kind of this item already.
HaveListed(t, i) ==
    {c \in Calls : /\ call[c].task = t
                   /\ \/ call[c].pc \in {"ingest", "mark"}
                      \/ call[c].pc = "questions" /\ i \in Findings \cup Artifacts
                      \/ call[c].pc = "artifacts" /\ i \in Findings}

\* task_update: it asks whether the task exists, not whether it is active.
TaskUpdate(s, t, i) ==
    /\ Finds(s, t) /\ i \notin log[t]
    /\ log' = [log EXCEPT ![t] = @ \cup {i}]
    /\ unlisted' = IF status[t] = "completed" \/ HaveListed(t, i) # {}
                   THEN [unlisted EXCEPT ![t] = @ \cup ({i} \ Unpromoted)] ELSE unlisted
    /\ UNCHANGED <<sess, shard, status, home, call, promoted, raced, corpses>>

\* task_complete: ListImportantFindings, ...
CompleteBegin(c, s, t) ==
    /\ call[c].pc = "idle" /\ Finds(s, t)
    /\ call' = [call EXCEPT ![c] = [pc |-> "artifacts", by |-> s, task |-> t,
                                    saw |-> log[t] \cap Findings]]
    /\ UNCHANGED <<sess, shard, rows, promoted, memoryHist>>

\* ... ListArtifacts, ...
ListArtifacts(c) ==
    /\ call[c].pc = "artifacts"
    /\ call' = [call EXCEPT ![c].saw = @ \cup (log[call[c].task] \cap Artifacts),
                            ![c].pc = "questions"]
    /\ UNCHANGED <<sess, shard, rows, promoted, memoryHist>>

\* ... and ListQuestions; with nothing to promote the task is marked at once.
ListQuestions(c) ==
    LET saw == call[c].saw \cup (log[call[c].task] \cap Questions) IN
    /\ call[c].pc = "questions"
    /\ call' = [call EXCEPT ![c].saw = saw, ![c].pc = IF saw = {} THEN "mark" ELSE "ingest"]
    /\ UNCHANGED <<sess, shard, rows, promoted, memoryHist>>

\* ingestMarkdown accepted the note: sent, or safe in the write-ahead queue.
Promote(c) ==
    /\ call[c].pc = "ingest"
    /\ promoted' = [promoted EXCEPT ![call[c].task] = @ \cup call[c].saw]
    /\ call' = [call EXCEPT ![c].pc = "mark"]
    /\ UNCHANGED <<sess, shard, rows, memoryHist>>

\* Mutant: the task is marked although a statement failed or the note was refused.
CompleteFailsMarks(c) ==
    /\ call[c].pc # "idle"
    /\ call' = [call EXCEPT ![c].pc = "mark"]
    /\ UNCHANGED <<sess, shard, rows, promoted, memoryHist>>

\* A listing fails, the note is refused, the mark fails: the call ends with an
\* error and the task stays as it is.
CompleteFails(c) ==
    /\ call[c].pc # "idle"
    /\ call' = [call EXCEPT ![c] = Idle]
    /\ UNCHANGED <<sess, shard, rows, promoted, memoryHist>>

\* CompleteTask.
CompleteTask(c) ==
    /\ call[c].pc = "mark"
    /\ status' = [status EXCEPT ![call[c].task] = "completed"]
    /\ call' = [call EXCEPT ![c] = Idle]
    /\ UNCHANGED <<sess, shard, home, log, promoted, memoryHist>>

-----------------------------------------------------------------------------
Startup(s) == \/ ReapList(s) \/ ReapListFails(s) \/ ReapProbe(s)
              \/ ReapRemove(s) \/ ReapRemoveFails(s) \/ Open(s)
MemoryNext ==
    \/ \E s \in Sessions : Start(s) \/ Startup(s) \/ Exit(s)
    \/ \E s \in Sessions, t \in Tasks :
        \/ CreateTask(s, t)
        \/ \E i \in Items : TaskUpdate(s, t, i)
        \/ \E c \in Calls : CompleteBegin(c, s, t)
    \/ \E c \in Calls :
        \/ ListArtifacts(c) \/ ListQuestions(c) \/ Promote(c)
        \/ CompleteFails(c) \/ CompleteTask(c)

MemorySpec == MemoryInit /\ [][MemoryNext]_memoryVars

-----------------------------------------------------------------------------
(* Properties.                                                             *)

\* A completed task has left in long-term memory every medium or high finding,
\* artifact and question logged before its completion listed them, although
\* the ingest may fail, calls overlap and the process may die (task.go).  What
\* is logged later is accepted and stays behind.
CompletedIsPromoted ==
    \A t \in Tasks : status[t] = "completed" =>
        log[t] \ Unpromoted \subseteq promoted[t] \cup unlisted[t]

\* A process that serves still has its shard: the reaper of another removes
\* only shards of dead processes (reap.go), except when the pid was given out
\* again between its probe and its remove.
ServingKeepsItsShard ==
    \A s \in Sessions \ raced :
        sess[s].pc = "serving" => shard[sess[s].pid] = sess[s].file

\* A process that serves has cleared the directory (db.go: "everything else dies
\* with the process"): a shard whose process was dead when it listed the directory
\* is gone, unless a new process got the pid or the removal of this very shard
\* failed.  What stays after an error is no more than that (reap.go: "a single
\* failure doesn't abort the walk"); a directory that cannot be listed stays as it
\* is.
StartupLeavesNoOrphan ==
    \A s \in Sessions : sess[s].pc = "serving" => \A p \in corpses[s] : shard[p] = 0
=============================================================================
