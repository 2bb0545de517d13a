--------------------------- MODULE BrainLifecycle ---------------------------
(***************************************************************************)
(* The life of the brain directories under one brains root: agent          *)
(* processes that start up (recovery sweep, garbage collection, birth or   *)
(* rebind, heartbeat), run (heartbeat and checkpointer goroutines), shut   *)
(* down or crash, and the operator's gc-brains command, all reading and    *)
(* rewriting the same manifest.json files.                                 *)
(*                                                                         *)
(* Every manifest update in the code is a read, a change in memory and an  *)
(* atomic replacement of the whole file: the read and the write are        *)
(* separate actions here and the copy in between is state.  The only       *)
(* exclusion between processes is the flock on markers/alive.              *)
(*                                                                         *)
(* Time is kept as the age of last_heartbeat: 0 is fresher than            *)
(* OrphanThresholdSecs, 1 is past it, 2 is past LocalRetentionHours.       *)
(***************************************************************************)
EXTENDS Naturals, FiniteSets

CONSTANTS
    Procs,      \* process ids; a process that starts again reuses its pid
    Named,      \* brain ids an operator pins with CL_BRAIN_ID
    Uuids,      \* the ids uuid.NewString hands out, each at most once
    Cli,        \* the gc-brains command, as the holder of a flock
    None,       \* no holder, no process, no brain
    MaxBoots,   \* bound: boots of the host
    MaxStarts,  \* bound: agent starts
    MaxCliRuns  \* bound: gc-brains runs

ASSUME LifecycleAssumption ==
    /\ None \notin Procs \cup {Cli} \cup Named \cup Uuids
    /\ Cli \notin Procs
    /\ Named \cap Uuids = {}
    /\ MaxBoots \in Nat \ {0} /\ MaxStarts \in Nat /\ MaxCliRuns \in Nat

Brains == Named \cup Uuids

VARIABLES
    boot,    \* the host's boot_id, counted
    man,     \* brain -> its manifest.json
    marker,  \* brain -> "none", "dir" (markers/ only) or "file" (markers/alive)
    lock,    \* brain -> holder of the flock on the current markers/alive
    pc,      \* process -> where its main goroutine is
    brain,   \* process -> the brain it is bound to, or asks for
    todo,    \* process -> directory entries its sweep has still to visit
    entries, \* process -> the entries ReadDir returned at its start
    cur,     \* process -> the entry in hand
    copy,    \* process -> the manifest its main goroutine holds in memory
    beat,    \* process -> the manifest its heartbeat goroutine holds
    ckpt,    \* process -> the manifest its checkpointer holds (under l.mu)
    cli,     \* the gc-brains command
    used,    \* uuids handed out so far
    starts,  \* agent starts so far
    cliRuns, \* gc-brains runs so far
    missed,  \* history: process -> corpses since its sweep began, undisturbed
    buried,  \* history: brains whose Death completed and nobody claimed since
    unmarked \* history: brains a sweep met between their manifest and marker

disk   == <<boot, man, marker, lock>>
agents == <<pc, brain, todo, entries, cur, copy, beat, ckpt>>
hist   == <<missed, buried, unmarked>>
vars   == <<disk, agents, cli, used, starts, cliRuns, hist>>

Phases == {"down", "sweep", "probe", "release", "mark", "gc", "gclock",
           "gcremove", "birth", "write", "attach", "locking", "starting",
           "run", "closing", "death", "shutting", "dying", "closed"}

NoManifest == [status |-> "none", pid |-> None, boot |-> 0, age |-> 0]
Manifests  == {NoManifest} \cup
              [status : {"alive", "shutting_down", "dead"}, pid : Procs,
               boot : 1 .. MaxBoots, age : 0 .. 2]
Idle       == [pc |-> "idle", alive |-> FALSE, todo |-> {}, del |-> {},
               cur |-> None, pid |-> None]

\* A process shows in the process table from its start to its exit.
ProcessAlive(p) == pc[p] # "down"
\* ReadDir sees a directory that holds a manifest or a markers/ directory.
ReadDir == {b \in Brains : man[b] # NoManifest \/ marker[b] # "none"}
IsGCEligible(m) == m.status = "dead" /\ m.age = 2

Init ==
    /\ boot = 1
    /\ man = [b \in Brains |-> NoManifest]
    /\ marker = [b \in Brains |-> "none"]
    /\ lock = [b \in Brains |-> None]
    /\ pc = [p \in Procs |-> "down"]
    /\ brain = [p \in Procs |-> None]
    /\ todo = [p \in Procs |-> {}]
    /\ entries = [p \in Procs |-> {}]
    /\ cur = [p \in Procs |-> None]
    /\ copy = [p \in Procs |-> NoManifest]
    /\ beat = [p \in Procs |-> NoManifest]
    /\ ckpt = [p \in Procs |-> NoManifest]
    /\ cli = Idle
    /\ used = {} /\ starts = 0 /\ cliRuns = 0
    /\ missed = [p \in Procs |-> {}]
    /\ buried = {} /\ unmarked = {}

-----------------------------------------------------------------------------
(* What several operations share.                                          *)

GoTo(p, phase) == pc' = [pc EXCEPT ![p] = phase]

\* The process is gone: its memory with it, and the kernel drops its flocks.
Gone(P) ==
    /\ pc' = [p \in Procs |-> IF p \in P THEN "down" ELSE pc[p]]
    /\ brain' = [p \in Procs |-> IF p \in P THEN None ELSE brain[p]]
    /\ todo' = [p \in Procs |-> IF p \in P THEN {} ELSE todo[p]]
    /\ entries' = [p \in Procs |-> IF p \in P THEN {} ELSE entries[p]]
    /\ cur' = [p \in Procs |-> IF p \in P THEN None ELSE cur[p]]
    /\ copy' = [p \in Procs |-> IF p \in P THEN NoManifest ELSE copy[p]]
    /\ beat' = [p \in Procs |-> IF p \in P THEN NoManifest ELSE beat[p]]
    /\ ckpt' = [p \in Procs |-> IF p \in P THEN NoManifest ELSE ckpt[p]]
    /\ lock' = [b \in Brains |-> IF lock[b] \in P THEN None ELSE lock[b]]

\* The entry in hand is settled; the sweep goes on with the others.
NextEntry(p, phase) ==
    /\ GoTo(p, phase)
    /\ cur' = [cur EXCEPT ![p] = None]
    /\ copy' = [copy EXCEPT ![p] = NoManifest]

Unlock(p, b) == lock' = [lock EXCEPT ![b] = IF @ = p THEN None ELSE @]

\* os.RemoveAll: a flock still held is on an unlinked file from now on.
RemoveAll(b) ==
    /\ man' = [man EXCEPT ![b] = NoManifest]
    /\ marker' = [marker EXCEPT ![b] = "none"]
    /\ lock' = [lock EXCEPT ![b] = None]

\* A RemoveAll that breaks off: part of the directory is gone, and whoever
\* removes gives its flock back.
RemoveSome(b, holder) ==
    /\ man' \in {man, [man EXCEPT ![b] = NoManifest]}
    /\ \E left \in {marker[b], "none"} \cup (IF marker[b] = "file" THEN {"dir"} ELSE {}) :
        /\ marker' = [marker EXCEPT ![b] = left]
        /\ lock' = [lock EXCEPT ![b] = IF left = "file" /\ @ # holder THEN @ ELSE None]

-----------------------------------------------------------------------------
(* History, a conjunct of every action.                                    *)

\* A brain the recovery sweep is there for: alive on disk, nobody behind it.
Corpse(b, p) ==
    /\ man[b].status = "alive" /\ ~ProcessAlive(man[b].pid)
    /\ man[b].boot # boot \/ marker[b] # "file" \/ man[b].age >= 1
    /\ lock[b] \in {None, p}
    /\ \A q \in Procs : brain[q] # b \/ pc[q] \in {"down", "closed"}

Sweeping == {"sweep", "probe", "release", "mark"}
Claiming == {"write", "attach", "locking", "starting", "run", "closing", "death", "shutting", "dying"}

\* skips: pairs of a process and an entry its sweep has just given up.
Recorded(skips) ==
    /\ missed' = [p \in Procs |->
          CASE pc[p] = "down" /\ pc'[p] = "sweep" -> {b \in todo'[p] : Corpse(b, p)'}
            [] pc[p] \in Sweeping /\ pc'[p] \in Sweeping \cup {"gc"} ->
                  {b \in missed[p] : Corpse(b, p)' /\ <<p, b>> \notin skips}
            [] OTHER -> {}]
    /\ buried' = {b \in buried \cup {brain[p] : p \in {q \in Procs :
                                       pc[q] = "dying" /\ pc'[q] = "closed"}} :
                     \A q \in Procs : pc'[q] \in Claiming => brain'[q] # b}
    /\ unmarked' = unmarked \cup
          {cur[p] : p \in {q \in Procs : pc[q] = "probe" /\ pc'[q] = "mark"}}
History == Recorded({})

-----------------------------------------------------------------------------
(* Start-up: runMCPAgentMode.                                              *)

\* A process starts, with CL_BRAIN_ID set or not, and lists the siblings.
\* When the boot id or the directory cannot be read the sweep is skipped.
StartAgent(p) ==
    /\ pc[p] = "down" /\ starts < MaxStarts
    /\ starts' = starts + 1
    /\ \E id \in Named \cup {None} : brain' = [brain EXCEPT ![p] = id]
    /\ \/ /\ GoTo(p, "sweep")
          /\ todo' = [todo EXCEPT ![p] = ReadDir]
          /\ entries' = [entries EXCEPT ![p] = ReadDir]
       \/ GoTo(p, "birth") /\ UNCHANGED <<todo, entries>>
    /\ UNCHANGED <<disk, cur, copy, beat, ckpt, cli, used, cliRuns>>
    /\ History

\* Mutant: a heartbeat past the threshold is enough, the flock is not probed.
SweepReadStale(p) ==
    /\ pc[p] = "sweep"
    /\ \E b \in todo[p] :
        /\ todo' = [todo EXCEPT ![p] = @ \ {b}]
        /\ IF man[b].status # "alive"
           THEN UNCHANGED <<pc, cur, copy>>
           ELSE /\ cur' = [cur EXCEPT ![p] = b]
                /\ copy' = [copy EXCEPT ![p] = man[b]]
                /\ GoTo(p, IF man[b].boot # boot \/ man[b].age >= 1 THEN "mark" ELSE "probe")
    /\ UNCHANGED <<disk, brain, entries, beat, ckpt, cli, used, starts, cliRuns>>
    /\ History

\* Recover, one entry: read the manifest, decide on status and boot_id.
SweepRead(p) ==
    /\ pc[p] = "sweep"
    /\ \E b \in todo[p] :
        /\ todo' = [todo EXCEPT ![p] = @ \ {b}]
        /\ IF man[b].status # "alive"
           THEN UNCHANGED <<pc, cur, copy>>
           ELSE /\ cur' = [cur EXCEPT ![p] = b]
                /\ copy' = [copy EXCEPT ![p] = man[b]]
                /\ GoTo(p, IF man[b].boot # boot THEN "mark" ELSE "probe")
    /\ UNCHANGED <<disk, brain, entries, beat, ckpt, cli, used, starts, cliRuns>>
    /\ History

\* The marker is absent, or its flock is probed.
SweepProbe(p) ==
    /\ pc[p] = "probe"
    /\ \/ /\ marker[cur[p]] # "file"
          /\ GoTo(p, "mark") /\ UNCHANGED <<lock, cur, copy>>
       \/ /\ marker[cur[p]] = "file" /\ lock[cur[p]] # None
          /\ NextEntry(p, "sweep") /\ UNCHANGED lock
       \/ /\ marker[cur[p]] = "file" /\ lock[cur[p]] = None
          /\ lock' = [lock EXCEPT ![cur[p]] = p]
          /\ GoTo(p, "release") /\ UNCHANGED <<cur, copy>>
    /\ UNCHANGED <<boot, man, marker, brain, todo, entries, beat, ckpt,
                   cli, used, starts, cliRuns>>
    /\ History

\* Mutant: the heartbeat is compared with the retention, not the threshold.
OrphanedLate(m) == ~ProcessAlive(m.pid) /\ m.age >= 2

\* What the sweep concludes once it could take the flock.
Orphaned(m) == ~ProcessAlive(m.pid) /\ m.age >= 1

\* The flock is given back at once; then the pid and the heartbeat are judged.
SweepJudge(p) ==
    /\ pc[p] = "release"
    /\ Unlock(p, cur[p])
    /\ IF Orphaned(copy[p])
       THEN GoTo(p, "mark") /\ UNCHANGED <<cur, copy>>
       ELSE NextEntry(p, "sweep")
    /\ UNCHANGED <<boot, man, marker, brain, todo, entries, beat, ckpt,
                   cli, used, starts, cliRuns>>
    /\ History

\* Mutant: a status of its own for what the sweep found, which nobody reads.
SweepMarkOrphaned(p) ==
    /\ pc[p] = "mark"
    /\ man' = [man EXCEPT ![cur[p]] = [copy[p] EXCEPT !.status = "orphaned"]]
    /\ NextEntry(p, "sweep")
    /\ UNCHANGED <<boot, marker, lock, brain, todo, entries, beat, ckpt,
                   cli, used, starts, cliRuns>>
    /\ History

\* markDead writes back the copy read before the probe, status changed.
SweepMark(p) ==
    /\ pc[p] = "mark"
    /\ man' = [man EXCEPT ![cur[p]] = [copy[p] EXCEPT !.status = "dead"]]
    /\ NextEntry(p, "sweep")
    /\ UNCHANGED <<boot, marker, lock, brain, todo, entries, beat, ckpt,
                   cli, used, starts, cliRuns>>
    /\ History

\* An error skips the entry in hand: its manifest cannot be read, its flock
\* cannot be probed, markDead cannot write.
SweepSkip(p) ==
    \E b \in todo[p] \cup {cur[p]} :
        /\ \/ /\ pc[p] = "sweep" /\ b \in todo[p]
              /\ todo' = [todo EXCEPT ![p] = @ \ {b}]
              /\ UNCHANGED <<pc, cur, copy>>
           \/ /\ pc[p] \in {"probe", "mark"} /\ b = cur[p]
              /\ NextEntry(p, "sweep") /\ UNCHANGED todo
        /\ UNCHANGED <<disk, brain, entries, beat, ckpt, cli, used, starts, cliRuns>>
        /\ Recorded({<<p, b>>})

\* The second pass goes over the entries the first one listed.
SweepDone(p) ==
    /\ pc[p] = "sweep" /\ todo[p] = {}
    /\ GoTo(p, "gc")
    /\ todo' = [todo EXCEPT ![p] = entries[p]]
    /\ entries' = [entries EXCEPT ![p] = {}]
    /\ UNCHANGED <<disk, brain, cur, copy, beat, ckpt, cli, used, starts, cliRuns>>
    /\ History

\* gcSweep, one entry: re-read the manifest and ask IsGCEligible.
GcRead(p) ==
    /\ pc[p] = "gc"
    /\ \E b \in todo[p] :
        /\ todo' = [todo EXCEPT ![p] = @ \ {b}]
        /\ IF IsGCEligible(man[b])
           THEN GoTo(p, "gclock") /\ cur' = [cur EXCEPT ![p] = b]
           ELSE UNCHANGED <<pc, cur>>
    /\ UNCHANGED <<disk, brain, entries, copy, beat, ckpt, cli, used, starts, cliRuns>>
    /\ History

\* Mutant: eligible is enough, the marker is not probed before the removal.
GcLockSkipsProbe(p) ==
    /\ pc[p] = "gclock"
    /\ GoTo(p, "gcremove")
    /\ UNCHANGED <<disk, brain, todo, entries, cur, copy, beat, ckpt,
                   cli, used, starts, cliRuns>>
    /\ History

\* Without a marker there is no flock to take; with one it is kept.
GcLock(p) ==
    /\ pc[p] = "gclock"
    /\ \/ /\ marker[cur[p]] # "file"
          /\ GoTo(p, "gcremove") /\ UNCHANGED <<lock, cur, copy>>
       \/ /\ marker[cur[p]] = "file" /\ lock[cur[p]] # None
          /\ NextEntry(p, "gc") /\ UNCHANGED lock
       \/ /\ marker[cur[p]] = "file" /\ lock[cur[p]] = None
          /\ lock' = [lock EXCEPT ![cur[p]] = p]
          /\ GoTo(p, "gcremove") /\ UNCHANGED <<cur, copy>>
    /\ UNCHANGED <<boot, man, marker, brain, todo, entries, beat, ckpt,
                   cli, used, starts, cliRuns>>
    /\ History

GcRemove(p) ==
    /\ pc[p] = "gcremove"
    /\ RemoveAll(cur[p])
    /\ NextEntry(p, "gc")
    /\ UNCHANGED <<boot, brain, todo, entries, beat, ckpt, cli, used, starts, cliRuns>>
    /\ History

\* An error skips the entry: manifest, flock, or a removal that breaks off.
GcSkip(p) ==
    /\ \/ /\ pc[p] = "gc"
          /\ \E b \in todo[p] : todo' = [todo EXCEPT ![p] = @ \ {b}]
          /\ UNCHANGED <<pc, cur, copy, man, marker, lock>>
       \/ /\ pc[p] = "gclock"
          /\ NextEntry(p, "gc")
          /\ UNCHANGED <<todo, man, marker, lock>>
       \/ /\ pc[p] = "gcremove"
          /\ RemoveSome(cur[p], p)
          /\ NextEntry(p, "gc")
          /\ UNCHANGED todo
    /\ UNCHANGED <<boot, brain, entries, beat, ckpt, cli, used, starts, cliRuns>>
    /\ History

GcDone(p) ==
    /\ pc[p] = "gc" /\ todo[p] = {}
    /\ GoTo(p, "birth")
    /\ UNCHANGED <<disk, brain, todo, entries, cur, copy, beat, ckpt,
                   cli, used, starts, cliRuns>>
    /\ History

\* Birth: an id given by CL_BRAIN_ID is rebound when its manifest is there
\* and not dead (dead: Start fails and the process exits); else a new brain.
BirthRead(p) ==
    /\ pc[p] = "birth"
    /\ \/ /\ brain[p] # None /\ man[brain[p]].status = "dead"
          /\ Gone({p}) /\ UNCHANGED used
       \/ /\ brain[p] # None /\ man[brain[p]].status # "dead"
          /\ copy' = [copy EXCEPT ![p] = man[brain[p]]]
          /\ GoTo(p, "write") /\ UNCHANGED <<brain, todo, entries, cur, beat, ckpt, lock, used>>
       \/ /\ brain[p] = None
          /\ \E b \in Uuids \ used :
                brain' = [brain EXCEPT ![p] = b] /\ used' = used \cup {b}
          /\ GoTo(p, "write") /\ UNCHANGED <<todo, entries, cur, copy, beat, ckpt, lock>>
    /\ UNCHANGED <<boot, man, marker, cli, starts, cliRuns>>
    /\ History

\* rebind keeps the directory as it is, a fresh birth makes the skeleton
\* (markers/ included); both write an alive manifest with this pid and boot.
BirthWrite(p) ==
    /\ pc[p] = "write"
    /\ man' = [man EXCEPT ![brain[p]] =
                  [status |-> "alive", pid |-> p, boot |-> boot, age |-> 0]]
    /\ marker' = [marker EXCEPT ![brain[p]] =
                  IF copy[p] = NoManifest /\ @ = "none" THEN "dir" ELSE @]
    /\ copy' = [copy EXCEPT ![p] = NoManifest]
    /\ GoTo(p, "attach")
    /\ UNCHANGED <<boot, lock, brain, todo, entries, cur, beat, ckpt,
                   cli, used, starts, cliRuns>>
    /\ History

\* StartHeartbeat: make markers/ and the marker, ...
TouchMarker(p) ==
    /\ pc[p] = "attach"
    /\ marker' = [marker EXCEPT ![brain[p]] = "file"]
    /\ GoTo(p, "locking")
    /\ UNCHANGED <<boot, man, lock, brain, todo, entries, cur, copy, beat, ckpt,
                   cli, used, starts, cliRuns>>
    /\ History

\* ... take its flock, or fail the start when it is held or markers/ is gone.
Attach(p) ==
    /\ pc[p] = "locking"
    /\ \/ /\ lock[brain[p]] = None /\ marker[brain[p]] # "none"
          /\ marker' = [marker EXCEPT ![brain[p]] = "file"]
          /\ lock' = [lock EXCEPT ![brain[p]] = p]
          /\ GoTo(p, "starting")
          /\ UNCHANGED <<brain, todo, entries, cur, copy, beat, ckpt>>
       \/ /\ lock[brain[p]] # None \/ marker[brain[p]] = "none"
          /\ Gone({p}) /\ UNCHANGED marker
    /\ UNCHANGED <<boot, man, cli, used, starts, cliRuns>>
    /\ History

-----------------------------------------------------------------------------
(* A running brain.                                                        *)

Beating == {"starting", "run", "closing"}

\* touch, first half: rewrite the marker and read the manifest.  Without
\* markers/ the touch fails, which only the first one minds; without a
\* manifest there is nothing to refresh.
TouchRead(p) ==
    LET b == brain[p] IN
    /\ pc[p] \in Beating /\ beat[p] = NoManifest
    /\ IF marker[b] = "none"
       THEN IF pc[p] = "starting" THEN Gone({p}) /\ UNCHANGED marker
            ELSE UNCHANGED <<agents, lock, marker>>
       ELSE /\ marker' = [marker EXCEPT ![b] = "file"]
            /\ beat' = [beat EXCEPT ![p] = IF man[b] = NoManifest THEN NoManifest
                                           ELSE [man[b] EXCEPT !.age = 0]]
            /\ IF man[b] = NoManifest /\ pc[p] = "starting" THEN GoTo(p, "run")
               ELSE UNCHANGED pc
            /\ UNCHANGED <<brain, todo, entries, cur, copy, ckpt, lock>>
    /\ UNCHANGED <<boot, man, cli, used, starts, cliRuns>>
    /\ History

\* touch, second half: replace the manifest by the copy just read.
TouchWrite(p) ==
    /\ beat[p] # NoManifest
    /\ man' = [man EXCEPT ![brain[p]] = beat[p]]
    /\ beat' = [beat EXCEPT ![p] = NoManifest]
    /\ IF pc[p] = "starting" THEN GoTo(p, "run") ELSE UNCHANGED pc
    /\ UNCHANGED <<boot, marker, lock, brain, todo, entries, cur, copy, ckpt,
                   cli, used, starts, cliRuns>>
    /\ History

\* Lifecycle.Checkpoint under l.mu: refused unless the manifest says alive.
CheckpointRead(p) ==
    /\ pc[p] = "run" /\ ckpt[p] = NoManifest
    /\ man[brain[p]].status = "alive"
    /\ ckpt' = [ckpt EXCEPT ![p] = man[brain[p]]]
    /\ UNCHANGED <<disk, pc, brain, todo, entries, cur, copy, beat,
                   cli, used, starts, cliRuns>>
    /\ History

CheckpointWrite(p) ==
    /\ ckpt[p] # NoManifest
    /\ man' = [man EXCEPT ![brain[p]] = ckpt[p]]
    /\ ckpt' = [ckpt EXCEPT ![p] = NoManifest]
    /\ UNCHANGED <<boot, marker, lock, pc, brain, todo, entries, cur, copy, beat,
                   cli, used, starts, cliRuns>>
    /\ History

\* Shutdown (brain_death, or the deferred call on exit): closed under l.mu.
Shutdown(p) ==
    /\ pc[p] = "run" /\ ckpt[p] = NoManifest
    /\ GoTo(p, "closing")
    /\ UNCHANGED <<disk, brain, todo, entries, cur, copy, beat, ckpt,
                   cli, used, starts, cliRuns>>
    /\ History

\* Mutant: Stop cancels the ticker and does not wait for the touch under way.
StopHeartbeatNoWait(p) ==
    /\ pc[p] = "closing"
    /\ Unlock(p, brain[p])
    /\ GoTo(p, "death")
    /\ UNCHANGED <<boot, man, marker, brain, todo, entries, cur, copy, beat, ckpt,
                   cli, used, starts, cliRuns>>
    /\ History

\* Heartbeat.Stop waits for the goroutine, then releases the flock.
StopHeartbeat(p) ==
    /\ pc[p] = "closing" /\ beat[p] = NoManifest
    /\ Unlock(p, brain[p])
    /\ GoTo(p, "death")
    /\ UNCHANGED <<boot, man, marker, brain, todo, entries, cur, copy, beat, ckpt,
                   cli, used, starts, cliRuns>>
    /\ History

\* Death: only from alive, through shutting_down, each state persisted.
DeathRead(p) ==
    /\ pc[p] = "death"
    /\ IF man[brain[p]].status = "alive"
       THEN GoTo(p, "shutting") /\ copy' = [copy EXCEPT ![p] = man[brain[p]]]
       ELSE GoTo(p, "closed") /\ UNCHANGED copy
    /\ UNCHANGED <<disk, brain, todo, entries, cur, beat, ckpt,
                   cli, used, starts, cliRuns>>
    /\ History

DeathWrite(p, phase, status, next) ==
    /\ pc[p] = phase
    /\ man' = [man EXCEPT ![brain[p]] = [copy[p] EXCEPT !.status = status]]
    /\ copy' = [copy EXCEPT ![p] = IF next = "closed" THEN NoManifest ELSE @]
    /\ GoTo(p, next)
    /\ UNCHANGED <<boot, marker, lock, brain, todo, entries, cur, beat, ckpt,
                   cli, used, starts, cliRuns>>
    /\ History
DeathShutting(p) == DeathWrite(p, "shutting", "shutting_down", "dying")
DeathDead(p)     == DeathWrite(p, "dying", "dead", "closed")

\* The process ends: orderly after Shutdown, or killed at any point.
Exit(p) ==
    /\ pc[p] # "down"
    /\ Gone({p})
    /\ UNCHANGED <<boot, man, marker, cli, used, starts, cliRuns>>
    /\ History

-----------------------------------------------------------------------------
(* pbrainctl gc-brains: a pass that decides, a table, a pass that deletes. *)

CliStart ==
    /\ cli.pc = "idle" /\ cliRuns < MaxCliRuns
    /\ cliRuns' = cliRuns + 1
    /\ \E a \in BOOLEAN :
        cli' = [Idle EXCEPT !.pc = "judge", !.todo = ReadDir, !.alive = a]
    /\ UNCHANGED <<disk, agents, used, starts>>
    /\ History

\* One row: dead brains by IsGCEligible; alive ones, with --include-alive,
\* by age, a flock that can be taken and (CliAliveEligible) a pid that is gone;
\* none whose manifest cannot be read or whose flock cannot be probed.
CliJudge ==
    /\ cli.pc = "judge"
    /\ \E b \in cli.todo :
        LET m == man[b]
            next == [cli EXCEPT !.todo = @ \ {b}]
            probed == m.status = "alive" /\ cli.alive /\ m.age = 2
        IN  \/ /\ IsGCEligible(m)
               /\ cli' = [next EXCEPT !.del = @ \cup {b}] /\ UNCHANGED lock
            \/ cli' = next /\ UNCHANGED lock
            \/ /\ probed /\ lock[b] = None
               /\ cli' = [next EXCEPT !.pc = "alive", !.cur = b, !.pid = m.pid]
               /\ lock' = IF marker[b] = "file" THEN [lock EXCEPT ![b] = Cli] ELSE lock
    /\ UNCHANGED <<boot, man, marker, agents, used, starts, cliRuns>>
    /\ History

CliAliveEligible ==
    /\ cli.pc = "alive"
    /\ Unlock(Cli, cli.cur)
    /\ cli' = [cli EXCEPT !.pc = "judge", !.cur = None, !.pid = None,
                          !.del = IF ProcessAlive(cli.pid) THEN @ ELSE @ \cup {cli.cur}]
    /\ UNCHANGED <<boot, man, marker, agents, used, starts, cliRuns>>
    /\ History

\* The delete pass takes the flock, or skips the row when it is held or cannot
\* be probed; it does not read the manifest again.
CliLock ==
    /\ cli.pc = "judge" /\ cli.todo = {}
    /\ \E b \in cli.del :
        LET next == [cli EXCEPT !.del = @ \ {b}] IN
        \/ cli' = next /\ UNCHANGED lock
        \/ /\ marker[b] # "file" \/ lock[b] = None
           /\ cli' = [next EXCEPT !.pc = "remove", !.cur = b]
           /\ lock' = IF marker[b] = "file" THEN [lock EXCEPT ![b] = Cli] ELSE lock
    /\ UNCHANGED <<boot, man, marker, agents, used, starts, cliRuns>>
    /\ History

CliRemove ==
    /\ cli.pc = "remove"
    /\ RemoveAll(cli.cur) \/ RemoveSome(cli.cur, Cli)
    /\ cli' = [cli EXCEPT !.pc = "judge", !.cur = None]
    /\ UNCHANGED <<boot, agents, used, starts, cliRuns>>
    /\ History

\* Done, a dry run, or interrupted.
CliExit ==
    /\ cli.pc # "idle"
    /\ cli' = Idle
    /\ lock' = [b \in Brains |-> IF lock[b] = Cli THEN None ELSE lock[b]]
    /\ UNCHANGED <<boot, man, marker, agents, used, starts, cliRuns>>
    /\ History

-----------------------------------------------------------------------------
(* The host.                                                               *)

Older(m) == IF m = NoManifest \/ m.age = 2 THEN m ELSE [m EXCEPT !.age = @ + 1]

\* Time passes.  Starting an agent takes seconds and the retention is hours,
\* so no start-up lasts from a fresh heartbeat to the end of the retention.
Starting == {"attach", "locking", "starting"}
Tick ==
    /\ \A p \in Procs : pc[p] \in Starting => man[brain[p]].age = 0
    /\ man' = [b \in Brains |-> Older(man[b])]
    /\ copy' = [p \in Procs |-> Older(copy[p])]
    /\ beat' = [p \in Procs |-> Older(beat[p])]
    /\ ckpt' = [p \in Procs |-> Older(ckpt[p])]
    /\ UNCHANGED <<boot, marker, lock, pc, brain, todo, entries, cur,
                   cli, used, starts, cliRuns>>
    /\ History

Reboot ==
    /\ boot < MaxBoots
    /\ boot' = boot + 1
    /\ Gone(Procs) /\ cli' = Idle
    /\ UNCHANGED <<man, marker, used, starts, cliRuns>>
    /\ History

-----------------------------------------------------------------------------
(* The next-state relation.                                                *)

Agent(p) ==
    \/ StartAgent(p)
    \/ SweepRead(p) \/ SweepProbe(p) \/ SweepJudge(p) \/ SweepMark(p)
    \/ SweepSkip(p) \/ SweepDone(p)
    \/ GcRead(p) \/ GcLock(p) \/ GcRemove(p) \/ GcSkip(p) \/ GcDone(p)
    \/ BirthRead(p) \/ BirthWrite(p) \/ TouchMarker(p) \/ Attach(p)
    \/ TouchRead(p) \/ TouchWrite(p) \/ CheckpointRead(p) \/ CheckpointWrite(p)
    \/ Shutdown(p) \/ StopHeartbeat(p)
    \/ DeathRead(p) \/ DeathShutting(p) \/ DeathDead(p)
    \/ Exit(p)
Command == CliStart \/ CliJudge \/ CliAliveEligible \/ CliLock \/ CliRemove \/ CliExit
Next ==
    (\E p \in Procs : Agent(p)) \/ Command \/ Tick \/ Reboot

Spec == Init /\ [][Next]_vars

-----------------------------------------------------------------------------
(* Properties.                                                             *)

\* Every manifest, copy and flock holder is one the program can write.
TypeOK ==
    /\ boot \in 1 .. MaxBoots
    /\ man \in [Brains -> Manifests]
    /\ marker \in [Brains -> {"none", "dir", "file"}]
    /\ lock \in [Brains -> Procs \cup {Cli, None}]
    /\ pc \in [Procs -> Phases]
    /\ brain \in [Procs -> Brains \cup {None}]
    /\ todo \in [Procs -> SUBSET Brains]
    /\ entries \in [Procs -> SUBSET Brains]
    /\ cur \in [Procs -> Brains \cup {None}]
    /\ copy \in [Procs -> Manifests]
    /\ beat \in [Procs -> Manifests]
    /\ ckpt \in [Procs -> Manifests]
    /\ used \subseteq Uuids
    /\ starts \in 0 .. MaxStarts /\ cliRuns \in 0 .. MaxCliRuns
    /\ \A b \in Brains : lock[b] # None => marker[b] = "file"

\* A brain whose heartbeat has started keeps its directory for as long as it
\* runs, whatever its manifest says, however long it is stopped, and whoever
\* sweeps: the flock held across RemoveAll (recovery.go, gc_brains.go) does
\* it.  Stated for brains with an id of their own; for CL_BRAIN_ID it fails.
RunningKeepsItsDirectory ==
    \A p \in Procs : pc[p] \in {"starting", "run"} /\ brain[p] \in Uuids =>
        man[brain[p]] # NoManifest /\ lock[brain[p]] = p

\* A death that completed is final: no heartbeat, checkpoint or sweep that
\* was under way brings the brain back (death.go: the heartbeat must be
\* stopped first), unless another process takes the brain over.
DeathSticks == \A b \in buried : man[b].status \in {"dead", "none"}

\* A sweep leaves no corpse behind: a brain that was orphaned when the sweep
\* listed the directory, that nobody touched meanwhile and that the sweep did not
\* stumble on with an error of its own, is not alive when the first pass is over;
\* one brain's error saves no other (recovery.go Recover: "one corrupted manifest
\* doesn't block the sweep over healthy siblings").
SweepLeavesNoCorpse == \A p \in Procs : pc[p] = "gc" => missed[p] = {}

\* A running brain is not declared dead, however late its heartbeat: the
\* flock and the pid speak for it (recovery.go Recover).  The exception is a
\* brain a sweep met after its manifest was written and before its marker
\* was: the sweep takes the missing marker for a crash.
LiveBrainIsLeftAlone ==
    \A p \in Procs : pc[p] = "run" /\ brain[p] \in Uuids \ unmarked =>
        man[brain[p]].status # "dead"
=============================================================================
