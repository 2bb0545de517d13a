----------------------- MODULE BrainLifecycle_proofs -----------------------
(***************************************************************************)
(* Proofs about the brain directories, for any number of agent processes,  *)
(* brains, starts, reboots and gc-brains runs.                             *)
(*                                                                         *)
(* Everything rests on what a process may still do with a manifest it read *)
(* a while ago.  Control says in which phases such a copy exists.  Own     *)
(* says that an id uuid.NewString made belongs to one process; Fresh, that *)
(* nobody knows the id before its manifest is written; Young, that no      *)
(* collector has set its eye on the brain while it starts; Held, that the  *)
(* flock keeps the removal away afterwards; Spoken, that no sweep will     *)
(* declare it dead; and Tracked follows a corpse through the sweep.        *)
(***************************************************************************)
EXTENDS BrainLifecycle, TLAPS

Copying == {"probe", "release", "mark"}
Bound   == Claiming \cup {"closed"}
Keeping == {"attach", "locking", "starting", "run"}

CliState == [pc : {"idle", "judge", "alive", "remove"}, alive : BOOLEAN,
             todo : SUBSET Brains, del : SUBSET Brains, cur : Brains \cup {None},
             pid : Procs \cup {None}]

(* In which phases a process has an entry, a copy or a brain in hand.      *)
Control ==
    /\ \A p \in Procs :
          /\ pc[p] \in Copying \cup {"gclock", "gcremove"} => cur[p] \in Brains
          /\ pc[p] \in Copying \cup {"shutting", "dying"} => copy[p] # NoManifest
          /\ copy[p] # NoManifest => pc[p] \in Copying \cup {"write", "shutting", "dying"}
          /\ pc[p] \in Bound => brain[p] \in Brains
          /\ beat[p] # NoManifest => pc[p] \in Beating
          /\ ckpt[p] # NoManifest => pc[p] = "run"
    /\ cli \in CliState
    /\ cli.pc \in {"alive", "remove"} => cli.cur \in Brains
    /\ cli.pc = "alive" => cli.pid \in Procs

(* A brain whose death completed is claimed by nobody.                     *)
Unclaimed ==
    /\ buried \subseteq Brains
    /\ \A b \in buried, p \in Procs : pc[p] \in Claiming => brain[p] # b

Own ==
    \A p \in Procs : brain[p] \in Uuids =>
        /\ brain[p] \in used /\ pc[p] \in Bound
        /\ \A q \in Procs : brain[q] = brain[p] => q = p

Untouched(b) ==
    /\ man[b] = NoManifest /\ marker[b] = "none"
    /\ \A q \in Procs : b \notin todo[q] /\ b \notin entries[q] /\ cur[q] # b
    /\ b \notin cli.todo /\ b \notin cli.del /\ cli.cur # b

Fresh ==
    \A b \in Uuids :
        (b \notin used \/ \E p \in Procs : brain[p] = b /\ pc[p] = "write") => Untouched(b)

YoungAt(p, b) ==
    /\ man[b].age \in {0, 1}
    /\ \A q \in Procs : cur[q] = b => /\ pc[q] \in Copying => copy[q].age = man[b].age
                                      /\ pc[q] # "gclock"
    /\ b \notin cli.del /\ ~(cli.pc = "alive" /\ cli.cur = b)
Young == \A p \in Procs : pc[p] \in Starting /\ brain[p] \in Uuids => YoungAt(p, brain[p])

HeldAt(p, b) ==
    /\ man[b] # NoManifest
    /\ \A q \in Procs : pc[q] = "gcremove" => cur[q] # b
    /\ ~(cli.pc = "remove" /\ cli.cur = b)
    /\ pc[p] \notin {"attach", "locking"} => lock[b] = p
Held == \A p \in Procs : pc[p] \in Keeping /\ brain[p] \in Uuids => HeldAt(p, brain[p])

Names(m, p) == m.status = "alive" /\ m.pid = p /\ m.boot = boot
SpokenAt(p, b) ==
    /\ Names(man[b], p)
    /\ \A q \in Procs : cur[q] = b => /\ pc[q] \in Copying => copy[q].pid = p
                                      /\ pc[q] # "mark"
    /\ beat[p] # NoManifest => Names(beat[p], p)
    /\ ckpt[p] # NoManifest => Names(ckpt[p], p)
Spoken ==
    \A p \in Procs : pc[p] \in Keeping /\ brain[p] \in Uuids \ unmarked =>
        SpokenAt(p, brain[p])

(* Who can hold a flock.                                                   *)
Locks ==
    \A b \in Brains, p \in Procs : lock[b] = p =>
        \/ pc[p] \in {"release", "gcremove"} /\ cur[p] = b
        \/ pc[p] \in Beating /\ brain[p] = b

TrackedAt(p) ==
    /\ \A b \in missed[p] : Corpse(b, p) /\ (b \in todo[p] \/ (pc[p] # "sweep" /\ b = cur[p]))
    /\ pc[p] \in Copying /\ cur[p] \in missed[p] => copy[p] = man[cur[p]]
    /\ pc[p] \in {"probe", "release"} => copy[p].boot = boot
    /\ pc[p] = "release" /\ cur[p] \in missed[p] => copy[p].age # 0
Tracked == \A p \in Procs : pc[p] \in Sweeping => TrackedAt(p)

TypeInv == TypeOK /\ Control
DeathInv == TypeInv /\ Unclaimed /\ DeathSticks
OwnInv  == TypeInv /\ Own /\ Fresh /\ Young /\ Held
LiveInv == OwnInv /\ Spoken
SweepInv == TypeInv /\ Locks /\ Tracked /\ SweepLeavesNoCorpse

-----------------------------------------------------------------------------
(* Manifests.                                                              *)

Statuses == {"alive", "shutting_down", "dead"}

LEMMA ManifestTypes ==
    /\ NoManifest \in Manifests /\ NoManifest.status = "none"
    /\ \A m \in Manifests : m # NoManifest =>
          /\ m.status \in Statuses /\ m.pid \in Procs /\ m.age \in {0, 1, 2}
          /\ \A s \in Statuses :
                /\ [m EXCEPT !.status = s] \in Manifests
                /\ [m EXCEPT !.status = s].status = s
                /\ [m EXCEPT !.status = s] # NoManifest
                /\ [m EXCEPT !.status = s].age = m.age
          /\ [m EXCEPT !.age = 0] \in Manifests
          /\ [m EXCEPT !.age = 0] # NoManifest
          /\ [m EXCEPT !.age = 0].status = m.status
          /\ [m EXCEPT !.age = 0].pid = m.pid
          /\ [m EXCEPT !.age = 0].boot = m.boot
<1>1. NoManifest \in Manifests /\ NoManifest.status = "none"
  BY DEF Manifests, NoManifest
<1>2. ASSUME NEW m \in Manifests, m # NoManifest
      PROVE  /\ m \in [status : Statuses, pid : Procs, boot : 1 .. MaxBoots, age : 0 .. 2]
             /\ 0 \in 0 .. 2
  BY <1>2 DEF Manifests, Statuses
<1>3. \A m : m \in [status : Statuses, pid : Procs, boot : 1 .. MaxBoots, age : 0 .. 2] =>
          m \in Manifests /\ m # NoManifest
  BY DEF Manifests, Statuses, NoManifest
<1>4. QED
  BY <1>1, <1>2, <1>3

LEMMA MarkedDead ==
    \A m \in Manifests : m # NoManifest =>
        /\ [m EXCEPT !.status = "dead"] # NoManifest
        /\ [m EXCEPT !.status = "dead"].age = m.age
<1> SUFFICES ASSUME NEW m \in Manifests, m # NoManifest
             PROVE  /\ [m EXCEPT !.status = "dead"] # NoManifest
                    /\ [m EXCEPT !.status = "dead"].age = m.age
  OBVIOUS
<1>1. m \in [status : Statuses, pid : Procs, boot : 1 .. MaxBoots, age : 0 .. 2]
  BY DEF Manifests, Statuses
<1>2. PICK d : d = [m EXCEPT !.status = "dead"]
  OBVIOUS
<1>3. d.status = "dead" /\ d.age = m.age
  BY <1>1, <1>2
<1>4. d # NoManifest
  BY <1>3 DEF NoManifest
<1>5. QED
  BY <1>2, <1>3, <1>4

LEMMA OlderTypes ==
    \A m \in Manifests :
        /\ Older(m) \in Manifests
        /\ Older(m) = NoManifest <=> m = NoManifest
        /\ Older(m).status = m.status /\ Older(m).pid = m.pid /\ Older(m).boot = m.boot
        /\ m # NoManifest /\ m.age = 0 => Older(m).age = 1
        /\ m.age # 0 => Older(m).age # 0
<1> SUFFICES ASSUME NEW m \in Manifests
             PROVE  /\ Older(m) \in Manifests
                    /\ Older(m) = NoManifest <=> m = NoManifest
                    /\ Older(m).status = m.status /\ Older(m).pid = m.pid /\ Older(m).boot = m.boot
                    /\ m # NoManifest /\ m.age = 0 => Older(m).age = 1
                    /\ m.age # 0 => Older(m).age # 0
  OBVIOUS
<1>1. CASE m = NoManifest
  BY <1>1 DEF Older
<1>2. CASE m # NoManifest
  <2>1. m \in [status : Statuses, pid : Procs, boot : 1 .. MaxBoots, age : 0 .. 2]
    BY <1>2 DEF Manifests, Statuses
  <2>2. CASE m.age = 2
    BY <1>2, <2>1, <2>2 DEF Older
  <2>3. CASE m.age # 2
    <3>1. Older(m) = [m EXCEPT !.age = m.age + 1] /\ m.age + 1 \in 0 .. 2 /\ m.age \in Nat
      BY <1>2, <2>1, <2>3 DEF Older
    <3>2. Older(m) \in [status : Statuses, pid : Procs, boot : 1 .. MaxBoots, age : 0 .. 2]
      BY <2>1, <3>1
    <3>3. Older(m) \in Manifests /\ Older(m) # NoManifest
      BY <3>2 DEF Manifests, Statuses, NoManifest
    <3>4. Older(m).status = m.status /\ Older(m).pid = m.pid /\ Older(m).boot = m.boot
          /\ Older(m).age = m.age + 1
      BY <2>1, <3>1
    <3>5. QED
      BY <1>2, <3>1, <3>3, <3>4
  <2>4. QED
    BY <2>2, <2>3
<1>3. QED
  BY <1>1, <1>2

-----------------------------------------------------------------------------
(* Types and control.                                                      *)

LEMMA TypeInit == Init => TypeInv
<1> SUFFICES ASSUME Init PROVE TypeInv
  OBVIOUS
<1>1. TypeOK
  BY LifecycleAssumption, ManifestTypes DEF Init, TypeOK, Phases
<1>2. cli \in CliState /\ cli.pc = "idle"
  BY DEF Init, Idle, CliState
<1>3. Control
  BY <1>2 DEF Init, Control, Copying, Bound, Claiming, Beating
<1>4. QED
  BY <1>1, <1>3 DEF TypeInv

(* Processes that are gone leave no state behind.                          *)
LEMMA GoneTypes ==
    ASSUME TypeInv, NEW P \in SUBSET Procs, Gone(P), boot' \in 1 .. MaxBoots, man' = man,
           marker' \in [Brains -> {"none", "dir", "file"}],
           \A b \in Brains : marker[b] = "file" => marker'[b] = "file",
           used' = used, starts' = starts, cliRuns' = cliRuns, cli' = cli \/ cli' = Idle
    PROVE  TypeInv'
<1>1. TypeOK'
  <2>1. /\ pc' \in [Procs -> Phases] /\ brain' \in [Procs -> Brains \cup {None}]
        /\ todo' \in [Procs -> SUBSET Brains] /\ entries' \in [Procs -> SUBSET Brains]
        /\ cur' \in [Procs -> Brains \cup {None}]
    BY DEF Gone, TypeInv, TypeOK, Phases
  <2>2. /\ copy' \in [Procs -> Manifests] /\ beat' \in [Procs -> Manifests]
        /\ ckpt' \in [Procs -> Manifests]
    BY ManifestTypes DEF Gone, TypeInv, TypeOK
  <2>3. /\ lock' \in [Brains -> Procs \cup {Cli, None}]
        /\ \A b \in Brains : lock'[b] # None => marker'[b] = "file"
    BY DEF Gone, TypeInv, TypeOK
  <2>4. QED
    BY <2>1, <2>2, <2>3 DEF TypeInv, TypeOK
<1>2. cli' \in CliState /\ (cli' = cli \/ cli'.pc = "idle")
  <2>1. Idle \in CliState /\ Idle.pc = "idle"
    BY DEF CliState, Idle
  <2>2. QED
    BY <2>1 DEF TypeInv, Control
<1>3. Control'
  <2>1. ASSUME NEW p \in Procs
        PROVE  /\ pc'[p] \in Copying \cup {"gclock", "gcremove"} => cur'[p] \in Brains
               /\ pc'[p] \in Copying \cup {"shutting", "dying"} => copy'[p] # NoManifest
               /\ copy'[p] # NoManifest => pc'[p] \in Copying \cup {"write", "shutting", "dying"}
               /\ pc'[p] \in Bound => brain'[p] \in Brains
               /\ beat'[p] # NoManifest => pc'[p] \in Beating
               /\ ckpt'[p] # NoManifest => pc'[p] = "run"
    <3>1. CASE p \in P
      BY <3>1 DEF Gone, Copying, Bound, Claiming
    <3>2. CASE p \notin P
      BY <3>2 DEF Gone, TypeInv, Control
    <3>3. QED
      BY <3>1, <3>2
  <2>2. QED
    BY <1>2, <2>1 DEF TypeInv, Control
<1>4. QED
  BY <1>1, <1>3 DEF TypeInv

LEMMA TypeStartAgent == ASSUME TypeInv, NEW p \in Procs, StartAgent(p) PROVE TypeInv'
<1>1. TypeOK'
  <2>1. starts' \in 0 .. MaxStarts
    BY LifecycleAssumption DEF TypeInv, TypeOK, StartAgent
  <2>2. todo' \in [Procs -> SUBSET Brains] /\ entries' \in [Procs -> SUBSET Brains]
    BY DEF TypeInv, TypeOK, StartAgent, ReadDir
  <2>3. brain' \in [Procs -> Brains \cup {None}] /\ pc' \in [Procs -> Phases]
    BY DEF TypeInv, TypeOK, StartAgent, GoTo, Brains, Phases
  <2>4. QED
    BY <2>1, <2>2, <2>3 DEF TypeInv, TypeOK, StartAgent, disk
<1>2. Control'
  BY ManifestTypes DEF TypeInv, TypeOK, Control, StartAgent, GoTo, disk, Copying, Bound, Claiming,
     Beating
<1>3. QED
  BY <1>1, <1>2 DEF TypeInv

LEMMA TypeSweepRead == ASSUME TypeInv, NEW p \in Procs, SweepRead(p) PROVE TypeInv'
<1>1. TypeOK'
  <2>1. PICK b \in todo[p] :
            /\ todo' = [todo EXCEPT ![p] = @ \ {b}]
            /\ \/ UNCHANGED <<pc, cur, copy>>
               \/ /\ cur' = [cur EXCEPT ![p] = b]
                  /\ copy' = [copy EXCEPT ![p] = man[b]]
                  /\ pc' = [pc EXCEPT ![p] = "mark"] \/ pc' = [pc EXCEPT ![p] = "probe"]
    BY DEF SweepRead, GoTo
  <2>2. b \in Brains /\ man[b] \in Manifests
    BY DEF TypeInv, TypeOK
  <2>3. todo' \in [Procs -> SUBSET Brains] /\ pc' \in [Procs -> Phases]
    BY <2>1 DEF TypeInv, TypeOK, Phases
  <2>4. cur' \in [Procs -> Brains \cup {None}] /\ copy' \in [Procs -> Manifests]
    BY <2>1, <2>2 DEF TypeInv, TypeOK
  <2>5. QED
    BY <2>3, <2>4 DEF TypeInv, TypeOK, SweepRead, disk
<1>2. Control'
  BY ManifestTypes DEF TypeInv, TypeOK, Control, SweepRead, GoTo, disk, Copying, Bound, Claiming,
     Beating
<1>3. QED
  BY <1>1, <1>2 DEF TypeInv

LEMMA TypeSweepProbe == ASSUME TypeInv, NEW p \in Procs, SweepProbe(p) PROVE TypeInv'
<1>1. TypeOK'
  <2>1. cur[p] \in Brains
    BY DEF TypeInv, Control, Copying, SweepProbe
  <2>2. pc' \in [Procs -> Phases]
    BY DEF TypeInv, TypeOK, SweepProbe, GoTo, NextEntry, Phases
  <2>3. cur' \in [Procs -> Brains \cup {None}] /\ copy' \in [Procs -> Manifests]
    BY ManifestTypes DEF TypeInv, TypeOK, SweepProbe, NextEntry
  <2>4. /\ lock' \in [Brains -> Procs \cup {Cli, None}]
        /\ \A b \in Brains : lock'[b] # None => marker[b] = "file"
    BY <2>1 DEF TypeInv, TypeOK, SweepProbe
  <2>5. QED
    BY <2>2, <2>3, <2>4 DEF TypeInv, TypeOK, SweepProbe
<1>2. Control'
  BY ManifestTypes DEF TypeInv, TypeOK, Control, SweepProbe, GoTo, disk, NextEntry, Copying, Bound,
     Claiming, Beating
<1>3. QED
  BY <1>1, <1>2 DEF TypeInv

LEMMA TypeSweepJudge == ASSUME TypeInv, NEW p \in Procs, SweepJudge(p) PROVE TypeInv'
<1>1. TypeOK'
  <2>1. /\ lock' \in [Brains -> Procs \cup {Cli, None}]
        /\ \A b \in Brains : lock'[b] # None => marker[b] = "file"
    BY DEF TypeInv, TypeOK, SweepJudge, Unlock
  <2>2. /\ pc' \in [Procs -> Phases] /\ cur' \in [Procs -> Brains \cup {None}]
        /\ copy' \in [Procs -> Manifests]
    BY ManifestTypes DEF TypeInv, TypeOK, SweepJudge, NextEntry, GoTo, Phases
  <2>3. QED
    BY <2>1, <2>2 DEF TypeInv, TypeOK, SweepJudge
<1>2. Control'
  BY ManifestTypes DEF TypeInv, TypeOK, Control, SweepJudge, GoTo, disk, NextEntry, Copying, Bound,
     Claiming, Beating
<1>3. QED
  BY <1>1, <1>2 DEF TypeInv

LEMMA TypeSweepMark == ASSUME TypeInv, NEW p \in Procs, SweepMark(p) PROVE TypeInv'
<1>1. TypeOK'
  <2>1. man' \in [Brains -> Manifests]
    <3>1. copy[p] \in Manifests /\ copy[p] # NoManifest
      BY DEF TypeInv, TypeOK, Control, SweepMark, Copying
    <3>2. [copy[p] EXCEPT !.status = "dead"] \in Manifests
      BY <3>1, ManifestTypes, Zenon DEF Statuses
    <3>3. QED
      BY <3>2 DEF TypeInv, TypeOK, SweepMark
  <2>2. /\ pc' \in [Procs -> Phases] /\ cur' \in [Procs -> Brains \cup {None}]
        /\ copy' \in [Procs -> Manifests]
    BY ManifestTypes DEF TypeInv, TypeOK, SweepMark, NextEntry, GoTo, Phases
  <2>3. QED
    BY <2>1, <2>2 DEF TypeInv, TypeOK, SweepMark
<1>2. Control'
  BY ManifestTypes DEF TypeInv, TypeOK, Control, SweepMark, GoTo, disk, NextEntry, Copying, Bound,
     Claiming, Beating
<1>3. QED
  BY <1>1, <1>2 DEF TypeInv

LEMMA TypeSweepSkip == ASSUME TypeInv, NEW p \in Procs, SweepSkip(p) PROVE TypeInv'
<1>1. PICK b \in todo[p] \cup {cur[p]} :
        /\ \/ /\ todo' = [todo EXCEPT ![p] = @ \ {b}]
              /\ UNCHANGED <<pc, cur, copy>>
           \/ NextEntry(p, "sweep") /\ UNCHANGED todo
  BY DEF SweepSkip
<1>2. UNCHANGED <<disk, brain, entries, beat, ckpt, cli, used, starts, cliRuns>>
      /\ pc[p] \in {"sweep", "probe", "mark"}
  BY DEF SweepSkip
<1>3. TypeOK'
  BY <1>1, <1>2, ManifestTypes DEF TypeInv, TypeOK, GoTo, NextEntry, disk, Phases
<1>4. Control'
  BY <1>1, <1>2, ManifestTypes
     DEF TypeInv, TypeOK, Control, GoTo, NextEntry, disk, Copying, Bound, Claiming, Beating
<1>5. QED
  BY <1>3, <1>4 DEF TypeInv

LEMMA TypeSweepDone == ASSUME TypeInv, NEW p \in Procs, SweepDone(p) PROVE TypeInv'
<1>1. TypeOK'
  BY ManifestTypes DEF TypeInv, TypeOK, Control, SweepDone, GoTo, disk, Phases
<1>2. Control'
  BY ManifestTypes DEF TypeInv, TypeOK, Control, SweepDone, GoTo, disk, Copying, Bound, Claiming,
     Beating
<1>3. QED
  BY <1>1, <1>2 DEF TypeInv

LEMMA TypeGcRead == ASSUME TypeInv, NEW p \in Procs, GcRead(p) PROVE TypeInv'
<1>1. TypeOK'
  BY ManifestTypes DEF TypeInv, TypeOK, Control, GcRead, GoTo, disk, Phases
<1>2. Control'
  BY ManifestTypes DEF TypeInv, TypeOK, Control, GcRead, GoTo, disk, Copying, Bound, Claiming,
     Beating
<1>3. QED
  BY <1>1, <1>2 DEF TypeInv

LEMMA TypeGcLock == ASSUME TypeInv, NEW p \in Procs, GcLock(p) PROVE TypeInv'
<1>1. TypeOK'
  <2>1. cur[p] \in Brains
    BY DEF TypeInv, Control, GcLock
  <2>2. /\ pc' \in [Procs -> Phases] /\ cur' \in [Procs -> Brains \cup {None}]
        /\ copy' \in [Procs -> Manifests]
    BY ManifestTypes DEF TypeInv, TypeOK, GcLock, GoTo, NextEntry, Phases
  <2>3. /\ lock' \in [Brains -> Procs \cup {Cli, None}]
        /\ \A b \in Brains : lock'[b] # None => marker[b] = "file"
    BY <2>1 DEF TypeInv, TypeOK, GcLock
  <2>4. QED
    BY <2>2, <2>3 DEF TypeInv, TypeOK, GcLock
<1>2. Control'
  BY ManifestTypes DEF TypeInv, TypeOK, Control, GcLock, GoTo, disk, NextEntry, Copying, Bound,
     Claiming, Beating
<1>3. QED
  BY <1>1, <1>2 DEF TypeInv

LEMMA TypeGcRemove == ASSUME TypeInv, NEW p \in Procs, GcRemove(p) PROVE TypeInv'
<1>1. TypeOK'
  BY ManifestTypes DEF TypeInv, TypeOK, Control, GcRemove, GoTo, disk, NextEntry, RemoveAll, Phases
<1>2. Control'
  BY ManifestTypes DEF TypeInv, TypeOK, Control, GcRemove, GoTo, disk, NextEntry, RemoveAll,
     Copying, Bound, Claiming, Beating
<1>3. QED
  BY <1>1, <1>2 DEF TypeInv

(* A removal that breaks off.                                              *)
LEMMA RemoveSomeTypes ==
    ASSUME TypeInv, NEW c \in Brains, NEW h, RemoveSome(c, h)
    PROVE  /\ man' \in [Brains -> Manifests]
           /\ marker' \in [Brains -> {"none", "dir", "file"}]
           /\ lock' \in [Brains -> Procs \cup {Cli, None}]
           /\ \A b \in Brains : lock'[b] # None => marker'[b] = "file"
           /\ \A b \in Brains : man'[b] \in {man[b], NoManifest} /\ lock'[b] \in {lock[b], None}
           /\ \A b \in Brains \ {c} : /\ man'[b] = man[b] /\ marker'[b] = marker[b]
                                     /\ lock'[b] = lock[b]
           /\ marker[c] = "none" => marker'[c] = "none"
           /\ lock'[c] # h \/ h = None
<1> USE DEF TypeInv, TypeOK
<1>1. PICK left \in {"none", "dir", "file"} :
          /\ marker' = [marker EXCEPT ![c] = left]
          /\ left = "file" => marker[c] = "file"
          /\ marker[c] = "none" => left = "none"
          /\ lock' = [lock EXCEPT ![c] = IF left = "file" /\ @ # h THEN @ ELSE None]
  BY DEF RemoveSome
<1>2. man' \in {man, [man EXCEPT ![c] = NoManifest]}
  BY DEF RemoveSome
<1>3. man' \in [Brains -> Manifests]
  BY <1>2, ManifestTypes
<1>4. /\ marker' \in [Brains -> {"none", "dir", "file"}]
      /\ lock' \in [Brains -> Procs \cup {Cli, None}]
  BY <1>1
<1>5. QED
  BY <1>1, <1>2, <1>3, <1>4

LEMMA TypeGcSkip == ASSUME TypeInv, NEW p \in Procs, GcSkip(p) PROVE TypeInv'
<1>1. CASE pc[p] = "gcremove"
  <2>1. RemoveSome(cur[p], p) /\ NextEntry(p, "gc") /\ cur[p] \in Brains
        /\ UNCHANGED <<boot, brain, todo, entries, beat, ckpt, cli, used, starts, cliRuns>>
    BY <1>1 DEF GcSkip, TypeInv, Control
  <2>2. /\ man' \in [Brains -> Manifests]
        /\ marker' \in [Brains -> {"none", "dir", "file"}]
        /\ lock' \in [Brains -> Procs \cup {Cli, None}]
        /\ \A b \in Brains : lock'[b] # None => marker'[b] = "file"
    BY <2>1, RemoveSomeTypes
  <2>3. /\ pc' \in [Procs -> Phases] /\ cur' \in [Procs -> Brains \cup {None}]
        /\ copy' \in [Procs -> Manifests]
    BY <2>1, ManifestTypes DEF NextEntry, GoTo, Phases, TypeInv, TypeOK
  <2>4. TypeOK'
    BY <2>1, <2>2, <2>3 DEF TypeInv, TypeOK
  <2>5. Control'
    BY <1>1, <2>1 DEF TypeInv, TypeOK, Control, NextEntry, GoTo, Copying, Bound, Claiming, Beating
  <2>6. QED
    BY <2>4, <2>5 DEF TypeInv
<1>2. CASE pc[p] # "gcremove"
  <2>1. /\ \/ /\ \E b \in todo[p] : todo' = [todo EXCEPT ![p] = @ \ {b}]
              /\ UNCHANGED <<pc, cur, copy>>
           \/ NextEntry(p, "gc") /\ UNCHANGED todo
        /\ pc[p] \in {"gc", "gclock"}
        /\ UNCHANGED <<boot, man, marker, lock, brain, entries, beat, ckpt, cli, used, starts, cliRuns>>
    BY <1>2 DEF GcSkip
  <2>2. TypeOK'
    <3>1. /\ pc' \in [Procs -> Phases] /\ cur' \in [Procs -> Brains \cup {None}]
          /\ copy' \in [Procs -> Manifests]
      BY <2>1, ManifestTypes DEF TypeInv, TypeOK, GoTo, NextEntry, Phases
    <3>2. todo' \in [Procs -> SUBSET Brains]
      BY <2>1 DEF TypeInv, TypeOK
    <3>3. QED
      BY <2>1, <3>1, <3>2 DEF TypeInv, TypeOK
  <2>3. Control'
    BY <2>1, ManifestTypes
       DEF TypeInv, TypeOK, Control, GoTo, NextEntry, Copying, Bound, Claiming, Beating
  <2>4. QED
    BY <2>2, <2>3 DEF TypeInv
<1>3. QED
  BY <1>1, <1>2

LEMMA TypeGcDone == ASSUME TypeInv, NEW p \in Procs, GcDone(p) PROVE TypeInv'
<1>1. TypeOK'
  BY ManifestTypes DEF TypeInv, TypeOK, Control, GcDone, GoTo, disk, Phases
<1>2. Control'
  BY ManifestTypes DEF TypeInv, TypeOK, Control, GcDone, GoTo, disk, Copying, Bound, Claiming,
     Beating
<1>3. QED
  BY <1>1, <1>2 DEF TypeInv

LEMMA TypeBirthRead == ASSUME TypeInv, NEW p \in Procs, BirthRead(p) PROVE TypeInv'
<1>1. CASE brain[p] # None /\ man[brain[p]].status = "dead"
  <2>1. Gone({p}) /\ UNCHANGED <<boot, man, marker, cli, used, starts, cliRuns>>
    BY <1>1 DEF BirthRead
  <2>2. QED
    BY <2>1, GoneTypes DEF TypeInv, TypeOK
<1>2. CASE ~(brain[p] # None /\ man[brain[p]].status = "dead")
  <2>1. /\ brain' \in [Procs -> Brains \cup {None}] /\ used' \subseteq Uuids
        /\ pc' \in [Procs -> Phases] /\ copy' \in [Procs -> Manifests]
        /\ pc' = [pc EXCEPT ![p] = "write"] /\ brain'[p] \in Brains
        /\ \A q \in Procs \ {p} : brain'[q] = brain[q] /\ copy'[q] = copy[q]
        /\ UNCHANGED <<boot, man, marker, lock, todo, entries, cur, beat, ckpt, cli, starts, cliRuns>>
    <3>1. CASE brain[p] = None
      BY <1>2, <3>1 DEF BirthRead, TypeInv, TypeOK, GoTo, Brains, Phases
    <3>2. CASE brain[p] # None
      BY <1>2, <3>2 DEF BirthRead, TypeInv, TypeOK, GoTo, Brains, Phases
    <3>3. QED
      BY <3>1, <3>2
  <2>2. TypeOK'
    BY <2>1 DEF TypeInv, TypeOK
  <2>3. pc[p] = "birth"
    BY DEF BirthRead
  <2>4. Control'
    BY <2>1, <2>3 DEF TypeInv, TypeOK, Control, Copying, Bound, Claiming, Beating
  <2>5. QED
    BY <2>2, <2>4 DEF TypeInv
<1>3. QED
  BY <1>1, <1>2

LEMMA TypeBirthWrite == ASSUME TypeInv, NEW p \in Procs, BirthWrite(p) PROVE TypeInv'
<1>1. TypeOK'
  <2>1. man' \in [Brains -> Manifests] /\ copy' \in [Procs -> Manifests]
    <3>1. [status |-> "alive", pid |-> p, boot |-> boot, age |-> 0] \in Manifests
      BY DEF TypeInv, TypeOK, Manifests
    <3>2. QED
      BY <3>1, ManifestTypes DEF TypeInv, TypeOK, BirthWrite
  <2>2. /\ marker' \in [Brains -> {"none", "dir", "file"}]
        /\ \A b \in Brains : lock[b] # None => marker'[b] = "file"
    BY DEF TypeInv, TypeOK, BirthWrite
  <2>3. pc' \in [Procs -> Phases]
    BY DEF TypeInv, TypeOK, BirthWrite, GoTo, Phases
  <2>4. QED
    BY <2>1, <2>2, <2>3 DEF TypeInv, TypeOK, BirthWrite
<1>2. Control'
  BY ManifestTypes DEF TypeInv, TypeOK, Control, BirthWrite, GoTo, disk, Copying, Bound, Claiming,
     Beating
<1>3. QED
  BY <1>1, <1>2 DEF TypeInv

LEMMA TypeTouchMarker == ASSUME TypeInv, NEW p \in Procs, TouchMarker(p) PROVE TypeInv'
<1>1. TypeOK'
  BY DEF TypeInv, TypeOK, TouchMarker, GoTo, Phases
<1>2. Control'
  BY DEF TypeInv, TypeOK, Control, TouchMarker, GoTo, Copying, Bound, Claiming, Beating
<1>3. QED
  BY <1>1, <1>2 DEF TypeInv

LEMMA TypeAttach == ASSUME TypeInv, NEW p \in Procs, Attach(p) PROVE TypeInv'
<1>0. brain[p] \in Brains /\ pc[p] = "locking"
  BY DEF TypeInv, TypeOK, Control, Attach, Bound, Claiming
<1>1. CASE Gone({p}) /\ UNCHANGED marker
  BY <1>0, <1>1, GoneTypes DEF Attach, TypeInv, TypeOK
<1>2. CASE ~(Gone({p}) /\ UNCHANGED marker)
  <2>1. /\ lock' = [lock EXCEPT ![brain[p]] = p] /\ pc' = [pc EXCEPT ![p] = "starting"]
        /\ marker' = [marker EXCEPT ![brain[p]] = "file"]
        /\ UNCHANGED <<boot, man, brain, todo, entries, cur, copy, beat, ckpt, cli, used, starts, cliRuns>>
    BY <1>2 DEF Attach, GoTo
  <2>2. TypeOK'
    BY <1>0, <2>1 DEF TypeInv, TypeOK, Phases
  <2>3. Control'
    BY <1>0, <2>1 DEF TypeInv, TypeOK, Control, Copying, Bound, Claiming, Beating
  <2>4. QED
    BY <2>2, <2>3 DEF TypeInv
<1>3. QED
  BY <1>1, <1>2

LEMMA TypeTouchRead == ASSUME TypeInv, NEW p \in Procs, TouchRead(p) PROVE TypeInv'
<1> DEFINE b == brain[p]
<1>0. b \in Brains /\ pc[p] \in Beating
  BY DEF TypeInv, Control, TouchRead, Bound, Claiming, Beating
<1>1. CASE Gone({p}) /\ UNCHANGED marker
  BY <1>1, GoneTypes DEF TouchRead, TypeInv, TypeOK
<1>2. CASE UNCHANGED <<agents, lock, marker>>
  BY <1>2 DEF TouchRead, agents, TypeInv, TypeOK, Control
<1>3. CASE ~(Gone({p}) /\ UNCHANGED marker) /\ ~UNCHANGED <<agents, lock, marker>>
  <2>1. /\ marker' = [marker EXCEPT ![b] = "file"]
        /\ beat' = [beat EXCEPT ![p] = IF man[b] = NoManifest THEN NoManifest
                                       ELSE [man[b] EXCEPT !.age = 0]]
        /\ pc' = pc \/ (man[b] = NoManifest /\ pc' = [pc EXCEPT ![p] = "run"])
        /\ UNCHANGED <<boot, man, lock, brain, todo, entries, cur, copy, ckpt, cli, used, starts, cliRuns>>
    BY <1>3 DEF TouchRead, GoTo
  <2>2. beat' \in [Procs -> Manifests]
    BY <1>0, <2>1, ManifestTypes DEF TypeInv, TypeOK
  <2>3. /\ marker' \in [Brains -> {"none", "dir", "file"}]
        /\ \A c \in Brains : marker[c] = "file" => marker'[c] = "file"
    BY <1>0, <2>1 DEF TypeInv, TypeOK
  <2>4. TypeOK'
    BY <2>1, <2>2, <2>3 DEF TypeInv, TypeOK, Phases
  <2>5. \A q \in Procs : /\ pc'[q] = pc[q] \/ (q = p /\ pc'[q] = "run")
                         /\ q # p => beat'[q] = beat[q]
    BY <2>1 DEF TypeInv, TypeOK
  <2>6. Control'
    BY <1>0, <2>1, <2>5 DEF TypeInv, Control, Copying, Bound, Claiming, Beating
  <2>7. QED
    BY <2>4, <2>6 DEF TypeInv
<1>4. QED
  BY <1>1, <1>2, <1>3

LEMMA TypeTouchWrite == ASSUME TypeInv, NEW p \in Procs, TouchWrite(p) PROVE TypeInv'
<1>1. TypeOK'
  <2>1. beat[p] \in Manifests /\ NoManifest \in Manifests
    BY ManifestTypes DEF TypeInv, TypeOK
  <2>2. man' \in [Brains -> Manifests] /\ beat' \in [Procs -> Manifests]
    BY <2>1 DEF TypeInv, TypeOK, TouchWrite
  <2>3. pc' \in [Procs -> Phases]
    BY DEF TypeInv, TypeOK, TouchWrite, GoTo, Phases
  <2>4. QED
    BY <2>2, <2>3 DEF TypeInv, TypeOK, TouchWrite
<1>2. Control'
  BY ManifestTypes DEF TypeInv, TypeOK, Control, TouchWrite, GoTo, disk, Copying, Bound, Claiming,
     Beating
<1>3. QED
  BY <1>1, <1>2 DEF TypeInv

LEMMA TypeCheckpointRead == ASSUME TypeInv, NEW p \in Procs, CheckpointRead(p) PROVE TypeInv'
<1>1. TypeOK'
  <2>1. man[brain[p]] \in Manifests
    BY DEF TypeInv, TypeOK, Control, CheckpointRead, Bound, Claiming
  <2>2. QED
    BY <2>1 DEF TypeInv, TypeOK, CheckpointRead, disk
<1>2. Control'
  BY ManifestTypes DEF TypeInv, TypeOK, Control, CheckpointRead, GoTo, disk, Copying, Bound,
     Claiming, Beating
<1>3. QED
  BY <1>1, <1>2 DEF TypeInv

LEMMA TypeCheckpointWrite == ASSUME TypeInv, NEW p \in Procs, CheckpointWrite(p) PROVE TypeInv'
<1>1. TypeOK'
  BY ManifestTypes DEF TypeInv, TypeOK, Control, CheckpointWrite, GoTo, disk, Phases
<1>2. Control'
  BY ManifestTypes DEF TypeInv, TypeOK, Control, CheckpointWrite, GoTo, disk, Copying, Bound,
     Claiming, Beating
<1>3. QED
  BY <1>1, <1>2 DEF TypeInv

LEMMA TypeShutdown == ASSUME TypeInv, NEW p \in Procs, Shutdown(p) PROVE TypeInv'
<1>1. TypeOK'
  BY ManifestTypes DEF TypeInv, TypeOK, Control, Shutdown, GoTo, disk, Phases
<1>2. Control'
  BY ManifestTypes DEF TypeInv, TypeOK, Control, Shutdown, GoTo, disk, Copying, Bound, Claiming,
     Beating
<1>3. QED
  BY <1>1, <1>2 DEF TypeInv

LEMMA TypeStopHeartbeat == ASSUME TypeInv, NEW p \in Procs, StopHeartbeat(p) PROVE TypeInv'
<1>1. TypeOK'
  <2>1. /\ lock' \in [Brains -> Procs \cup {Cli, None}]
        /\ \A b \in Brains : lock'[b] # None => marker[b] = "file"
    BY DEF TypeInv, TypeOK, StopHeartbeat, Unlock
  <2>2. QED
    BY <2>1 DEF TypeInv, TypeOK, StopHeartbeat, GoTo, Phases
<1>2. Control'
  BY ManifestTypes DEF TypeInv, TypeOK, Control, StopHeartbeat, GoTo, disk, Copying, Bound,
     Claiming, Beating
<1>3. QED
  BY <1>1, <1>2 DEF TypeInv

LEMMA TypeDeathRead == ASSUME TypeInv, NEW p \in Procs, DeathRead(p) PROVE TypeInv'
<1>1. TypeOK'
  <2>1. man[brain[p]] \in Manifests
    BY DEF TypeInv, TypeOK, Control, DeathRead, Bound, Claiming
  <2>2. pc' \in [Procs -> Phases] /\ copy' \in [Procs -> Manifests]
    BY <2>1 DEF TypeInv, TypeOK, DeathRead, GoTo, Phases
  <2>3. QED
    BY <2>2 DEF TypeInv, TypeOK, DeathRead, disk
<1>2. Control'
  BY ManifestTypes DEF TypeInv, TypeOK, Control, DeathRead, GoTo, disk, Copying, Bound, Claiming,
     Beating
<1>3. QED
  BY <1>1, <1>2 DEF TypeInv

LEMMA TypeDeathShutting == ASSUME TypeInv, NEW p \in Procs, DeathShutting(p) PROVE TypeInv'
<1>1. TypeOK'
  <2>1. man' \in [Brains -> Manifests]
    <3>1. copy[p] \in Manifests /\ copy[p] # NoManifest
      BY DEF TypeInv, TypeOK, Control, DeathShutting, DeathWrite, Copying
    <3>2. [copy[p] EXCEPT !.status = "shutting_down"] \in Manifests
      BY <3>1, ManifestTypes, Zenon DEF Statuses
    <3>3. QED
      BY <3>2 DEF TypeInv, TypeOK, DeathShutting, DeathWrite
  <2>2. pc' \in [Procs -> Phases] /\ copy' \in [Procs -> Manifests]
    BY ManifestTypes DEF TypeInv, TypeOK, DeathShutting, DeathWrite, GoTo, Phases
  <2>3. QED
    BY <2>1, <2>2 DEF TypeInv, TypeOK, DeathShutting, DeathWrite
<1>2. Control'
  BY ManifestTypes DEF TypeInv, TypeOK, Control, DeathShutting, GoTo, disk, DeathWrite, Copying,
     Bound, Claiming, Beating
<1>3. QED
  BY <1>1, <1>2 DEF TypeInv

LEMMA TypeDeathDead == ASSUME TypeInv, NEW p \in Procs, DeathDead(p) PROVE TypeInv'
<1>1. TypeOK'
  <2>1. man' \in [Brains -> Manifests]
    <3>1. copy[p] \in Manifests /\ copy[p] # NoManifest
      BY DEF TypeInv, TypeOK, Control, DeathDead, DeathWrite, Copying
    <3>2. [copy[p] EXCEPT !.status = "dead"] \in Manifests
      BY <3>1, ManifestTypes, Zenon DEF Statuses
    <3>3. QED
      BY <3>2 DEF TypeInv, TypeOK, DeathDead, DeathWrite
  <2>2. pc' \in [Procs -> Phases] /\ copy' \in [Procs -> Manifests]
    BY ManifestTypes DEF TypeInv, TypeOK, DeathDead, DeathWrite, GoTo, Phases
  <2>3. QED
    BY <2>1, <2>2 DEF TypeInv, TypeOK, DeathDead, DeathWrite
<1>2. Control'
  BY ManifestTypes DEF TypeInv, TypeOK, Control, DeathDead, GoTo, disk, DeathWrite, Copying, Bound,
     Claiming, Beating
<1>3. QED
  BY <1>1, <1>2 DEF TypeInv

LEMMA TypeExit == ASSUME TypeInv, NEW p \in Procs, Exit(p) PROVE TypeInv'
  BY GoneTypes DEF Exit, TypeInv, TypeOK

(* The gc-brains command.                                                  *)
LEMMA TypeCommand == ASSUME TypeInv, Command PROVE TypeInv'
<1> USE DEF TypeInv
<1>0. cli \in CliState
  BY DEF Control
<1>l. ASSUME NEW b \in Brains, lock' = IF marker[b] = "file" THEN [lock EXCEPT ![b] = Cli] ELSE lock
      PROVE  /\ lock' \in [Brains -> Procs \cup {Cli, None}]
             /\ \A c \in Brains : lock'[c] # None => marker[c] = "file"
  BY <1>l DEF TypeOK
<1>1. CASE CliStart
  <2>1. cli' \in CliState /\ cli'.pc = "judge"
    BY <1>1 DEF CliStart, CliState, Idle, ReadDir
  <2>2. cliRuns' \in 0 .. MaxCliRuns
    BY <1>1, LifecycleAssumption DEF CliStart, TypeOK
  <2>3. QED
    BY <1>1, <2>1, <2>2 DEF CliStart, TypeOK, Control, disk, agents
<1>2. CASE CliJudge
  <2>1. PICK b \in cli.todo :
            \/ /\ IsGCEligible(man[b])
               /\ cli' = [[cli EXCEPT !.todo = @ \ {b}] EXCEPT !.del = @ \cup {b}] /\ UNCHANGED lock
            \/ cli' = [cli EXCEPT !.todo = @ \ {b}] /\ UNCHANGED lock
            \/ /\ man[b].status = "alive"
               /\ cli' = [[cli EXCEPT !.todo = @ \ {b}]
                            EXCEPT !.pc = "alive", !.cur = b, !.pid = man[b].pid]
               /\ lock' = IF marker[b] = "file" THEN [lock EXCEPT ![b] = Cli] ELSE lock
    BY <1>2 DEF CliJudge
  <2>2. b \in Brains /\ (man[b].status = "alive" => man[b].pid \in Procs) /\ cli.pc = "judge"
    <3>1. b \in Brains /\ cli.pc = "judge"
      BY <1>0, <1>2 DEF CliState, CliJudge
    <3>2. man[b] \in Manifests
      BY <3>1 DEF TypeOK
    <3>3. QED
      BY <3>1, <3>2, ManifestTypes
  <2>3. /\ cli' \in CliState /\ cli'.pc \in {"judge", "alive"}
        /\ cli'.pc = "alive" => cli'.cur \in Brains /\ cli'.pid \in Procs
    <3>1. CASE cli' = [[cli EXCEPT !.todo = @ \ {b}] EXCEPT !.del = @ \cup {b}]
      BY <1>0, <2>2, <3>1 DEF CliState
    <3>2. CASE cli' = [cli EXCEPT !.todo = @ \ {b}]
      BY <1>0, <2>2, <3>2 DEF CliState
    <3>3. CASE /\ man[b].status = "alive"
               /\ cli' = [[cli EXCEPT !.todo = @ \ {b}]
                            EXCEPT !.pc = "alive", !.cur = b, !.pid = man[b].pid]
      BY <1>0, <2>2, <3>3 DEF CliState
    <3>4. QED
      BY <2>1, <3>1, <3>2, <3>3
  <2>4. /\ lock' \in [Brains -> Procs \cup {Cli, None}]
        /\ \A c \in Brains : lock'[c] # None => marker[c] = "file"
    BY <1>l, <2>1, <2>2 DEF TypeOK
  <2>5. QED
    BY <1>2, <2>3, <2>4 DEF CliJudge, TypeOK, Control, agents
<1>3. CASE CliAliveEligible
  <2>1. cli' \in CliState /\ cli'.pc = "judge"
    BY <1>0, <1>3 DEF CliAliveEligible, CliState, Control
  <2>2. /\ lock' \in [Brains -> Procs \cup {Cli, None}]
        /\ \A c \in Brains : lock'[c] # None => marker[c] = "file"
    BY <1>3 DEF CliAliveEligible, Unlock, TypeOK
  <2>3. QED
    BY <1>3, <2>1, <2>2 DEF CliAliveEligible, TypeOK, Control, agents
<1>4. CASE CliLock
  <2>1. PICK b \in cli.del :
            \/ cli' = [cli EXCEPT !.del = @ \ {b}] /\ UNCHANGED lock
            \/ /\ cli' = [cli EXCEPT !.del = @ \ {b}, !.pc = "remove", !.cur = b]
               /\ lock' = IF marker[b] = "file" THEN [lock EXCEPT ![b] = Cli] ELSE lock
    BY <1>4 DEF CliLock, CliState
  <2>2. b \in Brains /\ cli.pc = "judge"
    BY <1>0, <1>4 DEF CliState, CliLock
  <2>3. /\ cli' \in CliState /\ cli'.pc \in {"judge", "remove"}
        /\ cli'.pc = "remove" => cli'.cur \in Brains
    <3>1. CASE cli' = [cli EXCEPT !.del = @ \ {b}]
      BY <1>0, <2>2, <3>1 DEF CliState
    <3>2. CASE cli' = [cli EXCEPT !.del = @ \ {b}, !.pc = "remove", !.cur = b]
      BY <1>0, <2>2, <3>2 DEF CliState
    <3>3. QED
      BY <2>1, <3>1, <3>2
  <2>4. /\ lock' \in [Brains -> Procs \cup {Cli, None}]
        /\ \A c \in Brains : lock'[c] # None => marker[c] = "file"
    BY <1>l, <2>1, <2>2 DEF TypeOK
  <2>5. QED
    BY <1>4, <2>3, <2>4 DEF CliLock, TypeOK, Control, agents
<1>5. CASE CliRemove
  <2>1. cli' \in CliState /\ cli'.pc = "judge"
    BY <1>0, <1>5 DEF CliRemove, CliState
  <2>2. cli.cur \in Brains
    BY <1>5 DEF CliRemove, Control
  <2>3. /\ man' \in [Brains -> Manifests]
        /\ marker' \in [Brains -> {"none", "dir", "file"}]
        /\ lock' \in [Brains -> Procs \cup {Cli, None}]
        /\ \A b \in Brains : lock'[b] # None => marker'[b] = "file"
    <3>1. CASE RemoveAll(cli.cur)
      BY <3>1, ManifestTypes DEF RemoveAll, TypeOK
    <3>2. CASE RemoveSome(cli.cur, Cli)
      BY <2>2, <3>2, RemoveSomeTypes
    <3>3. QED
      BY <1>5, <3>1, <3>2 DEF CliRemove
  <2>4. QED
    BY <1>5, <2>1, <2>3 DEF CliRemove, TypeOK, Control, agents
<1>6. CASE CliExit
  <2>1. cli' \in CliState /\ cli'.pc = "idle"
    BY <1>6 DEF CliExit, Idle, CliState
  <2>2. QED
    BY <1>6, <2>1 DEF CliExit, TypeOK, Control, agents
<1>7. QED
  BY <1>1, <1>2, <1>3, <1>4, <1>5, <1>6 DEF Command

LEMMA TypeTick == ASSUME TypeInv, Tick PROVE TypeInv'
<1>1. /\ man' \in [Brains -> Manifests] /\ copy' \in [Procs -> Manifests]
      /\ beat' \in [Procs -> Manifests] /\ ckpt' \in [Procs -> Manifests]
  BY OlderTypes DEF TypeInv, TypeOK, Tick
<1>2. \A p \in Procs : /\ copy'[p] = NoManifest <=> copy[p] = NoManifest
                       /\ beat'[p] = NoManifest <=> beat[p] = NoManifest
                       /\ ckpt'[p] = NoManifest <=> ckpt[p] = NoManifest
  BY OlderTypes DEF TypeInv, TypeOK, Tick
<1>3. QED
  BY <1>1, <1>2 DEF TypeInv, TypeOK, Control, Tick

LEMMA TypeReboot == ASSUME TypeInv, Reboot PROVE TypeInv'
<1>1. boot' \in 1 .. MaxBoots
  BY LifecycleAssumption DEF TypeInv, TypeOK, Reboot
<1>2. QED
  BY <1>1, GoneTypes DEF Reboot, TypeInv, TypeOK

LEMMA TypeStep == TypeInv /\ [Next]_vars => TypeInv'
<1> SUFFICES ASSUME TypeInv, [Next]_vars PROVE TypeInv'
  OBVIOUS
<1>1. ASSUME NEW p \in Procs, Agent(p) PROVE TypeInv'
  BY <1>1, TypeStartAgent, TypeSweepRead, TypeSweepProbe, TypeSweepJudge, TypeSweepMark,
     TypeSweepSkip, TypeSweepDone, TypeGcRead, TypeGcLock, TypeGcRemove, TypeGcSkip, TypeGcDone,
     TypeBirthRead, TypeBirthWrite, TypeTouchMarker, TypeAttach, TypeTouchRead, TypeTouchWrite,
     TypeCheckpointRead, TypeCheckpointWrite, TypeShutdown, TypeStopHeartbeat, TypeDeathRead,
     TypeDeathShutting, TypeDeathDead, TypeExit DEF Agent
<1>2. CASE UNCHANGED vars
  BY <1>2 DEF vars, disk, agents, TypeInv, TypeOK, Control
<1>3. QED
  BY <1>1, <1>2, TypeCommand, TypeTick, TypeReboot DEF Next

(* Every manifest, copy and flock holder is one the program can write.     *)
THEOREM TypeCorrect == Spec => []TypeOK
<1>1. TypeInv => TypeOK
  BY DEF TypeInv
<1>2. QED
  BY <1>1, TypeInit, TypeStep, PTL DEF Spec

-----------------------------------------------------------------------------
(* What every step does.                                                   *)

LEMMA NextRecorded == Next => \E skips : Recorded(skips)
<1>1. ASSUME NEW p \in Procs, Agent(p), ~SweepSkip(p) PROVE History
  BY <1>1 DEF Agent, StartAgent, SweepRead, SweepProbe, SweepJudge, SweepMark, SweepDone, GcRead,
     GcLock, GcRemove, GcSkip, GcDone, BirthRead, BirthWrite, TouchMarker, Attach, TouchRead,
     TouchWrite, CheckpointRead, CheckpointWrite, Shutdown, StopHeartbeat, DeathRead,
     DeathShutting, DeathDead, DeathWrite, Exit
<1>2. ASSUME NEW p \in Procs, SweepSkip(p) PROVE \E skips : Recorded(skips)
  BY <1>2 DEF SweepSkip
<1>3. Command \/ Tick \/ Reboot => History
  BY DEF Command, CliStart, CliJudge, CliAliveEligible, CliLock, CliRemove, CliExit, Tick, Reboot
<1>4. History => \E skips : Recorded(skips)
  BY DEF History
<1>5. QED
  BY <1>1, <1>2, <1>3, <1>4 DEF Next

(* The main goroutine of p does nothing.                                   *)
Same(p) ==
    /\ pc'[p] = pc[p] /\ brain'[p] = brain[p] /\ todo'[p] = todo[p] /\ entries'[p] = entries[p]
    /\ cur'[p] = cur[p] /\ copy'[p] = copy[p] /\ beat'[p] = beat[p] /\ ckpt'[p] = ckpt[p]

LEMMA OthersKept ==
    ASSUME TypeInv, NEW p \in Procs, NEW q \in Procs \ {p}, Agent(q)
    PROVE  Same(p)
<1> USE DEF TypeInv, TypeOK, GoTo, NextEntry, Same
<1>1. CASE StartAgent(q) \/ SweepRead(q) \/ SweepProbe(q) \/ SweepJudge(q)
  BY <1>1 DEF StartAgent, SweepRead, SweepProbe, SweepJudge
<1>2. CASE SweepMark(q) \/ SweepSkip(q) \/ SweepDone(q)
  BY <1>2 DEF SweepMark, SweepSkip, SweepDone
<1>3. CASE GcRead(q) \/ GcLock(q) \/ GcRemove(q) \/ GcSkip(q) \/ GcDone(q)
  BY <1>3 DEF GcRead, GcLock, GcRemove, GcSkip, GcDone
<1>4. CASE BirthRead(q) \/ BirthWrite(q) \/ TouchMarker(q) \/ Attach(q)
  BY <1>4 DEF BirthRead, BirthWrite, TouchMarker, Attach, Gone
<1>5. CASE TouchRead(q) \/ TouchWrite(q) \/ CheckpointRead(q) \/ CheckpointWrite(q)
  BY <1>5 DEF TouchRead, TouchWrite, CheckpointRead, CheckpointWrite, Gone, agents
<1>6. CASE \/ Shutdown(q) \/ StopHeartbeat(q) \/ DeathRead(q) \/ DeathShutting(q) \/ DeathDead(q)
           \/ Exit(q)
  BY <1>6 DEF Shutdown, StopHeartbeat, DeathRead, DeathShutting, DeathDead, DeathWrite, Exit, Gone
<1>7. QED
  BY <1>1, <1>2, <1>3, <1>4, <1>5, <1>6 DEF Agent

LEMMA CommandKeepsAgents == ASSUME Command PROVE UNCHANGED agents
  BY DEF Command, CliStart, CliJudge, CliAliveEligible, CliLock, CliRemove, CliExit

-----------------------------------------------------------------------------
(* A death sticks.                                                         *)

(* Only a process that claims the brain writes another status than dead.   *)
LEMMA StatusStep ==
    ASSUME TypeInv, Next, NEW b \in Brains
    PROVE  \/ man'[b].status \in {man[b].status, "none", "dead"}
           \/ \E p \in Procs : pc'[p] \in Claiming /\ brain'[p] = b
<1> DEFINE Goal == \/ man'[b].status \in {man[b].status, "none", "dead"}
                   \/ \E p \in Procs : pc'[p] \in Claiming /\ brain'[p] = b
<1> USE DEF TypeInv
<1>1. ASSUME NEW p \in Procs, Agent(p), man'[b] # man[b] PROVE Goal
  <2>1. CASE SweepMark(p)
    <3>1. copy[p] \in Manifests /\ copy[p] # NoManifest /\ cur[p] \in Brains
      BY <2>1 DEF SweepMark, TypeOK, Control, Copying
    <3>2. man' = [man EXCEPT ![cur[p]] = [copy[p] EXCEPT !.status = "dead"]]
      BY <2>1 DEF SweepMark
    <3>3. [copy[p] EXCEPT !.status = "dead"].status = "dead"
      BY <3>1, ManifestTypes, Zenon DEF Statuses
    <3>4. QED
      BY <1>1, <3>2, <3>3 DEF TypeOK
  <2>2. CASE GcRemove(p) \/ GcSkip(p)
    BY <1>1, <2>2, ManifestTypes DEF GcRemove, GcSkip, RemoveAll, RemoveSome, TypeOK
  <2>3. CASE BirthWrite(p)
    BY <1>1, <2>3 DEF BirthWrite, GoTo, TypeOK, Claiming
  <2>4. CASE TouchWrite(p)
    BY <1>1, <2>4 DEF TouchWrite, GoTo, TypeOK, Control, Claiming, Beating
  <2>5. CASE CheckpointWrite(p)
    BY <1>1, <2>5 DEF CheckpointWrite, TypeOK, Control, Claiming
  <2>6. CASE DeathShutting(p)
    BY <1>1, <2>6 DEF DeathShutting, DeathWrite, GoTo, TypeOK, Claiming
  <2>7. CASE DeathDead(p)
    <3>1. copy[p] \in Manifests /\ copy[p] # NoManifest
      BY <2>7 DEF DeathDead, DeathWrite, TypeOK, Control
    <3>2. man' = [man EXCEPT ![brain[p]] = [copy[p] EXCEPT !.status = "dead"]]
      BY <2>7 DEF DeathDead, DeathWrite
    <3>3. [copy[p] EXCEPT !.status = "dead"].status = "dead"
      BY <3>1, ManifestTypes, Zenon DEF Statuses
    <3>4. QED
      BY <1>1, <3>2, <3>3 DEF TypeOK
  <2>8. QED
    BY <1>1, <2>1, <2>2, <2>3, <2>4, <2>5, <2>6, <2>7 DEF Agent, StartAgent, SweepRead, SweepProbe,
       SweepJudge, SweepSkip, SweepDone, GcRead, GcLock, GcSkip, GcDone, BirthRead, TouchMarker,
       Attach, TouchRead, CheckpointRead, Shutdown, StopHeartbeat, DeathRead, Exit, disk
<1>2. CASE Command
  BY <1>2, ManifestTypes DEF Command, CliStart, CliJudge, CliAliveEligible, CliLock, CliRemove,
     CliExit, RemoveAll, RemoveSome, disk, TypeOK
<1>3. CASE Tick
  BY <1>3, OlderTypes DEF Tick, TypeOK
<1>4. CASE Reboot
  BY <1>4 DEF Reboot
<1>5. QED
  BY <1>1, <1>2, <1>3, <1>4 DEF Next

(* The last write of Death is the one that says dead.                      *)
LEMMA DyingStep ==
    ASSUME TypeInv, Next, NEW p \in Procs, pc[p] = "dying", pc'[p] = "closed"
    PROVE  brain[p] \in Brains /\ man'[brain[p]].status = "dead"
<1>0. brain[p] \in Brains /\ copy[p] \in Manifests /\ copy[p] # NoManifest
  BY DEF TypeInv, TypeOK, Control, Bound, Claiming
<1>1. ASSUME NEW q \in Procs, Agent(q) PROVE q = p /\ DeathDead(p)
  <2>1. q = p
    BY <1>1, OthersKept DEF Same
  <2>2. beat[p] = NoManifest /\ ckpt[p] = NoManifest
    BY DEF TypeInv, Control, Beating
  <2>3. ~Gone({p})
    BY DEF Gone
  <2>4. QED
    BY <1>1, <2>1, <2>2, <2>3 DEF Agent, StartAgent, SweepRead, SweepProbe, SweepJudge, SweepMark,
       SweepSkip, SweepDone, GcRead, GcLock, GcRemove, GcSkip, GcDone, BirthRead, BirthWrite,
       TouchMarker, Attach, TouchRead, TouchWrite, CheckpointRead, CheckpointWrite, Shutdown,
       StopHeartbeat, DeathRead, DeathShutting, DeathWrite, Exit, Beating
<1>2. CASE DeathDead(p)
  <2>1. man' = [man EXCEPT ![brain[p]] = [copy[p] EXCEPT !.status = "dead"]]
    BY <1>2 DEF DeathDead, DeathWrite
  <2>2. [copy[p] EXCEPT !.status = "dead"].status = "dead"
    BY <1>0, ManifestTypes, Zenon DEF Statuses
  <2>3. QED
    BY <1>0, <2>1, <2>2 DEF TypeInv, TypeOK
<1>3. ~Command /\ ~Tick /\ ~Reboot
  BY CommandKeepsAgents DEF agents, Tick, Reboot, Gone
<1>4. QED
  BY <1>0, <1>1, <1>2, <1>3 DEF Next

LEMMA DeathStep == DeathInv /\ TypeInv' /\ [Next]_vars => DeathInv'
<1> SUFFICES ASSUME DeathInv, TypeInv', [Next]_vars PROVE DeathInv'
  OBVIOUS
<1>1. CASE UNCHANGED vars
  BY <1>1 DEF DeathInv, Unclaimed, DeathSticks, vars, disk, agents, hist
<1>2. CASE Next
  <2>1. /\ buried' = {b \in buried \cup {brain[p] : p \in {q \in Procs :
                                         pc[q] = "dying" /\ pc'[q] = "closed"}} :
                         \A q \in Procs : pc'[q] \in Claiming => brain'[q] # b}
    BY <1>2, NextRecorded DEF Recorded
  <2>2. Unclaimed'
    BY <1>2, <2>1, DyingStep DEF DeathInv, Unclaimed
  <2>3. ASSUME NEW b \in buried' PROVE man'[b].status \in {"dead", "none"}
    <3>1. CASE b \in buried
      <4>1. b \in Brains /\ man[b].status \in {"dead", "none"}
        BY <3>1 DEF DeathInv, Unclaimed, DeathSticks
      <4>2. \A q \in Procs : pc'[q] \in Claiming => brain'[q] # b
        BY <2>1
      <4>3. QED
        BY <1>2, <4>1, <4>2, StatusStep DEF DeathInv
    <3>2. CASE b \notin buried
      BY <1>2, <2>1, <3>2, DyingStep DEF DeathInv
    <3>3. QED
      BY <3>1, <3>2
  <2>4. QED
    BY <2>2, <2>3 DEF DeathInv, DeathSticks
<1>3. QED
  BY <1>1, <1>2

(* A death that completed is final: no heartbeat, checkpoint or sweep that *)
(* was under way brings the brain back (death.go; Heartbeat.Stop waits).   *)
THEOREM DeathSticksHolds == Spec => []DeathSticks
<1>1. Init => DeathInv
  BY TypeInit DEF DeathInv, Unclaimed, DeathSticks, Init
<1>2. DeathInv => TypeInv /\ DeathSticks
  BY DEF DeathInv
<1>3. QED
  BY <1>1, <1>2, TypeStep, DeathStep, PTL DEF Spec

-----------------------------------------------------------------------------
(* An id of uuid.NewString: before its manifest is written.                *)

(* Nobody but the process bound to it can make the first change to a       *)
(* directory that is not there.                                            *)
LEMMA UntouchedStep ==
    ASSUME TypeInv, Next, NEW b \in Brains, Untouched(b),
           \A p \in Procs : brain[p] = b => pc[p] = "write" /\ pc'[p] = "write"
    PROVE  Untouched(b)'
<1> USE DEF TypeInv
<1>0. b \notin ReadDir /\ None # b
  BY LifecycleAssumption DEF Untouched, ReadDir, Brains
<1>1. ASSUME NEW q \in Procs, Agent(q) PROVE Untouched(b)'
  <2>1. cli' = cli
    BY <1>1 DEF Agent, StartAgent, SweepRead, SweepProbe, SweepJudge, SweepMark, SweepSkip,
       SweepDone, GcRead, GcLock, GcRemove, GcSkip, GcDone, BirthRead, BirthWrite, TouchMarker,
       Attach, TouchRead, TouchWrite, CheckpointRead, CheckpointWrite, Shutdown, StopHeartbeat,
       DeathRead, DeathShutting, DeathDead, DeathWrite, Exit
  <2>2. b \notin todo'[q] /\ b \notin entries'[q] /\ cur'[q] # b
    <3>1. CASE \/ StartAgent(q) \/ SweepRead(q) \/ SweepProbe(q) \/ SweepJudge(q)
               \/ SweepMark(q) \/ SweepSkip(q) \/ SweepDone(q)
      <4>1. CASE StartAgent(q) \/ SweepDone(q)
        BY <1>0, <4>1 DEF StartAgent, SweepDone, Untouched, TypeOK
      <4>2. CASE SweepRead(q)
        BY <1>0, <4>2 DEF SweepRead, Untouched, TypeOK
      <4>3. CASE SweepProbe(q) \/ SweepJudge(q) \/ SweepMark(q)
        BY <1>0, <4>3 DEF SweepProbe, SweepJudge, SweepMark, NextEntry, Untouched, TypeOK
      <4>4. CASE SweepSkip(q)
        <5>1. PICK c : /\ todo' = [todo EXCEPT ![q] = @ \ {c}] \/ todo' = todo
                       /\ cur' = cur \/ cur' = [cur EXCEPT ![q] = None]
                       /\ entries' = entries
          BY <4>4 DEF SweepSkip, NextEntry
        <5>2. QED
          BY <1>0, <5>1 DEF Untouched, TypeOK
      <4>5. QED
        BY <3>1, <4>1, <4>2, <4>3, <4>4
    <3>2. CASE GcRead(q) \/ GcLock(q) \/ GcRemove(q) \/ GcSkip(q) \/ GcDone(q)
      BY <1>0, <3>2 DEF GcRead, GcLock, GcRemove, GcSkip, GcDone, NextEntry, Untouched, TypeOK
    <3>3. CASE Gone({q})
      BY <3>3, LifecycleAssumption DEF Gone, Brains
    <3>4. CASE UNCHANGED <<todo, entries, cur>>
      BY <3>4 DEF Untouched
    <3>5. QED
      BY <1>1, <3>1, <3>2, <3>3, <3>4 DEF Agent, BirthRead, BirthWrite, TouchMarker, Attach,
         TouchRead, TouchWrite, CheckpointRead, CheckpointWrite, Shutdown, StopHeartbeat, DeathRead,
         DeathShutting, DeathDead, DeathWrite, Exit, agents
  <2>3. man'[b] = man[b] /\ marker'[b] = marker[b]
    <3>1. CASE SweepMark(q) \/ GcRemove(q) \/ GcSkip(q)
      BY <3>1 DEF SweepMark, GcRemove, GcSkip, RemoveAll, RemoveSome, Untouched, TypeOK
    <3>2. CASE BirthWrite(q) \/ TouchMarker(q) \/ Attach(q)
      BY <3>2 DEF BirthWrite, TouchMarker, Attach, GoTo, TypeOK
    <3>3. CASE TouchRead(q)
      BY <3>3 DEF TouchRead, TypeOK, Beating
    <3>4. CASE TouchWrite(q) \/ CheckpointWrite(q)
      BY <3>4 DEF TouchWrite, CheckpointWrite, TypeOK, Control, Beating
    <3>5. CASE DeathShutting(q) \/ DeathDead(q)
      BY <3>5 DEF DeathShutting, DeathDead, DeathWrite, TypeOK
    <3>6. QED
      BY <1>1, <3>1, <3>2, <3>3, <3>4, <3>5 DEF Agent, StartAgent, SweepRead, SweepProbe,
         SweepJudge, SweepSkip, SweepDone, GcRead, GcLock, GcSkip, GcDone, BirthRead,
         CheckpointRead, Shutdown, StopHeartbeat, DeathRead, Exit, disk
  <2>4. \A p \in Procs \ {q} : todo'[p] = todo[p] /\ entries'[p] = entries[p] /\ cur'[p] = cur[p]
    BY <1>1, OthersKept DEF Same
  <2>5. QED
    BY <2>1, <2>2, <2>3, <2>4 DEF Untouched
<1>2. CASE Command
  <2>1. UNCHANGED <<todo, entries, cur>>
    BY <1>2, CommandKeepsAgents DEF agents
  <2>2. cli \in CliState /\ None # b
    BY LifecycleAssumption DEF Control, Brains
  <2>3. man'[b] = man[b] /\ marker'[b] = marker[b]
    BY <1>2 DEF Command, CliStart, CliJudge, CliAliveEligible, CliLock, CliRemove, CliExit,
       RemoveAll, RemoveSome, disk, Untouched, TypeOK
  <2>4. b \notin cli'.todo /\ b \notin cli'.del /\ cli'.cur # b
    <3>1. CASE CliStart
      BY <1>0, <2>2, <3>1 DEF CliStart, Idle
    <3>2. CASE CliJudge
      <4>1. PICK c \in cli.todo :
                \/ cli' = [cli EXCEPT !.todo = @ \ {c}, !.del = @ \cup {c}]
                \/ cli' = [cli EXCEPT !.todo = @ \ {c}]
                \/ cli' = [cli EXCEPT !.todo = @ \ {c}, !.pc = "alive", !.cur = c, !.pid = man[c].pid]
        BY <2>2, <3>2 DEF CliJudge, CliState
      <4>2. cli.todo \subseteq Brains /\ c # b
        BY <2>2 DEF CliState, Untouched
      <4>3. CASE cli' = [cli EXCEPT !.todo = @ \ {c}, !.del = @ \cup {c}]
        BY <2>2, <4>2, <4>3 DEF CliState, Untouched
      <4>4. CASE cli' = [cli EXCEPT !.todo = @ \ {c}]
        BY <2>2, <4>4 DEF CliState, Untouched
      <4>5. CASE cli' = [cli EXCEPT !.todo = @ \ {c}, !.pc = "alive", !.cur = c, !.pid = man[c].pid]
        BY <2>2, <4>2, <4>5 DEF CliState, Untouched
      <4>6. QED
        BY <4>1, <4>3, <4>4, <4>5
    <3>3. CASE CliAliveEligible
      BY <2>2, <3>3 DEF CliAliveEligible, CliState, Untouched
    <3>4. CASE CliLock
      <4>1. PICK c \in cli.del :
                \/ cli' = [cli EXCEPT !.del = @ \ {c}]
                \/ cli' = [cli EXCEPT !.del = @ \ {c}, !.pc = "remove", !.cur = c]
        BY <2>2, <3>4 DEF CliLock, CliState
      <4>2. c # b
        BY <2>2 DEF Untouched
      <4>3. CASE cli' = [cli EXCEPT !.del = @ \ {c}]
        BY <2>2, <4>3 DEF CliState, Untouched
      <4>4. CASE cli' = [cli EXCEPT !.del = @ \ {c}, !.pc = "remove", !.cur = c]
        BY <2>2, <4>2, <4>4 DEF CliState, Untouched
      <4>5. QED
        BY <4>1, <4>3, <4>4
    <3>5. CASE CliRemove
      BY <2>2, <3>5 DEF CliRemove, CliState, Untouched
    <3>6. CASE CliExit
      BY <2>2, <3>6 DEF CliExit, Idle
    <3>7. QED
      BY <1>2, <3>1, <3>2, <3>3, <3>4, <3>5, <3>6 DEF Command
  <2>5. QED
    BY <2>1, <2>3, <2>4 DEF Untouched
<1>3. CASE Tick
  BY <1>3 DEF Tick, Untouched, Older, TypeOK
<1>4. CASE Reboot
  <2>1. cli' = Idle /\ None # b /\ Idle.todo = {} /\ Idle.del = {} /\ Idle.cur = None
    BY <1>4, LifecycleAssumption DEF Reboot, Idle, Brains
  <2>2. QED
    BY <1>4, <2>1 DEF Reboot, Gone, Untouched
<1>5. QED
  BY <1>1, <1>2, <1>3, <1>4 DEF Next

LEMMA UsedGrows == ASSUME Next PROVE used \subseteq used'
<1>1. ASSUME NEW p \in Procs, Agent(p) PROVE used \subseteq used'
  <2>1. CASE BirthRead(p)
    BY <2>1 DEF BirthRead
  <2>2. CASE ~BirthRead(p)
    <3>1. used' = used
      BY <1>1, <2>2 DEF Agent, StartAgent, SweepRead, SweepProbe, SweepJudge, SweepMark, SweepSkip,
         SweepDone, GcRead, GcLock, GcRemove, GcSkip, GcDone, BirthWrite, TouchMarker, Attach,
         TouchRead, TouchWrite, CheckpointRead, CheckpointWrite, Shutdown, StopHeartbeat,
         DeathRead, DeathShutting, DeathDead, DeathWrite, Exit
    <3>2. QED
      BY <3>1
  <2>3. QED
    BY <2>1, <2>2
<1>2. Command \/ Tick \/ Reboot => used' = used
  BY DEF Command, CliStart, CliJudge, CliAliveEligible, CliLock, CliRemove, CliExit, Tick, Reboot
<1>3. QED
  BY <1>1, <1>2 DEF Next

(* A process gets a uuid once, after its start-up sweep, and keeps it.     *)
LEMMA BindStep ==
    ASSUME TypeInv, Next, NEW p \in Procs
    PROVE  brain'[p] \in Uuids =>
              \/ brain'[p] = brain[p] /\ (pc[p] \in Bound => pc'[p] \in Bound)
              \/ brain'[p] \notin used /\ used' = used \cup {brain'[p]} /\ pc'[p] = "write"
                 /\ \A q \in Procs \ {p} : brain'[q] = brain[q]
<1> USE DEF TypeInv
<1>n. None \notin Uuids /\ Named \cap Uuids = {}
  BY LifecycleAssumption
<1>1. ASSUME NEW q \in Procs, Agent(q)
      PROVE  brain'[p] \in Uuids =>
                \/ brain'[p] = brain[p] /\ (pc[p] \in Bound => pc'[p] \in Bound)
                \/ brain'[p] \notin used /\ used' = used \cup {brain'[p]} /\ pc'[p] = "write"
                   /\ \A r \in Procs \ {p} : brain'[r] = brain[r]
  <2>2. CASE q # p
    BY <1>1, <2>2, OthersKept DEF Same
  <2>3. CASE q = p
    <3>1. CASE Gone({p})
      BY <1>n, <3>1 DEF Gone
    <3>2. CASE StartAgent(p)
      BY <1>n, <3>2 DEF StartAgent, TypeOK
    <3>3. CASE BirthRead(p) /\ ~Gone({p})
      BY <1>n, <3>3 DEF BirthRead, GoTo, TypeOK, Bound, Claiming
    <3>4. CASE UNCHANGED brain /\ (pc[p] \in Bound => pc'[p] \in Bound)
      BY <3>4
    <3>5. ASSUME ~Gone({p}), ~StartAgent(p), ~BirthRead(p)
          PROVE  UNCHANGED brain /\ (pc[p] \in Bound => pc'[p] \in Bound)
      <4>1. CASE \/ SweepRead(p) \/ SweepProbe(p) \/ SweepJudge(p)
                 \/ SweepMark(p) \/ SweepSkip(p) \/ SweepDone(p)
        BY <4>1 DEF SweepRead, SweepProbe, SweepJudge, SweepMark, SweepSkip, SweepDone, Bound,
           Claiming
      <4>2. CASE GcRead(p) \/ GcLock(p) \/ GcRemove(p) \/ GcSkip(p) \/ GcDone(p)
        BY <4>2 DEF GcRead, GcLock, GcRemove, GcSkip, GcDone, Bound, Claiming
      <4>3. CASE BirthWrite(p) \/ TouchMarker(p) \/ Attach(p)
        BY <3>5, <4>3 DEF BirthWrite, TouchMarker, Attach, GoTo, TypeOK, Bound, Claiming
      <4>4. CASE TouchRead(p) \/ TouchWrite(p) \/ CheckpointRead(p) \/ CheckpointWrite(p)
        BY <3>5, <4>4 DEF TouchRead, TouchWrite, CheckpointRead, CheckpointWrite, GoTo, agents,
           TypeOK, Bound, Claiming
      <4>5. CASE Shutdown(p) \/ StopHeartbeat(p) \/ DeathRead(p) \/ DeathShutting(p) \/ DeathDead(p)
        BY <4>5 DEF Shutdown, StopHeartbeat, DeathRead, DeathShutting, DeathDead, DeathWrite, GoTo,
           TypeOK, Bound, Claiming
      <4>6. QED
        BY <1>1, <2>3, <3>5, <4>1, <4>2, <4>3, <4>4, <4>5 DEF Agent, Exit
    <3>6. QED
      BY <3>1, <3>2, <3>3, <3>4, <3>5
  <2>4. QED
    BY <2>2, <2>3
<1>2. CASE Command
  BY <1>2, CommandKeepsAgents DEF agents
<1>3. CASE Tick
  BY <1>3 DEF Tick
<1>4. CASE Reboot
  BY <1>n, <1>4 DEF Reboot, Gone
<1>5. QED
  BY <1>1, <1>2, <1>3, <1>4 DEF Next

(* Nobody returns to the phase that writes the first manifest.             *)
LEMMA WriteOnce ==
    ASSUME TypeInv, Next, NEW p \in Procs, pc'[p] = "write", pc[p] \in Bound
    PROVE  pc[p] = "write"
<1> USE DEF TypeInv, TypeOK
<1>1. ASSUME NEW q \in Procs, Agent(q) PROVE pc[p] = "write"
  <2>1. CASE q # p
    BY <1>1, <2>1, OthersKept DEF Same
  <2>2. CASE q = p
    <3>1. ~Gone({p})
      BY DEF Gone
    <3>2. CASE \/ StartAgent(p) \/ SweepRead(p) \/ SweepProbe(p) \/ SweepJudge(p)
               \/ SweepMark(p) \/ SweepSkip(p) \/ SweepDone(p)
      BY <3>2 DEF StartAgent, SweepRead, SweepProbe, SweepJudge, SweepMark, SweepSkip, SweepDone,
         Bound, Claiming
    <3>3. CASE GcRead(p) \/ GcLock(p) \/ GcRemove(p) \/ GcSkip(p) \/ GcDone(p) \/ BirthRead(p)
      BY <3>3 DEF GcRead, GcLock, GcRemove, GcSkip, GcDone, BirthRead, Bound, Claiming
    <3>4. CASE BirthWrite(p) \/ TouchMarker(p) \/ Attach(p) \/ TouchRead(p) \/ TouchWrite(p)
      BY <3>1, <3>4 DEF BirthWrite, TouchMarker, Attach, TouchRead, TouchWrite, GoTo, agents
    <3>5. CASE CheckpointRead(p) \/ CheckpointWrite(p) \/ Shutdown(p) \/ StopHeartbeat(p)
      BY <3>5 DEF CheckpointRead, CheckpointWrite, Shutdown, StopHeartbeat, GoTo
    <3>6. CASE DeathRead(p) \/ DeathShutting(p) \/ DeathDead(p) \/ Exit(p)
      BY <3>1, <3>6 DEF DeathRead, DeathShutting, DeathDead, DeathWrite, GoTo, Exit
    <3>7. QED
      BY <1>1, <2>2, <3>2, <3>3, <3>4, <3>5, <3>6 DEF Agent
  <2>3. QED
    BY <2>1, <2>2
<1>2. ~Reboot
  BY DEF Reboot, Gone
<1>3. QED
  BY <1>1, <1>2, CommandKeepsAgents DEF Next, Tick, agents

LEMMA OwnStep == ASSUME TypeInv, Own, Next PROVE Own'
<1> SUFFICES ASSUME NEW p \in Procs, brain'[p] \in Uuids
             PROVE  /\ brain'[p] \in used' /\ pc'[p] \in Bound
                    /\ \A q \in Procs : brain'[q] = brain'[p] => q = p
  BY DEF Own
<1>1. CASE brain'[p] = brain[p]
  <2>1. brain[p] \in used /\ pc[p] \in Bound
    BY <1>1 DEF Own
  <2>2. used \subseteq used' /\ pc'[p] \in Bound
    BY <1>1, <2>1, BindStep, UsedGrows
  <2>3. ASSUME NEW q \in Procs, brain'[q] = brain'[p] PROVE q = p
    BY <1>1, <2>1, <2>3, BindStep DEF Own
  <2>4. QED
    BY <1>1, <2>1, <2>2, <2>3
<1>2. CASE brain'[p] # brain[p]
  <2>1. /\ brain'[p] \notin used /\ used' = used \cup {brain'[p]} /\ pc'[p] = "write"
        /\ \A q \in Procs \ {p} : brain'[q] = brain[q]
    BY <1>2, BindStep
  <2>2. QED
    BY <2>1 DEF Own, Bound, Claiming
<1>3. QED
  BY <1>1, <1>2

LEMMA FreshStep == ASSUME TypeInv, Own, Own', Fresh, Next PROVE Fresh'
<1> SUFFICES ASSUME NEW b \in Uuids,
                    b \notin used' \/ \E p \in Procs : brain'[p] = b /\ pc'[p] = "write"
             PROVE  Untouched(b)'
  BY DEF Fresh
<1>0. b \in Brains
  BY DEF Brains
<1>1. CASE b \notin used'
  <2>1. b \notin used /\ \A p \in Procs : brain[p] # b
    BY <1>1, UsedGrows DEF Own
  <2>2. QED
    BY <1>0, <2>1, UntouchedStep DEF Fresh
<1>2. ASSUME NEW p \in Procs, brain'[p] = b, pc'[p] = "write" PROVE Untouched(b)'
  <2>1. CASE brain[p] = b
    <3>1. pc[p] = "write"
      <4>1. pc[p] \in Bound
        BY <2>1 DEF Own
      <4>2. QED
        BY <1>2, <2>1, <4>1, WriteOnce
    <3>2. \A q \in Procs : brain[q] = b => q = p
      BY <2>1 DEF Own
    <3>3. QED
      BY <1>0, <1>2, <2>1, <3>1, <3>2, UntouchedStep DEF Fresh
  <2>2. CASE brain[p] # b
    <3>1. b \notin used /\ \A q \in Procs : brain[q] # b
      BY <1>2, <2>2, BindStep DEF Own
    <3>2. QED
      BY <1>0, <3>1, UntouchedStep DEF Fresh
  <2>3. QED
    BY <2>1, <2>2
<1>3. QED
  BY <1>1, <1>2

-----------------------------------------------------------------------------
(* ... while it starts and while it runs.                                  *)

Safe(p, b) == HeldAt(p, b) /\ (pc[p] \in Starting => YoungAt(p, b))

(* p is up and its brain b is nobody else's.                               *)
Alone(p, b) ==
    /\ b \in Brains /\ brain[p] = b /\ pc[p] \in Keeping
    /\ \A q \in Procs \ {p} : brain[q] # b
    /\ Safe(p, b)

(* What another agent can do to the brain, and have in hand afterwards.    *)
Meddle(p, q, b) ==
    /\ cli' = cli /\ boot' = boot
    /\ \/ man'[b] = man[b]
       \/ pc[q] = "mark" /\ cur[q] = b /\ man'[b] = [copy[q] EXCEPT !.status = "dead"]
    /\ lock'[b] = lock[b] \/ pc[p] \in {"attach", "locking"}
    /\ cur'[q] = b =>
          /\ pc'[q] # "gcremove"
          /\ pc[p] \in Starting => pc'[q] # "gclock"
          /\ pc'[q] \in Copying =>
                \/ copy'[q] = man[b] /\ (pc'[q] = "mark" => man[b].boot # boot)
                \/ /\ pc[q] \in Copying /\ cur[q] = b /\ copy'[q] = copy[q]
                   /\ pc'[q] = "mark" => pc[q] = "probe" \/ ~ProcessAlive(copy[q].pid)

LEMMA OtherEffect ==
    ASSUME TypeInv, NEW p \in Procs, NEW q \in Procs \ {p}, NEW b, Alone(p, b), Agent(q)
    PROVE  Meddle(p, q, b)
<1> USE DEF TypeInv, Alone, Safe, HeldAt, YoungAt
<1>c. cli' = cli /\ boot' = boot
  BY DEF Agent, StartAgent, SweepRead, SweepProbe, SweepJudge, SweepMark, SweepSkip, SweepDone,
     GcRead, GcLock, GcRemove, GcSkip, GcDone, BirthRead, BirthWrite, TouchMarker, Attach,
     TouchRead, TouchWrite, CheckpointRead, CheckpointWrite, Shutdown, StopHeartbeat, DeathRead,
     DeathShutting, DeathDead, DeathWrite, Exit, disk
<1>m. man'[b] = man[b] \/ (pc[q] = "mark" /\ cur[q] = b /\ man'[b] = [copy[q] EXCEPT !.status = "dead"])
  <2>1. CASE SweepMark(q)
    BY <2>1 DEF SweepMark, TypeOK
  <2>2. CASE GcRemove(q) \/ GcSkip(q)
    BY <2>2 DEF GcRemove, GcSkip, RemoveAll, RemoveSome, TypeOK
  <2>3. CASE BirthWrite(q) \/ TouchWrite(q) \/ CheckpointWrite(q) \/ DeathShutting(q) \/ DeathDead(q)
    BY <2>3 DEF BirthWrite, TouchWrite, CheckpointWrite, DeathShutting, DeathDead, DeathWrite,
       TypeOK
  <2>4. QED
    BY <2>1, <2>2, <2>3 DEF Agent, StartAgent, SweepRead, SweepProbe, SweepJudge, SweepSkip,
       SweepDone, GcRead, GcLock, GcSkip, GcDone, BirthRead, TouchMarker, Attach, TouchRead,
       CheckpointRead, Shutdown, StopHeartbeat, DeathRead, Exit, disk
<1>l. lock'[b] = lock[b] \/ pc[p] \in {"attach", "locking"}
  <2>n. lock[b] \in {p} \/ pc[p] \in {"attach", "locking"}
    OBVIOUS
  <2>1. CASE SweepProbe(q) \/ SweepJudge(q) \/ GcLock(q) \/ GcRemove(q) \/ GcSkip(q)
    BY <2>1, <2>n, LifecycleAssumption
       DEF SweepProbe, SweepJudge, GcLock, GcRemove, GcSkip, RemoveAll, RemoveSome, Unlock, TypeOK
  <2>2. CASE Gone({q})
    BY <2>2 DEF Gone
  <2>3. CASE Attach(q) \/ StopHeartbeat(q)
    BY <2>2, <2>3 DEF TouchMarker, Attach, StopHeartbeat, Unlock, TypeOK
  <2>4. QED
    BY <2>1, <2>2, <2>3 DEF Agent, StartAgent, SweepRead, SweepMark, SweepSkip, SweepDone, GcRead,
       GcDone, BirthRead, BirthWrite, TouchMarker, TouchRead, TouchWrite, CheckpointRead,
       CheckpointWrite, Shutdown, DeathRead, DeathShutting, DeathDead, DeathWrite, Exit, disk
<1>q. ASSUME cur'[q] = b
      PROVE  /\ pc'[q] # "gcremove"
             /\ pc[p] \in Starting => pc'[q] # "gclock"
             /\ pc'[q] \in Copying =>
                   \/ copy'[q] = man[b] /\ (pc'[q] = "mark" => man[b].boot # boot)
                   \/ /\ pc[q] \in Copying /\ cur[q] = b /\ copy'[q] = copy[q]
                      /\ pc'[q] = "mark" => pc[q] = "probe" \/ ~ProcessAlive(copy[q].pid)
  <2>0. b # None /\ (pc[p] \notin {"attach", "locking"} => marker[b] = "file" /\ lock[b] # None)
    BY LifecycleAssumption DEF TypeOK, Brains
  <2>1. CASE Gone({q})
    BY <1>q, <2>0, <2>1 DEF Gone
  <2>2. CASE SweepRead(q)
    BY <1>q, <2>2 DEF SweepRead, GoTo, TypeOK, disk, Copying
  <2>3. CASE SweepProbe(q)
    BY <1>q, <2>0, <2>3 DEF SweepProbe, NextEntry, GoTo, TypeOK, Copying
  <2>4. CASE SweepJudge(q)
    BY <1>q, <2>0, <2>4 DEF SweepJudge, Orphaned, NextEntry, GoTo, TypeOK, Copying
  <2>5. CASE SweepMark(q) \/ GcRemove(q) \/ SweepSkip(q) \/ GcSkip(q)
    BY <1>q, <2>0, <2>5 DEF SweepMark, GcRemove, SweepSkip, GcSkip, NextEntry, TypeOK, Copying
  <2>6. CASE GcRead(q)
    BY <1>q, <2>6 DEF GcRead, GoTo, TypeOK, IsGCEligible, Copying
  <2>7. CASE GcLock(q)
    BY <1>q, <2>0, <2>7 DEF GcLock, NextEntry, GoTo, TypeOK, Copying, Keeping, Starting
  <2>8. CASE StartAgent(q) \/ SweepDone(q) \/ GcDone(q) \/ (BirthRead(q) /\ ~Gone({q}))
    BY <2>8 DEF StartAgent, SweepDone, GcDone, BirthRead, GoTo, TypeOK, Copying
  <2>9. CASE BirthWrite(q) \/ TouchMarker(q) \/ (Attach(q) /\ ~Gone({q})) \/ Shutdown(q) \/ StopHeartbeat(q)
    BY <2>9 DEF BirthWrite, TouchMarker, Attach, Shutdown, StopHeartbeat, GoTo, TypeOK, Copying
  <2>10. CASE DeathRead(q) \/ DeathShutting(q) \/ DeathDead(q)
    BY <2>10 DEF DeathRead, DeathShutting, DeathDead, DeathWrite, GoTo, TypeOK, Copying
  <2>11. CASE (TouchRead(q) /\ ~Gone({q})) \/ TouchWrite(q) \/ CheckpointRead(q) \/ CheckpointWrite(q)
    BY <2>11 DEF TouchRead, TouchWrite, CheckpointRead, CheckpointWrite, GoTo, TypeOK, Control,
       Copying, Beating, agents
  <2>12. QED
    BY <2>1, <2>2, <2>3, <2>4, <2>5, <2>6, <2>7, <2>8, <2>9, <2>10, <2>11 DEF Agent, Exit
<1>1. QED
  BY <1>c, <1>m, <1>l, <1>q DEF Meddle

(* The steps of the other agents.                                          *)
LEMMA OtherAgent ==
    ASSUME TypeInv, NEW p \in Procs, NEW q \in Procs \ {p}, NEW b, Alone(p, b), Agent(q)
    PROVE  HeldAt(p, b)' /\ (pc'[p] \in Starting => YoungAt(p, b)')
<1> USE DEF TypeInv, Alone, Safe, HeldAt, YoungAt
<1>s. \A r \in Procs \ {q} : Same(r)
  BY OthersKept
<1>m. Meddle(p, q, b)
  BY OtherEffect
<1>k. ASSUME pc[q] = "mark"
      PROVE  /\ [copy[q] EXCEPT !.status = "dead"] # NoManifest
             /\ [copy[q] EXCEPT !.status = "dead"].age = copy[q].age
  <2>1. copy[q] \in Manifests /\ copy[q] # NoManifest
    BY <1>k DEF TypeOK, Control, Copying
  <2>2. QED
    BY <2>1, MarkedDead, Zenon
<1>1. HeldAt(p, b)'
  <2>1. man'[b] # NoManifest
    BY <1>m, <1>k DEF Meddle
  <2>2. \A r \in Procs : pc'[r] = "gcremove" => cur'[r] # b
    BY <1>s, <1>m DEF Same, Meddle
  <2>3. pc'[p] \notin {"attach", "locking"} => lock'[b] = p
    BY <1>s, <1>m DEF Same, Meddle
  <2>4. QED
    BY <1>m, <2>1, <2>2, <2>3 DEF HeldAt, Meddle
<1>2. ASSUME pc'[p] \in Starting PROVE YoungAt(p, b)'
  <2>1. pc[p] \in Starting /\ YoungAt(p, b)
    BY <1>s, <1>2 DEF Same
  <2>2. man'[b].age = man[b].age
    BY <1>m, <1>k, <2>1 DEF Copying, Meddle
  <2>3. ASSUME NEW r \in Procs, cur'[r] = b
        PROVE  (pc'[r] \in Copying => copy'[r].age = man[b].age) /\ pc'[r] # "gclock"
    <3>1. CASE r # q
      BY <1>s, <2>1, <2>3, <3>1 DEF Same
    <3>2. CASE r = q
      BY <1>m, <2>1, <2>3, <3>2 DEF Meddle
    <3>3. QED
      BY <3>1, <3>2
  <2>4. QED
    BY <1>m, <2>1, <2>2, <2>3 DEF YoungAt, Meddle
<1>3. QED
  BY <1>1, <1>2

(* What an agent does while it is up.                                      *)
LEMMA OwnMoves ==
    ASSUME TypeInv, NEW p \in Procs, Agent(p), pc[p] \in Keeping, pc'[p] \in Keeping
    PROVE  /\ ~Gone({p})
           /\ \/ TouchMarker(p) \/ Attach(p) \/ TouchRead(p) \/ TouchWrite(p)
              \/ CheckpointRead(p) \/ CheckpointWrite(p)
<1>1. ~Gone({p})
  BY DEF Gone, Keeping
<1>2. pc[p] \notin {"down", "sweep", "probe", "release", "mark", "gc", "gclock", "gcremove", "birth",
                    "write", "closing", "death", "shutting", "dying"}
  BY DEF Keeping
<1>3. ~Shutdown(p)
  BY DEF Shutdown, GoTo, TypeInv, TypeOK, Keeping
<1>4. QED
  BY <1>1, <1>2, <1>3 DEF Agent, StartAgent, SweepRead, SweepProbe, SweepJudge, SweepMark,
     SweepSkip, SweepDone, GcRead, GcLock, GcRemove, GcSkip, GcDone, BirthRead, BirthWrite,
     StopHeartbeat, DeathRead, DeathShutting, DeathDead, DeathWrite, Exit

(* The steps of the brain's own agent.                                     *)
LEMMA OwnAgent ==
    ASSUME TypeInv, NEW p \in Procs, NEW b, Alone(p, b), Agent(p), pc'[p] \in Keeping
    PROVE  HeldAt(p, b)' /\ (pc'[p] \in Starting => YoungAt(p, b)')
<1> USE DEF TypeInv, Alone
<1>g. ~Gone({p})
  BY OwnMoves
<1>s. \A r \in Procs \ {p} : Same(r)
  BY OthersKept
<1>p. pc[p] \notin Copying \cup {"gclock", "gcremove"} /\ pc'[p] \notin Copying \cup {"gclock", "gcremove"}
  BY DEF Keeping, Copying
<1>1. CASE Attach(p)
  <2>1. /\ lock' = [lock EXCEPT ![b] = p]
        /\ UNCHANGED <<man, cur, copy, cli>>
    BY <1>g, <1>1 DEF Attach
  <2>2. lock'[b] = p /\ pc[p] = "locking"
    BY <1>1, <2>1 DEF Attach, TypeOK
  <2>3. QED
    BY <1>s, <1>p, <2>1, <2>2 DEF Same, Safe, HeldAt, YoungAt, Starting
<1>2. CASE TouchRead(p)
  <2>1. UNCHANGED <<man, lock, cur, copy, cli>> /\ (pc'[p] = pc[p] \/ pc'[p] = "run") /\ pc[p] \notin {"attach", "locking"}
    BY <1>g, <1>2 DEF TouchRead, GoTo, TypeOK, agents, Beating
  <2>2. QED
    BY <1>s, <1>p, <2>1 DEF Same, Safe, HeldAt, YoungAt, Starting
<1>3. CASE TouchWrite(p) \/ CheckpointWrite(p)
  <2>1. /\ man'[b] # NoManifest /\ UNCHANGED <<lock, cur, copy, cli>> /\ pc'[p] = "run"
        /\ pc[p] \notin {"attach", "locking"}
    BY <1>3 DEF TouchWrite, CheckpointWrite, GoTo, TypeOK, Control, Beating, Keeping
  <2>2. QED
    BY <1>s, <1>p, <2>1 DEF Same, Safe, HeldAt, Starting
<1>4. CASE CheckpointRead(p)
  <2>1. UNCHANGED <<man, lock, cur, copy, cli, pc>>
    BY <1>4 DEF CheckpointRead, disk
  <2>2. QED
    BY <1>s, <1>p, <2>1 DEF Same, Safe, HeldAt, YoungAt
<1>5. CASE TouchMarker(p)
  <2>1. UNCHANGED <<man, lock, cur, copy, cli>> /\ pc[p] = "attach" /\ pc'[p] = "locking"
    BY <1>5 DEF TouchMarker, GoTo, TypeOK
  <2>2. QED
    BY <1>s, <1>p, <2>1 DEF Same, Safe, HeldAt, YoungAt, Starting
<1>6. QED
  BY <1>1, <1>2, <1>3, <1>4, <1>5, OwnMoves

(* The steps of gc-brains.                                                 *)
LEMMA CommandSafe ==
    ASSUME TypeInv, NEW p \in Procs, NEW b, Alone(p, b), Command
    PROVE  HeldAt(p, b)' /\ (pc'[p] \in Starting => YoungAt(p, b)')
<1> USE DEF TypeInv, Alone, Safe
<1>a. UNCHANGED <<pc, brain, todo, entries, cur, copy, beat, ckpt>>
  BY CommandKeepsAgents DEF agents
<1>n. b # None /\ p # Cli /\ p # None
  BY LifecycleAssumption DEF Brains
<1>0. cli \in CliState
  BY DEF Control
<1>h. pc[p] \notin {"attach", "locking"} => lock[b] = p /\ marker[b] = "file"
  BY <1>n DEF HeldAt, TypeOK
<1>y. pc[p] \in Starting => man[b].age # 2
  BY DEF YoungAt
<1>k. pc[p] \in Starting \/ pc[p] \notin {"attach", "locking"}
  BY DEF Starting
<1>m. man'[b] = man[b]
  BY DEF Command, CliStart, CliJudge, CliAliveEligible, CliLock, CliRemove, CliExit, RemoveAll,
     RemoveSome, disk, TypeOK, HeldAt
<1>1. CASE CliStart
  <2>1. cli'.pc = "judge" /\ cli'.del = {} /\ lock' = lock
    BY <1>1 DEF CliStart, Idle, disk
  <2>2. QED
    BY <1>a, <1>m, <2>1 DEF HeldAt, YoungAt
<1>2. CASE CliJudge
  <2>1. PICK c \in cli.todo :
            \/ /\ IsGCEligible(man[c])
               /\ cli' = [cli EXCEPT !.todo = @ \ {c}, !.del = @ \cup {c}] /\ UNCHANGED lock
            \/ cli' = [cli EXCEPT !.todo = @ \ {c}] /\ UNCHANGED lock
            \/ /\ man[c].status = "alive" /\ man[c].age = 2 /\ lock[c] = None
               /\ cli' = [cli EXCEPT !.todo = @ \ {c}, !.pc = "alive", !.cur = c, !.pid = man[c].pid]
               /\ lock' = IF marker[c] = "file" THEN [lock EXCEPT ![c] = Cli] ELSE lock
    BY <1>0, <1>2 DEF CliJudge, CliState
  <2>2. lock'[b] = lock[b] \/ pc[p] \in {"attach", "locking"}
    BY <1>h, <1>n, <2>1 DEF TypeOK
  <2>3. cli.pc = "judge" /\ cli'.pc # "remove"
    BY <1>0, <1>2, <2>1 DEF CliJudge, CliState
  <2>4. pc[p] \in Starting => b \notin cli'.del /\ ~(cli'.pc = "alive" /\ cli'.cur = b)
    <3>1. SUFFICES ASSUME pc[p] \in Starting
                   PROVE  b \notin cli'.del /\ ~(cli'.pc = "alive" /\ cli'.cur = b)
      OBVIOUS
    <3>2. b \notin cli.del /\ man[b].age # 2
      BY <1>y, <3>1 DEF YoungAt
    <3>3. CASE IsGCEligible(man[c]) /\ cli' = [cli EXCEPT !.todo = @ \ {c}, !.del = @ \cup {c}]
      BY <1>0, <2>3, <3>2, <3>3 DEF CliState, IsGCEligible
    <3>4. CASE cli' = [cli EXCEPT !.todo = @ \ {c}]
      BY <1>0, <2>3, <3>2, <3>4 DEF CliState
    <3>5. CASE man[c].age = 2 /\ cli' = [cli EXCEPT !.todo = @ \ {c}, !.pc = "alive", !.cur = c, !.pid = man[c].pid]
      BY <1>0, <2>3, <3>2, <3>5 DEF CliState
    <3>6. QED
      BY <2>1, <3>3, <3>4, <3>5
  <2>5. QED
    BY <1>a, <1>m, <2>2, <2>3, <2>4 DEF HeldAt, YoungAt
<1>3. CASE CliAliveEligible
  <2>1. /\ cli'.pc = "judge" /\ cli'.del \subseteq cli.del \cup {cli.cur} /\ cli.pc = "alive"
        /\ lock'[b] = lock[b] \/ lock[b] = Cli
    BY <1>0, <1>3 DEF CliAliveEligible, CliState, Unlock, TypeOK
  <2>2. QED
    BY <1>a, <1>m, <1>n, <2>1 DEF HeldAt, YoungAt
<1>4. CASE CliLock
  <2>1. PICK c \in cli.del :
            \/ cli' = [cli EXCEPT !.del = @ \ {c}] /\ UNCHANGED lock
            \/ /\ cli' = [cli EXCEPT !.del = @ \ {c}, !.pc = "remove", !.cur = c]
               /\ marker[c] # "file" \/ lock[c] = None
               /\ lock' = IF marker[c] = "file" THEN [lock EXCEPT ![c] = Cli] ELSE lock
    BY <1>0, <1>4 DEF CliLock, CliState
  <2>2. lock'[b] = lock[b] \/ pc[p] \in {"attach", "locking"}
    BY <1>h, <1>n, <2>1 DEF TypeOK
  <2>3. c = b => pc[p] \notin Starting
    BY DEF YoungAt
  <2>4. cli.pc = "judge" /\ ~(cli'.pc = "remove" /\ cli'.cur = b) /\ cli'.pc # "alive" /\ cli'.del \subseteq cli.del
    <3>1. cli.pc = "judge"
      BY <1>4 DEF CliLock
    <3>2. CASE cli' = [cli EXCEPT !.del = @ \ {c}]
      BY <1>0, <3>1, <3>2 DEF CliState
    <3>3. CASE /\ cli' = [cli EXCEPT !.del = @ \ {c}, !.pc = "remove", !.cur = c]
               /\ marker[c] # "file" \/ lock[c] = None
      <4>1. c # b
        BY <1>h, <1>k, <1>n, <2>3, <3>3
      <4>2. QED
        BY <1>0, <3>1, <3>3, <4>1 DEF CliState
    <3>4. QED
      BY <2>1, <3>2, <3>3
  <2>5. QED
    BY <1>a, <1>m, <2>2, <2>4 DEF HeldAt, YoungAt
<1>5. CASE CliRemove
  <2>1. cli'.pc = "judge" /\ cli'.del = cli.del /\ cli.cur # b /\ lock'[b] = lock[b]
    BY <1>0, <1>5 DEF CliRemove, CliState, RemoveAll, RemoveSome, TypeOK, HeldAt
  <2>2. QED
    BY <1>a, <1>m, <2>1 DEF HeldAt, YoungAt
<1>6. CASE CliExit
  <2>1. cli'.pc = "idle" /\ cli'.del = {} /\ (lock[b] = p => lock'[b] = p)
    BY <1>6, <1>n DEF CliExit, Idle
  <2>2. QED
    BY <1>a, <1>m, <2>1 DEF HeldAt, YoungAt
<1>7. QED
  BY <1>1, <1>2, <1>3, <1>4, <1>5, <1>6 DEF Command

(* Time passes: a brain that starts has not been left for long.            *)
LEMMA TickSafe ==
    ASSUME TypeInv, NEW p \in Procs, NEW b, Alone(p, b), Tick
    PROVE  HeldAt(p, b)' /\ (pc'[p] \in Starting => YoungAt(p, b)')
<1> USE DEF TypeInv, Alone, Safe
<1>1. /\ man'[b] = Older(man[b]) /\ \A q \in Procs : copy'[q] = Older(copy[q])
      /\ UNCHANGED <<lock, pc, cur, cli>>
  BY DEF Tick
<1>2. man[b] \in Manifests /\ \A q \in Procs : copy[q] \in Manifests
  BY DEF TypeOK
<1>3. HeldAt(p, b)'
  BY <1>1, <1>2, OlderTypes DEF HeldAt
<1>4. ASSUME pc'[p] \in Starting PROVE YoungAt(p, b)'
  <2>1. YoungAt(p, b) /\ man[b] # NoManifest /\ man[b].age = 0
    BY <1>1, <1>4 DEF HeldAt, Tick
  <2>2. man'[b].age = 1
    BY <1>1, <1>2, <2>1, OlderTypes
  <2>3. \A q \in Procs : cur[q] = b /\ pc[q] \in Copying => copy'[q].age = 1
    <3>1. \A q \in Procs : cur[q] = b /\ pc[q] \in Copying => copy[q].age = 0 /\ copy[q] # NoManifest
      BY <2>1 DEF YoungAt, Control
    <3>2. QED
      BY <1>1, <1>2, <3>1, OlderTypes
  <2>4. QED
    BY <1>1, <2>1, <2>2, <2>3 DEF YoungAt
<1>5. QED
  BY <1>3, <1>4

(* Where a brain that is up comes from.                                    *)
LEMMA KeepingFrom ==
    ASSUME TypeInv, Next, NEW p \in Procs, pc'[p] \in Keeping
    PROVE  brain'[p] = brain[p] /\ (pc[p] \in Keeping \/ BirthWrite(p))
<1> USE DEF TypeInv, TypeOK
<1>1. ASSUME NEW q \in Procs, Agent(q)
      PROVE  brain'[p] = brain[p] /\ (pc[p] \in Keeping \/ BirthWrite(p))
  <2>1. CASE q # p
    BY <1>1, <2>1, OthersKept DEF Same
  <2>2. CASE q = p
    <3>1. ~Gone({p})
      BY DEF Gone, Keeping
    <3>2. ~(\/ StartAgent(p) \/ SweepRead(p) \/ SweepProbe(p) \/ SweepJudge(p)
            \/ SweepMark(p) \/ SweepSkip(p) \/ SweepDone(p))
      BY DEF StartAgent, SweepRead, SweepProbe, SweepJudge, SweepMark, SweepSkip, SweepDone, GoTo,
         NextEntry, Keeping
    <3>3. ~(GcRead(p) \/ GcLock(p) \/ GcRemove(p) \/ GcSkip(p) \/ GcDone(p) \/ BirthRead(p))
      BY <3>1 DEF GcRead, GcLock, GcRemove, GcSkip, GcDone, BirthRead, GoTo, NextEntry, Keeping
    <3>4. CASE BirthWrite(p)
      BY <3>4 DEF BirthWrite
    <3>5. CASE TouchMarker(p) \/ Attach(p) \/ TouchRead(p)
      BY <3>1, <3>5 DEF TouchMarker, Attach, TouchRead, GoTo, agents, Keeping, Beating
    <3>6. CASE TouchWrite(p) \/ CheckpointRead(p) \/ CheckpointWrite(p)
      BY <3>6 DEF TouchWrite, CheckpointRead, CheckpointWrite, GoTo, Keeping
    <3>7. ~(Shutdown(p) \/ StopHeartbeat(p) \/ DeathRead(p) \/ DeathShutting(p) \/ DeathDead(p) \/ Exit(p))
      BY <3>1 DEF Shutdown, StopHeartbeat, DeathRead, DeathShutting, DeathDead, DeathWrite, Exit,
         GoTo, Keeping
    <3>8. QED
      BY <1>1, <2>2, <3>2, <3>3, <3>4, <3>5, <3>6, <3>7 DEF Agent
  <2>3. QED
    BY <2>1, <2>2
<1>2. ~Reboot
  BY DEF Reboot, Gone, Keeping
<1>3. QED
  BY <1>1, <1>2, CommandKeepsAgents DEF Next, Tick, agents

(* The first manifest: nobody else has heard of the brain.                 *)
LEMMA BornSafe ==
    ASSUME TypeInv, NEW p \in Procs, NEW b \in Brains, brain[p] = b, Untouched(b), BirthWrite(p)
    PROVE  /\ HeldAt(p, b)' /\ YoungAt(p, b)'
           /\ man'[b] = [status |-> "alive", pid |-> p, boot |-> boot, age |-> 0]
<1>1. /\ man'[b] = [status |-> "alive", pid |-> p, boot |-> boot, age |-> 0]
      /\ UNCHANGED <<lock, cur, cli>> /\ pc'[p] = "attach"
  BY DEF BirthWrite, GoTo, TypeInv, TypeOK
<1>2. man'[b] # NoManifest /\ man'[b].age = 0
  BY <1>1 DEF NoManifest
<1>3. HeldAt(p, b)'
  BY <1>1, <1>2 DEF HeldAt, Untouched
<1>4. YoungAt(p, b)'
  BY <1>1, <1>2 DEF YoungAt, Untouched
<1>5. QED
  BY <1>1, <1>3, <1>4

LEMMA SafeStep ==
    ASSUME OwnInv, Next, NEW p \in Procs, NEW b \in Uuids, brain'[p] = b, pc'[p] \in Keeping
    PROVE  HeldAt(p, b)' /\ (pc'[p] \in Starting => YoungAt(p, b)')
<1> USE DEF OwnInv
<1>0. b \in Brains
  BY DEF Brains
<1>b. brain[p] = b /\ (pc[p] \in Keeping \/ BirthWrite(p))
  BY KeepingFrom
<1>1. CASE BirthWrite(p)
  <2>1. Untouched(b)
    BY <1>1, <1>b DEF Fresh, BirthWrite
  <2>2. QED
    BY <1>0, <1>1, <1>b, <2>1, BornSafe
<1>2. CASE pc[p] \in Keeping
  <2>1. Alone(p, b)
    BY <1>0, <1>2, <1>b DEF Alone, Own, Safe, Held, Young
  <2>2. ~Reboot
    BY DEF Reboot, Gone, Keeping
  <2>3. QED
    BY <2>1, <2>2, OtherAgent, OwnAgent, CommandSafe, TickSafe DEF Next
<1>3. QED
  BY <1>1, <1>2, <1>b

LEMMA OwnInvStep == OwnInv /\ TypeInv' /\ [Next]_vars => OwnInv'
<1> SUFFICES ASSUME OwnInv, TypeInv', [Next]_vars PROVE OwnInv'
  OBVIOUS
<1>1. CASE UNCHANGED vars
  BY <1>1 DEF OwnInv, Own, Fresh, Untouched, Young, YoungAt, Held, HeldAt, vars, disk, agents
<1>2. CASE Next
  <2>1. Own' /\ Fresh'
    BY <1>2, OwnStep, FreshStep DEF OwnInv
  <2>2. Held' /\ Young'
    BY <1>2, SafeStep DEF Held, Young, Keeping, Starting
  <2>3. QED
    BY <2>1, <2>2 DEF OwnInv
<1>3. QED
  BY <1>1, <1>2

LEMMA OwnInvInit == Init => OwnInv
<1> SUFFICES ASSUME Init PROVE OwnInv
  OBVIOUS
<1>1. \A p \in Procs : pc[p] = "down" /\ brain[p] = None
  BY DEF Init
<1>2. None \notin Uuids /\ Uuids \subseteq Brains /\ None \notin Brains
  BY LifecycleAssumption DEF Brains
<1>3. Own /\ Young /\ Held
  BY <1>1, <1>2 DEF Own, Young, Held, Keeping, Starting
<1>4. ASSUME NEW b \in Uuids PROVE Untouched(b)
  BY <1>2 DEF Init, Untouched, Idle
<1>5. QED
  BY <1>3, <1>4, TypeInit DEF OwnInv, Fresh

(* Whoever sweeps and whatever its manifest says, a brain whose heartbeat  *)
(* has started keeps its directory (the flock held across RemoveAll in     *)
(* recovery.go and gc_brains.go).                                          *)
THEOREM RunningKeepsItsDirectoryHolds == Spec => []RunningKeepsItsDirectory
<1>1. OwnInv => TypeInv /\ RunningKeepsItsDirectory
  BY DEF OwnInv, Held, HeldAt, Keeping, RunningKeepsItsDirectory
<1>2. QED
  BY <1>1, OwnInvInit, OwnInvStep, TypeStep, PTL DEF Spec

-----------------------------------------------------------------------------
(* A running brain is not declared dead.                                   *)

LEMMA SpokenOther ==
    ASSUME TypeInv, NEW p \in Procs, NEW q \in Procs \ {p}, NEW b, Alone(p, b), SpokenAt(p, b),
           Agent(q), b \notin unmarked'
    PROVE  SpokenAt(p, b)'
<1>s. \A r \in Procs \ {q} : Same(r)
  BY OthersKept
<1>m. Meddle(p, q, b)
  BY OtherEffect
<1>u. ~(pc[q] = "probe" /\ pc'[q] = "mark" /\ cur[q] = b)
  BY NextRecorded DEF Next, Recorded
<1>1. man'[b] = man[b] /\ boot' = boot
  BY <1>m DEF Meddle, SpokenAt
<1>2. ASSUME cur'[q] = b PROVE (pc'[q] \in Copying => copy'[q].pid = p) /\ pc'[q] # "mark"
  <2>1. ProcessAlive(p)
    BY DEF Alone, Keeping, ProcessAlive
  <2>2. man[b].pid = p /\ man[b].boot = boot
    BY DEF SpokenAt, Names
  <2>3. pc[q] \in Copying /\ cur[q] = b => copy[q].pid = p
    BY DEF SpokenAt
  <2>4. QED
    BY <1>m, <1>u, <1>2, <2>1, <2>2, <2>3 DEF Meddle, Copying
<1>3. \A r \in Procs : cur'[r] = b => (pc'[r] \in Copying => copy'[r].pid = p) /\ pc'[r] # "mark"
  BY <1>s, <1>2 DEF Same, SpokenAt
<1>4. beat'[p] = beat[p] /\ ckpt'[p] = ckpt[p]
  BY <1>s DEF Same
<1>5. QED
  BY <1>1, <1>3, <1>4 DEF SpokenAt, Names

LEMMA SpokenOwn ==
    ASSUME TypeInv, NEW p \in Procs, NEW b, Alone(p, b), SpokenAt(p, b), Agent(p),
           pc'[p] \in Keeping
    PROVE  SpokenAt(p, b)'
<1> USE DEF TypeInv, Alone
<1>s. \A r \in Procs \ {p} : Same(r)
  BY OthersKept
<1>p. pc[p] \notin Copying /\ pc'[p] \notin Copying /\ pc'[p] # "mark"
  BY DEF Keeping, Copying
<1>c. \A r \in Procs : cur'[r] = b => (pc'[r] \in Copying => copy'[r].pid = p) /\ pc'[r] # "mark"
  BY <1>s, <1>p DEF Same, SpokenAt
<1>m. man[b] \in Manifests /\ man[b] # NoManifest
  BY DEF Safe, HeldAt, TypeOK
<1>a. Names([man[b] EXCEPT !.age = 0], p)
  BY <1>m, ManifestTypes DEF SpokenAt, Names
<1>1. CASE TouchMarker(p) \/ Attach(p)
  BY <1>1, <1>c, OwnMoves DEF TouchMarker, Attach, SpokenAt, Names
<1>2. CASE TouchRead(p)
  <2>1. /\ man' = man /\ boot' = boot /\ ckpt' = ckpt
        /\ beat'[p] = beat[p] \/ beat'[p] = [man[b] EXCEPT !.age = 0]
    BY <1>2, <1>m, OwnMoves DEF TouchRead, agents, TypeOK
  <2>2. QED
    BY <1>c, <1>a, <2>1 DEF SpokenAt, Names
<1>3. CASE TouchWrite(p)
  <2>1. /\ man'[b] = beat[p] /\ beat[p] # NoManifest /\ beat'[p] = NoManifest
        /\ boot' = boot /\ ckpt' = ckpt
    BY <1>3 DEF TouchWrite, TypeOK
  <2>2. QED
    BY <1>c, <2>1 DEF SpokenAt, Names
<1>4. CASE CheckpointRead(p)
  <2>1. man' = man /\ boot' = boot /\ beat' = beat /\ ckpt'[p] = man[b]
    BY <1>4 DEF CheckpointRead, disk, TypeOK
  <2>2. QED
    BY <1>c, <2>1 DEF SpokenAt, Names
<1>5. CASE CheckpointWrite(p)
  <2>1. /\ man'[b] = ckpt[p] /\ ckpt[p] # NoManifest /\ ckpt'[p] = NoManifest
        /\ boot' = boot /\ beat' = beat
    BY <1>5 DEF CheckpointWrite, TypeOK
  <2>2. QED
    BY <1>c, <2>1 DEF SpokenAt, Names
<1>6. QED
  BY <1>1, <1>2, <1>3, <1>4, <1>5, OwnMoves

LEMMA SpokenRest ==
    ASSUME TypeInv, NEW p \in Procs, NEW b, Alone(p, b), SpokenAt(p, b), Command \/ Tick
    PROVE  SpokenAt(p, b)'
<1> USE DEF TypeInv, Alone
<1>1. CASE Command
  <2>1. UNCHANGED <<pc, cur, copy, beat, ckpt>>
    BY <1>1, CommandKeepsAgents DEF agents
  <2>2. man'[b] = man[b] /\ boot' = boot
    BY <1>1 DEF Command, CliStart, CliJudge, CliAliveEligible, CliLock, CliRemove, CliExit,
       RemoveAll, RemoveSome, disk, TypeOK, Safe, HeldAt
  <2>3. QED
    BY <2>1, <2>2 DEF SpokenAt, Names
<1>2. CASE Tick
  <2>1. /\ man'[b] = Older(man[b]) /\ beat'[p] = Older(beat[p]) /\ ckpt'[p] = Older(ckpt[p])
        /\ \A q \in Procs : copy'[q] = Older(copy[q])
        /\ UNCHANGED <<boot, pc, cur>>
    BY <1>2 DEF Tick
  <2>2. /\ man[b] \in Manifests /\ beat[p] \in Manifests /\ ckpt[p] \in Manifests
        /\ \A q \in Procs : copy[q] \in Manifests
    BY DEF TypeOK
  <2>3. Names(man'[b], p)
    BY <2>1, <2>2, OlderTypes DEF SpokenAt, Names
  <2>4. /\ beat'[p] # NoManifest => Names(beat'[p], p)
        /\ ckpt'[p] # NoManifest => Names(ckpt'[p], p)
    BY <2>1, <2>2, OlderTypes DEF SpokenAt, Names
  <2>5. \A q \in Procs : copy'[q].pid = copy[q].pid
    BY <2>1, <2>2, OlderTypes
  <2>6. QED
    BY <2>1, <2>3, <2>4, <2>5 DEF SpokenAt, Names
<1>3. QED
  BY <1>1, <1>2

LEMMA SpokenStep ==
    ASSUME LiveInv, Next, NEW p \in Procs, NEW b \in Uuids \ unmarked', brain'[p] = b,
           pc'[p] \in Keeping
    PROVE  SpokenAt(p, b)'
<1> USE DEF LiveInv, OwnInv
<1>0. b \in Brains /\ b \notin unmarked
  BY NextRecorded DEF Brains, Recorded
<1>b. brain[p] = b /\ (pc[p] \in Keeping \/ BirthWrite(p))
  BY KeepingFrom
<1>1. CASE BirthWrite(p)
  <2>1. Untouched(b)
    BY <1>1, <1>b DEF Fresh, BirthWrite
  <2>2. man'[b] = [status |-> "alive", pid |-> p, boot |-> boot, age |-> 0]
    BY <1>0, <1>1, <1>b, <2>1, BornSafe
  <2>3. UNCHANGED <<boot, cur, beat, ckpt>> /\ beat[p] = NoManifest /\ ckpt[p] = NoManifest
    BY <1>1 DEF BirthWrite, TypeInv, Control, Beating
  <2>4. QED
    BY <2>1, <2>2, <2>3 DEF SpokenAt, Names, Untouched
<1>2. CASE pc[p] \in Keeping
  <2>1. Alone(p, b)
    BY <1>0, <1>2, <1>b DEF Alone, Own, Safe, Held, Young
  <2>2. SpokenAt(p, b)
    BY <1>0, <1>2, <1>b DEF Spoken
  <2>3. ~Reboot
    BY DEF Reboot, Gone, Keeping
  <2>4. QED
    BY <2>1, <2>2, <2>3, SpokenOther, SpokenOwn, SpokenRest DEF Next
<1>3. QED
  BY <1>1, <1>2, <1>b

LEMMA LiveInvStep == LiveInv /\ OwnInv' /\ [Next]_vars => LiveInv'
<1> SUFFICES ASSUME LiveInv, OwnInv', [Next]_vars PROVE LiveInv'
  OBVIOUS
<1>1. CASE UNCHANGED vars
  BY <1>1 DEF LiveInv, Spoken, SpokenAt, Names, vars, disk, agents, hist
<1>2. CASE Next
  BY <1>2, SpokenStep DEF LiveInv, Spoken
<1>3. QED
  BY <1>1, <1>2

(* However late its heartbeat, a running brain is not declared dead, but   *)
(* for one a sweep met before its marker was there (recovery.go Recover:   *)
(* the flock and the pid).                                                 *)
THEOREM LiveBrainIsLeftAloneHolds == Spec => []LiveBrainIsLeftAlone
<1>1. Init => LiveInv
  BY OwnInvInit DEF LiveInv, Spoken, Init, Keeping
<1>2. LiveInv => OwnInv /\ TypeInv /\ LiveBrainIsLeftAlone
  BY DEF LiveInv, OwnInv, Spoken, SpokenAt, Names, Keeping, LiveBrainIsLeftAlone
<1>3. QED
  BY <1>1, <1>2, OwnInvStep, TypeStep, LiveInvStep, PTL DEF Spec


-----------------------------------------------------------------------------
(* A sweep leaves no corpse behind.                                        *)

(* What a process that takes a step may do to a flock it does not hold.    *)
LEMMA LockOther ==
    ASSUME TypeInv, NEW q \in Procs, Agent(q), NEW p \in Procs \ {q}, NEW b \in Brains,
           lock'[b] = p
    PROVE  lock[b] = p
<1>n. p # None /\ p # q
  BY LifecycleAssumption
<1> USE <1>n DEF TypeInv, TypeOK
<1>1. CASE StartAgent(q) \/ SweepRead(q) \/ SweepMark(q) \/ SweepSkip(q) \/ SweepDone(q) \/ GcRead(q)
           \/ GcDone(q) \/ BirthWrite(q) \/ TouchMarker(q) \/ TouchWrite(q) \/ CheckpointRead(q) \/ CheckpointWrite(q)
           \/ Shutdown(q) \/ DeathRead(q) \/ DeathShutting(q) \/ DeathDead(q)
  BY <1>1 DEF StartAgent, SweepRead, SweepMark, SweepSkip, SweepDone, GcRead, GcDone, BirthWrite,
     TouchMarker, TouchWrite, CheckpointRead, CheckpointWrite, Shutdown, DeathRead, DeathShutting,
     DeathDead, DeathWrite, disk
<1>2. CASE SweepProbe(q) \/ GcLock(q) \/ GcRemove(q) \/ GcSkip(q)
  BY <1>2 DEF SweepProbe, GcLock, GcRemove, GcSkip, RemoveAll, RemoveSome
<1>3. CASE SweepJudge(q) \/ StopHeartbeat(q)
  BY <1>3 DEF SweepJudge, StopHeartbeat, Unlock
<1>4. CASE BirthRead(q) \/ Exit(q)
  BY <1>4 DEF BirthRead, Exit, Gone
<1>5. CASE Attach(q) \/ TouchRead(q)
  BY <1>5 DEF TouchMarker, Attach, TouchRead, Gone, agents
<1>6. QED
  BY <1>1, <1>2, <1>3, <1>4, <1>5 DEF Agent

LEMMA LockOwn ==
    ASSUME TypeInv, Locks, NEW p \in Procs, Agent(p), NEW b \in Brains, lock'[b] = p
    PROVE  \/ pc'[p] \in {"release", "gcremove"} /\ cur'[p] = b
           \/ pc'[p] \in Beating /\ brain'[p] = b
<1>n. p # None /\ p # Cli
  BY LifecycleAssumption
<1>g. ~Gone({p})
  BY <1>n DEF Gone
<1> USE <1>n DEF TypeInv, TypeOK
<1>l. lock[b] = p => \/ pc[p] \in {"release", "gcremove"} /\ cur[p] = b
                     \/ pc[p] \in Beating /\ brain[p] = b
  BY DEF Locks
<1>1. ~(StartAgent(p) \/ SweepRead(p) \/ SweepMark(p) \/ SweepSkip(p) \/ SweepDone(p) \/ GcRead(p)
        \/ GcDone(p) \/ BirthWrite(p) \/ TouchMarker(p) \/ DeathRead(p) \/ DeathShutting(p) \/ DeathDead(p))
  BY <1>l DEF StartAgent, SweepRead, SweepMark, SweepSkip, SweepDone, GcRead, GcDone, BirthWrite,
     TouchMarker, DeathRead, DeathShutting, DeathDead, DeathWrite, disk, Beating
<1>2. CASE SweepProbe(p) \/ GcLock(p)
  BY <1>2, <1>l DEF SweepProbe, GcLock, GoTo, Beating
<1>3. ~SweepJudge(p) /\ ~GcRemove(p) /\ ~GcSkip(p)
  <2>1. ~SweepJudge(p) /\ ~GcRemove(p)
    BY <1>l DEF SweepJudge, Unlock, GcRemove, RemoveAll, Control, Beating
  <2>2. GcSkip(p) => pc[p] = "gcremove" /\ RemoveSome(cur[p], p) /\ cur[p] = b
    BY <1>l DEF GcSkip, RemoveSome, Control, Beating
  <2>3. QED
    BY <2>1, <2>2, RemoveSomeTypes
<1>4. ~StopHeartbeat(p) /\ ~BirthRead(p) /\ ~Exit(p)
  BY <1>l, <1>g DEF StopHeartbeat, Unlock, BirthRead, Exit, Beating
<1>5. CASE Attach(p)
  BY <1>5, <1>l, <1>g DEF TouchMarker, Attach, GoTo, Beating
<1>6. CASE TouchRead(p)
  BY <1>6, <1>l, <1>g DEF TouchRead, GoTo, Beating, agents
<1>7. CASE TouchWrite(p) \/ CheckpointRead(p) \/ CheckpointWrite(p) \/ Shutdown(p)
  BY <1>7, <1>l DEF TouchWrite, CheckpointRead, CheckpointWrite, Shutdown, GoTo, Beating, disk,
     Control
<1>8. QED
  BY <1>1, <1>2, <1>3, <1>4, <1>5, <1>6, <1>7 DEF Agent

LEMMA LocksStep == ASSUME TypeInv, Locks, Next PROVE Locks'
<1> SUFFICES ASSUME NEW b \in Brains, NEW p \in Procs, lock'[b] = p
             PROVE  \/ pc'[p] \in {"release", "gcremove"} /\ cur'[p] = b
                    \/ pc'[p] \in Beating /\ brain'[p] = b
  BY DEF Locks
<1>n. p # None /\ p # Cli
  BY LifecycleAssumption
<1>1. CASE Command
  <2>1. UNCHANGED agents
    BY <1>1, CommandKeepsAgents
  <2>2. lock[b] = p
    BY <1>1, <1>n DEF Command, CliStart, CliJudge, CliAliveEligible, CliLock, CliRemove, CliExit,
       RemoveAll, RemoveSome, Unlock, disk, TypeInv, TypeOK
  <2>3. QED
    BY <2>1, <2>2 DEF Locks, agents
<1>2. CASE Tick
  BY <1>2 DEF Tick, Locks
<1>3. CASE Reboot
  BY <1>3, <1>n DEF Reboot, Gone, TypeInv, TypeOK
<1>4. ASSUME NEW q \in Procs, Agent(q), q # p
      PROVE  \/ pc'[p] \in {"release", "gcremove"} /\ cur'[p] = b
             \/ pc'[p] \in Beating /\ brain'[p] = b
  BY <1>4, LockOther, OthersKept DEF Locks, Same
<1>5. QED
  BY <1>1, <1>2, <1>3, <1>4, LockOwn DEF Next

(* Nobody but time touches a corpse that is one before and after the step. *)
LEMMA CorpseKept ==
    ASSUME TypeInv, Next, NEW p \in Procs, NEW b \in Brains, pc'[p] # "down",
           Corpse(b, p), Corpse(b, p)'
    PROVE  boot' = boot /\ (man'[b] = man[b] \/ Tick)
<1> USE DEF TypeInv, TypeOK
<1>a. man[b].status = "alive" /\ man'[b].status = "alive"
  BY DEF Corpse
<1>b. \A q \in Procs : brain[q] = b => pc[q] \in {"down", "closed"}
  BY DEF Corpse
<1>n. man'[b] # NoManifest
  BY <1>a, ManifestTypes
<1>1. ASSUME NEW q \in Procs, Agent(q)
      PROVE  boot' = boot /\ man'[b] = man[b]
  <2>1. CASE SweepMark(q)
    <3>1. copy[q] \in Manifests /\ copy[q] # NoManifest
      BY <2>1 DEF SweepMark, Control, Copying
    <3>2. [copy[q] EXCEPT !.status = "dead"].status = "dead"
      BY <3>1, ManifestTypes, Zenon DEF Statuses
    <3>3. QED
      BY <1>a, <2>1, <3>2 DEF SweepMark
  <2>2. CASE GcRemove(q) \/ GcSkip(q)
    BY <1>n, <2>2 DEF GcRemove, GcSkip, RemoveAll, RemoveSome
  <2>3. CASE BirthWrite(q) \/ DeathShutting(q) \/ DeathDead(q)
    BY <1>b, <2>3 DEF BirthWrite, DeathShutting, DeathDead, DeathWrite
  <2>4. CASE TouchMarker(q) \/ Attach(q) \/ TouchRead(q)
    BY <2>4 DEF TouchMarker, Attach, TouchRead
  <2>5. CASE TouchWrite(q) \/ CheckpointWrite(q)
    BY <1>b, <2>5 DEF TouchWrite, CheckpointWrite, Control, Beating
  <2>6. QED
    BY <1>1, <2>1, <2>2, <2>3, <2>4, <2>5 DEF Agent, StartAgent, SweepRead, SweepProbe, SweepJudge,
       SweepSkip, SweepDone, GcRead, GcLock, GcSkip, GcDone, BirthRead, CheckpointRead, Shutdown,
       StopHeartbeat, DeathRead, Exit, disk
<1>2. CASE Command
  BY <1>2, <1>n DEF Command, CliStart, CliJudge, CliAliveEligible, CliLock, CliRemove, CliExit,
     RemoveAll, RemoveSome, disk
<1>3. CASE Tick
  BY <1>3 DEF Tick
<1>4. ~Reboot
  BY DEF Reboot, Gone
<1>5. QED
  BY <1>1, <1>2, <1>3, <1>4 DEF Next

(* What History keeps for a sweep under way.                               *)
LEMMA MissedStep ==
    ASSUME Next, NEW p \in Procs, pc[p] \in Sweeping, pc'[p] \in Sweeping \cup {"gc"}
    PROVE  missed'[p] \subseteq {b \in missed[p] : Corpse(b, p)'}
<1>1. pc[p] # "down"
  BY DEF Sweeping
<1>2. PICK skips : Recorded(skips)
  BY NextRecorded
<1>3. missed'[p] = {b \in missed[p] : Corpse(b, p)' /\ <<p, b>> \notin skips}
  BY <1>1, <1>2 DEF Recorded
<1>4. QED
  BY <1>3

(* The sweep is where it was, and only time may have passed.               *)
LEMMA TrackedWaits ==
    ASSUME TypeInv, Next, NEW p \in Procs, pc[p] \in Sweeping, TrackedAt(p),
           missed[p] \subseteq Brains, boot' = boot,
           pc'[p] = pc[p], todo'[p] = todo[p], cur'[p] = cur[p],
           copy'[p] = IF Tick THEN Older(copy[p]) ELSE copy[p]
    PROVE  TrackedAt(p)'
<1>m. missed'[p] \subseteq {b \in missed[p] : Corpse(b, p)'}
  BY MissedStep
<1>k. \A b \in missed'[p] : Corpse(b, p) /\ Corpse(b, p)' /\ (man'[b] = man[b] \/ Tick)
  BY <1>m, CorpseKept DEF Sweeping, TrackedAt
<1>1. \A b \in missed'[p] : b \in todo[p] \/ (pc[p] # "sweep" /\ b = cur[p])
  BY <1>m DEF TrackedAt
<1>2. ASSUME pc[p] \in Copying, cur[p] \in missed'[p] PROVE copy'[p] = man'[cur[p]]
  <2>1. copy[p] = man[cur[p]] /\ cur[p] \in Brains
    BY <1>2, <1>m DEF TrackedAt
  <2>2. CASE Tick
    BY <2>1, <2>2 DEF Tick
  <2>3. CASE ~Tick
    BY <1>2, <1>k, <2>1, <2>3
  <2>4. QED
    BY <2>2, <2>3
<1>3. ASSUME pc[p] \in {"probe", "release"} PROVE copy'[p].boot = boot
  <2>1. copy[p].boot = boot /\ copy[p] \in Manifests
    BY <1>3 DEF TrackedAt, TypeInv, TypeOK
  <2>2. QED
    BY <2>1, OlderTypes
<1>4. ASSUME pc[p] = "release", cur[p] \in missed'[p] PROVE copy'[p].age # 0
  <2>1. copy[p].age # 0 /\ copy[p] \in Manifests
    BY <1>4, <1>m DEF TrackedAt, TypeInv, TypeOK
  <2>2. QED
    BY <2>1, OlderTypes
<1>5. QED
  BY <1>k, <1>1, <1>2, <1>3, <1>4 DEF TrackedAt

(* The sweep takes a step.                                                 *)
LEMMA TrackedMoves ==
    ASSUME TypeInv, Locks, Next, NEW p \in Procs, Agent(p), pc'[p] \in Sweeping,
           pc[p] \in Sweeping => TrackedAt(p)
    PROVE  TrackedAt(p)'
<1> USE DEF TypeInv, TypeOK
<1>g. ~Gone({p})
  BY DEF Gone, Sweeping
<1>0. CASE StartAgent(p)
  <2>1. pc[p] = "down" /\ pc'[p] = "sweep"
    BY <1>0 DEF StartAgent, GoTo, Sweeping
  <2>2. missed'[p] = {b \in todo'[p] : Corpse(b, p)'}
    BY <2>1, NextRecorded DEF Recorded, Sweeping
  <2>3. QED
    BY <2>1, <2>2 DEF TrackedAt, Copying
<1>s. ASSUME pc[p] \in Sweeping
      PROVE  /\ missed'[p] \subseteq missed[p]
             /\ \A b \in missed'[p] : Corpse(b, p) /\ Corpse(b, p)'
             /\ TrackedAt(p)
  BY <1>s, MissedStep DEF TrackedAt
<1>1. CASE SweepRead(p)
  <2>0. pc[p] = "sweep"
    BY <1>1 DEF SweepRead
  <2>1. PICK c \in todo[p] :
          /\ todo'[p] = todo[p] \ {c}
          /\ \/ man[c].status # "alive" /\ pc'[p] = "sweep"
             \/ /\ cur'[p] = c /\ copy'[p] = man[c]
                /\ pc'[p] = IF man[c].boot # boot THEN "mark" ELSE "probe"
    BY <1>1 DEF SweepRead, GoTo
  <2>2. UNCHANGED disk
    BY <1>1 DEF SweepRead
  <2>3. missed'[p] \subseteq todo[p] /\ \A b \in missed'[p] : Corpse(b, p) /\ Corpse(b, p)'
    BY <1>s, <2>0 DEF TrackedAt, Sweeping
  <2>4. CASE man[c].status # "alive" /\ pc'[p] = "sweep"
    BY <2>1, <2>3, <2>4 DEF TrackedAt, Corpse, Copying
  <2>5. CASE /\ cur'[p] = c /\ copy'[p] = man[c]
             /\ pc'[p] = IF man[c].boot # boot THEN "mark" ELSE "probe"
    BY <2>1, <2>2, <2>3, <2>5 DEF TrackedAt, Copying, disk
  <2>6. QED
    BY <2>1, <2>4, <2>5
<1>2. CASE SweepProbe(p)
  <2>0. pc[p] = "probe" /\ TrackedAt(p) /\ cur[p] \in Brains
    BY <1>2, <1>s DEF SweepProbe, Sweeping, Control, Copying
  <2>1. todo' = todo /\ man' = man /\ marker' = marker /\ boot' = boot
    BY <1>2 DEF SweepProbe
  <2>2. ASSUME UNCHANGED <<cur, copy>>,
               pc'[p] = "mark" \/ (pc'[p] = "release" /\ marker[cur[p]] = "file")
        PROVE  TrackedAt(p)'
    <3>1. cur[p] \in missed'[p] /\ pc'[p] = "release" => copy[p].age # 0
      BY <1>s, <2>0, <2>2 DEF TrackedAt, Corpse, Copying, Sweeping
    <3>2. QED
      BY <1>s, <2>0, <2>1, <2>2, <3>1 DEF TrackedAt, Copying, Sweeping
  <2>3. CASE marker[cur[p]] = "file" /\ lock[cur[p]] # None /\ NextEntry(p, "sweep")
    <3>1. lock[cur[p]] # p
      BY <2>0 DEF Locks, Beating
    <3>2. cur[p] \notin missed[p]
      BY <2>0, <2>3, <3>1 DEF TrackedAt, Corpse
    <3>3. pc'[p] = "sweep"
      BY <2>3 DEF NextEntry, GoTo
    <3>4. QED
      BY <1>s, <2>0, <2>1, <3>2, <3>3 DEF TrackedAt, Copying, Sweeping
  <2>4. \/ /\ UNCHANGED <<cur, copy>>
           /\ pc'[p] = "mark" \/ (pc'[p] = "release" /\ marker[cur[p]] = "file")
        \/ marker[cur[p]] = "file" /\ lock[cur[p]] # None /\ NextEntry(p, "sweep")
    BY <1>2 DEF SweepProbe, GoTo
  <2>5. QED
    BY <2>2, <2>3, <2>4, Zenon
<1>3. CASE SweepJudge(p)
  <2>0. pc[p] = "release" /\ TrackedAt(p) /\ cur[p] \in Brains
    BY <1>3, <1>s DEF SweepJudge, Sweeping, Control, Copying
  <2>1. todo' = todo /\ man' = man /\ marker' = marker /\ boot' = boot
    BY <1>3 DEF SweepJudge
  <2>2. CASE cur' = cur /\ copy' = copy /\ pc'[p] = "mark"
    BY <1>s, <2>0, <2>1, <2>2 DEF TrackedAt, Copying, Sweeping
  <2>3. CASE ~Orphaned(copy[p]) /\ NextEntry(p, "sweep")
    <3>1. cur[p] \notin missed[p]
      <4>1. copy[p] \in Manifests /\ copy[p] # NoManifest
        BY <2>0 DEF Control, Copying
      <4>2. copy[p].age \in {0, 1, 2}
        BY <4>1, ManifestTypes
      <4>3. QED
        BY <2>0, <2>3, <4>2 DEF TrackedAt, Corpse, Orphaned, Copying
    <3>2. pc'[p] = "sweep"
      BY <2>3 DEF NextEntry, GoTo
    <3>3. QED
      BY <1>s, <2>0, <2>1, <3>1, <3>2 DEF TrackedAt, Copying, Sweeping
  <2>4. QED
    BY <1>3, <2>2, <2>3 DEF SweepJudge, GoTo
<1>4. CASE SweepMark(p)
  <2>0. pc[p] = "mark" /\ TrackedAt(p) /\ cur[p] \in Brains /\ copy[p] \in Manifests /\ copy[p] # NoManifest
    BY <1>4, <1>s DEF SweepMark, Sweeping, Control, Copying
  <2>1. pc'[p] = "sweep" /\ todo' = todo
    BY <1>4 DEF SweepMark, NextEntry, GoTo
  <2>2. man'[cur[p]].status = "dead"
    <3>1. man'[cur[p]] = [copy[p] EXCEPT !.status = "dead"]
      BY <1>4, <2>0 DEF SweepMark
    <3>2. [copy[p] EXCEPT !.status = "dead"].status = "dead"
      BY <2>0, ManifestTypes, Zenon DEF Statuses
    <3>3. QED
      BY <3>1, <3>2
  <2>3. cur[p] \notin missed'[p]
    BY <1>s, <2>0, <2>2 DEF Corpse, Sweeping
  <2>4. QED
    BY <1>s, <2>0, <2>1, <2>3 DEF TrackedAt, Copying, Sweeping
<1>5. CASE SweepSkip(p)
  <2>0. TrackedAt(p) /\ pc[p] \in Sweeping
    BY <1>5, <1>s DEF SweepSkip, Sweeping
  <2>1. PICK c \in todo[p] \cup {cur[p]} :
          /\ \/ pc[p] = "sweep" /\ todo'[p] = todo[p] \ {c} /\ pc'[p] = "sweep"
             \/ c = cur[p] /\ todo'[p] = todo[p] /\ pc'[p] = "sweep"
          /\ Recorded({<<p, c>>})
    BY <1>5 DEF SweepSkip, NextEntry, GoTo
  <2>2. c \notin missed'[p]
    BY <2>0, <2>1 DEF Recorded, Sweeping
  <2>3. QED
    BY <1>s, <2>0, <2>1, <2>2 DEF TrackedAt, Copying
<1>6. ~(SweepDone(p) \/ GcRead(p) \/ GcLock(p) \/ GcRemove(p) \/ GcSkip(p) \/ GcDone(p))
  BY DEF SweepDone, GcRead, GcLock, GcRemove, GcSkip, GcDone, NextEntry, GoTo, Sweeping
<1>7. ~(BirthRead(p) \/ BirthWrite(p) \/ TouchMarker(p) \/ Attach(p) \/ TouchRead(p) \/ Exit(p))
  BY <1>g DEF BirthRead, BirthWrite, TouchMarker, Attach, TouchRead, Exit, GoTo, Sweeping, Beating,
     agents
<1>8. ~(TouchWrite(p) \/ CheckpointRead(p) \/ CheckpointWrite(p) \/ Shutdown(p) \/ StopHeartbeat(p))
  BY DEF TouchWrite, CheckpointRead, CheckpointWrite, Shutdown, StopHeartbeat, GoTo, Sweeping,
     Control, Beating
<1>9. ~(DeathRead(p) \/ DeathShutting(p) \/ DeathDead(p))
  BY DEF DeathRead, DeathShutting, DeathDead, DeathWrite, GoTo, Sweeping
<1>10. QED
  BY <1>0, <1>1, <1>2, <1>3, <1>4, <1>5, <1>6, <1>7, <1>8, <1>9 DEF Agent

(* The first pass ends with nothing left to visit.                         *)
LEMMA GcEntered ==
    ASSUME TypeInv, NEW p \in Procs, Agent(p), pc[p] \in Sweeping, pc'[p] = "gc"
    PROVE  pc[p] = "sweep" /\ todo[p] = {}
<1> USE DEF TypeInv, TypeOK
<1>g. ~Gone({p})
  BY DEF Gone
<1>1. ~(SweepRead(p) \/ SweepProbe(p) \/ SweepJudge(p) \/ SweepMark(p) \/ SweepSkip(p))
  BY DEF SweepRead, SweepProbe, SweepJudge, SweepMark, SweepSkip, NextEntry, GoTo
<1>2. pc[p] \notin {"down", "gc", "gclock", "gcremove", "birth", "write", "attach", "locking", "starting", "run",
                    "closing", "death", "shutting", "dying"}
  BY DEF Sweeping
<1>3. CASE SweepDone(p)
  BY <1>3 DEF SweepDone
<1>4. QED
  BY <1>g, <1>1, <1>2, <1>3 DEF Agent, StartAgent, GcRead, GcLock, GcRemove, GcSkip, GcDone,
     BirthRead, BirthWrite, TouchMarker, Attach, TouchRead, TouchWrite, CheckpointRead,
     CheckpointWrite, Shutdown, StopHeartbeat, DeathRead, DeathShutting, DeathDead, DeathWrite,
     Exit, Control, Beating

LEMMA TrackedStep ==
    ASSUME TypeInv, Locks, Tracked, Next, NEW p \in Procs, pc'[p] \in Sweeping
    PROVE  TrackedAt(p)'
<1>0. \A q \in Procs \ {p} : Agent(q) => boot' = boot /\ Same(p)
  <2>1. ASSUME NEW q \in Procs, Agent(q) PROVE boot' = boot
    <3>1. CASE \/ StartAgent(q) \/ SweepRead(q) \/ SweepProbe(q) \/ SweepJudge(q) \/ SweepMark(q)
               \/ SweepSkip(q) \/ SweepDone(q)
      BY <3>1 DEF StartAgent, SweepRead, SweepProbe, SweepJudge, SweepMark, SweepSkip, SweepDone,
         disk
    <3>2. CASE GcRead(q) \/ GcLock(q) \/ GcRemove(q) \/ GcSkip(q) \/ GcDone(q)
      BY <3>2 DEF GcRead, GcLock, GcRemove, GcSkip, GcDone, disk
    <3>3. CASE BirthRead(q) \/ BirthWrite(q) \/ TouchMarker(q) \/ Attach(q) \/ TouchRead(q)
      BY <3>3 DEF BirthRead, BirthWrite, TouchMarker, Attach, TouchRead
    <3>4. CASE \/ TouchWrite(q) \/ CheckpointRead(q) \/ CheckpointWrite(q) \/ Shutdown(q)
               \/ StopHeartbeat(q) \/ DeathRead(q) \/ DeathShutting(q) \/ DeathDead(q) \/ Exit(q)
      BY <3>4 DEF TouchWrite, CheckpointRead, CheckpointWrite, Shutdown, StopHeartbeat, DeathRead,
         DeathShutting, DeathDead, DeathWrite, Exit, disk
    <3>5. QED
      BY <2>1, <3>1, <3>2, <3>3, <3>4 DEF Agent
  <2>2. QED
    BY <2>1, OthersKept
<1>1. CASE Agent(p)
  BY <1>1, TrackedMoves DEF Tracked
<1>2. ASSUME boot' = boot, pc'[p] = pc[p], todo'[p] = todo[p], cur'[p] = cur[p],
             copy'[p] = IF Tick THEN Older(copy[p]) ELSE copy[p]
      PROVE  TrackedAt(p)'
  <2>1. pc[p] \in Sweeping /\ TrackedAt(p)
    BY <1>2 DEF Tracked
  <2>2. missed[p] \subseteq Brains
    BY <2>1 DEF TrackedAt, TypeInv, TypeOK, Control, Sweeping, Copying
  <2>3. QED
    BY <1>2, <2>1, <2>2, TrackedWaits
<1>3. CASE Tick
  BY <1>2, <1>3 DEF Tick
<1>4. CASE ~Tick /\ Command
  <2>1. boot' = boot
    BY <1>4 DEF Command, CliStart, CliJudge, CliAliveEligible, CliLock, CliRemove, CliExit, disk
  <2>2. QED
    BY <1>2, <1>4, <2>1, CommandKeepsAgents DEF agents
<1>5. CASE ~Tick /\ \E q \in Procs \ {p} : Agent(q)
  BY <1>0, <1>2, <1>5 DEF Same
<1>6. ~Reboot
  BY DEF Reboot, Gone, Sweeping
<1>7. QED
  BY <1>1, <1>3, <1>4, <1>5, <1>6 DEF Next

LEMMA NoCorpseStep ==
    ASSUME TypeInv, Tracked, SweepLeavesNoCorpse, Next, NEW p \in Procs, pc'[p] = "gc"
    PROVE  missed'[p] = {}
<1>1. CASE pc[p] \notin Sweeping
  <2>1. ~(pc[p] = "down" /\ pc'[p] = "sweep")
    OBVIOUS
  <2>2. QED
    BY <1>1, <2>1, NextRecorded DEF Recorded
<1>2. CASE pc[p] \in Sweeping
  <2>1. missed'[p] \subseteq missed[p]
    BY <1>2, MissedStep
  <2>2. pc[p] # pc'[p]
    BY <1>2 DEF Sweeping
  <2>3. Agent(p)
    BY <2>2, OthersKept, CommandKeepsAgents DEF Next, Same, agents, Tick, Reboot, Gone
  <2>4. pc[p] = "sweep" /\ todo[p] = {}
    BY <1>2, <2>3, GcEntered
  <2>5. QED
    BY <1>2, <2>1, <2>4 DEF Tracked, TrackedAt
<1>3. QED
  BY <1>1, <1>2

LEMMA SweepStep == SweepInv /\ TypeInv' /\ [Next]_vars => SweepInv'
<1> SUFFICES ASSUME SweepInv, TypeInv', [Next]_vars PROVE SweepInv'
  OBVIOUS
<1> USE DEF SweepInv
<1>1. CASE UNCHANGED vars
  <2>1. Locks' /\ SweepLeavesNoCorpse'
    BY <1>1 DEF Locks, SweepLeavesNoCorpse, vars, disk, agents, hist
  <2>2. Tracked'
    BY <1>1 DEF Tracked, TrackedAt, Corpse, ProcessAlive, vars, disk, agents, hist
  <2>3. QED
    BY <2>1, <2>2
<1>2. CASE Next
  BY <1>2, LocksStep, TrackedStep, NoCorpseStep DEF Tracked, SweepLeavesNoCorpse
<1>3. QED
  BY <1>1, <1>2

(* A brain that was orphaned when a sweep listed the directory, that       *)
(* nobody touched meanwhile and on which the sweep met no error, is not    *)
(* alive when the first pass is over, whatever the sweep stumbled on       *)
(* elsewhere (recovery.go Recover).                                        *)
THEOREM SweepLeavesNoCorpseHolds == Spec => []SweepLeavesNoCorpse
<1>1. Init => SweepInv
  <2>1. ASSUME Init PROVE Locks /\ Tracked /\ SweepLeavesNoCorpse
    BY <2>1, LifecycleAssumption DEF Init, Locks, Tracked, SweepLeavesNoCorpse, Sweeping
  <2>2. QED
    BY <2>1, TypeInit DEF SweepInv
<1>2. SweepInv => TypeInv /\ SweepLeavesNoCorpse
  BY DEF SweepInv
<1>3. QED
  BY <1>1, <1>2, TypeStep, SweepStep, PTL DEF Spec
=============================================================================
