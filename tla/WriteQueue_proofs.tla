------------------------- MODULE WriteQueue_proofs -------------------------
(***************************************************************************)
(* Proofs about the write-ahead queue for any number of writes, callers,   *)
(* drainers, operators, calls and crashes.                                 *)
(*                                                                         *)
(* QueuedIsDurable is not inductive: a call about to report "Queued" and a *)
(* pass about to delete a row act on what they learned earlier.  IInv adds *)
(* what links that local state to the table: an id names one write for     *)
(* good, a call holds the id of its own write, and whoever is about to     *)
(* delete a row has seen the daemon accept that very write.                *)
(***************************************************************************)
EXTENDS WriteQueue, TLAPS

(* Writes that are in no danger of being lost. *)
Safe(k) == Present(k) \/ k \in delivered \/ k \in cleared

IdsInv ==
    /\ \A k \in Keys : rows[k].id < nextId
    /\ \A j, k \in Keys : rows[j].id = rows[k].id /\ rows[j].id # 0 => j = k

(* A call in flight holds the id of its own write; it will report "Queued"  *)
(* only for a safe write and delete only a delivered one.                  *)
WriterOK(w) ==
    /\ writer[w].pc \in {"attempt", "mark", "delete"} =>
          /\ writer[w].id \in Nat \ {0}
          /\ writer[w].id < nextId
          /\ \A k \in Keys : rows[k].id = writer[w].id => k = writer[w].key
    /\ writer[w].pc \in {"attempt", "mark"} => Safe(writer[w].key)
    /\ writer[w].pc = "delete" => writer[w].key \in delivered

(* So does every item of a pass, and the one marked sent was delivered.    *)
PassOK(d) ==
    /\ \A it \in drainer[d].batch :
          /\ it.id \in Nat \ {0}
          /\ it.id < nextId
          /\ \A k \in Keys : rows[k].id = it.id => k = it.key
          /\ \A other \in drainer[d].batch : other.id = it.id => other = it
    /\ drainer[d].pc = "sent" =>
          \A it \in drainer[d].batch : IsHead(d, it) => it.key \in delivered

IInv ==
    /\ TypeOK
    /\ IdsInv
    /\ \A w \in Writers : WriterOK(w)
    /\ \A d \in Passes : PassOK(d)
    /\ QueuedIsDurable

-----------------------------------------------------------------------------
(* Typing.                                                                 *)

(* The idle states and the empty row are well typed.                       *)
LEMMA ConstantTypes ==
    /\ NoRow \in Row
    /\ IdleWriter \in Writer
    /\ IdleDrainer \in Drainer
<1>1. NoRow \in Row
  BY DEF NoRow, Row
<1>2. (CHOOSE k \in Keys : TRUE) \in Keys
  BY KeysAssumption DEF Keys
<1>3. IdleWriter \in Writer
  BY <1>2 DEF IdleWriter, Writer, WriterPC
<1>4. IdleDrainer \in Drainer
  BY DEF IdleDrainer, Drainer, DrainerPC
<1>5. QED
  BY <1>1, <1>3, <1>4

(* Path of a staged blob, and the paths rows and orphans name.             *)
LEMMA PathTypes ==
    ASSUME TypeOK
    PROVE  /\ \A k \in Keys, e \in Exts : StagedPath(k, e) \in SUBSET Paths
           /\ \A id : StagedOf(id) \in SUBSET Paths
           /\ Orphans \in SUBSET Paths
<1>1. \A k \in Keys, e \in Exts : StagedPath(k, e) \in SUBSET Paths
  BY DEF StagedPath, Paths
<1>2. \A id : StagedOf(id) \in SUBSET Paths
  BY DEF StagedOf, TypeOK, Row
<1>3. Orphans \in SUBSET Paths
  BY DEF Orphans
<1>4. QED
  BY <1>1, <1>2, <1>3

(* A marked row is a row, with the id it had.                              *)
LEMMA MarkedRow ==
    ASSUME NEW r \in Row
    PROVE  /\ [r EXCEPT !.attempts = @ + 1, !.waiting = TRUE,
                        !.claimed = FALSE] \in Row
           /\ [r EXCEPT !.attempts = @ + 1, !.waiting = TRUE,
                        !.claimed = FALSE].id = r.id
<1>1. \A n \in Nat :
        /\ [r EXCEPT !.attempts = n, !.waiting = TRUE, !.claimed = FALSE] \in Row
        /\ [r EXCEPT !.attempts = n, !.waiting = TRUE, !.claimed = FALSE].id = r.id
  BY DEF Row
<1>2. r.attempts + 1 \in Nat
  BY DEF Row
<1>3. QED
  BY <1>1, <1>2, Zenon

(* So is a dead-lettered one.                                              *)
LEMMA DeadRow ==
    ASSUME NEW r \in Row
    PROVE  /\ [r EXCEPT !.attempts = @ + 1, !.waiting = TRUE,
                        !.claimed = FALSE, !.dead = TRUE] \in Row
           /\ [r EXCEPT !.attempts = @ + 1, !.waiting = TRUE,
                        !.claimed = FALSE, !.dead = TRUE].id = r.id
<1>1. \A n \in Nat :
        /\ [r EXCEPT !.attempts = n, !.waiting = TRUE, !.claimed = FALSE,
                     !.dead = TRUE] \in Row
        /\ [r EXCEPT !.attempts = n, !.waiting = TRUE, !.claimed = FALSE,
                     !.dead = TRUE].id = r.id
  BY DEF Row
<1>2. r.attempts + 1 \in Nat
  BY DEF Row
<1>3. QED
  BY <1>1, <1>2, Zenon

(* What each operation on the table and the directory leaves well typed.   *)
LEMMA StoreTypes ==
    ASSUME TypeOK, NEW id
    PROVE  /\ MarkAttempt(id) => rows' \in [Keys -> Row]
           /\ MarkDead(id) => rows' \in [Keys -> Row]
           /\ DeleteRow(id) => rows' \in [Keys -> Row]
           /\ \A S : RemoveFiles(S) => files' \in [Paths -> FileState]
<1>1. \A k \in Keys : rows[k] \in Row
  BY DEF TypeOK
<1>2. \A k \in Keys :
        [rows[k] EXCEPT !.attempts = @ + 1, !.waiting = TRUE,
                        !.claimed = FALSE] \in Row
  BY <1>1, MarkedRow
<1>3. MarkAttempt(id) => rows' \in [Keys -> Row]
  BY <1>1, <1>2, Zenon DEF MarkAttempt
<1>4. \A k \in Keys :
        [rows[k] EXCEPT !.attempts = @ + 1, !.waiting = TRUE,
                        !.claimed = FALSE, !.dead = TRUE] \in Row
  BY <1>1, DeadRow
<1>5. MarkDead(id) => rows' \in [Keys -> Row]
  BY <1>1, <1>4, Zenon DEF MarkDead
<1>6. DeleteRow(id) => rows' \in [Keys -> Row]
  BY <1>1, ConstantTypes DEF DeleteRow
<1>7. \A S : RemoveFiles(S) => files' \in [Paths -> FileState]
  BY DEF RemoveFiles, TypeOK, FileState
<1>8. QED
  BY <1>3, <1>5, <1>6, <1>7

(* Every step keeps the types.                                             *)
LEMMA TypeStep == TypeOK /\ [Next]_vars => TypeOK'
<1> SUFFICES ASSUME TypeOK, [Next]_vars PROVE TypeOK'
  OBVIOUS
<1> USE ConstantTypes, PathTypes DEF TypeOK
<1>1. ASSUME NEW w \in Writers, NEW k \in Keys, NEW e \in Exts, StartCall(w, k, e)
      PROVE  TypeOK'
  <2>1. files' \in [Paths -> FileState]
    BY <1>1 DEF StartCall, FileState
  <2>2. writer' \in [Writers -> Writer]
    BY <1>1 DEF StartCall, Writer, WriterPC
  <2>3. QED
    BY <1>1, <2>1, <2>2, BoundsAssumption DEF StartCall
<1>2. ASSUME NEW w \in Writers, WriterStep(w)
      PROVE  TypeOK'
  <2>1. CASE FinishStaging(w)
    BY <2>1 DEF FinishStaging, Writer, WriterPC, FileState, bounds
  <2>2. CASE InsertRow(w)
    <3>1. [NoRow EXCEPT !.id = nextId, !.staged = writer[w].staged] \in Row
      BY DEF NoRow, Row, Writer
    <3>2. rows' \in [Keys -> Row]
      BY <2>2, <3>1 DEF InsertRow, Writer
    <3>3. writer' \in [Writers -> Writer]
      BY <2>2 DEF InsertRow, Writer, WriterPC
    <3>4. QED
      BY <2>2, <3>2, <3>3 DEF InsertRow, bounds
  <2>3. CASE InsertCollides(w)
    BY <2>3 DEF InsertCollides, Writer, WriterPC, bounds, shared
  <2>4. CASE InsertFails(w)
    BY <2>4 DEF InsertFails, Writer, WriterPC, bounds, shared
  <2>5. CASE AdoptExisting(w)
    <3>1. rows[writer[w].key].id \in Nat
      BY DEF Writer, Row
    <3>2. writer' \in [Writers -> Writer]
      BY <2>5, <3>1 DEF AdoptExisting, Writer, WriterPC
    <3>3. QED
      BY <2>5, <3>2 DEF AdoptExisting, bounds, shared
  <2>6. CASE UndoStaging(w)
    BY <2>6, StoreTypes DEF UndoStaging, bounds
  <2>7. CASE AttemptSucceeds(w)
    BY <2>7 DEF AttemptSucceeds, Writer, WriterPC, bounds, shared
  <2>8. CASE AttemptFails(w)
    BY <2>8 DEF AttemptFails, Writer, WriterPC, bounds, shared
  <2>9. CASE ReportQueued(w)
    <3>1. rows' \in [Keys -> Row]
      BY <2>9, StoreTypes DEF ReportQueued
    <3>2. QED
      BY <2>9, <3>1 DEF ReportQueued, Writer, bounds
  <2>10. CASE DropPosted(w)
    BY <2>10, StoreTypes DEF DropPosted, Writer, WriterPC, bounds
  <2>11. CASE UnlinkPosted(w)
    BY <2>11, StoreTypes DEF UnlinkPosted, bounds
  <2>12. CASE DropDuplicate(w)
    BY <2>12, StoreTypes DEF DropDuplicate, Writer, WriterPC, bounds
  <2>13. CASE LookupFails(w)
    BY <2>13 DEF LookupFails, Writer, WriterPC, bounds, shared
  <2>14. QED
    BY <1>2, <2>1, <2>2, <2>3, <2>4, <2>5, <2>6, <2>7, <2>8, <2>9, <2>10, <2>11, <2>12, <2>13
       DEF WriterStep
<1>3. ASSUME NEW w \in Writers, CrashWriter(w)
      PROVE  TypeOK'
  BY <1>3 DEF CrashWriter, shared
<1>4. ASSUME NEW d \in Passes, NextEligible(d)
      PROVE  TypeOK'
  <2>1. \A k \in Keys : ItemOf(k) \in Item
    BY DEF ItemOf, Item, Row
  <2>2. Claimable \subseteq Keys
    BY DEF Claimable, Oldest
  <2>3. drainer' \in [Passes -> Drainer]
    BY <1>4, <2>1, <2>2 DEF NextEligible, Drainer, DrainerPC
  <2>4. rows' \in [Keys -> Row]
    BY <1>4 DEF NextEligible, Row
  <2>5. cliRuns' \in Nat
    BY <1>4 DEF NextEligible
  <2>6. QED
    BY <1>4, <2>3, <2>4, <2>5 DEF NextEligible
<1>5. ASSUME NEW d \in Passes, PassStep(d)
      PROVE  TypeOK'
  <2>1. CASE DispatchOK(d)
    BY <2>1 DEF DispatchOK, Drainer, DrainerPC, Item, bounds, shared
  <2>2. CASE DispatchFails(d)
    BY <2>2 DEF DispatchFails, AfterFailure, Drainer, DrainerPC, Item, bounds, shared
  <2>3. CASE SettleRetry(d)
    BY <2>3, StoreTypes DEF SettleRetry, Drainer, DrainerPC, bounds
  <2>4. CASE SettleDead(d)
    BY <2>4, StoreTypes DEF SettleDead, Drainer, DrainerPC, bounds
  <2>5. CASE SettleSent(d)
    BY <2>5, StoreTypes DEF SettleSent, Drainer, DrainerPC, bounds
  <2>6. CASE UnlinkSent(d)
    BY <2>6, StoreTypes DEF UnlinkSent, Drainer, DrainerPC, bounds
  <2>7. CASE CleanupScan(d)
    BY <2>7 DEF CleanupScan, Drainer, DrainerPC, bounds, shared
  <2>8. CASE CleanupRemove(d)
    BY <2>8, StoreTypes DEF CleanupRemove, bounds
  <2>9. CASE CliDone(d)
    BY <2>9 DEF CliDone, bounds, shared
  <2>10. CASE ClearFiles(d)
    BY <2>10, StoreTypes DEF ClearFiles, bounds
  <2>11. QED
    BY <1>5, <2>1, <2>2, <2>3, <2>4, <2>5, <2>6, <2>7, <2>8, <2>9, <2>10 DEF PassStep
<1>6. ASSUME NEW d \in Passes, ClearRows(d)
      PROVE  TypeOK'
  BY <1>6 DEF ClearRows, Drainer, DrainerPC
<1>7. ASSUME NEW d \in Passes, SettleFails(d)
      PROVE  TypeOK'
  BY <1>7 DEF SettleFails, Drainer, DrainerPC, shared
<1>8. ASSUME NEW d \in Passes, CrashDrainer(d)
      PROVE  TypeOK'
  BY <1>8 DEF CrashDrainer, shared
<1>9. ASSUME NEW k \in Keys, ClaimExpires(k) \/ BackoffElapses(k)
      PROVE  TypeOK'
  <2>1. CASE ClaimExpires(k)
    BY <2>1 DEF ClaimExpires, Row, bounds
  <2>2. CASE BackoffElapses(k)
    BY <2>2 DEF BackoffElapses, Row, bounds
  <2>3. QED
    BY <1>9, <2>1, <2>2
<1>10. CASE UNCHANGED vars
  BY <1>10 DEF vars
<1>11. QED
  BY <1>1, <1>2, <1>3, <1>4, <1>5, <1>6, <1>7, <1>8, <1>9, <1>10 DEF Next

(* The queue's variables keep their types.                                 *)
THEOREM TypeCorrect == Spec => []TypeOK
<1>1. Init => TypeOK
  BY ConstantTypes DEF Init, TypeOK, FileState
<1>2. QED
  BY <1>1, TypeStep, PTL DEF Spec

-----------------------------------------------------------------------------
(* How the table evolves, whoever acts: ids only grow, an id that was      *)
(* handed out never names another row, and no safe write is lost.          *)
Evolves ==
    /\ nextId \in Nat /\ nextId' \in Nat /\ nextId <= nextId'
    /\ delivered \subseteq delivered'
    /\ \A k \in Keys : Safe(k) => Safe(k)'
    /\ \A n \in Nat \ {0} : n < nextId =>
          \A k \in Keys : rows'[k].id = n => rows[k].id = n
    /\ IdsInv'

(* A step that inserts nothing evolves the table if every row it removes   *)
(* is delivered or cleared.                                                *)
LEMMA EvolvesWithoutInsert ==
    ASSUME TypeOK, IdsInv,
           nextId' = nextId, delivered \subseteq delivered', cleared \subseteq cleared',
           rows' \in [Keys -> Row],
           \A k \in Keys : \/ rows'[k].id = rows[k].id
                           \/ rows'[k].id = 0 /\ k \in delivered' \cup cleared'
    PROVE  Evolves
  BY DEF Evolves, IdsInv, Safe, Present, TypeOK, Row

(* Marking and deleting rows by id.                                        *)
LEMMA IdsAfterUpdate ==
    ASSUME TypeOK, NEW id \in Nat \ {0}
    PROVE  /\ MarkAttempt(id) => \A k \in Keys : rows'[k].id = rows[k].id
           /\ MarkDead(id) => \A k \in Keys : rows'[k].id = rows[k].id
           /\ DeleteRow(id) =>
                \A k \in Keys : \/ rows'[k].id = rows[k].id
                                \/ rows'[k].id = 0 /\ rows[k].id = id
<1>0. \A k \in Keys : rows[k] \in Row
  BY DEF TypeOK
<1>1. MarkAttempt(id) => \A k \in Keys : rows'[k].id = rows[k].id
  <2>1. \A k \in Keys : [rows[k] EXCEPT !.attempts = @ + 1, !.waiting = TRUE,
                                        !.claimed = FALSE].id = rows[k].id
    BY <1>0, MarkedRow
  <2>2. QED
    BY <2>1 DEF MarkAttempt
<1>2. MarkDead(id) => \A k \in Keys : rows'[k].id = rows[k].id
  <2>1. \A k \in Keys : [rows[k] EXCEPT !.attempts = @ + 1, !.waiting = TRUE,
                                        !.claimed = FALSE, !.dead = TRUE].id = rows[k].id
    BY <1>0, DeadRow
  <2>2. QED
    BY <2>1 DEF MarkDead
<1>3. DeleteRow(id) => \A k \in Keys : \/ rows'[k].id = rows[k].id
                                       \/ rows'[k].id = 0 /\ rows[k].id = id
  BY DEF DeleteRow, NoRow
<1>4. QED
  BY <1>1, <1>2, <1>3

(* Every step, of every actor, lets the table evolve this way: ids are     *)
(* only handed out upwards and a row goes only when its write is safe.     *)
LEMMA EvolvesStep == IInv /\ [Next]_vars => Evolves
<1> SUFFICES ASSUME IInv, [Next]_vars PROVE Evolves
  OBVIOUS
<1> USE DEF IInv
<1>0. TypeOK'
  BY TypeStep
<1>t. rows' \in [Keys -> Row] /\ nextId \in Nat /\ nextId' \in Nat
  BY <1>0 DEF TypeOK
<1>s. ASSUME nextId' = nextId, rows' = rows, delivered \subseteq delivered',
             cleared \subseteq cleared'
      PROVE  Evolves
  BY <1>s, <1>t, EvolvesWithoutInsert
<1>1. ASSUME NEW w \in Writers, NEW k \in Keys, NEW e \in Exts, StartCall(w, k, e)
      PROVE  Evolves
  BY <1>1, <1>s DEF StartCall
<1>2. ASSUME NEW w \in Writers, WriterStep(w)
      PROVE  Evolves
  <2>1. CASE FinishStaging(w) \/ DropDuplicate(w) \/ UndoStaging(w) \/ UnlinkPosted(w)
    BY <2>1, <1>s DEF FinishStaging, DropDuplicate, UndoStaging, UnlinkPosted
  <2>2. CASE InsertRow(w)
    <3> DEFINE key == writer[w].key
    <3>1. key \in Keys
      BY DEF TypeOK, Writer
    <3>2. /\ \A k \in Keys \ {key} : rows'[k] = rows[k]
          /\ rows'[key].id = nextId
          /\ nextId' = nextId + 1 /\ delivered' = delivered /\ cleared' = cleared
      BY <2>2, <3>1 DEF InsertRow, TypeOK, NoRow
    <3>3. nextId # 0 /\ \A k \in Keys : rows[k].id \in Nat
      BY DEF TypeOK, Row
    <3>4. QED
      BY <3>1, <3>2, <3>3, <1>t DEF Evolves, IdsInv, Safe, Present
  <2>3. CASE InsertCollides(w) \/ InsertFails(w) \/ AdoptExisting(w) \/ LookupFails(w)
    BY <2>3, <1>s DEF InsertCollides, InsertFails, AdoptExisting, LookupFails, shared
  <2>4. CASE AttemptSucceeds(w) \/ AttemptFails(w)
    BY <2>4, <1>s DEF AttemptSucceeds, AttemptFails, shared
  <2>5. CASE ReportQueued(w)
    <3>1. writer[w].id \in Nat \ {0}
      BY <2>5 DEF ReportQueued, WriterOK
    <3>2. \A k \in Keys : rows'[k].id = rows[k].id
      BY <2>5, <3>1, IdsAfterUpdate DEF ReportQueued
    <3>3. QED
      BY <2>5, <3>2, <1>t, EvolvesWithoutInsert DEF ReportQueued
  <2>6. CASE DropPosted(w)
    <3>1. /\ writer[w].id \in Nat \ {0}
          /\ \A k \in Keys : rows[k].id = writer[w].id => k \in delivered
      BY <2>6 DEF DropPosted, WriterOK
    <3>2. \A k \in Keys : \/ rows'[k].id = rows[k].id
                          \/ rows'[k].id = 0 /\ k \in delivered
      BY <2>6, <3>1, IdsAfterUpdate DEF DropPosted
    <3>3. QED
      BY <2>6, <3>2, <1>t, EvolvesWithoutInsert DEF DropPosted
  <2>7. QED
    BY <1>2, <2>1, <2>2, <2>3, <2>4, <2>5, <2>6 DEF WriterStep
<1>3. ASSUME NEW w \in Writers, CrashWriter(w)
      PROVE  Evolves
  BY <1>3, <1>s DEF CrashWriter, shared
<1>4. ASSUME NEW d \in Passes, NextEligible(d)
      PROVE  Evolves
  <2>1. \A k \in Keys : rows'[k].id = rows[k].id
    BY <1>4 DEF NextEligible, TypeOK, Row
  <2>2. QED
    BY <1>4, <2>1, <1>t, EvolvesWithoutInsert DEF NextEligible
<1>5. ASSUME NEW d \in Passes, PassStep(d)
      PROVE  Evolves
  <2>1. CASE DispatchOK(d) \/ DispatchFails(d)
    BY <2>1, <1>s DEF DispatchOK, DispatchFails, shared
  <2>2. CASE SettleRetry(d) \/ SettleDead(d)
    <3>1. PICK it \in drainer[d].batch : MarkAttempt(it.id) \/ MarkDead(it.id)
      BY <2>2 DEF SettleRetry, SettleDead
    <3>2. it.id \in Nat \ {0}
      BY <3>1 DEF PassOK
    <3>3. \A k \in Keys : rows'[k].id = rows[k].id
      BY <3>1, <3>2, IdsAfterUpdate
    <3>4. nextId' = nextId /\ delivered' = delivered /\ cleared' = cleared
      BY <2>2 DEF SettleRetry, SettleDead
    <3>5. QED
      BY <3>3, <3>4, <1>t, EvolvesWithoutInsert
  <2>3. CASE SettleSent(d)
    <3>1. PICK it \in drainer[d].batch : IsHead(d, it) /\ DeleteRow(it.id)
      BY <2>3 DEF SettleSent
    <3>2. /\ it.id \in Nat \ {0}
          /\ it.key \in delivered
          /\ \A k \in Keys : rows[k].id = it.id => k = it.key
      BY <2>3, <3>1 DEF PassOK, SettleSent
    <3>3. \A k \in Keys : \/ rows'[k].id = rows[k].id
                          \/ rows'[k].id = 0 /\ k \in delivered
      BY <3>1, <3>2, IdsAfterUpdate
    <3>4. nextId' = nextId /\ delivered' = delivered /\ cleared' = cleared
      BY <2>3 DEF SettleSent
    <3>5. QED
      BY <3>3, <3>4, <1>t, EvolvesWithoutInsert
  <2>4. CASE UnlinkSent(d) \/ CleanupRemove(d) \/ ClearFiles(d)
    BY <2>4, <1>s DEF UnlinkSent, CleanupRemove, ClearFiles
  <2>5. CASE CleanupScan(d) \/ CliDone(d)
    BY <2>5, <1>s DEF CleanupScan, CliDone, shared
  <2>6. QED
    BY <1>5, <2>1, <2>2, <2>3, <2>4, <2>5 DEF PassStep
<1>6. ASSUME NEW d \in Passes, ClearRows(d)
      PROVE  Evolves
  <2>1. \A k \in Keys : \/ rows'[k].id = rows[k].id
                        \/ rows'[k].id = 0 /\ k \in cleared'
    BY <1>6 DEF ClearRows, NoRow, Present
  <2>2. QED
    BY <1>6, <2>1, <1>t, EvolvesWithoutInsert DEF ClearRows
<1>7. ASSUME NEW d \in Passes, SettleFails(d) \/ CrashDrainer(d)
      PROVE  Evolves
  BY <1>7, <1>s DEF SettleFails, CrashDrainer, shared
<1>8. ASSUME NEW k \in Keys, ClaimExpires(k) \/ BackoffElapses(k)
      PROVE  Evolves
  <2>1. \A j \in Keys : rows'[j].id = rows[j].id
    BY <1>8 DEF ClaimExpires, BackoffElapses, TypeOK, Row
  <2>2. nextId' = nextId /\ delivered' = delivered /\ cleared' = cleared
    BY <1>8 DEF ClaimExpires, BackoffElapses
  <2>3. QED
    BY <2>1, <2>2, <1>t, EvolvesWithoutInsert
<1>9. CASE UNCHANGED vars
  BY <1>9, <1>s DEF vars
<1>10. QED
  BY <1>1, <1>2, <1>3, <1>4, <1>5, <1>6, <1>7, <1>8, <1>9 DEF Next

-----------------------------------------------------------------------------
(* The invariant is inductive.                                             *)

(* An actor that does not move keeps its part of the invariant.            *)
LEMMA OthersKept ==
    ASSUME IInv, Evolves
    PROVE  /\ \A w \in Writers : writer'[w] = writer[w] => WriterOK(w)'
           /\ \A d \in Passes : drainer'[d] = drainer[d] => PassOK(d)'
           /\ queued' = queued => QueuedIsDurable'
<1> USE DEF IInv, Evolves
<1>1. ASSUME NEW w \in Writers, writer'[w] = writer[w]
      PROVE  WriterOK(w)'
  <2>1. WriterOK(w) /\ writer[w].key \in Keys
    BY DEF TypeOK, Writer
  <2>2. QED
    BY <1>1, <2>1 DEF WriterOK
<1>2. ASSUME NEW d \in Passes, drainer'[d] = drainer[d]
      PROVE  PassOK(d)'
  <2>1. PassOK(d)
    OBVIOUS
  <2>2. QED
    BY <1>2, <2>1 DEF PassOK, IsHead
<1>3. queued' = queued => QueuedIsDurable'
  BY DEF QueuedIsDurable, Safe, TypeOK
<1>4. QED
  BY <1>1, <1>2, <1>3

(* The inductive step: each operation of a writer, a pass, an operator or  *)
(* the clock preserves IInv.                                               *)
LEMMA IInvStep == IInv /\ [Next]_vars => IInv'
<1> SUFFICES ASSUME IInv, [Next]_vars PROVE IInv'
  OBVIOUS
<1>t. TypeOK /\ TypeOK'
  BY TypeStep DEF IInv
<1>e. Evolves
  BY EvolvesStep
<1>i. IdsInv'
  BY <1>e DEF Evolves
<1>o. /\ \A w \in Writers : writer'[w] = writer[w] => WriterOK(w)'
      /\ \A d \in Passes : drainer'[d] = drainer[d] => PassOK(d)'
      /\ queued' = queued => QueuedIsDurable'
  BY <1>e, OthersKept
(* A call or a pass that moves: its own part is what is left to show.      *)
<1>w. ASSUME NEW w \in Writers, drainer' = drainer, QueuedIsDurable',
             \A v \in Writers \ {w} : writer'[v] = writer[v], WriterOK(w)'
      PROVE  IInv'
  BY <1>w, <1>t, <1>i, <1>o DEF IInv
<1>d. ASSUME NEW d \in Passes, writer' = writer, queued' = queued,
             \A c \in Passes \ {d} : drainer'[c] = drainer[c], PassOK(d)'
      PROVE  IInv'
  BY <1>d, <1>t, <1>i, <1>o DEF IInv
<1>u. ASSUME writer' = writer, drainer' = drainer, queued' = queued
      PROVE  IInv'
  BY <1>u, <1>t, <1>i, <1>o DEF IInv
<1>1. ASSUME NEW w \in Writers, NEW k \in Keys, NEW e \in Exts, StartCall(w, k, e)
      PROVE  IInv'
  <2>1. WriterOK(w)'
    BY <1>1, <1>t DEF StartCall, WriterOK, TypeOK, Writer
  <2>2. QED
    BY <1>1, <2>1, <1>w, <1>o, <1>t DEF StartCall, TypeOK
<1>2. ASSUME NEW w \in Writers, WriterStep(w)
      PROVE  IInv'
  <2>1. CASE \/ FinishStaging(w) \/ InsertCollides(w) \/ InsertFails(w)
             \/ DropDuplicate(w) \/ LookupFails(w)
    <3>1. WriterOK(w)'
      BY <2>1, <1>t DEF FinishStaging, InsertCollides, InsertFails, DropDuplicate, LookupFails,
         WriterOK, TypeOK, Writer
    <3>2. QED
      BY <2>1, <3>1, <1>w, <1>o, <1>t
         DEF FinishStaging, InsertCollides, InsertFails, DropDuplicate, LookupFails, TypeOK
  <2>2. CASE InsertRow(w)
    <3>1. /\ writer'[w].pc = "attempt" /\ writer'[w].id = nextId
          /\ writer'[w].key = writer[w].key /\ writer[w].key \in Keys
          /\ rows'[writer[w].key].id = nextId
          /\ nextId' = nextId + 1 /\ nextId \in Nat \ {0}
      BY <2>2, <1>t DEF InsertRow, TypeOK, Writer, NoRow
    <3>2. WriterOK(w)'
      BY <3>1, <1>i DEF WriterOK, IdsInv, Safe, Present
    <3>3. QED
      BY <2>2, <3>2, <1>w, <1>o, <1>t DEF InsertRow, TypeOK
  <2>3. CASE AdoptExisting(w)
    <3>1. /\ writer'[w].pc = "attempt" /\ writer'[w].key = writer[w].key
          /\ writer'[w].id = rows[writer[w].key].id /\ writer[w].key \in Keys
          /\ rows' = rows /\ nextId' = nextId
          /\ rows[writer[w].key].id \in Nat \ {0}
      BY <2>3, <1>t DEF AdoptExisting, TypeOK, Writer, Row, Present, shared
    <3>2. WriterOK(w)'
      BY <3>1, <1>i DEF WriterOK, IdsInv, Safe, Present
    <3>3. QED
      BY <2>3, <3>2, <1>w, <1>o, <1>t DEF AdoptExisting, TypeOK
  <2>4. CASE UndoStaging(w) \/ UnlinkPosted(w)
    <3>1. WriterOK(w)'
      BY <2>4, <1>t DEF UndoStaging, UnlinkPosted, WriterOK, IdleWriter, TypeOK
    <3>2. QED
      BY <2>4, <3>1, <1>w, <1>o, <1>t DEF UndoStaging, UnlinkPosted, TypeOK
  <2>5. CASE AttemptSucceeds(w) \/ AttemptFails(w)
    <3>1. /\ writer[w].pc = "attempt" /\ rows' = rows /\ nextId' = nextId
          /\ writer'[w].id = writer[w].id /\ writer'[w].key = writer[w].key
          /\ writer[w].key \in Keys
          /\ \/ writer'[w].pc = "delete" /\ writer[w].key \in delivered'
             \/ writer'[w].pc = "mark"
      BY <2>5, <1>t DEF AttemptSucceeds, AttemptFails, TypeOK, Writer, shared
    <3>2. Safe(writer[w].key)'
      BY <3>1, <1>e DEF Evolves, IInv, WriterOK
    <3>3. WriterOK(w)'
      BY <3>1, <3>2 DEF IInv, WriterOK
    <3>4. QED
      BY <2>5, <3>3, <1>w, <1>o, <1>t DEF AttemptSucceeds, AttemptFails, TypeOK
  <2>6. CASE ReportQueued(w)
    <3>1. WriterOK(w)'
      BY <2>6, <1>t DEF ReportQueued, WriterOK, IdleWriter, TypeOK
    <3>2. Safe(writer[w].key) /\ writer[w].key \in Keys
      BY <2>6, <1>t DEF IInv, WriterOK, ReportQueued, TypeOK, Writer
    <3>3. QueuedIsDurable'
      BY <2>6, <3>2, <1>e DEF ReportQueued, Evolves, IInv, QueuedIsDurable, Safe, TypeOK
    <3>4. QED
      BY <2>6, <3>1, <3>3, <1>w, <1>t DEF ReportQueued, TypeOK
  <2>7. CASE DropPosted(w)
    <3>1. WriterOK(w)'
      BY <2>7, <1>t DEF DropPosted, WriterOK, TypeOK, Writer
    <3>2. QED
      BY <2>7, <3>1, <1>w, <1>o, <1>t DEF DropPosted, TypeOK
  <2>8. QED
    BY <1>2, <2>1, <2>2, <2>3, <2>4, <2>5, <2>6, <2>7 DEF WriterStep
<1>3. ASSUME NEW w \in Writers, CrashWriter(w)
      PROVE  IInv'
  <2>1. WriterOK(w)'
    BY <1>3, <1>t DEF CrashWriter, WriterOK, IdleWriter, TypeOK
  <2>2. QED
    BY <1>3, <2>1, <1>w, <1>o, <1>t DEF CrashWriter, TypeOK
<1>4. ASSUME NEW d \in Passes, NextEligible(d)
      PROVE  IInv'
  <2>1. Claimable \subseteq {k \in Keys : rows[k].id # 0}
    BY DEF Claimable, Oldest, Live, Present
  <2>2. drainer'[d].pc = "drain" /\ drainer'[d].batch = {ItemOf(k) : k \in Claimable}
    BY <1>4, <1>t DEF NextEligible, TypeOK
  <2>3. /\ nextId' = nextId
        /\ \A k \in Keys : rows'[k].id = rows[k].id /\ rows[k].id \in Nat
    BY <1>4, <1>t DEF NextEligible, TypeOK, Row
  <2>4. PassOK(d)'
    BY <2>1, <2>2, <2>3 DEF PassOK, ItemOf, IInv, IdsInv
  <2>5. QED
    BY <1>4, <2>4, <1>d, <1>t DEF NextEligible, TypeOK
<1>5. ASSUME NEW d \in Passes, PassStep(d)
      PROVE  IInv'
  <2>0. PassOK(d)
    BY DEF IInv
  <2>1. CASE DispatchOK(d)
    <3>1. PICK it \in drainer[d].batch : IsHead(d, it) /\ it.key \in delivered'
      BY <2>1 DEF DispatchOK
    <3>2. /\ drainer'[d].batch = drainer[d].batch
          /\ rows' = rows /\ nextId' = nextId
      BY <2>1, <1>t DEF DispatchOK, TypeOK, Drainer, shared
    <3>3. \A other \in drainer[d].batch : IsHead(d, other) => other = it
      <4>1. ASSUME NEW other \in drainer[d].batch, IsHead(d, other)
            PROVE  other = it
        <5>1. other.id <= it.id /\ it.id <= other.id
          BY <3>1, <4>1 DEF IsHead
        <5>2. other.id \in Nat /\ it.id \in Nat
          BY <2>0 DEF PassOK
        <5>3. QED
          BY <5>1, <5>2, <2>0 DEF PassOK
      <4>2. QED
        BY <4>1
    <3>4. PassOK(d)'
      BY <2>0, <3>1, <3>2, <3>3 DEF PassOK, IsHead
    <3>5. QED
      BY <2>1, <3>4, <1>d, <1>t DEF DispatchOK, TypeOK
  <2>2. CASE DispatchFails(d)
    <3>1. /\ drainer'[d].batch = drainer[d].batch /\ drainer'[d].pc # "sent"
          /\ rows' = rows /\ nextId' = nextId
      BY <2>2, <1>t DEF DispatchFails, AfterFailure, TypeOK, Drainer, shared
    <3>2. PassOK(d)'
      BY <2>0, <3>1 DEF PassOK
    <3>3. QED
      BY <2>2, <3>2, <1>d, <1>t DEF DispatchFails, TypeOK
  <2>3. CASE SettleRetry(d) \/ SettleDead(d) \/ SettleSent(d)
    <3>1. drainer'[d].batch \subseteq drainer[d].batch /\ drainer'[d].pc # "sent"
      BY <2>3, <1>t DEF SettleRetry, SettleDead, SettleSent, TypeOK, Drainer
    <3>2. PassOK(d)'
      BY <2>0, <3>1, <1>e DEF PassOK, Evolves
    <3>3. QED
      BY <2>3, <3>2, <1>d, <1>t DEF SettleRetry, SettleDead, SettleSent, TypeOK
  <2>4. CASE UnlinkSent(d)
    <3>1. /\ drainer'[d].batch = drainer[d].batch /\ drainer'[d].pc # "sent"
          /\ rows' = rows /\ nextId' = nextId
      BY <2>4, <1>t DEF UnlinkSent, TypeOK, Drainer
    <3>2. PassOK(d)'
      BY <2>0, <3>1 DEF PassOK
    <3>3. QED
      BY <2>4, <3>2, <1>d, <1>t DEF UnlinkSent, TypeOK
  <2>5. CASE CleanupScan(d) \/ CleanupRemove(d) \/ CliDone(d) \/ ClearFiles(d)
    <3>1. drainer'[d].batch = {} /\ drainer'[d].pc # "sent"
      BY <2>5, <1>t DEF CleanupScan, CleanupRemove, CliDone, ClearFiles, IdleDrainer, TypeOK
    <3>2. PassOK(d)'
      BY <3>1 DEF PassOK
    <3>3. QED
      BY <2>5, <3>2, <1>d, <1>t DEF CleanupScan, CleanupRemove, CliDone, ClearFiles, TypeOK
  <2>6. QED
    BY <1>5, <2>1, <2>2, <2>3, <2>4, <2>5 DEF PassStep
<1>6. ASSUME NEW d \in Passes, ClearRows(d) \/ SettleFails(d)
      PROVE  IInv'
  <2>1. drainer'[d].batch \subseteq drainer[d].batch /\ drainer'[d].pc # "sent"
    BY <1>6, <1>t DEF ClearRows, SettleFails, TypeOK, Drainer
  <2>2. PassOK(d)'
    BY <2>1, <1>e DEF IInv, PassOK, Evolves
  <2>3. QED
    BY <1>6, <2>2, <1>d, <1>t DEF ClearRows, SettleFails, TypeOK
<1>7. ASSUME NEW d \in Passes, CrashDrainer(d)
      PROVE  IInv'
  <2>1. PassOK(d)'
    BY <1>7, <1>t DEF CrashDrainer, IdleDrainer, PassOK, TypeOK
  <2>2. QED
    BY <1>7, <2>1, <1>d, <1>t DEF CrashDrainer, TypeOK
<1>8. ASSUME NEW k \in Keys, ClaimExpires(k) \/ BackoffElapses(k)
      PROVE  IInv'
  BY <1>8, <1>u DEF ClaimExpires, BackoffElapses
<1>9. CASE UNCHANGED vars
  BY <1>9, <1>u DEF vars
<1>10. QED
  BY <1>1, <1>2, <1>3, <1>4, <1>5, <1>6, <1>7, <1>8, <1>9 DEF Next

(* The empty table, with everyone idle, satisfies IInv.                    *)
LEMMA IInvInit == Init => IInv
<1> SUFFICES ASSUME Init PROVE IInv
  OBVIOUS
<1>1. TypeOK
  BY ConstantTypes DEF Init, TypeOK, FileState
<1>2. IdsInv
  BY DEF Init, IdsInv, NoRow
<1>3. \A w \in Writers : WriterOK(w)
  BY DEF Init, WriterOK, IdleWriter
<1>4. \A d \in Passes : PassOK(d)
  BY DEF Init, PassOK, IdleDrainer
<1>5. QueuedIsDurable
  BY DEF Init, QueuedIsDurable
<1>6. QED
  BY <1>1, <1>2, <1>3, <1>4, <1>5 DEF IInv

(* The inductive invariant holds in every reachable state.                 *)
THEOREM Invariance == Spec => []IInv
<1>1. QED
  BY IInvInit, IInvStep, PTL DEF Spec

(* No write reported as queued is ever lost: enqueueAndAttempt, DrainOnce, *)
(* drain-now and their crashes delete a row only for a delivered write.    *)
THEOREM QueuedDurable == Spec => []QueuedIsDurable
<1>1. IInv => QueuedIsDurable
  BY DEF IInv
<1>2. QED
  BY <1>1, Invariance, PTL

(* However late a pass settles, it settles the write it dispatched.        *)
THEOREM ItemsNamed == Spec => []ItemsNameTheirWrite
<1>1. IInv => ItemsNameTheirWrite
  BY DEF IInv, PassOK, ItemsNameTheirWrite
<1>2. QED
  BY <1>1, Invariance, PTL

-----------------------------------------------------------------------------
(* The queue implements the durable outbox.                                *)

Pending == {k \in Keys : Present(k)}

(* A step that keeps every id and tells nobody anything is a stutter, or   *)
(* a delivery when the daemon accepts a write in it.                       *)
LEMMA OutboxQuiet ==
    ASSUME \A k \in Keys : rows'[k].id = rows[k].id,
           queued' = queued, cleared' = cleared,
           \/ delivered' = delivered
           \/ \E k \in Keys : delivered' = delivered \cup {k}
    PROVE  [Outbox!OutboxNext]_(Outbox!outboxVars)
<1>1. Pending' = Pending
  BY DEF Pending, Present
<1>2. QED
  BY <1>1 DEF Pending, Outbox!OutboxNext, Outbox!Deliver, Outbox!outboxVars

(* Deleting the row of a delivered write retires it, or does nothing when  *)
(* the row is already gone.                                                *)
LEMMA OutboxRetire ==
    ASSUME TypeOK, NEW id \in Nat \ {0}, NEW key \in Keys, DeleteRow(id),
           \A k \in Keys : rows[k].id = id => k = key,
           key \in delivered, UNCHANGED <<delivered, queued, cleared>>
    PROVE  [Outbox!OutboxNext]_(Outbox!outboxVars)
<1>1. \A k \in Keys : rows'[k].id = IF rows[k].id = id THEN 0 ELSE rows[k].id
  BY DEF DeleteRow, NoRow
<1>2. CASE \E k \in Keys : rows[k].id = id
  <2>1. Pending' = Pending \ {key}
    BY <1>1, <1>2 DEF Pending, Present
  <2>2. QED
    BY <2>1 DEF Pending, Outbox!OutboxNext, Outbox!Retire
<1>3. CASE ~ \E k \in Keys : rows[k].id = id
  BY <1>1, <1>3, OutboxQuiet
<1>4. QED
  BY <1>2, <1>3

(* Every step of the queue is a step of the outbox or leaves it alone.     *)
LEMMA OutboxStep == IInv /\ [Next]_vars => [Outbox!OutboxNext]_(Outbox!outboxVars)
<1> SUFFICES ASSUME IInv, [Next]_vars PROVE [Outbox!OutboxNext]_(Outbox!outboxVars)
  OBVIOUS
<1>t. TypeOK
  BY DEF IInv
<1>1. ASSUME NEW w \in Writers, NEW k \in Keys, NEW e \in Exts, StartCall(w, k, e)
      PROVE  [Outbox!OutboxNext]_(Outbox!outboxVars)
  BY <1>1, OutboxQuiet DEF StartCall
<1>2. ASSUME NEW w \in Writers, WriterStep(w)
      PROVE  [Outbox!OutboxNext]_(Outbox!outboxVars)
  <2>k. writer[w].key \in Keys
    BY <1>t DEF TypeOK, Writer
  <2>1. CASE FinishStaging(w) \/ DropDuplicate(w) \/ UndoStaging(w) \/ UnlinkPosted(w)
    BY <2>1, OutboxQuiet DEF FinishStaging, DropDuplicate, UndoStaging, UnlinkPosted
  <2>2. CASE InsertCollides(w) \/ InsertFails(w) \/ AdoptExisting(w) \/ LookupFails(w)
    BY <2>2, OutboxQuiet DEF InsertCollides, InsertFails, AdoptExisting, LookupFails, shared
  <2>3. CASE InsertRow(w)
    <3>1. Pending' = Pending \cup {writer[w].key}
      <4>1. /\ \A k \in Keys \ {writer[w].key} : rows'[k] = rows[k]
            /\ rows'[writer[w].key].id = nextId /\ nextId # 0
        BY <2>3, <2>k, <1>t DEF InsertRow, TypeOK, NoRow
      <4>2. QED
        BY <4>1, <2>k DEF Pending, Present
    <3>2. QED
      BY <2>3, <2>k, <3>1 DEF InsertRow, Pending, Outbox!OutboxNext, Outbox!Hold
  <2>4. CASE AttemptSucceeds(w) \/ AttemptFails(w)
    BY <2>4, <2>k, OutboxQuiet DEF AttemptSucceeds, AttemptFails, shared
  <2>5. CASE ReportQueued(w)
    <3>1. /\ writer[w].id \in Nat \ {0} /\ Safe(writer[w].key)
      BY <2>5 DEF ReportQueued, IInv, WriterOK
    <3>2. Pending' = Pending
      BY <2>5, <3>1, <1>t, IdsAfterUpdate DEF ReportQueued, Pending, Present
    <3>3. QED
      BY <2>5, <2>k, <3>1, <3>2
         DEF ReportQueued, Safe, Pending, Outbox!OutboxNext, Outbox!Promise
  <2>6. CASE DropPosted(w)
    <3>1. /\ writer[w].id \in Nat \ {0} /\ writer[w].key \in delivered
          /\ \A k \in Keys : rows[k].id = writer[w].id => k = writer[w].key
      BY <2>6 DEF DropPosted, IInv, WriterOK
    <3>2. QED
      BY <2>6, <2>k, <3>1, <1>t, OutboxRetire DEF DropPosted
  <2>7. QED
    BY <1>2, <2>1, <2>2, <2>3, <2>4, <2>5, <2>6 DEF WriterStep
<1>3. ASSUME NEW w \in Writers, CrashWriter(w)
      PROVE  [Outbox!OutboxNext]_(Outbox!outboxVars)
  BY <1>3, OutboxQuiet DEF CrashWriter, shared
<1>4. ASSUME NEW d \in Passes, NextEligible(d)
      PROVE  [Outbox!OutboxNext]_(Outbox!outboxVars)
  <2>1. \A k \in Keys : rows'[k].id = rows[k].id
    BY <1>4, <1>t DEF NextEligible, TypeOK, Row
  <2>2. QED
    BY <1>4, <2>1, OutboxQuiet DEF NextEligible
<1>5. ASSUME NEW d \in Passes, PassStep(d)
      PROVE  [Outbox!OutboxNext]_(Outbox!outboxVars)
  <2>0. PassOK(d)
    BY DEF IInv
  <2>k. \A it \in drainer[d].batch : it.key \in Keys
    BY <1>t DEF TypeOK, Drainer, Item
  <2>1. CASE DispatchOK(d) \/ DispatchFails(d)
    <3>1. /\ rows' = rows /\ queued' = queued /\ cleared' = cleared
          /\ \/ delivered' = delivered
             \/ \E it \in drainer[d].batch : delivered' = delivered \cup {it.key}
      BY <2>1 DEF DispatchOK, DispatchFails, shared
    <3>2. QED
      BY <3>1, <2>k, OutboxQuiet
  <2>2. CASE SettleRetry(d) \/ SettleDead(d)
    <3>1. PICK it \in drainer[d].batch : MarkAttempt(it.id) \/ MarkDead(it.id)
      BY <2>2 DEF SettleRetry, SettleDead
    <3>2. \A k \in Keys : rows'[k].id = rows[k].id
      BY <3>1, <2>0, <1>t, IdsAfterUpdate DEF PassOK
    <3>3. UNCHANGED <<delivered, queued, cleared>>
      BY <2>2 DEF SettleRetry, SettleDead
    <3>4. QED
      BY <3>2, <3>3, OutboxQuiet
  <2>3. CASE SettleSent(d)
    <3>1. PICK it \in drainer[d].batch : IsHead(d, it) /\ DeleteRow(it.id)
      BY <2>3 DEF SettleSent
    <3>2. /\ it.id \in Nat \ {0} /\ it.key \in delivered
          /\ \A k \in Keys : rows[k].id = it.id => k = it.key
      BY <2>0, <2>3, <3>1 DEF PassOK, SettleSent
    <3>3. UNCHANGED <<delivered, queued, cleared>>
      BY <2>3 DEF SettleSent
    <3>4. QED
      BY <3>1, <3>2, <3>3, <2>k, <1>t, OutboxRetire
  <2>4. CASE UnlinkSent(d) \/ CleanupRemove(d) \/ ClearFiles(d)
    BY <2>4, OutboxQuiet DEF UnlinkSent, CleanupRemove, ClearFiles
  <2>5. CASE CleanupScan(d) \/ CliDone(d)
    BY <2>5, OutboxQuiet DEF CleanupScan, CliDone, shared
  <2>6. QED
    BY <1>5, <2>1, <2>2, <2>3, <2>4, <2>5 DEF PassStep
<1>6. ASSUME NEW d \in Passes, ClearRows(d)
      PROVE  [Outbox!OutboxNext]_(Outbox!outboxVars)
  <2>1. Pending' = {}
    BY <1>6 DEF ClearRows, Pending, Present, NoRow
  <2>2. cleared' = cleared \cup Pending
    BY <1>6 DEF ClearRows, Pending
  <2>3. QED
    BY <1>6, <2>1, <2>2 DEF ClearRows, Pending, Outbox!OutboxNext, Outbox!Discard
<1>7. ASSUME NEW d \in Passes, SettleFails(d) \/ CrashDrainer(d)
      PROVE  [Outbox!OutboxNext]_(Outbox!outboxVars)
  BY <1>7, OutboxQuiet DEF SettleFails, CrashDrainer, shared
<1>8. ASSUME NEW k \in Keys, ClaimExpires(k) \/ BackoffElapses(k)
      PROVE  [Outbox!OutboxNext]_(Outbox!outboxVars)
  <2>1. \A j \in Keys : rows'[j].id = rows[j].id
    BY <1>8, <1>t DEF ClaimExpires, BackoffElapses, TypeOK, Row
  <2>2. UNCHANGED <<delivered, queued, cleared>>
    BY <1>8 DEF ClaimExpires, BackoffElapses
  <2>3. QED
    BY <2>1, <2>2, OutboxQuiet
<1>9. CASE UNCHANGED vars
  BY <1>9, OutboxQuiet DEF vars
<1>10. QED
  BY <1>1, <1>2, <1>3, <1>4, <1>5, <1>6, <1>7, <1>8, <1>9 DEF Next

(* Every behaviour of the queue is a behaviour of the durable outbox:      *)
(* initial states map to its initial state, every step of a call, a pass,  *)
(* an operator or the clock to one of its steps or to a stutter.           *)
THEOREM RefinesOutbox == Spec => ImplementsOutbox
<1>1. Init => Outbox!OutboxInit
  BY DEF Init, Outbox!OutboxInit, Present, NoRow
<1>2. QED
  BY <1>1, OutboxStep, Invariance, PTL DEF Spec, ImplementsOutbox, Outbox!OutboxSpec

-----------------------------------------------------------------------------
(* Dead-lettered rows.                                                     *)

(* What a step may do to a dead row.                                       *)
DeadKept(k) ==
    (Present(k) /\ rows[k].dead) =>
        /\ rows'[k].claimed => rows[k].claimed
        /\ \/ rows'[k].id = rows[k].id /\ rows'[k].dead
           \/ rows'[k].id = 0 /\ k \in delivered \cup cleared'

(* Updates by id keep dead rows dead; a deletion by id removes only a      *)
(* delivered write.                                                        *)
LEMMA DeadAfterUpdate ==
    ASSUME TypeOK, NEW id \in Nat \ {0}
    PROVE  /\ MarkAttempt(id) \/ MarkDead(id) => \A k \in Keys : DeadKept(k)
           /\ (/\ DeleteRow(id)
               /\ \A k \in Keys : rows[k].id = id => k \in delivered)
              => \A k \in Keys : DeadKept(k)
<1>0. \A k \in Keys : rows[k] \in Row
  BY DEF TypeOK
<1>1. CASE MarkAttempt(id)
  BY <1>0, <1>1 DEF MarkAttempt, DeadKept, Row
<1>2. CASE MarkDead(id)
  BY <1>0, <1>2 DEF MarkDead, DeadKept, Row
<1>3. ASSUME DeleteRow(id), \A k \in Keys : rows[k].id = id => k \in delivered
      PROVE  \A k \in Keys : DeadKept(k)
  BY <1>3 DEF DeleteRow, DeadKept, NoRow
<1>4. QED
  BY <1>1, <1>2, <1>3

(* No step revives, claims or silently drops a dead row.                   *)
LEMMA DeadStep == IInv /\ [Next]_vars => \A k \in Keys : DeadKept(k)
<1> SUFFICES ASSUME IInv, [Next]_vars PROVE \A k \in Keys : DeadKept(k)
  OBVIOUS
<1>t. TypeOK
  BY DEF IInv
<1>u. ASSUME rows' = rows PROVE \A k \in Keys : DeadKept(k)
  BY <1>u DEF DeadKept
<1>1. ASSUME NEW w \in Writers, NEW k \in Keys, NEW e \in Exts, StartCall(w, k, e)
      PROVE  \A j \in Keys : DeadKept(j)
  BY <1>1, <1>u DEF StartCall
<1>2. ASSUME NEW w \in Writers, WriterStep(w)
      PROVE  \A k \in Keys : DeadKept(k)
  <2>1. CASE \/ FinishStaging(w) \/ DropDuplicate(w) \/ AdoptExisting(w) \/ LookupFails(w)
             \/ UndoStaging(w) \/ UnlinkPosted(w)
             \/ InsertCollides(w) \/ InsertFails(w) \/ AttemptSucceeds(w) \/ AttemptFails(w)
    BY <2>1, <1>u DEF FinishStaging, DropDuplicate, AdoptExisting, LookupFails, UndoStaging,
                      UnlinkPosted, InsertCollides, InsertFails, AttemptSucceeds, AttemptFails,
                      shared
  <2>2. CASE InsertRow(w)
    <3>1. /\ ~Present(writer[w].key)
          /\ \A k \in Keys \ {writer[w].key} : rows'[k] = rows[k]
      BY <2>2, <1>t DEF InsertRow, TypeOK
    <3>2. QED
      BY <3>1 DEF DeadKept
  <2>3. CASE ReportQueued(w)
    <3>1. writer[w].id \in Nat \ {0}
      BY <2>3 DEF ReportQueued, IInv, WriterOK
    <3>2. QED
      BY <2>3, <3>1, <1>t, <1>u, DeadAfterUpdate DEF ReportQueued
  <2>4. CASE DropPosted(w)
    <3>1. /\ writer[w].id \in Nat \ {0}
          /\ \A k \in Keys : rows[k].id = writer[w].id => k \in delivered
      BY <2>4 DEF DropPosted, IInv, WriterOK
    <3>2. QED
      BY <2>4, <3>1, <1>t, DeadAfterUpdate DEF DropPosted
  <2>5. QED
    BY <1>2, <2>1, <2>2, <2>3, <2>4 DEF WriterStep
<1>3. ASSUME NEW w \in Writers, CrashWriter(w)
      PROVE  \A k \in Keys : DeadKept(k)
  BY <1>3, <1>u DEF CrashWriter, shared
<1>4. ASSUME NEW d \in Passes, NextEligible(d)
      PROVE  \A k \in Keys : DeadKept(k)
  <2>1. \A k \in Claimable : ~rows[k].dead
    BY DEF Claimable, Oldest, Eligible, Live
  <2>2. \A k \in Keys : /\ rows'[k].id = rows[k].id
                        /\ rows'[k].dead = rows[k].dead
                        /\ k \notin Claimable => rows'[k] = rows[k]
    BY <1>4, <1>t DEF NextEligible, TypeOK, Row
  <2>3. QED
    BY <2>1, <2>2 DEF DeadKept
<1>5. ASSUME NEW d \in Passes, PassStep(d)
      PROVE  \A k \in Keys : DeadKept(k)
  <2>0. PassOK(d)
    BY DEF IInv
  <2>1. CASE \/ DispatchOK(d) \/ DispatchFails(d) \/ UnlinkSent(d) \/ CleanupRemove(d)
             \/ ClearFiles(d) \/ CleanupScan(d) \/ CliDone(d)
    BY <2>1, <1>u DEF DispatchOK, DispatchFails, UnlinkSent, CleanupRemove, ClearFiles,
                      CleanupScan, CliDone, shared
  <2>2. CASE SettleRetry(d) \/ SettleDead(d)
    <3>1. PICK it \in drainer[d].batch : MarkAttempt(it.id) \/ MarkDead(it.id)
      BY <2>2 DEF SettleRetry, SettleDead
    <3>2. QED
      BY <3>1, <2>0, <1>t, DeadAfterUpdate DEF PassOK
  <2>3. CASE SettleSent(d)
    <3>1. PICK it \in drainer[d].batch : IsHead(d, it) /\ DeleteRow(it.id)
      BY <2>3 DEF SettleSent
    <3>2. /\ it.id \in Nat \ {0}
          /\ \A k \in Keys : rows[k].id = it.id => k \in delivered
      BY <2>0, <2>3, <3>1 DEF PassOK, SettleSent
    <3>3. QED
      BY <3>1, <3>2, <1>t, DeadAfterUpdate
  <2>4. QED
    BY <1>5, <2>1, <2>2, <2>3 DEF PassStep
<1>6. ASSUME NEW d \in Passes, ClearRows(d)
      PROVE  \A k \in Keys : DeadKept(k)
  BY <1>6 DEF ClearRows, DeadKept, NoRow
<1>7. ASSUME NEW d \in Passes, SettleFails(d) \/ CrashDrainer(d)
      PROVE  \A k \in Keys : DeadKept(k)
  BY <1>7, <1>u DEF SettleFails, CrashDrainer, shared
<1>8. ASSUME NEW k \in Keys, ClaimExpires(k) \/ BackoffElapses(k)
      PROVE  \A j \in Keys : DeadKept(j)
  <2>1. \A j \in Keys : /\ rows'[j].id = rows[j].id
                        /\ rows'[j].dead = rows[j].dead
                        /\ rows'[j].claimed => rows[j].claimed
    BY <1>8, <1>t DEF ClaimExpires, BackoffElapses, TypeOK, Row
  <2>2. QED
    BY <2>1 DEF DeadKept
<1>9. CASE UNCHANGED vars
  BY <1>9, <1>u DEF vars
<1>10. QED
  BY <1>1, <1>2, <1>3, <1>4, <1>5, <1>6, <1>7, <1>8, <1>9 DEF Next

(* A dead-lettered row (MarkDead) is final: whatever late call, expired    *)
(* claim or retry comes after, it is neither revived nor claimed, and it   *)
(* goes only with a delivered or a cleared write.                          *)
THEOREM DeadFinal == Spec => DeadIsFinal
<1>1. IInv /\ [Next]_vars => [\A k \in Keys : DeadKept(k)]_vars
  BY DeadStep
<1>2. QED
  BY <1>1, Invariance, PTL DEF Spec, DeadIsFinal, DeadKept
=============================================================================
