------------------------- MODULE SynthQueue_proofs -------------------------
(***************************************************************************)
(* Proofs about the synthesis worker, for any number of records, channel   *)
(* and page sizes, thresholds, requests, failures and restarts.            *)
(*                                                                         *)
(* SynthesisedOnce is not inductive: a goroutine that passed the check     *)
(* commits later, on whatever record has the sha by then.  OnceInv adds    *)
(* that one goroutine at a time is past the check (MuInv), that the record *)
(* it is about to write is still unsynthesised even if it was forgotten    *)
(* and written anew in between (WorkInv), and that a record which is not   *)
(* synthesised has no commit to its name, nor has an id not handed out.    *)
(*                                                                         *)
(* PoisonIsBounded needs an account of the passes still to come: the jobs  *)
(* of a record that are queued or in hand, at most one per write request,  *)
(* and one per drain whose page holds the record.  PoisonInv bounds the    *)
(* failures counted so far together with those.                            *)
(***************************************************************************)
EXTENDS SynthQueue, FiniteSetTheorems, TLAPS

MuInv == \A l \in Loops : loop[l].pc = "work" <=> processMu = l

IdsInv ==
    /\ \A s \in SHAs : records[s].id < nextId
    /\ \A r, s \in SHAs : Present(r) /\ records[r].id = records[s].id => r = s

WorkInv == \A l \in Loops : loop[l].pc = "work" => ~records[loop[l].sha].synthesised

WritesInv ==
    /\ \A s \in SHAs : Unsynthesised(s) => writes[records[s].id] = 0
    /\ \A i \in 1 .. MaxRecords : i >= nextId => writes[i] = 0

Drains == {"sweep", "fill"}
InHand(l, s) == loop[l].pc \in {"lock", "work", "failed"} /\ loop[l].sha = s

(* A pass over s that drain l has still to make, and those of the channel. *)
Due(l, s) == InHand(l, s) \/ \E item \in loop[l].page : item[2] = s
Queued(q, s) == {i \in 1 .. Len(q) : q[i] = s}
One(b) == IF b THEN 1 ELSE 0
DrainPasses(s) == One(Due("sweep", s)) + One(Due("fill", s))
LivePasses(s) == Cardinality(Queued(queue, s)) + One(InHand("live", s))

(* A page holds a record once, and no longer the one in hand; the loop of  *)
(* the channel reads none.                                                 *)
PageInv ==
    /\ loop["live"].pc \notin {"list", "walk"}
    /\ \A l \in Drains :
          /\ \A a, b \in loop[l].page : a[2] = b[2] => a = b
          /\ \A a \in loop[l].page : ~InHand(l, a[2])

PassesInv ==
    \A s \in SHAs :
        /\ LivePasses(s) <= ingests[s]
        /\ records[s].attempts + DrainPasses(s) + LivePasses(s)
              <= MaxSynthAttempts + 1 + ingests[s]

PoisonInv == TypeOK /\ PageInv /\ PassesInv

OnceInv == TypeOK /\ MuInv /\ IdsInv /\ WorkInv /\ WritesInv /\ SynthesisedOnce

-----------------------------------------------------------------------------
(* Typing.                                                                 *)

(* The absent record and an idle goroutine are well typed.                 *)
LEMMA ConstantTypes == NoRecord \in Record /\ IdleLoop \in Loop /\ IdleLoop.sha \in SHAs
<1>1. NoRecord \in Record
  BY SynthBoundsAssumption DEF NoRecord, Record
<1>2. (CHOOSE s \in SHAs : TRUE) \in SHAs
  BY SHAsAssumption
<1>3. IdleLoop \in Loop /\ IdleLoop.sha \in SHAs
  BY <1>2 DEF IdleLoop, Loop
<1>4. QED
  BY <1>1, <1>3

(* The end of a drain, and of handle, leaves the goroutines well typed.    *)
LEMMA FinishTypes ==
    ASSUME TypeOK, NEW l \in Loops
    PROVE  /\ Finish(l) => loop' \in [Loops -> Loop] /\ backfilling' \in BOOLEAN
           /\ AfterHandle(l) => loop' \in [Loops -> Loop] /\ backfilling' \in BOOLEAN
<1> USE ConstantTypes DEF TypeOK
<1>1. Finish(l) => loop' \in [Loops -> Loop] /\ backfilling' \in BOOLEAN
  BY DEF Finish
<1>2. ASSUME AfterHandle(l), ~(l = "live" \/ loop[l].left = 1)
      PROVE  loop' \in [Loops -> Loop] /\ backfilling' \in BOOLEAN
  <2>1. loop[l] \in Loop
    OBVIOUS
  <2>2. (IF loop[l].left = 0 THEN 0 ELSE loop[l].left - 1) \in Int
    BY <2>1 DEF Loop
  <2>3. \A n \in Int :
          [loop[l] EXCEPT !.pc = "walk", !.sha = IdleLoop.sha, !.left = n] \in Loop
    BY <2>1 DEF Loop
  <2>4. PICK n \in Int : n = IF loop[l].left = 0 THEN 0 ELSE loop[l].left - 1
    BY <2>2
  <2>5. PICK x \in Loop : x = [loop[l] EXCEPT !.pc = "walk", !.sha = IdleLoop.sha, !.left = n]
    BY <2>3
  <2>6. loop' = [loop EXCEPT ![l] = x] /\ backfilling' = backfilling
    BY <1>2, <2>4, <2>5 DEF AfterHandle
  <2>7. QED
    BY <2>5, <2>6
<1>3. QED
  BY <1>1, <1>2 DEF AfterHandle

(* A page holds ids and content addresses of records.                      *)
LEMMA PageTypes ==
    ASSUME TypeOK, NEW after, NEW n
    PROVE  ListSynthBacklog(after, n) \in SUBSET (Nat \X SHAs)
<1>1. \A s \in SHAs : <<records[s].id, s>> \in Nat \X SHAs
  BY SynthBoundsAssumption DEF TypeOK, Record
<1>2. QED
  BY <1>1, Zenon DEF ListSynthBacklog

(* Updates of a record, and of a goroutine, that keep the types.           *)
LEMMA RecordTypes ==
    ASSUME NEW r \in Record
    PROVE  /\ \A i \in 0 .. MaxRecords : [NoRecord EXCEPT !.id = i] \in Record
           /\ [r EXCEPT !.synthesised = TRUE] \in Record
           /\ [r EXCEPT !.attempts = @ + 1] \in Record
<1>1. \A i \in 0 .. MaxRecords : [NoRecord EXCEPT !.id = i] \in Record
  BY DEF NoRecord, Record
<1>2. [r EXCEPT !.synthesised = TRUE] \in Record
  BY DEF Record
<1>3. r.attempts + 1 \in Nat
  BY DEF Record
<1>4. \A n \in Nat : [r EXCEPT !.attempts = n] \in Record
  BY DEF Record
<1>5. [r EXCEPT !.attempts = @ + 1] \in Record
  BY <1>3, <1>4, Zenon
<1>6. QED
  BY <1>1, <1>2, <1>5

LEMMA LoopTypes ==
    ASSUME NEW r \in Loop
    PROVE  /\ \A pc \in {"idle", "list", "walk", "lock", "work", "failed"} :
                 [r EXCEPT !.pc = pc] \in Loop
           /\ \A s \in SHAs : [r EXCEPT !.pc = "lock", !.sha = s] \in Loop
           /\ \A n \in Nat : [IdleLoop EXCEPT !.pc = "list", !.left = n] \in Loop
           /\ \A P \in SUBSET (Nat \X SHAs), b \in BOOLEAN :
                 [r EXCEPT !.pc = "walk", !.page = P, !.short = b] \in Loop
           /\ \A item \in r.page :
                 [r EXCEPT !.pc = "lock", !.sha = item[2],
                           !.page = @ \ {item}, !.cursor = item[1]] \in Loop
<1>1. \A n \in Nat : [IdleLoop EXCEPT !.pc = "list", !.left = n] \in Loop
  <2>1. \A q \in Loop, n \in Int : [q EXCEPT !.pc = "list", !.left = n] \in Loop
    BY DEF Loop
  <2>2. \A n \in Nat : n \in Int
    OBVIOUS
  <2>3. QED
    BY <2>1, <2>2, ConstantTypes, Zenon
<1>2. \A item \in r.page : item[1] \in Nat /\ item[2] \in SHAs
  BY DEF Loop
<1>3. \A item \in r.page : r.page \ {item} \in SUBSET (Nat \X SHAs)
  BY DEF Loop
<1>4. \A item \in r.page :
         [r EXCEPT !.pc = "lock", !.sha = item[2],
                   !.page = @ \ {item}, !.cursor = item[1]] \in Loop
  <2>1. \A s \in SHAs, c \in Nat, P \in SUBSET (Nat \X SHAs) :
           [r EXCEPT !.pc = "lock", !.sha = s, !.page = P, !.cursor = c] \in Loop
    BY DEF Loop
  <2>2. QED
    BY <1>2, <1>3, <2>1
<1>5. \A P \in SUBSET (Nat \X SHAs), b \in BOOLEAN :
         [r EXCEPT !.pc = "walk", !.page = P, !.short = b] \in Loop
  BY DEF Loop
<1>6. /\ \A pc \in {"idle", "list", "walk", "lock", "work", "failed"} :
            [r EXCEPT !.pc = pc] \in Loop
      /\ \A s \in SHAs : [r EXCEPT !.pc = "lock", !.sha = s] \in Loop
  BY DEF Loop
<1>7. QED
  BY <1>1, <1>4, <1>5, <1>6

(* Every step keeps the types.                                             *)
LEMMA TypeStep == TypeOK /\ [Next]_vars => TypeOK'
<1> SUFFICES ASSUME TypeOK, [Next]_vars PROVE TypeOK'
  OBVIOUS
<1> USE DEF TypeOK
<1>q. BufferSize \in Nat \ {0} /\ Limits \subseteq Nat /\ MaxRecords \in Nat
  BY SynthSizesAssumption, SynthBoundsAssumption
<1>f. Fault => faults' \in Nat
  BY DEF Fault
<1>r. \A s \in SHAs : records[s] \in Record
  OBVIOUS
<1>l. \A l \in Loops : loop[l] \in Loop /\ loop[l].sha \in SHAs
  BY DEF Loop
<1>1. ASSUME NEW s \in SHAs, Ingest(s)
      PROVE  TypeOK'
  <2>1. records' \in [SHAs -> Record] /\ nextId' \in 1 .. MaxRecords + 1
    <3>1. nextId <= MaxRecords => nextId \in 0 .. MaxRecords
      BY <1>q
    <3>2. nextId <= MaxRecords => [NoRecord EXCEPT !.id = nextId] \in Record
      BY <1>r, <3>1, RecordTypes
    <3>3. nextId <= MaxRecords => nextId + 1 \in 1 .. MaxRecords + 1
      BY <1>q
    <3>4. QED
      BY <1>1, <3>2, <3>3 DEF Ingest, table
  <2>2. queue' \in Seq(SHAs) /\ Len(queue') <= BufferSize
    BY <1>1, <1>q DEF Ingest, Enqueue
  <2>3. ingests' \in [SHAs -> Nat]
    BY <1>1 DEF Ingest
  <2>4. QED
    BY <1>1, <2>1, <2>2, <2>3 DEF Ingest
<1>2. ASSUME NEW s \in SHAs, Forget(s)
      PROVE  TypeOK'
  <2>1. records[s].id \in 1 .. MaxRecords
    BY <1>2, <1>q, <1>r DEF Forget, Present, Record
  <2>2. QED
    BY <1>2, <2>1, ConstantTypes DEF Forget
<1>3. CASE Receive
  <2>1. Head(queue) \in SHAs /\ Tail(queue) \in Seq(SHAs) /\ Len(Tail(queue)) <= BufferSize
    BY <1>3, <1>q DEF Receive
  <2>2. loop' \in [Loops -> Loop]
    BY <1>3, <1>l, <2>1, LoopTypes DEF Receive, Loops
  <2>3. QED
    BY <1>3, <2>1, <2>2 DEF Receive, table, ghosts
<1>4. CASE Sweep
  <2>1. [IdleLoop EXCEPT !.pc = "list"] \in Loop
    BY ConstantTypes, LoopTypes
  <2>2. QED
    BY <1>4, <2>1 DEF Sweep, table, ghosts, Loops
<1>5. ASSUME NEW limit \in Limits, Resynth(limit)
      PROVE  TypeOK'
  <2>1. loop' \in [Loops -> Loop]
    BY <1>5, <1>q, ConstantTypes, LoopTypes DEF Resynth, Loops
  <2>2. resynths' \in Nat /\ backfilling' \in BOOLEAN
    BY <1>5 DEF Resynth
  <2>3. QED
    BY <1>5, <2>1, <2>2 DEF Resynth, table
<1>6. ASSUME NEW l \in Loops, LoopStep(l)
      PROVE  TypeOK'
  <2>1. CASE ListPage(l)
    <3> DEFINE page == ListSynthBacklog(loop[l].cursor, PageLimit(l))
    <3>1. page \in SUBSET (Nat \X SHAs)
      BY PageTypes
    <3>2. (Cardinality(page) < PageLimit(l)) \in BOOLEAN
      OBVIOUS
    <3> HIDE DEF page
    <3>3. loop' \in [Loops -> Loop]
      BY <2>1, <1>l, <3>1, <3>2, LoopTypes DEF ListPage, page
    <3>4. QED
      BY <2>1, <3>3 DEF ListPage, table, ghosts
  <2>2. CASE ListFails(l)
    BY <2>2, <1>f, FinishTypes DEF ListFails, table, ghosts
  <2>3. CASE Walk(l)
    <3>1. loop' \in [Loops -> Loop] /\ backfilling' \in BOOLEAN
      <4>1. ASSUME NEW item \in loop[l].page,
                   loop' = [loop EXCEPT ![l].pc = "lock", ![l].sha = item[2],
                                        ![l].page = @ \ {item}, ![l].cursor = item[1]]
            PROVE  loop' \in [Loops -> Loop]
        BY <4>1, <1>l, LoopTypes
      <4>2. ASSUME loop' = [loop EXCEPT ![l].pc = "list"]
            PROVE  loop' \in [Loops -> Loop]
        BY <4>2, <1>l, LoopTypes
      <4>3. QED
        BY <2>3, <4>1, <4>2, FinishTypes DEF Walk
    <3>2. QED
      BY <2>3, <3>1 DEF Walk, table, ghosts
  <2>4. CASE WriteSynth(l)
    <3>1. loop[l].sha \in SHAs /\ records[loop[l].sha].id \in 1 .. MaxRecords
      BY <2>4, <1>q, <1>r, <1>l DEF WriteSynth, Record, Present
    <3>2. records' \in [SHAs -> Record]
      BY <2>4, <3>1, <1>r, RecordTypes DEF WriteSynth
    <3>3. writes' \in [1 .. MaxRecords -> Nat]
      BY <2>4, <3>1 DEF WriteSynth
    <3>4. QED
      BY <2>4, <3>2, <3>3, FinishTypes DEF WriteSynth
  <2>5. CASE ProcessFails(l)
    BY <2>5, <1>l, LoopTypes DEF ProcessFails, table, ghosts
  <2>6. CASE BumpSynthFailure(l)
    <3>1. records' \in [SHAs -> Record]
      BY <2>6, <1>l, <1>r, RecordTypes DEF BumpSynthFailure
    <3>2. QED
      BY <2>6, <3>1, FinishTypes DEF BumpSynthFailure, ghosts
  <2>7. QED
    BY <1>6, <2>1, <2>2, <2>3, <2>4, <2>5, <2>6 DEF LoopStep
<1>7. ASSUME NEW l \in Loops, Lock(l)
      PROVE  TypeOK'
  <2>1. ASSUME loop' = [loop EXCEPT ![l].pc = "work"]
        PROVE  loop' \in [Loops -> Loop]
    BY <2>1, <1>l, LoopTypes
  <2>2. QED
    BY <1>7, <2>1, FinishTypes DEF Lock, table
<1>8. ASSUME NEW l \in Loops, FetchFails(l)
      PROVE  TypeOK'
  BY <1>8, <1>l, LoopTypes DEF FetchFails, table
<1>9. ASSUME NEW l \in Loops, BumpFails(l)
      PROVE  TypeOK'
  BY <1>9, <1>f, FinishTypes DEF BumpFails, table, ghosts
<1>10. CASE LoseView
  BY <1>10, <1>f DEF LoseView, table, ghosts
<1>11. CASE RegisterView
  BY <1>11 DEF RegisterView, table, ghosts
<1>12. CASE Restart
  <2>1. queue' \in Seq(SHAs) /\ Len(queue') <= BufferSize
    BY <1>12, <1>q DEF Restart
  <2>2. loop' \in [Loops -> Loop]
    BY <1>12, ConstantTypes DEF Restart
  <2>3. QED
    BY <1>12, <1>f, <2>1, <2>2 DEF Restart, table
<1>13. CASE UNCHANGED vars
  BY <1>13 DEF vars
<1>14. QED
  BY <1>1, <1>2, <1>3, <1>4, <1>5, <1>6, <1>7, <1>8, <1>9, <1>10, <1>11, <1>12, <1>13
     DEF Next

LEMMA TypeInit == Init => TypeOK
<1>1. /\ BufferSize \in Nat \ {0} /\ MaxRecords \in Nat
      /\ NoRecord \in Record /\ IdleLoop \in Loop
  BY ConstantTypes, SynthBoundsAssumption, SynthSizesAssumption
<1>2. Init => queue \in Seq(SHAs) /\ Len(queue) <= BufferSize /\ nextId \in 1 .. MaxRecords + 1
  BY <1>1 DEF Init
<1>3. Init => /\ ingests \in [SHAs -> Nat] /\ writes \in [1 .. MaxRecords -> Nat]
              /\ resynths \in Nat /\ faults \in Nat
  BY DEF Init
<1>4. QED
  BY <1>1, <1>2, <1>3 DEF Init, TypeOK

(* The synthesis worker's variables keep their types, whichever goroutine  *)
(* runs: the channel never exceeds its capacity.                           *)
THEOREM TypeCorrect == Spec => []TypeOK
  BY TypeInit, TypeStep, PTL DEF Spec

-----------------------------------------------------------------------------
(* The backfill flag.                                                      *)

(* The end of a drain, and of handle, touches one goroutine, and the flag  *)
(* exactly when the backfill goes idle.                                    *)
LEMMA FinishEffect ==
    ASSUME TypeOK, NEW l \in Loops, Finish(l)
    PROVE  /\ \A k \in Loops \ {l} : loop'[k] = loop[k]
           /\ loop'[l].pc = "idle" /\ loop'[l].page = {}
           /\ l # "fill" => backfilling' = backfilling
           /\ l = "fill" => ~backfilling'
  BY DEF TypeOK, Finish, IdleLoop

LEMMA AfterHandleEffect ==
    ASSUME TypeOK, NEW l \in Loops, AfterHandle(l)
    PROVE  /\ \A k \in Loops \ {l} : loop'[k] = loop[k]
           /\ \/ loop'[l].pc = "idle" /\ loop'[l].page = {}
                 /\ (l = "fill" => ~backfilling')
              \/ loop'[l].pc = "walk" /\ loop'[l].page = loop[l].page
                 /\ l # "live" /\ backfilling' = backfilling
           /\ l # "fill" => backfilling' = backfilling
<1>1. CASE l = "live" \/ loop[l].left = 1
  BY <1>1, FinishEffect DEF AfterHandle
<1>2. CASE ~(l = "live" \/ loop[l].left = 1)
  <2>1. loop[l] \in Loop
    BY DEF TypeOK
  <2>2. loop' = [loop EXCEPT ![l] = [loop[l] EXCEPT !.pc = "walk", !.sha = IdleLoop.sha,
                              !.left = IF loop[l].left = 0 THEN 0 ELSE loop[l].left - 1]]
        /\ backfilling' = backfilling
    BY <1>2 DEF AfterHandle
  <2>3. \A x : [loop[l] EXCEPT !.pc = "walk", !.sha = IdleLoop.sha, !.left = x].pc = "walk"
            /\ [loop[l] EXCEPT !.pc = "walk", !.sha = IdleLoop.sha, !.left = x].page = loop[l].page
    BY <2>1 DEF Loop
  <2>4. QED
    BY <1>2, <2>2, <2>3 DEF TypeOK
<1>3. QED
  BY <1>1, <1>2

(* The other updates of a goroutine's program counter.                     *)
LEMMA PcUpdate ==
    ASSUME TypeOK, NEW l \in Loops, NEW pc, loop' = [loop EXCEPT ![l].pc = pc]
    PROVE  /\ \A k \in Loops \ {l} : loop'[k] = loop[k]
           /\ loop'[l].pc = pc /\ loop'[l].sha = loop[l].sha /\ loop'[l].page = loop[l].page
  BY DEF TypeOK, Loop

(* A row is taken from the page.                                           *)
LEMMA TakeRow ==
    ASSUME TypeOK, NEW l \in Loops, NEW item,
           loop' = [loop EXCEPT ![l].pc = "lock", ![l].sha = item[2],
                                ![l].page = @ \ {item}, ![l].cursor = item[1]]
    PROVE  /\ \A k \in Loops \ {l} : loop'[k] = loop[k]
           /\ loop'[l].pc = "lock" /\ loop'[l].sha = item[2]
           /\ loop'[l].page = loop[l].page \ {item}
  BY DEF TypeOK, Loop

LEMMA FlagStep == TypeOK /\ BackfillFlag /\ [Next]_vars => BackfillFlag'
<1> SUFFICES ASSUME TypeOK, BackfillFlag, [Next]_vars PROVE BackfillFlag'
  OBVIOUS
<1> USE DEF BackfillFlag
<1>0. "fill" \in Loops /\ "live" \in Loops /\ "sweep" \in Loops
  BY DEF Loops
<1>s. ASSUME UNCHANGED <<loop, backfilling>> PROVE BackfillFlag'
  BY <1>s
<1>k. ASSUME NEW l \in Loops, \A k \in Loops \ {l} : loop'[k] = loop[k],
             \/ backfilling' = backfilling /\ (loop[l].pc = "idle" <=> loop'[l].pc = "idle")
             \/ l # "fill" /\ backfilling' = backfilling
      PROVE  BackfillFlag'
  BY <1>0, <1>k, Zenon
<1>f. ASSUME NEW l \in Loops, Finish(l), loop[l].pc # "idle"
      PROVE  BackfillFlag'
  BY <1>0, <1>f, FinishEffect, Zenon
<1>h. ASSUME NEW l \in Loops, AfterHandle(l), loop[l].pc # "idle"
      PROVE  BackfillFlag'
  <2>1. CASE l # "fill"
    BY <1>0, <1>h, <2>1, AfterHandleEffect
  <2>2. CASE l = "fill" /\ loop'[l].pc = "idle" /\ ~backfilling'
    BY <2>2
  <2>3. CASE l = "fill" /\ loop'[l].pc = "walk" /\ backfilling' = backfilling
    BY <1>h, <2>3
  <2>4. QED
    BY <1>h, <2>1, <2>2, <2>3, AfterHandleEffect
<1>1. ASSUME NEW s \in SHAs, Ingest(s) \/ Forget(s)
      PROVE  BackfillFlag'
  BY <1>1, <1>s DEF Ingest, Forget
<1>2. CASE Receive \/ Sweep
  <2>1. loop'["fill"] = loop["fill"] /\ backfilling' = backfilling
    BY <1>0, <1>2 DEF Receive, Sweep, TypeOK
  <2>2. QED
    BY <2>1
<1>3. ASSUME NEW limit \in Limits, Resynth(limit)
      PROVE  BackfillFlag'
  <2>1. loop'["fill"].pc = "list" /\ backfilling' = TRUE
    BY <1>0, <1>3 DEF Resynth, TypeOK, IdleLoop
  <2>2. QED
    BY <2>1
<1>4. ASSUME NEW l \in Loops, LoopStep(l)
      PROVE  BackfillFlag'
  <2>1. CASE ListPage(l)
    <3>1. loop'[l].pc = "walk" /\ \A k \in Loops \ {l} : loop'[k] = loop[k]
      BY <2>1 DEF ListPage, TypeOK, Loop
    <3>2. QED
      BY <2>1, <3>1, <1>k DEF ListPage
  <2>2. CASE ListFails(l)
    BY <2>2, <1>f DEF ListFails
  <2>3. CASE Walk(l)
    <3>0. loop[l].pc = "walk"
      BY <2>3 DEF Walk
    <3>1. ASSUME NEW item, backfilling' = backfilling,
                 loop' = [loop EXCEPT ![l].pc = "lock", ![l].sha = item[2],
                                      ![l].page = @ \ {item}, ![l].cursor = item[1]]
          PROVE  BackfillFlag'
      BY <3>0, <3>1, <1>k, TakeRow
    <3>2. ASSUME backfilling' = backfilling, loop' = [loop EXCEPT ![l].pc = "list"]
          PROVE  BackfillFlag'
      BY <3>0, <3>2, <1>k, PcUpdate
    <3>3. QED
      BY <2>3, <3>0, <3>1, <3>2, <1>f DEF Walk
  <2>4. CASE WriteSynth(l)
    BY <2>4, <1>h DEF WriteSynth
  <2>5. CASE ProcessFails(l)
    BY <2>5, <1>k, PcUpdate DEF ProcessFails
  <2>6. CASE BumpSynthFailure(l)
    BY <2>6, <1>h DEF BumpSynthFailure
  <2>7. QED
    BY <1>4, <2>1, <2>2, <2>3, <2>4, <2>5, <2>6 DEF LoopStep
<1>5. ASSUME NEW l \in Loops, Lock(l)
      PROVE  BackfillFlag'
  <2>1. ASSUME loop' = [loop EXCEPT ![l].pc = "work"], backfilling' = backfilling
        PROVE  BackfillFlag'
    BY <1>5, <2>1, <1>k, PcUpdate DEF Lock
  <2>2. QED
    BY <1>5, <2>1, <1>h DEF Lock
<1>6. ASSUME NEW l \in Loops, FetchFails(l)
      PROVE  BackfillFlag'
  BY <1>6, <1>k, PcUpdate DEF FetchFails
<1>7. ASSUME NEW l \in Loops, BumpFails(l)
      PROVE  BackfillFlag'
  BY <1>7, <1>h DEF BumpFails
<1>8. CASE LoseView \/ RegisterView
  BY <1>8, <1>s DEF LoseView, RegisterView
<1>9. CASE Restart
  BY <1>9, <1>0 DEF Restart, IdleLoop
<1>10. CASE UNCHANGED vars
  BY <1>10, <1>s DEF vars
<1>11. QED
  BY <1>1, <1>2, <1>3, <1>4, <1>5, <1>6, <1>7, <1>8, <1>9, <1>10 DEF Next

(* The flag that refuses a second resynth is up exactly while the backfill *)
(* goroutine runs, for any pages, limits, failures and restarts.           *)
THEOREM BackfillFlagHolds == Spec => []BackfillFlag
<1>1. Init => BackfillFlag
  BY DEF Init, BackfillFlag, IdleLoop, Loops
<1>2. QED
  BY <1>1, TypeCorrect, FlagStep, PTL DEF Spec

-----------------------------------------------------------------------------
(* At most one commit per record.                                          *)

(* A step that keeps ids, synthesised flags, commits and the lock, and     *)
(* moves no goroutine into or out of the critical section.                 *)
LEMMA OnceUntouched ==
    ASSUME OnceInv, TypeOK', nextId' = nextId, writes' = writes, processMu' = processMu,
           \A s \in SHAs : /\ records'[s].id = records[s].id
                           /\ records'[s].synthesised = records[s].synthesised,
           \A l \in Loops : \/ loop'[l] = loop[l]
                            \/ loop[l].pc # "work" /\ loop'[l].pc # "work"
    PROVE  OnceInv'
<1> USE DEF OnceInv
<1>1. MuInv'
  BY DEF MuInv
<1>2. IdsInv'
  BY DEF IdsInv, Present
<1>3. WorkInv'
  BY DEF WorkInv, TypeOK, Loop
<1>4. WritesInv'
  BY DEF WritesInv, Unsynthesised, Present
<1>5. SynthesisedOnce'
  BY DEF SynthesisedOnce
<1>6. QED
  BY <1>1, <1>2, <1>3, <1>4, <1>5

(* A write adds a record under an id that no commit has used.              *)
LEMMA OnceIngest ==
    ASSUME OnceInv, TypeOK', NEW s \in SHAs, Ingest(s)
    PROVE  OnceInv'
<1> USE DEF OnceInv
<1>1. CASE UNCHANGED table
  BY <1>1, OnceUntouched DEF Ingest, table
<1>2. CASE ~Present(s) /\ nextId <= MaxRecords /\ nextId' = nextId + 1
           /\ records' = [records EXCEPT ![s] = [NoRecord EXCEPT !.id = nextId]]
  <2>0. nextId \in 1 .. MaxRecords /\ nextId \in Nat
    BY <1>2, SynthBoundsAssumption DEF TypeOK
  <2>1. /\ records'[s].id = nextId /\ records'[s].synthesised = FALSE
        /\ \A r \in SHAs \ {s} : records'[r] = records[r]
    BY <1>2 DEF TypeOK, NoRecord
  <2>2. UNCHANGED <<processMu, loop, writes>>
    BY DEF Ingest
  <2>3. MuInv' /\ SynthesisedOnce'
    BY <2>2 DEF MuInv, SynthesisedOnce
  <2>4. IdsInv'
    <3>1. \A r \in SHAs : records[r].id \in Nat
      BY SynthBoundsAssumption DEF TypeOK, Record
    <3>2. QED
      BY <1>2, <2>0, <2>1, <3>1 DEF IdsInv, Present
  <2>5. WorkInv'
    BY <2>1, <2>2 DEF WorkInv, TypeOK, Loop
  <2>6. WritesInv'
    BY <1>2, <2>0, <2>1, <2>2 DEF WritesInv, Unsynthesised, Present, TypeOK
  <2>7. QED
    BY <2>3, <2>4, <2>5, <2>6
<1>3. QED
  BY <1>1, <1>2 DEF Ingest

(* A forgotten record takes its commits with it.                           *)
LEMMA OnceForget ==
    ASSUME OnceInv, TypeOK', NEW s \in SHAs, Forget(s)
    PROVE  OnceInv'
<1> USE DEF OnceInv
<1>0. records[s].id \in 1 .. MaxRecords
  BY SynthBoundsAssumption DEF TypeOK, Record, Forget, Present
<1>1. /\ records'[s].id = 0 /\ records'[s].synthesised = FALSE
      /\ \A r \in SHAs \ {s} : records'[r] = records[r]
      /\ UNCHANGED <<nextId, processMu, loop>>
  BY DEF Forget, TypeOK, NoRecord
<1>2. /\ writes'[records[s].id] = 0
      /\ \A i \in 1 .. MaxRecords : i # records[s].id => writes'[i] = writes[i]
  BY <1>0 DEF Forget, TypeOK
<1>t. nextId \in Nat \ {0} /\ \A r \in SHAs : records[r].id \in 0 .. MaxRecords
  BY SynthBoundsAssumption DEF TypeOK, Record
<1>3. MuInv' /\ SynthesisedOnce'
  BY <1>0, <1>1, <1>2 DEF MuInv, SynthesisedOnce
<1>4. IdsInv'
  BY <1>1, <1>t DEF IdsInv, Present
<1>5. WorkInv'
  BY <1>1 DEF WorkInv, TypeOK, Loop
<1>6. WritesInv'
  BY <1>0, <1>1, <1>2, <1>t, SynthBoundsAssumption DEF WritesInv, Unsynthesised, Present, IdsInv
<1>7. QED
  BY <1>3, <1>4, <1>5, <1>6

(* A goroutine enters with nobody inside, on an unsynthesised record.      *)
LEMMA OnceLock ==
    ASSUME OnceInv, TypeOK', NEW l \in Loops, Lock(l)
    PROVE  OnceInv'
<1> USE DEF OnceInv
<1>0. loop[l].pc = "lock" /\ processMu = Nobody /\ UNCHANGED <<records, nextId, writes>>
  BY DEF Lock, table
<1>1. CASE AfterHandle(l) /\ UNCHANGED processMu
  BY <1>0, <1>1, AfterHandleEffect, OnceUntouched
<1>2. CASE /\ Unsynthesised(loop[l].sha)
           /\ processMu' = l
           /\ loop' = [loop EXCEPT ![l].pc = "work"]
  <2>1. /\ \A k \in Loops \ {l} : loop'[k] = loop[k]
        /\ loop'[l].pc = "work" /\ loop'[l].sha = loop[l].sha
    BY <1>2, PcUpdate
  <2>2. MuInv'
    <3>1. \A k \in Loops \ {l} : loop[k].pc # "work"
      BY <1>0 DEF MuInv, Loops, Nobody
    <3>2. QED
      BY <1>2, <2>1, <3>1 DEF MuInv
  <2>3. IdsInv' /\ WritesInv' /\ SynthesisedOnce'
    BY <1>0 DEF IdsInv, WritesInv, SynthesisedOnce, Unsynthesised, Present
  <2>4. WorkInv'
    BY <1>0, <1>2, <2>1 DEF WorkInv, Unsynthesised
  <2>5. QED
    BY <2>2, <2>3, <2>4
<1>3. QED
  BY <1>1, <1>2 DEF Lock

(* The commit: the record was unsynthesised, so nothing was committed.     *)
LEMMA OnceWrite ==
    ASSUME OnceInv, TypeOK', NEW l \in Loops, WriteSynth(l)
    PROVE  OnceInv'
<1> USE DEF OnceInv
<1> DEFINE s == loop[l].sha
<1>0. /\ loop[l].pc = "work" /\ Present(s) /\ processMu = l /\ processMu' = Nobody
      /\ nextId' = nextId /\ AfterHandle(l)
  BY DEF WriteSynth, MuInv
<1>t. /\ s \in SHAs /\ nextId \in Nat \ {0}
      /\ \A r \in SHAs : records[r].id \in 0 .. MaxRecords
      /\ records[s].id \in 1 .. MaxRecords
  <2>1. s \in SHAs
    BY DEF TypeOK, Loop
  <2>2. nextId \in Nat \ {0} /\ \A r \in SHAs : records[r].id \in 0 .. MaxRecords
    BY SynthBoundsAssumption DEF TypeOK, Record
  <2>3. QED
    BY <1>0, <2>1, <2>2, SynthBoundsAssumption DEF Present
<1>1. /\ \A r \in SHAs : records'[r].id = records[r].id
      /\ \A r \in SHAs \ {s} : records'[r] = records[r]
      /\ records'[s].synthesised = TRUE
  BY <1>t DEF WriteSynth, TypeOK, Record
<1>2. /\ writes'[records[s].id] = writes[records[s].id] + 1
      /\ \A i \in 1 .. MaxRecords : i # records[s].id => writes'[i] = writes[i]
  BY <1>t DEF WriteSynth, TypeOK
<1>3. writes[records[s].id] = 0
  BY <1>0, <1>t DEF WorkInv, WritesInv, Unsynthesised
<1>4. \A k \in Loops \ {l} : loop'[k] = loop[k] /\ loop[k].pc # "work"
  BY <1>0, AfterHandleEffect DEF MuInv
<1>5. loop'[l].pc # "work"
  BY <1>0, AfterHandleEffect
<1> HIDE DEF s
<1>6. MuInv'
  BY <1>0, <1>4, <1>5 DEF MuInv, Loops, Nobody
<1>7. IdsInv'
  BY <1>0, <1>1 DEF IdsInv, Present
<1>8. WorkInv'
  BY <1>4, <1>5 DEF WorkInv
<1>9. WritesInv'
  <2>1. \A r \in SHAs \ {s} : Present(r) => records[r].id # records[s].id
    BY <1>t DEF IdsInv
  <2>2. \A r \in SHAs : Unsynthesised(r)' => r # s /\ Unsynthesised(r)
    BY <1>1 DEF Unsynthesised, Present
  <2>3. \A r \in SHAs : Unsynthesised(r)' => writes'[records'[r].id] = 0
    BY <1>1, <1>2, <1>t, <2>1, <2>2, SynthBoundsAssumption DEF WritesInv, Unsynthesised, Present
  <2>4. records[s].id < nextId
    BY <1>t DEF IdsInv
  <2>5. QED
    BY <1>0, <1>2, <1>t, <2>3, <2>4, SynthBoundsAssumption DEF WritesInv
<1>10. SynthesisedOnce'
  BY <1>2, <1>3, <1>t DEF SynthesisedOnce
<1>11. QED
  BY <1>6, <1>7, <1>8, <1>9, <1>10

(* Every step keeps the invariant; the flag is what keeps a second         *)
(* backfill from starting over one that holds the lock.                    *)
LEMMA OnceStep == BackfillFlag /\ OnceInv /\ [Next]_vars => OnceInv'
<1> SUFFICES ASSUME BackfillFlag, OnceInv, [Next]_vars PROVE OnceInv'
  OBVIOUS
<1>0. TypeOK /\ TypeOK'
  BY TypeStep DEF OnceInv
<1>l. "fill" \in Loops /\ "live" \in Loops /\ "sweep" \in Loops
  BY DEF Loops
<1>k. ASSUME NEW l \in Loops, \A k \in Loops \ {l} : loop'[k] = loop[k],
             loop[l].pc # "work" /\ loop'[l].pc # "work",
             UNCHANGED <<records, nextId, writes, processMu>>
      PROVE  OnceInv'
  BY <1>0, <1>k, OnceUntouched
<1>1. ASSUME NEW s \in SHAs, Ingest(s) \/ Forget(s)
      PROVE  OnceInv'
  BY <1>0, <1>1, OnceIngest, OnceForget
<1>2. CASE Receive
  <2>1. loop'["live"].pc = "lock" /\ \A k \in Loops \ {"live"} : loop'[k] = loop[k]
    BY <1>0, <1>2, <1>l DEF Receive, TypeOK, Loop
  <2>2. QED
    BY <1>2, <1>l, <1>k, <2>1 DEF Receive, table, ghosts
<1>3. CASE Sweep
  <2>1. loop'["sweep"].pc = "list" /\ \A k \in Loops \ {"sweep"} : loop'[k] = loop[k]
    BY <1>0, <1>3, <1>l DEF Sweep, TypeOK, IdleLoop
  <2>2. QED
    BY <1>3, <1>l, <1>k, <2>1 DEF Sweep, table, ghosts
<1>4. ASSUME NEW limit \in Limits, Resynth(limit)
      PROVE  OnceInv'
  <2>1. loop'["fill"].pc = "list" /\ \A k \in Loops \ {"fill"} : loop'[k] = loop[k]
    BY <1>0, <1>4, <1>l DEF Resynth, TypeOK, IdleLoop
  <2>2. loop["fill"].pc # "work"
    BY <1>4 DEF Resynth, BackfillFlag
  <2>3. QED
    BY <1>4, <1>l, <1>k, <2>1, <2>2 DEF Resynth, table
<1>5. ASSUME NEW l \in Loops, LoopStep(l)
      PROVE  OnceInv'
  <2>1. CASE ListPage(l)
    <3>1. loop'[l].pc = "walk" /\ \A k \in Loops \ {l} : loop'[k] = loop[k]
      BY <1>0, <2>1 DEF ListPage, TypeOK, Loop
    <3>2. QED
      BY <2>1, <3>1, <1>k DEF ListPage, table, ghosts
  <2>2. CASE ListFails(l)
    BY <1>0, <2>2, <1>k, FinishEffect DEF ListFails, table, ghosts
  <2>3. CASE Walk(l)
    <3>0. loop[l].pc = "walk" /\ UNCHANGED <<records, nextId, writes, processMu>>
      BY <2>3 DEF Walk, table, ghosts
    <3>1. ASSUME NEW item,
                 loop' = [loop EXCEPT ![l].pc = "lock", ![l].sha = item[2],
                                      ![l].page = @ \ {item}, ![l].cursor = item[1]]
          PROVE  OnceInv'
      BY <1>0, <3>0, <3>1, <1>k, TakeRow
    <3>2. ASSUME loop' = [loop EXCEPT ![l].pc = "list"]
          PROVE  OnceInv'
      BY <1>0, <3>0, <3>2, <1>k, PcUpdate
    <3>3. ASSUME Finish(l) PROVE OnceInv'
      BY <1>0, <3>0, <3>3, <1>k, FinishEffect
    <3>4. QED
      BY <2>3, <3>1, <3>2, <3>3 DEF Walk
  <2>4. CASE WriteSynth(l)
    BY <1>0, <2>4, OnceWrite
  <2>5. CASE ProcessFails(l)
    <3>1. /\ \A k \in Loops \ {l} : loop'[k] = loop[k]
          /\ loop[l].pc = "work" /\ loop'[l].pc = "failed" /\ processMu' = Nobody
          /\ UNCHANGED <<records, nextId, writes>>
      BY <1>0, <2>5, PcUpdate DEF ProcessFails, table, ghosts
    <3>2. processMu = l
      BY <3>1 DEF OnceInv, MuInv
    <3>3. MuInv'
      BY <3>1, <3>2 DEF OnceInv, MuInv, Loops, Nobody
    <3>4. WorkInv'
      BY <3>1 DEF OnceInv, WorkInv
    <3>5. IdsInv' /\ WritesInv' /\ SynthesisedOnce'
      BY <3>1 DEF OnceInv, IdsInv, WritesInv, SynthesisedOnce, Unsynthesised, Present
    <3>6. QED
      BY <1>0, <3>3, <3>4, <3>5 DEF OnceInv
  <2>6. CASE BumpSynthFailure(l)
    <3>1. \A s \in SHAs : /\ records'[s].id = records[s].id
                          /\ records'[s].synthesised = records[s].synthesised
      BY <1>0, <2>6 DEF BumpSynthFailure, TypeOK, Record
    <3>2. /\ loop[l].pc = "failed" /\ AfterHandle(l)
          /\ UNCHANGED <<nextId, writes, processMu>>
      BY <2>6 DEF BumpSynthFailure, ghosts
    <3>3. \A k \in Loops : \/ loop'[k] = loop[k]
                           \/ loop[k].pc # "work" /\ loop'[k].pc # "work"
      BY <1>0, <3>2, AfterHandleEffect
    <3>4. QED
      BY <1>0, <3>1, <3>2, <3>3, OnceUntouched
  <2>7. QED
    BY <1>5, <2>1, <2>2, <2>3, <2>4, <2>5, <2>6 DEF LoopStep
<1>6. ASSUME NEW l \in Loops, Lock(l)
      PROVE  OnceInv'
  BY <1>0, <1>6, OnceLock
<1>7. ASSUME NEW l \in Loops, FetchFails(l)
      PROVE  OnceInv'
  BY <1>0, <1>7, <1>k, PcUpdate DEF FetchFails, table
<1>8. ASSUME NEW l \in Loops, BumpFails(l)
      PROVE  OnceInv'
  <2>1. loop[l].pc = "failed" /\ AfterHandle(l) /\ UNCHANGED <<records, nextId, writes, processMu>>
    BY <1>8 DEF BumpFails, table, ghosts
  <2>2. QED
    BY <1>0, <1>k, <2>1, AfterHandleEffect
<1>9. CASE LoseView \/ RegisterView \/ UNCHANGED vars
  <2>1. UNCHANGED <<records, nextId, writes, processMu, loop>>
    BY <1>9 DEF LoseView, RegisterView, vars, table, ghosts
  <2>2. QED
    BY <1>0, <2>1, OnceUntouched
<1>10. CASE Restart
  <2>1. /\ \A l \in Loops : loop'[l].pc = "idle"
        /\ processMu' = Nobody /\ UNCHANGED <<records, nextId, writes>>
    BY <1>10 DEF Restart, IdleLoop, table
  <2>2. MuInv' /\ WorkInv'
    BY <2>1 DEF MuInv, WorkInv, Loops, Nobody
  <2>3. IdsInv' /\ WritesInv' /\ SynthesisedOnce'
    BY <2>1 DEF OnceInv, IdsInv, WritesInv, SynthesisedOnce, Unsynthesised, Present
  <2>4. QED
    BY <1>0, <2>2, <2>3 DEF OnceInv
<1>11. QED
  BY <1>1, <1>2, <1>3, <1>4, <1>5, <1>6, <1>7, <1>8, <1>9, <1>10 DEF Next

(* However many goroutines race for a record, and however often it is      *)
(* forgotten and written again meanwhile, its synthesis is committed once. *)
THEOREM SynthesisedOnceHolds == Spec => []SynthesisedOnce
<1>1. Init => OnceInv
  <2>1. Init => TypeOK
    BY TypeInit
  <2>2. Init => MuInv /\ WorkInv
    BY DEF Init, MuInv, WorkInv, IdleLoop, Loops, Nobody
  <2>3. Init => IdsInv
    BY DEF Init, IdsInv, Present, NoRecord
  <2>4. Init => WritesInv /\ SynthesisedOnce
    BY DEF Init, WritesInv, SynthesisedOnce, Unsynthesised, Present, NoRecord
  <2>5. QED
    BY <2>1, <2>2, <2>3, <2>4 DEF OnceInv
<1>2. OnceInv => SynthesisedOnce
  BY DEF OnceInv
<1>3. QED
  BY <1>1, <1>2, OnceStep, BackfillFlagHolds, PTL DEF Spec

-----------------------------------------------------------------------------
(* A poison record costs a bounded number of passes.                       *)

(* Jobs for s in a channel: a job sent adds its own, a job received takes  *)
(* its own away.                                                           *)
LEMMA QueuedCount ==
    ASSUME NEW q \in Seq(SHAs), NEW s \in SHAs
    PROVE  /\ Cardinality(Queued(q, s)) \in Nat
           /\ \A r \in SHAs : Cardinality(Queued(Append(q, r), s))
                                <= Cardinality(Queued(q, s)) + One(r = s)
           /\ q # <<>> => Cardinality(Queued(Tail(q), s)) + One(Head(q) = s)
                            <= Cardinality(Queued(q, s))
           /\ Cardinality(Queued(<<>>, s)) = 0
<1>1. \A p \in Seq(SHAs) : IsFiniteSet(Queued(p, s)) /\ Cardinality(Queued(p, s)) \in Nat
  <2> TAKE p \in Seq(SHAs)
  <2>1. IsFiniteSet(1 .. Len(p))
    BY FS_Interval
  <2>2. Queued(p, s) \in SUBSET (1 .. Len(p))
    BY DEF Queued
  <2>3. QED
    BY <2>1, <2>2, FS_Subset, FS_CardinalityType
<1>2. ASSUME NEW r \in SHAs
      PROVE  Cardinality(Queued(Append(q, r), s)) <= Cardinality(Queued(q, s)) + One(r = s)
  <2>1. CASE r = s
    <3>1. Queued(Append(q, r), s) = Queued(q, s) \cup {Len(q) + 1}
      BY <2>1 DEF Queued
    <3>2. One(r = s) = 1
      BY <2>1 DEF One
    <3>3. Cardinality(Queued(q, s) \cup {Len(q) + 1}) <= Cardinality(Queued(q, s)) + 1
      <4>1. IsFiniteSet(Queued(q, s)) /\ Cardinality(Queued(q, s)) \in Nat
        BY <1>1
      <4>2. Cardinality(Queued(q, s) \cup {Len(q) + 1}) =
              IF Len(q) + 1 \in Queued(q, s) THEN Cardinality(Queued(q, s))
              ELSE Cardinality(Queued(q, s)) + 1
        BY <4>1, FS_AddElement
      <4>3. QED
        BY <4>1, <4>2
    <3>4. QED
      BY <3>1, <3>2, <3>3
  <2>2. CASE r # s
    <3>1. Queued(Append(q, r), s) = Queued(q, s)
      BY <2>2 DEF Queued
    <3>2. One(r = s) = 0
      BY <2>2 DEF One
    <3>3. QED
      BY <1>1, <3>1, <3>2
  <2>3. QED
    BY <2>1, <2>2
<1>3. ASSUME q # <<>>
      PROVE  Cardinality(Queued(Tail(q), s)) + One(Head(q) = s) <= Cardinality(Queued(q, s))
  <2> DEFINE f == [i \in Queued(Tail(q), s) |-> i + 1]
  <2>0. Tail(q) \in Seq(SHAs) /\ Len(q) \in Nat /\ Len(Tail(q)) = Len(q) - 1
    BY <1>3
  <2>1. \A i \in Queued(Tail(q), s) : i + 1 \in Queued(q, s) \ {1}
    BY <1>3, <2>0 DEF Queued
  <2>2. f \in Injection(Queued(Tail(q), s), Queued(q, s) \ {1})
    <3>1. f \in [Queued(Tail(q), s) -> Queued(q, s) \ {1}]
      BY <2>1
    <3>2. \A i, j \in Queued(Tail(q), s) : i + 1 = j + 1 => i = j
      BY DEF Queued
    <3>3. QED
      BY <3>1, <3>2 DEF Injection, IsInjective
  <2>3. IsFiniteSet(Queued(q, s) \ {1})
        /\ Cardinality(Queued(q, s) \ {1}) =
             IF 1 \in Queued(q, s) THEN Cardinality(Queued(q, s)) - 1
             ELSE Cardinality(Queued(q, s))
    BY <1>1, FS_RemoveElement
  <2>4. Cardinality(Queued(Tail(q), s)) <= Cardinality(Queued(q, s) \ {1})
    BY <2>2, <2>3, FS_Injection
  <2>5. Head(q) = s => 1 \in Queued(q, s)
    BY <1>3 DEF Queued
  <2>6. /\ Cardinality(Queued(Tail(q), s)) \in Nat
        /\ Cardinality(Queued(q, s)) \in Nat
    BY <1>1, <2>0
  <2>7. CASE Head(q) = s
    <3>1. One(Head(q) = s) = 1
      BY <2>7 DEF One
    <3>2. QED
      BY <2>3, <2>4, <2>5, <2>6, <2>7, <3>1
  <2>8. CASE Head(q) # s
    <3>1. One(Head(q) = s) = 0
      BY <2>8 DEF One
    <3>2. QED
      BY <2>3, <2>4, <2>6, <3>1
  <2>9. QED
    BY <2>7, <2>8
<1>4. Cardinality(Queued(<<>>, s)) = 0
  <2>1. Queued(<<>>, s) = {}
    BY DEF Queued
  <2>2. QED
    BY <2>1, FS_EmptySet
<1>5. QED
  BY <1>1, <1>2, <1>3, <1>4

(* What the account is made of.                                            *)
PassTyped ==
    \A s \in SHAs :
        /\ \A l \in Loops : One(Due(l, s)) \in 0 .. 1 /\ (Due(l, s) <=> One(Due(l, s)) = 1)
        /\ One(InHand("live", s)) \in 0 .. 1 /\ (InHand("live", s) <=> One(InHand("live", s)) = 1)
        /\ DrainPasses(s) \in 0 .. 2
        /\ LivePasses(s) \in Nat /\ Cardinality(Queued(queue, s)) \in Nat
        /\ records[s].attempts \in Nat /\ ingests[s] \in Nat

LEMMA PassTypes == TypeOK => PassTyped
<1> SUFFICES ASSUME TypeOK, NEW s \in SHAs
    PROVE  /\ \A l \in Loops : One(Due(l, s)) \in 0 .. 1 /\ (Due(l, s) <=> One(Due(l, s)) = 1)
           /\ One(InHand("live", s)) \in 0 .. 1
           /\ InHand("live", s) <=> One(InHand("live", s)) = 1
           /\ DrainPasses(s) \in 0 .. 2
           /\ LivePasses(s) \in Nat /\ Cardinality(Queued(queue, s)) \in Nat
           /\ records[s].attempts \in Nat /\ ingests[s] \in Nat
  BY DEF PassTyped
<1>1. \A l : One(Due(l, s)) \in 0 .. 1 /\ (Due(l, s) <=> One(Due(l, s)) = 1)
  BY DEF One
<1>2. One(InHand("live", s)) \in 0 .. 1 /\ (InHand("live", s) <=> One(InHand("live", s)) = 1)
  BY DEF One
<1>3. DrainPasses(s) \in 0 .. 2
  BY <1>1 DEF DrainPasses
<1>4. LivePasses(s) \in Nat /\ Cardinality(Queued(queue, s)) \in Nat
  <2>1. Cardinality(Queued(queue, s)) \in Nat
    BY QueuedCount DEF TypeOK
  <2>2. QED
    BY <1>2, <2>1 DEF LivePasses
<1>5. records[s].attempts \in Nat /\ ingests[s] \in Nat
  BY DEF TypeOK, Record
<1>6. QED
  BY <1>1, <1>2, <1>3, <1>4, <1>5

LEMMA PassTypesNext == TypeOK' => PassTyped'
  BY PassTypes, PTL

(* The account of one record after a step.                                 *)
LEMMA Account ==
    ASSUME PoisonInv, TypeOK', NEW s \in SHAs, ingests' = ingests,
           LivePasses(s)' <= LivePasses(s),
           \/ /\ records'[s].attempts <= records[s].attempts
              /\ DrainPasses(s)' <= DrainPasses(s)
           \/ records'[s].attempts < MaxSynthAttempts
           \/ /\ records'[s].attempts <= records[s].attempts + 1
              /\ DrainPasses(s)' + LivePasses(s)' < DrainPasses(s) + LivePasses(s)
    PROVE  /\ LivePasses(s)' <= ingests'[s]
           /\ records'[s].attempts + DrainPasses(s)' + LivePasses(s)'
                 <= MaxSynthAttempts + 1 + ingests'[s]
<1>1. /\ DrainPasses(s) \in 0 .. 2 /\ LivePasses(s) \in Nat
      /\ records[s].attempts \in Nat /\ ingests[s] \in Nat
  BY PassTypes DEF PoisonInv, PassTyped
<1>2. /\ DrainPasses(s)' \in 0 .. 2 /\ LivePasses(s)' \in Nat
      /\ records'[s].attempts \in Nat /\ ingests'[s] \in Nat
  BY PassTypesNext DEF PassTyped
<1>3. /\ LivePasses(s) <= ingests[s]
      /\ records[s].attempts + DrainPasses(s) + LivePasses(s)
              <= MaxSynthAttempts + 1 + ingests[s]
  BY DEF PoisonInv, PassesInv
<1>4. MaxSynthAttempts \in Nat
  BY SynthSizesAssumption
<1>5. QED
  BY <1>1, <1>2, <1>3, <1>4

(* A step after which every goroutine has at most the passes it had.       *)
LEMMA PoisonShrinks ==
    ASSUME PoisonInv, TypeOK', ingests' = ingests,
           \A s \in SHAs : /\ records'[s].attempts <= records[s].attempts
                           /\ Cardinality(Queued(queue', s)) <= Cardinality(Queued(queue, s)),
           loop'["live"].pc \notin {"list", "walk"},
           \A l \in Drains : loop'[l].page \subseteq loop[l].page,
           \A l \in Loops, s \in SHAs : InHand(l, s)' => InHand(l, s)
    PROVE  PoisonInv'
<1>0. "sweep" \in Loops /\ "fill" \in Loops /\ "live" \in Loops /\ Drains \subseteq Loops
  BY DEF Loops, Drains
<1>t. PassTyped /\ PassTyped'
  BY PassTypes, PassTypesNext DEF PoisonInv
<1>1. PageInv'
  <2>1. \A l \in Loops : \A a \in loop'[l].page : a[2] \in SHAs
    BY DEF TypeOK, Loop
  <2>2. QED
    BY <1>0, <2>1 DEF PoisonInv, PageInv
<1>2. ASSUME NEW s \in SHAs
      PROVE  /\ LivePasses(s)' <= ingests'[s]
             /\ records'[s].attempts + DrainPasses(s)' + LivePasses(s)'
                   <= MaxSynthAttempts + 1 + ingests'[s]
  <2>1. \A l \in Drains : Due(l, s)' => Due(l, s)
    BY <1>0 DEF Due
  <2>2. DrainPasses(s)' <= DrainPasses(s)
    <3>1. \A l \in {"sweep", "fill"} : One(Due(l, s))' <= One(Due(l, s))
      BY <1>0, <1>t, <2>1 DEF PassTyped, Drains
    <3>2. QED
      BY <1>0, <1>t, <3>1 DEF DrainPasses, PassTyped
  <2>3. LivePasses(s)' <= LivePasses(s)
    <3>1. One(InHand("live", s))' <= One(InHand("live", s))
      BY <1>0, <1>t DEF PassTyped
    <3>2. QED
      BY <1>0, <1>t, <3>1 DEF LivePasses, PassTyped
  <2>4. QED
    BY <2>2, <2>3, Account
<1>3. QED
  BY <1>1, <1>2 DEF PoisonInv, PassesInv

(* A write request pays for the job it may send.                           *)
LEMMA PoisonIngest ==
    ASSUME PoisonInv, TypeOK', NEW s \in SHAs, Ingest(s)
    PROVE  PoisonInv'
<1>t. PassTyped /\ PassTyped' /\ TypeOK
  BY PassTypes, PassTypesNext DEF PoisonInv
<1>0. loop' = loop
  BY DEF Ingest
<1>1. PageInv'
  BY <1>0 DEF PoisonInv, PageInv, InHand
<1>2. ASSUME NEW r \in SHAs
      PROVE  /\ LivePasses(r)' <= ingests'[r]
             /\ records'[r].attempts + DrainPasses(r)' + LivePasses(r)'
                   <= MaxSynthAttempts + 1 + ingests'[r]
  <2>1. records'[r].attempts <= records[r].attempts
    <3>1. records[r].attempts \in Nat
      BY <1>t DEF PassTyped
    <3>2. records' = records \/ records' = [records EXCEPT ![s] = [NoRecord EXCEPT !.id = nextId]]
      BY DEF Ingest, table
    <3>3. [NoRecord EXCEPT !.id = nextId].attempts = 0
      BY DEF NoRecord
    <3>4. records' = records \/ records'[r] = records[r] \/ records'[r].attempts = 0
      BY <1>t, <3>2, <3>3 DEF TypeOK
    <3>5. QED
      BY <3>1, <3>4
  <2>2. ingests'[r] = ingests[r] + One(s = r)
    <3>1. One(s = r) = IF s = r THEN 1 ELSE 0
      BY DEF One
    <3>2. QED
      BY <1>t, <3>1 DEF Ingest, TypeOK
  <2>3. One(s = r) \in 0 .. 1
    BY DEF One
  <2>4. Cardinality(Queued(queue', r)) <= Cardinality(Queued(queue, r)) + One(s = r)
    <3>1. CASE queue' = queue
      BY <1>t, <2>3, <3>1 DEF PassTyped
    <3>2. CASE queue' = Append(queue, s)
      BY <1>t, <3>2, QueuedCount DEF TypeOK
    <3>3. QED
      BY <3>1, <3>2 DEF Ingest, Enqueue
  <2>5. DrainPasses(r)' = DrainPasses(r) /\ InHand("live", r)' = InHand("live", r)
    BY <1>0 DEF DrainPasses, Due, InHand
  <2>6. LivePasses(r)' <= LivePasses(r) + One(s = r)
    BY <1>t, <2>3, <2>4, <2>5 DEF LivePasses, PassTyped
  <2>7. /\ LivePasses(r) <= ingests[r]
        /\ records[r].attempts + DrainPasses(r) + LivePasses(r)
              <= MaxSynthAttempts + 1 + ingests[r]
    BY DEF PoisonInv, PassesInv
  <2>8. QED
    BY <1>t, <2>1, <2>2, <2>3, <2>5, <2>6, <2>7, SynthSizesAssumption DEF PassTyped
<1>3. QED
  BY <1>1, <1>2 DEF PoisonInv, PassesInv

(* The job received was in the channel.                                    *)
LEMMA PoisonReceive ==
    ASSUME PoisonInv, TypeOK', Receive
    PROVE  PoisonInv'
<1>t. PassTyped /\ PassTyped' /\ TypeOK
  BY PassTypes, PassTypesNext DEF PoisonInv
<1>0. /\ \A k \in Drains : loop'[k] = loop[k]
      /\ loop'["live"].pc = "lock" /\ loop'["live"].sha = Head(queue)
      /\ queue # <<>> /\ queue' = Tail(queue) /\ UNCHANGED <<records, ingests>>
  <2>1. /\ queue # <<>> /\ queue' = Tail(queue) /\ UNCHANGED <<records, ingests>>
        /\ loop' = [loop EXCEPT !["live"].pc = "lock", !["live"].sha = Head(queue)]
    BY DEF Receive, table, ghosts
  <2>2. loop \in [Loops -> Loop] /\ "live" \in Loops
    BY <1>t DEF TypeOK, Loops
  <2>3. \A k \in Drains : k \in Loops /\ k # "live"
    BY DEF Drains, Loops
  <2>4. loop'["live"].pc = "lock" /\ loop'["live"].sha = Head(queue)
    BY <2>1, <2>2 DEF Loop
  <2>5. QED
    BY <2>1, <2>2, <2>3, <2>4
<1>1. PageInv'
  BY <1>0 DEF PoisonInv, PageInv, InHand
<1>2. ASSUME NEW s \in SHAs
      PROVE  /\ LivePasses(s)' <= ingests'[s]
             /\ records'[s].attempts + DrainPasses(s)' + LivePasses(s)'
                   <= MaxSynthAttempts + 1 + ingests'[s]
  <2>1. DrainPasses(s)' = DrainPasses(s)
    BY <1>0 DEF DrainPasses, Due, InHand, Drains
  <2>2. InHand("live", s)' <=> Head(queue) = s
    BY <1>0 DEF InHand
  <2>3. One(InHand("live", s))' = One(Head(queue) = s)
    BY <2>2 DEF One
  <2>4. Cardinality(Queued(Tail(queue), s)) + One(Head(queue) = s) <= Cardinality(Queued(queue, s))
    BY <1>0, <1>t, QueuedCount DEF TypeOK
  <2>5. LivePasses(s)' = Cardinality(Queued(Tail(queue), s)) + One(Head(queue) = s)
    BY <1>0, <2>3 DEF LivePasses
  <2>6. LivePasses(s)' <= LivePasses(s)
    BY <1>t, <2>4, <2>5 DEF LivePasses, PassTyped
  <2>7. QED
    BY <1>0, <1>t, <2>1, <2>6, Account DEF PassTyped
<1>3. QED
  BY <1>1, <1>2 DEF PoisonInv, PassesInv

(* A page is drawn from records below the threshold.                       *)
LEMMA PoisonListPage ==
    ASSUME PoisonInv, TypeOK', NEW l \in Loops, l # "live", ListPage(l)
    PROVE  PoisonInv'
<1> DEFINE page == ListSynthBacklog(loop[l].cursor, PageLimit(l))
<1>t. PassTyped /\ PassTyped' /\ TypeOK
  BY PassTypes, PassTypesNext DEF PoisonInv
<1>0. /\ \A k \in Loops \ {l} : loop'[k] = loop[k]
      /\ loop'[l].pc = "walk" /\ loop'[l].page = page
      /\ UNCHANGED <<queue, records, ingests>>
  BY <1>t DEF ListPage, TypeOK, Loop, table, ghosts
<1>p. /\ \A a \in page : a[2] \in SHAs /\ a = <<records[a[2]].id, a[2]>>
                         /\ records[a[2]].attempts < MaxSynthAttempts
      /\ \A a, b \in page : a[2] = b[2] => a = b
  <2>1. \A a \in page : \E s \in SHAs :
           a = <<records[s].id, s>> /\ records[s].attempts < MaxSynthAttempts
    BY Zenon DEF ListSynthBacklog
  <2>2. QED
    BY <2>1
<1> HIDE DEF page
<1>1. PageInv'
  <2>1. \A s : ~InHand(l, s)'
    BY <1>0 DEF InHand
  <2>2. \A k \in Loops \ {l}, s \in SHAs : InHand(k, s)' <=> InHand(k, s)
    BY <1>0 DEF InHand
  <2>3. \A k \in Loops : \A a \in loop[k].page : a[2] \in SHAs
    <3>1. \A k \in Loops : loop[k].page \subseteq Nat \X SHAs
      BY <1>t DEF TypeOK, Loop
    <3>2. QED
      BY <3>1
  <2>4. ASSUME NEW k \in Drains
        PROVE  /\ \A a, b \in loop'[k].page : a[2] = b[2] => a = b
               /\ \A a \in loop'[k].page : ~InHand(k, a[2])'
    <3>1. CASE k = l
      BY <1>0, <1>p, <2>1, <3>1
    <3>2. CASE k # l
      <4>1. k \in Loops \ {l} /\ loop'[k] = loop[k]
        BY <1>0, <3>2 DEF Drains, Loops
      <4>2. QED
        BY <2>2, <2>3, <4>1 DEF PoisonInv, PageInv
    <3>3. QED
      BY <3>1, <3>2
  <2>5. loop'["live"] = loop["live"]
    BY <1>0 DEF Loops
  <2>6. QED
    BY <2>4, <2>5 DEF PoisonInv, PageInv
<1>2. ASSUME NEW s \in SHAs
      PROVE  /\ LivePasses(s)' <= ingests'[s]
             /\ records'[s].attempts + DrainPasses(s)' + LivePasses(s)'
                   <= MaxSynthAttempts + 1 + ingests'[s]
  <2>1. LivePasses(s)' = LivePasses(s)
    <3>1. loop'["live"] = loop["live"]
      BY <1>0 DEF Loops
    <3>2. QED
      BY <1>0, <3>1 DEF LivePasses, InHand
  <2>2. CASE \E a \in page : a[2] = s
    <3>1. records'[s].attempts < MaxSynthAttempts
      BY <1>0, <1>p, <2>2
    <3>2. QED
      BY <1>0, <1>t, <2>1, <3>1, Account DEF PassTyped
  <2>3. CASE ~ \E a \in page : a[2] = s
    <3>1. ~Due(l, s)'
      BY <1>0, <2>3 DEF Due, InHand
    <3>2. \A k \in Loops \ {l} : Due(k, s)' <=> Due(k, s)
      BY <1>0 DEF Due, InHand
    <3>3. \A k \in {"sweep", "fill"} : One(Due(k, s))' <= One(Due(k, s))
      BY <1>t, <3>1, <3>2 DEF PassTyped, Loops
    <3>4. DrainPasses(s)' <= DrainPasses(s)
      BY <1>t, <3>3 DEF DrainPasses, PassTyped, Loops
    <3>5. QED
      BY <1>0, <1>t, <2>1, <3>4, Account DEF PassTyped
  <2>4. QED
    BY <2>2, <2>3
<1>3. QED
  BY <1>1, <1>2 DEF PoisonInv, PassesInv

(* A row taken in hand leaves the page.                                    *)
LEMMA PoisonTake ==
    ASSUME PoisonInv, TypeOK', NEW l \in Loops, l # "live", NEW item \in loop[l].page,
           loop' = [loop EXCEPT ![l].pc = "lock", ![l].sha = item[2],
                                ![l].page = @ \ {item}, ![l].cursor = item[1]],
           UNCHANGED <<queue, records, ingests>>
    PROVE  PoisonInv'
<1>t. PassTyped /\ PassTyped' /\ TypeOK
  BY PassTypes, PassTypesNext DEF PoisonInv
<1>0. /\ \A k \in Loops \ {l} : loop'[k] = loop[k]
      /\ loop'[l].pc = "lock" /\ loop'[l].sha = item[2]
      /\ loop'[l].page = loop[l].page \ {item}
  BY <1>t, TakeRow
<1>l. l \in Drains /\ "live" \in Loops \ {l} /\ Drains \subseteq Loops
  BY DEF Loops, Drains
<1>h. \A k \in Loops \ {l} : \A s : InHand(k, s)' <=> InHand(k, s)
  BY <1>0 DEF InHand
<1>1. PageInv'
  <2>1. ASSUME NEW k \in Drains
        PROVE  /\ \A a, b \in loop'[k].page : a[2] = b[2] => a = b
               /\ \A a \in loop'[k].page : ~InHand(k, a[2])'
    <3>1. CASE k = l
      <4>1. \A a, b \in loop[l].page : a[2] = b[2] => a = b
        BY <1>l DEF PoisonInv, PageInv
      <4>2. \A s : InHand(l, s)' => s = item[2]
        BY <1>0 DEF InHand
      <4>3. QED
        BY <1>0, <3>1, <4>1, <4>2
    <3>2. CASE k # l
      <4>1. k \in Loops \ {l} /\ loop'[k] = loop[k]
        BY <1>0, <1>l, <3>2
      <4>2. QED
        BY <1>h, <4>1 DEF PoisonInv, PageInv
    <3>3. QED
      BY <3>1, <3>2
  <2>2. loop'["live"] = loop["live"]
    BY <1>0, <1>l
  <2>3. QED
    BY <2>1, <2>2 DEF PoisonInv, PageInv
<1>2. ASSUME NEW s \in SHAs
      PROVE  /\ LivePasses(s)' <= ingests'[s]
             /\ records'[s].attempts + DrainPasses(s)' + LivePasses(s)'
                   <= MaxSynthAttempts + 1 + ingests'[s]
  <2>1. InHand("live", s)' <=> InHand("live", s)
    BY <1>h, <1>l
  <2>2. LivePasses(s)' = LivePasses(s)
    BY <2>1 DEF LivePasses, One
  <2>3. Due(l, s)' => Due(l, s)
    BY <1>0 DEF Due, InHand
  <2>4. \A k \in Loops \ {l} : Due(k, s)' => Due(k, s)
    BY <1>0, <1>h DEF Due
  <2>5. \A k \in {"sweep", "fill"} : One(Due(k, s))' <= One(Due(k, s))
    BY <1>t, <2>3, <2>4 DEF PassTyped, Loops
  <2>6. DrainPasses(s)' <= DrainPasses(s)
    BY <1>t, <2>5 DEF DrainPasses, PassTyped, Loops
  <2>7. QED
    BY <1>t, <2>2, <2>6, Account DEF PassTyped
<1>3. QED
  BY <1>1, <1>2 DEF PoisonInv, PassesInv

(* A failure counted was a pass due; it is not due again.                  *)
LEMMA PoisonBump ==
    ASSUME PoisonInv, TypeOK', NEW l \in Loops, BumpSynthFailure(l)
    PROVE  PoisonInv'
<1> DEFINE f == loop[l].sha
<1>t. PassTyped /\ PassTyped' /\ TypeOK
  BY PassTypes, PassTypesNext DEF PoisonInv
<1>0. /\ loop[l].pc = "failed" /\ UNCHANGED <<queue, ingests>>
      /\ \A k \in Loops \ {l} : loop'[k] = loop[k]
      /\ \/ loop'[l].pc = "idle" /\ loop'[l].page = {}
         \/ loop'[l].pc = "walk" /\ loop'[l].page = loop[l].page /\ l # "live"
  BY <1>t, AfterHandleEffect DEF BumpSynthFailure, ghosts
<1>l. /\ l # "live" => l \in Drains
      /\ "live" \in Loops /\ Drains \subseteq Loops /\ Drains = {"sweep", "fill"}
  BY DEF Loops, Drains
<1>h. /\ \A k \in Loops \ {l} : \A s : InHand(k, s)' <=> InHand(k, s)
      /\ \A s : ~InHand(l, s)'
      /\ InHand(l, f)
  BY <1>0 DEF InHand
<1>f. f \in SHAs
  BY <1>t DEF TypeOK, Loop
<1>a. \A s \in SHAs : /\ s # f => records'[s].attempts = records[s].attempts
                      /\ records'[s].attempts <= records[s].attempts + 1
  <2>1. \A s \in SHAs : records[s].attempts \in Nat /\ records[s] \in Record
    BY <1>t DEF PassTyped, TypeOK
  <2>2. CASE records' = records
    BY <2>1, <2>2
  <2>3. CASE records' = [records EXCEPT ![f].attempts = @ + 1]
    <3>1. \A s \in SHAs \ {f} : records'[s] = records[s]
      BY <1>t, <2>3 DEF TypeOK
    <3>2. records'[f].attempts = records[f].attempts + 1
      BY <1>t, <1>f, <2>1, <2>3 DEF TypeOK, Record
    <3>3. QED
      BY <1>f, <2>1, <3>1, <3>2
  <2>4. QED
    BY <2>2, <2>3 DEF BumpSynthFailure
<1> HIDE DEF f
<1>1. PageInv'
  <2>1. \A k \in Drains : /\ loop'[k].page \subseteq loop[k].page
                          /\ \A s : InHand(k, s)' => InHand(k, s)
    BY <1>0, <1>l, <1>h
  <2>2. loop'["live"].pc \notin {"list", "walk"}
    BY <1>0, <1>l DEF PoisonInv, PageInv
  <2>3. QED
    BY <2>1, <2>2 DEF PoisonInv, PageInv
<1>2. ASSUME NEW s \in SHAs
      PROVE  /\ LivePasses(s)' <= ingests'[s]
             /\ records'[s].attempts + DrainPasses(s)' + LivePasses(s)'
                   <= MaxSynthAttempts + 1 + ingests'[s]
  <2>1. InHand("live", s)' => InHand("live", s)
    BY <1>h, <1>l
  <2>2. LivePasses(s)' <= LivePasses(s)
    <3>1. One(InHand("live", s))' <= One(InHand("live", s))
      BY <1>t, <2>1 DEF PassTyped
    <3>2. QED
      BY <1>0, <1>t, <3>1 DEF LivePasses, PassTyped
  <2>3. \A k \in Drains : Due(k, s)' => Due(k, s)
    BY <1>0, <1>h, <1>l DEF Due
  <2>4. \A k \in Drains : One(Due(k, s))' <= One(Due(k, s))
    BY <1>t, <1>l, <2>3 DEF PassTyped
  <2>5. DrainPasses(s)' <= DrainPasses(s)
    BY <1>t, <1>l, <2>4 DEF DrainPasses, PassTyped
  <2>6. CASE s # f
    BY <1>0, <1>t, <1>a, <2>2, <2>5, <2>6, Account DEF PassTyped
  <2>7. CASE s = f /\ l = "live"
    <3>1. One(InHand("live", s))' = 0 /\ One(InHand("live", s)) = 1
      BY <1>h, <2>7 DEF One
    <3>2. LivePasses(s)' < LivePasses(s)
      BY <1>0, <1>t, <3>1 DEF LivePasses, PassTyped
    <3>3. QED
      BY <1>0, <1>t, <1>a, <2>2, <2>5, <3>2, Account DEF PassTyped
  <2>8. CASE s = f /\ l # "live"
    <3>1. l \in Drains
      BY <1>l, <2>8
    <3>2. \A a \in loop[l].page : a[2] # f
      BY <1>h, <3>1 DEF PoisonInv, PageInv
    <3>3. Due(l, s) /\ ~Due(l, s)'
      BY <1>0, <1>h, <2>8, <3>2 DEF Due
    <3>4. One(Due(l, s))' = 0 /\ One(Due(l, s)) = 1
      BY <3>3 DEF One
    <3>5. DrainPasses(s)' < DrainPasses(s)
      BY <1>t, <1>l, <2>4, <3>1, <3>4 DEF DrainPasses, PassTyped
    <3>6. QED
      BY <1>0, <1>t, <1>a, <2>2, <3>5, Account DEF PassTyped
  <2>9. QED
    BY <2>6, <2>7, <2>8
<1>3. QED
  BY <1>1, <1>2 DEF PoisonInv, PassesInv

(* Every step keeps the account.                                           *)
LEMMA PoisonStep == PoisonInv /\ [Next]_vars => PoisonInv'
<1> SUFFICES ASSUME PoisonInv, [Next]_vars PROVE PoisonInv'
  OBVIOUS
<1>0. TypeOK /\ TypeOK' /\ PassTyped
  BY TypeStep, PassTypes DEF PoisonInv
<1>l. /\ "fill" \in Loops /\ "live" \in Loops /\ "sweep" \in Loops
      /\ Drains = {"sweep", "fill"} /\ Drains \subseteq Loops
      /\ loop["live"].pc \notin {"list", "walk"}
  BY DEF Loops, Drains, PoisonInv, PageInv
<1>n. \A s \in SHAs : /\ records[s].attempts \in Nat
                      /\ Cardinality(Queued(queue, s)) \in Nat
  BY <1>0 DEF PassTyped
<1>k. ASSUME NEW l \in Loops, \A k \in Loops \ {l} : loop'[k] = loop[k],
             UNCHANGED <<queue, ingests>>,
             \A s \in SHAs : records'[s].attempts <= records[s].attempts,
             l = "live" => loop'[l].pc \notin {"list", "walk"},
             loop'[l].page \subseteq loop[l].page \/ l = "live",
             \A s \in SHAs : InHand(l, s)' => InHand(l, s)
      PROVE  PoisonInv'
  <2>1. \A k \in Loops \ {l}, s \in SHAs : InHand(k, s)' => InHand(k, s)
    BY <1>k DEF InHand
  <2>2. loop'["live"].pc \notin {"list", "walk"}
    BY <1>k, <1>l
  <2>3. \A k \in Drains : loop'[k].page \subseteq loop[k].page
    BY <1>k, <1>l
  <2>4. \A k \in Loops, s \in SHAs : InHand(k, s)' => InHand(k, s)
    BY <1>k, <2>1
  <2>5. QED
    BY <1>0, <1>n, <1>k, <2>2, <2>3, <2>4, PoisonShrinks
<1>a. UNCHANGED records => \A s \in SHAs : records'[s].attempts <= records[s].attempts
  BY <1>n
<1>f. ASSUME NEW l \in Loops, Finish(l), UNCHANGED <<queue, ingests, records>>
      PROVE  PoisonInv'
  <2>1. \A s \in SHAs : ~InHand(l, s)'
    BY <1>0, <1>f, FinishEffect DEF InHand
  <2>2. QED
    BY <1>0, <1>a, <1>f, <1>k, <2>1, FinishEffect
<1>h. ASSUME NEW l \in Loops, AfterHandle(l), UNCHANGED <<queue, ingests>>,
             \A s \in SHAs : records'[s].attempts <= records[s].attempts
      PROVE  PoisonInv'
  <2>1. \A s \in SHAs : ~InHand(l, s)'
    BY <1>0, <1>h, AfterHandleEffect DEF InHand
  <2>2. /\ loop'[l].page \subseteq loop[l].page
        /\ l = "live" => loop'[l].pc \notin {"list", "walk"}
        /\ \A k \in Loops \ {l} : loop'[k] = loop[k]
    BY <1>0, <1>h, AfterHandleEffect
  <2>3. QED
    BY <1>h, <1>k, <2>1, <2>2
<1>p. ASSUME NEW l \in Loops, NEW pc \in {"list", "work", "failed"},
             loop' = [loop EXCEPT ![l].pc = pc], UNCHANGED <<queue, ingests, records>>,
             \/ pc = "list" /\ loop[l].pc = "walk"
             \/ pc \in {"work", "failed"} /\ loop[l].pc \in {"lock", "work"}
      PROVE  PoisonInv'
  <2>1. /\ \A k \in Loops \ {l} : loop'[k] = loop[k]
        /\ loop'[l].pc = pc /\ loop'[l].sha = loop[l].sha /\ loop'[l].page = loop[l].page
    BY <1>0, <1>p, PcUpdate
  <2>2. \A s \in SHAs : InHand(l, s)' => InHand(l, s)
    BY <1>p, <2>1 DEF InHand
  <2>3. l = "live" => loop'[l].pc \notin {"list", "walk"}
    BY <1>p, <1>l, <2>1
  <2>4. QED
    BY <1>p, <1>a, <1>k, <2>1, <2>2, <2>3
<1>1. ASSUME NEW s \in SHAs, Ingest(s)
      PROVE  PoisonInv'
  BY <1>0, <1>1, PoisonIngest
<1>2. ASSUME NEW s \in SHAs, Forget(s)
      PROVE  PoisonInv'
  <2>1. \A r \in SHAs : records'[r].attempts <= records[r].attempts
    <3>1. records'[s].attempts = 0 /\ \A r \in SHAs \ {s} : records'[r] = records[r]
      BY <1>0, <1>2 DEF Forget, TypeOK, NoRecord
    <3>2. QED
      BY <1>n, <3>1
  <2>2. UNCHANGED <<loop, queue, ingests>>
    BY <1>2 DEF Forget
  <2>3. \A s1 \in SHAs : InHand("live", s1)' => InHand("live", s1)
    BY <2>2 DEF InHand
  <2>4. QED
    BY <1>k, <1>l, <2>1, <2>2, <2>3
<1>3. CASE Receive
  BY <1>0, <1>3, PoisonReceive
<1>4. CASE Sweep
  <2>1. /\ loop'["sweep"].pc = "list" /\ loop'["sweep"].page = {}
        /\ \A k \in Loops \ {"sweep"} : loop'[k] = loop[k]
        /\ UNCHANGED <<queue, ingests, records>>
    BY <1>0, <1>4, <1>l DEF Sweep, TypeOK, IdleLoop, table, ghosts
  <2>2. \A s \in SHAs : ~InHand("sweep", s)'
    BY <2>1 DEF InHand
  <2>3. QED
    BY <1>l, <1>a, <1>k, <2>1, <2>2
<1>5. ASSUME NEW limit \in Limits, Resynth(limit)
      PROVE  PoisonInv'
  <2>1. /\ loop'["fill"].pc = "list" /\ loop'["fill"].page = {}
        /\ \A k \in Loops \ {"fill"} : loop'[k] = loop[k]
        /\ UNCHANGED <<queue, ingests, records>>
    BY <1>0, <1>5, <1>l DEF Resynth, TypeOK, IdleLoop, table
  <2>2. \A s \in SHAs : ~InHand("fill", s)'
    BY <2>1 DEF InHand
  <2>3. QED
    BY <1>l, <1>a, <1>k, <2>1, <2>2
<1>6. ASSUME NEW l \in Loops, LoopStep(l)
      PROVE  PoisonInv'
  <2>1. CASE ListPage(l)
    <3>1. l # "live"
      BY <1>l, <2>1 DEF ListPage
    <3>2. QED
      BY <1>0, <2>1, <3>1, PoisonListPage
  <2>2. CASE ListFails(l)
    BY <2>2, <1>f DEF ListFails, table, ghosts
  <2>3. CASE Walk(l)
    <3>0. loop[l].pc = "walk" /\ l # "live" /\ UNCHANGED <<queue, ingests, records>>
      BY <1>l, <2>3 DEF Walk, table, ghosts
    <3>1. ASSUME NEW item \in loop[l].page,
                 loop' = [loop EXCEPT ![l].pc = "lock", ![l].sha = item[2],
                                      ![l].page = @ \ {item}, ![l].cursor = item[1]]
          PROVE  PoisonInv'
      BY <1>0, <3>0, <3>1, PoisonTake
    <3>2. ASSUME loop' = [loop EXCEPT ![l].pc = "list"]
          PROVE  PoisonInv'
      BY <3>0, <3>2, <1>p
    <3>3. ASSUME Finish(l) PROVE PoisonInv'
      BY <3>0, <3>3, <1>f
    <3>4. QED
      BY <2>3, <3>1, <3>2, <3>3 DEF Walk
  <2>4. CASE WriteSynth(l)
    <3>1. \A s \in SHAs : records'[s].attempts <= records[s].attempts
      <4>1. \A s \in SHAs : records'[s].attempts = records[s].attempts
        BY <1>0, <2>4 DEF WriteSynth, TypeOK, Record
      <4>2. QED
        BY <1>n, <4>1
    <3>2. AfterHandle(l) /\ UNCHANGED <<queue, ingests>>
      BY <2>4 DEF WriteSynth
    <3>3. QED
      BY <1>h, <3>1, <3>2
  <2>5. CASE ProcessFails(l)
    BY <2>5, <1>p DEF ProcessFails, table, ghosts
  <2>6. CASE BumpSynthFailure(l)
    BY <1>0, <2>6, PoisonBump
  <2>7. QED
    BY <1>6, <2>1, <2>2, <2>3, <2>4, <2>5, <2>6 DEF LoopStep
<1>7. ASSUME NEW l \in Loops, Lock(l)
      PROVE  PoisonInv'
  <2>1. loop[l].pc = "lock" /\ UNCHANGED <<queue, ingests, records>>
    BY <1>7 DEF Lock, table
  <2>2. ASSUME loop' = [loop EXCEPT ![l].pc = "work"]
        PROVE  PoisonInv'
    BY <1>p, <2>1, <2>2
  <2>3. ASSUME AfterHandle(l) PROVE PoisonInv'
    BY <1>a, <1>h, <2>1, <2>3
  <2>4. QED
    BY <1>7, <2>2, <2>3 DEF Lock
<1>8. ASSUME NEW l \in Loops, FetchFails(l)
      PROVE  PoisonInv'
  BY <1>8, <1>p DEF FetchFails, table
<1>9. ASSUME NEW l \in Loops, BumpFails(l)
      PROVE  PoisonInv'
  BY <1>9, <1>a, <1>h DEF BumpFails, table, ghosts
<1>10. CASE LoseView \/ RegisterView \/ UNCHANGED vars
  <2>1. UNCHANGED <<loop, queue, ingests, records>>
    BY <1>10 DEF LoseView, RegisterView, vars, table, ghosts
  <2>2. \A s \in SHAs : InHand("live", s)' => InHand("live", s)
    BY <2>1 DEF InHand
  <2>3. QED
    BY <1>k, <1>l, <1>a, <2>1, <2>2
<1>11. CASE Restart
  <2>1. /\ \A l \in Loops : loop'[l].pc = "idle" /\ loop'[l].page = {}
        /\ queue' = <<>> /\ UNCHANGED <<ingests, records>>
    BY <1>11 DEF Restart, IdleLoop, table
  <2>2. \A l \in Loops, s \in SHAs : ~InHand(l, s)'
    BY <2>1 DEF InHand
  <2>3. \A s \in SHAs : Cardinality(Queued(queue', s)) = 0
    BY <1>0, <2>1, QueuedCount DEF TypeOK
  <2>4. \A s \in SHAs : /\ records'[s].attempts <= records[s].attempts
                        /\ Cardinality(Queued(queue', s)) <= Cardinality(Queued(queue, s))
    BY <1>a, <1>n, <2>1, <2>3
  <2>5. /\ loop'["live"].pc \notin {"list", "walk"}
        /\ \A l \in Drains : loop'[l].page \subseteq loop[l].page
        /\ \A l \in Loops, s \in SHAs : InHand(l, s)' => InHand(l, s)
    BY <1>l, <2>1, <2>2
  <2>6. QED
    BY <1>0, <2>1, <2>4, <2>5, PoisonShrinks
<1>12. QED
  BY <1>1, <1>2, <1>3, <1>4, <1>5, <1>6, <1>7, <1>8, <1>9, <1>10, <1>11 DEF Next

(* The failures counted on a record never exceed the dead-letter threshold *)
(* by more than the passes that were already under way when it was reached: *)
(* one for the second drain and one for each write request's job.          *)
THEOREM PoisonIsBoundedHolds == Spec => []PoisonIsBounded
<1>1. Init => PoisonInv
  <2>1. Init => TypeOK
    BY TypeInit
  <2>2. Init => \A l \in Loops : loop[l].pc = "idle" /\ loop[l].page = {}
    BY DEF Init, IdleLoop
  <2>3. "live" \in Loops /\ "sweep" \in Loops /\ "fill" \in Loops /\ Drains \subseteq Loops
    BY DEF Loops, Drains
  <2>4. Init => PageInv
    BY <2>2, <2>3 DEF PageInv, InHand
  <2>5. ASSUME Init, NEW s \in SHAs
        PROVE  LivePasses(s) = 0 /\ DrainPasses(s) = 0 /\ records[s].attempts = 0 /\ ingests[s] = 0
    <3>1. \A l \in Loops : ~InHand(l, s) /\ ~Due(l, s)
      BY <2>2, <2>5 DEF InHand, Due
    <3>2. Cardinality(Queued(queue, s)) = 0
      BY <2>1, <2>5, QueuedCount DEF Init, TypeOK
    <3>3. QED
      BY <2>3, <2>5, <3>1, <3>2 DEF LivePasses, DrainPasses, One, Init, NoRecord
  <2>6. Init => PassesInv
    BY <2>5, SynthSizesAssumption DEF PassesInv
  <2>7. QED
    BY <2>1, <2>4, <2>6 DEF PoisonInv
<1>2. PoisonInv => PoisonIsBounded
  <2> SUFFICES ASSUME PoisonInv, NEW s \in SHAs
               PROVE  records[s].attempts <= MaxSynthAttempts + 1 + ingests[s]
    BY DEF PoisonIsBounded
  <2>1. PassTyped
    BY PassTypes DEF PoisonInv
  <2>2. records[s].attempts + DrainPasses(s) + LivePasses(s) <= MaxSynthAttempts + 1 + ingests[s]
    BY DEF PoisonInv, PassesInv
  <2>3. QED
    BY <2>1, <2>2, SynthSizesAssumption DEF PassTyped
<1>3. QED
  BY <1>1, <1>2, PoisonStep, PTL DEF Spec
=============================================================================
