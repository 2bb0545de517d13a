------------------------- MODULE ClientFiles_proofs -------------------------
(***************************************************************************)
(* Proofs about the two components that keep files on the client machine:  *)
(* a mart's notes and its cursor (MartSync), and the shards of working     *)
(* memory (WorkingMemory).  Each theorem is about one specification; the   *)
(* components share nothing but the machine.                               *)
(*                                                                         *)
(* The mart, for any number of records, writers and runs, any page size    *)
(* and any clock.  Shape is types, versions and what a run has in hand in  *)
(* each phase; Solo says which runs may rely on the directory being        *)
(* theirs.  Feed is the argument itself: a Sync that is alone has applied, *)
(* or holds on its page, every record up to its position (SyncApplies); a  *)
(* Build that is alone has rendered every record up to its position that   *)
(* nobody changed meanwhile (BuildRenders); and the saved cursor is honest *)
(* while no rebuild from nothing goes on (Honest).  That a page leaves out *)
(* no row before its last rests on the rank of a listed record being a     *)
(* bijection onto an initial segment (RankIsBijection).                    *)
(*                                                                         *)
(* Working memory, for any number of processes, pids, calls, tasks and     *)
(* items.  AllListed carries what a task_complete call has listed to the   *)
(* moment it marks the task.  Unique, Marked and Dead say what a reaper    *)
(* may believe about a pid it probed; Cleared follows a dead pid's shard   *)
(* from the listing of the directory to its removal.                       *)
(***************************************************************************)
EXTENDS MartSync, WorkingMemory, FiniteSetTheorems, TLAPS

(* The mart: what its runs keep.                                           *)

Entry    == [id : Ids, ver : Nat, key : Pos]
Phases   == {"idle", "wipe", "wiping", "list", "save", "unlinked", "built"}
MartRun  == [pc : Phases, mode : {"sync", "build"}, pos : Pos, page : SUBSET Entry,
             full : BOOLEAN, wrote : SUBSET Ids, open : 0 .. MaxRecords]

(* The parts of the state the type invariant leaves out.                   *)
MartTypes ==
    /\ TypeOK
    /\ last \in [Ids -> Nat] /\ note \in [Ids -> Nat]
    /\ run \in [Runners -> MartRun]
    /\ dirty \in [Runners -> SUBSET Ids] /\ alone \in [Runners -> BOOLEAN]
    /\ ephemeral \in BOOLEAN /\ damaged \in BOOLEAN
    /\ writes \in Nat
    /\ \A w \in Writers : tx[w] # NoTx => tx[w].id \in Ids /\ tx[w].at >= 1

(* Every version given out, and every one still to come, was a write.      *)
OpenOn(i) == {w \in Writers : tx[w].id = i}
Counted ==
    /\ writes <= MaxWrites
    /\ \A i \in Ids : last[i] + Cardinality(OpenOn(i)) <= writes /\ rec[i].ver <= last[i]

(* What a run has in hand in each of its phases.                           *)
InPhase(m) ==
    /\ Active(m) => dest # "none"
    /\ run[m].mode = "sync" => run[m].pc \in {"idle", "list", "save", "unlinked"}
    /\ run[m].mode = "build" => run[m].pos[1] = 0
    /\ run[m].pc \in {"wipe", "wiping"} =>
          ephemeral /\ run[m].page = {} /\ run[m].wrote = {} /\ run[m].full /\ run[m].pos = Zero
    /\ run[m].pc = "save" => run[m].page = {} /\ run[m].mode = "sync"
    /\ run[m].page = {} => run[m].open = 0
    /\ \A e \in run[m].page : e.ver <= last[e.id]
Phased == \A m \in Runners : InPhase(m)

(* A run that is alone is the only one; without damage every run is.       *)
Solo ==
    \A m \in Runners : Active(m) =>
        /\ ~damaged => alone[m]
        /\ alone[m] => \A n \in Runners : Active(n) => n = m

(* The record is listed, not past the position, and no exception.          *)
Owed(pos, i) == rec[i].ver > 0 /\ ~Before(pos, <<rec[i].at, i>>) /\ i \notin late

(* A Sync applies what it passes, and truncates no note the cursor vouches *)
(* for: what is on its page comes after the cursor.                        *)
Syncing(m) == alone[m] /\ run[m].mode = "sync" /\ run[m].pc \in {"list", "save"}
SyncApplies(m) ==
    /\ ~Before(run[m].pos, cursor)
    /\ run[m].open # 0 => run[m].open \in torn
    /\ \A e \in run[m].page : /\ ~Owed(cursor, e.id)
                              /\ Owed(run[m].pos, e.id) => e.ver = rec[e.id].ver
    /\ ~damaged => \A i \in Ids : Owed(run[m].pos, i) =>
                       note[i] = rec[i].ver \/ i \in broken \/ \E e \in run[m].page : e.id = i

(* A Build renders what it passes, and ends when it has passed everything. *)
Building(m) == alone[m] /\ run[m].mode = "build" /\ Active(m)
BuildRenders(m) ==
    /\ \A i \in dirty[m] : ~Owed(cursor, i)
    /\ run[m].pc = "list" =>
         /\ run[m].open # 0 => run[m].open \in torn
         /\ \A e \in run[m].page : e.id \notin dirty[m] => e.ver = rec[e.id].ver /\ e.ver > 0
         /\ \A i \in Ids \ dirty[m] :
               /\ i \in run[m].wrote /\ i # run[m].open => rec[i].ver > 0 /\ note[i] = rec[i].ver
               /\ rec[i].ver > 0 => \/ i \in run[m].wrote
                                    \/ \E e \in run[m].page : e.id = i
                                    \/ run[m].full /\ i > run[m].pos[2]
    /\ run[m].pc = "built" => \A i \in Ids \ dirty[m] : note[i] = rec[i].ver /\ i \notin torn

(* The cursor is honest, except while a rebuild from nothing goes on and   *)
(* for the notes a Build has truncated.                                    *)
Wiped == ephemeral /\ \E m \in Runners : run[m].mode = "build"
                                         /\ run[m].pc \in {"wipe", "wiping", "list"}
Honest == ~damaged /\ ~Wiped =>
              \A i \in Ids : Owed(cursor, i) => note[i] = rec[i].ver \/ i \in broken

Feed == /\ \A m \in Runners : Syncing(m) => SyncApplies(m)
        /\ \A m \in Runners : Building(m) => BuildRenders(m)
        /\ Honest
Shape == MartTypes /\ Counted /\ Phased
MartInv == Shape /\ Solo /\ Feed

-----------------------------------------------------------------------------
(* Constants and positions.                                                *)

LEMMA MartConstants ==
    /\ MaxRecords \in Nat /\ PageSize \in Nat /\ PageSize >= 1
    /\ MaxClock \in Nat /\ MaxClock >= 1 /\ MaxWrites \in Nat /\ MaxUpsets \in Nat
    /\ \A i \in Ids : i \in Nat /\ i >= 1 /\ i <= MaxRecords
    /\ Zero \in Pos
  BY MartAssumption DEF Ids, Zero, Pos

LEMMA PosParts ==
    ASSUME NEW a \in Pos
    PROVE  /\ a[1] \in Nat /\ a[2] \in Nat /\ a[1] <= MaxClock /\ a[2] <= MaxRecords
           /\ a = <<a[1], a[2]>>
  BY MartConstants DEF Pos

LEMMA BeforeIsOrder ==
    ASSUME NEW a \in Pos, NEW b \in Pos
    PROVE  /\ ~Before(a, a)
           /\ Before(a, b) => ~Before(b, a)
           /\ Before(a, b) \/ Before(b, a) \/ a = b
  BY PosParts DEF Before

LEMMA BeforeIsTransitive ==
    ASSUME NEW a \in Pos, NEW b \in Pos, NEW c \in Pos
    PROVE  /\ Before(a, b) /\ Before(b, c) => Before(a, c)
           /\ ~Before(a, b) /\ ~Before(b, c) => ~Before(a, c)
  BY PosParts DEF Before

(* Where a record stands in the feed, and in either listing.               *)
LEMMA Standing ==
    ASSUME TypeOK, NEW i \in Ids
    PROVE  /\ <<rec[i].at, i>> \in Pos /\ <<0, i>> \in Pos
           /\ \A mode : Key(mode, i) \in Pos
           /\ Key("sync", i) = <<rec[i].at, i>> /\ Key("build", i) = <<0, i>>
           /\ Before(Zero, <<rec[i].at, i>>)
<1>1. rec[i].at \in 0 .. MaxClock /\ i \in 0 .. MaxRecords /\ 0 \in 0 .. MaxClock
  BY MartConstants DEF TypeOK
<1>2. <<rec[i].at, i>> \in Pos /\ <<0, i>> \in Pos
  BY <1>1 DEF Pos
<1>3. Before(Zero, <<rec[i].at, i>>)
  BY <1>1, MartConstants DEF Before, Zero
<1>4. QED
  BY <1>2, <1>3 DEF Key

-----------------------------------------------------------------------------
(* A page of either listing: the rank of a record among those listed is a  *)
(* bijection, so a page has a last row and leaves no row out before it.    *)

Earlier(mode, pos, i) == {j \in Listed(mode, pos) : Before(Key(mode, j), Key(mode, i))}
Rank(mode, pos) == [i \in Listed(mode, pos) |-> Cardinality(Earlier(mode, pos, i))]
FirstRows(mode, pos) == {i \in Listed(mode, pos) : Rank(mode, pos)[i] < PageSize}

LEMMA ListedFinite ==
    ASSUME NEW mode, NEW pos
    PROVE  /\ Listed(mode, pos) \subseteq Ids
           /\ IsFiniteSet(Listed(mode, pos)) /\ Cardinality(Listed(mode, pos)) \in Nat
<1>1. IsFiniteSet(Ids)
  BY MartConstants, FS_Interval DEF Ids
<1>2. Listed(mode, pos) \in SUBSET Ids
  BY DEF Listed
<1>3. QED
  BY <1>1, <1>2, FS_Subset, FS_CardinalityType

LEMMA RankMonotone ==
    ASSUME TypeOK, NEW mode, NEW pos, NEW i \in Listed(mode, pos), NEW j \in Listed(mode, pos),
           Before(Key(mode, i), Key(mode, j))
    PROVE  Rank(mode, pos)[i] < Rank(mode, pos)[j]
<1> DEFINE E(k) == Earlier(mode, pos, k)
<1>0. \A k \in Listed(mode, pos) : k \in Ids /\ Key(mode, k) \in Pos
  BY ListedFinite, Standing
<1>1. \A k : IsFiniteSet(E(k)) /\ Cardinality(E(k)) \in Nat
  <2>1. \A k : E(k) \in SUBSET Listed(mode, pos)
    BY DEF Earlier
  <2>2. QED
    BY <2>1, ListedFinite, FS_Subset, FS_CardinalityType
<1>2. i \notin E(i)
  BY <1>0, BeforeIsOrder DEF Earlier
<1>3. E(i) \cup {i} \in SUBSET E(j)
  <2>1. \A k \in E(i) : k \in E(j)
    BY <1>0, BeforeIsTransitive DEF Earlier
  <2>2. i \in E(j)
    BY DEF Earlier
  <2>3. QED
    BY <2>1, <2>2
<1>4. Cardinality(E(i) \cup {i}) = Cardinality(E(i)) + 1
  BY <1>1, <1>2, FS_AddElement
<1>5. Cardinality(E(i) \cup {i}) <= Cardinality(E(j))
  BY <1>1, <1>3, FS_Subset
<1>6. Cardinality(E(i)) < Cardinality(E(j))
  BY <1>1, <1>4, <1>5
<1>7. QED
  BY <1>6 DEF Rank

LEMMA RankIsBijection ==
    ASSUME TypeOK, NEW mode, NEW pos
    PROVE  LET L == Listed(mode, pos) IN
           /\ Rank(mode, pos) \in Injection(L, 0 .. Cardinality(L) - 1)
           /\ \A n \in 0 .. Cardinality(L) - 1 : \E i \in L : Rank(mode, pos)[i] = n
<1> DEFINE L == Listed(mode, pos)
           R == Rank(mode, pos)
           N == Cardinality(L)
<1>0. /\ IsFiniteSet(L) /\ N \in Nat /\ \A k \in L : k \in Ids /\ Key(mode, k) \in Pos
  BY ListedFinite, Standing
<1>1. ASSUME NEW i \in L PROVE R[i] \in 0 .. N - 1
  <2>1. Earlier(mode, pos, i) \in SUBSET (L \ {i})
    BY <1>0, BeforeIsOrder DEF Earlier
  <2>2. IsFiniteSet(L \ {i}) /\ Cardinality(L \ {i}) = N - 1
    BY <1>0, FS_RemoveElement
  <2>3. /\ Cardinality(Earlier(mode, pos, i)) <= N - 1
        /\ Cardinality(Earlier(mode, pos, i)) \in Nat
    BY <2>1, <2>2, FS_Subset, FS_CardinalityType
  <2>4. QED
    BY <1>0, <2>3 DEF Rank
<1>2. ASSUME NEW i \in L, NEW j \in L, R[i] = R[j] PROVE i = j
  <2>1. Key(mode, i) \in Pos /\ Key(mode, j) \in Pos /\ R[i] \in Nat /\ R[j] \in Nat
    BY <1>0, <1>1
  <2>2. ~Before(Key(mode, i), Key(mode, j)) /\ ~Before(Key(mode, j), Key(mode, i))
    BY <1>2, <2>1, RankMonotone
  <2>3. Key(mode, i) = Key(mode, j)
    BY <2>1, <2>2, BeforeIsOrder
  <2>4. QED
    BY <2>3 DEF Key
<1>3. R \in Injection(L, 0 .. N - 1)
  <2>1. R \in [L -> 0 .. N - 1]
    BY <1>1 DEF Rank
  <2>2. QED
    BY <1>2, <2>1 DEF Injection, IsInjective
<1>4. IsFiniteSet(0 .. N - 1) /\ Cardinality(0 .. N - 1) = N
  BY <1>0, FS_Interval
<1>5. R \in Surjection(L, 0 .. N - 1)
  BY <1>3, <1>4, FS_Injection
<1>6. QED
  BY <1>3, <1>5 DEF Surjection

(* The rows of a page, the last of them, and what a short page means.      *)
LEMMA RowsOfPage ==
    ASSUME TypeOK, NEW mode, NEW pos
    PROVE  /\ FirstRows(mode, pos) # {} =>
                \E i \in FirstRows(mode, pos) : \A j \in FirstRows(mode, pos) :
                    ~Before(Key(mode, i), Key(mode, j))
           /\ \A j \in FirstRows(mode, pos), i \in Listed(mode, pos) :
                ~Before(Key(mode, j), Key(mode, i)) => i \in FirstRows(mode, pos)
           /\ Cardinality(FirstRows(mode, pos)) # PageSize =>
                FirstRows(mode, pos) = Listed(mode, pos)
<1> DEFINE L == Listed(mode, pos)
           F == FirstRows(mode, pos)
           R == Rank(mode, pos)
           N == Cardinality(L)
<1>0. /\ IsFiniteSet(L) /\ N \in Nat /\ \A k \in L : k \in Ids /\ Key(mode, k) \in Pos
  BY ListedFinite, Standing
<1>1. /\ R \in [L -> 0 .. N - 1] /\ \A i, j \in L : R[i] = R[j] => i = j
      /\ \A n \in 0 .. N - 1 : \E i \in L : R[i] = n
  BY RankIsBijection DEF Injection, IsInjective
<1>2. \A i \in L : i \in F <=> R[i] < PageSize
  BY DEF FirstRows
<1>3. F \subseteq L
  BY DEF FirstRows
<1>4. ASSUME F # {}
      PROVE  \E i \in F : \A j \in F : ~Before(Key(mode, i), Key(mode, j))
  <2>1. N >= 1
    BY <1>0, <1>1, <1>3, <1>4
  <2>2. PICK n \in 0 .. N - 1 : n < PageSize /\ \A k \in 0 .. N - 1 : k < PageSize => k <= n
    <3>1. CASE N <= PageSize
      BY <1>0, <2>1, <3>1, MartConstants
    <3>2. CASE N > PageSize
      <4>1. PageSize - 1 \in 0 .. N - 1
        BY <1>0, <3>2, MartConstants
      <4>2. QED
        BY <4>1, MartConstants
    <3>3. QED
      BY <1>0, <3>1, <3>2, MartConstants
  <2>3. PICK i \in L : R[i] = n
    BY <1>1
  <2>4. ASSUME NEW j \in F PROVE ~Before(Key(mode, i), Key(mode, j))
    <3>1. R[j] \in 0 .. N - 1 /\ R[j] <= R[i] /\ R[i] \in 0 .. N - 1
      BY <1>1, <1>2, <1>3, <2>2, <2>3
    <3>2. Before(Key(mode, i), Key(mode, j)) => R[i] < R[j]
      BY <1>3, RankMonotone
    <3>3. QED
      BY <3>1, <3>2
  <2>5. QED
    BY <1>2, <2>2, <2>3, <2>4
<1>5. ASSUME NEW j \in F, NEW i \in L, ~Before(Key(mode, j), Key(mode, i))
      PROVE  i \in F
  <2>1. Key(mode, i) = Key(mode, j) \/ Before(Key(mode, i), Key(mode, j))
    BY <1>0, <1>3, <1>5, BeforeIsOrder
  <2>2. CASE Key(mode, i) = Key(mode, j)
    BY <2>2 DEF Key
  <2>3. CASE Before(Key(mode, i), Key(mode, j))
    <3>1. R[i] < R[j] /\ R[j] < PageSize /\ R[i] \in 0 .. N - 1 /\ R[j] \in 0 .. N - 1
      BY <1>1, <1>2, <1>3, <2>3, RankMonotone
    <3>2. QED
      BY <1>2, <3>1, MartConstants
  <2>4. QED
    BY <2>1, <2>2, <2>3
<1>6. ASSUME Cardinality(F) # PageSize PROVE F = L
  <2>1. CASE N <= PageSize
    BY <1>0, <1>1, <1>2, <1>3, <2>1, MartConstants
  <2>2. CASE N > PageSize
    <3> DEFINE S == [i \in F |-> R[i]]
    <3>1. S \in [F -> 0 .. PageSize - 1]
      BY <1>1, <1>2, <1>3, MartConstants
    <3>2. \A i, j \in F : S[i] = S[j] => i = j
      BY <1>1, <1>3
    <3>3. \A n \in 0 .. PageSize - 1 : \E i \in F : S[i] = n
      <4>1. SUFFICES ASSUME NEW n \in 0 .. PageSize - 1 PROVE \E i \in F : S[i] = n
        OBVIOUS
      <4>2. n \in 0 .. N - 1 /\ n < PageSize
        BY <1>0, <2>2, MartConstants
      <4>3. PICK i \in L : R[i] = n
        BY <1>1, <4>2
      <4>4. QED
        BY <1>2, <4>2, <4>3
    <3>4. S \in Injection(F, 0 .. PageSize - 1) /\ S \in Surjection(F, 0 .. PageSize - 1)
      BY <3>1, <3>2, <3>3 DEF Injection, IsInjective, Surjection
    <3>5. IsFiniteSet(0 .. PageSize - 1) /\ Cardinality(0 .. PageSize - 1) = PageSize
      BY MartConstants, FS_Interval
    <3>6. Cardinality(F) = Cardinality(0 .. PageSize - 1)
      BY <3>4, <3>5, FS_Injection
    <3>7. QED
      BY <1>6, <3>5, <3>6
  <2>3. QED
    BY <1>0, <2>1, <2>2, MartConstants
<1>7. QED
  BY <1>4, <1>5, <1>6

(* What ListRecords and ListRecordsSince return.                           *)
Row(mode, i) == [id |-> i, ver |-> rec[i].ver, key |-> Key(mode, i)]
LEMMA PageIsRows ==
    ASSUME TypeOK, NEW mode, NEW pos
    PROVE  /\ Page(mode, pos) = {Row(mode, i) : i \in FirstRows(mode, pos)}
           /\ Cardinality(Page(mode, pos)) = Cardinality(FirstRows(mode, pos))
<1> DEFINE F == FirstRows(mode, pos)
           P == {Row(mode, i) : i \in F}
           S == [i \in F |-> Row(mode, i)]
<1>1. F = {i \in Listed(mode, pos) : Cardinality({j \in Listed(mode, pos) :
                                  Before(Key(mode, j), Key(mode, i))}) < PageSize}
  BY DEF FirstRows, Rank, Earlier
<1>2. Page(mode, pos) = P
  BY <1>1 DEF Page, Row
<1>3. \A i : Row(mode, i).id = i
  BY DEF Row
<1>4. S \in Bijection(F, P)
  BY <1>3 DEF Bijection, Injection, IsInjective, Surjection
<1>5. IsFiniteSet(F)
  <2>1. F \in SUBSET Listed(mode, pos)
    BY DEF FirstRows
  <2>2. QED
    BY <2>1, ListedFinite, FS_Subset
<1>6. Cardinality(P) = Cardinality(F)
  BY <1>4, <1>5, FS_Bijection DEF ExistsBijection
<1>7. QED
  BY <1>2, <1>6

LEMMA PageHolds ==
    ASSUME TypeOK, NEW mode, NEW pos
    PROVE  /\ \A e \in Page(mode, pos) :
                /\ e \in Entry /\ e.id \in Listed(mode, pos)
                /\ e.ver = rec[e.id].ver /\ e.key = Key(mode, e.id)
           /\ Page(mode, pos) # {} =>
                \E k \in {e.key : e \in Page(mode, pos)} :
                    \A e \in Page(mode, pos) : ~Before(k, e.key)
           /\ \A e \in Page(mode, pos), i \in Listed(mode, pos) :
                ~Before(e.key, Key(mode, i)) => \E f \in Page(mode, pos) : f.id = i
           /\ Cardinality(Page(mode, pos)) # PageSize =>
                \A i \in Listed(mode, pos) : \E f \in Page(mode, pos) : f.id = i
<1> DEFINE F == FirstRows(mode, pos)
           P == Page(mode, pos)
<1>0. /\ P = {Row(mode, i) : i \in F} /\ Cardinality(P) = Cardinality(F)
      /\ F \subseteq Listed(mode, pos) /\ F \subseteq Ids
  BY PageIsRows, ListedFinite DEF FirstRows
<1>1. ASSUME NEW i \in F
      PROVE  /\ Row(mode, i) \in Entry /\ Row(mode, i).id = i
             /\ Row(mode, i).ver = rec[i].ver /\ Row(mode, i).key = Key(mode, i)
  <2>1. Key(mode, i) \in Pos /\ i \in Ids /\ rec[i].ver \in Nat
    <3>1. i \in Ids
      BY <1>0
    <3>2. rec[i].ver \in Nat
      BY <3>1, MartConstants DEF TypeOK
    <3>3. QED
      BY <3>1, <3>2, Standing
  <2>2. QED
    BY <2>1 DEF Row, Entry
<1>2. /\ \A i \in F : Row(mode, i) \in P
      /\ \A e \in P : e.id \in F /\ e = Row(mode, e.id)
  BY <1>0, <1>1
<1>3. \A e \in P : /\ e \in Entry /\ e.id \in Listed(mode, pos)
                   /\ e.ver = rec[e.id].ver /\ e.key = Key(mode, e.id)
  BY <1>0, <1>1, <1>2
<1>4. ASSUME P # {} PROVE \E k \in {e.key : e \in P} : \A e \in P : ~Before(k, e.key)
  <2>1. F # {}
    BY <1>0, <1>4
  <2>2. PICK i \in F : \A j \in F : ~Before(Key(mode, i), Key(mode, j))
    BY <2>1, RowsOfPage
  <2>3. Row(mode, i) \in P /\ Row(mode, i).key = Key(mode, i)
    BY <1>1, <1>2
  <2>4. \A e \in P : ~Before(Key(mode, i), e.key)
    BY <1>2, <1>3, <2>2
  <2>5. QED
    BY <2>3, <2>4
<1>5. ASSUME NEW e \in P, NEW i \in Listed(mode, pos), ~Before(e.key, Key(mode, i))
      PROVE  \E f \in P : f.id = i
  <2>1. e.id \in F /\ e.key = Key(mode, e.id)
    BY <1>2, <1>3
  <2>2. i \in F
    BY <1>5, <2>1, RowsOfPage
  <2>3. QED
    BY <1>1, <1>2, <2>2
<1>6. ASSUME Cardinality(P) # PageSize, NEW i \in Listed(mode, pos)
      PROVE  \E f \in P : f.id = i
  <2>1. i \in F
    BY <1>0, <1>6, RowsOfPage
  <2>2. QED
    BY <1>1, <1>2, <2>1
<1>7. QED
  BY <1>3, <1>4, <1>5, <1>6

-----------------------------------------------------------------------------
(* What the steps do to the run.                                           *)

(* Run m has these fields now, and the others are as they were.            *)
RunIs(m, p, o, k, g, f, w, v) ==
    /\ run' \in [Runners -> MartRun]
    /\ run'[m].pc = p /\ run'[m].mode = o /\ run'[m].pos = k
    /\ run'[m].page = g /\ run'[m].full = f /\ run'[m].wrote = w /\ run'[m].open = v
    /\ \A n \in Runners \ {m} : run'[n] = run[n]

LEMMA RunSet ==
    ASSUME run \in [Runners -> MartRun], NEW m \in Runners, NEW x \in MartRun,
           run' = [run EXCEPT ![m] = x]
    PROVE  RunIs(m, x.pc, x.mode, x.pos, x.page, x.full, x.wrote, x.open)
  BY DEF RunIs

LEMMA QuietFields ==
    /\ Quiet \in MartRun
    /\ Quiet.pc = "idle" /\ Quiet.mode = "sync" /\ Quiet.pos = Zero
    /\ Quiet.page = {} /\ Quiet.full = TRUE /\ Quiet.wrote = {} /\ Quiet.open = 0
  BY MartConstants DEF Quiet, MartRun, Phases

LEMMA RunFields ==
    ASSUME run \in [Runners -> MartRun], NEW m \in Runners
    PROVE  /\ run[m] \in MartRun
           /\ run[m].pc \in Phases /\ run[m].open \in 0 .. MaxRecords
           /\ run[m].mode \in {"sync", "build"} /\ run[m].pos \in Pos
           /\ run[m].page \subseteq Entry /\ run[m].full \in BOOLEAN
           /\ run[m].wrote \subseteq Ids
<1>1. run[m] \in MartRun
  OBVIOUS
<1>2. QED
  BY <1>1 DEF MartRun

LEMMA EndedRun ==
    ASSUME MartTypes, NEW m \in Runners, Ended(m)
    PROVE  RunIs(m, "idle", "sync", Zero, {}, TRUE, {}, 0)
<1>1. run' = [run EXCEPT ![m] = Quiet] /\ run \in [Runners -> MartRun]
  BY DEF Ended, MartTypes
<1>2. QED
  BY <1>1, QuietFields, RunSet

LEMMA SyncStartRun ==
    ASSUME MartTypes, NEW m \in Runners, SyncStart(m)
    PROVE  RunIs(m, "list", "sync", cursor, {}, TRUE, {}, 0)
<1>1. run \in [Runners -> MartRun] /\ cursor \in Pos
  BY DEF MartTypes, TypeOK
<1>2. PICK x : x = [Quiet EXCEPT !.pc = "list", !.pos = cursor]
  OBVIOUS
<1>3. /\ x \in MartRun /\ x.pc = "list" /\ x.mode = "sync" /\ x.pos = cursor
      /\ x.page = {} /\ x.full = TRUE /\ x.wrote = {} /\ x.open = 0
  BY <1>1, <1>2, MartConstants, QuietFields DEF MartRun, Phases
<1>4. run' = [run EXCEPT ![m] = x]
  BY <1>2 DEF SyncStart
<1>5. RunIs(m, x.pc, x.mode, x.pos, x.page, x.full, x.wrote, x.open)
  BY <1>1, <1>3, <1>4, RunSet
<1>6. QED
  BY <1>3, <1>5

LEMMA BuildStartRun ==
    ASSUME MartTypes, NEW m \in Runners, BuildStart(m)
    PROVE  \E p \in {"wipe", "list"} : /\ RunIs(m, p, "build", Zero, {}, TRUE, {}, 0)
                                       /\ p = "wipe" <=> ephemeral
<1>1. run \in [Runners -> MartRun] /\ ephemeral \in BOOLEAN
  BY DEF MartTypes
<1>2. PICK p \in {"wipe", "list"} : p = IF ephemeral THEN "wipe" ELSE "list"
  OBVIOUS
<1>3. PICK x : x = [Quiet EXCEPT !.mode = "build", !.pc = p]
  OBVIOUS
<1>4. /\ x \in MartRun /\ x.pc = p /\ x.mode = "build" /\ x.pos = Zero
      /\ x.page = {} /\ x.full = TRUE /\ x.wrote = {} /\ x.open = 0
  BY <1>3, MartConstants, QuietFields DEF MartRun, Phases
<1>5. run' = [run EXCEPT ![m] = x]
  BY <1>2, <1>3 DEF BuildStart
<1>6. RunIs(m, x.pc, x.mode, x.pos, x.page, x.full, x.wrote, x.open)
  BY <1>1, <1>4, <1>5, RunSet
<1>7. RunIs(m, p, "build", Zero, {}, TRUE, {}, 0)
  BY <1>4, <1>6
<1>8. p = "wipe" <=> ephemeral
  BY <1>1, <1>2
<1>9. QED
  BY <1>7, <1>8

(* Only the phase changes.                                                 *)
LEMMA PhaseRun ==
    ASSUME MartTypes, NEW m \in Runners,
           NEW p \in Phases,
           run' = [run EXCEPT ![m].pc = p]
    PROVE  RunIs(m, p, run[m].mode, run[m].pos, run[m].page, run[m].full, run[m].wrote, run[m].open)
<1>1. run \in [Runners -> MartRun] /\ run[m] \in MartRun
  BY DEF MartTypes
<1>2. PICK x : x = [run[m] EXCEPT !.pc = p]
  OBVIOUS
<1>3. /\ x \in MartRun /\ x.pc = p /\ x.mode = run[m].mode /\ x.pos = run[m].pos
      /\ x.page = run[m].page /\ x.full = run[m].full /\ x.wrote = run[m].wrote
      /\ x.open = run[m].open
  BY <1>1, <1>2 DEF MartRun
<1>4. run' = [run EXCEPT ![m] = x]
  BY <1>2
<1>5. RunIs(m, x.pc, x.mode, x.pos, x.page, x.full, x.wrote, x.open)
  BY <1>1, <1>3, <1>4, RunSet
<1>6. QED
  BY <1>3, <1>5

LEMMA FetchRun ==
    ASSUME MartTypes, NEW m \in Runners, FetchPage(m)
    PROVE  LET p == Page(run[m].mode, run[m].pos) IN
           /\ run[m].pc = "list" /\ run[m].page = {} /\ run[m].full
           /\ \E k \in Pos :
                /\ RunIs(m, "list", run[m].mode, k, p, (Cardinality(p) = PageSize), run[m].wrote,
                         run[m].open)
                /\ p = {} => k = run[m].pos
                /\ p # {} => (\E e \in p : k = e.key) /\ \A e \in p : ~Before(k, e.key)
<1> DEFINE p == Page(run[m].mode, run[m].pos)
<1>0. TypeOK /\ run \in [Runners -> MartRun]
  BY DEF MartTypes
<1>1. /\ run[m] \in MartRun /\ run[m].pos \in Pos /\ run[m].pc = "list"
      /\ run[m].page = {} /\ run[m].full
  BY <1>0, RunFields DEF FetchPage
<1>2. p \subseteq Entry
  BY <1>0, PageHolds
<1>3. PICK k : k = IF p = {} THEN run[m].pos
                   ELSE CHOOSE j \in {e.key : e \in p} : \A e \in p : ~Before(j, e.key)
  OBVIOUS
<1>4. p # {} => k \in {e.key : e \in p} /\ \A e \in p : ~Before(k, e.key)
  <2>1. p # {} => \E j \in {e.key : e \in p} : \A e \in p : ~Before(j, e.key)
    BY <1>0, PageHolds
  <2>2. QED
    BY <1>3, <2>1
<1>5. k \in Pos
  <2>1. \A e \in p : e.key \in Pos
    BY <1>2 DEF Entry
  <2>2. QED
    BY <1>1, <1>3, <1>4, <2>1
<1>6. PICK f \in BOOLEAN : f = (Cardinality(p) = PageSize)
  OBVIOUS
<1>7. PICK x : x = [run[m] EXCEPT !.page = p, !.full = f, !.pos = k]
  OBVIOUS
<1>8. /\ x \in MartRun /\ x.pc = "list" /\ x.mode = run[m].mode /\ x.pos = k
      /\ x.page = p /\ x.full = f /\ x.wrote = run[m].wrote /\ x.open = run[m].open
  BY <1>1, <1>2, <1>5, <1>7 DEF MartRun
<1>9. run' = [run EXCEPT ![m] = x]
  <2>1. run' = [run EXCEPT ![m].page = p, ![m].full = (Cardinality(p) = PageSize),
                           ![m].pos = IF p = {} THEN @
                                      ELSE CHOOSE j \in {e.key : e \in p} :
                                             \A e \in p : ~Before(j, e.key)]
    BY DEF FetchPage
  <2>2. PICK c : c = CHOOSE j \in {e.key : e \in p} : \A e \in p : ~Before(j, e.key)
    OBVIOUS
  <2>3. run' = [run EXCEPT ![m].page = p, ![m].full = f, ![m].pos = IF p = {} THEN @ ELSE c]
    BY <1>6, <2>1, <2>2
  <2>4. k = IF p = {} THEN run[m].pos ELSE c
    BY <1>3, <2>2
  <2>5. QED
    BY <1>0, <1>1, <1>7, <2>3, <2>4 DEF MartRun
<1>10. RunIs(m, x.pc, x.mode, x.pos, x.page, x.full, x.wrote, x.open)
  BY <1>0, <1>8, <1>9, RunSet
<1>11. RunIs(m, "list", run[m].mode, k, p, (Cardinality(p) = PageSize), run[m].wrote,
                         run[m].open)
  BY <1>6, <1>8, <1>10
<1>12. QED
  BY <1>1, <1>3, <1>4, <1>5, <1>11

LEMMA OpenNoteRun ==
    ASSUME MartTypes, NEW m \in Runners, OpenNote(m)
    PROVE  /\ run[m].pc = "list" /\ run[m].open = 0
           /\ \E e \in run[m].page :
                /\ e \in Entry /\ e.id \in Ids
                /\ note' = [note EXCEPT ![e.id] = 0] /\ torn' = torn \cup {e.id}
                /\ broken' = IF run[m].mode = "build" THEN broken \cup {e.id} ELSE broken
                /\ RunIs(m, "list", run[m].mode, run[m].pos, run[m].page,
                         run[m].full, run[m].wrote, e.id)
<1>0. run \in [Runners -> MartRun] /\ run[m] \in MartRun
  BY DEF MartTypes
<1>1. PICK e \in run[m].page :
          /\ note' = [note EXCEPT ![e.id] = 0] /\ torn' = torn \cup {e.id}
          /\ broken' = IF run[m].mode = "build" THEN broken \cup {e.id} ELSE broken
          /\ run' = [run EXCEPT ![m].open = e.id]
  BY DEF OpenNote
<1>2. run[m].pc = "list" /\ run[m].open = 0
  BY DEF OpenNote
<1>3. e \in Entry /\ e.id \in Ids /\ e.id \in 0 .. MaxRecords
  BY <1>0, RunFields, MartConstants DEF Entry
<1>4. PICK x : x = [run[m] EXCEPT !.open = e.id]
  OBVIOUS
<1>5. /\ x \in MartRun /\ x.pc = run[m].pc /\ x.mode = run[m].mode /\ x.pos = run[m].pos
      /\ x.page = run[m].page /\ x.full = run[m].full /\ x.wrote = run[m].wrote
      /\ x.open = e.id
  BY <1>0, <1>3, <1>4 DEF MartRun
<1>6. run' = [run EXCEPT ![m] = x]
  BY <1>1, <1>4
<1>7. RunIs(m, x.pc, x.mode, x.pos, x.page, x.full, x.wrote, x.open)
  BY <1>0, <1>5, <1>6, RunSet
<1>8. QED
  BY <1>1, <1>2, <1>3, <1>5, <1>7

LEMMA WriteNoteRun ==
    ASSUME MartTypes, NEW m \in Runners, WriteNote(m)
    PROVE  /\ run[m].pc = "list"
           /\ \E e \in run[m].page :
                /\ e \in Entry /\ e.id \in Ids /\ e.id = run[m].open
                /\ IF e.id \in NoteFiles
                     THEN /\ note' = [note EXCEPT ![e.id] = e.ver]
                          /\ torn' = torn \ {e.id} /\ broken' = broken \ {e.id}
                     ELSE note' = note /\ torn' = torn /\ broken' = broken
                /\ RunIs(m, "list", run[m].mode, run[m].pos, run[m].page \ {e},
                         run[m].full, run[m].wrote \cup {e.id}, 0)
<1>0. run \in [Runners -> MartRun] /\ run[m] \in MartRun
  BY DEF MartTypes
<1>1. PICK e \in run[m].page :
          /\ e.id = run[m].open
          /\ IF e.id \in NoteFiles
               THEN /\ note' = [note EXCEPT ![e.id] = e.ver]
                    /\ torn' = torn \ {e.id} /\ broken' = broken \ {e.id}
               ELSE note' = note /\ torn' = torn /\ broken' = broken
          /\ run' = [run EXCEPT ![m].page = @ \ {e}, ![m].wrote = @ \cup {e.id}, ![m].open = 0]
  BY DEF WriteNote, notes
<1>2. run[m].pc = "list"
  BY DEF WriteNote
<1>3. e \in Entry /\ e.id \in Ids
  BY <1>0, RunFields DEF Entry
<1>4. PICK g, w : g = run[m].page \ {e} /\ w = run[m].wrote \cup {e.id}
  OBVIOUS
<1>5. g \subseteq Entry /\ w \subseteq Ids /\ 0 \in 0 .. MaxRecords
  BY <1>0, <1>3, <1>4, RunFields, MartConstants
<1>6. PICK x : x = [run[m] EXCEPT !.page = g, !.wrote = w, !.open = 0]
  OBVIOUS
<1>7. /\ x \in MartRun /\ x.pc = run[m].pc /\ x.mode = run[m].mode /\ x.pos = run[m].pos
      /\ x.page = g /\ x.full = run[m].full /\ x.wrote = w /\ x.open = 0
  BY <1>0, <1>5, <1>6 DEF MartRun
<1>8. run' = [run EXCEPT ![m] = x]
  BY <1>0, <1>1, <1>4, <1>6
<1>9. RunIs(m, x.pc, x.mode, x.pos, x.page, x.full, x.wrote, x.open)
  BY <1>0, <1>7, <1>8, RunSet
<1>10. QED
  BY <1>1, <1>2, <1>3, <1>4, <1>7, <1>9

LEMMA SyncFinishRun ==
    ASSUME MartTypes, NEW m \in Runners, SyncFinish(m)
    PROVE  RunIs(m, "save", run[m].mode, run[m].pos, run[m].page, run[m].full, run[m].wrote,
                 run[m].open)
<1>1. run' = [run EXCEPT ![m].pc = "save"] /\ "save" \in Phases
  BY DEF SyncFinish, Phases
<1>2. QED
  BY <1>1, PhaseRun

(* A purge takes the file from under the runs that have it open.           *)
LEMMA PurgeRuns ==
    ASSUME MartTypes, Purge
    PROVE  /\ run' \in [Runners -> MartRun]
           /\ \A m \in Runners :
                /\ run[m].pc # "save" => run'[m] = run[m]
                /\ run[m].pc = "save" => run'[m].pc = "unlinked"
                /\ run'[m].mode = run[m].mode /\ run'[m].pos = run[m].pos
                /\ run'[m].page = run[m].page /\ run'[m].open = run[m].open
<1>0. run \in [Runners -> MartRun]
  BY DEF MartTypes
<1>1. run' = [m \in Runners |-> IF run[m].pc = "save" THEN [run[m] EXCEPT !.pc = "unlinked"]
                               ELSE run[m]]
  BY DEF Purge
<1>2. ASSUME NEW m \in Runners
      PROVE  /\ run'[m] \in MartRun
             /\ run[m].pc # "save" => run'[m] = run[m]
             /\ run[m].pc = "save" => run'[m].pc = "unlinked"
             /\ run'[m].mode = run[m].mode /\ run'[m].pos = run[m].pos
             /\ run'[m].page = run[m].page /\ run'[m].open = run[m].open
  <2>1. PICK x : x = [run[m] EXCEPT !.pc = "unlinked"]
    OBVIOUS
  <2>2. run[m] \in MartRun
    BY <1>0
  <2>3. /\ x \in MartRun /\ x.pc = "unlinked" /\ x.mode = run[m].mode /\ x.pos = run[m].pos
        /\ x.page = run[m].page /\ x.open = run[m].open
    BY <2>1, <2>2 DEF MartRun, Phases
  <2>4. run'[m] = IF run[m].pc = "save" THEN x ELSE run[m]
    BY <1>1, <2>1
  <2>5. QED
    BY <2>2, <2>3, <2>4
<1>3. QED
  BY <1>1, <1>2

LEMMA BuildFinishRun ==
    ASSUME MartTypes, NEW m \in Runners, BuildFinish(m)
    PROVE  RunIs(m, "built", "build", Zero, {}, TRUE, {}, 0)
<1>1. run \in [Runners -> MartRun]
  BY DEF MartTypes
<1>2. PICK x : x = [Quiet EXCEPT !.pc = "built", !.mode = "build"]
  OBVIOUS
<1>3. /\ x \in MartRun /\ x.pc = "built" /\ x.mode = "build" /\ x.pos = Zero
      /\ x.page = {} /\ x.full = TRUE /\ x.wrote = {} /\ x.open = 0
  BY <1>2, MartConstants, QuietFields DEF MartRun, Phases
<1>4. run' = [run EXCEPT ![m] = x]
  BY <1>2 DEF BuildFinish
<1>5. RunIs(m, x.pc, x.mode, x.pos, x.page, x.full, x.wrote, x.open)
  BY <1>1, <1>3, <1>4, RunSet
<1>6. QED
  BY <1>3, <1>5

-----------------------------------------------------------------------------
(* Types, versions and phases.                                             *)

LEMMA ShapeInit == Init => Shape
<1> SUFFICES ASSUME Init PROVE Shape
  OBVIOUS
<1>1. ephemeral \in BOOLEAN
  BY MartAssumption DEF Init
<1>2. rec \in [Ids -> [ver : 0 .. MaxWrites, at : 0 .. MaxClock]]
  BY MartConstants DEF Init
<1>3. tx \in [Writers -> [id : 0 .. MaxRecords, at : 0 .. MaxClock]]
  BY MartConstants DEF Init, NoTx
<1>4. run \in [Runners -> MartRun] /\ \A m \in Runners : run[m] = Quiet
  BY QuietFields DEF Init
<1>n. NoteFiles = {} /\ torn = {} /\ broken = {}
  BY DEF Init, NoteFiles
<1>p. cursor = Zero /\ Zero \in Pos /\ unreadable \in BOOLEAN
  BY QuietFields, MartConstants DEF Init, Pos, Zero
<1>5. TypeOK
  <2>1. clock \in 1 .. MaxClock
    BY MartConstants DEF Init
  <2>2. \A i \in Ids : note[i] \in 0 .. last[i]
    BY DEF Init
  <2>3. \A m \in Runners : run[m].pos \in Pos /\ run[m].wrote \subseteq Ids
    BY <1>4, <1>p, QuietFields DEF Quiet
  <2>4. late \subseteq Ids /\ dest \in {"none", "owned", "unmarked"}
    BY DEF Init
  <2>5. QED
    BY <1>2, <1>3, <1>n, <1>p, <2>1, <2>2, <2>3, <2>4 DEF TypeOK
<1>6. MartTypes
  BY <1>1, <1>4, <1>5 DEF Init, MartTypes
<1>7. Counted
  <2>1. ASSUME NEW i \in Ids PROVE OpenOn(i) = {}
    BY MartConstants DEF Init, OpenOn, NoTx
  <2>2. QED
    BY <2>1, MartConstants, FS_EmptySet DEF Init, Counted
<1>8. Phased
  BY <1>4, QuietFields DEF Phased, InPhase, Active
<1>9. QED
  BY <1>6, <1>7, <1>8 DEF Shape

(* A step that leaves the daemon's side alone.                             *)
LEMMA ShapeOfRun ==
    ASSUME Shape, UNCHANGED db, ephemeral' = ephemeral,
           cursor' \in Pos, unreadable' \in BOOLEAN, dest' \in {"none", "owned", "unmarked"},
           note' \in [Ids -> Nat], \A i \in Ids : note'[i] <= last[i],
           torn' \subseteq Ids, broken' \subseteq torn', \A i \in torn' : note'[i] = 0,
           dest' = "none" => NoteFiles' = {},
           run' \in [Runners -> MartRun], late' \subseteq Ids,
           dirty' \in [Runners -> SUBSET Ids], alone' \in [Runners -> BOOLEAN],
           damaged' \in BOOLEAN, \A m \in Runners : InPhase(m)'
    PROVE  Shape'
<1>0. /\ clock' = clock /\ rec' = rec /\ last' = last /\ tx' = tx /\ writes' = writes
  BY DEF db
<1>1. \A m \in Runners : run'[m].pos \in Pos /\ run'[m].wrote \subseteq Ids
  BY DEF MartRun
<1>2. \A i \in Ids : note'[i] \in 0 .. last'[i]
  BY <1>0 DEF Shape, MartTypes
<1>3. TypeOK'
  BY <1>0, <1>1, <1>2 DEF Shape, MartTypes, TypeOK
<1>4. MartTypes'
  BY <1>0, <1>3 DEF Shape, MartTypes
<1>5. Counted'
  BY <1>0 DEF Shape, Counted, OpenOn
<1>6. QED
  BY <1>4, <1>5 DEF Shape, Phased

(* The phases of the runs a step of m leaves alone.                        *)
LEMMA PhasesKept ==
    ASSUME Shape, NEW m \in Runners, NEW p, NEW o, NEW k, NEW g, NEW f, NEW w, NEW v,
           RunIs(m, p, o, k, g, f, w, v), last' = last, ephemeral' = ephemeral,
           dest' # "none",
           o = "sync" => p \in {"idle", "list", "save", "unlinked"},
           p = "save" => g = {} /\ o = "sync", g = {} => v = 0,
           o = "build" => k[1] = 0,
           p \in {"wipe", "wiping"} => ephemeral /\ g = {} /\ w = {} /\ f /\ k = Zero,
           \A e \in g : e.ver <= last[e.id]
    PROVE  \A n \in Runners : InPhase(n)'
<1>1. InPhase(m)'
  BY DEF RunIs, InPhase, Active
<1>2. ASSUME NEW n \in Runners \ {m} PROVE InPhase(n)'
  <2>1. InPhase(n) /\ run'[n] = run[n]
    BY DEF Shape, Phased, RunIs
  <2>2. QED
    BY <2>1 DEF InPhase, Active
<1>3. QED
  BY <1>1, <1>2

LEMMA StartedTypes ==
    ASSUME Shape, NEW m \in Runners, Started(m)
    PROVE  /\ dirty' \in [Runners -> SUBSET Ids] /\ alone' \in [Runners -> BOOLEAN]
           /\ damaged' \in BOOLEAN /\ late' = late /\ broken' = broken
<1>1. dirty' \in [Runners -> SUBSET Ids] /\ late' = late /\ broken' = broken
  BY DEF Started, Shape, MartTypes
<1>2. alone' \in [Runners -> BOOLEAN]
  BY DEF Started, Shape, MartTypes
<1>3. damaged' \in BOOLEAN
  BY DEF Started, Shape, MartTypes
<1>4. QED
  BY <1>1, <1>2, <1>3

LEMMA EndedTypes ==
    ASSUME Shape, NEW m \in Runners, Ended(m)
    PROVE  dirty' \in [Runners -> SUBSET Ids] /\ alone' \in [Runners -> BOOLEAN]
  BY DEF Ended, Shape, MartTypes

(* What Shape says of the mart and of the history.                         *)
LEMMA ShapeParts ==
    ASSUME Shape
    PROVE  /\ cursor \in Pos /\ dest \in {"none", "owned", "unmarked"}
           /\ note \in [Ids -> Nat] /\ last \in [Ids -> Nat]
           /\ \A i \in Ids : note[i] <= last[i]
           /\ torn \subseteq Ids /\ broken \subseteq torn /\ \A i \in torn : note[i] = 0
           /\ dest = "none" => NoteFiles = {}
           /\ unreadable \in BOOLEAN
           /\ run \in [Runners -> MartRun] /\ late \subseteq Ids
           /\ dirty \in [Runners -> SUBSET Ids] /\ alone \in [Runners -> BOOLEAN]
           /\ damaged \in BOOLEAN /\ ephemeral \in BOOLEAN
           /\ \A m \in Runners : InPhase(m)
           /\ MartTypes /\ TypeOK
<1>1. MartTypes /\ Phased
  BY DEF Shape
<1>2. /\ cursor \in Pos /\ dest \in {"none", "owned", "unmarked"}
      /\ torn \subseteq Ids /\ broken \subseteq torn /\ \A i \in torn : note[i] = 0
  BY <1>1 DEF MartTypes, TypeOK
<1>3. unreadable \in BOOLEAN /\ late \subseteq Ids /\ TypeOK
  BY <1>1 DEF MartTypes, TypeOK
<1>4. dest = "none" => NoteFiles = {}
  BY <1>1 DEF MartTypes, TypeOK
<1>5. /\ note \in [Ids -> Nat] /\ last \in [Ids -> Nat] /\ run \in [Runners -> MartRun]
      /\ \A i \in Ids : note[i] <= last[i]
  BY <1>1 DEF MartTypes, TypeOK
<1>6. QED
  BY <1>1, <1>2, <1>3, <1>4, <1>5 DEF MartTypes, Phased

LEMMA ShapeSyncStart == ASSUME Shape, NEW m \in Runners, SyncStart(m) PROVE Shape'
<1>1. RunIs(m, "list", "sync", cursor, {}, TRUE, {}, 0)
  BY SyncStartRun, ShapeParts
<1>2. /\ UNCHANGED db /\ ephemeral' = ephemeral /\ cursor' = cursor /\ dest' = "owned"
      /\ note' = note /\ torn' = torn
      /\ unreadable' = unreadable /\ Started(m)
  BY DEF SyncStart, notes
<1>3. last' = last
  BY <1>2 DEF db
<1>4. \A n \in Runners : InPhase(n)'
  <2>1. PICK g, f : g = {} /\ f = TRUE /\ RunIs(m, "list", "sync", cursor, g, f, g, 0)
    BY <1>1
  <2>2. \A e \in g : e.ver <= last[e.id]
    BY <2>1
  <2>3. dest' # "none"
    BY <1>2
  <2>4. QED
    BY <1>1, <1>2, <1>3, <2>1, <2>2, <2>3, PhasesKept
<1>5. QED
  BY <1>1, <1>2, <1>4, StartedTypes, ShapeParts, ShapeOfRun DEF RunIs, NoteFiles

LEMMA ShapeBuildStart == ASSUME Shape, NEW m \in Runners, BuildStart(m) PROVE Shape'
<1>1. PICK p \in {"wipe", "list"} : /\ RunIs(m, p, "build", Zero, {}, TRUE, {}, 0)
                                    /\ p = "wipe" <=> ephemeral
  BY BuildStartRun, ShapeParts
<1>2. /\ UNCHANGED db /\ ephemeral' = ephemeral /\ cursor' = cursor /\ dest' = "owned"
      /\ note' = note /\ torn' = torn
      /\ unreadable' = unreadable /\ Started(m)
  BY DEF BuildStart, notes
<1>3. last' = last /\ Zero[1] = 0
  BY <1>2 DEF db, Zero
<1>4. \A n \in Runners : InPhase(n)'
  <2>1. PICK g, f : g = {} /\ f = TRUE /\ RunIs(m, p, "build", Zero, g, f, g, 0)
    BY <1>1
  <2>2. \A e \in g : e.ver <= last[e.id]
    BY <2>1
  <2>3. dest' # "none"
    BY <1>2
  <2>4. QED
    BY <1>1, <1>2, <1>3, <2>1, <2>2, <2>3, PhasesKept
<1>5. QED
  BY <1>1, <1>2, <1>4, StartedTypes, ShapeParts, ShapeOfRun DEF RunIs, NoteFiles

LEMMA ShapeWipeSome == ASSUME Shape, NEW m \in Runners, WipeSome(m) PROVE Shape'
<1>1. /\ UNCHANGED db /\ ephemeral' = ephemeral /\ cursor' = cursor /\ dest' = "unmarked"
      /\ late' = late /\ dirty' = dirty /\ alone' = alone /\ damaged' = damaged
      /\ unreadable' = unreadable
      /\ run' = [run EXCEPT ![m].pc = "wiping"] /\ run[m].pc = "wipe"
  BY DEF WipeSome
<1>2. RunIs(m, "wiping", run[m].mode, run[m].pos, run[m].page, run[m].full, run[m].wrote, run[m].open)
  BY <1>1, PhaseRun, ShapeParts DEF Phases
<1>3. InPhase(m) /\ last' = last
  BY <1>1, ShapeParts DEF db
<1>4. \A n \in Runners : InPhase(n)'
  <2>1. /\ run[m].mode # "sync" /\ run[m].pos = Zero /\ run[m].page = {} /\ run[m].wrote = {}
        /\ run[m].full /\ ephemeral /\ run[m].open = 0
    BY <1>1, <1>3 DEF InPhase
  <2>2. Zero[1] = 0
    BY DEF Zero
  <2>3. QED
    BY <1>1, <1>2, <1>3, <2>1, <2>2, PhasesKept
<1>5. PICK keep \in SUBSET Ids : /\ note' = [i \in Ids |-> IF i \in keep THEN note[i] ELSE 0]
                                /\ torn' = torn \cap keep /\ broken' = broken \cap keep
  BY DEF WipeSome
<1>6. note' \in [Ids -> Nat] /\ \A i \in Ids : note'[i] <= last[i]
  BY <1>5, ShapeParts
<1>7. torn' \subseteq Ids /\ broken' \subseteq torn' /\ \A i \in torn' : note'[i] = 0
  BY <1>5, ShapeParts
<1>8. QED
  BY <1>1, <1>2, <1>4, <1>6, <1>7, ShapeParts, ShapeOfRun DEF RunIs

LEMMA ShapeWipeDone == ASSUME Shape, NEW m \in Runners, WipeDone(m) PROVE Shape'
<1>1. /\ UNCHANGED db /\ ephemeral' = ephemeral /\ cursor' = cursor /\ dest' = "owned"
      /\ late' = late /\ dirty' = dirty /\ alone' = alone /\ damaged' = damaged
      /\ unreadable' = unreadable
      /\ run' = [run EXCEPT ![m].pc = "list"] /\ run[m].pc = "wiping"
      /\ note' = [i \in Ids |-> 0] /\ torn' = {} /\ broken' = {}
  BY DEF WipeDone
<1>2. RunIs(m, "list", run[m].mode, run[m].pos, run[m].page, run[m].full, run[m].wrote, run[m].open)
  BY <1>1, PhaseRun, ShapeParts DEF Phases
<1>3. InPhase(m) /\ last' = last
  BY <1>1, ShapeParts DEF db
<1>4. \A n \in Runners : InPhase(n)'
  BY <1>1, <1>2, <1>3, PhasesKept DEF InPhase
<1>5. note' \in [Ids -> Nat] /\ \A i \in Ids : note'[i] <= last[i]
  BY <1>1, ShapeParts
<1>6. QED
  BY <1>1, <1>2, <1>4, <1>5, ShapeParts, ShapeOfRun DEF RunIs

LEMMA ShapeFetchPage == ASSUME Shape, NEW m \in Runners, FetchPage(m) PROVE Shape'
<1> DEFINE p == Page(run[m].mode, run[m].pos)
<1>0. /\ UNCHANGED db /\ ephemeral' = ephemeral /\ cursor' = cursor /\ dest' = dest
      /\ note' = note /\ torn' = torn /\ broken' = broken /\ unreadable' = unreadable
      /\ late' = late /\ dirty' = dirty /\ alone' = alone /\ damaged' = damaged
  BY DEF FetchPage, hist, mart, notes
<1>1. PICK k \in Pos :
         /\ RunIs(m, "list", run[m].mode, k, p, (Cardinality(p) = PageSize), run[m].wrote,
                  run[m].open)
         /\ p = {} => k = run[m].pos
         /\ p # {} => (\E e \in p : k = e.key)
  BY FetchRun, ShapeParts
<1>2. run[m].pc = "list" /\ run[m].page = {} /\ InPhase(m) /\ last' = last
  BY <1>0, FetchRun, ShapeParts DEF db
<1>3. \A e \in p : e.id \in Ids /\ e.ver = rec[e.id].ver /\ e.key = Key(run[m].mode, e.id)
  BY PageHolds, ListedFinite, ShapeParts
<1>4. \A e \in p : e.ver <= last[e.id]
  BY <1>3 DEF Shape, Counted
<1>5. run[m].mode = "build" => k[1] = 0
  <2>1. CASE p = {}
    BY <1>1, <1>2, <2>1 DEF InPhase
  <2>2. CASE p # {}
    BY <1>1, <1>3, <2>2 DEF Key
  <2>3. QED
    BY <2>1, <2>2
<1>6. dest' # "none" /\ run[m].open = 0
  BY <1>0, <1>2 DEF InPhase, Active
<1>7. \A n \in Runners : InPhase(n)'
  BY <1>0, <1>1, <1>2, <1>4, <1>5, <1>6, PhasesKept
<1>8. QED
  BY <1>0, <1>1, <1>6, <1>7, ShapeParts, ShapeOfRun DEF RunIs

LEMMA ShapeOpenNote == ASSUME Shape, NEW m \in Runners, OpenNote(m) PROVE Shape'
<1>0. /\ UNCHANGED db /\ ephemeral' = ephemeral /\ cursor' = cursor /\ dest' = dest
      /\ late' = late /\ dirty' = dirty /\ alone' = alone /\ damaged' = damaged
      /\ unreadable' = unreadable
  BY DEF OpenNote
<1>1. PICK e \in run[m].page :
         /\ e \in Entry /\ e.id \in Ids
         /\ note' = [note EXCEPT ![e.id] = 0] /\ torn' = torn \cup {e.id}
         /\ broken' = IF run[m].mode = "build" THEN broken \cup {e.id} ELSE broken
         /\ RunIs(m, "list", run[m].mode, run[m].pos, run[m].page,
                  run[m].full, run[m].wrote, e.id)
  BY OpenNoteRun, ShapeParts
<1>2. run[m].pc = "list" /\ InPhase(m) /\ last' = last
  BY <1>0, OpenNoteRun, ShapeParts DEF db
<1>3. dest' # "none" /\ run[m].page # {}
  BY <1>0, <1>1, <1>2 DEF InPhase, Active
<1>4. \A n \in Runners : InPhase(n)'
  BY <1>0, <1>1, <1>2, <1>3, PhasesKept DEF InPhase
<1>5. note' \in [Ids -> Nat] /\ \A i \in Ids : note'[i] <= last[i]
  BY <1>1, ShapeParts
<1>6. torn' \subseteq Ids /\ broken' \subseteq torn' /\ \A i \in torn' : note'[i] = 0
  BY <1>1, ShapeParts
<1>7. QED
  BY <1>0, <1>1, <1>3, <1>4, <1>5, <1>6, ShapeParts, ShapeOfRun DEF RunIs

LEMMA ShapeWriteNote == ASSUME Shape, NEW m \in Runners, WriteNote(m) PROVE Shape'
<1>0. /\ UNCHANGED db /\ ephemeral' = ephemeral /\ cursor' = cursor /\ dest' = dest
      /\ late' = late /\ dirty' = dirty /\ alone' = alone /\ damaged' = damaged
      /\ unreadable' = unreadable
  BY DEF WriteNote
<1>1. PICK e \in run[m].page :
         /\ e \in Entry /\ e.id \in Ids
         /\ IF e.id \in NoteFiles
              THEN /\ note' = [note EXCEPT ![e.id] = e.ver]
                   /\ torn' = torn \ {e.id} /\ broken' = broken \ {e.id}
              ELSE note' = note /\ torn' = torn /\ broken' = broken
         /\ RunIs(m, "list", run[m].mode, run[m].pos, run[m].page \ {e},
                  run[m].full, run[m].wrote \cup {e.id}, 0)
  BY WriteNoteRun, ShapeParts
<1>2. run[m].pc = "list" /\ InPhase(m) /\ last' = last
  BY <1>0, WriteNoteRun, ShapeParts DEF db
<1>3. dest' # "none"
  BY <1>0, <1>2 DEF InPhase, Active
<1>4. \A n \in Runners : InPhase(n)'
  BY <1>0, <1>1, <1>2, <1>3, PhasesKept DEF InPhase
<1>5. e.id \in Ids /\ e.ver \in Nat /\ e.ver <= last[e.id]
  BY <1>1, <1>2 DEF Entry, InPhase
<1>6. note' \in [Ids -> Nat] /\ \A i \in Ids : note'[i] <= last[i]
  BY <1>1, <1>5, ShapeParts
<1>7. torn' \subseteq Ids /\ broken' \subseteq torn' /\ \A i \in torn' : note'[i] = 0
  BY <1>1, ShapeParts
<1>8. QED
  BY <1>0, <1>1, <1>3, <1>4, <1>6, <1>7, ShapeParts, ShapeOfRun DEF RunIs

LEMMA ShapeSyncFinish == ASSUME Shape, NEW m \in Runners, SyncFinish(m) PROVE Shape'
<1>1. /\ UNCHANGED db /\ ephemeral' = ephemeral /\ cursor' = cursor /\ dest' = dest
      /\ note' = note /\ torn' = torn /\ broken' = broken /\ unreadable' = TRUE
      /\ late' = late /\ dirty' = dirty /\ alone' = alone /\ damaged' = damaged
      /\ Active(m) /\ run[m].page = {} /\ run[m].mode = "sync"
  BY DEF SyncFinish, Active, hist, notes
<1>2. RunIs(m, "save", run[m].mode, run[m].pos, run[m].page, run[m].full, run[m].wrote, run[m].open)
  BY SyncFinishRun, ShapeParts
<1>3. InPhase(m) /\ last' = last /\ dest' # "none" /\ run[m].open = 0
  BY <1>1, ShapeParts DEF db, InPhase
<1>4. \A n \in Runners : InPhase(n)'
  BY <1>1, <1>2, <1>3, PhasesKept
<1>5. QED
  BY <1>1, <1>2, <1>3, <1>4, ShapeParts, ShapeOfRun DEF RunIs

LEMMA EndedPhases ==
    ASSUME Shape, NEW m \in Runners, Active(m), Ended(m), last' = last,
           ephemeral' = ephemeral, dest' = dest
    PROVE  run' \in [Runners -> MartRun] /\ dest' # "none" /\ \A n \in Runners : InPhase(n)'
<1>1. RunIs(m, "idle", "sync", Zero, {}, TRUE, {}, 0)
  BY EndedRun, ShapeParts
<1>2. dest' # "none"
  BY ShapeParts DEF InPhase
<1>3. PICK g, f : g = {} /\ f = TRUE /\ RunIs(m, "idle", "sync", Zero, g, f, g, 0)
  BY <1>1
<1>4. \A e \in g : e.ver <= last[e.id]
  BY <1>3
<1>5. \A n \in Runners : InPhase(n)'
  BY <1>1, <1>2, <1>3, <1>4, PhasesKept
<1>6. QED
  BY <1>1, <1>2, <1>5 DEF RunIs

LEMMA ShapeSaveCursor == ASSUME Shape, NEW m \in Runners, SaveCursor(m) PROVE Shape'
<1>1. /\ UNCHANGED db /\ ephemeral' = ephemeral /\ dest' = dest /\ note' = note
      /\ torn' = torn /\ broken' = broken /\ unreadable' = FALSE
      /\ late' = late /\ damaged' = damaged /\ cursor' = run[m].pos /\ Ended(m)
      /\ Active(m)
  BY DEF SaveCursor, Active, notes
<1>2. cursor' \in Pos /\ last' = last
  BY <1>1, RunFields, ShapeParts DEF db
<1>3. run' \in [Runners -> MartRun] /\ dest' # "none" /\ \A n \in Runners : InPhase(n)'
  BY <1>1, <1>2, EndedPhases
<1>4. QED
  BY <1>1, <1>2, <1>3, EndedTypes, ShapeParts, ShapeOfRun

LEMMA ShapeExit ==
    ASSUME Shape, NEW m \in Runners, SaveUnlinked(m) \/ BuildExit(m) \/ Fail(m)
    PROVE  Shape'
<1>1. /\ UNCHANGED db /\ ephemeral' = ephemeral /\ dest' = dest /\ note' = note
      /\ torn' = torn /\ broken' = broken /\ unreadable' = unreadable
      /\ late' = late /\ cursor' = cursor /\ Ended(m) /\ Active(m)
  BY DEF SaveUnlinked, BuildExit, Fail, Active, mart, notes
<1>2. last' = last
  BY <1>1 DEF db
<1>3. damaged' \in BOOLEAN
  <2>1. CASE Fail(m)
    BY <2>1 DEF Fail
  <2>2. CASE SaveUnlinked(m) \/ BuildExit(m)
    BY <2>2, ShapeParts DEF SaveUnlinked, BuildExit
  <2>3. QED
    BY <2>1, <2>2
<1>4. run' \in [Runners -> MartRun] /\ dest' # "none" /\ \A n \in Runners : InPhase(n)'
  BY <1>1, <1>2, EndedPhases
<1>5. QED
  BY <1>1, <1>2, <1>3, <1>4, EndedTypes, ShapeParts, ShapeOfRun

LEMMA ShapeBuildFinish == ASSUME Shape, NEW m \in Runners, BuildFinish(m) PROVE Shape'
<1>1. /\ UNCHANGED db /\ ephemeral' = ephemeral /\ dest' = dest /\ cursor' = cursor
      /\ unreadable' = unreadable
      /\ dirty' = dirty /\ alone' = alone /\ Active(m)
  BY DEF BuildFinish, Active
<1>2. last' = last /\ Zero[1] = 0
  BY <1>1 DEF db, Zero
<1>3. RunIs(m, "built", "build", Zero, {}, TRUE, {}, 0)
  BY BuildFinishRun, ShapeParts
<1>4. damaged' \in BOOLEAN /\ late' \subseteq Ids
  BY ShapeParts DEF BuildFinish
<1>5. /\ note' \in [Ids -> Nat] /\ \A i \in Ids : note'[i] \in {0, note[i]}
      /\ torn' \subseteq torn /\ broken' \subseteq torn'
  BY ShapeParts DEF BuildFinish
<1>6. dest' # "none"
  BY <1>1, ShapeParts DEF InPhase
<1>7. \A n \in Runners : InPhase(n)'
  <2>1. PICK g, f : g = {} /\ f = TRUE /\ RunIs(m, "built", "build", Zero, g, f, g, 0)
    BY <1>3
  <2>2. \A e \in g : e.ver <= last[e.id]
    BY <2>1
  <2>3. QED
    BY <1>1, <1>2, <1>6, <2>1, <2>2, PhasesKept
<1>8. \A i \in Ids : note'[i] <= last[i]
  BY <1>5, ShapeParts
<1>9. run' \in [Runners -> MartRun]
  BY <1>3 DEF RunIs
<1>10. torn' \subseteq Ids /\ \A i \in torn' : note'[i] = 0
  BY <1>5, ShapeParts
<1>11. QED
  BY <1>1, <1>4, <1>5, <1>6, <1>7, <1>8, <1>9, <1>10, ShapeParts, ShapeOfRun

LEMMA ShapeOperator == ASSUME Shape, Redefine \/ Purge PROVE Shape'
<1>1. CASE Redefine
  <2>1. /\ UNCHANGED db /\ ephemeral' = ephemeral /\ cursor' = cursor /\ run' = run
        /\ dirty' = dirty /\ alone' = alone /\ late' = late /\ damaged' = TRUE
        /\ unreadable' = unreadable /\ torn' = {} /\ broken' = {}
        /\ dest' = "none" /\ note' = [i \in Ids |-> 0] /\ \A m \in Runners : ~Active(m)
    BY <1>1 DEF Redefine
  <2>2. last' = last
    BY <2>1 DEF db
  <2>3. \A m \in Runners : InPhase(m)'
    BY <2>1, <2>2, ShapeParts DEF InPhase, Active
  <2>4. note' \in [Ids -> Nat] /\ \A i \in Ids : note'[i] = 0 /\ note'[i] <= last[i]
    BY <2>1, ShapeParts
  <2>5. NoteFiles' = {}
    BY <2>1, <2>4 DEF NoteFiles
  <2>6. QED
    BY <2>1, <2>3, <2>4, <2>5, ShapeParts, ShapeOfRun
<1>2. CASE Purge
  <2>1. /\ UNCHANGED db /\ ephemeral' = ephemeral /\ cursor' = Zero
        /\ dirty' = dirty /\ alone' = alone /\ late' \subseteq late /\ damaged' = damaged
        /\ dest' = dest /\ note' = note /\ torn' = torn /\ broken' = broken
        /\ unreadable' = FALSE
    BY <1>2 DEF Purge, notes
  <2>2. last' = last
    BY <2>1 DEF db
  <2>3. run' \in [Runners -> MartRun]
    BY <1>2, PurgeRuns, ShapeParts
  <2>4. ASSUME NEW m \in Runners PROVE InPhase(m)'
    <3>1. InPhase(m)
      BY ShapeParts
    <3>2. CASE run[m].pc # "save"
      <4>1. run'[m] = run[m]
        BY <1>2, <3>2, PurgeRuns, ShapeParts
      <4>2. QED
        BY <2>1, <2>2, <3>1, <4>1 DEF InPhase, Active
    <3>3. CASE run[m].pc = "save"
      <4>1. /\ run'[m].pc = "unlinked" /\ run'[m].mode = run[m].mode
            /\ run'[m].page = run[m].page /\ run'[m].open = run[m].open
        BY <1>2, <3>3, PurgeRuns, ShapeParts
      <4>2. run[m].page = {} /\ run[m].mode = "sync" /\ run[m].open = 0 /\ dest # "none"
        BY <3>1, <3>3 DEF InPhase, Active
      <4>3. QED
        BY <2>1, <4>1, <4>2 DEF InPhase
    <3>4. QED
      BY <3>2, <3>3
  <2>5. NoteFiles' = NoteFiles
    BY <2>1 DEF NoteFiles
  <2>6. QED
    BY <2>1, <2>3, <2>4, <2>5, ShapeParts, MartConstants, ShapeOfRun
<1>3. QED
  BY <1>1, <1>2

(* A record has one version per write.                                     *)
LEMMA OpenFinite ==
    ASSUME NEW i
    PROVE  IsFiniteSet(OpenOn(i)) /\ Cardinality(OpenOn(i)) \in Nat
<1>1. OpenOn(i) \in SUBSET Writers
  BY DEF OpenOn
<1>2. QED
  BY <1>1, MartAssumption, FS_Subset, FS_CardinalityType

LEMMA ShapeTick == ASSUME Shape, Tick PROVE Shape'
<1>1. /\ rec' = rec /\ last' = last /\ tx' = tx /\ writes' = writes /\ UNCHANGED mart
      /\ run' = run /\ UNCHANGED hist /\ clock' = clock + 1 /\ clock < MaxClock
  BY DEF Tick
<1>2. clock' \in 1 .. MaxClock
  BY <1>1, MartConstants DEF Shape, MartTypes, TypeOK
<1>3. TypeOK'
  BY <1>1, <1>2 DEF Shape, MartTypes, TypeOK, NoteFiles, mart, notes, hist
<1>4. MartTypes'
  BY <1>1, <1>3 DEF Shape, MartTypes, mart, notes, hist
<1>5. Counted' /\ Phased'
  BY <1>1 DEF Shape, Counted, OpenOn, Phased, InPhase, Active, mart, hist
<1>6. QED
  BY <1>4, <1>5 DEF Shape

LEMMA ShapeBegin == ASSUME Shape, NEW w \in Writers, Begin(w) PROVE Shape'
<1>1. /\ clock' = clock /\ rec' = rec /\ last' = last /\ UNCHANGED mart
      /\ run' = run /\ UNCHANGED hist /\ writes' = writes + 1 /\ writes < MaxWrites
      /\ tx[w] = NoTx
  BY DEF Begin
<1>2. PICK i \in Ids : tx' = [tx EXCEPT ![w] = [id |-> i, at |-> clock]]
  BY DEF Begin
<1>3. /\ clock \in 1 .. MaxClock /\ writes \in Nat
      /\ tx \in [Writers -> [id : 0 .. MaxRecords, at : 0 .. MaxClock]]
  BY DEF Shape, MartTypes, TypeOK
<1>4. PICK t : t = [id |-> i, at |-> clock]
  OBVIOUS
<1>5. /\ t \in [id : 0 .. MaxRecords, at : 0 .. MaxClock] /\ t.id = i /\ t.at >= 1
  BY <1>3, <1>4, MartConstants
<1>6. /\ tx' \in [Writers -> [id : 0 .. MaxRecords, at : 0 .. MaxClock]]
      /\ tx'[w] = t /\ \A v \in Writers \ {w} : tx'[v] = tx[v]
  BY <1>2, <1>3, <1>4, <1>5
<1>7. TypeOK'
  BY <1>1, <1>6 DEF Shape, MartTypes, TypeOK, NoteFiles, mart, notes, hist
<1>8. MartTypes'
  <2>1. \A v \in Writers : tx'[v] # NoTx => tx'[v].id \in Ids /\ tx'[v].at >= 1
    BY <1>5, <1>6 DEF Shape, MartTypes
  <2>2. writes' \in Nat
    BY <1>1, <1>3
  <2>3. QED
    BY <1>1, <1>7, <2>1, <2>2 DEF Shape, MartTypes, mart, notes, hist
<1>9. Counted'
  <2>1. ASSUME NEW j \in Ids
        PROVE  last[j] + Cardinality(OpenOn(j)') <= writes + 1
    <3>1. OpenOn(j)' \in SUBSET (OpenOn(j) \cup {w})
      BY <1>6 DEF OpenOn
    <3>2. /\ IsFiniteSet(OpenOn(j) \cup {w})
          /\ Cardinality(OpenOn(j) \cup {w}) <= Cardinality(OpenOn(j)) + 1
      <4>1. IsFiniteSet(OpenOn(j)) /\ Cardinality(OpenOn(j)) \in Nat
        BY OpenFinite
      <4>2. /\ IsFiniteSet(OpenOn(j) \cup {w})
            /\ Cardinality(OpenOn(j) \cup {w}) = IF w \in OpenOn(j) THEN Cardinality(OpenOn(j))
                                                ELSE Cardinality(OpenOn(j)) + 1
        BY <4>1, FS_AddElement
      <4>3. QED
        BY <4>1, <4>2
    <3>3. Cardinality(OpenOn(j)') <= Cardinality(OpenOn(j) \cup {w})
      BY <3>1, <3>2, FS_Subset
    <3>4. /\ Cardinality(OpenOn(j)') \in Nat /\ Cardinality(OpenOn(j) \cup {w}) \in Nat
      BY <3>1, <3>2, FS_Subset, FS_CardinalityType
    <3>5. last[j] + Cardinality(OpenOn(j)) <= writes /\ last[j] \in Nat
      BY DEF Shape, Counted, MartTypes
    <3>6. QED
      BY <1>3, <3>2, <3>3, <3>4, <3>5, OpenFinite
  <2>2. writes' <= MaxWrites
    BY <1>1, <1>3, MartConstants
  <2>3. QED
    BY <1>1, <2>1, <2>2 DEF Shape, Counted
<1>10. Phased'
  BY <1>1 DEF Shape, Phased, InPhase, Active, mart, hist
<1>11. QED
  BY <1>8, <1>9, <1>10 DEF Shape

(* What a commit does to the records.                                      *)
LEMMA CommitWrites ==
    ASSUME Shape, NEW w \in Writers, Commit(w)
    PROVE  LET i == tx[w].id IN
           /\ i \in Ids /\ tx[w].at >= 1 /\ <<tx[w].at, i>> \in Pos
           /\ rec'[i].ver = last[i] + 1 /\ rec'[i].at = tx[w].at /\ last'[i] = last[i] + 1
           /\ rec' \in [Ids -> [ver : Nat, at : 0 .. MaxClock]] /\ last' \in [Ids -> Nat]
           /\ \A j \in Ids \ {i} : rec'[j] = rec[j] /\ last'[j] = last[j]
           /\ tx'[w] = NoTx /\ \A v \in Writers \ {w} : tx'[v] = tx[v]
<1> DEFINE i == tx[w].id
<1>0. /\ rec \in [Ids -> [ver : 0 .. MaxWrites, at : 0 .. MaxClock]] /\ last \in [Ids -> Nat]
      /\ tx \in [Writers -> [id : 0 .. MaxRecords, at : 0 .. MaxClock]]
  BY DEF Shape, MartTypes, TypeOK
<1>1. i \in Ids /\ tx[w].at >= 1 /\ tx[w].at \in 0 .. MaxClock
  BY <1>0 DEF Commit, Shape, MartTypes
<1>2. <<tx[w].at, i>> \in Pos
  BY <1>1, MartConstants DEF Pos
<1>3. PICK r : r = [ver |-> last[i] + 1, at |-> tx[w].at]
  OBVIOUS
<1>4. r \in [ver : Nat, at : 0 .. MaxClock] /\ r.ver = last[i] + 1 /\ r.at = tx[w].at
  BY <1>0, <1>1, <1>3
<1>5. rec' = [rec EXCEPT ![i] = r]
  BY <1>3 DEF Commit
<1>6. rec \in [Ids -> [ver : Nat, at : 0 .. MaxClock]]
  BY <1>0, MartConstants
<1>7. /\ rec' \in [Ids -> [ver : Nat, at : 0 .. MaxClock]] /\ rec'[i] = r
      /\ \A j \in Ids \ {i} : rec'[j] = rec[j]
  BY <1>1, <1>4, <1>5, <1>6
<1>8. /\ last' \in [Ids -> Nat] /\ last'[i] = last[i] + 1
      /\ \A j \in Ids \ {i} : last'[j] = last[j]
  BY <1>0, <1>1 DEF Commit
<1>9. tx'[w] = NoTx /\ \A v \in Writers \ {w} : tx'[v] = tx[v]
  BY <1>0 DEF Commit
<1>10. QED
  BY <1>1, <1>2, <1>4, <1>7, <1>8, <1>9

LEMMA ShapeCommit == ASSUME Shape, NEW w \in Writers, Commit(w) PROVE Shape'
<1>i. PICK i : i = tx[w].id
  OBVIOUS
<1>1. /\ clock' = clock /\ writes' = writes /\ UNCHANGED mart /\ run' = run
      /\ alone' = alone /\ damaged' = damaged /\ broken' = broken
      /\ tx' = [tx EXCEPT ![w] = NoTx]
  BY DEF Commit
<1>2. /\ i \in Ids /\ tx[w].at >= 1
      /\ rec'[i].ver = last[i] + 1 /\ rec'[i].at = tx[w].at /\ last'[i] = last[i] + 1
      /\ rec' \in [Ids -> [ver : Nat, at : 0 .. MaxClock]] /\ last' \in [Ids -> Nat]
      /\ \A j \in Ids \ {i} : rec'[j] = rec[j] /\ last'[j] = last[j]
      /\ tx'[w] = NoTx /\ \A v \in Writers \ {w} : tx'[v] = tx[v]
  BY <1>i, CommitWrites
<1>3. /\ late' \subseteq Ids /\ dirty' \in [Runners -> SUBSET Ids]
  <2>1. late' \subseteq late \cup {i}
    BY <1>i DEF Commit
  <2>2. dirty' = [m \in Runners |-> IF Active(m) THEN dirty[m] \cup {i} ELSE {}]
    BY <1>i DEF Commit
  <2>3. QED
    BY <1>2, <2>1, <2>2, ShapeParts
<1>4. Counted'
  <2>1. /\ writes <= MaxWrites /\ writes \in Nat
        /\ \A j \in Ids : /\ last[j] + Cardinality(OpenOn(j)) <= writes /\ last[j] \in Nat
                          /\ rec[j].ver <= last[j]
    BY DEF Shape, Counted, MartTypes
  <2>2. /\ OpenOn(i)' = OpenOn(i) \ {w} /\ w \in OpenOn(i)
        /\ \A j \in Ids \ {i} : OpenOn(j)' = OpenOn(j)
    <3>1. NoTx.id \notin Ids
      BY MartConstants DEF NoTx
    <3>2. \A v \in Writers : tx'[v].id = i <=> tx[v].id = i /\ v # w
      BY <1>2, <3>1
    <3>3. \A j \in Ids \ {i} : \A v \in Writers : tx'[v].id = j <=> tx[v].id = j
      BY <1>i, <1>2, <3>1
    <3>4. OpenOn(i)' = OpenOn(i) \ {w} /\ w \in OpenOn(i)
      BY <1>i, <3>2 DEF OpenOn
    <3>5. \A j \in Ids \ {i} : OpenOn(j)' = OpenOn(j)
      BY <3>3 DEF OpenOn
    <3>6. QED
      BY <3>4, <3>5
  <2>3. Cardinality(OpenOn(i)') = Cardinality(OpenOn(i)) - 1
    BY <2>2, OpenFinite, FS_RemoveElement
  <2>4. ASSUME NEW j \in Ids
        PROVE  last'[j] + Cardinality(OpenOn(j)') <= writes /\ rec'[j].ver <= last'[j]
    <3>1. CASE j = i
      <4>1. last[i] \in Nat /\ Cardinality(OpenOn(i)) \in Nat
        BY <1>2, <2>1, OpenFinite
      <4>2. last'[j] = last[i] + 1 /\ rec'[j].ver = last[i] + 1
        BY <1>2, <3>1
      <4>3. Cardinality(OpenOn(j)') = Cardinality(OpenOn(i)) - 1
        BY <2>3, <3>1
      <4>4. last[i] + Cardinality(OpenOn(i)) <= writes
        BY <1>2, <2>1
      <4>5. QED
        BY <4>1, <4>2, <4>3, <4>4
    <3>2. CASE j # i
      BY <1>2, <2>1, <2>2, <3>2
    <3>3. QED
      BY <3>1, <3>2
  <2>5. QED
    BY <1>1, <2>1, <2>4 DEF Counted
<1>5. \A j \in Ids : rec'[j].ver \in Nat /\ rec'[j].ver <= MaxWrites
  <2>1. SUFFICES ASSUME NEW j \in Ids PROVE rec'[j].ver \in Nat /\ rec'[j].ver <= MaxWrites
    OBVIOUS
  <2>2. /\ rec'[j].ver \in Nat /\ last'[j] \in Nat /\ writes \in Nat
        /\ rec'[j].ver <= last'[j] /\ writes <= MaxWrites
        /\ last'[j] + Cardinality(OpenOn(j)') <= writes
    BY <1>1, <1>2, <1>4 DEF Counted, Shape, MartTypes
  <2>3. Cardinality(OpenOn(j)') \in Nat
    <3>1. OpenOn(j)' \in SUBSET Writers
      BY DEF OpenOn
    <3>2. QED
      BY <3>1, MartAssumption, FS_Subset, FS_CardinalityType
  <2>4. QED
    BY <2>2, <2>3, MartConstants
<1>6. rec' \in [Ids -> [ver : 0 .. MaxWrites, at : 0 .. MaxClock]]
  BY <1>2, <1>5
<1>7. tx' \in [Writers -> [id : 0 .. MaxRecords, at : 0 .. MaxClock]]
  <2>1. NoTx \in [id : 0 .. MaxRecords, at : 0 .. MaxClock]
    BY MartConstants DEF NoTx
  <2>2. QED
    BY <1>1, <2>1 DEF Shape, MartTypes, TypeOK
<1>8. \A j \in Ids : last'[j] >= last[j] /\ last'[j] \in Nat /\ last[j] \in Nat
  BY <1>2, ShapeParts
<1>9. \A j \in Ids : note[j] \in 0 .. last'[j]
  BY <1>8, ShapeParts
<1>10. TypeOK'
  BY <1>1, <1>3, <1>6, <1>7, <1>9 DEF Shape, MartTypes, TypeOK, NoteFiles, mart, notes
<1>11. MartTypes'
  BY <1>1, <1>2, <1>3, <1>10 DEF Shape, MartTypes, mart, notes
<1>12. Phased'
  <2>1. ASSUME NEW m \in Runners, NEW e \in run[m].page PROVE e.ver <= last'[e.id]
    <3>1. e.id \in Ids /\ e.ver \in Nat
      BY RunFields, ShapeParts DEF Entry
    <3>2. e.ver <= last[e.id]
      BY ShapeParts DEF InPhase
    <3>3. QED
      BY <1>8, <3>1, <3>2
  <2>2. QED
    BY <1>1, <2>1 DEF Shape, Phased, InPhase, Active, mart
<1>13. QED
  BY <1>4, <1>11, <1>12 DEF Shape

LEMMA WithdrawWrites ==
    ASSUME Shape, NEW i \in Ids, Withdraw(i)
    PROVE  /\ rec' \in [Ids -> [ver : 0 .. MaxWrites, at : 0 .. MaxClock]]
           /\ rec'[i].ver = 0 /\ \A j \in Ids \ {i} : rec'[j] = rec[j]
<1>1. PICK r : r = [ver |-> 0, at |-> 0]
  OBVIOUS
<1>2. r \in [ver : 0 .. MaxWrites, at : 0 .. MaxClock] /\ r.ver = 0
  BY <1>1, MartConstants
<1>3. rec' = [rec EXCEPT ![i] = r] /\ rec \in [Ids -> [ver : 0 .. MaxWrites, at : 0 .. MaxClock]]
  BY <1>1 DEF Withdraw, Shape, MartTypes, TypeOK
<1>4. QED
  BY <1>2, <1>3

LEMMA ShapeWithdraw == ASSUME Shape, NEW i \in Ids, Withdraw(i) PROVE Shape'
<1>1. /\ clock' = clock /\ last' = last /\ tx' = tx /\ UNCHANGED mart /\ run' = run
      /\ alone' = alone /\ late' = late /\ damaged' = damaged /\ broken' = broken
      /\ writes' = writes + 1 /\ writes < MaxWrites
      /\ dirty' = [m \in Runners |-> IF Active(m) THEN dirty[m] \cup {i} ELSE {}]
  BY DEF Withdraw
<1>2. /\ rec' \in [Ids -> [ver : 0 .. MaxWrites, at : 0 .. MaxClock]]
      /\ rec'[i].ver = 0 /\ \A j \in Ids \ {i} : rec'[j] = rec[j]
  BY WithdrawWrites
<1>3. TypeOK'
  BY <1>1, <1>2 DEF Shape, MartTypes, TypeOK, NoteFiles, mart, notes
<1>4. writes' \in Nat /\ writes \in Nat /\ writes' <= MaxWrites
  BY <1>1, MartConstants DEF Shape, MartTypes
<1>5. dirty' \in [Runners -> SUBSET Ids]
  BY <1>1, ShapeParts
<1>6. MartTypes'
  BY <1>1, <1>3, <1>4, <1>5 DEF Shape, MartTypes, mart, notes
<1>7. Counted'
  <2>1. ASSUME NEW j \in Ids
        PROVE  last[j] + Cardinality(OpenOn(j)) <= writes' /\ rec'[j].ver <= last[j]
    <3>1. /\ last[j] + Cardinality(OpenOn(j)) <= writes /\ rec[j].ver <= last[j]
          /\ last[j] \in Nat /\ Cardinality(OpenOn(j)) \in Nat
      BY OpenFinite, ShapeParts DEF Shape, Counted
    <3>2. QED
      BY <1>1, <1>2, <1>4, <3>1
  <2>2. \A j \in Ids : OpenOn(j)' = OpenOn(j)
    BY <1>1 DEF OpenOn
  <2>3. QED
    BY <1>1, <1>4, <2>1, <2>2 DEF Counted
<1>8. Phased'
  BY <1>1 DEF Shape, Phased, InPhase, Active, mart
<1>9. QED
  BY <1>6, <1>7, <1>8 DEF Shape

LEMMA ShapeStep == Shape /\ [Next]_vars => Shape'
<1> SUFFICES ASSUME Shape, [Next]_vars PROVE Shape'
  OBVIOUS
<1>1. CASE \E w \in Writers : Begin(w) \/ Commit(w)
  BY <1>1, ShapeBegin, ShapeCommit
<1>2. CASE \E i \in Ids : Withdraw(i)
  BY <1>2, ShapeWithdraw
<1>3. CASE \E m \in Runners : Run(m)
  <2>1. PICK m \in Runners : Run(m)
    BY <1>3
  <2>2. QED
    BY <2>1, ShapeSyncStart, ShapeBuildStart, ShapeWipeSome, ShapeWipeDone, ShapeFetchPage,
       ShapeOpenNote, ShapeWriteNote, ShapeSyncFinish, ShapeSaveCursor, ShapeBuildFinish,
       ShapeExit DEF Run
<1>4. CASE UNCHANGED vars
  <2>1. /\ clock' = clock /\ rec' = rec /\ last' = last /\ tx' = tx /\ writes' = writes
        /\ UNCHANGED mart /\ run' = run /\ UNCHANGED hist
    BY <1>4 DEF vars, db
  <2>2. TypeOK'
    BY <2>1 DEF Shape, MartTypes, TypeOK, NoteFiles, mart, notes, hist
  <2>3. MartTypes'
    BY <2>1, <2>2 DEF Shape, MartTypes, mart, notes, hist
  <2>4. Counted' /\ Phased'
    BY <2>1 DEF Shape, Counted, OpenOn, Phased, InPhase, Active, mart, hist
  <2>5. QED
    BY <2>3, <2>4 DEF Shape
<1>5. QED
  BY <1>1, <1>2, <1>3, <1>4, ShapeTick, ShapeOperator DEF Next

-----------------------------------------------------------------------------
(* Runs that overlap.                                                      *)

LEMMA SoloKept ==
    ASSUME Solo, alone' = alone, damaged' = damaged, \A m \in Runners : Active(m)' => Active(m)
    PROVE  Solo'
  BY DEF Solo

(* A run that has started: it finds the directory to itself, or is not alone. *)
LEMMA StartedAlone ==
    ASSUME Shape, NEW m \in Runners, ~Active(m), Started(m),
           \A n \in Runners \ {m} : run'[n] = run[n]
    PROVE  /\ alone'[m] => \A n \in Runners : ~Active(n)
           /\ \A n \in Runners \ {m} : Active(n)' => ~alone'[n]
           /\ ~damaged' => ~damaged /\ \A n \in Runners : ~Active(n)
           /\ dirty'[m] = {}
<1> DEFINE others == {n \in Runners \ {m} : Active(n)}
<1>1. alone' = [n \in Runners |-> IF n = m \/ n \in others THEN others = {} ELSE alone[n]]
  BY DEF Started
<1>2. damaged' <=> (damaged \/ others # {})
  BY DEF Started
<1>3. others = {} => \A n \in Runners : ~Active(n)
  OBVIOUS
<1>4. alone'[m] <=> others = {}
  BY <1>1
<1>5. ASSUME NEW n \in Runners \ {m}, Active(n)' PROVE ~alone'[n]
  <2>1. n \in others
    BY <1>5 DEF Active
  <2>2. alone'[n] <=> others = {}
    BY <1>1, <2>1
  <2>3. QED
    BY <2>1, <2>2
<1>6. dirty'[m] = {}
  BY ShapeParts DEF Started
<1>7. QED
  BY <1>2, <1>3, <1>4, <1>5, <1>6

LEMMA SoloStart ==
    ASSUME Shape, NEW m \in Runners, ~Active(m), Started(m),
           \A n \in Runners \ {m} : run'[n] = run[n]
    PROVE  Solo'
<1>1. /\ alone'[m] => \A n \in Runners : ~Active(n)
      /\ \A n \in Runners \ {m} : Active(n)' => ~alone'[n]
      /\ ~damaged' => ~damaged /\ \A n \in Runners : ~Active(n)
  BY StartedAlone
<1>2. \A n \in Runners \ {m} : Active(n)' <=> Active(n)
  BY DEF Active
<1>3. (\A n \in Runners : ~Active(n)) => alone'[m]
  <2>1. {n \in Runners \ {m} : Active(n)} = {} => alone'[m]
    BY DEF Started
  <2>2. QED
    BY <2>1
<1>4. QED
  BY <1>1, <1>2, <1>3 DEF Solo

LEMMA SoloEnd ==
    ASSUME Shape, Solo, NEW m \in Runners, Ended(m), damaged => damaged'
    PROVE  Solo'
<1>1. RunIs(m, "idle", "sync", Zero, {}, TRUE, {}, 0)
  BY EndedRun, ShapeParts
<1>2. ~Active(m)' /\ \A n \in Runners \ {m} : Active(n)' <=> Active(n)
  BY <1>1 DEF RunIs, Active
<1>3. \A n \in Runners \ {m} : alone'[n] = alone[n]
  BY ShapeParts DEF Ended
<1>4. QED
  BY <1>2, <1>3 DEF Solo

LEMMA SoloStep == Shape /\ Solo /\ [Next]_vars => Solo'
<1> SUFFICES ASSUME Shape, Solo, [Next]_vars PROVE Solo'
  OBVIOUS
<1>1. CASE run' = run /\ alone' = alone /\ damaged' = damaged
  BY <1>1, SoloKept DEF Active
<1>2. CASE Tick \/ (\E w \in Writers : Begin(w) \/ Commit(w)) \/ (\E i \in Ids : Withdraw(i))
           \/ UNCHANGED vars
  BY <1>1, <1>2 DEF Tick, Begin, Commit, Withdraw, hist, vars
<1>3. CASE Redefine
  BY <1>3 DEF Redefine, Solo, Active
<1>4. CASE Purge
  <2>1. \A m \in Runners : Active(m)' => Active(m)
    BY <1>4, PurgeRuns, ShapeParts DEF Active
  <2>2. alone' = alone /\ damaged' = damaged
    BY <1>4 DEF Purge
  <2>3. QED
    BY <2>1, <2>2, SoloKept
<1>5. ASSUME NEW m \in Runners, Run(m) PROVE Solo'
  <2>1. CASE SyncStart(m)
    <3>1. RunIs(m, "list", "sync", cursor, {}, TRUE, {}, 0)
      BY <2>1, SyncStartRun, ShapeParts
    <3>2. QED
      BY <2>1, <3>1, SoloStart DEF SyncStart, RunIs
  <2>2. CASE BuildStart(m)
    <3>1. PICK p \in {"wipe", "list"} : RunIs(m, p, "build", Zero, {}, TRUE, {}, 0)
      BY <2>2, BuildStartRun, ShapeParts
    <3>2. QED
      BY <2>2, <3>1, SoloStart DEF BuildStart, RunIs
  <2>3. CASE WipeSome(m) \/ WipeDone(m)
    <3>1. PICK p \in {"wiping", "list"} : run' = [run EXCEPT ![m].pc = p]
      BY <2>3 DEF WipeSome, WipeDone
    <3>2. RunIs(m, p, run[m].mode, run[m].pos, run[m].page, run[m].full, run[m].wrote, run[m].open)
      <4>1. p \in Phases
        BY <3>1 DEF Phases
      <4>2. QED
        BY <3>1, <4>1, PhaseRun, ShapeParts
    <3>3. run[m].pc # "idle" /\ alone' = alone /\ damaged' = damaged
      BY <2>3 DEF WipeSome, WipeDone
    <3>4. QED
      BY <3>2, <3>3, SoloKept DEF RunIs, Active
  <2>4. CASE FetchPage(m) \/ OpenNote(m) \/ WriteNote(m) \/ SyncFinish(m)
    <3>1. run[m].pc = "list" /\ alone' = alone /\ damaged' = damaged
      BY <2>4 DEF FetchPage, OpenNote, WriteNote, SyncFinish, hist
    <3>2. \A n \in Runners \ {m} : run'[n] = run[n]
      BY <2>4, FetchRun, OpenNoteRun, WriteNoteRun, SyncFinishRun, ShapeParts DEF RunIs
    <3>3. QED
      BY <3>1, <3>2, SoloKept DEF Active
  <2>5. CASE BuildFinish(m)
    <3>1. RunIs(m, "built", "build", Zero, {}, TRUE, {}, 0)
      BY <2>5, BuildFinishRun, ShapeParts
    <3>2. Active(m) /\ alone' = alone /\ (damaged' <=> damaged /\ ~alone[m])
      BY <2>5 DEF BuildFinish, Active
    <3>3. \A n \in Runners : Active(n)' <=> Active(n)
      BY <3>1, <3>2 DEF RunIs, Active
    <3>4. QED
      BY <3>2, <3>3 DEF Solo
  <2>6. CASE SaveCursor(m) \/ SaveUnlinked(m) \/ BuildExit(m) \/ Fail(m)
    <3>1. Ended(m)
      BY <2>6 DEF SaveCursor, SaveUnlinked, BuildExit, Fail
    <3>2. damaged => damaged'
      BY <2>6, Zenon DEF SaveCursor, SaveUnlinked, BuildExit, Fail
    <3>3. QED
      BY <3>1, <3>2, SoloEnd
  <2>7. QED
    BY <1>5, <2>1, <2>2, <2>3, <2>4, <2>5, <2>6 DEF Run
<1>6. QED
  BY <1>2, <1>3, <1>4, <1>5 DEF Next

-----------------------------------------------------------------------------
(* The feed.                                                               *)

LEMMA FeedInit == Init => Solo /\ Feed
<1> SUFFICES ASSUME Init PROVE Solo /\ Feed
  OBVIOUS
<1>1. \A m \in Runners : run[m].pc = "idle"
  BY QuietFields DEF Init
<1>2. \A i \in Ids : rec[i].ver = 0
  BY DEF Init
<1>3. QED
  BY <1>1, <1>2 DEF Solo, Feed, Syncing, Building, Active, Honest, Owed

LEMMA FeedSame ==
    ASSUME Feed, rec' = rec, cursor' = cursor, note' = note, torn' = torn,
           ephemeral' = ephemeral, run' = run, UNCHANGED hist
    PROVE  Feed'
  BY DEF Feed, Syncing, SyncApplies, Building, BuildRenders, Active, Honest, Wiped, Owed, hist

(* Record i changes, and is owed neither at the cursor nor by a Sync.      *)
LEMMA FeedRecord ==
    ASSUME Shape, Feed, NEW i \in Ids, UNCHANGED mart, run' = run, alone' = alone,
           damaged' = damaged, broken' = broken,
           \A j \in Ids \ {i} : rec'[j] = rec[j] /\ (j \in late' <=> j \in late),
           dirty' = [m \in Runners |-> IF Active(m) THEN dirty[m] \cup {i} ELSE {}],
           ~Owed(cursor, i)', \A m \in Runners : Syncing(m) => ~Owed(run[m].pos, i)'
    PROVE  Feed'
<1>0. /\ cursor' = cursor /\ note' = note /\ torn' = torn /\ ephemeral' = ephemeral
      /\ broken' = broken
  BY DEF mart, notes
<1>2. \A m \in Runners : run[m].page \subseteq Entry /\ run[m].wrote \subseteq Ids
                         /\ dirty[m] \subseteq Ids
  BY RunFields, ShapeParts
<1>3. ASSUME NEW m \in Runners, Syncing(m)' PROVE SyncApplies(m)'
  <2>1. Syncing(m)
    BY <1>3 DEF Syncing
  <2>2. SyncApplies(m)
    BY <2>1 DEF Feed
  <2>3. ~Owed(run[m].pos, i)' /\ ~Owed(cursor, i)'
    BY <2>1
  <2>4. \A e \in run[m].page : e.id \in Ids
    BY <1>2 DEF Entry
  <2>5. QED
    BY <1>0, <2>2, <2>3, <2>4 DEF SyncApplies, Owed
<1>4. ASSUME NEW m \in Runners, Building(m)' PROVE BuildRenders(m)'
  <2>1. Building(m) /\ Active(m)
    BY <1>4 DEF Building, Active
  <2>2. BuildRenders(m)
    BY <2>1 DEF Feed
  <2>3. dirty'[m] = dirty[m] \cup {i}
    BY <2>1
  <2>4. \A e \in run[m].page : e.id \in Ids
    BY <1>2 DEF Entry
  <2>5. \A j \in dirty'[m] : ~Owed(cursor, j)'
    <3>1. SUFFICES ASSUME NEW j \in dirty[m], j # i PROVE ~Owed(cursor, j)'
      BY <2>3
    <3>2. ~Owed(cursor, j) /\ j \in Ids
      BY <1>2, <2>2 DEF BuildRenders
    <3>3. QED
      BY <1>0, <3>1, <3>2 DEF Owed
  <2>6. QED
    BY <1>0, <2>2, <2>3, <2>4, <2>5 DEF BuildRenders
<1>5. Honest'
  BY <1>0 DEF Feed, Honest, Wiped, Owed
<1>6. QED
  BY <1>3, <1>4, <1>5 DEF Feed

LEMMA FeedCommit == ASSUME Shape, Feed, NEW w \in Writers, Commit(w) PROVE Feed'
<1>i. PICK i : i = tx[w].id
  OBVIOUS
<1>1. /\ i \in Ids /\ <<tx[w].at, i>> \in Pos /\ rec'[i].at = tx[w].at
      /\ \A j \in Ids \ {i} : rec'[j] = rec[j]
  BY <1>i, CommitWrites
<1>2. /\ UNCHANGED mart /\ run' = run /\ alone' = alone /\ damaged' = damaged
      /\ broken' = broken
      /\ dirty' = [m \in Runners |-> IF Active(m) THEN dirty[m] \cup {i} ELSE {}]
  BY <1>i DEF Commit
<1>3. /\ \A j \in Ids \ {i} : j \in late' <=> j \in late
      /\ \/ i \in late'
         \/ /\ Before(cursor, <<tx[w].at, i>>)
            /\ \A m \in Runners : Active(m) /\ run[m].mode = "sync" =>
                  Before(run[m].pos, <<tx[w].at, i>>)
  BY <1>i DEF Commit
<1>4. ~Owed(cursor, i)'
  BY <1>1, <1>2, <1>3 DEF Owed, mart
<1>5. ASSUME NEW m \in Runners, Syncing(m) PROVE ~Owed(run[m].pos, i)'
  BY <1>1, <1>2, <1>3, <1>5 DEF Owed, Syncing, Active
<1>6. QED
  BY <1>1, <1>2, <1>3, <1>4, <1>5, FeedRecord

LEMMA FeedWithdraw == ASSUME Shape, Feed, NEW i \in Ids, Withdraw(i) PROVE Feed'
<1>1. rec'[i].ver = 0 /\ \A j \in Ids \ {i} : rec'[j] = rec[j]
  BY WithdrawWrites
<1>2. /\ UNCHANGED mart /\ run' = run /\ alone' = alone /\ damaged' = damaged /\ late' = late
      /\ broken' = broken
      /\ dirty' = [m \in Runners |-> IF Active(m) THEN dirty[m] \cup {i} ELSE {}]
  BY DEF Withdraw
<1>4. ~Owed(cursor, i)' /\ \A m \in Runners : ~Owed(run[m].pos, i)'
  BY <1>1 DEF Owed
<1>5. QED
  BY <1>1, <1>2, <1>4, FeedRecord

(* With no run under way the cursor is honest, unless there is damage.     *)
LEMMA HonestAtRest ==
    ASSUME Feed, ~damaged, \A n \in Runners : ~Active(n)
    PROVE  \A i \in Ids : Owed(cursor, i) => note[i] = rec[i].ver \/ i \in broken
  BY DEF Feed, Honest, Wiped, Active

LEMMA FeedSyncStart == ASSUME Shape, Feed, NEW m \in Runners, SyncStart(m) PROVE Feed'
<1>1. RunIs(m, "list", "sync", cursor, {}, TRUE, {}, 0)
  BY SyncStartRun, ShapeParts
<1>2. /\ rec' = rec /\ cursor' = cursor /\ note' = note /\ ~Active(m) /\ Started(m)
      /\ late' = late /\ torn' = torn /\ broken' = broken
  BY DEF SyncStart, Started, db, notes
<1>3. /\ alone'[m] => \A n \in Runners : ~Active(n)
      /\ \A n \in Runners \ {m} : Active(n)' => ~alone'[n]
      /\ ~damaged' => ~damaged /\ \A n \in Runners : ~Active(n)
  BY <1>1, <1>2, StartedAlone DEF RunIs
<1>4. ~damaged' => \A i \in Ids : Owed(cursor, i) => note[i] = rec[i].ver \/ i \in broken
  BY <1>3, HonestAtRest
<1>5. \A n \in Runners : ~Building(n)' /\ (Syncing(n)' => n = m)
  BY <1>1, <1>3 DEF Building, Syncing, Active, RunIs
<1>6. SyncApplies(m)'
  <2>1. cursor \in Pos /\ ~Before(cursor, cursor)
    BY ShapeParts, BeforeIsOrder
  <2>2. QED
    BY <1>1, <1>2, <1>4, <2>1 DEF SyncApplies, RunIs, Owed
<1>7. Honest'
  BY <1>2, <1>4 DEF Honest, Owed
<1>8. QED
  BY <1>5, <1>6, <1>7 DEF Feed

LEMMA FeedBuildStart == ASSUME Shape, Feed, NEW m \in Runners, BuildStart(m) PROVE Feed'
<1>1. PICK p \in {"wipe", "list"} : RunIs(m, p, "build", Zero, {}, TRUE, {}, 0)
  BY BuildStartRun, ShapeParts
<1>2. /\ rec' = rec /\ cursor' = cursor /\ note' = note /\ ~Active(m) /\ Started(m)
      /\ late' = late /\ torn' = torn /\ broken' = broken
  BY DEF BuildStart, Started, db, notes
<1>3. /\ \A n \in Runners \ {m} : Active(n)' => ~alone'[n]
      /\ ~damaged' => ~damaged /\ \A n \in Runners : ~Active(n)
      /\ dirty'[m] = {}
  BY <1>1, <1>2, StartedAlone DEF RunIs
<1>4. ~damaged' => \A i \in Ids : Owed(cursor, i) => note[i] = rec[i].ver \/ i \in broken
  BY <1>3, HonestAtRest
<1>5. \A n \in Runners : ~Syncing(n)' /\ (Building(n)' => n = m)
  BY <1>1, <1>3 DEF Building, Syncing, Active, RunIs
<1>6. BuildRenders(m)'
  <2>1. \A i \in Ids : i > Zero[2]
    BY MartConstants DEF Zero
  <2>2. QED
    BY <1>1, <1>3, <2>1 DEF BuildRenders, RunIs
<1>7. Honest'
  BY <1>2, <1>4 DEF Honest, Owed
<1>8. QED
  BY <1>5, <1>6, <1>7 DEF Feed

(* A step of a run that leaves the history alone concerns that run only.   *)
LEMMA FeedOfRun ==
    ASSUME Solo, NEW m \in Runners, Active(m), alone' = alone,
           \A n \in Runners \ {m} : run'[n] = run[n],
           Syncing(m)' => SyncApplies(m)', Building(m)' => BuildRenders(m)', Honest'
    PROVE  Feed'
<1>1. ASSUME NEW n \in Runners, Syncing(n)' \/ Building(n)' PROVE n = m
  <2>1. SUFFICES ASSUME n # m PROVE FALSE
    OBVIOUS
  <2>2. Active(n) /\ alone[n]
    BY <1>1, <2>1 DEF Syncing, Building, Active
  <2>3. QED
    BY <2>1, <2>2 DEF Solo
<1>2. QED
  BY <1>1 DEF Feed

LEMMA FeedWipe == ASSUME Shape, Solo, Feed, NEW m \in Runners, WipeSome(m) \/ WipeDone(m) PROVE Feed'
<1>1. PICK p \in {"wiping", "list"} : run' = [run EXCEPT ![m].pc = p]
  BY DEF WipeSome, WipeDone
<1>2. RunIs(m, p, run[m].mode, run[m].pos, run[m].page, run[m].full, run[m].wrote, run[m].open)
  BY <1>1, PhaseRun, ShapeParts DEF Phases
<1>3. /\ run[m].pc \in {"wipe", "wiping"} /\ rec' = rec /\ cursor' = cursor
      /\ ephemeral' = ephemeral
      /\ alone' = alone /\ damaged' = damaged /\ late' = late /\ dirty' = dirty
  BY DEF WipeSome, WipeDone, db
<1>4. /\ ephemeral /\ run[m].page = {} /\ run[m].wrote = {} /\ run[m].full
      /\ run[m].pos = Zero /\ run[m].mode = "build" /\ run[m].open = 0
  BY <1>3, ShapeParts, RunFields DEF InPhase
<1>5. ASSUME Building(m)' PROVE BuildRenders(m)'
  <2>1. Building(m)
    BY <1>3, <1>4, <1>5 DEF Building, Active
  <2>2. \A i \in dirty[m] : ~Owed(cursor, i)
    BY <2>1 DEF Feed, BuildRenders
  <2>3. \A i \in dirty'[m] : ~Owed(cursor, i)'
    BY <1>3, <2>2 DEF Owed
  <2>4. \A i \in Ids : i > Zero[2]
    BY MartConstants DEF Zero
  <2>5. QED
    BY <1>2, <1>4, <2>3, <2>4 DEF BuildRenders, RunIs
<1>6. ~Syncing(m)'
  BY <1>2, <1>4 DEF Syncing, RunIs
<1>7. Wiped'
  BY <1>2, <1>3, <1>4 DEF Wiped, RunIs
<1>8. Active(m)
  BY <1>3 DEF Active
<1>9. QED
  BY <1>2, <1>3, <1>5, <1>6, <1>7, <1>8, FeedOfRun DEF RunIs, Honest

LEMMA FeedFetchPage == ASSUME Shape, Solo, Feed, NEW m \in Runners, FetchPage(m) PROVE Feed'
<1> DEFINE mode == run[m].mode
           pos  == run[m].pos
           p    == Page(mode, pos)
<1>0. /\ rec' = rec /\ ephemeral' = ephemeral /\ cursor' = cursor /\ note' = note
      /\ torn' = torn /\ broken' = broken
      /\ late' = late /\ dirty' = dirty /\ alone' = alone /\ damaged' = damaged
  BY DEF FetchPage, hist, mart, notes, db
<1>1. PICK k \in Pos :
         /\ RunIs(m, "list", mode, k, p, (Cardinality(p) = PageSize), run[m].wrote,
                  run[m].open)
         /\ p = {} => k = pos
         /\ p # {} => (\E e \in p : k = e.key) /\ \A e \in p : ~Before(k, e.key)
  BY FetchRun, ShapeParts
<1>2. /\ run[m].pc = "list" /\ run[m].page = {} /\ run[m].full /\ Active(m)
      /\ pos \in Pos /\ mode \in {"sync", "build"} /\ run[m].open = 0
  BY FetchRun, ShapeParts, RunFields DEF Active, InPhase
<1>3. \A e \in p : /\ e.id \in Ids /\ e.ver = rec[e.id].ver /\ e.ver > 0
                   /\ e.key = Key(mode, e.id) /\ e.key \in Pos /\ Before(pos, e.key)
  <2>1. \A e \in p : /\ e \in Entry /\ e.id \in Listed(mode, pos)
                     /\ e.ver = rec[e.id].ver /\ e.key = Key(mode, e.id)
    BY PageHolds, ShapeParts
  <2>2. QED
    BY <2>1 DEF Listed, Entry
<1>4. /\ \A e \in p, i \in Listed(mode, pos) :
              ~Before(e.key, Key(mode, i)) => \E f \in p : f.id = i
      /\ Cardinality(p) # PageSize => \A i \in Listed(mode, pos) : \E f \in p : f.id = i
  BY PageHolds, ShapeParts
(* A listed row up to the new position is on the page.                     *)
<1>5. ASSUME NEW i \in Ids, rec[i].ver > 0, Before(pos, Key(mode, i)), ~Before(k, Key(mode, i))
      PROVE  \E f \in p : f.id = i
  <2>1. p # {}
    BY <1>1, <1>5
  <2>2. PICK e \in p : k = e.key
    BY <1>1, <2>1
  <2>3. i \in Listed(mode, pos)
    BY <1>5 DEF Listed
  <2>4. QED
    BY <1>4, <1>5, <2>2, <2>3
<1>6. ASSUME Syncing(m)' PROVE SyncApplies(m)'
  <2>1. Syncing(m) /\ mode = "sync"
    BY <1>0, <1>1, <1>2, <1>6 DEF Syncing, RunIs
  <2>2. SyncApplies(m)
    BY <2>1 DEF Feed
  <2>3. ~Before(k, cursor)
    <3>1. cursor \in Pos /\ ~Before(pos, cursor)
      BY <2>2, ShapeParts DEF SyncApplies
    <3>2. CASE p = {}
      BY <1>1, <3>1, <3>2
    <3>3. CASE p # {}
      <4>1. Before(pos, k)
        BY <1>1, <1>3, <3>3
      <4>2. QED
        BY <1>2, <3>1, <4>1, BeforeIsTransitive
    <3>4. QED
      BY <3>2, <3>3
  <2>4. ASSUME ~damaged, NEW i \in Ids, Owed(k, i)
        PROVE  note[i] = rec[i].ver \/ i \in broken \/ \E f \in p : f.id = i
    <3>1. CASE Before(pos, <<rec[i].at, i>>)
      BY <1>5, <2>1, <2>4, <3>1 DEF Owed, Key
    <3>2. CASE ~Before(pos, <<rec[i].at, i>>)
      <4>1. Owed(pos, i)
        BY <2>4, <3>2 DEF Owed
      <4>2. QED
        BY <1>2, <2>2, <2>4, <4>1 DEF SyncApplies
    <3>3. QED
      BY <3>1, <3>2
  <2>5. /\ run'[m].pos = k /\ run'[m].page = p /\ run'[m].open = 0
    BY <1>1, <1>2 DEF RunIs
  <2>8. \A e \in p : ~Owed(cursor, e.id)'
    <3>1. SUFFICES ASSUME NEW e \in p PROVE Before(cursor, <<rec[e.id].at, e.id>>)
      BY <1>0 DEF Owed
    <3>2. e.key = <<rec[e.id].at, e.id>> /\ Before(pos, e.key) /\ e.key \in Pos
      BY <1>3, <2>1 DEF Key
    <3>3. cursor \in Pos /\ ~Before(pos, cursor)
      BY <2>2, ShapeParts DEF SyncApplies
    <3>4. Before(cursor, e.key)
      BY <1>2, <3>2, <3>3, BeforeIsTransitive, BeforeIsOrder
    <3>5. QED
      BY <3>2, <3>4
  <2>6. \A i \in Ids : Owed(run[m].pos, i)' <=> Owed(k, i)
    BY <1>0, <2>5 DEF Owed
  <2>7. QED
    BY <1>0, <1>3, <2>3, <2>4, <2>5, <2>6, <2>8 DEF SyncApplies
<1>7. ASSUME Building(m)' PROVE BuildRenders(m)'
  <2>1. Building(m) /\ mode = "build"
    BY <1>0, <1>1, <1>2, <1>7 DEF Building, RunIs
  <2>2. BuildRenders(m)
    BY <2>1 DEF Feed
  <2>3. pos[1] = 0
    BY <2>1, ShapeParts DEF InPhase
  <2>4. ASSUME NEW i \in Ids \ dirty[m], rec[i].ver > 0
        PROVE  \/ i \in run[m].wrote \/ \E f \in p : f.id = i
               \/ Cardinality(p) = PageSize /\ i > k[2]
    <3>1. i \in run[m].wrote \/ i > pos[2]
      BY <1>2, <2>2, <2>4 DEF BuildRenders
    <3>2. ASSUME i > pos[2] PROVE Before(pos, Key(mode, i)) /\ i \in Listed(mode, pos)
      BY <2>1, <2>3, <2>4, <3>2 DEF Before, Key, Listed
    <3>3. CASE i > pos[2] /\ Cardinality(p) # PageSize
      BY <1>4, <3>2, <3>3
    <3>4. CASE i > pos[2] /\ Cardinality(p) = PageSize
      <4>1. k[2] \in Nat /\ i \in Nat
        BY PosParts, MartConstants
      <4>2. CASE i > k[2]
        BY <3>4, <4>2
      <4>3. CASE ~(i > k[2])
        <5>1. p # {}
          <6>1. Cardinality({}) = 0
            BY FS_EmptySet
          <6>2. PageSize # 0
            BY MartConstants
          <6>3. QED
            BY <3>4, <6>1, <6>2
        <5>2. k[1] = 0
          BY <1>1, <1>3, <2>1, <5>1 DEF Key
        <5>3. ~Before(k, Key(mode, i))
          BY <2>1, <4>1, <4>3, <5>2 DEF Before, Key
        <5>4. QED
          BY <1>5, <2>4, <3>2, <3>4, <5>3
      <4>4. QED
        BY <4>2, <4>3
    <3>5. QED
      BY <3>1, <3>3, <3>4
  <2>5. /\ run'[m].pos = k /\ run'[m].page = p /\ run'[m].wrote = run[m].wrote
        /\ run'[m].full = (Cardinality(p) = PageSize) /\ run'[m].pc = "list"
        /\ run'[m].open = 0
    BY <1>1, <1>2 DEF RunIs
  <2>6. \A i \in dirty'[m] : ~Owed(cursor, i)'
    BY <1>0, <2>2 DEF BuildRenders, Owed
  <2>7. \A i \in Ids \ dirty'[m] : i \in run'[m].wrote => rec'[i].ver > 0 /\ note'[i] = rec'[i].ver
    <3>1. \A i \in Ids : i # 0
      BY MartConstants
    <3>2. QED
      BY <1>0, <1>2, <2>2, <2>5, <3>1 DEF BuildRenders
  <2>8. \A i \in Ids \ dirty'[m] : rec'[i].ver > 0 =>
            \/ i \in run'[m].wrote \/ \E f \in run'[m].page : f.id = i
            \/ run'[m].full /\ i > run'[m].pos[2]
    BY <1>0, <2>4, <2>5
  <2>9. QED
    BY <1>0, <1>3, <2>5, <2>6, <2>7, <2>8 DEF BuildRenders
<1>8. Honest'
  <2>1. Wiped' <=> Wiped
    BY <1>0, <1>1, <1>2 DEF Wiped, RunIs
  <2>2. QED
    BY <1>0, <2>1 DEF Feed, Honest, Owed
<1>9. QED
  BY <1>0, <1>1, <1>2, <1>6, <1>7, <1>8, FeedOfRun DEF RunIs

LEMMA FeedOpenNote == ASSUME Shape, Solo, Feed, NEW m \in Runners, OpenNote(m) PROVE Feed'
<1>1. /\ rec' = rec /\ cursor' = cursor /\ ephemeral' = ephemeral /\ late' = late
      /\ dirty' = dirty /\ alone' = alone /\ damaged' = damaged
  BY DEF OpenNote, db
<1>2. PICK e \in run[m].page :
         /\ e \in Entry /\ e.id \in Ids
         /\ note' = [note EXCEPT ![e.id] = 0] /\ torn' = torn \cup {e.id}
         /\ broken' = IF run[m].mode = "build" THEN broken \cup {e.id} ELSE broken
         /\ RunIs(m, "list", run[m].mode, run[m].pos, run[m].page,
                  run[m].full, run[m].wrote, e.id)
  BY OpenNoteRun, ShapeParts
<1>3. /\ run[m].pc = "list" /\ run[m].open = 0 /\ Active(m) /\ run[m].mode \in {"sync", "build"}
  BY OpenNoteRun, RunFields, ShapeParts DEF Active
<1>4. /\ \A i \in Ids \ {e.id} : note'[i] = note[i]
      /\ e.id \in torn' /\ \A i \in broken : i \in broken'
  BY <1>2, ShapeParts
<1>5. /\ run'[m].pc = "list" /\ run'[m].mode = run[m].mode /\ run'[m].pos = run[m].pos
      /\ run'[m].page = run[m].page /\ run'[m].full = run[m].full
      /\ run'[m].wrote = run[m].wrote /\ run'[m].open = e.id
      /\ \A n \in Runners \ {m} : run'[n] = run[n]
  BY <1>2 DEF RunIs
<1>6. \A i \in Ids : i # 0
  BY MartConstants
<1>7. ASSUME Syncing(m)' PROVE SyncApplies(m)'
  <2>1. Syncing(m)
    BY <1>1, <1>3, <1>5, <1>7 DEF Syncing
  <2>2. SyncApplies(m)
    BY <2>1 DEF Feed
  <2>3. \A i \in Ids : (Owed(run[m].pos, i)' <=> Owed(run[m].pos, i))
                        /\ (Owed(cursor, i)' <=> Owed(cursor, i))
    BY <1>1, <1>5 DEF Owed
  <2>4. \A f \in run'[m].page : /\ f.id \in Ids /\ ~Owed(cursor, f.id)'
                                /\ Owed(run[m].pos, f.id)' => f.ver = rec'[f.id].ver
    <3>1. \A f \in run[m].page : f.id \in Ids
      BY RunFields, ShapeParts DEF Entry
    <3>2. QED
      BY <1>1, <1>5, <2>2, <2>3, <3>1 DEF SyncApplies
  <2>5. ASSUME ~damaged, NEW i \in Ids, Owed(run[m].pos, i)
        PROVE  note'[i] = rec[i].ver \/ i \in broken' \/ \E f \in run'[m].page : f.id = i
    <3>1. CASE i = e.id
      BY <1>2, <1>5, <3>1
    <3>2. CASE i # e.id
      BY <1>4, <1>5, <2>2, <2>5, <3>2 DEF SyncApplies
    <3>3. QED
      BY <3>1, <3>2
  <2>6. ~Before(run'[m].pos, cursor')
    BY <1>1, <1>5, <2>2 DEF SyncApplies
  <2>7. QED
    BY <1>1, <1>4, <1>5, <2>3, <2>4, <2>5, <2>6 DEF SyncApplies
<1>8. ASSUME Building(m)' PROVE BuildRenders(m)'
  <2>1. BuildRenders(m)
    BY <1>1, <1>3, <1>5, <1>8 DEF Feed, Building
  <2>2. \A i \in dirty'[m] : ~Owed(cursor, i)'
    BY <1>1, <2>1 DEF BuildRenders, Owed
  <2>3. \A i \in Ids \ dirty[m] : i \in run[m].wrote /\ i # e.id =>
            rec[i].ver > 0 /\ note'[i] = rec[i].ver
    BY <1>3, <1>4, <1>6, <2>1 DEF BuildRenders
  <2>4. QED
    BY <1>1, <1>3, <1>4, <1>5, <2>1, <2>2, <2>3 DEF BuildRenders
<1>9. Honest'
  <2>1. SUFFICES ASSUME ~damaged, ~Wiped', NEW i \in Ids, Owed(cursor, i)
                 PROVE  note'[i] = rec[i].ver \/ i \in broken'
    BY <1>1 DEF Honest, Owed
  <2>2. ~Wiped
    BY <1>1, <1>3, <1>5, <2>1 DEF Wiped
  <2>3. note[i] = rec[i].ver \/ i \in broken
    BY <2>1, <2>2 DEF Feed, Honest
  <2>4. ASSUME i = e.id PROVE run[m].mode = "build"
    <3>1. SUFFICES ASSUME run[m].mode = "sync" PROVE FALSE
      BY <1>3
    <3>2. SyncApplies(m)
      BY <1>3, <2>1, <3>1 DEF Solo, Feed, Syncing
    <3>3. QED
      BY <1>2, <2>1, <2>4, <3>2 DEF SyncApplies
  <2>5. QED
    BY <1>2, <1>4, <2>3, <2>4
<1>10. QED
  BY <1>1, <1>3, <1>5, <1>7, <1>8, <1>9, FeedOfRun

LEMMA FeedWriteNote == ASSUME Shape, Solo, Feed, NEW m \in Runners, WriteNote(m) PROVE Feed'
<1>1. /\ rec' = rec /\ cursor' = cursor /\ ephemeral' = ephemeral /\ late' = late
      /\ dirty' = dirty /\ alone' = alone /\ damaged' = damaged
  BY DEF WriteNote, db
<1>2. PICK e \in run[m].page :
         /\ e \in Entry /\ e.id \in Ids /\ e.id = run[m].open
         /\ IF e.id \in NoteFiles
              THEN /\ note' = [note EXCEPT ![e.id] = e.ver]
                   /\ torn' = torn \ {e.id} /\ broken' = broken \ {e.id}
              ELSE note' = note /\ torn' = torn /\ broken' = broken
         /\ RunIs(m, "list", run[m].mode, run[m].pos, run[m].page \ {e},
                  run[m].full, run[m].wrote \cup {e.id}, 0)
  BY WriteNoteRun, ShapeParts
<1>3. /\ run[m].pc = "list" /\ Active(m) /\ e.id # 0
      /\ run[m].mode \in {"sync", "build"} /\ run[m].pos \in Pos
  BY <1>2, WriteNoteRun, RunFields, ShapeParts, MartConstants DEF Active
<1>4. /\ \A i \in Ids \ {e.id} : note'[i] = note[i] /\ (i \in broken' <=> i \in broken)
      /\ e.id \in torn => note'[e.id] = e.ver
  BY <1>2, ShapeParts DEF NoteFiles
<1>5. /\ run'[m].pc = "list" /\ run'[m].mode = run[m].mode /\ run'[m].pos = run[m].pos
      /\ run'[m].page = run[m].page \ {e} /\ run'[m].full = run[m].full
      /\ run'[m].wrote = run[m].wrote \cup {e.id} /\ run'[m].open = 0
      /\ \A n \in Runners \ {m} : run'[n] = run[n]
  BY <1>2 DEF RunIs
<1>6. \A i \in Ids : (\E f \in run[m].page : f.id = i) =>
                        i = e.id \/ \E f \in run'[m].page : f.id = i
  BY <1>5
<1>7. ASSUME Syncing(m)' PROVE SyncApplies(m)'
  <2>1. Syncing(m)
    BY <1>1, <1>3, <1>5, <1>7 DEF Syncing
  <2>2. SyncApplies(m) /\ note'[e.id] = e.ver
    BY <1>2, <1>3, <1>4, <2>1 DEF Feed, SyncApplies
  <2>3. Owed(run[m].pos, e.id) => e.ver = rec[e.id].ver
    BY <1>2, <2>2 DEF SyncApplies
  <2>4. \A i \in Ids : (Owed(run[m].pos, i)' <=> Owed(run[m].pos, i))
                        /\ (Owed(cursor, i)' <=> Owed(cursor, i))
    BY <1>1, <1>5 DEF Owed
  <2>5. \A f \in run'[m].page : /\ ~Owed(cursor, f.id)'
                                /\ Owed(run[m].pos, f.id)' => f.ver = rec'[f.id].ver
    <3>1. \A f \in run'[m].page : f.id \in Ids /\ f \in run[m].page
      BY <1>5, RunFields, ShapeParts DEF Entry
    <3>2. QED
      BY <1>1, <2>2, <2>4, <3>1 DEF SyncApplies
  <2>6. ASSUME ~damaged, NEW i \in Ids, Owed(run[m].pos, i)
        PROVE  note'[i] = rec[i].ver \/ i \in broken' \/ \E f \in run'[m].page : f.id = i
    <3>1. CASE i = e.id
      BY <2>2, <2>3, <2>6, <3>1
    <3>2. CASE i # e.id
      <4>1. note[i] = rec[i].ver \/ i \in broken \/ \E f \in run[m].page : f.id = i
        BY <2>2, <2>6 DEF SyncApplies
      <4>2. QED
        BY <1>4, <1>6, <3>2, <4>1
    <3>3. QED
      BY <3>1, <3>2
  <2>7. ~Before(run'[m].pos, cursor')
    BY <1>1, <1>5, <2>2 DEF SyncApplies
  <2>8. QED
    BY <1>1, <1>5, <2>4, <2>5, <2>6, <2>7 DEF SyncApplies
<1>8. ASSUME Building(m)' PROVE BuildRenders(m)'
  <2>1. Building(m)
    BY <1>1, <1>3, <1>5, <1>8 DEF Building
  <2>2. BuildRenders(m) /\ note'[e.id] = e.ver
    BY <1>2, <1>3, <1>4, <2>1 DEF Feed, BuildRenders
  <2>3. \A i \in dirty'[m] : ~Owed(cursor, i)'
    BY <1>1, <2>2 DEF BuildRenders, Owed
  <2>4. e.id \notin dirty[m] => e.ver = rec[e.id].ver /\ e.ver > 0
    BY <1>2, <1>3, <2>2 DEF BuildRenders
  <2>5. \A f \in run'[m].page : f.id \notin dirty[m] => f.ver = rec[f.id].ver /\ f.ver > 0
    BY <1>3, <1>5, <2>2 DEF BuildRenders
  <2>6. ASSUME NEW i \in Ids \ dirty[m]
        PROVE  i \in run'[m].wrote => rec[i].ver > 0 /\ note'[i] = rec[i].ver
    <3>1. CASE i = e.id
      BY <2>2, <2>4, <3>1
    <3>2. CASE i # e.id
      <4>1. i \in run[m].wrote => rec[i].ver > 0 /\ note[i] = rec[i].ver
        BY <1>2, <1>3, <2>2, <3>2 DEF BuildRenders
      <4>2. QED
        BY <1>4, <1>5, <3>2, <4>1
    <3>3. QED
      BY <3>1, <3>2
  <2>7. ASSUME NEW i \in Ids \ dirty[m], rec[i].ver > 0
        PROVE  \/ i \in run'[m].wrote \/ \E f \in run'[m].page : f.id = i
               \/ run'[m].full /\ i > run'[m].pos[2]
    <3>1. \/ i \in run[m].wrote \/ \E f \in run[m].page : f.id = i
          \/ run[m].full /\ i > run[m].pos[2]
      BY <1>3, <2>2, <2>7 DEF BuildRenders
    <3>2. QED
      BY <1>5, <1>6, <3>1
  <2>8. QED
    BY <1>1, <1>5, <2>3, <2>5, <2>6, <2>7 DEF BuildRenders
<1>9. Honest'
  <2>1. SUFFICES ASSUME ~damaged, ~Wiped', NEW i \in Ids, Owed(cursor, i)
                 PROVE  note'[i] = rec[i].ver \/ i \in broken'
    BY <1>1 DEF Honest, Owed
  <2>2. ~Wiped
    BY <1>1, <1>3, <1>5, <2>1 DEF Wiped
  <2>3. note[i] = rec[i].ver \/ i \in broken
    BY <2>1, <2>2 DEF Feed, Honest
  <2>4. alone[m]
    BY <1>3, <2>1 DEF Solo
  <2>5. ASSUME i = e.id PROVE note'[i] = rec[i].ver
    <3>1. CASE run[m].mode = "sync"
      <4>1. SyncApplies(m)
        BY <1>3, <2>4, <3>1 DEF Feed, Syncing
      <4>2. QED
        BY <1>2, <2>1, <2>5, <4>1 DEF SyncApplies
    <3>2. CASE run[m].mode = "build"
      <4>1. BuildRenders(m)
        BY <1>3, <2>4, <3>2 DEF Feed, Building
      <4>2. i \notin dirty[m] /\ note'[i] = e.ver
        BY <1>2, <1>3, <1>4, <2>1, <2>5, <4>1 DEF BuildRenders
      <4>3. QED
        BY <1>2, <1>3, <2>5, <4>1, <4>2 DEF BuildRenders
    <3>3. QED
      BY <1>3, <3>1, <3>2
  <2>6. QED
    BY <1>4, <2>3, <2>5
<1>10. QED
  BY <1>1, <1>3, <1>5, <1>7, <1>8, <1>9, FeedOfRun

(* A run ends: what holds of the others was said of a run that is alone.   *)
LEMMA FeedOfEnd ==
    ASSUME Shape, Solo, NEW m \in Runners, Active(m), Ended(m), Honest'
    PROVE  Feed'
<1>1. /\ run'[m].pc = "idle" /\ \A n \in Runners \ {m} : run'[n] = run[n]
  BY EndedRun, ShapeParts DEF RunIs
<1>2. \A n \in Runners \ {m} : alone'[n] = alone[n]
  BY ShapeParts DEF Ended
<1>3. ASSUME NEW n \in Runners, Syncing(n)' \/ Building(n)' PROVE FALSE
  <2>1. n # m
    BY <1>1, <1>3 DEF Syncing, Building, Active
  <2>2. Active(n) /\ alone[n]
    BY <1>1, <1>2, <1>3, <2>1 DEF Syncing, Building, Active
  <2>3. QED
    BY <2>1, <2>2 DEF Solo
<1>4. QED
  BY <1>3 DEF Feed

(* The cursor file is truncated: nothing else has changed.                 *)
LEMMA FeedSyncFinish == ASSUME Shape, Solo, Feed, NEW m \in Runners, SyncFinish(m) PROVE Feed'
<1>1. /\ rec' = rec /\ cursor' = cursor /\ note' = note /\ torn' = torn
      /\ ephemeral' = ephemeral /\ UNCHANGED hist
      /\ run[m].pc = "list" /\ run[m].mode = "sync" /\ Active(m)
  BY DEF SyncFinish, db, notes, Active
<1>2. /\ run'[m].pc = "save" /\ run'[m].mode = "sync" /\ run'[m].pos = run[m].pos
      /\ run'[m].page = run[m].page /\ run'[m].open = run[m].open
      /\ \A n \in Runners \ {m} : run'[n] = run[n]
  BY <1>1, SyncFinishRun, ShapeParts DEF RunIs
<1>3. alone' = alone /\ late' = late /\ damaged' = damaged /\ broken' = broken
  BY <1>1 DEF hist
<1>4. ASSUME Syncing(m)' PROVE SyncApplies(m)'
  <2>1. SyncApplies(m)
    BY <1>1, <1>3, <1>4 DEF Feed, Syncing
  <2>2. QED
    BY <1>1, <1>2, <1>3, <2>1 DEF SyncApplies, Owed
<1>5. ~Building(m)'
  BY <1>2 DEF Building
<1>6. Honest'
  <2>1. Wiped' <=> Wiped
    BY <1>1, <1>2 DEF Wiped
  <2>2. QED
    BY <1>1, <1>3, <2>1 DEF Feed, Honest, Owed
<1>7. QED
  BY <1>1, <1>2, <1>3, <1>4, <1>5, <1>6, FeedOfRun

LEMMA FeedSaveCursor == ASSUME Shape, Solo, Feed, NEW m \in Runners, SaveCursor(m) PROVE Feed'
<1>1. /\ rec' = rec /\ note' = note /\ late' = late /\ damaged' = damaged /\ broken' = broken
      /\ cursor' = run[m].pos /\ Ended(m) /\ run[m].pc = "save" /\ Active(m)
  BY DEF SaveCursor, db, notes, Active
<1>2. run[m].page = {} /\ run[m].mode = "sync"
  BY <1>1, ShapeParts DEF InPhase
<1>3. Honest'
  <2>1. SUFFICES ASSUME ~damaged, NEW i \in Ids, Owed(run[m].pos, i)
                 PROVE  note[i] = rec[i].ver \/ i \in broken
    BY <1>1 DEF Honest, Owed
  <2>2. alone[m]
    BY <1>1, <2>1 DEF Solo
  <2>3. SyncApplies(m)
    BY <1>1, <1>2, <2>2 DEF Feed, Syncing
  <2>4. QED
    BY <1>2, <2>1, <2>3 DEF SyncApplies
<1>4. QED
  BY <1>1, <1>3, FeedOfEnd

LEMMA FeedExit ==
    ASSUME Shape, Solo, Feed, NEW m \in Runners, SaveUnlinked(m) \/ BuildExit(m)
    PROVE  Feed'
<1>1. /\ rec' = rec /\ note' = note /\ late' = late /\ damaged' = damaged /\ broken' = broken
      /\ cursor' = cursor /\ ephemeral' = ephemeral /\ Ended(m)
      /\ run[m].pc \in {"built", "unlinked"} /\ Active(m)
  BY DEF SaveUnlinked, BuildExit, db, mart, notes, Active
<1>2. /\ run'[m].mode = "sync" /\ \A n \in Runners \ {m} : run'[n] = run[n]
  BY <1>1, EndedRun, ShapeParts DEF RunIs
<1>3. Wiped' <=> Wiped
  BY <1>1, <1>2 DEF Wiped
<1>4. Honest'
  BY <1>1, <1>3 DEF Feed, Honest, Owed
<1>5. QED
  BY <1>1, <1>4, FeedOfEnd

(* A failed run leaves the cursor, so it promises no more than before; the *)
(* run that had emptied the mart leaves damage.                            *)
LEMMA FeedFail == ASSUME Shape, Solo, Feed, NEW m \in Runners, Fail(m) PROVE Feed'
<1>1. /\ rec' = rec /\ note' = note /\ late' = late /\ broken' = broken
      /\ cursor' = cursor /\ ephemeral' = ephemeral /\ Ended(m) /\ Active(m)
  BY DEF Fail, db, mart, notes, Active
<1>2. damaged' <=> damaged \/ (run[m].mode = "build" /\ ephemeral)
  BY Zenon DEF Fail
<1>3. Honest'
  <2>1. SUFFICES ASSUME ~damaged, ~(run[m].mode = "build" /\ ephemeral)
                 PROVE  ~Wiped
    BY <1>1, <1>2 DEF Feed, Honest, Owed
  <2>2. \A n \in Runners : Active(n) => n = m
    BY <1>1, <2>1 DEF Solo
  <2>3. QED
    BY <2>1, <2>2 DEF Wiped, Active
<1>4. QED
  BY <1>1, <1>3, FeedOfEnd

(* A Build that ends alone: what it passed it rendered, the rest is swept. *)
LEMMA FeedBuildFinish == ASSUME Shape, Solo, Feed, NEW m \in Runners, BuildFinish(m) PROVE Feed'
<1>1. /\ rec' = rec /\ cursor' = cursor /\ ephemeral' = ephemeral /\ dirty' = dirty
      /\ alone' = alone /\ run[m].pc = "list" /\ run[m].mode = "build"
      /\ run[m].page = {} /\ ~run[m].full /\ Active(m)
  BY DEF BuildFinish, db, Active
<1>2. /\ \A i \in Ids : note'[i] = IF i \in run[m].wrote THEN note[i] ELSE 0
      /\ torn' = torn \cap run[m].wrote
      /\ late' = IF alone[m] THEN late \cap dirty[m] ELSE late
  BY ShapeParts DEF BuildFinish, sweepOrphans, NoteFiles
<1>3. damaged' <=> damaged /\ ~alone[m]
  BY Zenon DEF BuildFinish
<1>4. RunIs(m, "built", "build", Zero, {}, TRUE, {}, 0)
  BY BuildFinishRun, ShapeParts
<1>5. ASSUME alone[m]
      PROVE  /\ \A i \in Ids \ dirty[m] : note'[i] = rec[i].ver /\ i \notin torn'
             /\ \A i \in dirty[m] : i \in Ids /\ ~Owed(cursor, i)'
  <2>1. BuildRenders(m)
    BY <1>1, <1>5 DEF Feed, Building
  <2>0. run[m].open = 0 /\ \A i \in Ids : i # 0
    BY <1>1, ShapeParts, MartConstants DEF InPhase
  <2>2. ASSUME NEW i \in Ids \ dirty[m] PROVE note'[i] = rec[i].ver /\ i \notin torn'
    <3>1. /\ i \in run[m].wrote => rec[i].ver > 0 /\ note[i] = rec[i].ver
          /\ rec[i].ver > 0 => i \in run[m].wrote
          /\ i \in torn => note[i] = 0
      BY <1>1, <2>0, <2>1, ShapeParts DEF BuildRenders
    <3>2. rec[i].ver \in Nat
      BY MartConstants, ShapeParts DEF TypeOK
    <3>3. QED
      BY <1>2, <3>1, <3>2
  <2>3. ASSUME NEW i \in dirty[m] PROVE i \in Ids /\ ~Owed(cursor, i)'
    <3>1. i \in Ids /\ ~Owed(cursor, i)
      BY <2>1, ShapeParts DEF BuildRenders
    <3>2. i \in late => i \in late'
      BY <1>2
    <3>3. QED
      BY <1>1, <3>1, <3>2 DEF Owed
  <2>4. QED
    BY <2>2, <2>3
<1>6. ASSUME Building(m)' PROVE BuildRenders(m)'
  <2>1. alone[m]
    BY <1>1, <1>6 DEF Building
  <2>2. run'[m].pc = "built"
    BY <1>4 DEF RunIs
  <2>3. QED
    BY <1>1, <1>5, <2>1, <2>2 DEF BuildRenders
<1>7. ~Syncing(m)'
  BY <1>4 DEF Syncing, RunIs
<1>8. Honest'
  <2>1. SUFFICES ASSUME ~damaged', NEW i \in Ids, Owed(cursor, i)' PROVE note'[i] = rec[i].ver
    BY <1>1 DEF Honest
  <2>2. alone[m]
    BY <1>1, <1>3, <2>1 DEF Solo
  <2>3. QED
    BY <1>5, <2>1, <2>2
<1>9. \A n \in Runners \ {m} : run'[n] = run[n]
  BY <1>4 DEF RunIs
<1>10. QED
  BY <1>1, <1>6, <1>7, <1>8, <1>9, FeedOfRun

LEMMA FeedRedefine == ASSUME Redefine PROVE Feed'
<1>1. damaged' /\ run' = run /\ \A m \in Runners : ~Active(m)
  BY DEF Redefine
<1>2. QED
  BY <1>1 DEF Feed, Honest, Syncing, Building, Active

(* From the beginning nothing is promised.                                 *)
LEMMA FeedPurge == ASSUME Shape, Feed, Purge PROVE Feed'
<1>1. /\ rec' = rec /\ note' = note /\ torn' = torn /\ broken' = broken
      /\ ephemeral' = ephemeral
      /\ dirty' = dirty /\ alone' = alone /\ damaged' = damaged /\ cursor' = Zero
      /\ late' = late \/ \A m \in Runners : ~Active(m)
  BY DEF Purge, db, notes
<1>r. \A m \in Runners :
         /\ run[m].pc # "save" => run'[m] = run[m]
         /\ run[m].pc = "save" => run'[m].pc = "unlinked"
         /\ run'[m].mode = run[m].mode
  BY PurgeRuns, ShapeParts
<1>2. \A i \in Ids : ~Owed(cursor, i)'
  BY <1>1, Standing, ShapeParts DEF Owed
<1>3. ASSUME NEW m \in Runners, Syncing(m)' PROVE SyncApplies(m)'
  <2>1. Syncing(m) /\ Active(m) /\ run'[m] = run[m]
    BY <1>1, <1>r, <1>3 DEF Syncing, Active
  <2>2. SyncApplies(m) /\ late' = late
    BY <1>1, <2>1 DEF Feed
  <2>3. ~Before(run[m].pos, Zero)
    <3>1. run[m].pos \in Pos
      BY RunFields, ShapeParts
    <3>2. run[m].pos[1] \in Nat /\ run[m].pos[2] \in Nat
      BY <3>1, PosParts
    <3>3. QED
      BY <3>2 DEF Before, Zero
  <2>4. \A e \in run[m].page : ~Owed(cursor, e.id)'
    <3>1. \A e \in run[m].page : e.id \in Ids
      BY RunFields, ShapeParts DEF Entry
    <3>2. QED
      BY <1>2, <3>1
  <2>5. QED
    BY <1>1, <2>1, <2>2, <2>3, <2>4 DEF SyncApplies, Owed
<1>4. ASSUME NEW m \in Runners, Building(m)' PROVE BuildRenders(m)'
  <2>0. run[m].pc # "save" /\ run'[m] = run[m]
    BY <1>r, <1>4, ShapeParts DEF Building, InPhase
  <2>1. BuildRenders(m)
    BY <1>1, <1>4, <2>0 DEF Feed, Building, Active
  <2>2. \A i \in dirty'[m] : ~Owed(cursor, i)'
    BY <1>1, <1>2, ShapeParts
  <2>3. QED
    BY <1>1, <2>0, <2>1, <2>2 DEF BuildRenders
<1>5. Honest'
  BY <1>2 DEF Honest
<1>6. QED
  BY <1>3, <1>4, <1>5 DEF Feed

LEMMA FeedStep == Shape /\ Solo /\ Feed /\ [Next]_vars => Feed'
<1> SUFFICES ASSUME Shape, Solo, Feed, [Next]_vars PROVE Feed'
  OBVIOUS
<1>1. CASE Tick \/ (\E w \in Writers : Begin(w)) \/ UNCHANGED vars
  <2>1. /\ rec' = rec /\ cursor' = cursor /\ note' = note /\ torn' = torn
        /\ ephemeral' = ephemeral /\ run' = run /\ UNCHANGED hist
    BY <1>1 DEF Tick, Begin, vars, db, mart, notes
  <2>2. QED
    BY <2>1, FeedSame
<1>2. CASE \E w \in Writers : Commit(w)
  BY <1>2, FeedCommit
<1>3. CASE \E i \in Ids : Withdraw(i)
  BY <1>3, FeedWithdraw
<1>4. CASE \E m \in Runners : Run(m)
  <2>1. PICK m \in Runners : Run(m)
    BY <1>4
  <2>2. QED
    BY <2>1, FeedSyncStart, FeedBuildStart, FeedWipe, FeedFetchPage, FeedOpenNote,
       FeedWriteNote, FeedSyncFinish, FeedSaveCursor, FeedBuildFinish, FeedExit, FeedFail DEF Run
<1>5. CASE Redefine \/ Purge
  BY <1>5, FeedRedefine, FeedPurge
<1>6. QED
  BY <1>1, <1>2, <1>3, <1>4, <1>5 DEF Next

-----------------------------------------------------------------------------
(* The theorems.                                                           *)

\* What a refresh, a rebuild and the change feed keep between them, whatever
\* their order and wherever they stop: types and phases, which runs have the
\* directory to themselves, and each run has applied what it has passed (sync.go Sync,
\* build.go Build).
THEOREM MartInvariant == Spec => []MartInv
<1>1. Init => MartInv
  BY ShapeInit, FeedInit DEF MartInv
<1>2. MartInv /\ [Next]_vars => MartInv'
  BY ShapeStep, SoloStep, FeedStep DEF MartInv
<1>3. QED
  BY <1>1, <1>2, PTL DEF Spec

\* Every component of the mart and of the daemon's records stays in its domain,
\* no note is of a version its record never had, and none is outside a
\* directory that is there (build.go ensureOwnedDir, prepareDest).
THEOREM MartTypeCorrect == Spec => []TypeOK
<1>1. MartInv => TypeOK
  BY DEF MartInv, Shape, MartTypes
<1>2. QED
  BY <1>1, MartInvariant, PTL

\* The saved cursor keeps its promise: whatever fails, is killed or restarted,
\* a listed record behind it has a note of its current version, but for the
\* exceptions the code does not defend against (registry.go SaveCursor).
THEOREM SavedCursorIsHonest == Spec => []CursorIsHonest
<1>1. MartInv => CursorIsHonest
  <2>1. SUFFICES ASSUME Honest PROVE CursorIsHonest
    BY DEF MartInv, Feed
  <2>2. Wiped => Rebuilding
    BY DEF Wiped, Rebuilding
  <2>3. QED
    BY <2>1, <2>2 DEF CursorIsHonest, Honest, Owed
<1>2. QED
  BY <1>1, MartInvariant, PTL

\* A Build that ran alone leaves, for every record not changed while it ran,
\* the current note or none, however many pages it took (build.go Build,
\* sweepOrphans).
THEOREM LoneBuildIsExact == Spec => []BuildIsExact
<1>1. MartInv => BuildIsExact
  <2>1. SUFFICES ASSUME MartInv, NEW m \in Runners, run[m].pc = "built", alone[m]
                 PROVE  \A i \in Ids \ dirty[m] : note[i] = rec[i].ver /\ i \notin torn
    BY DEF BuildIsExact
  <2>2. run[m].mode = "build"
    BY <2>1, ShapeParts, RunFields DEF MartInv, InPhase
  <2>3. QED
    BY <2>1, <2>2 DEF MartInv, Feed, Building, BuildRenders, Active
<1>2. QED
  BY <1>1, MartInvariant, PTL

(* A cursor that changes goes forward or back to the beginning, unless a   *)
(* run that has company saves it.                                          *)
CursorAdvances ==
    [][cursor' # cursor => \/ cursor' = Zero \/ Before(cursor, cursor')
                           \/ \E m \in Runners : Active(m) /\ ~alone[m]]_vars

\* SaveCursor never takes a mart back to a position it had left: only the
\* removal of the cursor by a purge does, and a Sync that overlapped another
\* run (sync.go Sync, registry.go SaveCursor).
THEOREM CursorMovesForward == Spec => CursorAdvances
<1> DEFINE Moves == cursor' # cursor => \/ cursor' = Zero \/ Before(cursor, cursor')
                                       \/ \E m \in Runners : Active(m) /\ ~alone[m]
<1>1. ASSUME MartInv, [Next]_vars PROVE [Moves]_vars
  <2>1. ASSUME NEW m \in Runners, SaveCursor(m), alone[m], cursor' # cursor
        PROVE  Before(cursor, cursor')
    <3>1. cursor' = run[m].pos /\ Syncing(m)
      BY <1>1, <2>1, ShapeParts DEF MartInv, InPhase, SaveCursor, Syncing
    <3>2. ~Before(run[m].pos, cursor)
      BY <1>1, <3>1 DEF MartInv, Feed, SyncApplies
    <3>3. cursor \in Pos /\ run[m].pos \in Pos
      BY <1>1, ShapeParts, RunFields DEF MartInv
    <3>4. QED
      BY <2>1, <3>1, <3>2, <3>3, BeforeIsOrder
  <2>2. ASSUME NEW m \in Runners, SaveCursor(m) PROVE Moves
    BY <2>1, <2>2 DEF SaveCursor, Active
  <2>3. CASE Purge
    BY <2>3 DEF Purge
  <2>4. ASSUME NEW m \in Runners, Run(m), ~SaveCursor(m) PROVE cursor' = cursor
    BY <2>4 DEF Run, SyncStart, BuildStart, WipeSome, WipeDone, FetchPage, OpenNote, WriteNote,
                SyncFinish, SaveUnlinked, BuildFinish, BuildExit, Fail, mart
  <2>5. CASE Tick \/ (\E w \in Writers : Begin(w) \/ Commit(w))
             \/ (\E i \in Ids : Withdraw(i)) \/ Redefine \/ UNCHANGED vars
    BY <2>5 DEF Tick, Begin, Commit, Withdraw, Redefine, vars, mart
  <2>6. QED
    BY <1>1, <2>2, <2>3, <2>4, <2>5 DEF Next
<1>2. QED
  BY <1>1, MartInvariant, PTL DEF Spec, CursorAdvances

-----------------------------------------------------------------------------
(* Working memory: what processes and calls keep.                          *)

SessState == [pc : {"off", "list", "reap", "serving"}, pid : Pids \cup {NoPid}, todo : SUBSET Pids,
              victim : Pids \cup {NoPid}, file : Files \cup {0}]
CallState == [pc : {"idle", "artifacts", "questions", "ingest", "mark"}, by : Sessions \cup {"none"},
              task : Tasks \cup {"none"}, saw : SUBSET Items]

RowTypes ==
    /\ status \in [Tasks -> {"none", "active", "completed"}]
    /\ log \in [Tasks -> SUBSET Items] /\ promoted \in [Tasks -> SUBSET Items]
    /\ unlisted \in [Tasks -> SUBSET Items]
    /\ call \in [Calls -> CallState]
    /\ \A c \in Calls : call[c].pc # "idle" => call[c].task \in Tasks

ShardTypes ==
    /\ sess \in [Sessions -> SessState]
    /\ shard \in [Pids -> Files \cup {0}]
    /\ raced \subseteq Sessions
    /\ corpses \in [Sessions -> SUBSET Pids]
    /\ \A s \in Sessions : /\ sess[s].pc # "off" => sess[s].pid \in Pids
                           /\ sess[s].pc \in {"off", "serving"} => sess[s].victim = NoPid

(* What is logged, low importance aside, and not known to be late.         *)
Due(t) == (log[t] \ Unpromoted) \ unlisted[t]

ListedBy(c, t) ==
    /\ call[c].pc = "artifacts" => Due(t) \cap Findings \subseteq call[c].saw
    /\ call[c].pc = "questions" => Due(t) \cap (Findings \cup Artifacts) \subseteq call[c].saw
    /\ call[c].pc = "ingest" => Due(t) \subseteq call[c].saw
    /\ call[c].pc = "mark"   => Due(t) \subseteq promoted[t]
AllListed == \A c \in Calls, t \in Tasks : call[c].task = t => ListedBy(c, t)

TaskInv == RowTypes /\ AllListed /\ CompletedIsPromoted

(* No two live processes have one pid.                                     *)
Unique == \A q, s \in Sessions : sess[q].pid \in Pids /\ sess[q].pid = sess[s].pid => q = s

(* A pid that is about to lose its shard is dead, or was given out since.  *)
Marked == \A q, s \in Sessions :
              sess[q].victim \in Pids /\ sess[s].pid = sess[q].victim => s \in raced

ShardInv == ShardTypes /\ Unique /\ Marked /\ ServingKeepsItsShard

Dead == \A s \in Sessions : \A p \in corpses[s] : ~pidAlive(p)
Cleared ==
    \A s \in Sessions : sess[s].pc = "reap" =>
        \A p \in corpses[s] : p \in sess[s].todo \/ p = sess[s].victim \/ shard[p] = 0

(* Before the directory is listed there is nothing to remove.              *)
Unlisted == \A s \in Sessions : sess[s].pc \in {"off", "list"} => corpses[s] = {}

OrphanInv == ShardTypes /\ Unlisted /\ Dead /\ Cleared /\ StartupLeavesNoOrphan

-----------------------------------------------------------------------------
(* What a completed task has left behind.                                  *)

LEMMA TaskInit == MemoryInit => TaskInv
<1> SUFFICES ASSUME MemoryInit PROVE TaskInv
  OBVIOUS
<1>1. Idle \in CallState /\ Idle.pc = "idle"
  BY DEF Idle, CallState
<1>2. RowTypes
  BY <1>1 DEF MemoryInit, RowTypes
<1>3. AllListed /\ CompletedIsPromoted
  BY <1>1 DEF MemoryInit, AllListed, ListedBy, CompletedIsPromoted
<1>4. QED
  BY <1>2, <1>3 DEF TaskInv

(* Startup and exit: a task keeps its rows, or loses all of them.          *)
LEMMA TaskLose ==
    ASSUME TaskInv, call' \in [Calls -> CallState],
           \A c \in Calls : call'[c] = call[c] \/ call'[c] = Idle,
           \A t \in Tasks :
              \/ /\ status'[t] = status[t] /\ log'[t] = log[t]
                 /\ promoted'[t] = promoted[t] /\ unlisted'[t] = unlisted[t]
              \/ status'[t] = "none" /\ log'[t] = {} /\ promoted'[t] = {} /\ unlisted'[t] = {},
           status' = [t \in Tasks |-> status'[t]], log' = [t \in Tasks |-> log'[t]],
           promoted' = [t \in Tasks |-> promoted'[t]], unlisted' = [t \in Tasks |-> unlisted'[t]]
    PROVE  TaskInv'
<1> USE DEF TaskInv
<1>0. Idle.pc = "idle"
  BY DEF Idle
<1>1. RowTypes'
  <2>1. ASSUME NEW t \in Tasks
        PROVE  /\ status'[t] \in {"none", "active", "completed"}
               /\ log'[t] \in SUBSET Items /\ promoted'[t] \in SUBSET Items /\ unlisted'[t] \in SUBSET Items
    BY DEF RowTypes
  <2>2. /\ status' \in [Tasks -> {"none", "active", "completed"}]
        /\ log' \in [Tasks -> SUBSET Items] /\ promoted' \in [Tasks -> SUBSET Items]
        /\ unlisted' \in [Tasks -> SUBSET Items]
    BY <2>1
  <2>3. \A c \in Calls : call'[c].pc # "idle" => call'[c].task \in Tasks
    BY <1>0 DEF RowTypes
  <2>4. QED
    BY <2>2, <2>3 DEF RowTypes
<1>2. AllListed'
  <2>1. SUFFICES ASSUME NEW c \in Calls, NEW t \in Tasks, call'[c].task = t PROVE ListedBy(c, t)'
    BY DEF AllListed
  <2>2. CASE call'[c] = Idle
    BY <1>0, <2>2 DEF ListedBy
  <2>3. CASE call'[c] = call[c]
    BY <2>1, <2>3 DEF AllListed, ListedBy, Due
  <2>4. QED
    BY <2>2, <2>3
<1>3. CompletedIsPromoted'
  BY DEF CompletedIsPromoted
<1>4. QED
  BY <1>1, <1>2, <1>3

LEMMA LoseEffect ==
    ASSUME RowTypes, NEW names, NEW procs, LoseRows(names, procs)
    PROVE  /\ \A t \in Tasks :
              \/ /\ status'[t] = status[t] /\ log'[t] = log[t]
                 /\ promoted'[t] = promoted[t] /\ unlisted'[t] = unlisted[t]
              \/ status'[t] = "none" /\ log'[t] = {} /\ promoted'[t] = {} /\ unlisted'[t] = {}
           /\ status' = [t \in Tasks |-> status'[t]] /\ log' = [t \in Tasks |-> log'[t]]
           /\ promoted' = [t \in Tasks |-> promoted'[t]] /\ unlisted' = [t \in Tasks |-> unlisted'[t]]
  BY DEF LoseRows

LEMMA TaskStartup ==
    ASSUME TaskInv, NEW s \in Sessions, Start(s) \/ Startup(s) \/ Exit(s)
    PROVE  TaskInv'
<1> USE DEF TaskInv
<1>0. Idle \in CallState
  BY DEF Idle, CallState
<1>1. CASE \/ Start(s) \/ ReapList(s) \/ ReapListFails(s) \/ ReapProbe(s)
           \/ ReapRemoveFails(s) \/ Open(s)
  <2>1. UNCHANGED <<status, log, call, promoted, unlisted>>
    BY <1>1 DEF Start, ReapList, ReapListFails, ReapProbe, ReapRemoveFails, Open, rows, memoryHist
  <2>2. RowTypes' /\ AllListed'
    BY <2>1 DEF RowTypes, AllListed, ListedBy, Due
  <2>3. CompletedIsPromoted'
    BY <2>1 DEF CompletedIsPromoted
  <2>4. QED
    BY <2>2, <2>3
<1>2. CASE ReapRemove(s)
  <2>1. LoseRows(shard', sess') /\ call' = call
    BY <1>2 DEF ReapRemove
  <2>2. QED
    BY <2>1, LoseEffect, TaskLose DEF RowTypes
<1>3. CASE Exit(s)
  <2>1. LoseRows(shard, sess')
    BY <1>3 DEF Exit
  <2>2. /\ call' \in [Calls -> CallState]
        /\ \A c \in Calls : call'[c] = call[c] \/ call'[c] = Idle
    BY <1>0, <1>3 DEF Exit, RowTypes
  <2>3. QED
    BY <2>1, <2>2, LoseEffect, TaskLose
<1>4. QED
  BY <1>1, <1>2, <1>3 DEF Startup

LEMMA TaskCreate == ASSUME TaskInv, NEW s \in Sessions, NEW t \in Tasks, CreateTask(s, t) PROVE TaskInv'
<1> USE DEF TaskInv
<1>1. /\ status' = [status EXCEPT ![t] = "active"]
      /\ UNCHANGED <<log, call, promoted, unlisted>>
  BY DEF CreateTask, memoryHist
<1>2. RowTypes'
  BY <1>1 DEF RowTypes
<1>3. AllListed' /\ CompletedIsPromoted'
  BY <1>1 DEF RowTypes, AllListed, ListedBy, Due, CompletedIsPromoted
<1>4. QED
  BY <1>2, <1>3

(* An item logged after it could be listed is late.                        *)
LEMMA TaskLog ==
    ASSUME TaskInv, NEW s \in Sessions, NEW t \in Tasks, NEW i \in Items, TaskUpdate(s, t, i)
    PROVE  TaskInv'
<1> USE DEF TaskInv
<1> DEFINE behind == status[t] = "completed" \/ HaveListed(t, i) # {}
<1>1. /\ log' = [log EXCEPT ![t] = @ \cup {i}]
      /\ unlisted' = IF behind THEN [unlisted EXCEPT ![t] = @ \cup ({i} \ Unpromoted)] ELSE unlisted
      /\ UNCHANGED <<status, call, promoted>>
  BY DEF TaskUpdate
<1>2. RowTypes'
  BY <1>1 DEF RowTypes
<1>3. \A u \in Tasks \ {t} : log'[u] = log[u] /\ unlisted'[u] = unlisted[u]
  BY <1>1 DEF RowTypes
<1>4. log'[t] = log[t] \cup {i} /\ unlisted[t] \subseteq unlisted'[t]
  BY <1>1 DEF RowTypes
<1>5. behind => Due(t)' \subseteq Due(t)
  BY <1>1, <1>4 DEF RowTypes, Due
<1>6. Due(t)' \subseteq Due(t) \cup {i}
  BY <1>4 DEF Due
<1>7. AllListed'
  <2>1. SUFFICES ASSUME NEW c \in Calls, NEW u \in Tasks, call[c].task = u PROVE ListedBy(c, u)'
    BY <1>1 DEF AllListed
  <2>2. ListedBy(c, u)
    BY <2>1 DEF AllListed
  <2>3. CASE u # t
    BY <1>1, <1>3, <2>2, <2>3 DEF ListedBy, Due
  <2>4. CASE u = t
    <3>1. CASE behind
      BY <1>1, <1>5, <2>2, <2>4, <3>1 DEF ListedBy
    <3>2. CASE ~behind
      <4>1. c \notin HaveListed(t, i)
        BY <3>2
      <4>2. /\ call[c].pc \notin {"ingest", "mark"}
            /\ call[c].pc = "artifacts" => i \notin Findings
            /\ call[c].pc = "questions" => i \notin Findings \cup Artifacts
        BY <2>1, <2>4, <4>1 DEF HaveListed
      <4>3. QED
        BY <1>1, <1>6, <2>2, <2>4, <4>2 DEF ListedBy
    <3>3. QED
      BY <3>1, <3>2
  <2>5. QED
    BY <2>3, <2>4
<1>8. CompletedIsPromoted'
  <2>1. SUFFICES ASSUME NEW u \in Tasks, status[u] = "completed" PROVE Due(u)' \subseteq promoted[u]
    BY <1>1 DEF CompletedIsPromoted, Due
  <2>2. Due(u) \subseteq promoted[u]
    BY <2>1 DEF CompletedIsPromoted, Due
  <2>3. CASE u # t
    BY <1>3, <2>2, <2>3 DEF Due
  <2>4. CASE u = t
    BY <1>5, <2>1, <2>2, <2>4
  <2>5. QED
    BY <2>3, <2>4
<1>9. QED
  BY <1>2, <1>7, <1>8

(* A call moves from pc to pc, with what it saw.                           *)
LEMMA CallFields ==
    ASSUME RowTypes, NEW c \in Calls, NEW d \in CallState, call' = [call EXCEPT ![c] = d],
           d.pc # "idle" => d.task \in Tasks, UNCHANGED <<status, log, promoted, unlisted>>
    PROVE  RowTypes' /\ call'[c] = d /\ \A e \in Calls \ {c} : call'[e] = call[e]
  BY DEF RowTypes

LEMMA TaskBegin ==
    ASSUME TaskInv, NEW c \in Calls, NEW s \in Sessions, NEW t \in Tasks, CompleteBegin(c, s, t)
    PROVE  TaskInv'
<1> USE DEF TaskInv
<1> DEFINE d == [pc |-> "artifacts", by |-> s, task |-> t, saw |-> log[t] \cap Findings]
<1>1. call' = [call EXCEPT ![c] = d] /\ UNCHANGED <<status, log, promoted, unlisted>>
  BY DEF CompleteBegin, rows, memoryHist
<1>2. d \in CallState /\ d.pc = "artifacts" /\ d.task = t /\ d.saw = log[t] \cap Findings
  BY DEF CallState, RowTypes
<1> HIDE DEF d
<1>3. RowTypes' /\ call'[c] = d /\ \A e \in Calls \ {c} : call'[e] = call[e]
  BY <1>1, <1>2, CallFields
<1>4. AllListed'
  BY <1>1, <1>2, <1>3 DEF AllListed, ListedBy, Due
<1>5. CompletedIsPromoted'
  BY <1>1 DEF CompletedIsPromoted
<1>6. QED
  BY <1>3, <1>4, <1>5

LEMMA TaskArtifacts == ASSUME TaskInv, NEW c \in Calls, ListArtifacts(c) PROVE TaskInv'
<1> USE DEF TaskInv
<1>0. PICK t \in Tasks : call[c].task = t /\ call[c].pc = "artifacts" /\ call[c] \in CallState
  BY DEF ListArtifacts, RowTypes
<1> DEFINE saw == call[c].saw \cup (log[t] \cap Artifacts)
           d   == [call[c] EXCEPT !.saw = saw, !.pc = "questions"]
<1>1. call' = [call EXCEPT ![c] = d] /\ UNCHANGED <<status, log, promoted, unlisted>>
  BY <1>0 DEF ListArtifacts, rows, memoryHist, RowTypes
<1>2. d \in CallState /\ d.pc = "questions" /\ d.task = t /\ d.saw = saw
  BY <1>0 DEF CallState, RowTypes
<1>d. Due(t) \cap (Findings \cup Artifacts) \subseteq saw
  <2>1. Due(t) \cap Findings \subseteq call[c].saw
    BY <1>0 DEF AllListed, ListedBy
  <2>2. QED
    BY <2>1 DEF Due
<1> HIDE DEF d, saw
<1>3. RowTypes' /\ call'[c] = d /\ \A e \in Calls \ {c} : call'[e] = call[e]
  BY <1>1, <1>2, CallFields
<1>4. AllListed'
  <2>1. ASSUME NEW e \in Calls \ {c}, NEW u \in Tasks, call'[e].task = u PROVE ListedBy(e, u)'
    BY <1>1, <1>3, <2>1 DEF AllListed, ListedBy, Due
  <2>2. ListedBy(c, t)'
    BY <1>1, <1>2, <1>3, <1>d DEF ListedBy, Due
  <2>3. call'[c].task = t
    BY <1>2, <1>3
  <2>4. QED
    BY <2>1, <2>2, <2>3 DEF AllListed
<1>5. CompletedIsPromoted'
  BY <1>1 DEF CompletedIsPromoted
<1>6. QED
  BY <1>3, <1>4, <1>5

LEMMA TaskQuestions == ASSUME TaskInv, NEW c \in Calls, ListQuestions(c) PROVE TaskInv'
<1> USE DEF TaskInv
<1>0. PICK t \in Tasks : call[c].task = t /\ call[c].pc = "questions" /\ call[c] \in CallState
  BY DEF ListQuestions, RowTypes
<1> DEFINE saw == call[c].saw \cup (log[t] \cap Questions)
           pcs == IF saw = {} THEN "mark" ELSE "ingest"
           d   == [call[c] EXCEPT !.saw = saw, !.pc = pcs]
<1>1. call' = [call EXCEPT ![c] = d] /\ UNCHANGED <<status, log, promoted, unlisted>>
  BY <1>0 DEF ListQuestions, rows, memoryHist, RowTypes
<1>2. d \in CallState /\ d.pc = pcs /\ d.task = t /\ d.saw = saw
  BY <1>0 DEF CallState, RowTypes
<1>d. Due(t) \subseteq saw
  <2>1. Due(t) \subseteq Findings \cup Artifacts \cup Questions /\ Due(t) \subseteq log[t]
    BY DEF Due, RowTypes, Items
  <2>2. Due(t) \cap (Findings \cup Artifacts) \subseteq call[c].saw
    BY <1>0 DEF AllListed, ListedBy
  <2>3. QED
    BY <2>1, <2>2
<1>e. pcs \in {"mark", "ingest"} /\ (pcs = "mark" => saw = {})
  OBVIOUS
<1> HIDE DEF d, saw, pcs
<1>3. RowTypes' /\ call'[c] = d /\ \A e \in Calls \ {c} : call'[e] = call[e]
  BY <1>1, <1>2, CallFields
<1>4. AllListed'
  <2>1. ASSUME NEW e \in Calls \ {c}, NEW u \in Tasks, call'[e].task = u PROVE ListedBy(e, u)'
    BY <1>1, <1>3, <2>1 DEF AllListed, ListedBy, Due
  <2>2. ListedBy(c, t)'
    BY <1>1, <1>2, <1>3, <1>d, <1>e DEF ListedBy, Due
  <2>3. call'[c].task = t
    BY <1>2, <1>3
  <2>4. QED
    BY <2>1, <2>2, <2>3 DEF AllListed
<1>5. CompletedIsPromoted'
  BY <1>1 DEF CompletedIsPromoted
<1>6. QED
  BY <1>3, <1>4, <1>5

LEMMA TaskPromote == ASSUME TaskInv, NEW c \in Calls, Promote(c) PROVE TaskInv'
<1> USE DEF TaskInv
<1>0. PICK t \in Tasks : call[c].task = t /\ call[c].pc = "ingest" /\ call[c] \in CallState
  BY DEF Promote, RowTypes
<1>1. /\ call' = [call EXCEPT ![c].pc = "mark"] /\ UNCHANGED <<status, log, unlisted>>
      /\ promoted' = [promoted EXCEPT ![t] = @ \cup call[c].saw]
  BY <1>0 DEF Promote, rows, memoryHist
<1>2. /\ call' \in [Calls -> CallState] /\ call'[c].pc = "mark" /\ call'[c].task = t
      /\ \A e \in Calls \ {c} : call'[e] = call[e]
  BY <1>0, <1>1 DEF RowTypes, CallState
<1>3. /\ promoted' \in [Tasks -> SUBSET Items] /\ promoted'[t] = promoted[t] \cup call[c].saw
      /\ \A u \in Tasks : promoted[u] \subseteq promoted'[u]
  BY <1>0, <1>1 DEF RowTypes, CallState
<1>4. RowTypes'
  BY <1>0, <1>1, <1>2, <1>3 DEF RowTypes
<1>5. AllListed'
  <2>1. ASSUME NEW e \in Calls \ {c}, NEW u \in Tasks, call'[e].task = u PROVE ListedBy(e, u)'
    <3>1. ListedBy(e, u) /\ promoted[u] \subseteq promoted'[u]
      BY <1>2, <1>3, <2>1 DEF AllListed
    <3>2. QED
      BY <1>1, <1>2, <3>1 DEF ListedBy, Due
  <2>2. ListedBy(c, t)'
    <3>1. Due(t) \subseteq call[c].saw
      BY <1>0 DEF AllListed, ListedBy
    <3>2. QED
      BY <1>1, <1>2, <1>3, <3>1 DEF ListedBy, Due
  <2>3. QED
    BY <1>2, <2>1, <2>2 DEF AllListed
<1>6. CompletedIsPromoted'
  BY <1>1, <1>3 DEF CompletedIsPromoted
<1>7. QED
  BY <1>4, <1>5, <1>6

LEMMA TaskFail == ASSUME TaskInv, NEW c \in Calls, CompleteFails(c) PROVE TaskInv'
<1> USE DEF TaskInv
<1>1. call' = [call EXCEPT ![c] = Idle] /\ UNCHANGED <<status, log, promoted, unlisted>>
  BY DEF CompleteFails, rows, memoryHist
<1>2. Idle \in CallState /\ Idle.pc = "idle"
  BY DEF Idle, CallState
<1>3. RowTypes' /\ call'[c] = Idle /\ \A e \in Calls \ {c} : call'[e] = call[e]
  BY <1>1, <1>2, CallFields
<1>4. AllListed' /\ CompletedIsPromoted'
  BY <1>1, <1>2, <1>3 DEF AllListed, ListedBy, Due, CompletedIsPromoted
<1>5. QED
  BY <1>3, <1>4

LEMMA TaskMark == ASSUME TaskInv, NEW c \in Calls, CompleteTask(c) PROVE TaskInv'
<1> USE DEF TaskInv
<1>0. PICK t \in Tasks : call[c].task = t /\ call[c].pc = "mark"
  BY DEF CompleteTask, RowTypes
<1>1. /\ call' = [call EXCEPT ![c] = Idle] /\ UNCHANGED <<log, promoted, unlisted>>
      /\ status' = [status EXCEPT ![t] = "completed"]
  BY <1>0 DEF CompleteTask, memoryHist
<1>2. Idle \in CallState /\ Idle.pc = "idle"
  BY DEF Idle, CallState
<1>3. RowTypes' /\ call'[c] = Idle /\ \A e \in Calls \ {c} : call'[e] = call[e]
  BY <1>1, <1>2 DEF RowTypes
<1>4. AllListed'
  BY <1>1, <1>2, <1>3 DEF AllListed, ListedBy, Due
<1>5. CompletedIsPromoted'
  <2>1. Due(t) \subseteq promoted[t]
    BY <1>0 DEF AllListed, ListedBy
  <2>2. QED
    BY <1>1, <2>1 DEF CompletedIsPromoted, Due, RowTypes
<1>6. QED
  BY <1>3, <1>4, <1>5

(* A completed task has left in long-term memory everything worth keeping  *)
(* that was logged before its completion listed it (task.go).              *)
THEOREM CompletedIsPromotedHolds == MemorySpec => []CompletedIsPromoted
<1>1. TaskInv /\ [MemoryNext]_memoryVars => TaskInv'
  <2> SUFFICES ASSUME TaskInv, [MemoryNext]_memoryVars PROVE TaskInv'
    OBVIOUS
  <2>1. CASE UNCHANGED memoryVars
    BY <2>1 DEF TaskInv, RowTypes, AllListed, ListedBy, Due, CompletedIsPromoted, memoryVars, rows, memoryHist
  <2>2. CASE MemoryNext
    BY <2>2, TaskStartup, TaskCreate, TaskLog, TaskBegin, TaskArtifacts, TaskQuestions, TaskPromote, TaskFail,
       TaskMark DEF MemoryNext
  <2>3. QED
    BY <2>1, <2>2
<1>2. TaskInv => CompletedIsPromoted
  BY DEF TaskInv
<1>3. QED
  BY <1>1, <1>2, TaskInit, PTL DEF MemorySpec

-----------------------------------------------------------------------------
(* Processes, pids and shards.                                             *)

(* There is a free file number for a process that has no shard.            *)
LEMMA FreeFile ==
    ASSUME ShardTypes, NEW r \in Pids, shard[r] = 0
    PROVE  Free \in Files
<1> DEFINE names == {shard[p] : p \in Pids}
           open  == {sess[s].file : s \in Sessions}
           nP    == Cardinality(Pids)
           nS    == Cardinality(Sessions)
<1>0. IsFiniteSet(Pids) /\ IsFiniteSet(Sessions) /\ nP \in Nat /\ nS \in Nat
  BY WorkingAssumption, FS_CardinalityType
<1>1. IsFiniteSet(names) /\ Cardinality(names) <= nP
  <2> DEFINE f == [p \in Pids |-> shard[p]]
  <2>1. f \in Surjection(Pids, names)
    BY DEF Surjection
  <2>2. QED
    BY <1>0, <2>1, FS_Surjection
<1>2. IsFiniteSet(open) /\ Cardinality(open) <= nS
  <2> DEFINE f == [s \in Sessions |-> sess[s].file]
  <2>1. f \in Surjection(Sessions, open)
    BY DEF Surjection
  <2>2. QED
    BY <1>0, <2>1, FS_Surjection
<1>3. IsFiniteSet(names \cup open) /\ Cardinality(names \cup open) <= nP + nS
  <2>1. /\ IsFiniteSet(names \cup open)
        /\ Cardinality(names \cup open) = Cardinality(names) + Cardinality(open) - Cardinality(names \cap open)
    BY <1>1, <1>2, FS_Union
  <2>2. Cardinality(names \cap open) \in Nat /\ Cardinality(names) \in Nat /\ Cardinality(open) \in Nat
    BY <1>1, <1>2, FS_Intersection, FS_CardinalityType
  <2>3. QED
    BY <1>0, <1>1, <1>2, <2>1, <2>2
<1>4. IsFiniteSet(Files) /\ Cardinality(Files) = nS + nP /\ 0 \notin Files
  <2>1. PICK n \in Nat : n = nS + nP
    BY <1>0
  <2>2. IsFiniteSet(1 .. n) /\ Cardinality(1 .. n) = IF 1 > n THEN 0 ELSE n - 1 + 1
    BY FS_Interval
  <2>3. Files = 1 .. n
    BY <2>1 DEF Files
  <2>4. QED
    BY <2>1, <2>2, <2>3
<1>5. IsFiniteSet(Files \cup {0}) /\ Cardinality(Files \cup {0}) = nS + nP + 1
  BY <1>4, FS_AddElement
<1>6. ~(Files \cup {0} \subseteq names \cup open)
  <2>1. ASSUME Files \cup {0} \subseteq names \cup open PROVE FALSE
    <3>1. Cardinality(Files \cup {0}) <= Cardinality(names \cup open)
      BY <1>3, <2>1, FS_Subset
    <3>2. Cardinality(names \cup open) \in Nat
      BY <1>3, FS_CardinalityType
    <3>3. QED
      BY <1>0, <1>3, <1>5, <3>1, <3>2
  <2>2. QED
    BY <2>1
<1>7. 0 \in names
  OBVIOUS
<1>8. \E f \in Files : (\A p \in Pids : shard[p] # f) /\ (\A s \in Sessions : sess[s].file # f)
  BY <1>6, <1>7
<1>9. QED
  BY <1>8 DEF Free

(* What each step does to the sessions, field by field.                    *)
Moved(s, pc, pid, todo, victim, file) ==
    /\ sess' \in [Sessions -> SessState]
    /\ sess'[s].pc = pc /\ sess'[s].pid = pid /\ sess'[s].todo = todo
    /\ sess'[s].victim = victim /\ sess'[s].file = file
    /\ \A q \in Sessions \ {s} : sess'[q] = sess[q]

LEMMA StartEffect ==
    ASSUME ShardTypes, NEW s \in Sessions, Start(s)
    PROVE  \E p \in Pids :
              /\ ~pidAlive(p) /\ sess[s].pc = "off" /\ Moved(s, "list", p, {}, NoPid, 0)
              /\ raced' = IF \E q \in Sessions : sess[q].victim = p THEN raced \cup {s} ELSE raced
              /\ corpses' = [q \in Sessions |-> corpses[q] \ {p}] /\ shard' = shard
<1>1. PICK p \in Pids :
          /\ ~pidAlive(p)
          /\ sess' = [sess EXCEPT ![s] = [Off EXCEPT !.pc = "list", !.pid = p]]
          /\ raced' = IF \E q \in Sessions : sess[q].victim = p THEN raced \cup {s} ELSE raced
          /\ corpses' = [q \in Sessions |-> corpses[q] \ {p}]
  BY DEF Start
<1>2. Moved(s, "list", p, {}, NoPid, 0)
  BY <1>1 DEF Moved, ShardTypes, SessState, Off
<1>3. sess[s].pc = "off" /\ shard' = shard
  BY DEF Start
<1>4. QED
  BY <1>1, <1>2, <1>3

LEMMA ListEffect ==
    ASSUME ShardTypes, NEW s \in Sessions, ReapList(s)
    PROVE  /\ sess[s].pc = "list" /\ sess[s].pid \in Pids
           /\ Moved(s, "reap", sess[s].pid, {p \in Pids \ {sess[s].pid} : shard[p] # 0},
                    sess[s].victim, sess[s].file)
           /\ corpses' = [corpses EXCEPT ![s] = {p \in Pids : shard[p] # 0 /\ ~pidAlive(p)}]
           /\ UNCHANGED <<shard, raced>>
  BY DEF ReapList, Moved, ShardTypes, SessState

LEMMA ListFailsEffect ==
    ASSUME ShardTypes, NEW s \in Sessions, ReapListFails(s)
    PROVE  /\ sess[s].pc = "list" /\ sess[s].pid \in Pids
           /\ Moved(s, "reap", sess[s].pid, sess[s].todo, sess[s].victim, sess[s].file)
           /\ UNCHANGED <<shard, raced, corpses>>
  BY DEF ReapListFails, memoryHist, Moved, ShardTypes, SessState

LEMMA ProbeEffect ==
    ASSUME ShardTypes, NEW s \in Sessions, ReapProbe(s)
    PROVE  \E p \in sess[s].todo :
              /\ sess[s].pc = "reap" /\ sess[s].victim = NoPid /\ p \in Pids
              /\ Moved(s, "reap", sess[s].pid, sess[s].todo \ {p},
                       IF pidAlive(p) THEN NoPid ELSE p, sess[s].file)
              /\ UNCHANGED <<shard, raced, corpses>>
<1>1. PICK p \in sess[s].todo :
          sess' = [sess EXCEPT ![s].todo = @ \ {p}, ![s].victim = IF pidAlive(p) THEN NoPid ELSE p]
  BY DEF ReapProbe
<1>2. sess[s].pc = "reap" /\ sess[s].victim = NoPid /\ p \in Pids /\ UNCHANGED <<shard, raced, corpses>>
  BY DEF ReapProbe, memoryHist, ShardTypes, SessState
<1>3. PICK v \in Pids \cup {NoPid} : v = IF pidAlive(p) THEN NoPid ELSE p
  BY <1>2
<1>4. Moved(s, "reap", sess[s].pid, sess[s].todo \ {p}, v, sess[s].file)
  <2>1. sess[s] \in SessState /\ sess \in [Sessions -> SessState]
    BY DEF ShardTypes
  <2>2. PICK x : x = [sess[s] EXCEPT !.todo = @ \ {p}, !.victim = v]
    OBVIOUS
  <2>3. /\ x \in SessState /\ x.pc = sess[s].pc /\ x.pid = sess[s].pid
        /\ x.todo = sess[s].todo \ {p} /\ x.victim = v /\ x.file = sess[s].file
    BY <2>1, <2>2 DEF SessState
  <2>4. sess' = [sess EXCEPT ![s] = x]
    BY <1>1, <1>3, <2>2
  <2>5. QED
    BY <1>2, <2>1, <2>3, <2>4 DEF Moved
<1>5. QED
  BY <1>2, <1>3, <1>4

LEMMA RemoveEffect ==
    ASSUME ShardTypes, NEW s \in Sessions, ReapRemove(s)
    PROVE  /\ sess[s].pc = "reap" /\ sess[s].victim \in Pids
           /\ Moved(s, "reap", sess[s].pid, sess[s].todo, NoPid, sess[s].file)
           /\ shard' = [shard EXCEPT ![sess[s].victim] = 0] /\ UNCHANGED <<raced, corpses>>
  BY DEF ReapRemove, Moved, ShardTypes, SessState

LEMMA RemoveFailsEffect ==
    ASSUME ShardTypes, NEW s \in Sessions, ReapRemoveFails(s)
    PROVE  /\ sess[s].pc = "reap" /\ sess[s].victim \in Pids
           /\ Moved(s, "reap", sess[s].pid, sess[s].todo, NoPid, sess[s].file)
           /\ corpses' = [corpses EXCEPT ![s] = @ \ {sess[s].victim}]
           /\ UNCHANGED <<shard, raced>>
  BY DEF ReapRemoveFails, Moved, ShardTypes, SessState

LEMMA OpenEffect ==
    ASSUME ShardTypes, NEW s \in Sessions, Open(s)
    PROVE  \E f \in Files :
              /\ sess[s].pc = "reap" /\ sess[s].todo = {} /\ sess[s].victim = NoPid /\ sess[s].pid \in Pids
              /\ Moved(s, "serving", sess[s].pid, {}, NoPid, f)
              /\ shard' = [shard EXCEPT ![sess[s].pid] = f] /\ UNCHANGED <<raced, corpses>>
<1>1. sess[s].pc = "reap" /\ sess[s].todo = {} /\ sess[s].victim = NoPid /\ sess[s].pid \in Pids
  BY DEF Open, ShardTypes
<1>2. PICK f : f = IF shard[sess[s].pid] # 0 THEN shard[sess[s].pid] ELSE Free
  OBVIOUS
<1>3. f \in Files
  BY <1>1, <1>2, FreeFile DEF ShardTypes
<1>4. /\ sess' = [sess EXCEPT ![s].pc = "serving", ![s].file = f]
      /\ shard' = [shard EXCEPT ![sess[s].pid] = f] /\ UNCHANGED <<raced, corpses>>
  BY <1>2 DEF Open, memoryHist
<1>5. Moved(s, "serving", sess[s].pid, {}, NoPid, f)
  BY <1>1, <1>3, <1>4 DEF Moved, ShardTypes, SessState
<1>6. QED
  BY <1>1, <1>3, <1>4, <1>5

LEMMA ExitEffect ==
    ASSUME ShardTypes, NEW s \in Sessions, Exit(s)
    PROVE  /\ Moved(s, "off", NoPid, {}, NoPid, 0)
           /\ raced' = raced \ {s} /\ corpses' = [corpses EXCEPT ![s] = {}] /\ shard' = shard
  BY DEF Exit, Moved, ShardTypes, SessState, Off

(* The tools leave the sessions alone.                                     *)
LEMMA ToolsEffect ==
    ASSUME MemoryNext, ~\E s \in Sessions : Start(s) \/ Startup(s) \/ Exit(s)
    PROVE  UNCHANGED <<sess, shard, raced, corpses>>
  BY DEF MemoryNext, CreateTask, TaskUpdate, CompleteBegin, ListArtifacts, ListQuestions, Promote, CompleteFails,
     CompleteTask, rows, memoryHist

LEMMA ShardTypesStep == ASSUME ShardTypes, MemoryNext PROVE ShardTypes'
<1>n. NoPid \notin Pids
  BY WorkingAssumption
<1>m. ASSUME NEW s \in Sessions, NEW pc, NEW pid, NEW todo, NEW victim, NEW file,
             Moved(s, pc, pid, todo, victim, file),
             pc # "off" => pid \in Pids, pc \in {"off", "serving"} => victim = NoPid,
             shard' \in [Pids -> Files \cup {0}], raced' \subseteq Sessions,
             corpses' \in [Sessions -> SUBSET Pids]
      PROVE  ShardTypes'
  BY <1>m DEF Moved, ShardTypes
<1>0. /\ raced \subseteq Sessions /\ corpses \in [Sessions -> SUBSET Pids]
      /\ shard \in [Pids -> Files \cup {0}]
  BY DEF ShardTypes
<1>1. ASSUME NEW s \in Sessions, Start(s) PROVE ShardTypes'
  <2>1. PICK p \in Pids :
              /\ Moved(s, "list", p, {}, NoPid, 0)
              /\ raced' = IF \E q \in Sessions : sess[q].victim = p THEN raced \cup {s} ELSE raced
              /\ corpses' = [q \in Sessions |-> corpses[q] \ {p}] /\ shard' = shard
    BY <1>1, StartEffect
  <2>2. raced' \subseteq Sessions /\ corpses' \in [Sessions -> SUBSET Pids]
    BY <1>0, <2>1
  <2>3. QED
    BY <1>0, <1>m, <2>1, <2>2
<1>2. ASSUME NEW s \in Sessions, ReapList(s) PROVE ShardTypes'
  <2>1. corpses' \in [Sessions -> SUBSET Pids]
    BY <1>0, <1>2, ListEffect
  <2>2. QED
    BY <1>0, <1>2, <1>m, <2>1, ListEffect
<1>3. ASSUME NEW s \in Sessions, ReapProbe(s) PROVE ShardTypes'
  <2>1. PICK p \in sess[s].todo :
              /\ sess[s].pc = "reap"
              /\ Moved(s, "reap", sess[s].pid, sess[s].todo \ {p},
                       IF pidAlive(p) THEN NoPid ELSE p, sess[s].file)
              /\ UNCHANGED <<shard, raced, corpses>>
    BY <1>3, ProbeEffect
  <2>2. sess[s].pid \in Pids
    BY <2>1 DEF ShardTypes
  <2>3. QED
    BY <1>0, <1>m, <2>1, <2>2
<1>4. ASSUME NEW s \in Sessions, ReapRemove(s) PROVE ShardTypes'
  <2>1. shard' \in [Pids -> Files \cup {0}] /\ sess[s].pid \in Pids
    BY <1>0, <1>4, RemoveEffect DEF ShardTypes
  <2>2. QED
    BY <1>0, <1>4, <1>m, <2>1, RemoveEffect
<1>5. ASSUME NEW s \in Sessions, Open(s) PROVE ShardTypes'
  <2>1. PICK f \in Files :
              /\ sess[s].pid \in Pids /\ Moved(s, "serving", sess[s].pid, {}, NoPid, f)
              /\ shard' = [shard EXCEPT ![sess[s].pid] = f] /\ UNCHANGED <<raced, corpses>>
    BY <1>5, OpenEffect
  <2>2. shard' \in [Pids -> Files \cup {0}]
    BY <1>0, <2>1
  <2>3. QED
    BY <1>0, <1>m, <2>1, <2>2
<1>6. ASSUME NEW s \in Sessions, Exit(s) PROVE ShardTypes'
  <2>1. raced' \subseteq Sessions /\ corpses' \in [Sessions -> SUBSET Pids]
    BY <1>0, <1>6, ExitEffect
  <2>2. QED
    BY <1>0, <1>6, <1>m, <2>1, ExitEffect
<1>a. ASSUME NEW s \in Sessions, ReapListFails(s) PROVE ShardTypes'
  <2>1. /\ sess[s].pid \in Pids
        /\ Moved(s, "reap", sess[s].pid, sess[s].todo, sess[s].victim, sess[s].file)
        /\ UNCHANGED <<shard, raced, corpses>>
    BY <1>a, ListFailsEffect
  <2>2. QED
    BY <1>0, <1>m, <2>1
<1>b. ASSUME NEW s \in Sessions, ReapRemoveFails(s) PROVE ShardTypes'
  <2>1. corpses' \in [Sessions -> SUBSET Pids] /\ sess[s].pid \in Pids
    BY <1>0, <1>b, RemoveFailsEffect DEF ShardTypes
  <2>2. QED
    BY <1>0, <1>b, <1>m, <2>1, RemoveFailsEffect
<1>7. CASE UNCHANGED <<sess, shard, raced, corpses>>
  BY <1>7 DEF ShardTypes
<1>8. QED
  BY <1>1, <1>2, <1>3, <1>4, <1>5, <1>6, <1>7, <1>a, <1>b, ToolsEffect DEF Startup

(* A process that serves has its shard.                                    *)
LEMMA ShardStep == ASSUME ShardInv, MemoryNext PROVE Unique' /\ Marked' /\ ServingKeepsItsShard'
<1> USE DEF ShardInv
<1>n. NoPid \notin Pids
  BY WorkingAssumption
<1>1. ASSUME NEW s \in Sessions, Start(s) PROVE Unique' /\ Marked' /\ ServingKeepsItsShard'
  <2>1. PICK p \in Pids :
          /\ ~pidAlive(p) /\ sess[s].pc = "off" /\ Moved(s, "list", p, {}, NoPid, 0)
          /\ raced' = IF \E q \in Sessions : sess[q].victim = p THEN raced \cup {s} ELSE raced
          /\ shard' = shard
    BY <1>1, StartEffect
  <2>2. \A q \in Sessions : sess[q].pid # p
    BY <2>1 DEF pidAlive
  <2>3. /\ sess'[s].pid = p /\ sess'[s].pc = "list" /\ sess'[s].victim = NoPid
        /\ \A q \in Sessions \ {s} : sess'[q] = sess[q]
    BY <2>1 DEF Moved
  <2>4. Unique'
    BY <2>2, <2>3 DEF Unique
  <2>5. Marked'
    BY <1>n, <2>1, <2>3 DEF Marked
  <2>6. ServingKeepsItsShard'
    BY <2>1, <2>3 DEF ServingKeepsItsShard
  <2>7. QED
    BY <2>4, <2>5, <2>6
<1>2. ASSUME NEW s \in Sessions, ReapList(s) PROVE Unique' /\ Marked' /\ ServingKeepsItsShard'
  <2>1. /\ sess'[s].pid = sess[s].pid /\ sess'[s].pc = "reap" /\ sess'[s].victim = sess[s].victim
        /\ \A q \in Sessions \ {s} : sess'[q] = sess[q]
        /\ UNCHANGED <<shard, raced>>
    BY <1>2, ListEffect DEF Moved
  <2>2. QED
    BY <2>1 DEF Unique, Marked, ServingKeepsItsShard
<1>3. ASSUME NEW s \in Sessions, ReapProbe(s) PROVE Unique' /\ Marked' /\ ServingKeepsItsShard'
  <2>1. PICK p \in sess[s].todo :
              /\ sess[s].pc = "reap" /\ p \in Pids
              /\ Moved(s, "reap", sess[s].pid, sess[s].todo \ {p},
                       IF pidAlive(p) THEN NoPid ELSE p, sess[s].file)
              /\ UNCHANGED <<shard, raced>>
    BY <1>3, ProbeEffect
  <2>2. /\ sess'[s].pid = sess[s].pid /\ sess'[s].pc = "reap"
        /\ sess'[s].victim = IF pidAlive(p) THEN NoPid ELSE p
        /\ \A q \in Sessions \ {s} : sess'[q] = sess[q]
    BY <2>1 DEF Moved
  <2>3. sess'[s].victim \in Pids => \A q \in Sessions : sess'[q].pid # sess'[s].victim
    BY <1>n, <2>2 DEF pidAlive
  <2>4. Unique' /\ ServingKeepsItsShard'
    BY <2>1, <2>2 DEF Unique, ServingKeepsItsShard
  <2>5. Marked'
    BY <2>1, <2>2, <2>3 DEF Marked
  <2>6. QED
    BY <2>4, <2>5
<1>4. ASSUME NEW s \in Sessions, ReapRemove(s) PROVE Unique' /\ Marked' /\ ServingKeepsItsShard'
  <2>1. /\ sess'[s].pid = sess[s].pid /\ sess'[s].pc = "reap" /\ sess'[s].victim = NoPid
        /\ \A q \in Sessions \ {s} : sess'[q] = sess[q]
        /\ sess[s].victim \in Pids /\ shard' = [shard EXCEPT ![sess[s].victim] = 0] /\ raced' = raced
    BY <1>4, RemoveEffect DEF Moved
  <2>2. Unique' /\ Marked'
    BY <1>n, <2>1 DEF Unique, Marked
  <2>3. ASSUME NEW q \in Sessions \ raced, sess'[q].pc = "serving"
        PROVE  shard'[sess'[q].pid] = sess'[q].file
    <3>1. q # s /\ sess'[q] = sess[q]
      BY <2>1, <2>3
    <3>2. sess[q].pid # sess[s].victim /\ sess[q].pid \in Pids
      BY <2>1, <2>3, <3>1 DEF Marked, ShardTypes
    <3>3. QED
      BY <2>1, <2>3, <3>1, <3>2 DEF ServingKeepsItsShard, ShardTypes
  <2>4. QED
    BY <2>1, <2>2, <2>3 DEF ServingKeepsItsShard
<1>5. ASSUME NEW s \in Sessions, Open(s) PROVE Unique' /\ Marked' /\ ServingKeepsItsShard'
  <2>1. PICK f \in Files :
              /\ sess[s].pid \in Pids /\ Moved(s, "serving", sess[s].pid, {}, NoPid, f)
              /\ shard' = [shard EXCEPT ![sess[s].pid] = f] /\ raced' = raced
    BY <1>5, OpenEffect
  <2>2. /\ sess'[s].pid = sess[s].pid /\ sess'[s].pc = "serving" /\ sess'[s].victim = NoPid
        /\ sess'[s].file = f
        /\ \A q \in Sessions \ {s} : sess'[q] = sess[q]
    BY <2>1 DEF Moved
  <2>3. Unique' /\ Marked'
    BY <1>n, <2>1, <2>2 DEF Unique, Marked
  <2>4. ASSUME NEW q \in Sessions \ raced, sess'[q].pc = "serving"
        PROVE  shard'[sess'[q].pid] = sess'[q].file
    <3>1. CASE q = s
      BY <2>1, <2>2, <3>1 DEF ShardTypes
    <3>2. CASE q # s
      <4>1. sess'[q] = sess[q] /\ sess[q].pid # sess[s].pid
        BY <2>1, <2>2, <3>2 DEF Unique
      <4>2. QED
        BY <2>1, <2>4, <4>1 DEF ServingKeepsItsShard, ShardTypes
    <3>3. QED
      BY <3>1, <3>2
  <2>5. QED
    BY <2>1, <2>3, <2>4 DEF ServingKeepsItsShard
<1>6. ASSUME NEW s \in Sessions, Exit(s) PROVE Unique' /\ Marked' /\ ServingKeepsItsShard'
  <2>1. /\ sess'[s].pid = NoPid /\ sess'[s].pc = "off" /\ sess'[s].victim = NoPid
        /\ \A q \in Sessions \ {s} : sess'[q] = sess[q]
        /\ raced' = raced \ {s} /\ shard' = shard
    BY <1>6, ExitEffect DEF Moved
  <2>2. Unique' /\ Marked'
    BY <1>n, <2>1 DEF Unique, Marked
  <2>3. ServingKeepsItsShard'
    BY <2>1 DEF ServingKeepsItsShard
  <2>4. QED
    BY <2>2, <2>3
<1>a. ASSUME NEW s \in Sessions, ReapListFails(s) \/ ReapRemoveFails(s)
      PROVE  Unique' /\ Marked' /\ ServingKeepsItsShard'
  <2>1. /\ sess'[s].pid = sess[s].pid /\ sess'[s].pc = "reap"
        /\ sess'[s].victim = sess[s].victim \/ sess'[s].victim = NoPid
        /\ \A q \in Sessions \ {s} : sess'[q] = sess[q]
        /\ UNCHANGED <<shard, raced>>
    BY <1>a, ListFailsEffect, RemoveFailsEffect DEF Moved
  <2>2. QED
    BY <1>n, <2>1 DEF Unique, Marked, ServingKeepsItsShard
<1>7. CASE UNCHANGED <<sess, shard, raced, corpses>>
  BY <1>7 DEF Unique, Marked, ServingKeepsItsShard
<1>8. QED
  BY <1>1, <1>2, <1>3, <1>4, <1>5, <1>6, <1>7, <1>a, ToolsEffect DEF Startup

LEMMA ShardTypesInit == MemoryInit => ShardTypes
<1>1. Off \in SessState /\ Off.pc = "off" /\ Off.victim = NoPid
  BY DEF Off, SessState
<1>2. QED
  BY <1>1 DEF MemoryInit, ShardTypes

(* No reaper takes the shard of a process that serves, unless its pid was  *)
(* given out between the probe and the removal (reap.go).                  *)
THEOREM ServingKeepsItsShardHolds == MemorySpec => []ServingKeepsItsShard
<1>1. MemoryInit => ShardInv
  <2>1. ASSUME MemoryInit PROVE Unique /\ Marked /\ ServingKeepsItsShard
    BY <2>1, WorkingAssumption DEF MemoryInit, Off, Unique, Marked, ServingKeepsItsShard
  <2>2. QED
    BY <2>1, ShardTypesInit DEF ShardInv
<1>2. ShardInv /\ [MemoryNext]_memoryVars => ShardInv'
  <2> SUFFICES ASSUME ShardInv, [MemoryNext]_memoryVars PROVE ShardInv'
    OBVIOUS
  <2>1. CASE UNCHANGED memoryVars
    BY <2>1 DEF ShardInv, ShardTypes, Unique, Marked, ServingKeepsItsShard, memoryVars, memoryHist
  <2>2. CASE MemoryNext
    BY <2>2, ShardTypesStep, ShardStep DEF ShardInv
  <2>3. QED
    BY <2>1, <2>2
<1>3. ShardInv => ServingKeepsItsShard
  BY DEF ShardInv
<1>4. QED
  BY <1>1, <1>2, <1>3, PTL DEF MemorySpec

(* The reaper clears the shards of the pids it found dead.                 *)
LEMMA UnlistedStep == ASSUME OrphanInv, MemoryNext PROVE Unlisted'
<1> USE DEF OrphanInv
<1>1. ASSUME NEW s \in Sessions, Start(s) PROVE Unlisted'
  <2>1. PICK p \in Pids :
          /\ sess[s].pc = "off" /\ Moved(s, "list", p, {}, NoPid, 0)
          /\ corpses' = [q \in Sessions |-> corpses[q] \ {p}]
    BY <1>1, StartEffect
  <2>2. QED
    BY <2>1 DEF Moved, Unlisted
<1>2. ASSUME NEW s \in Sessions, Startup(s) PROVE Unlisted'
  <2>1. /\ sess'[s].pc \in {"reap", "serving"}
        /\ \A q \in Sessions \ {s} : sess'[q] = sess[q] /\ corpses'[q] = corpses[q]
    BY <1>2, ListEffect, ListFailsEffect, ProbeEffect, RemoveEffect, RemoveFailsEffect, OpenEffect
    DEF Startup, Moved, ShardTypes
  <2>2. QED
    BY <2>1 DEF Unlisted
<1>3. ASSUME NEW s \in Sessions, Exit(s) PROVE Unlisted'
  <2>1. /\ \A q \in Sessions \ {s} : sess'[q] = sess[q] /\ corpses'[q] = corpses[q]
        /\ corpses'[s] = {}
    BY <1>3, ExitEffect DEF Moved, ShardTypes
  <2>2. QED
    BY <2>1 DEF Unlisted
<1>4. CASE UNCHANGED <<sess, shard, raced, corpses>>
  BY <1>4 DEF Unlisted
<1>5. QED
  BY <1>1, <1>2, <1>3, <1>4, ToolsEffect

LEMMA OrphanStep == ASSUME OrphanInv, MemoryNext PROVE Dead' /\ Cleared' /\ StartupLeavesNoOrphan'
<1> USE DEF OrphanInv
<1>n. NoPid \notin Pids
  BY WorkingAssumption
<1>c. \A s \in Sessions : corpses[s] \subseteq Pids
  BY DEF ShardTypes
<1>1. ASSUME NEW s \in Sessions, Start(s) PROVE Dead' /\ Cleared' /\ StartupLeavesNoOrphan'
  <2>1. PICK p \in Pids :
          /\ Moved(s, "list", p, {}, NoPid, 0)
          /\ corpses' = [q \in Sessions |-> corpses[q] \ {p}] /\ shard' = shard
    BY <1>1, StartEffect
  <2>2. /\ sess'[s].pid = p /\ sess'[s].pc = "list"
        /\ \A q \in Sessions \ {s} : sess'[q] = sess[q]
    BY <2>1 DEF Moved
  <2>3. \A q \in Sessions : corpses'[q] \subseteq corpses[q] /\ p \notin corpses'[q]
    BY <2>1
  <2>4. Dead'
    BY <2>2, <2>3 DEF Dead, pidAlive
  <2>5. Cleared' /\ StartupLeavesNoOrphan'
    BY <2>1, <2>2, <2>3 DEF Cleared, StartupLeavesNoOrphan
  <2>6. QED
    BY <2>4, <2>5
<1>2. ASSUME NEW s \in Sessions, ReapList(s) PROVE Dead' /\ Cleared' /\ StartupLeavesNoOrphan'
  <2>1. /\ sess'[s].pid = sess[s].pid /\ sess'[s].pc = "reap"
        /\ sess'[s].todo = {p \in Pids \ {sess[s].pid} : shard[p] # 0}
        /\ \A q \in Sessions \ {s} : sess'[q] = sess[q]
        /\ corpses' = [corpses EXCEPT ![s] = {p \in Pids : shard[p] # 0 /\ ~pidAlive(p)}]
        /\ shard' = shard
    BY <1>2, ListEffect DEF Moved
  <2>2. /\ corpses'[s] = {p \in Pids : shard[p] # 0 /\ ~pidAlive(p)}
        /\ \A q \in Sessions \ {s} : corpses'[q] = corpses[q]
    BY <2>1 DEF ShardTypes
  <2>3. \A p : pidAlive(p)' <=> pidAlive(p)
    BY <2>1 DEF pidAlive
  <2>4. Dead'
    BY <2>2, <2>3 DEF Dead
  <2>5. corpses'[s] \subseteq sess'[s].todo
    BY <2>1, <2>2 DEF pidAlive
  <2>6. Cleared' /\ StartupLeavesNoOrphan'
    BY <2>1, <2>2, <2>5 DEF Cleared, StartupLeavesNoOrphan
  <2>7. QED
    BY <2>4, <2>6
<1>3. ASSUME NEW s \in Sessions, ReapProbe(s) PROVE Dead' /\ Cleared' /\ StartupLeavesNoOrphan'
  <2>1. PICK p \in sess[s].todo :
              /\ sess[s].pc = "reap" /\ sess[s].victim = NoPid
              /\ Moved(s, "reap", sess[s].pid, sess[s].todo \ {p},
                       IF pidAlive(p) THEN NoPid ELSE p, sess[s].file)
              /\ UNCHANGED <<shard, corpses>>
    BY <1>3, ProbeEffect
  <2>2. /\ sess'[s].pid = sess[s].pid /\ sess'[s].pc = "reap" /\ sess'[s].todo = sess[s].todo \ {p}
        /\ sess'[s].victim = IF pidAlive(p) THEN NoPid ELSE p
        /\ \A q \in Sessions \ {s} : sess'[q] = sess[q]
    BY <2>1 DEF Moved
  <2>3. Dead'
    BY <2>1, <2>2 DEF Dead, pidAlive
  <2>4. \A c \in corpses[s] : c \in sess'[s].todo \/ c = sess'[s].victim \/ shard[c] = 0
    BY <1>n, <1>c, <2>1, <2>2 DEF Cleared, Dead
  <2>5. Cleared' /\ StartupLeavesNoOrphan'
    BY <2>1, <2>2, <2>4 DEF Cleared, StartupLeavesNoOrphan
  <2>6. QED
    BY <2>3, <2>5
<1>4. ASSUME NEW s \in Sessions, ReapRemove(s) PROVE Dead' /\ Cleared' /\ StartupLeavesNoOrphan'
  <2>1. /\ sess[s].pc = "reap" /\ sess'[s].pid = sess[s].pid /\ sess'[s].pc = "reap"
        /\ sess'[s].todo = sess[s].todo
        /\ \A q \in Sessions \ {s} : sess'[q] = sess[q]
        /\ sess[s].victim \in Pids /\ shard' = [shard EXCEPT ![sess[s].victim] = 0]
        /\ corpses' = corpses
    BY <1>4, RemoveEffect DEF Moved
  <2>2. /\ shard'[sess[s].victim] = 0
        /\ \A p \in Pids : shard[p] = 0 => shard'[p] = 0
    BY <2>1 DEF ShardTypes
  <2>3. Dead'
    BY <2>1 DEF Dead, pidAlive
  <2>4. Cleared' /\ StartupLeavesNoOrphan'
    BY <1>c, <2>1, <2>2 DEF Cleared, StartupLeavesNoOrphan
  <2>5. QED
    BY <2>3, <2>4
<1>5. ASSUME NEW s \in Sessions, Open(s) PROVE Dead' /\ Cleared' /\ StartupLeavesNoOrphan'
  <2>1. PICK f \in Files :
              /\ sess[s].pc = "reap" /\ sess[s].todo = {} /\ sess[s].victim = NoPid /\ sess[s].pid \in Pids
              /\ Moved(s, "serving", sess[s].pid, {}, NoPid, f)
              /\ shard' = [shard EXCEPT ![sess[s].pid] = f] /\ corpses' = corpses
    BY <1>5, OpenEffect
  <2>2. /\ sess'[s].pid = sess[s].pid /\ sess'[s].pc = "serving"
        /\ \A q \in Sessions \ {s} : sess'[q] = sess[q]
    BY <2>1 DEF Moved
  <2>3. \A p \in Pids \ {sess[s].pid} : shard'[p] = shard[p]
    BY <2>1 DEF ShardTypes
  <2>4. \A q \in Sessions : sess[s].pid \notin corpses[q]
    BY DEF Dead, pidAlive
  <2>5. Dead'
    BY <2>1, <2>2 DEF Dead, pidAlive
  <2>6. \A p \in corpses[s] : shard[p] = 0
    BY <1>n, <1>c, <2>1 DEF Cleared
  <2>7. Cleared' /\ StartupLeavesNoOrphan'
    BY <1>c, <2>1, <2>2, <2>3, <2>4, <2>6 DEF Cleared, StartupLeavesNoOrphan
  <2>8. QED
    BY <2>5, <2>7
<1>6. ASSUME NEW s \in Sessions, Exit(s) PROVE Dead' /\ Cleared' /\ StartupLeavesNoOrphan'
  <2>1. /\ sess'[s].pid = NoPid /\ sess'[s].pc = "off"
        /\ \A q \in Sessions \ {s} : sess'[q] = sess[q]
        /\ corpses' = [corpses EXCEPT ![s] = {}] /\ shard' = shard
    BY <1>6, ExitEffect DEF Moved
  <2>2. corpses'[s] = {} /\ \A q \in Sessions \ {s} : corpses'[q] = corpses[q]
    BY <2>1 DEF ShardTypes
  <2>3. Dead'
    BY <1>n, <1>c, <2>1, <2>2 DEF Dead, pidAlive
  <2>4. Cleared' /\ StartupLeavesNoOrphan'
    BY <2>1, <2>2 DEF Cleared, StartupLeavesNoOrphan
  <2>5. QED
    BY <2>3, <2>4
<1>a. ASSUME NEW s \in Sessions, ReapListFails(s) PROVE Dead' /\ Cleared' /\ StartupLeavesNoOrphan'
  <2>1. /\ sess'[s].pid = sess[s].pid /\ sess'[s].pc = "reap" /\ sess[s].pc = "list"
        /\ \A q \in Sessions \ {s} : sess'[q] = sess[q]
        /\ UNCHANGED <<shard, corpses>>
    BY <1>a, ListFailsEffect DEF Moved
  <2>2. corpses[s] = {}
    BY <2>1 DEF Unlisted
  <2>3. Dead'
    BY <2>1 DEF Dead, pidAlive
  <2>4. Cleared' /\ StartupLeavesNoOrphan'
    BY <2>1, <2>2 DEF Cleared, StartupLeavesNoOrphan
  <2>5. QED
    BY <2>3, <2>4
<1>b. ASSUME NEW s \in Sessions, ReapRemoveFails(s) PROVE Dead' /\ Cleared' /\ StartupLeavesNoOrphan'
  <2>1. /\ sess[s].pc = "reap" /\ sess'[s].pid = sess[s].pid /\ sess'[s].pc = "reap"
        /\ sess'[s].todo = sess[s].todo
        /\ \A q \in Sessions \ {s} : sess'[q] = sess[q]
        /\ corpses' = [corpses EXCEPT ![s] = @ \ {sess[s].victim}] /\ shard' = shard
    BY <1>b, RemoveFailsEffect DEF Moved
  <2>2. /\ corpses'[s] = corpses[s] \ {sess[s].victim}
        /\ \A q \in Sessions \ {s} : corpses'[q] = corpses[q]
    BY <2>1 DEF ShardTypes
  <2>3. Dead'
    BY <2>1, <2>2 DEF Dead, pidAlive
  <2>4. Cleared' /\ StartupLeavesNoOrphan'
    BY <1>c, <2>1, <2>2 DEF Cleared, StartupLeavesNoOrphan
  <2>5. QED
    BY <2>3, <2>4
<1>7. CASE UNCHANGED <<sess, shard, raced, corpses>>
  BY <1>7 DEF Dead, pidAlive, Cleared, StartupLeavesNoOrphan
<1>8. QED
  BY <1>1, <1>2, <1>3, <1>4, <1>5, <1>6, <1>7, <1>a, <1>b, ToolsEffect DEF Startup

(* A process that serves has cleared the directory of the shards that were *)
(* dead when it listed them (db.go: "everything else dies with the         *)
(* process"), but for those whose own removal failed (reap.go: "a single   *)
(* failure doesn't abort the walk").                                       *)
THEOREM StartupLeavesNoOrphanHolds == MemorySpec => []StartupLeavesNoOrphan
<1>1. MemoryInit => OrphanInv
  <2>1. ASSUME MemoryInit PROVE Unlisted /\ Dead /\ Cleared /\ StartupLeavesNoOrphan
    BY <2>1 DEF MemoryInit, Off, Unlisted, Dead, Cleared, StartupLeavesNoOrphan
  <2>2. QED
    BY <2>1, ShardTypesInit DEF OrphanInv
<1>2. OrphanInv /\ [MemoryNext]_memoryVars => OrphanInv'
  <2> SUFFICES ASSUME OrphanInv, [MemoryNext]_memoryVars PROVE OrphanInv'
    OBVIOUS
  <2>1. CASE UNCHANGED memoryVars
    BY <2>1 DEF OrphanInv, ShardTypes, Unlisted, Dead, pidAlive, Cleared, StartupLeavesNoOrphan, memoryVars, memoryHist
  <2>2. CASE MemoryNext
    BY <2>2, ShardTypesStep, UnlistedStep, OrphanStep DEF OrphanInv
  <2>3. QED
    BY <2>1, <2>2
<1>3. OrphanInv => StartupLeavesNoOrphan
  BY DEF OrphanInv
<1>4. QED
  BY <1>1, <1>2, <1>3, PTL DEF MemorySpec
=============================================================================
