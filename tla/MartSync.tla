------------------------------ MODULE MartSync ------------------------------
(***************************************************************************)
(* One mart: a directory of notes projected from the daemon's records,     *)
(* refreshed by Sync (the change feed since a saved cursor, in place) and  *)
(* by Build (a full enumeration, then the removal of what it did not       *)
(* write).  launchd starts both on their own schedule, the MCP tools and   *)
(* the operator start them too, and nothing keeps two runs apart.          *)
(*                                                                         *)
(* On the daemon's side a record is visible to both listings while it is   *)
(* synthesised and matches the mart's filters.  updated_at is set by a     *)
(* trigger to now(), the time the transaction BEGAN, and becomes visible   *)
(* when it commits.  A note is the version of the record it was rendered   *)
(* from; Filename is a function of the record, so a record has one note.   *)
(*                                                                         *)
(* Notes and the cursor are written with os.WriteFile, which truncates the *)
(* file and then writes it: each write is two steps, and a process that    *)
(* dies between them leaves an empty file.                                 *)
(***************************************************************************)
EXTENDS Naturals, FiniteSets

CONSTANTS
    MaxRecords,  \* bound: record ids 1 .. MaxRecords
    Writers,     \* database sessions that write records
    Syncers,     \* processes that run Sync
    Builders,    \* processes that run Build
    PageSize,    \* records per page (100)
    Ephemerals,  \* the values of spec.ephemeral to consider
    MaxClock,    \* bound: the database clock
    MaxWrites,   \* bound: transactions begun, records withdrawn
    MaxUpsets    \* bound: runs that fail or are killed, operator's edits

ASSUME MartAssumption ==
    /\ MaxRecords \in Nat /\ PageSize \in Nat \ {0} /\ MaxClock \in Nat \ {0}
    /\ MaxWrites \in Nat /\ MaxUpsets \in Nat
    /\ IsFiniteSet(Writers)
    /\ Ephemerals \subseteq BOOLEAN

Ids == 1 .. MaxRecords
Runners == Syncers \cup Builders

VARIABLES
    clock,     \* the database clock
    rec,       \* id -> [ver, at]; version 0 is a record no listing shows
    last,      \* id -> the last version given out
    tx,        \* writer -> the open transaction [id, at], id 0 when none
    cursor,    \* marts/<name>.cursor: the (updated_at, id) last saved whole
    unreadable, \* the cursor file is truncated, nothing can be decoded from it
    ephemeral, \* spec.ephemeral
    dest,      \* "none" (absent or empty), "owned", "unmarked" (files, no marker)
    note,      \* id -> version rendered in its note, 0 when there is none
    torn,      \* records whose note is there, truncated
    run,       \* runner -> the run under way
    writes, upsets, \* how much of each bound is used
    dirty,     \* history: runner -> records changed since its run began
    alone,     \* history: runner -> no other run overlapped this one
    late,      \* history: records committed behind a reader of the feed
    damaged,   \* history: runs overlapped, a wiped rebuild failed, dest moved
    broken     \* history: notes a Build truncated, not written whole since

db     == <<clock, rec, last, tx, writes>>
notes  == <<note, torn>>
mart   == <<cursor, unreadable, ephemeral, dest, notes>>
hist   == <<dirty, alone, late, damaged, broken>>
vars   == <<db, mart, run, upsets, hist>>

Zero  == <<0, 0>>
Pos   == (0 .. MaxClock) \X (0 .. MaxRecords)
NoTx  == [id |-> 0, at |-> 0]
Quiet == [pc |-> "idle", mode |-> "sync", pos |-> Zero, page |-> {}, full |-> TRUE,
          wrote |-> {}, open |-> 0]

Before(a, b) == a[1] < b[1] \/ (a[1] = b[1] /\ a[2] < b[2])
Active(m)    == run[m].pc # "idle"

\* ORDER BY updated_at, id for the change feed, ORDER BY id for a Build.
Key(mode, i) == <<IF mode = "sync" THEN rec[i].at ELSE 0, i>>
Listed(mode, pos) == {i \in Ids : rec[i].ver > 0 /\ Before(pos, Key(mode, i))}
\* ListRecordsSince, ListRecords: the first PageSize records after a position.
Page(mode, pos) ==
    LET L == Listed(mode, pos)
        first == {i \in L : Cardinality({j \in L : Before(Key(mode, j), Key(mode, i))}) < PageSize}
    IN  {[id |-> i, ver |-> rec[i].ver, key |-> Key(mode, i)] : i \in first}

\* The notes on disk, whole or truncated.
NoteFiles == {i \in Ids : note[i] # 0} \cup torn

\* Mutant: the marker does not count, only an empty directory is taken.
MayOwnEmpty == NoteFiles = {}

\* ensureOwnedDir: a marked directory, or one with nothing in it.
MayOwn == dest # "unmarked" \/ NoteFiles = {}

Init ==
    /\ clock = 1 /\ writes = 0 /\ upsets = 0
    /\ rec = [i \in Ids |-> [ver |-> 0, at |-> 0]]
    /\ last = [i \in Ids |-> 0]
    /\ tx = [w \in Writers |-> NoTx]
    /\ cursor = Zero /\ unreadable = FALSE /\ ephemeral \in Ephemerals
    /\ dest = "none" /\ note = [i \in Ids |-> 0] /\ torn = {}
    /\ run = [m \in Runners |-> Quiet]
    /\ dirty = [m \in Runners |-> {}]
    /\ alone = [m \in Runners |-> TRUE]
    /\ late = {} /\ damaged = FALSE /\ broken = {}

-----------------------------------------------------------------------------
(* The daemon's records.                                                   *)

Tick ==
    /\ clock < MaxClock
    /\ clock' = clock + 1
    /\ UNCHANGED <<rec, last, tx, writes, mart, run, upsets, hist>>

\* A synthesis or a re-ingest begins: updated_at will be this moment.
Begin(w) ==
    /\ tx[w] = NoTx /\ writes < MaxWrites
    /\ \E i \in Ids : tx' = [tx EXCEPT ![w] = [id |-> i, at |-> clock]]
    /\ writes' = writes + 1
    /\ UNCHANGED <<clock, rec, last, mart, run, upsets, hist>>

\* It commits.  It is late when a reader of the feed is already past it.
Commit(w) ==
    LET i == tx[w].id
        passed == ~Before(cursor, <<tx[w].at, i>>) \/
                  \E m \in Runners : /\ Active(m) /\ run[m].mode = "sync"
                                     /\ ~Before(run[m].pos, <<tx[w].at, i>>)
    IN
    /\ tx[w] # NoTx
    /\ tx' = [tx EXCEPT ![w] = NoTx]
    /\ rec' = [rec EXCEPT ![i] = [ver |-> last[i] + 1, at |-> tx[w].at]]
    /\ last' = [last EXCEPT ![i] = @ + 1]
    /\ late' = IF passed THEN late \cup {i} ELSE late \ {i}
    /\ dirty' = [m \in Runners |-> IF Active(m) THEN dirty[m] \cup {i} ELSE {}]
    /\ UNCHANGED <<clock, writes, mart, run, upsets, alone, damaged, broken>>

\* The record is forgotten, or put back in the synthesis backlog.
Withdraw(i) ==
    /\ rec[i].ver > 0 /\ writes < MaxWrites
    /\ writes' = writes + 1
    /\ rec' = [rec EXCEPT ![i] = [ver |-> 0, at |-> 0]]
    /\ dirty' = [m \in Runners |-> IF Active(m) THEN dirty[m] \cup {i} ELSE {}]
    /\ UNCHANGED <<clock, last, tx, mart, run, upsets, alone, late, damaged, broken>>

-----------------------------------------------------------------------------
(* A run.                                                                  *)

\* Two runs that overlap: neither is alone, and the notes are in doubt.
Started(m) ==
    LET others == {n \in Runners \ {m} : Active(n)} IN
    /\ alone' = [n \in Runners |-> IF n = m \/ n \in others THEN others = {} ELSE alone[n]]
    /\ damaged' = (damaged \/ others # {})
    /\ dirty' = [dirty EXCEPT ![m] = {}]
    /\ UNCHANGED <<late, broken>>

\* The run is over and its history with it.
Ended(m) ==
    /\ run' = [run EXCEPT ![m] = Quiet]
    /\ dirty' = [dirty EXCEPT ![m] = {}]
    /\ alone' = [alone EXCEPT ![m] = TRUE]

\* Mutant: the directory is neither created nor marked.
SyncStartUnowned(m) ==
    /\ m \in Syncers /\ ~Active(m) /\ ~unreadable /\ MayOwn
    /\ run' = [run EXCEPT ![m] = [Quiet EXCEPT !.pc = "list", !.pos = cursor]]
    /\ Started(m)
    /\ UNCHANGED <<db, mart, upsets>>

\* syncOne: load the cursor (which fails on a truncated one), prove ownership
\* of the directory.
SyncStart(m) ==
    /\ m \in Syncers /\ ~Active(m) /\ ~unreadable /\ MayOwn
    /\ run' = [run EXCEPT ![m] = [Quiet EXCEPT !.pc = "list", !.pos = cursor]]
    /\ dest' = "owned"
    /\ Started(m)
    /\ UNCHANGED <<db, cursor, unreadable, ephemeral, notes, upsets>>

\* prepareDest: an ephemeral mart is wiped first.
BuildStart(m) ==
    /\ m \in Builders /\ ~Active(m) /\ MayOwn
    /\ run' = [run EXCEPT ![m] = [Quiet EXCEPT !.mode = "build",
                                  !.pc = IF ephemeral THEN "wipe" ELSE "list"]]
    /\ dest' = "owned"
    /\ Started(m)
    /\ UNCHANGED <<db, cursor, unreadable, ephemeral, notes, upsets>>

\* os.RemoveAll under way: some files are gone, the marker perhaps first.
WipeSome(m) ==
    /\ run[m].pc = "wipe"
    /\ \E keep \in SUBSET Ids :
        /\ note' = [i \in Ids |-> IF i \in keep THEN note[i] ELSE 0]
        /\ torn' = torn \cap keep /\ broken' = broken \cap keep
    /\ dest' = "unmarked"
    /\ run' = [run EXCEPT ![m].pc = "wiping"]
    /\ UNCHANGED <<db, cursor, unreadable, ephemeral, upsets, dirty, alone, late, damaged>>

WipeDone(m) ==
    /\ run[m].pc = "wiping"
    /\ note' = [i \in Ids |-> 0] /\ torn' = {} /\ broken' = {}
    /\ dest' = "owned"
    /\ run' = [run EXCEPT ![m].pc = "list"]
    /\ UNCHANGED <<db, cursor, unreadable, ephemeral, upsets, dirty, alone, late, damaged>>

\* handleListRecords: one page, and the position after its last row.
FetchPage(m) ==
    LET p == Page(run[m].mode, run[m].pos) IN
    /\ run[m].pc = "list" /\ run[m].page = {} /\ run[m].full
    /\ run' = [run EXCEPT ![m].page = p, ![m].full = (Cardinality(p) = PageSize),
                          ![m].pos = IF p = {} THEN @
                                     ELSE CHOOSE k \in {e.key : e \in p} :
                                            \A e \in p : ~Before(k, e.key)]
    /\ UNCHANGED <<db, mart, upsets, hist>>

\* Render the next record of the page; os.WriteFile truncates its note.
OpenNote(m) ==
    /\ run[m].pc = "list" /\ run[m].open = 0
    /\ \E e \in run[m].page :
        /\ \A f \in run[m].page : ~Before(f.key, e.key)
        /\ note' = [note EXCEPT ![e.id] = 0] /\ torn' = torn \cup {e.id}
        /\ broken' = IF run[m].mode = "build" THEN broken \cup {e.id} ELSE broken
        /\ run' = [run EXCEPT ![m].open = e.id]
    /\ UNCHANGED <<db, cursor, unreadable, ephemeral, dest, upsets, dirty, alone, late, damaged>>

\* The note is written, in vain when another run has removed the file.
WriteNote(m) ==
    /\ run[m].pc = "list"
    /\ \E e \in run[m].page :
        /\ e.id = run[m].open
        /\ IF e.id \in NoteFiles
             THEN /\ note' = [note EXCEPT ![e.id] = e.ver]
                  /\ torn' = torn \ {e.id} /\ broken' = broken \ {e.id}
             ELSE UNCHANGED <<notes, broken>>
        /\ run' = [run EXCEPT ![m].page = @ \ {e}, ![m].wrote = @ \cup {e.id}, ![m].open = 0]
    /\ UNCHANGED <<db, cursor, unreadable, ephemeral, dest, upsets, dirty, alone, late, damaged>>

\* The last page was short: the index is rebuilt and SaveCursor begins, by
\* truncating the cursor file.
SyncFinish(m) ==
    /\ run[m].pc = "list" /\ run[m].mode = "sync"
    /\ run[m].page = {} /\ ~run[m].full
    /\ unreadable' = TRUE
    /\ run' = [run EXCEPT ![m].pc = "save"]
    /\ UNCHANGED <<db, cursor, ephemeral, dest, notes, upsets, hist>>

\* The position is written, and the Sync is over.
SaveCursor(m) ==
    /\ run[m].pc = "save"
    /\ cursor' = run[m].pos /\ unreadable' = FALSE
    /\ Ended(m)
    /\ UNCHANGED <<db, ephemeral, dest, notes, upsets, late, damaged, broken>>

\* The position goes to a file that a purge has unlinked meanwhile.
SaveUnlinked(m) ==
    /\ run[m].pc = "unlinked"
    /\ Ended(m)
    /\ UNCHANGED <<db, mart, upsets, late, damaged, broken>>

\* Mutant: nothing is swept.
sweepNothing(wrote) == {}

\* The notes a Build removes at the end: those it did not write.
sweepOrphans(wrote) == NoteFiles \ wrote

\* index.md is written, then the orphans are removed; the cursor is not
\* touched.  A Build that ran alone leaves nothing of earlier damage.
BuildFinish(m) ==
    LET orphans == sweepOrphans(run[m].wrote) IN
    /\ run[m].pc = "list" /\ run[m].mode = "build"
    /\ run[m].page = {} /\ ~run[m].full
    /\ note' = [i \in Ids |-> IF i \in orphans THEN 0 ELSE note[i]]
    /\ torn' = torn \ orphans /\ broken' = broken \ orphans
    /\ run' = [run EXCEPT ![m] = [Quiet EXCEPT !.pc = "built", !.mode = "build"]]
    /\ damaged' = (damaged /\ ~alone[m])
    /\ late' = IF alone[m] THEN late \cap dirty[m] ELSE late
    /\ UNCHANGED <<db, cursor, unreadable, ephemeral, dest, upsets, dirty, alone>>

BuildExit(m) ==
    /\ run[m].pc = "built"
    /\ Ended(m)
    /\ UNCHANGED <<db, mart, upsets, late, damaged, broken>>

\* Mutant: the position reached is saved although the run failed.
FailSavesCursor(m) ==
    /\ run[m].pc \in {"wipe", "wiping", "list", "save"} /\ upsets < MaxUpsets
    /\ upsets' = upsets + 1
    /\ Ended(m)
    /\ cursor' = IF run[m].mode = "sync" THEN run[m].pos ELSE cursor
    /\ damaged' = (damaged \/ (run[m].mode = "build" /\ ephemeral))
    /\ UNCHANGED <<db, unreadable, ephemeral, dest, notes, late, broken>>

\* A page cannot be fetched, a note or the cursor cannot be written, the process
\* is killed: what was written stays, a file that was open stays truncated.
Fail(m) ==
    /\ run[m].pc \in {"wipe", "wiping", "list", "save"} /\ upsets < MaxUpsets
    /\ upsets' = upsets + 1
    /\ Ended(m)
    /\ damaged' = (damaged \/ (run[m].mode = "build" /\ ephemeral))
    /\ UNCHANGED <<db, mart, late, broken>>

-----------------------------------------------------------------------------
(* The operator.                                                           *)

\* mart add over an existing name, with another dest: the cursor stays.
Redefine ==
    /\ upsets < MaxUpsets /\ \A m \in Runners : ~Active(m)
    /\ upsets' = upsets + 1
    /\ dest' = "none" /\ note' = [i \in Ids |-> 0] /\ torn' = {} /\ broken' = {}
    /\ damaged' = TRUE
    /\ UNCHANGED <<db, cursor, unreadable, ephemeral, run, dirty, alone, late>>

\* mart daemon uninstall --purge: the next Sync reads from the beginning; one
\* that has the file open writes what no other process will read.
Purge ==
    /\ upsets < MaxUpsets
    /\ upsets' = upsets + 1
    /\ cursor' = Zero /\ unreadable' = FALSE
    /\ run' = [m \in Runners |-> IF run[m].pc = "save" THEN [run[m] EXCEPT !.pc = "unlinked"]
                                ELSE run[m]]
    /\ late' = IF \A m \in Runners : ~Active(m) THEN {} ELSE late
    /\ UNCHANGED <<db, ephemeral, dest, notes, dirty, alone, damaged, broken>>

-----------------------------------------------------------------------------
Run(m) ==
    \/ SyncStart(m) \/ BuildStart(m) \/ WipeSome(m) \/ WipeDone(m) \/ FetchPage(m)
    \/ OpenNote(m) \/ WriteNote(m) \/ SyncFinish(m) \/ SaveCursor(m) \/ SaveUnlinked(m)
    \/ BuildFinish(m) \/ BuildExit(m) \/ Fail(m)
Next ==
    \/ Tick
    \/ \E w \in Writers : Begin(w) \/ Commit(w)
    \/ \E i \in Ids : Withdraw(i)
    \/ \E m \in Runners : Run(m)
    \/ Redefine \/ Purge

Spec == Init /\ [][Next]_vars

\* A run that has started goes on, and launchd starts the interval job again
\* and again, whatever other runs there are.
Progress(m) == WipeSome(m) \/ WipeDone(m) \/ FetchPage(m) \/ OpenNote(m) \/ WriteNote(m)
               \/ SyncFinish(m) \/ SaveCursor(m) \/ SaveUnlinked(m)
               \/ BuildFinish(m) \/ BuildExit(m)
FairSpec == Spec /\ \A m \in Runners : WF_vars(Progress(m)) /\ SF_vars(SyncStart(m))

-----------------------------------------------------------------------------
(* Properties.                                                             *)

\* Every component stays in its domain; no note is newer than its record ever
\* was, a truncated one renders nothing, and a note is only found in a directory
\* that is there.
TypeOK ==
    /\ clock \in 1 .. MaxClock
    /\ rec \in [Ids -> [ver : 0 .. MaxWrites, at : 0 .. MaxClock]]
    /\ tx \in [Writers -> [id : 0 .. MaxRecords, at : 0 .. MaxClock]]
    /\ cursor \in Pos /\ unreadable \in BOOLEAN
    /\ dest \in {"none", "owned", "unmarked"}
    /\ \A i \in Ids : note[i] \in 0 .. last[i]
    /\ torn \subseteq Ids /\ broken \subseteq torn /\ \A i \in torn : note[i] = 0
    /\ dest = "none" => NoteFiles = {}
    /\ \A m \in Runners : run[m].pos \in Pos /\ run[m].wrote \subseteq Ids
    /\ late \subseteq Ids

Rebuilding == ephemeral /\ \E m \in Runners : run[m].pc # "idle" /\ run[m].mode = "build"

\* The saved cursor promises that everything up to it has been applied
\* (sync.go): a listed record behind the cursor has a note of its current
\* version, once no rebuild from nothing is under way, whatever run is killed
\* in the middle of whatever write.  The exceptions are what the code does not
\* defend against: a transaction that committed behind the reader, runs that
\* overlapped, an ephemeral rebuild that failed after the wipe, a mart moved by
\* mart add, and a note that a Build in place has truncated, which stays empty
\* when that Build dies.
CursorIsHonest ==
    ~damaged /\ ~Rebuilding => \A i \in Ids :
        rec[i].ver > 0 /\ ~Before(cursor, <<rec[i].at, i>>) /\ i \notin late \cup broken
            => note[i] = rec[i].ver

\* A Build that no other run overlapped leaves exactly the records: for every
\* record not changed while it ran, the current note, or no file (build.go).
BuildIsExact ==
    \A m \in Runners : run[m].pc = "built" /\ alone[m] =>
        \A i \in Ids \ dirty[m] : note[i] = rec[i].ver /\ i \notin torn

\* A run that died left the cursor truncated: no Sync starts any more.
Stuck == unreadable /\ \A m \in Runners : run[m].pc # "save"
\* A rebuild that died left files without their marker: no run starts any more.
Disowned == dest = "unmarked" /\ \A m \in Runners : run[m].pc # "wiping"
\* The note a Build truncated, with no run left that is writing it.
Emptied(i) == i \in broken /\ \A m \in Runners : run[m].open # i

\* A written record reaches the mart although runs fail and records keep
\* changing, unless one of those exceptions occurs, or a death that left the
\* cursor truncated or the directory without its marker (mart.go syncOne).
EveryWriteArrives ==
    \A i \in Ids : rec[i].ver > 0 ~>
        \/ note[i] = rec[i].ver \/ rec[i].ver = 0
        \/ i \in late \/ damaged \/ Emptied(i) \/ Disowned \/ Stuck
=============================================================================
