------------------------- MODULE MergeUpload_proofs -------------------------
(***************************************************************************)
(* Proofs about the merge upload, for any number of brains, uploads,       *)
(* concurrent requests, failures and restarts.                             *)
(*                                                                         *)
(* What _pending holds was written earlier, through another name and       *)
(* perhaps by a handler that is still writing.  IInv therefore follows the *)
(* bytes: which uploads' bytes a name, or an open file, can have (Bytes),  *)
(* that a file has one name (Names), and, for a brain that did not race,   *)
(* what the only complete under way has achieved so far (Lone).            *)
(***************************************************************************)
EXTENDS MergeUpload, FiniteSetTheorems, TLAPS

FileNos == 0 .. MaxRequests
Req == [pc : {"idle", "put", "lookup", "found", "copy", "rename", "remove", "forget"},
        uid : 0 .. MaxUploads, brain : Brains \cup {NoBrain}, file : FileNos,
        intact : BOOLEAN]

TypeOK ==
    /\ backend \in {"local", "minio"}
    /\ owner \in [Uids -> Brains \cup {NoBrain}]
    /\ staged \in [Uids -> FileNos]
    /\ tmp \in [Brains -> FileNos]
    /\ pending \in [Brains -> FileNos]
    /\ file \in [Files -> [of : SUBSET Uids, whole : BOOLEAN]]
    /\ req \in [Requests -> Req]
    /\ requests \in Nat
    /\ uploads \subseteq Uids /\ acked \subseteq Uids
    /\ retried \subseteq Uids /\ raced \subseteq Brains

(* A file has at most one name.                                            *)
Names ==
    /\ \A u, v \in Uids : staged[u] = staged[v] /\ staged[u] # 0 => u = v
    /\ \A b, c \in Brains : tmp[b] = tmp[c] /\ tmp[b] # 0 => b = c
    /\ \A b, c \in Brains : pending[b] = pending[c] /\ pending[b] # 0 => b = c
    /\ \A u \in Uids, b \in Brains : staged[u] # 0 => staged[u] # tmp[b] /\ staged[u] # pending[b]
    /\ \A b, c \in Brains : tmp[b] # 0 => tmp[b] # pending[c]

OfBrain(f, b) == file[f].of # {} /\ \A u \in file[f].of : owner[u] = b

(* A handler past the binding check serves the brain that owns its upload. *)
Busy(r) == req[r].pc \in {"put", "copy", "rename", "remove"}
Writing(r) == req[r].pc \in {"put", "copy"}

Owned ==
    /\ \A r \in Requests : Busy(r) =>
          /\ req[r].uid \in Uids /\ req[r].brain \in Brains /\ req[r].file \in Files
          /\ owner[req[r].uid] = req[r].brain
          /\ backend = IF req[r].pc = "put" THEN "local" ELSE "minio"
    /\ \A r \in Requests : req[r].pc \in {"lookup", "found", "forget"} =>
          /\ req[r].uid \in Uids /\ req[r].brain \in Brains
          /\ req[r].pc # "lookup" => owner[req[r].uid] = req[r].brain
    /\ \A r \in Requests : req[r].pc = "idle" => req[r].file = 0
    /\ \A u \in Uids : (staged[u] # 0 \/ u \in acked \cup uploads) => owner[u] \in Brains

(* The bytes behind every name and every open file.                        *)
NameBytes ==
    /\ \A u \in Uids : staged[u] # 0 => file[staged[u]].of = {u}
    /\ \A b \in Brains : tmp[b] # 0 => OfBrain(tmp[b], b)
    /\ \A b \in Brains : pending[b] # 0 => OfBrain(pending[b], b)

OpenAt(r) ==
    Writing(r) =>
        /\ req[r].uid \in file[req[r].file].of
        /\ OfBrain(req[r].file, req[r].brain)
        /\ req[r].pc = "put" => file[req[r].file].of = {req[r].uid}

Bytes == NameBytes /\ \A r \in Requests : OpenAt(r)

(* A staged upload that can still be completed is whole, or a PUT that has *)
(* not been disturbed is still making it so.                               *)
StagedOK ==
    \A u \in uploads : staged[u] # 0 =>
        \/ file[staged[u]].whole
        \/ \E r \in Requests : req[r].pc = "put" /\ req[r].file = staged[u] /\ req[r].intact

Has(f, u) == f # 0 /\ file[f].of = {u} /\ file[f].whole

(* The completes of a brain that has not raced: one, which found nothing   *)
(* pending and works on a file of its own.                                 *)
CompleteOK(r, b) ==
    /\ req[r].pc \in {"lookup", "found", "copy", "rename"} => pending[b] = 0
    /\ req[r].pc = "copy" =>
          /\ tmp[b] = req[r].file /\ req[r].intact
          /\ file[tmp[b]].of = {req[r].uid}
    /\ req[r].pc = "rename" => tmp[b] = req[r].file /\ Has(tmp[b], req[r].uid)
    /\ req[r].pc = "remove" => Has(pending[b], req[r].uid)

PendingOK(b) ==
    pending[b] # 0 =>
        /\ \E u \in Uids : Has(pending[b], u)
        /\ \A r \in Requests : Writing(r) => req[r].file # pending[b]

LoneAt(b) ==
    /\ \A r, q \in Completing(b) : r = q
    /\ \A r \in Completing(b) : CompleteOK(r, b)
    /\ PendingOK(b)

Lone == \A b \in Brains \ raced : LoneAt(b)

(* The id a complete has looked up is in the map until it is done, unless  *)
(* another complete of the brain takes it.                                 *)
Registered ==
    \A r \in Requests : req[r].pc = "found" =>
        req[r].uid \in uploads \/ req[r].brain \in raced

(* The PUTs of an upload that was not sent twice.                          *)
Once ==
    \A u \in Uids \ retried :
        /\ \A r, q \in Requests : req[r].pc = "put" /\ req[q].pc = "put"
                                  /\ req[r].uid = u /\ req[q].uid = u => r = q
        /\ \A r \in Requests : req[r].pc = "put" /\ req[r].uid = u =>
              /\ u \notin acked /\ req[r].intact
              /\ staged[u] = req[r].file \/ owner[u] \in raced

IInv ==
    /\ TypeOK /\ Names /\ Owned /\ Bytes /\ StagedOK /\ Lone /\ Once
    /\ Registered /\ AckedIsStored

-----------------------------------------------------------------------------
(* Typing.                                                                 *)

LEMMA ConstantTypes ==
    /\ Files \subseteq FileNos /\ 0 \in FileNos /\ 0 \notin Files
    /\ \A f \in FileNos : f # 0 => f \in Files
    /\ Uids \subseteq 0 .. MaxUploads
    /\ IdleReq \in Req /\ NoFile \in [of : SUBSET Uids, whole : BOOLEAN]
<1>1. MaxUploads \in Nat /\ MaxRequests \in Nat
  BY MergeAssumption
<1>2. IdleReq \in Req
  BY <1>1 DEF IdleReq, Req, FileNos
<1>3. NoFile \in [of : SUBSET Uids, whole : BOOLEAN]
  BY DEF NoFile
<1>4. QED
  BY <1>1, <1>2, <1>3 DEF Files, FileNos, Uids

(* os.Create opens the file of the name, or one nobody knows, and cuts it   *)
(* under the handlers that are writing it.                                 *)
Opened(r, u, b, pc, f) ==
    /\ f \in Files
    /\ file' \in [Files -> [of : SUBSET Uids, whole : BOOLEAN]]
    /\ req' \in [Requests -> Req]
    /\ \A g \in Files \ {f} : file'[g] = file[g]
    /\ u \in file'[f].of /\ ~file'[f].whole
    /\ \A v \in file'[f].of :
          v = u \/ \E q \in Requests \ {r} : Writing(q) /\ req[q].file = f /\ req[q].uid = v
    /\ \A q \in Requests \ {r} : Writing(q) /\ req[q].file = f => req[q].uid \in file'[f].of
    /\ req'[r].pc = pc /\ req'[r].uid = u /\ req'[r].brain = b /\ req'[r].file = f
    /\ req'[r].intact
    /\ \A q \in Requests \ {r} :
          /\ req'[q].pc = req[q].pc /\ req'[q].uid = req[q].uid
          /\ req'[q].brain = req[q].brain /\ req'[q].file = req[q].file
          /\ ~(Writing(q) /\ req[q].file = f) => req'[q] = req[q]

LEMMA CreateOpens ==
    ASSUME TypeOK, Owned, NEW r \in Requests, NEW u \in Uids, NEW b \in Brains,
           NEW name \in FileNos, NEW pc \in {"put", "copy"}, Create(r, u, b, name, pc)
    PROVE  \E f \in Files :
              /\ name # 0 => f = name
              /\ name = 0 => f \in FreeFiles
              /\ Opened(r, u, b, pc, f)
              /\ staged' = IF pc = "put" THEN [staged EXCEPT ![u] = f] ELSE staged
              /\ tmp' = IF pc = "copy" THEN [tmp EXCEPT ![b] = f] ELSE tmp
<1> DEFINE f == IF name # 0 THEN name ELSE CHOOSE g \in FreeFiles : TRUE
<1>a. f \in Files /\ (name # 0 => f = name) /\ (name = 0 => f \in FreeFiles)
  <2>1. name # 0 => name \in Files
    BY ConstantTypes
  <2>2. FreeFiles \subseteq Files
    BY DEF FreeFiles
  <2>3. name = 0 => FreeFiles # {}
    BY DEF Create
  <2>4. QED
    BY <2>1, <2>2, <2>3
<1>b. /\ file' = [file EXCEPT ![f] = [of |-> {req[q].uid : q \in {q \in Requests \ {r} :
                                     req[q].pc \in {"put", "copy"} /\ req[q].file = f}} \cup {u},
                                      whole |-> FALSE]]
      /\ req' = [q \in Requests |->
                   IF q = r THEN [pc |-> pc, uid |-> u, brain |-> b, file |-> f, intact |-> TRUE]
                   ELSE IF q \in {q1 \in Requests \ {r} :
                                     req[q1].pc \in {"put", "copy"} /\ req[q1].file = f}
                        THEN [req[q] EXCEPT !.intact = FALSE] ELSE req[q]]
      /\ staged' = IF pc = "put" THEN [staged EXCEPT ![u] = f] ELSE staged
      /\ tmp' = IF pc = "copy" THEN [tmp EXCEPT ![b] = f] ELSE tmp
  BY Zenon DEF Create
<1> HIDE DEF f
<1>g. /\ \A g \in Files \ {f} : file'[g] = file[g]
      /\ file'[f] = [of |-> {req[q].uid : q \in {q \in Requests \ {r} :
                                        Writing(q) /\ req[q].file = f}} \cup {u},
                     whole |-> FALSE]
  BY <1>a, <1>b, Zenon DEF TypeOK, Writing
<1>h. /\ req'[r] = [pc |-> pc, uid |-> u, brain |-> b, file |-> f, intact |-> TRUE]
      /\ \A q \in Requests \ {r} :
            /\ Writing(q) /\ req[q].file = f => req'[q] = [req[q] EXCEPT !.intact = FALSE]
            /\ ~(Writing(q) /\ req[q].file = f) => req'[q] = req[q]
  BY <1>b, Zenon DEF Writing
<1> DEFINE uids == {req[q].uid : q \in {q \in Requests \ {r} : Writing(q) /\ req[q].file = f}} \cup {u}
<1>d. DOMAIN file' = Files /\ DOMAIN req' = Requests
      /\ file' = [g \in Files |-> file'[g]] /\ req' = [q \in Requests |-> req'[q]]
  BY DEF Create, TypeOK
<1>2. /\ file'[f].of = uids /\ file'[f].whole = FALSE
  BY <1>g
<1>3. /\ u \in uids
      /\ \A v \in uids : v = u \/ \E q \in Requests \ {r} :
                                     Writing(q) /\ req[q].file = f /\ req[q].uid = v
      /\ \A q \in Requests \ {r} : Writing(q) /\ req[q].file = f => req[q].uid \in uids
  OBVIOUS
<1>t. \A q \in Requests : req[q] \in Req
  BY DEF TypeOK
<1>4. uids \in SUBSET Uids
  BY DEF Owned, Busy, Writing
<1> HIDE DEF uids
<1>5. ASSUME NEW q \in Requests \ {r}
      PROVE  /\ req'[q] \in Req
             /\ req'[q].pc = req[q].pc /\ req'[q].uid = req[q].uid
             /\ req'[q].brain = req[q].brain /\ req'[q].file = req[q].file
  <2>1. req'[q] = req[q] \/ req'[q] = [req[q] EXCEPT !.intact = FALSE]
    BY <1>h
  <2>2. QED
    BY <1>t, <2>1 DEF Req
<1>6. /\ req'[r] \in Req /\ req'[r].pc = pc /\ req'[r].uid = u /\ req'[r].brain = b
      /\ req'[r].file = f /\ req'[r].intact
  <2>1. u \in 0 .. MaxUploads /\ f \in FileNos
    BY <1>a, ConstantTypes
  <2>2. QED
    BY <1>h, <2>1 DEF Req
<1>7. req' \in [Requests -> Req]
  BY <1>d, <1>5, <1>6
<1>8. file' \in [Files -> [of : SUBSET Uids, whole : BOOLEAN]]
  <2>1. file'[f] \in [of : SUBSET Uids, whole : BOOLEAN]
    BY <1>g, <1>4 DEF uids
  <2>2. \A g \in Files \ {f} : file'[g] \in [of : SUBSET Uids, whole : BOOLEAN]
    BY <1>g DEF TypeOK
  <2>3. QED
    BY <1>d, <2>1, <2>2
<1>9. Opened(r, u, b, pc, f)
  BY <1>a, <1>b, <1>g, <1>h, <1>2, <1>3, <1>5, <1>6, <1>7, <1>8 DEF Opened
<1>10. QED
  BY <1>a, <1>b, <1>9

(* The other updates of a handler.                                         *)
LEMMA ReqIdle ==
    ASSUME TypeOK, NEW r \in Requests, req' = [req EXCEPT ![r] = IdleReq]
    PROVE  /\ req' \in [Requests -> Req]
           /\ \A q \in Requests \ {r} : req'[q] = req[q]
           /\ req'[r].pc = "idle" /\ req'[r].file = 0
<1>1. IdleReq \in Req /\ IdleReq.pc = "idle" /\ IdleReq.file = 0
  BY ConstantTypes DEF IdleReq
<1>2. QED
  BY <1>1 DEF TypeOK

LEMMA ReqPc ==
    ASSUME TypeOK, NEW r \in Requests, NEW pc \in {"found", "rename", "remove", "forget"},
           req' = [req EXCEPT ![r].pc = pc]
    PROVE  /\ req' \in [Requests -> Req]
           /\ \A q \in Requests \ {r} : req'[q] = req[q]
           /\ req'[r].pc = pc /\ req'[r].uid = req[r].uid /\ req'[r].brain = req[r].brain
           /\ req'[r].file = req[r].file
  BY DEF TypeOK, Req

LEMMA CopiedFile ==
    ASSUME TypeOK, NEW r \in Requests, req[r].file \in Files, file' = Copied(r)
    PROVE  /\ file' \in [Files -> [of : SUBSET Uids, whole : BOOLEAN]]
           /\ \A f \in Files : /\ file'[f].of = file[f].of
                               /\ file[f].whole => file'[f].whole
           /\ req[r].intact => file'[req[r].file].whole
<1> DEFINE g == req[r].file
<1>1. \A f \in Files : file[f] \in [of : SUBSET Uids, whole : BOOLEAN]
  BY DEF TypeOK
<1>2. req[r].intact \in BOOLEAN
  BY DEF TypeOK, Req
<1>3. /\ [file[g] EXCEPT !.whole = @ \/ req[r].intact] \in [of : SUBSET Uids, whole : BOOLEAN]
      /\ [file[g] EXCEPT !.whole = @ \/ req[r].intact].of = file[g].of
      /\ [file[g] EXCEPT !.whole = @ \/ req[r].intact].whole = (file[g].whole \/ req[r].intact)
  BY <1>1, <1>2
<1>4. /\ \A f \in Files \ {g} : file'[f] = file[f]
      /\ file'[g] = [file[g] EXCEPT !.whole = @ \/ req[r].intact]
      /\ file' = [f \in Files |-> file'[f]]
  BY DEF Copied, TypeOK
<1>5. QED
  BY <1>1, <1>3, <1>4

-----------------------------------------------------------------------------
(* What a step that does not concern a brain, a name or a handler leaves   *)
(* alone.                                                                  *)

(* No file loses bytes, and a whole file stays whole.                      *)
SameBytes == \A f \in Files : file'[f].of = file[f].of /\ (file[f].whole => file'[f].whole)
Kept(f) == f # 0 => file'[f].of = file[f].of /\ (file[f].whole => file'[f].whole)

OwnerKept == \A u \in Uids : owner[u] \in Brains => owner'[u] = owner[u]

(* Handler r is as it was, except for what happened to its file.           *)
Undisturbed(r) ==
    /\ req'[r].pc = req[r].pc /\ req'[r].uid = req[r].uid
    /\ req'[r].brain = req[r].brain /\ req'[r].file = req[r].file

(* Nobody has begun to write.                                              *)
WritersKept == \A q \in Requests : Writing(q)' => Writing(q) /\ Undisturbed(q)

LEMMA NamedFiles ==
    ASSUME TypeOK
    PROVE  /\ \A u \in Uids : staged[u] # 0 => staged[u] \in Files
           /\ \A b \in Brains : tmp[b] # 0 => tmp[b] \in Files
           /\ \A b \in Brains : pending[b] # 0 => pending[b] \in Files
  BY ConstantTypes DEF TypeOK

LEMMA OfBrainKept ==
    ASSUME TypeOK, OwnerKept, NEW f \in Files, NEW b \in Brains, OfBrain(f, b),
           file'[f].of = file[f].of
    PROVE  file'[f].of # {} /\ \A u \in file'[f].of : owner'[u] = b
<1>1. file[f].of \subseteq Uids
  BY DEF TypeOK
<1>2. QED
  BY <1>1 DEF OwnerKept, OfBrain

LEMMA OpenKept ==
    ASSUME TypeOK, Owned, OwnerKept, NEW r \in Requests, OpenAt(r), Undisturbed(r),
           Writing(r) => file'[req[r].file].of = file[req[r].file].of
    PROVE  OpenAt(r)'
<1>1. CASE ~Writing(r)
  BY <1>1 DEF OpenAt, Writing, Undisturbed
<1>2. CASE Writing(r)
  <2>1. req[r].file \in Files /\ req[r].brain \in Brains
    BY <1>2 DEF Owned, Busy, Writing
  <2>2. OfBrain(req[r].file, req[r].brain)
    BY <1>2 DEF OpenAt
  <2>3. /\ file'[req[r].file].of # {}
        /\ \A u \in file'[req[r].file].of : owner'[u] = req[r].brain
    BY <1>2, <2>1, <2>2, OfBrainKept
  <2>4. QED
    BY <1>2, <2>3 DEF OpenAt, Undisturbed, OfBrain, Writing
<1>3. QED
  BY <1>1, <1>2

LEMMA OpenIdle ==
    ASSUME NEW r, ~Writing(r)'
    PROVE  OpenAt(r)'
  BY DEF OpenAt

(* Names may move, as long as what they name is what they may name.        *)
LEMMA BytesKept ==
    ASSUME TypeOK, TypeOK', Owned, Bytes, OwnerKept, SameBytes, WritersKept,
           \A u \in Uids : staged'[u] # 0 => file[staged'[u]].of = {u},
           \A b \in Brains : tmp'[b] # 0 => OfBrain(tmp'[b], b),
           \A b \in Brains : pending'[b] # 0 => OfBrain(pending'[b], b)
    PROVE  Bytes'
<1>1. /\ \A u \in Uids : staged'[u] # 0 => staged'[u] \in Files
      /\ \A b \in Brains : tmp'[b] # 0 => tmp'[b] \in Files
      /\ \A b \in Brains : pending'[b] # 0 => pending'[b] \in Files
  BY NamedFiles, ConstantTypes DEF TypeOK
<1>2. \A f \in Files, b \in Brains : OfBrain(f, b) =>
          file'[f].of # {} /\ \A u \in file'[f].of : owner'[u] = b
  BY OfBrainKept DEF SameBytes
<1>3. NameBytes'
  <2>1. \A u \in Uids : staged'[u] # 0 => file'[staged'[u]].of = {u}
    BY <1>1 DEF SameBytes
  <2>2. QED
    BY <1>1, <1>2, <2>1 DEF NameBytes, OfBrain
<1>4. ASSUME NEW q \in Requests PROVE OpenAt(q)'
  <2>1. CASE ~Writing(q)'
    BY <2>1, OpenIdle
  <2>2. CASE Writing(q)'
    <3>1. Writing(q) /\ Undisturbed(q) /\ OpenAt(q)
      BY <2>2 DEF WritersKept, Bytes
    <3>2. req[q].file \in Files
      BY <3>1 DEF Owned, Busy, Writing
    <3>3. QED
      BY <3>1, <3>2, OpenKept DEF SameBytes
  <2>3. QED
    BY <2>1, <2>2
<1>5. QED
  BY <1>3, <1>4 DEF Bytes

LEMMA PendingKept ==
    ASSUME NEW b \in Brains, PendingOK(b), pending'[b] = pending[b], Kept(pending[b]),
           \A r \in Requests : Writing(r)' /\ req'[r].file = pending[b] =>
                                    Writing(r) /\ req[r].file = pending[b]
    PROVE  PendingOK(b)'
<1>1. CASE pending[b] = 0
  BY <1>1 DEF PendingOK
<1>2. CASE pending[b] # 0
  <2>1. PICK u \in Uids : Has(pending[b], u)
    BY <1>2 DEF PendingOK
  <2>2. Has(pending[b], u)'
    BY <2>1 DEF Has, Kept
  <2>3. \A r \in Requests : Writing(r)' => req'[r].file # pending'[b]
    BY <1>2 DEF PendingOK
  <2>4. QED
    BY <2>2, <2>3 DEF PendingOK
<1>3. QED
  BY <1>1, <1>2

LEMMA LoneKept ==
    ASSUME NEW b \in Brains, LoneAt(b), pending'[b] = pending[b], tmp'[b] = tmp[b],
           Kept(pending[b]), Kept(tmp[b]),
           \A r \in Completing(b)' : /\ r \in Completing(b) /\ Undisturbed(r)
                                     /\ req[r].pc = "copy" => req'[r].intact = req[r].intact /\ tmp[b] # 0,
           \A r \in Requests : Writing(r)' /\ req'[r].file = pending[b] =>
                                    Writing(r) /\ req[r].file = pending[b]
    PROVE  LoneAt(b)'
<1>1. \A r, q \in Completing(b)' : r = q
  BY DEF LoneAt
<1>2. ASSUME NEW r \in Completing(b)'
      PROVE  CompleteOK(r, b)'
  <2>1. CompleteOK(r, b) /\ Undisturbed(r) /\ (req[r].pc = "copy" => req'[r].intact = req[r].intact)
        /\ (req[r].pc = "copy" => file'[tmp[b]].of = file[tmp[b]].of)
    BY <1>2 DEF LoneAt, Kept
  <2>2. QED
    BY <2>1 DEF CompleteOK, Undisturbed, Has, Kept
<1>3. PendingOK(b)'
  BY PendingKept DEF LoneAt
<1>4. QED
  BY <1>1, <1>2, <1>3 DEF LoneAt

(* The download of a lone complete has the name it will rename.            *)
LEMMA CopyNamed ==
    ASSUME TypeOK, Owned, NEW b \in Brains, LoneAt(b)
    PROVE  \A q \in Completing(b) : req[q].pc = "copy" => tmp[b] # 0
  BY ConstantTypes DEF Owned, Busy, Completing, LoneAt, CompleteOK

LEMMA LoneSame ==
    ASSUME TypeOK, Owned, NEW b \in Brains, LoneAt(b), pending'[b] = pending[b],
           tmp'[b] = tmp[b], SameBytes, WritersKept,
           \A q \in Completing(b)' : q \in Completing(b) /\ req'[q] = req[q]
    PROVE  LoneAt(b)'
<1>1. Kept(pending[b]) /\ Kept(tmp[b])
  BY NamedFiles DEF Kept, SameBytes
<1>2. \A r \in Requests : Writing(r)' /\ req'[r].file = pending[b] =>
                               Writing(r) /\ req[r].file = pending[b]
  BY DEF WritersKept, Undisturbed
<1>3. \A r \in Completing(b)' : /\ r \in Completing(b) /\ Undisturbed(r)
                                /\ req[r].pc = "copy" => req'[r].intact = req[r].intact /\ tmp[b] # 0
  BY CopyNamed DEF Undisturbed
<1>4. QED
  BY <1>1, <1>2, <1>3, LoneKept

LEMMA RegisteredKept ==
    ASSUME Registered, uploads \subseteq uploads', raced \subseteq raced',
           \A q \in Requests : req'[q].pc = "found" =>
               req[q].pc = "found" /\ req'[q].uid = req[q].uid /\ req'[q].brain = req[q].brain
    PROVE  Registered'
  BY DEF Registered

-----------------------------------------------------------------------------
(* The invariant, action by action.                                        *)

(* Handlers end, ids are forgotten, time passes.  A restart forgets every  *)
(* id along with the PUTs.                                                 *)
LEMMA QuietStep ==
    ASSUME IInv, req' \in [Requests -> Req], requests' = requests,
           UNCHANGED <<backend, owner, names, file, hist>>,
           uploads' \subseteq uploads, object \subseteq object',
           \A q \in Requests : req'[q] = req[q] \/ (req'[q].pc = "idle" /\ req'[q].file = 0),
           \/ uploads' = {}
           \/ \A q \in Requests : req[q].pc = "put" => req'[q] = req[q],
           Registered'
    PROVE  IInv'
<1> USE DEF IInv, names, hist
<1>1. TypeOK'
  BY DEF TypeOK
<1>2. Names'
  BY DEF Names
<1>3. Owned'
  BY DEF Owned, Busy
<1>w. WritersKept /\ SameBytes /\ OwnerKept
  BY DEF Writing, WritersKept, Undisturbed, SameBytes, OwnerKept
<1>4. Bytes'
  <2>1. NameBytes
    BY DEF Bytes
  <2>2. QED
    BY <1>1, <1>w, <2>1, BytesKept DEF NameBytes
<1>5. StagedOK'
  <2>1. CASE uploads' = {}
    BY <2>1 DEF StagedOK
  <2>2. CASE \A q \in Requests : req[q].pc = "put" => req'[q] = req[q]
    BY <2>2 DEF StagedOK
  <2>3. QED
    BY <2>1, <2>2
<1>6. Lone'
  <2> SUFFICES ASSUME NEW b \in Brains \ raced PROVE LoneAt(b)'
    BY DEF Lone
  <2>1. \A q \in Completing(b)' : q \in Completing(b) /\ req'[q] = req[q]
    BY DEF Completing
  <2>2. QED
    BY <1>w, <2>1, LoneSame DEF Lone
<1>7. Once'
  BY DEF Once
<1>8. AckedIsStored'
  BY DEF AckedIsStored, Holds
<1>9. QED
  BY <1>1, <1>2, <1>3, <1>4, <1>5, <1>6, <1>7, <1>8

(* A new id gets an owner; nothing was known of it.                        *)
LEMMA InitStep ==
    ASSUME IInv, NEW b \in Brains, MergeInit(b)
    PROVE  IInv'
<1> DEFINE n == newUploadID
<1> USE DEF IInv
<1>0. /\ n \in Uids /\ owner[n] = NoBrain
      /\ owner' = [owner EXCEPT ![n] = b] /\ uploads' = uploads \cup {n}
      /\ UNCHANGED <<backend, staged, tmp, pending, file, req, requests, object, acked, retried, raced>>
  BY DEF MergeInit, newUploadID, names, hist
<1> HIDE DEF n
<1>n. NoBrain \notin Brains
  BY MergeAssumption
<1>o. /\ owner' \in [Uids -> Brains \cup {NoBrain}] /\ owner'[n] = b
      /\ \A u \in Uids : owner[u] \in Brains => owner'[u] = owner[u]
      /\ \A u \in Uids \ {n} : owner'[u] = owner[u]
  BY <1>0, <1>n DEF TypeOK
<1>1. TypeOK'
  BY <1>0, <1>o DEF TypeOK
<1>2. Names'
  BY <1>0 DEF Names
<1>3. Owned'
  BY <1>0, <1>o DEF Owned, Busy
<1>w. WritersKept /\ SameBytes /\ OwnerKept
  BY <1>0, <1>o DEF Writing, WritersKept, Undisturbed, SameBytes, OwnerKept
<1>4. Bytes'
  <2>1. NameBytes
    BY DEF Bytes
  <2>2. QED
    BY <1>0, <1>1, <1>w, <2>1, BytesKept DEF NameBytes
<1>5. StagedOK'
  <2>1. staged[n] = 0
    BY <1>0, <1>n DEF Owned
  <2>2. QED
    BY <1>0, <2>1 DEF StagedOK
<1>6. Lone'
  <2> SUFFICES ASSUME NEW c \in Brains \ raced PROVE LoneAt(c)'
    BY <1>0 DEF Lone
  <2>1. \A q \in Completing(c)' : q \in Completing(c) /\ req'[q] = req[q]
    BY <1>0 DEF Completing
  <2>2. QED
    BY <1>0, <1>w, <2>1, LoneSame DEF Lone
<1>7. Once'
  <2>1. \A r \in Requests : req[r].pc = "put" => owner'[req[r].uid] = owner[req[r].uid]
    BY <1>o DEF Owned, Busy
  <2>2. QED
    BY <1>0, <2>1 DEF Once
<1>8. AckedIsStored'
  <2>1. \A u \in acked : u \in Uids /\ owner'[u] = owner[u]
    BY <1>o DEF Owned, TypeOK
  <2>2. QED
    BY <1>0, <2>1 DEF AckedIsStored, Holds
<1>R. Registered'
  BY <1>0, RegisteredKept
<1>9. QED
  BY <1>1, <1>2, <1>3, <1>4, <1>5, <1>6, <1>7, <1>8, <1>R

(* The bucket takes a PUT.                                                 *)
LEMMA PutObjectStep ==
    ASSUME IInv, NEW u \in Uids, PutObject(u)
    PROVE  IInv'
<1> USE DEF IInv
<1>0. /\ UNCHANGED <<backend, owner, uploads, staged, tmp, pending, file, req, retried, raced>>
      /\ object' = object \cup {u} /\ acked' = acked \cup {u} /\ owner[u] # NoBrain
      /\ requests' = requests + 1 /\ backend = "minio"
  BY DEF PutObject, maps, names
<1>1. TypeOK'
  BY <1>0 DEF TypeOK
<1>2. Names' /\ StagedOK'
  BY <1>0 DEF Names, StagedOK
<1>3. Owned'
  <2>1. owner[u] \in Brains
    BY <1>0 DEF TypeOK
  <2>2. QED
    BY <1>0, <2>1 DEF Owned, Busy
<1>w. WritersKept /\ SameBytes /\ OwnerKept
  BY <1>0 DEF Writing, WritersKept, Undisturbed, SameBytes, OwnerKept
<1>4. Bytes'
  <2>1. NameBytes
    BY DEF Bytes
  <2>2. QED
    BY <1>0, <1>1, <1>w, <2>1, BytesKept DEF NameBytes
<1>5. Lone'
  <2> SUFFICES ASSUME NEW c \in Brains \ raced PROVE LoneAt(c)'
    BY <1>0 DEF Lone
  <2>1. \A q \in Completing(c)' : q \in Completing(c) /\ req'[q] = req[q]
    BY <1>0 DEF Completing
  <2>2. QED
    BY <1>0, <1>w, <2>1, LoneSame DEF Lone
<1>6. Once'
  <2>1. \A r \in Requests : req[r].pc # "put"
    BY <1>0 DEF Owned, Busy
  <2>2. QED
    BY <1>0, <2>1 DEF Once
<1>7. AckedIsStored'
  BY <1>0 DEF AckedIsStored, Holds
<1>R. Registered'
  BY <1>0, RegisteredKept
<1>8. QED
  BY <1>1, <1>2, <1>3, <1>4, <1>5, <1>6, <1>7, <1>R

(* A complete begins: the brain has nothing pending, or it races.          *)
LEMMA StatStep ==
    ASSUME IInv, NEW r \in Requests, NEW u \in Uids, NEW b \in Brains, CompleteStat(r, u, b)
    PROVE  IInv'
<1> USE DEF IInv
<1>0. /\ req[r].pc = "idle" /\ pending[b] = 0
      /\ UNCHANGED <<backend, owner, uploads, object, staged, tmp, pending, file, acked, retried>>
      /\ requests' = requests + 1
      /\ raced' = IF Completing(b) # {} THEN raced \cup {b} ELSE raced
  BY DEF CompleteStat, maps, names
<1>r. /\ req' \in [Requests -> Req] /\ \A q \in Requests \ {r} : req'[q] = req[q]
      /\ req'[r].pc = "lookup" /\ req'[r].uid = u /\ req'[r].brain = b /\ req'[r].file = 0
  <2>1. IdleReq \in Req /\ u \in 0 .. MaxUploads
    BY ConstantTypes
  <2>2. /\ [IdleReq EXCEPT !.pc = "lookup", !.uid = u, !.brain = b] \in Req
        /\ [IdleReq EXCEPT !.pc = "lookup", !.uid = u, !.brain = b].file = 0
    BY <2>1 DEF Req, IdleReq
  <2>3. QED
    BY <2>1, <2>2 DEF CompleteStat, TypeOK, Req
<1>1. TypeOK'
  BY <1>0, <1>r DEF TypeOK
<1>2. Names'
  BY <1>0 DEF Names
<1>3. Owned'
  BY <1>0, <1>r DEF Owned, Busy
<1>w. WritersKept /\ SameBytes /\ OwnerKept
  BY <1>0, <1>r DEF Writing, WritersKept, Undisturbed, SameBytes, OwnerKept
<1>4. Bytes'
  <2>1. NameBytes
    BY DEF Bytes
  <2>2. QED
    BY <1>0, <1>1, <1>w, <2>1, BytesKept DEF NameBytes
<1>5. StagedOK'
  BY <1>0, <1>r DEF StagedOK
<1>6. Lone'
  <2> SUFFICES ASSUME NEW c \in Brains \ raced' PROVE LoneAt(c)'
    BY DEF Lone
  <2>1. CASE c # b
    <3>1. \A q \in Completing(c)' : q \in Completing(c) /\ req'[q] = req[q]
      BY <1>r, <2>1 DEF Completing
    <3>2. c \notin raced
      BY <1>0
    <3>3. QED
      BY <1>0, <1>w, <3>1, <3>2, LoneSame DEF Lone
  <2>2. CASE c = b
    <3>1. Completing(b) = {}
      BY <1>0, <2>2
    <3>2. \A q \in Completing(b)' : q = r
      BY <1>r, <3>1 DEF Completing
    <3>3. CompleteOK(r, b)' /\ PendingOK(b)'
      BY <1>0, <1>r DEF CompleteOK, PendingOK
    <3>4. QED
      BY <2>2, <3>2, <3>3 DEF LoneAt
  <2>3. QED
    BY <2>1, <2>2
<1>7. Once'
  BY <1>0, <1>r DEF Once
<1>8. AckedIsStored'
  BY <1>0 DEF AckedIsStored, Holds
<1>R. Registered'
  BY <1>0, <1>r, RegisteredKept
<1>9. QED
  BY <1>1, <1>2, <1>3, <1>4, <1>5, <1>6, <1>7, <1>8, <1>R

(* The id is in the map, and bound to the brain.                           *)
LEMMA LookupStep ==
    ASSUME IInv, NEW r \in Requests, LookupUpload(r)
    PROVE  IInv'
<1> USE DEF IInv
<1>0. /\ req[r].pc = "lookup" /\ req[r].uid \in uploads /\ owner[req[r].uid] = req[r].brain
      /\ req' = [req EXCEPT ![r].pc = "found"]
      /\ UNCHANGED <<backend, owner, uploads, object, names, file, requests, hist>>
  BY DEF LookupUpload, Bound, maps
<1>r. /\ req' \in [Requests -> Req] /\ \A q \in Requests \ {r} : req'[q] = req[q]
      /\ req'[r].pc = "found" /\ req'[r].uid = req[r].uid /\ req'[r].brain = req[r].brain
  BY <1>0, ReqPc
<1>1. TypeOK'
  BY <1>0, <1>r DEF TypeOK, names, hist
<1>2. Names'
  BY <1>0 DEF Names, names
<1>3. Owned'
  BY <1>0, <1>r DEF Owned, Busy, names, hist
<1>w. WritersKept /\ SameBytes /\ OwnerKept
  BY <1>0, <1>r DEF Writing, WritersKept, Undisturbed, SameBytes, OwnerKept
<1>4. Bytes'
  <2>1. NameBytes
    BY DEF Bytes
  <2>2. QED
    BY <1>0, <1>1, <1>w, <2>1, BytesKept DEF NameBytes, names
<1>5. StagedOK'
  BY <1>0, <1>r DEF StagedOK, names
<1>6. Lone'
  <2> SUFFICES ASSUME NEW c \in Brains \ raced PROVE LoneAt(c)'
    BY <1>0 DEF Lone, hist
  <2>0. LoneAt(c)
    BY DEF Lone
  <2>1. \A p, q \in Completing(c)' : p = q
    BY <1>0, <1>r, <2>0 DEF Completing, LoneAt
  <2>2. ASSUME NEW q \in Completing(c)' PROVE CompleteOK(q, c)'
    <3>1. q \in Completing(c) /\ CompleteOK(q, c)
      BY <1>0, <1>r, <2>0, <2>2 DEF Completing, LoneAt
    <3>2. CASE q = r
      BY <1>0, <1>r, <3>1, <3>2 DEF CompleteOK, names
    <3>3. CASE q # r
      BY <1>0, <1>r, <3>1, <3>3 DEF Completing, CompleteOK, Has, names
    <3>4. QED
      BY <3>2, <3>3
  <2>3. PendingOK(c)'
    BY <1>0, <1>r, <2>0 DEF LoneAt, PendingOK, Has, Writing, names
  <2>4. QED
    BY <2>1, <2>2, <2>3 DEF LoneAt
<1>7. Once'
  BY <1>0, <1>r DEF Once, names, hist
<1>R. Registered'
  BY <1>0, <1>r DEF Registered, hist
<1>8. AckedIsStored'
  BY <1>0 DEF AckedIsStored, Holds, names, hist
<1>9. QED
  BY <1>1, <1>2, <1>3, <1>4, <1>5, <1>6, <1>7, <1>8, <1>R

(* A body breaks off: the name of its upload goes.                         *)
LEMMA PutFailsStep ==
    ASSUME IInv, NEW r \in Requests, PutFails(r)
    PROVE  IInv'
<1> DEFINE u == req[r].uid
<1> USE DEF IInv
<1>0. /\ req[r].pc = "put" /\ staged' = [staged EXCEPT ![u] = 0]
      /\ UNCHANGED <<backend, owner, uploads, object, tmp, pending, file, requests, acked, retried, raced>>
  BY DEF PutFails, maps, hist
<1>u. u \in Uids /\ file[req[r].file].of = {u}
  BY <1>0 DEF Owned, Busy, Bytes, OpenAt, Writing
<1>r. /\ req' \in [Requests -> Req] /\ \A q \in Requests \ {r} : req'[q] = req[q]
      /\ req'[r].pc = "idle" /\ req'[r].file = 0
  BY ReqIdle DEF PutFails
<1> HIDE DEF u
<1>s. /\ staged' \in [Uids -> FileNos] /\ staged'[u] = 0
      /\ \A v \in Uids \ {u} : staged'[v] = staged[v]
  BY <1>0, <1>u, ConstantTypes DEF TypeOK
<1>1. TypeOK'
  BY <1>0, <1>r, <1>s DEF TypeOK
<1>2. Names'
  BY <1>0, <1>s DEF Names
<1>3. Owned'
  BY <1>0, <1>r, <1>s DEF Owned, Busy
<1>w. WritersKept /\ SameBytes /\ OwnerKept
  BY <1>0, <1>r DEF Writing, WritersKept, Undisturbed, SameBytes, OwnerKept
<1>4. Bytes'
  <2>1. NameBytes
    BY DEF Bytes
  <2>2. \A v \in Uids : staged'[v] # 0 => file[staged'[v]].of = {v}
    BY <1>s, <2>1 DEF NameBytes
  <2>3. QED
    BY <1>0, <1>1, <1>w, <2>1, <2>2, BytesKept DEF NameBytes
<1>5. StagedOK'
  <2>1. \A v \in Uids \ {u} : staged[v] # 0 => req[r].file # staged[v]
    BY <1>u DEF Bytes, NameBytes
  <2>2. ASSUME NEW v \in uploads, staged'[v] # 0
        PROVE  \/ file[staged[v]].whole
               \/ \E q \in Requests : req'[q].pc = "put" /\ req'[q].file = staged[v] /\ req'[q].intact
    <3>1. v \in Uids \ {u} /\ staged[v] # 0
      BY <1>s, <2>2 DEF TypeOK
    <3>2. QED
      BY <1>r, <2>1, <3>1 DEF StagedOK
  <2>3. \A v \in uploads : staged'[v] # 0 => staged'[v] = staged[v]
    BY <1>s DEF TypeOK
  <2>4. QED
    BY <1>0, <2>2, <2>3 DEF StagedOK
<1>6. Lone'
  <2> SUFFICES ASSUME NEW c \in Brains \ raced PROVE LoneAt(c)'
    BY <1>0 DEF Lone
  <2>1. \A q \in Completing(c)' : q \in Completing(c) /\ req'[q] = req[q]
    BY <1>r DEF Completing
  <2>2. QED
    BY <1>0, <1>w, <2>1, LoneSame DEF Lone
<1>7. Once'
  BY <1>0, <1>r, <1>s DEF Once, u
<1>8. AckedIsStored'
  <2>1. u \in acked => u \in retried
    BY <1>0, <1>u DEF Once, u
  <2>2. QED
    BY <1>0, <1>s, <2>1 DEF AckedIsStored, Holds, TypeOK
<1>R. Registered'
  BY <1>0, <1>r, RegisteredKept
<1>9. QED
  BY <1>1, <1>2, <1>3, <1>4, <1>5, <1>6, <1>7, <1>8, <1>R

(* A file that holds an upload goes on holding it.                         *)
LEMMA HoldsKept ==
    ASSUME TypeOK, SameBytes, NEW f \in FileNos, NEW u, Holds(f, u)
    PROVE  file'[f].whole /\ u \in file'[f].of
  BY ConstantTypes DEF Holds, SameBytes

(* A body has arrived: the PUT is answered, and the file is whole unless   *)
(* another PUT cut it.                                                     *)
LEMMA PutDoneStep ==
    ASSUME IInv, NEW r \in Requests, PutDone(r)
    PROVE  IInv'
<1> DEFINE u == req[r].uid
           f == req[r].file
<1> USE DEF IInv
<1>0. /\ req[r].pc = "put"
      /\ UNCHANGED <<backend, owner, uploads, object, staged, tmp, pending, requests, retried, raced>>
      /\ acked' = acked \cup {u} \/ acked' = acked
  BY DEF PutDone, maps, names
<1>u. u \in Uids /\ f \in Files /\ owner[u] = req[r].brain /\ owner[u] \in Brains
  BY <1>0 DEF Owned, Busy
<1>v. file[f].of = {u}
  BY <1>0 DEF Bytes, OpenAt, Writing
<1>f. /\ file' \in [Files -> [of : SUBSET Uids, whole : BOOLEAN]]
      /\ SameBytes
      /\ req[r].intact => file'[f].whole
  BY <1>u, CopiedFile DEF PutDone, SameBytes
<1>r. /\ req' \in [Requests -> Req] /\ \A q \in Requests \ {r} : req'[q] = req[q]
      /\ req'[r].pc = "idle" /\ req'[r].file = 0
  BY ReqIdle DEF PutDone
<1> HIDE DEF u, f
<1>1. TypeOK'
  BY <1>0, <1>r, <1>u, <1>f DEF TypeOK
<1>2. Names'
  BY <1>0 DEF Names
<1>3. Owned'
  BY <1>0, <1>r, <1>u DEF Owned, Busy
<1>w. WritersKept /\ OwnerKept
  BY <1>0, <1>r DEF Writing, WritersKept, Undisturbed, OwnerKept
<1>4. Bytes'
  <2>1. NameBytes
    BY DEF Bytes
  <2>2. QED
    BY <1>0, <1>1, <1>f, <1>w, <2>1, BytesKept DEF NameBytes
<1>5. StagedOK'
  <2>1. ASSUME NEW v \in uploads, staged[v] # 0
        PROVE  \/ file'[staged[v]].whole
               \/ \E q \in Requests : req'[q].pc = "put" /\ req'[q].file = staged[v] /\ req'[q].intact
    <3>1. v \in Uids /\ staged[v] \in Files
      BY NamedFiles, <2>1 DEF TypeOK
    <3>2. CASE file[staged[v]].whole
      BY <1>f, <3>1, <3>2 DEF SameBytes
    <3>3. ASSUME NEW q \in Requests, req[q].pc = "put", req[q].file = staged[v], req[q].intact
          PROVE  \/ file'[staged[v]].whole
                 \/ \E q1 \in Requests : req'[q1].pc = "put" /\ req'[q1].file = staged[v] /\ req'[q1].intact
      BY <1>f, <1>r, <3>3 DEF f
    <3>4. QED
      BY <2>1, <3>2, <3>3 DEF StagedOK
  <2>2. QED
    BY <1>0, <2>1 DEF StagedOK
<1>6. Lone'
  <2> SUFFICES ASSUME NEW c \in Brains \ raced PROVE LoneAt(c)'
    BY <1>0 DEF Lone
  <2>1. \A q \in Completing(c)' : q \in Completing(c) /\ req'[q] = req[q]
    BY <1>r DEF Completing
  <2>2. QED
    BY <1>0, <1>f, <1>w, <2>1, LoneSame DEF Lone
<1>7. Once'
  BY <1>0, <1>r DEF Once, u
<1>8. AckedIsStored'
  <2> SUFFICES ASSUME NEW v \in acked' \ retried', owner[v] \notin raced, v \notin object
               PROVE  Holds(staged[v], v)' \/ Holds(pending[owner[v]], v)'
    BY <1>0 DEF AckedIsStored
  <2>1. CASE v = u
    <3>1. req[r].intact /\ staged[u] = f
      BY <1>0, <1>u, <2>1 DEF Once, u, f
    <3>2. file'[f].whole /\ u \in file'[f].of /\ f # 0
      BY <1>f, <1>u, <1>v, <3>1, ConstantTypes DEF SameBytes
    <3>3. QED
      BY <1>0, <2>1, <3>1, <3>2 DEF Holds
  <2>2. CASE v # u
    <3>1. v \in acked \ retried /\ v \in Uids /\ owner[v] \in Brains
      BY <1>0, <2>2 DEF Owned, TypeOK
    <3>2. staged[v] \in FileNos /\ pending[owner[v]] \in FileNos
      BY <3>1 DEF TypeOK
    <3>3. Holds(staged[v], v) \/ Holds(pending[owner[v]], v)
      BY <3>1 DEF AckedIsStored
    <3>4. QED
      BY <1>0, <1>f, <3>2, <3>3, HoldsKept DEF Holds
  <2>3. QED
    BY <2>1, <2>2
<1>R. Registered'
  BY <1>0, <1>r, RegisteredKept
<1>9. QED
  BY <1>1, <1>2, <1>3, <1>4, <1>5, <1>6, <1>7, <1>8, <1>R

(* LocalBackend takes the staged tarball: it is whole unless a PUT has it  *)
(* open, which is the race.                                                *)
LEMMA RenameStagedStep ==
    ASSUME IInv, NEW r \in Requests, NEW u, NEW b, NEW f, RenameStaged(r),
           u = req[r].uid, b = req[r].brain, f = staged[u]
    PROVE  IInv'
<1> USE DEF IInv
<1>0. /\ backend = "local" /\ req[r].pc = "found" /\ f # 0
      /\ pending' = [pending EXCEPT ![b] = f] /\ staged' = [staged EXCEPT ![u] = 0]
      /\ req' = [req EXCEPT ![r].pc = "forget"]
      /\ raced' = IF \E q \in Requests : req[q].pc = "put" /\ req[q].file = f
                  THEN raced \cup {b} ELSE raced
      /\ UNCHANGED <<backend, owner, uploads, object, tmp, file, requests, acked, retried>>
  BY DEF RenameStaged, maps
<1>u. u \in Uids /\ b \in Brains /\ owner[u] = b /\ (b \notin raced => u \in uploads)
  BY <1>0 DEF Owned, Registered
<1>r. /\ req' \in [Requests -> Req] /\ \A q \in Requests \ {r} : req'[q] = req[q]
      /\ req'[r].pc = "forget" /\ req'[r].uid = u /\ req'[r].brain = b
  BY <1>0, ReqPc
<1>l. r \in Completing(b) /\ \A q \in Requests : req[q].pc # "copy"
  BY <1>0 DEF Completing, Owned, Busy
<1>f. f \in Files /\ f \in FileNos /\ file[f].of = {u}
  BY <1>0, <1>u, NamedFiles, ConstantTypes DEF Bytes, NameBytes
<1>s. /\ staged' \in [Uids -> FileNos] /\ staged'[u] = 0
      /\ \A v \in Uids \ {u} : staged'[v] = staged[v]
  BY <1>0, <1>u, ConstantTypes DEF TypeOK
<1>p. /\ pending' \in [Brains -> FileNos] /\ pending'[b] = f
      /\ \A c \in Brains \ {b} : pending'[c] = pending[c]
  BY <1>0, <1>u, <1>f DEF TypeOK
<1>1. TypeOK'
  BY <1>0, <1>r, <1>s, <1>p, <1>u DEF TypeOK
<1>2. Names'
  <2>1. /\ \A c \in Brains : tmp[c] # f /\ pending[c] # f
        /\ \A v \in Uids \ {u} : staged[v] # f
    BY <1>0, <1>u DEF Names
  <2>2. \A c, d \in Brains : pending'[c] = pending'[d] /\ pending'[c] # 0 => c = d
    BY <1>p, <2>1 DEF Names
  <2>3. \A v \in Uids, c \in Brains : staged'[v] # 0 => staged'[v] # tmp'[c] /\ staged'[v] # pending'[c]
    BY <1>0, <1>s, <1>p, <2>1 DEF Names
  <2>4. \A c, d \in Brains : tmp'[c] # 0 => tmp'[c] # pending'[d]
    BY <1>0, <1>p, <2>1 DEF Names
  <2>5. \A v, w \in Uids : staged'[v] = staged'[w] /\ staged'[v] # 0 => v = w
    BY <1>s DEF Names
  <2>6. QED
    BY <1>0, <2>2, <2>3, <2>4, <2>5 DEF Names
<1>3. Owned'
  BY <1>0, <1>r, <1>s, <1>u DEF Owned, Busy
<1>w. WritersKept /\ SameBytes /\ OwnerKept
  BY <1>0, <1>r DEF Writing, WritersKept, Undisturbed, SameBytes, OwnerKept
<1>4. Bytes'
  <2>1. NameBytes
    BY DEF Bytes
  <2>2. \A v \in Uids : staged'[v] # 0 => file[staged'[v]].of = {v}
    BY <1>s, <2>1 DEF NameBytes
  <2>3. OfBrain(f, b)
    BY <1>u, <1>f DEF OfBrain
  <2>4. \A c \in Brains : pending'[c] # 0 => OfBrain(pending'[c], c)
    BY <1>p, <2>1, <2>3 DEF NameBytes
  <2>5. QED
    BY <1>0, <1>1, <1>w, <2>1, <2>2, <2>4, BytesKept DEF NameBytes
<1>5. StagedOK'
  <2>1. ASSUME NEW v \in uploads, staged'[v] # 0
        PROVE  \/ file[staged[v]].whole
               \/ \E q \in Requests : req'[q].pc = "put" /\ req'[q].file = staged[v] /\ req'[q].intact
    <3>1. staged[v] # 0
      BY <1>s, <2>1 DEF TypeOK
    <3>2. QED
      BY <1>0, <1>r, <3>1 DEF StagedOK
  <2>2. \A v \in uploads : staged'[v] # 0 => staged'[v] = staged[v]
    BY <1>s DEF TypeOK
  <2>3. QED
    BY <1>0, <2>1, <2>2 DEF StagedOK
<1>6. Lone'
  <2> SUFFICES ASSUME NEW c \in Brains \ raced' PROVE LoneAt(c)'
    BY DEF Lone
  <2>0. LoneAt(c)
    BY <1>0 DEF Lone
  <2>1. CASE c # b
    <3>1. \A q \in Completing(c)' : q \in Completing(c) /\ req'[q] = req[q]
      BY <1>r, <2>1 DEF Completing
    <3>2. QED
      BY <1>0, <1>p, <1>w, <2>0, <2>1, <3>1, LoneSame
  <2>2. CASE c = b
    <3>1. \A q \in Completing(b)' : q = r
      BY <1>l, <1>r, <2>0, <2>2 DEF Completing, LoneAt
    <3>2. CompleteOK(r, b)'
      BY <1>r DEF CompleteOK
    <3>3. \A q \in Requests : Writing(q) => req[q].file # f
      BY <1>0, <1>l, <2>2 DEF Writing
    <3>4. file[f].whole
      BY <1>0, <1>u, <2>2, <3>3 DEF StagedOK, Writing
    <3>5. Has(pending[b], u)'
      BY <1>0, <1>f, <1>p, <3>4 DEF Has
    <3>6. \A q \in Requests : Writing(q)' => req'[q].file # f
      BY <1>w, <3>3 DEF WritersKept, Undisturbed
    <3>7. QED
      BY <1>p, <1>u, <2>2, <3>1, <3>2, <3>5, <3>6 DEF LoneAt, PendingOK
  <2>3. QED
    BY <2>1, <2>2
<1>7. Once'
  <2>1. ASSUME NEW q \in Requests, req'[q].pc = "put", req'[q].uid \in Uids \ retried
        PROVE  /\ req'[q] = req[q]
               /\ staged'[req[q].uid] = req[q].file \/ owner[req[q].uid] \in raced'
    <3>1. req'[q] = req[q]
      BY <1>r, <2>1
    <3>2. staged[req[q].uid] = req[q].file \/ owner[req[q].uid] \in raced
      BY <2>1, <3>1 DEF Once
    <3>3. CASE req[q].uid = u
      BY <1>0, <1>u, <2>1, <3>1, <3>2, <3>3
    <3>4. CASE req[q].uid # u
      BY <1>0, <1>s, <2>1, <3>1, <3>2, <3>4
    <3>5. QED
      BY <3>1, <3>3, <3>4
  <2>2. QED
    BY <1>0, <2>1 DEF Once
<1>8. AckedIsStored'
  <2> SUFFICES ASSUME NEW v \in acked \ retried, owner[v] \notin raced', v \notin object
               PROVE  Holds(staged[v], v)' \/ Holds(pending[owner[v]], v)'
    BY <1>0 DEF AckedIsStored
  <2>1. v \in Uids /\ owner[v] \in Brains \ raced
    BY <1>0 DEF Owned, TypeOK
  <2>2. Holds(staged[v], v) \/ Holds(pending[owner[v]], v)
    BY <2>1 DEF AckedIsStored
  <2>3. owner[v] = b => pending[b] = 0
    BY <1>0, <1>l, <2>1 DEF Lone, LoneAt, CompleteOK
  <2>4. CASE v = u
    BY <1>0, <1>p, <1>u, <2>2, <2>3, <2>4 DEF Holds
  <2>5. CASE v # u
    BY <1>0, <1>p, <1>s, <2>1, <2>2, <2>3, <2>5 DEF Holds
  <2>6. QED
    BY <2>4, <2>5
<1>R. Registered'
  BY <1>0, <1>r, RegisteredKept
<1>9. QED
  BY <1>1, <1>2, <1>3, <1>4, <1>5, <1>6, <1>7, <1>8, <1>R

(* A download has ended: its file is whole unless another one cut it.      *)
LEMMA DownloadDoneStep ==
    ASSUME IInv, NEW r \in Requests, NEW u, NEW b, NEW f, DownloadDone(r),
           u = req[r].uid, b = req[r].brain, f = req[r].file
    PROVE  IInv'
<1> USE DEF IInv
<1>0. /\ req[r].pc = "copy" /\ req' = [req EXCEPT ![r].pc = "rename"]
      /\ UNCHANGED <<backend, owner, uploads, object, staged, tmp, pending, requests, acked,
                     retried, raced>>
  BY DEF DownloadDone, maps, names, hist
<1>u. u \in Uids /\ b \in Brains /\ f \in Files /\ owner[u] = b /\ backend = "minio"
  BY <1>0 DEF Owned, Busy
<1>f. /\ file' \in [Files -> [of : SUBSET Uids, whole : BOOLEAN]]
      /\ SameBytes
      /\ req[r].intact => file'[f].whole
  BY <1>u, CopiedFile DEF DownloadDone, SameBytes
<1>r. /\ req' \in [Requests -> Req] /\ \A q \in Requests \ {r} : req'[q] = req[q]
      /\ req'[r].pc = "rename" /\ req'[r].uid = u /\ req'[r].brain = b /\ req'[r].file = f
  BY <1>0, ReqPc
<1>l. r \in Completing(b) /\ \A q \in Requests : req[q].pc # "put"
  BY <1>0, <1>u DEF Completing, Owned, Busy
<1>1. TypeOK'
  BY <1>0, <1>r, <1>f DEF TypeOK
<1>2. Names'
  BY <1>0 DEF Names
<1>3. Owned'
  BY <1>0, <1>r, <1>u DEF Owned, Busy
<1>w. WritersKept /\ OwnerKept
  BY <1>0, <1>r DEF Writing, WritersKept, Undisturbed, OwnerKept
<1>4. Bytes'
  <2>1. NameBytes
    BY DEF Bytes
  <2>2. QED
    BY <1>0, <1>1, <1>f, <1>w, <2>1, BytesKept DEF NameBytes
<1>5. StagedOK'
  <2>1. \A v \in uploads : staged[v] # 0 => staged[v] \in Files /\ file[staged[v]].whole
    BY <1>l, NamedFiles DEF StagedOK, TypeOK
  <2>2. QED
    BY <1>0, <1>f, <2>1 DEF StagedOK, SameBytes
<1>6. Lone'
  <2> SUFFICES ASSUME NEW c \in Brains \ raced PROVE LoneAt(c)'
    BY <1>0 DEF Lone
  <2>0. LoneAt(c)
    BY DEF Lone
  <2>1. CASE c # b
    <3>1. \A q \in Completing(c)' : q \in Completing(c) /\ req'[q] = req[q]
      BY <1>r, <2>1 DEF Completing
    <3>2. QED
      BY <1>0, <1>f, <1>w, <2>0, <2>1, <3>1, LoneSame
  <2>2. CASE c = b
    <3>1. \A q \in Completing(b)' : q = r
      BY <1>l, <1>r, <2>0, <2>2 DEF Completing, LoneAt
    <3>2. pending[b] = 0 /\ tmp[b] = f /\ file[f].of = {u} /\ req[r].intact
      BY <1>0, <1>l, <2>0, <2>2 DEF LoneAt, CompleteOK
    <3>3. Has(tmp[b], u)'
      BY <1>0, <1>f, <1>u, <3>2, ConstantTypes DEF Has, SameBytes
    <3>4. CompleteOK(r, b)'
      BY <1>0, <1>r, <3>2, <3>3 DEF CompleteOK
    <3>5. PendingOK(b)'
      BY <1>0, <3>2 DEF PendingOK
    <3>6. QED
      BY <2>2, <3>1, <3>4, <3>5 DEF LoneAt
  <2>3. QED
    BY <2>1, <2>2
<1>7. Once'
  <2>1. \A q \in Requests : req'[q].pc # "put"
    BY <1>l, <1>r
  <2>2. QED
    BY <2>1 DEF Once
<1>8. AckedIsStored'
  <2> SUFFICES ASSUME NEW v \in acked \ retried, owner[v] \notin raced, v \notin object
               PROVE  Holds(staged[v], v)' \/ Holds(pending[owner[v]], v)'
    BY <1>0 DEF AckedIsStored
  <2>1. v \in Uids /\ owner[v] \in Brains
    BY DEF Owned, TypeOK
  <2>2. staged[v] \in FileNos /\ pending[owner[v]] \in FileNos
    BY <2>1 DEF TypeOK
  <2>3. Holds(staged[v], v) \/ Holds(pending[owner[v]], v)
    BY DEF AckedIsStored
  <2>4. QED
    BY <1>0, <1>f, <2>2, <2>3, HoldsKept DEF Holds
<1>R. Registered'
  BY <1>0, <1>r, RegisteredKept
<1>9. QED
  BY <1>1, <1>2, <1>3, <1>4, <1>5, <1>6, <1>7, <1>8, <1>R

(* A download breaks: the temporary name goes, and nobody renames it.      *)
LEMMA DownloadFailsStep ==
    ASSUME IInv, NEW r \in Requests, NEW b, DownloadFails(r), b = req[r].brain
    PROVE  IInv'
<1> USE DEF IInv
<1>0. /\ req[r].pc = "copy" /\ req' = [req EXCEPT ![r] = IdleReq]
      /\ tmp' = [tmp EXCEPT ![b] = 0]
      /\ UNCHANGED <<backend, owner, uploads, object, staged, pending, file, requests, acked,
                     retried, raced>>
  BY DEF DownloadFails, maps, hist
<1>u. b \in Brains /\ backend = "minio"
  BY <1>0 DEF Owned, Busy
<1>r. /\ req' \in [Requests -> Req] /\ \A q \in Requests \ {r} : req'[q] = req[q]
      /\ req'[r].pc = "idle" /\ req'[r].file = 0
  BY <1>0, ReqIdle
<1>t. /\ tmp' \in [Brains -> FileNos] /\ tmp'[b] = 0
      /\ \A c \in Brains \ {b} : tmp'[c] = tmp[c]
  BY <1>0, <1>u, ConstantTypes DEF TypeOK
<1>l. r \in Completing(b) /\ \A q \in Requests : req[q].pc # "put"
  BY <1>0, <1>u DEF Completing, Owned, Busy
<1>1. TypeOK'
  BY <1>0, <1>r, <1>t DEF TypeOK
<1>2. Names'
  BY <1>0, <1>t DEF Names
<1>3. Owned'
  BY <1>0, <1>r DEF Owned, Busy
<1>w. WritersKept /\ SameBytes /\ OwnerKept
  BY <1>0, <1>r DEF Writing, WritersKept, Undisturbed, SameBytes, OwnerKept
<1>4. Bytes'
  <2>1. NameBytes
    BY DEF Bytes
  <2>2. \A c \in Brains : tmp'[c] # 0 => OfBrain(tmp'[c], c)
    BY <1>t, <2>1 DEF NameBytes
  <2>3. QED
    BY <1>0, <1>1, <1>w, <2>1, <2>2, BytesKept DEF NameBytes
<1>5. StagedOK'
  BY <1>0, <1>l DEF StagedOK
<1>6. Lone'
  <2> SUFFICES ASSUME NEW c \in Brains \ raced PROVE LoneAt(c)'
    BY <1>0 DEF Lone
  <2>0. LoneAt(c)
    BY DEF Lone
  <2>1. CASE c # b
    <3>1. \A q \in Completing(c)' : q \in Completing(c) /\ req'[q] = req[q]
      BY <1>r DEF Completing
    <3>2. QED
      BY <1>0, <1>t, <1>w, <2>0, <2>1, <3>1, LoneSame
  <2>2. CASE c = b
    <3>1. Completing(b)' = {}
      BY <1>l, <1>r, <2>0, <2>2 DEF Completing, LoneAt
    <3>2. pending[b] = 0
      BY <1>0, <1>l, <2>0, <2>2 DEF LoneAt, CompleteOK
    <3>3. QED
      BY <1>0, <2>2, <3>1, <3>2 DEF LoneAt, PendingOK
  <2>3. QED
    BY <2>1, <2>2
<1>7. Once'
  <2>1. \A q \in Requests : req'[q].pc # "put"
    BY <1>l, <1>r
  <2>2. QED
    BY <2>1 DEF Once
<1>8. AckedIsStored'
  BY <1>0 DEF AckedIsStored, Holds
<1>R. Registered'
  BY <1>0, <1>r, RegisteredKept
<1>9. QED
  BY <1>1, <1>2, <1>3, <1>4, <1>5, <1>6, <1>7, <1>8, <1>R

(* The bytes of a file tell whose handler may be writing it.               *)
LEMMA WriterOf ==
    ASSUME TypeOK, Owned, Bytes, NEW f \in Files, NEW b \in Brains, OfBrain(f, b),
           NEW q \in Requests, Writing(q), req[q].file = f
    PROVE  req[q].brain = b /\ req[q].uid \in Uids /\ owner[req[q].uid] = b
  BY DEF Bytes, OpenAt, OfBrain, Owned, Busy, Writing

(* The temporary name becomes the pending one.  A lone complete renames    *)
(* its own finished download.                                              *)
LEMMA RenameTmpStep ==
    ASSUME IInv, NEW r \in Requests, NEW b, NEW f, RenameTmp(r), b = req[r].brain, f = tmp[b],
           f # 0
    PROVE  IInv'
<1> USE DEF IInv
<1>0. /\ req[r].pc = "rename" /\ req' = [req EXCEPT ![r].pc = "remove"]
      /\ pending' = [pending EXCEPT ![b] = f] /\ tmp' = [tmp EXCEPT ![b] = 0]
      /\ UNCHANGED <<backend, owner, uploads, object, staged, file, requests, acked, retried, raced>>
  BY DEF RenameTmp, maps, hist
<1>u. b \in Brains /\ backend = "minio" /\ req[r].uid \in Uids
  BY <1>0 DEF Owned, Busy
<1>r. /\ req' \in [Requests -> Req] /\ \A q \in Requests \ {r} : req'[q] = req[q]
      /\ req'[r].pc = "remove" /\ req'[r].uid = req[r].uid /\ req'[r].brain = b
      /\ req'[r].file = req[r].file
  BY <1>0, ReqPc
<1>f. f \in Files /\ f \in FileNos /\ OfBrain(f, b)
  BY <1>u, NamedFiles, ConstantTypes DEF Bytes, NameBytes
<1>t. /\ tmp' \in [Brains -> FileNos] /\ tmp'[b] = 0
      /\ \A c \in Brains \ {b} : tmp'[c] = tmp[c]
  BY <1>0, <1>u, ConstantTypes DEF TypeOK
<1>p. /\ pending' \in [Brains -> FileNos] /\ pending'[b] = f
      /\ \A c \in Brains \ {b} : pending'[c] = pending[c]
  BY <1>0, <1>u, <1>f DEF TypeOK
<1>l. r \in Completing(b) /\ \A q \in Requests : req[q].pc # "put"
  BY <1>0, <1>u DEF Completing, Owned, Busy
<1>1. TypeOK'
  BY <1>0, <1>r, <1>t, <1>p DEF TypeOK
<1>2. Names'
  <2>1. /\ \A c \in Brains : pending[c] # f /\ (c # b => tmp[c] # f)
        /\ \A v \in Uids : staged[v] # f
    BY <1>0, <1>u DEF Names
  <2>2. \A c, d \in Brains : pending'[c] = pending'[d] /\ pending'[c] # 0 => c = d
    BY <1>p, <2>1 DEF Names
  <2>3. \A v \in Uids, c \in Brains : staged'[v] # 0 => staged'[v] # tmp'[c] /\ staged'[v] # pending'[c]
    BY <1>0, <1>t, <1>p, <2>1 DEF Names
  <2>4. \A c, d \in Brains : tmp'[c] # 0 => tmp'[c] # pending'[d]
    BY <1>t, <1>p, <2>1 DEF Names
  <2>5. \A c, d \in Brains : tmp'[c] = tmp'[d] /\ tmp'[c] # 0 => c = d
    BY <1>t DEF Names
  <2>6. QED
    BY <1>0, <2>2, <2>3, <2>4, <2>5 DEF Names
<1>3. Owned'
  BY <1>0, <1>r DEF Owned, Busy
<1>w. WritersKept /\ SameBytes /\ OwnerKept
  BY <1>0, <1>r DEF Writing, WritersKept, Undisturbed, SameBytes, OwnerKept
<1>4. Bytes'
  <2>1. NameBytes
    BY DEF Bytes
  <2>2. \A c \in Brains : tmp'[c] # 0 => OfBrain(tmp'[c], c)
    BY <1>t, <2>1 DEF NameBytes
  <2>3. \A c \in Brains : pending'[c] # 0 => OfBrain(pending'[c], c)
    BY <1>p, <1>f, <2>1 DEF NameBytes
  <2>4. QED
    BY <1>0, <1>1, <1>w, <2>1, <2>2, <2>3, BytesKept DEF NameBytes
<1>5. StagedOK'
  BY <1>0, <1>l DEF StagedOK
<1>6. Lone'
  <2> SUFFICES ASSUME NEW c \in Brains \ raced PROVE LoneAt(c)'
    BY <1>0 DEF Lone
  <2>0. LoneAt(c)
    BY DEF Lone
  <2>1. CASE c # b
    <3>1. \A q \in Completing(c)' : q \in Completing(c) /\ req'[q] = req[q]
      BY <1>r, <2>1 DEF Completing
    <3>2. QED
      BY <1>0, <1>t, <1>p, <1>w, <2>0, <2>1, <3>1, LoneSame
  <2>2. CASE c = b
    <3>1. \A q \in Completing(b)' : q = r
      BY <1>l, <1>r, <2>0, <2>2 DEF Completing, LoneAt
    <3>2. file[f].of = {req[r].uid} /\ file[f].whole
      BY <1>0, <1>l, <2>0, <2>2 DEF LoneAt, CompleteOK, Has
    <3>3. \A q \in Requests : Writing(q)' => req'[q].file # f
      <4>1. SUFFICES ASSUME NEW q \in Requests, Writing(q), req[q].file = f PROVE FALSE
        BY <1>w DEF WritersKept, Undisturbed
      <4>2. q \in Completing(b)
        BY <1>f, <1>u, <1>l, <4>1, WriterOf DEF Completing, Writing
      <4>3. QED
        BY <1>0, <1>l, <2>0, <2>2, <4>1, <4>2 DEF LoneAt, Writing
    <3>4. /\ Has(pending[b], req[r].uid)'
          /\ \E v \in Uids : Has(pending[b], v)'
      BY <1>0, <1>p, <1>r, <1>u, <3>2 DEF Has
    <3>5. CompleteOK(r, b)'
      BY <1>r, <3>4 DEF CompleteOK
    <3>6. PendingOK(b)'
      BY <1>p, <3>3, <3>4 DEF PendingOK
    <3>7. QED
      BY <2>2, <3>1, <3>5, <3>6 DEF LoneAt
  <2>3. QED
    BY <2>1, <2>2
<1>7. Once'
  <2>1. \A q \in Requests : req'[q].pc # "put"
    BY <1>l, <1>r
  <2>2. QED
    BY <2>1 DEF Once
<1>8. AckedIsStored'
  <2> SUFFICES ASSUME NEW v \in acked \ retried, owner[v] \notin raced, v \notin object
               PROVE  Holds(staged[v], v)' \/ Holds(pending[owner[v]], v)'
    BY <1>0 DEF AckedIsStored
  <2>1. v \in Uids /\ owner[v] \in Brains \ raced
    BY DEF Owned, TypeOK
  <2>2. Holds(staged[v], v) \/ Holds(pending[owner[v]], v)
    BY <2>1 DEF AckedIsStored
  <2>3. owner[v] = b => pending[b] = 0
    BY <1>0, <1>l, <2>1 DEF Lone, LoneAt, CompleteOK
  <2>4. QED
    BY <1>0, <1>p, <2>1, <2>2, <2>3 DEF Holds
<1>R. Registered'
  BY <1>0, <1>r, RegisteredKept
<1>9. QED
  BY <1>1, <1>2, <1>3, <1>4, <1>5, <1>6, <1>7, <1>8, <1>R

(* The object is dropped once its bytes are pending.                       *)
LEMMA RemoveObjectStep ==
    ASSUME IInv, NEW r \in Requests, NEW u, NEW b, RemoveObject(r), u = req[r].uid,
           b = req[r].brain
    PROVE  IInv'
<1> USE DEF IInv
<1>0. /\ req[r].pc = "remove" /\ req' = [req EXCEPT ![r].pc = "forget"]
      /\ object' = object \ {u} \/ object' = object
      /\ UNCHANGED <<backend, owner, uploads, staged, tmp, pending, file, requests, acked,
                     retried, raced>>
  BY DEF RemoveObject, maps, names, hist
<1>u. u \in Uids /\ b \in Brains /\ owner[u] = b /\ backend = "minio"
  BY <1>0 DEF Owned, Busy
<1>r. /\ req' \in [Requests -> Req] /\ \A q \in Requests \ {r} : req'[q] = req[q]
      /\ req'[r].pc = "forget" /\ req'[r].uid = u /\ req'[r].brain = b
  BY <1>0, ReqPc
<1>l. r \in Completing(b) /\ \A q \in Requests : req[q].pc # "put"
  BY <1>0, <1>u DEF Completing, Owned, Busy
<1>1. TypeOK'
  BY <1>0, <1>r DEF TypeOK
<1>2. Names' /\ StagedOK'
  BY <1>0, <1>l DEF Names, StagedOK
<1>3. Owned'
  BY <1>0, <1>r, <1>u DEF Owned, Busy
<1>w. WritersKept /\ SameBytes /\ OwnerKept
  BY <1>0, <1>r DEF Writing, WritersKept, Undisturbed, SameBytes, OwnerKept
<1>4. Bytes'
  <2>1. NameBytes
    BY DEF Bytes
  <2>2. QED
    BY <1>0, <1>1, <1>w, <2>1, BytesKept DEF NameBytes
<1>5. Lone'
  <2> SUFFICES ASSUME NEW c \in Brains \ raced PROVE LoneAt(c)'
    BY <1>0 DEF Lone
  <2>0. LoneAt(c)
    BY DEF Lone
  <2>1. CASE c # b
    <3>1. \A q \in Completing(c)' : q \in Completing(c) /\ req'[q] = req[q]
      BY <1>r, <2>1 DEF Completing
    <3>2. QED
      BY <1>0, <1>w, <2>0, <3>1, LoneSame
  <2>2. CASE c = b
    <3>1. \A q \in Completing(b)' : q = r
      BY <1>l, <1>r, <2>0, <2>2 DEF Completing, LoneAt
    <3>2. CompleteOK(r, b)'
      BY <1>r DEF CompleteOK
    <3>3. PendingOK(b)'
      BY <1>0, <1>w, <2>0, <2>2, NamedFiles, PendingKept
         DEF LoneAt, Kept, SameBytes, WritersKept, Undisturbed
    <3>4. QED
      BY <2>2, <3>1, <3>2, <3>3 DEF LoneAt
  <2>3. QED
    BY <2>1, <2>2
<1>6. Once'
  <2>1. \A q \in Requests : req'[q].pc # "put"
    BY <1>l, <1>r
  <2>2. QED
    BY <2>1 DEF Once
<1>7. AckedIsStored'
  <2> SUFFICES ASSUME NEW v \in acked \ retried, owner[v] \notin raced, v \notin object'
               PROVE  Holds(staged[v], v) \/ Holds(pending[owner[v]], v)
    BY <1>0 DEF AckedIsStored, Holds
  <2>1. CASE v = u
    <3>1. Has(pending[b], u)
      BY <1>0, <1>l, <1>u, <2>1 DEF Lone, LoneAt, CompleteOK
    <3>2. QED
      BY <1>u, <2>1, <3>1 DEF Has, Holds
  <2>2. CASE v # u
    BY <1>0, <2>2 DEF AckedIsStored
  <2>3. QED
    BY <2>1, <2>2
<1>R. Registered'
  BY <1>0, <1>r, RegisteredKept
<1>8. QED
  BY <1>1, <1>2, <1>3, <1>4, <1>5, <1>6, <1>7, <1>R

(* A PUT begins.  Only PUTs of the same upload can have its file open.     *)
LEMMA PutOpenStep ==
    ASSUME IInv, NEW r \in Requests, NEW u \in Uids, NEW b, PutOpen(r, u), b = owner[u]
    PROVE  IInv'
<1> USE DEF IInv
<1>0. /\ backend = "local" /\ req[r].pc = "idle" /\ u \in uploads
      /\ requests' = requests + 1
      /\ Create(r, u, b, staged[u], "put")
      /\ retried' = IF u \in acked \/ \E q \in Requests : req[q].pc = "put" /\ req[q].uid = u
                    THEN retried \cup {u} ELSE retried
      /\ UNCHANGED <<backend, owner, uploads, object, pending, acked, raced>>
  BY DEF PutOpen, maps
<1>b. b \in Brains /\ staged[u] \in FileNos
  BY <1>0 DEF Owned, TypeOK
<1>c. PICK f \in Files :
        /\ staged[u] # 0 => f = staged[u]
        /\ staged[u] = 0 => f \in FreeFiles
        /\ Opened(r, u, b, "put", f)
        /\ staged' = [staged EXCEPT ![u] = f] /\ tmp' = tmp
  BY <1>0, <1>b, CreateOpens
<1>l. \A q \in Requests : req[q].pc \notin {"copy", "rename", "remove"}
  BY <1>0 DEF Owned, Busy
<1>f. f \in FileNos /\ f # 0
  BY ConstantTypes
<1>n. /\ \A v \in Uids \ {u} : staged[v] # f
      /\ \A c \in Brains : tmp[c] # f /\ pending[c] # f
  BY <1>c, <1>f DEF Names, FreeFiles
(* Who has the file open is another PUT of u.                              *)
<1>v. \A q \in Requests \ {r} : Writing(q) /\ req[q].file = f => req[q].pc = "put" /\ req[q].uid = u
  <2>1. SUFFICES ASSUME NEW q \in Requests \ {r}, Writing(q), req[q].file = f
                 PROVE  req[q].pc = "put" /\ req[q].uid = u
    OBVIOUS
  <2>2. req[q].pc = "put" /\ file[f].of = {req[q].uid}
    BY <1>l, <2>1 DEF Bytes, OpenAt, Writing
  <2>3. staged[u] = f
    BY <1>c, <2>1 DEF FreeFiles
  <2>4. file[f].of = {u}
    BY <1>f, <2>3 DEF Bytes, NameBytes
  <2>5. QED
    BY <2>2, <2>4
<1>o. /\ file' \in [Files -> [of : SUBSET Uids, whole : BOOLEAN]]
      /\ req' \in [Requests -> Req]
      /\ \A g \in Files \ {f} : file'[g] = file[g]
      /\ req'[r].pc = "put" /\ req'[r].uid = u /\ req'[r].brain = b /\ req'[r].file = f
      /\ req'[r].intact
      /\ \A q \in Requests \ {r} : Undisturbed(q)
      /\ \A q \in Requests \ {r} : ~(Writing(q) /\ req[q].file = f) => req'[q] = req[q]
  BY <1>c DEF Opened, Undisturbed
<1>g. file'[f].of = {u}
  BY <1>c, <1>v DEF Opened
<1>s. /\ staged' \in [Uids -> FileNos] /\ staged'[u] = f
      /\ \A v \in Uids \ {u} : staged'[v] = staged[v]
  BY <1>c, <1>f DEF TypeOK
<1>1. TypeOK'
  <2>1. requests' \in Nat /\ retried' \subseteq Uids
    BY <1>0 DEF TypeOK
  <2>2. QED
    BY <1>0, <1>c, <1>o, <1>s, <2>1 DEF TypeOK
<1>2. Names'
  <2>1. \A v \in Uids, c \in Brains : staged'[v] # 0 => staged'[v] # tmp'[c] /\ staged'[v] # pending'[c]
    BY <1>0, <1>c, <1>s, <1>n DEF Names
  <2>2. \A v, w \in Uids : staged'[v] = staged'[w] /\ staged'[v] # 0 => v = w
    BY <1>s, <1>n DEF Names
  <2>3. QED
    BY <1>0, <1>c, <2>1, <2>2 DEF Names
<1>3. Owned'
  <2>1. \A q \in Requests : Busy(q)' =>
          /\ req'[q].uid \in Uids /\ req'[q].brain \in Brains /\ req'[q].file \in Files
          /\ owner'[req'[q].uid] = req'[q].brain
          /\ backend' = IF req'[q].pc = "put" THEN "local" ELSE "minio"
    BY <1>0, <1>b, <1>o DEF Owned, Busy, Undisturbed
  <2>2. \A q \in Requests : /\ req'[q].pc \in {"lookup", "found", "forget"} =>
                                 /\ req'[q].uid \in Uids /\ req'[q].brain \in Brains
                                 /\ req'[q].pc # "lookup" => owner'[req'[q].uid] = req'[q].brain
                            /\ req'[q].pc = "idle" => req'[q].file = 0
    BY <1>0, <1>o DEF Owned, Undisturbed
  <2>3. \A v \in Uids : (staged'[v] # 0 \/ v \in acked' \cup uploads') => owner'[v] \in Brains
    BY <1>0, <1>b, <1>s DEF Owned
  <2>4. QED
    BY <2>1, <2>2, <2>3 DEF Owned
<1>4. Bytes'
  <2>1. NameBytes
    BY DEF Bytes
  <2>2. \A v \in Uids : staged'[v] # 0 => file'[staged'[v]].of = {v}
    <3>1. SUFFICES ASSUME NEW v \in Uids, staged'[v] # 0
                   PROVE  file'[staged'[v]].of = {v}
      OBVIOUS
    <3>2. CASE v = u
      BY <1>g, <1>s, <3>2
    <3>3. CASE v # u
      <4>1. staged'[v] = staged[v] /\ staged[v] # f
        BY <1>n, <1>s, <3>3
      <4>2. staged[v] \in Files /\ file[staged[v]].of = {v}
        BY <2>1, <3>1, <4>1, NamedFiles DEF NameBytes
      <4>3. QED
        BY <1>o, <4>1, <4>2
    <3>4. QED
      BY <3>2, <3>3
  <2>3. \A c \in Brains : /\ tmp'[c] # 0 => file'[tmp'[c]] = file[tmp[c]]
                          /\ pending'[c] # 0 => file'[pending'[c]] = file[pending[c]]
    BY <1>0, <1>c, <1>n, <1>o, NamedFiles
  <2>4. NameBytes'
    BY <1>0, <1>c, <2>1, <2>2, <2>3 DEF NameBytes, OfBrain
  <2>5. ASSUME NEW q \in Requests PROVE OpenAt(q)'
    <3>1. CASE q = r
      BY <1>0, <1>g, <1>o, <3>1 DEF OpenAt, OfBrain
    <3>2. CASE q # r /\ Writing(q) /\ req[q].file = f
      <4>1. owner[u] = req[q].brain /\ req'[q].uid = u
        BY <1>o, <1>v, <3>2 DEF Owned, Busy, Writing, Undisturbed
      <4>2. QED
        BY <1>0, <1>g, <1>o, <3>2, <4>1 DEF OpenAt, OfBrain, Undisturbed
    <3>3. CASE q # r /\ ~(Writing(q) /\ req[q].file = f)
      <4>1. Undisturbed(q) /\ OpenAt(q) /\ OwnerKept
        BY <1>0, <1>o, <3>3 DEF OwnerKept, Bytes
      <4>2. Writing(q) => file'[req[q].file].of = file[req[q].file].of
        BY <1>o, <3>3 DEF Owned, Busy, Writing
      <4>3. QED
        BY <4>1, <4>2, OpenKept
    <3>4. QED
      BY <3>1, <3>2, <3>3
  <2>6. QED
    BY <2>4, <2>5 DEF Bytes
<1>5. StagedOK'
  <2> SUFFICES ASSUME NEW v \in uploads, staged'[v] # 0
               PROVE  \/ file'[staged'[v]].whole
                      \/ \E q \in Requests : req'[q].pc = "put" /\ req'[q].file = staged'[v] /\ req'[q].intact
    BY <1>0 DEF StagedOK
  <2>1. CASE v = u
    BY <1>o, <1>s, <2>1
  <2>2. CASE v # u
    <3>1. v \in Uids \ {u} /\ staged'[v] = staged[v] /\ staged[v] # f /\ staged[v] \in Files
      BY <1>n, <1>s, <2>2, NamedFiles DEF TypeOK
    <3>2. CASE file[staged[v]].whole
      BY <1>o, <3>1, <3>2
    <3>3. ASSUME NEW q \in Requests, req[q].pc = "put", req[q].file = staged[v], req[q].intact
          PROVE  req'[q] = req[q]
      BY <1>0, <1>o, <3>1, <3>3
    <3>4. QED
      BY <3>1, <3>2, <3>3 DEF StagedOK
  <2>3. QED
    BY <2>1, <2>2
<1>6. Lone'
  <2> SUFFICES ASSUME NEW c \in Brains \ raced PROVE LoneAt(c)'
    BY <1>0 DEF Lone
  <2>0. LoneAt(c) /\ tmp'[c] = tmp[c] /\ pending'[c] = pending[c]
    BY <1>0, <1>c DEF Lone
  <2>1. Kept(pending[c]) /\ Kept(tmp[c])
    BY <1>n, <1>o, NamedFiles DEF Kept
  <2>2. \A q \in Completing(c)' : q \in Completing(c) /\ Undisturbed(q) /\ req[q].pc # "copy"
    BY <1>l, <1>o DEF Completing, Undisturbed
  <2>3. \A q \in Requests : Writing(q)' /\ req'[q].file = pending[c] =>
                                 Writing(q) /\ req[q].file = pending[c]
    BY <1>n, <1>o DEF Writing, Undisturbed
  <2>4. QED
    BY <2>0, <2>1, <2>2, <2>3, LoneKept
<1>7. Once'
  <2> SUFFICES ASSUME NEW v \in Uids \ retried'
               PROVE  /\ \A p, q \in Requests : req'[p].pc = "put" /\ req'[q].pc = "put"
                                                /\ req'[p].uid = v /\ req'[q].uid = v => p = q
                      /\ \A q \in Requests : req'[q].pc = "put" /\ req'[q].uid = v =>
                            /\ v \notin acked' /\ req'[q].intact
                            /\ staged'[v] = req'[q].file \/ owner'[v] \in raced'
    BY DEF Once
  <2>0. v \in Uids \ retried
    BY <1>0
  <2>1. CASE v = u
    <3>1. u \notin acked /\ \A q \in Requests : ~(req[q].pc = "put" /\ req[q].uid = u)
      BY <1>0, <2>1
    <3>2. \A q \in Requests : req'[q].pc = "put" /\ req'[q].uid = u => q = r
      BY <1>o, <3>1 DEF Undisturbed
    <3>3. QED
      BY <1>0, <1>o, <1>s, <2>1, <3>1, <3>2
  <2>2. CASE v # u
    <3>1. \A q \in Requests : req'[q].pc = "put" /\ req'[q].uid = v => q # r /\ req'[q] = req[q]
      BY <1>o, <1>v, <2>2 DEF Undisturbed
    <3>2. QED
      BY <1>0, <1>s, <2>0, <2>2, <3>1 DEF Once
  <2>3. QED
    BY <2>1, <2>2
<1>8. AckedIsStored'
  <2> SUFFICES ASSUME NEW v \in acked \ retried', owner[v] \notin raced, v \notin object
               PROVE  Holds(staged[v], v)' \/ Holds(pending[owner[v]], v)'
    BY <1>0 DEF AckedIsStored
  <2>1. v \in Uids \ {u} /\ owner[v] \in Brains /\ v \notin retried
    BY <1>0 DEF Owned, TypeOK
  <2>2. Holds(staged[v], v) \/ Holds(pending[owner[v]], v)
    BY <2>1 DEF AckedIsStored
  <2>3. /\ staged[v] # 0 => file'[staged[v]] = file[staged[v]]
        /\ pending[owner[v]] # 0 => file'[pending[owner[v]]] = file[pending[owner[v]]]
    BY <1>n, <1>o, <2>1, NamedFiles
  <2>4. QED
    BY <1>0, <1>s, <2>1, <2>2, <2>3 DEF Holds
<1>R. Registered'
  BY <1>0, <1>o, RegisteredKept DEF Undisturbed
<1>9. QED
  BY <1>1, <1>2, <1>3, <1>4, <1>5, <1>6, <1>7, <1>8, <1>R

(* A download begins.  Only downloads of the same brain can have its       *)
(* temporary file open, and a lone complete has none beside it.            *)
LEMMA DownloadOpenStep ==
    ASSUME IInv, NEW r \in Requests, NEW u, NEW b, DownloadOpen(r), u = req[r].uid,
           b = req[r].brain
    PROVE  IInv'
<1> USE DEF IInv
<1>0. /\ backend = "minio" /\ req[r].pc = "found"
      /\ Create(r, u, b, tmp[b], "copy")
      /\ UNCHANGED <<backend, owner, uploads, object, pending, requests, acked, retried, raced>>
  BY DEF DownloadOpen, maps, hist
<1>b. u \in Uids /\ b \in Brains /\ owner[u] = b /\ tmp[b] \in FileNos
  BY <1>0 DEF Owned, TypeOK
<1>c. PICK f \in Files :
        /\ tmp[b] # 0 => f = tmp[b]
        /\ tmp[b] = 0 => f \in FreeFiles
        /\ Opened(r, u, b, "copy", f)
        /\ tmp' = [tmp EXCEPT ![b] = f] /\ staged' = staged
  BY <1>0, <1>b, CreateOpens
<1>l. r \in Completing(b) /\ \A q \in Requests : req[q].pc # "put"
  BY <1>0 DEF Completing, Owned, Busy
<1>f. f \in FileNos /\ f # 0
  BY ConstantTypes
<1>n. /\ \A v \in Uids : staged[v] # f
      /\ \A c \in Brains : pending[c] # f /\ (c # b => tmp[c] # f)
  BY <1>b, <1>c, <1>f DEF Names, FreeFiles
(* Who has the file open is another complete of b.                         *)
<1>v. \A q \in Requests \ {r} : Writing(q) /\ req[q].file = f =>
          req[q].brain = b /\ req[q].uid \in Uids /\ owner[req[q].uid] = b
  <2>1. SUFFICES ASSUME NEW q \in Requests \ {r}, Writing(q), req[q].file = f
                 PROVE  req[q].brain = b /\ req[q].uid \in Uids /\ owner[req[q].uid] = b
    OBVIOUS
  <2>2. tmp[b] = f
    BY <1>c, <2>1 DEF FreeFiles
  <2>3. OfBrain(f, b)
    BY <1>b, <1>f, <2>2 DEF Bytes, NameBytes
  <2>4. QED
    BY <1>b, <2>1, <2>3, WriterOf
<1>o. /\ file' \in [Files -> [of : SUBSET Uids, whole : BOOLEAN]]
      /\ req' \in [Requests -> Req]
      /\ \A g \in Files \ {f} : file'[g] = file[g]
      /\ req'[r].pc = "copy" /\ req'[r].uid = u /\ req'[r].brain = b /\ req'[r].file = f
      /\ req'[r].intact
      /\ \A q \in Requests \ {r} : Undisturbed(q)
      /\ \A q \in Requests \ {r} : ~(Writing(q) /\ req[q].file = f) => req'[q] = req[q]
      /\ \A q \in Requests \ {r} : Writing(q) /\ req[q].file = f => req[q].uid \in file'[f].of
  BY <1>c DEF Opened, Undisturbed
<1>g. u \in file'[f].of /\ \A v \in file'[f].of : owner'[v] = b
  BY <1>0, <1>b, <1>c, <1>v DEF Opened
<1>t. /\ tmp' \in [Brains -> FileNos] /\ tmp'[b] = f
      /\ \A c \in Brains \ {b} : tmp'[c] = tmp[c]
  BY <1>b, <1>c, <1>f DEF TypeOK
<1>1. TypeOK'
  BY <1>0, <1>c, <1>o, <1>t DEF TypeOK
<1>2. Names'
  <2>1. \A v \in Uids, c \in Brains : staged'[v] # 0 => staged'[v] # tmp'[c] /\ staged'[v] # pending'[c]
    BY <1>0, <1>c, <1>t, <1>n DEF Names
  <2>2. \A c, d \in Brains : tmp'[c] = tmp'[d] /\ tmp'[c] # 0 => c = d
    BY <1>t, <1>n DEF Names
  <2>3. \A c, d \in Brains : tmp'[c] # 0 => tmp'[c] # pending'[d]
    BY <1>0, <1>t, <1>n DEF Names
  <2>4. QED
    BY <1>0, <1>c, <2>1, <2>2, <2>3 DEF Names
<1>3. Owned'
  <2>1. \A q \in Requests : Busy(q)' =>
          /\ req'[q].uid \in Uids /\ req'[q].brain \in Brains /\ req'[q].file \in Files
          /\ owner'[req'[q].uid] = req'[q].brain
          /\ backend' = IF req'[q].pc = "put" THEN "local" ELSE "minio"
    BY <1>0, <1>b, <1>o DEF Owned, Busy, Undisturbed
  <2>2. \A q \in Requests : /\ req'[q].pc \in {"lookup", "found", "forget"} =>
                                 /\ req'[q].uid \in Uids /\ req'[q].brain \in Brains
                                 /\ req'[q].pc # "lookup" => owner'[req'[q].uid] = req'[q].brain
                            /\ req'[q].pc = "idle" => req'[q].file = 0
    BY <1>0, <1>o DEF Owned, Undisturbed
  <2>3. QED
    BY <1>0, <1>c, <2>1, <2>2 DEF Owned
<1>4. Bytes'
  <2>1. NameBytes
    BY DEF Bytes
  <2>2. \A v \in Uids : staged'[v] # 0 => file'[staged'[v]].of = {v}
    <3>1. \A v \in Uids : staged[v] # 0 => file'[staged[v]] = file[staged[v]]
      BY <1>n, <1>o, NamedFiles
    <3>2. QED
      BY <1>c, <2>1, <3>1 DEF NameBytes
  <2>3. \A c \in Brains : /\ c # b /\ tmp[c] # 0 => file'[tmp[c]] = file[tmp[c]]
                          /\ pending[c] # 0 => file'[pending[c]] = file[pending[c]]
    BY <1>n, <1>o, NamedFiles
  <2>4. \A c \in Brains : tmp'[c] # 0 => /\ file'[tmp'[c]].of # {}
                                         /\ \A v \in file'[tmp'[c]].of : owner'[v] = c
    BY <1>0, <1>g, <1>t, <2>1, <2>3 DEF NameBytes, OfBrain
  <2>5. \A c \in Brains : pending'[c] # 0 => /\ file'[pending'[c]].of # {}
                                             /\ \A v \in file'[pending'[c]].of : owner'[v] = c
    BY <1>0, <2>1, <2>3 DEF NameBytes, OfBrain
  <2>6. NameBytes'
    BY <2>2, <2>4, <2>5 DEF NameBytes, OfBrain
  <2>7. ASSUME NEW q \in Requests PROVE OpenAt(q)'
    <3>1. CASE q = r
      BY <1>g, <1>o, <3>1 DEF OpenAt, OfBrain
    <3>2. CASE q # r /\ Writing(q) /\ req[q].file = f
      <4>1. req'[q].brain = b /\ req'[q].uid \in file'[f].of /\ req'[q].pc # "put"
        BY <1>l, <1>o, <1>v, <3>2 DEF Undisturbed
      <4>2. QED
        BY <1>g, <1>o, <3>2, <4>1 DEF OpenAt, OfBrain, Undisturbed
    <3>3. CASE q # r /\ ~(Writing(q) /\ req[q].file = f)
      <4>1. Undisturbed(q) /\ OpenAt(q) /\ OwnerKept
        BY <1>0, <1>o, <3>3 DEF OwnerKept, Bytes
      <4>2. Writing(q) => file'[req[q].file].of = file[req[q].file].of
        BY <1>o, <3>3 DEF Owned, Busy, Writing
      <4>3. QED
        BY <4>1, <4>2, OpenKept
    <3>4. QED
      BY <3>1, <3>2, <3>3
  <2>8. QED
    BY <2>6, <2>7 DEF Bytes
<1>5. StagedOK'
  <2>1. \A v \in uploads : staged[v] # 0 => file[staged[v]].whole /\ file'[staged[v]] = file[staged[v]]
    BY <1>l, <1>n, <1>o, NamedFiles DEF StagedOK, TypeOK
  <2>2. QED
    BY <1>0, <1>c, <2>1 DEF StagedOK
<1>6. Lone'
  <2> SUFFICES ASSUME NEW c \in Brains \ raced PROVE LoneAt(c)'
    BY <1>0 DEF Lone
  <2>0. LoneAt(c)
    BY DEF Lone
  <2>1. CASE c # b
    <3>1. Kept(pending[c]) /\ Kept(tmp[c])
      BY <1>n, <1>o, <2>1, NamedFiles DEF Kept
    <3>2. \A q \in Completing(c)' : q \in Completing(c) /\ q # r /\ Undisturbed(q)
      BY <1>o, <2>1 DEF Completing, Undisturbed
    <3>3. \A q \in Completing(c) : req[q].pc = "copy" => tmp[c] # 0 /\ req[q].file = tmp[c]
      BY <2>0, CopyNamed DEF LoneAt, CompleteOK
    <3>4. \A q \in Completing(c)' : req[q].pc = "copy" => req'[q].intact = req[q].intact
      BY <1>n, <1>o, <2>1, <3>2, <3>3 DEF Completing
    <3>5. \A q \in Requests : Writing(q)' /\ req'[q].file = pending[c] =>
                                   Writing(q) /\ req[q].file = pending[c]
      BY <1>n, <1>o DEF Writing, Undisturbed
    <3>6. QED
      BY <1>0, <1>t, <2>0, <2>1, <3>1, <3>2, <3>3, <3>4, <3>5, LoneKept
  <2>2. CASE c = b
    <3>1. \A q \in Completing(b)' : q = r
      BY <1>l, <1>o, <2>0, <2>2 DEF Completing, LoneAt, Undisturbed
    <3>2. pending[b] = 0
      BY <1>0, <1>l, <2>0, <2>2 DEF LoneAt, CompleteOK
    <3>3. \A q \in Requests \ {r} : ~(Writing(q) /\ req[q].file = f)
      BY <1>l, <1>v, <2>0, <2>2 DEF Completing, LoneAt, Writing
    <3>4. file'[f].of = {u}
      BY <1>c, <3>3 DEF Opened
    <3>5. CompleteOK(r, b)' /\ PendingOK(b)'
      BY <1>0, <1>o, <1>t, <3>2, <3>4 DEF CompleteOK, PendingOK
    <3>6. QED
      BY <2>2, <3>1, <3>5 DEF LoneAt
  <2>3. QED
    BY <2>1, <2>2
<1>7. Once'
  <2>1. \A q \in Requests : req'[q].pc # "put"
    BY <1>l, <1>o DEF Undisturbed
  <2>2. QED
    BY <2>1 DEF Once
<1>8. AckedIsStored'
  <2> SUFFICES ASSUME NEW v \in acked \ retried, owner[v] \notin raced, v \notin object
               PROVE  Holds(staged[v], v)' \/ Holds(pending[owner[v]], v)'
    BY <1>0 DEF AckedIsStored
  <2>1. v \in Uids /\ owner[v] \in Brains
    BY DEF Owned, TypeOK
  <2>2. Holds(staged[v], v) \/ Holds(pending[owner[v]], v)
    BY DEF AckedIsStored
  <2>3. /\ staged[v] # 0 => file'[staged[v]] = file[staged[v]]
        /\ pending[owner[v]] # 0 => file'[pending[owner[v]]] = file[pending[owner[v]]]
    BY <1>n, <1>o, <2>1, NamedFiles
  <2>4. QED
    BY <1>0, <1>c, <2>2, <2>3 DEF Holds
<1>R. Registered'
  BY <1>0, <1>o, RegisteredKept DEF Undisturbed
<1>9. QED
  BY <1>1, <1>2, <1>3, <1>4, <1>5, <1>6, <1>7, <1>8, <1>R

-----------------------------------------------------------------------------
LEMMA IInvInit == Init => IInv
<1> SUFFICES ASSUME Init PROVE IInv
  OBVIOUS
<1> USE DEF Init
<1>i. \A r \in Requests : req[r].pc = "idle" /\ req[r].file = 0
  BY DEF IdleReq
<1>n. NoBrain \notin Brains
  BY MergeAssumption
<1>1. TypeOK
  <2>1. backend \in {"local", "minio"}
    BY MergeAssumption
  <2>2. req \in [Requests -> Req] /\ file \in [Files -> [of : SUBSET Uids, whole : BOOLEAN]]
    BY ConstantTypes
  <2>3. QED
    BY <2>1, <2>2, ConstantTypes DEF TypeOK
<1>2. Names /\ Owned
  BY <1>i DEF Names, Owned, Busy
<1>3. Bytes
  BY <1>i DEF Bytes, NameBytes, OpenAt, Writing
<1>4. StagedOK /\ Once /\ Registered /\ AckedIsStored
  BY <1>i DEF StagedOK, Once, Registered, AckedIsStored
<1>5. Lone
  BY <1>i DEF Lone, LoneAt, Completing, PendingOK
<1>6. QED
  BY <1>1, <1>2, <1>3, <1>4, <1>5 DEF IInv

LEMMA ServeStep ==
    ASSUME IInv, NEW r \in Requests, Serve(r)
    PROVE  IInv'
<1> USE DEF IInv
<1>1. ASSUME NEW u \in Uids, PutOpen(r, u) PROVE IInv'
  BY <1>1, PutOpenStep
<1>2. ASSUME NEW u \in Uids, NEW b \in Brains, CompleteStat(r, u, b) PROVE IInv'
  BY <1>2, StatStep
<1>3. CASE PutDone(r)
  BY <1>3, PutDoneStep
<1>4. CASE PutFails(r)
  BY <1>4, PutFailsStep
<1>5. CASE Refuse(r)
  <2>1. /\ req[r].pc \in {"lookup", "found"} /\ req' = [req EXCEPT ![r] = IdleReq]
        /\ UNCHANGED <<backend, owner, uploads, object, names, file, requests, hist>>
    BY <1>5 DEF Refuse, maps
  <2>2. Registered'
    BY <2>1, ReqIdle, RegisteredKept DEF hist
  <2>3. QED
    BY <2>1, <2>2, ReqIdle, QuietStep
<1>6. CASE RenameStaged(r)
  BY <1>6, RenameStagedStep
<1>7. CASE DownloadOpen(r)
  BY <1>7, DownloadOpenStep
<1>8. CASE DownloadDone(r)
  BY <1>8, DownloadDoneStep
<1>9. CASE DownloadFails(r)
  BY <1>9, DownloadFailsStep
<1>10. CASE RenameTmp(r)
  <2>1. CASE tmp[req[r].brain] = 0
    <3>1. /\ req[r].pc = "rename" /\ req' = [req EXCEPT ![r] = IdleReq]
          /\ UNCHANGED <<backend, owner, uploads, object, names, file, requests, hist>>
      BY <1>10, <2>1 DEF RenameTmp, maps, names
    <3>2. Registered'
      BY <3>1, ReqIdle, RegisteredKept DEF hist
    <3>3. QED
      BY <3>1, <3>2, ReqIdle, QuietStep
  <2>2. CASE tmp[req[r].brain] # 0
    BY <1>10, <2>2, RenameTmpStep
  <2>3. QED
    BY <2>1, <2>2
<1>11. CASE RemoveObject(r)
  BY <1>11, RemoveObjectStep
<1>12. CASE Forget(r)
  <2>1. /\ req[r].pc = "forget" /\ req' = [req EXCEPT ![r] = IdleReq]
        /\ uploads' \subseteq uploads
        /\ UNCHANGED <<backend, owner, object, names, file, requests, hist>>
    BY <1>12 DEF Forget
  <2>2. ASSUME NEW q \in Requests, req'[q].pc = "found", req[q].brain \notin raced
        PROVE  req'[q] = req[q] /\ req[q].uid \in uploads'
    <3>1. q # r /\ req'[q] = req[q] /\ req[q].uid \in uploads
      BY <2>1, <2>2, ReqIdle DEF Registered
    <3>2. ASSUME req[q].uid = req[r].uid PROVE FALSE
      <4>1. req[q].brain = req[r].brain /\ req[q].brain \in Brains \ raced
        BY <2>1, <2>2, <3>1, <3>2 DEF Owned
      <4>2. q \in Completing(req[q].brain) /\ r \in Completing(req[q].brain)
        BY <2>1, <2>2, <3>1, <4>1 DEF Completing
      <4>3. QED
        BY <3>1, <4>1, <4>2 DEF Lone, LoneAt
    <3>3. QED
      BY <1>12, <3>1, <3>2 DEF Forget
  <2>3. Registered'
    <3>1. \A q \in Requests : req'[q].pc = "found" => req'[q] = req[q]
      BY <2>1, ReqIdle
    <3>2. QED
      BY <2>1, <2>2, <3>1 DEF Registered, hist
  <2>4. QED
    BY <2>1, <2>3, ReqIdle, QuietStep
<1>13. CASE LookupUpload(r)
  BY <1>13, LookupStep
<1>14. QED
  BY <1>13, <1>1, <1>2, <1>3, <1>4, <1>5, <1>6, <1>7, <1>8, <1>9, <1>10, <1>11, <1>12 DEF Serve

LEMMA IInvStep == IInv /\ [Next]_vars => IInv'
<1> SUFFICES ASSUME IInv, [Next]_vars PROVE IInv'
  OBVIOUS
<1>t. req \in [Requests -> Req]
  BY DEF IInv, TypeOK
<1>1. ASSUME NEW b \in Brains, MergeInit(b) PROVE IInv'
  BY <1>1, InitStep
<1>2. ASSUME NEW on \in BOOLEAN, SetMaintenance(on) PROVE IInv'
  <2>1. UNCHANGED <<backend, owner, uploads, object, names, file, req, requests, hist>>
    BY <1>2 DEF SetMaintenance
  <2>2. Registered'
    BY <2>1, RegisteredKept DEF IInv, hist
  <2>3. QED
    BY <1>t, <2>1, <2>2, QuietStep
<1>3. ASSUME NEW u \in Uids, PutObject(u) PROVE IInv'
  BY <1>3, PutObjectStep
<1>4. ASSUME NEW u \in Uids, Expire(u) PROVE IInv'
  <2>1. UNCHANGED <<backend, owner, uploads, object, names, file, req, requests, hist>>
    BY <1>4 DEF Expire
  <2>2. Registered'
    BY <2>1, RegisteredKept DEF IInv, hist
  <2>3. QED
    BY <1>t, <2>1, <2>2, QuietStep
<1>5. ASSUME NEW r \in Requests, Serve(r) PROVE IInv'
  BY <1>5, ServeStep
<1>6. CASE Restart
  <2>1. /\ uploads' = {} /\ req' = [r \in Requests |-> IdleReq]
        /\ UNCHANGED <<backend, owner, object, names, file, requests, hist>>
    BY <1>6 DEF Restart
  <2>2. /\ req' \in [Requests -> Req]
        /\ \A q \in Requests : req'[q].pc = "idle" /\ req'[q].file = 0
    BY <2>1, ConstantTypes DEF IdleReq
  <2>3. Registered'
    BY <2>2 DEF Registered
  <2>4. QED
    BY <2>1, <2>2, <2>3, QuietStep
<1>7. CASE UNCHANGED vars
  <2>1. UNCHANGED <<backend, owner, uploads, object, names, file, req, requests, hist>>
    BY <1>7 DEF vars, maps
  <2>2. Registered'
    BY <2>1, RegisteredKept DEF IInv, hist
  <2>3. QED
    BY <1>t, <2>1, <2>2, QuietStep
<1>8. QED
  BY <1>1, <1>2, <1>3, <1>4, <1>5, <1>6, <1>7 DEF Next

-----------------------------------------------------------------------------
(* The results.                                                            *)

(* Types, names, bytes and the lone completes are as the code means them,  *)
(* in every reachable state.                                               *)
THEOREM MergeInvariant == Spec => []IInv
  BY IInvInit, IInvStep, PTL DEF Spec

(* Whatever overlaps, _pending/<brain_id>.tar holds bytes of that brain's  *)
(* uploads only (CompleteUpload's binding check).                          *)
THEOREM OwnTarballHolds == Spec => []OwnTarball
<1>1. IInv => OwnTarball
  BY DEF IInv, Bytes, NameBytes, OfBrain, OwnTarball
<1>2. QED
  BY <1>1, MergeInvariant, PTL

(* What the reaper finds for a brain that did not race is one whole        *)
(* tarball (CompleteUpload downloads to a temporary name).                 *)
THEOREM PendingIsWholeHolds == Spec => []PendingIsWhole
<1>1. IInv => PendingIsWhole
  <2> SUFFICES ASSUME IInv, NEW b \in Brains \ raced, pending[b] # 0
               PROVE  file[pending[b]].whole /\ Cardinality(file[pending[b]].of) = 1
    BY DEF PendingIsWhole
  <2>1. PICK u \in Uids : Has(pending[b], u)
    BY DEF IInv, Lone, LoneAt, PendingOK
  <2>2. Cardinality({u}) = 1
    BY FS_Singleton
  <2>3. QED
    BY <2>1, <2>2 DEF Has
<1>2. QED
  BY <1>1, MergeInvariant, PTL

(* An acknowledged upload that was not sent again is whole somewhere:      *)
(* RemoveObject and the renames never drop the last copy (AcceptUpload,    *)
(* CompleteUpload).                                                        *)
THEOREM AckedIsStoredHolds == Spec => []AckedIsStored
<1>1. IInv => AckedIsStored
  BY DEF IInv
<1>2. QED
  BY <1>1, MergeInvariant, PTL

(* A tarball in _pending is not replaced (the 409 of handleMergeComplete). *)
THEOREM PendingIsKeptHolds == Spec => PendingIsKept
<1>1. IInv /\ [Next]_vars =>
        [\A b \in Brains \ raced' : pending[b] # 0 => pending'[b] = pending[b]]_vars
  <2> SUFFICES ASSUME IInv, Next, NEW b \in Brains \ raced', pending[b] # 0
               PROVE  pending'[b] = pending[b]
    OBVIOUS
  <2>1. ASSUME NEW r \in Requests, RenameStaged(r)
        PROVE  pending'[b] = pending[b]
    <3>1. /\ pending' = [pending EXCEPT ![req[r].brain] = staged[req[r].uid]]
          /\ b \notin raced /\ req[r].pc = "found"
      BY <2>1 DEF RenameStaged
    <3>2. CASE req[r].brain = b
      BY <3>1, <3>2 DEF IInv, Lone, LoneAt, CompleteOK, Completing
    <3>3. CASE req[r].brain # b
      BY <3>1, <3>3 DEF IInv, TypeOK
    <3>4. QED
      BY <3>2, <3>3
  <2>2. ASSUME NEW r \in Requests, RenameTmp(r)
        PROVE  pending'[b] = pending[b]
    <3>1. /\ \/ pending' = pending
             \/ pending' = [pending EXCEPT ![req[r].brain] = tmp[req[r].brain]]
          /\ b \notin raced /\ req[r].pc = "rename"
      BY <2>2 DEF RenameTmp, hist
    <3>2. CASE req[r].brain = b
      BY <3>1, <3>2 DEF IInv, Lone, LoneAt, CompleteOK, Completing
    <3>3. CASE req[r].brain # b
      BY <3>1, <3>3 DEF IInv, TypeOK
    <3>4. QED
      BY <3>2, <3>3
  <2>3. CASE UNCHANGED pending
    BY <2>3
  <2>4. ASSUME NEW r \in Requests, Serve(r)
        PROVE  pending'[b] = pending[b]
    BY <2>1, <2>2, <2>3, <2>4 DEF Serve, PutOpen, CompleteStat, PutDone, PutFails,
       LookupUpload, Refuse,
       DownloadOpen, DownloadDone, DownloadFails, RemoveObject, Forget, names
  <2>5. QED
    BY <2>3, <2>4 DEF Next, MergeInit, SetMaintenance, PutObject, Expire, Restart, names
<1>2. QED
  BY <1>1, MergeInvariant, PTL DEF Spec, PendingIsKept
=============================================================================
