---------------------------- MODULE MergeUpload ----------------------------
(***************************************************************************)
(* The death-payload upload of one vault: /merge/init hands out an upload  *)
(* id, the brain PUTs its tarball, /merge/complete moves the tarball to    *)
(* brains/_pending/<brain_id>.tar.  LocalBackend receives the PUT itself;  *)
(* with MinIOBackend it goes to S3 and complete downloads it through       *)
(* <brain_id>.tar.tmp.                                                     *)
(*                                                                         *)
(* Requests are concurrent: a client that timed out sends its PUT or its   *)
(* complete again while the first is still served.  Names and files are    *)
(* kept apart, because a handler goes on writing the file it opened after  *)
(* the name has been renamed or removed.  The token of the URL (HMAC of    *)
(* the id) only fails on expiry or after a restart, which is modelled.     *)
(***************************************************************************)
EXTENDS Naturals, FiniteSets

CONSTANTS
    Brains,      \* brain ids
    Backends,    \* the configured backends to consider
    MaxUploads,  \* bound: upload ids handed out
    Requests,    \* request handlers
    MaxRequests, \* bound: PUT and complete requests
    MaxFaults    \* bound: broken bodies and downloads, restarts, expiries

NoBrain == "none"

ASSUME MergeAssumption ==
    /\ NoBrain \notin Brains
    /\ Backends \subseteq {"local", "minio"}
    /\ MaxUploads \in Nat /\ MaxRequests \in Nat /\ MaxFaults \in Nat

Uids == 1 .. MaxUploads
\* A file is named by a number; 0 is no file.
Files == 1 .. MaxRequests

VARIABLES
    backend,
    owner,       \* upload id -> the brain that asked for it
    uploads,     \* ids in the backend's map: registered and not completed
    expired,     \* ids past their TTL
    maintenance, \* maintenance.flag
    object,      \* ids whose tarball is in the bucket
    staged,      \* _uploads/<id>.tar -> file
    tmp,         \* _pending/<brain>.tar.tmp -> file
    pending,     \* _pending/<brain>.tar -> file
    file,        \* file -> [of: uploads whose bytes it has, whole]
    req,         \* request handlers
    requests, faults, \* how much of each bound is used
    acked,       \* history: ids whose PUT was answered 200
    retried,     \* history: ids PUT again while a PUT ran or after it was acked
    raced        \* history: brains whose file was opened twice, or whose two
                 \* completes overlapped

maps  == <<backend, owner, uploads, expired, maintenance>>
names == <<staged, tmp, pending>>
hist  == <<acked, retried, raced>>
vars  == <<maps, object, names, file, req, requests, faults, hist>>

NoFile == [of |-> {}, whole |-> FALSE]
IdleReq == [pc |-> "idle", uid |-> 0, brain |-> NoBrain, file |-> 0, intact |-> TRUE]

Init ==
    /\ backend \in Backends
    /\ owner = [u \in Uids |-> NoBrain]
    /\ uploads = {} /\ expired = {} /\ maintenance = FALSE /\ object = {}
    /\ staged = [u \in Uids |-> 0]
    /\ tmp = [b \in Brains |-> 0] /\ pending = [b \in Brains |-> 0]
    /\ file = [f \in Files |-> NoFile]
    /\ req = [r \in Requests |-> IdleReq]
    /\ requests = 0 /\ faults = 0
    /\ acked = {} /\ retried = {} /\ raced = {}

\* newUploadID: an id nobody has.
newUploadID == CHOOSE u \in Uids : owner[u] = NoBrain

\* The completes of a brain under way.
Completing(b) == {r \in Requests : req[r].pc \notin {"idle", "put"} /\ req[r].brain = b}

-----------------------------------------------------------------------------
(* /merge/init and the maintenance flag.                                   *)

\* handleMergeInit with NewUpload and RegisterUpload; refused in maintenance.
MergeInit(b) ==
    /\ ~maintenance
    /\ \E u \in Uids : owner[u] = NoBrain
    /\ owner' = [owner EXCEPT ![newUploadID] = b]
    /\ uploads' = uploads \cup {newUploadID}
    /\ UNCHANGED <<backend, expired, maintenance, object, names, file, req, requests,
                   faults, hist>>

\* handleMaintenance: enter and exit; both are idempotent.
SetMaintenance(on) ==
    /\ maintenance # on
    /\ maintenance' = on
    /\ UNCHANGED <<backend, owner, uploads, expired, object, names, file, req, requests,
                   faults, hist>>

-----------------------------------------------------------------------------
(* PUT.                                                                    *)

\* Files without a name that no handler has open.  A request creates at most
\* one, so they do not run out.
FreeFiles == {g \in Files : /\ \A u \in Uids : staged[u] # g
                            /\ \A b \in Brains : tmp[b] # g /\ pending[b] # g
                            /\ \A r \in Requests : req[r].file # g}

\* os.Create: the file of that name, emptied, or a new one.  Handlers that
\* have it open keep writing at their own offset.
Create(r, u, b, name, pc) ==
    LET f == IF name # 0 THEN name ELSE CHOOSE g \in FreeFiles : TRUE
        sharing == {q \in Requests \ {r} : req[q].pc \in {"put", "copy"} /\ req[q].file = f}
    IN
    /\ name # 0 \/ FreeFiles # {}
    /\ file' = [file EXCEPT ![f] = [of |-> {req[q].uid : q \in sharing} \cup {u},
                                    whole |-> FALSE]]
    /\ req' = [q \in Requests |->
                 IF q = r THEN [pc |-> pc, uid |-> u, brain |-> b, file |-> f, intact |-> TRUE]
                 ELSE IF q \in sharing THEN [req[q] EXCEPT !.intact = FALSE] ELSE req[q]]
    /\ staged' = IF pc = "put" THEN [staged EXCEPT ![u] = f] ELSE staged
    /\ tmp' = IF pc = "copy" THEN [tmp EXCEPT ![b] = f] ELSE tmp

\* io.Copy has reached the end of its source.
Copied(r) == [file EXCEPT ![req[r].file].whole = @ \/ req[r].intact]

\* handleMergeUpload: VerifyToken, LookupUpload, AcceptUpload up to os.Create.
PutOpen(r, u) ==
    /\ backend = "local" /\ req[r].pc = "idle" /\ requests < MaxRequests
    /\ u \in uploads /\ u \notin expired
    /\ requests' = requests + 1
    /\ Create(r, u, owner[u], staged[u], "put")
    /\ retried' = IF u \in acked \/ \E q \in Requests : req[q].pc = "put" /\ req[q].uid = u
                  THEN retried \cup {u} ELSE retried
    /\ UNCHANGED <<maps, object, pending, faults, acked, raced>>

\* AcceptUpload: copied, within MaxTarballBytes and synced: answered 200.  If
\* the sync fails the answer is an error and the file stays.
PutDone(r) ==
    /\ req[r].pc = "put"
    /\ file' = Copied(r)
    /\ \/ acked' = acked \cup {req[r].uid} /\ UNCHANGED faults
       \/ faults < MaxFaults /\ faults' = faults + 1 /\ UNCHANGED acked
    /\ req' = [req EXCEPT ![r] = IdleReq]
    /\ UNCHANGED <<maps, object, names, requests, retried, raced>>

\* The body breaks off or is too long: the NAME is removed, whatever is there.
PutFails(r) ==
    /\ req[r].pc = "put" /\ faults < MaxFaults
    /\ faults' = faults + 1
    /\ staged' = [staged EXCEPT ![req[r].uid] = 0]
    /\ req' = [req EXCEPT ![r] = IdleReq]
    /\ UNCHANGED <<maps, object, tmp, pending, file, requests, hist>>

\* With MinIO the PUT is the bucket's: all or nothing, until the URL expires.
PutObject(u) ==
    /\ backend = "minio" /\ requests < MaxRequests
    /\ owner[u] # NoBrain /\ u \notin expired /\ u \notin object
    /\ requests' = requests + 1
    /\ object' = object \cup {u}
    /\ acked' = acked \cup {u}
    /\ UNCHANGED <<maps, names, file, req, faults, retried, raced>>

-----------------------------------------------------------------------------
(* /merge/complete.                                                        *)

\* Mutant: a tarball already in _pending is not looked for.
CompleteNoStat(r, u, b) ==
    /\ req[r].pc = "idle" /\ requests < MaxRequests
    /\ requests' = requests + 1
    /\ req' = [req EXCEPT ![r] = [IdleReq EXCEPT !.pc = "lookup", !.uid = u, !.brain = b]]
    /\ raced' = IF Completing(b) # {} THEN raced \cup {b} ELSE raced
    /\ UNCHANGED <<maps, object, names, file, faults, acked, retried>>

\* handleMergeComplete: 409 if the brain already has a tarball in _pending.
CompleteStat(r, u, b) ==
    /\ req[r].pc = "idle" /\ requests < MaxRequests
    /\ requests' = requests + 1
    /\ pending[b] = 0
    /\ req' = [req EXCEPT ![r] = [IdleReq EXCEPT !.pc = "lookup", !.uid = u, !.brain = b]]
    /\ raced' = IF Completing(b) # {} THEN raced \cup {b} ELSE raced
    /\ UNCHANGED <<maps, object, names, file, faults, acked, retried>>

\* Mutant: the brain of the request is not compared with the upload's.
BoundAny(u, b) == u \in uploads

\* CompleteUpload refuses an id it does not know or one of another brain.
Bound(u, b) == u \in uploads /\ owner[u] = b

\* LookupUpload, under the backend's lock, and the binding check.
LookupUpload(r) ==
    /\ req[r].pc = "lookup" /\ Bound(req[r].uid, req[r].brain)
    /\ req' = [req EXCEPT ![r].pc = "found"]
    /\ UNCHANGED <<maps, object, names, file, requests, faults, hist>>

\* The id is refused, or LocalBackend finds nothing staged under it.
Refuse(r) ==
    /\ \/ req[r].pc = "lookup" /\ ~Bound(req[r].uid, req[r].brain)
       \/ req[r].pc = "found" /\ backend = "local" /\ staged[req[r].uid] = 0
    /\ req' = [req EXCEPT ![r] = IdleReq]
    /\ UNCHANGED <<maps, object, names, file, requests, faults, hist>>

\* LocalBackend.CompleteUpload: rename the staged tarball into _pending.
RenameStaged(r) ==
    LET u == req[r].uid
        b == req[r].brain
    IN
    /\ backend = "local" /\ req[r].pc = "found" /\ staged[u] # 0
    /\ pending' = [pending EXCEPT ![b] = staged[u]]
    /\ staged' = [staged EXCEPT ![u] = 0]
    /\ req' = [req EXCEPT ![r].pc = "forget"]
    /\ raced' = IF \E q \in Requests : req[q].pc = "put" /\ req[q].file = staged[u]
                THEN raced \cup {b} ELSE raced
    /\ UNCHANGED <<maps, object, tmp, file, requests, faults, acked, retried>>

\* Mutant: the download goes straight to _pending.
DownloadInPlace(r) ==
    LET u == req[r].uid
        b == req[r].brain
    IN
    /\ backend = "minio" /\ req[r].pc = "found"
    /\ Create(r, u, b, tmp[b], "copy")
    /\ pending' = [pending EXCEPT ![b] = req'[r].file]
    /\ UNCHANGED <<maps, object, requests, faults, hist>>

\* MinIOBackend.CompleteUpload: the temporary file is created ...
DownloadOpen(r) ==
    LET u == req[r].uid
        b == req[r].brain
    IN
    /\ backend = "minio" /\ req[r].pc = "found"
    /\ Create(r, u, b, tmp[b], "copy")
    /\ UNCHANGED <<maps, object, pending, requests, faults, hist>>

\* ... filled from the object ...
DownloadDone(r) ==
    /\ req[r].pc = "copy" /\ req[r].uid \in object
    /\ file' = Copied(r)
    /\ req' = [req EXCEPT ![r].pc = "rename"]
    /\ UNCHANGED <<maps, object, names, requests, faults, hist>>

\* Mutant: the object is removed whether or not the download succeeded.
DownloadFailsDrops(r) ==
    /\ req[r].pc = "copy"
    /\ \/ req[r].uid \notin object /\ UNCHANGED faults
       \/ faults < MaxFaults /\ faults' = faults + 1
    /\ tmp' = [tmp EXCEPT ![req[r].brain] = 0]
    /\ object' = object \ {req[r].uid}
    /\ req' = [req EXCEPT ![r] = IdleReq]
    /\ UNCHANGED <<maps, staged, pending, file, requests, hist>>

\* ... or, when there is no object or the stream breaks, removed by name ...
DownloadFails(r) ==
    /\ req[r].pc = "copy"
    /\ \/ req[r].uid \notin object /\ UNCHANGED faults
       \/ faults < MaxFaults /\ faults' = faults + 1
    /\ tmp' = [tmp EXCEPT ![req[r].brain] = 0]
    /\ req' = [req EXCEPT ![r] = IdleReq]
    /\ UNCHANGED <<maps, object, staged, pending, file, requests, hist>>

\* ... and renamed.  Another complete may have taken the name: an error.
RenameTmp(r) ==
    LET b == req[r].brain IN
    /\ req[r].pc = "rename"
    /\ IF tmp[b] = 0
       THEN /\ req' = [req EXCEPT ![r] = IdleReq]
            /\ UNCHANGED <<pending, tmp>>
       ELSE /\ pending' = [pending EXCEPT ![b] = tmp[b]]
            /\ tmp' = [tmp EXCEPT ![b] = 0]
            /\ req' = [req EXCEPT ![r].pc = "remove"]
    /\ UNCHANGED <<maps, object, staged, file, requests, faults, hist>>

\* RemoveObject, best effort.
RemoveObject(r) ==
    /\ req[r].pc = "remove"
    /\ \/ object' = object \ {req[r].uid} /\ UNCHANGED faults
       \/ faults < MaxFaults /\ faults' = faults + 1 /\ UNCHANGED object
    /\ req' = [req EXCEPT ![r].pc = "forget"]
    /\ UNCHANGED <<maps, names, file, requests, hist>>

\* The id leaves the map and the request is answered 200.
Forget(r) ==
    /\ req[r].pc = "forget"
    /\ uploads' = uploads \ {req[r].uid}
    /\ req' = [req EXCEPT ![r] = IdleReq]
    /\ UNCHANGED <<backend, owner, expired, maintenance, object, names, file, requests,
                   faults, hist>>

-----------------------------------------------------------------------------
\* The TTL of the URL passes.
Expire(u) ==
    /\ owner[u] # NoBrain /\ u \notin expired /\ faults < MaxFaults
    /\ faults' = faults + 1
    /\ expired' = expired \cup {u}
    /\ UNCHANGED <<backend, owner, uploads, maintenance, object, names, file, req,
                   requests, hist>>

\* A restart: the map and the signing key are gone, files and objects stay.
Restart ==
    /\ faults < MaxFaults
    /\ faults' = faults + 1
    /\ uploads' = {}
    /\ req' = [r \in Requests |-> IdleReq]
    /\ UNCHANGED <<backend, owner, expired, maintenance, object, names, file, requests,
                   hist>>

-----------------------------------------------------------------------------
Serve(r) ==
    \/ \E u \in Uids : PutOpen(r, u) \/ \E b \in Brains : CompleteStat(r, u, b)
    \/ PutDone(r) \/ PutFails(r)
    \/ LookupUpload(r) \/ Refuse(r) \/ RenameStaged(r) \/ DownloadOpen(r)
    \/ DownloadDone(r) \/ DownloadFails(r) \/ RenameTmp(r) \/ RemoveObject(r) \/ Forget(r)
Next ==
    \/ \E b \in Brains : MergeInit(b)
    \/ \E on \in BOOLEAN : SetMaintenance(on)
    \/ \E u \in Uids : PutObject(u) \/ Expire(u)
    \/ \E r \in Requests : Serve(r)
    \/ Restart

Spec == Init /\ [][Next]_vars

-----------------------------------------------------------------------------
(* Properties.                                                             *)

\* Whatever completes and PUTs overlap, a brain's place in _pending never holds
\* bytes of another brain's upload (CompleteUpload's binding check, the tmp
\* name that carries the brain id).
OwnTarball ==
    \A b \in Brains : pending[b] # 0 => \A u \in file[pending[b]].of : owner[u] = b

\* What the reaper finds is one complete tarball, through broken downloads and
\* restarts (storage.go: "so a torn download can't leave a half-written tar in
\* _pending/").  Two completes of one brain at once, or a complete during its
\* PUT, are the exception the code leaves open.
PendingIsWhole ==
    \A b \in Brains \ raced : pending[b] # 0 =>
        file[pending[b]].whole /\ Cardinality(file[pending[b]].of) = 1

Holds(f, u) == f # 0 /\ file[f].whole /\ u \in file[f].of

\* An upload that was acknowledged is in the bucket, staged or pending, whole,
\* until it is sent again (AcceptUpload; PutFails removes by name).
AckedIsStored ==
    \A u \in acked \ retried :
        \/ owner[u] \in raced \/ u \in object
        \/ Holds(staged[u], u) \/ Holds(pending[owner[u]], u)

\* A tarball in _pending is not replaced: completes that do not overlap get the
\* 409 (handleMergeComplete: "Block double-complete").
PendingIsKept ==
    [][\A b \in Brains \ raced' : pending[b] # 0 => pending'[b] = pending[b]]_vars
=============================================================================
