----------------------------- MODULE Provision -----------------------------
(***************************************************************************)
(* Provisioning one binding of a profile: `profile create` from the        *)
(* command line or through the daemon's admin handler, `binding create`    *)
(* and `binding delete`, over the profile's Postgres database, its MinIO   *)
(* bucket and the binding's files auth.toml and config.toml.  By the       *)
(* naming templates' defaults the vaults of a profile share the bucket and *)
(* the search index; of the other vaults the model has what their purges,  *)
(* their writes and the reloads they are served by do to both.  A create   *)
(* makes the bucket, and the daemon's reload the index and the bucket of a *)
(* binding that is new to it.                                              *)
(*                                                                         *)
(* Only the admin handler is serialised (provisionMu); the commands are    *)
(* processes of their own and nothing keeps them apart.  os.WriteFile is   *)
(* two steps, because a process that dies in between leaves an empty file: *)
(* an empty config.toml parses, an empty auth.toml has no token.           *)
(***************************************************************************)
EXTENDS Integers, FiniteSets

CONSTANTS
    Admin,      \* the admin handler, as the holder of provisionMu
    Commands,   \* command-line processes
    MaxDeletes, \* bound: confirmed deletes, of this binding or a sibling
    MaxFaults   \* bound: failed calls and processes killed

ASSUME ProvisionAssumption ==
    /\ Admin \notin Commands /\ IsFiniteSet(Commands)
    /\ MaxDeletes \in Nat /\ MaxFaults \in Nat

Runners == Commands \cup {Admin}
\* A bearer token is a number, fresh when it is generated.
Tokens == 1 .. Cardinality(Runners) + 3
Absent == 0
Torn   == -1

VARIABLES
    db,       \* pb_<profile> exists and is migrated
    bucket,   \* the profile's bucket exists
    index,    \* the profile's index: "absent", "mapped", or "auto", without a mapping
    rows,     \* the binding has records in Postgres
    dir,      \* the binding's config directory exists
    auth,     \* the token in auth.toml, Absent or Torn
    conf,     \* config.toml: "absent", "empty" or "full"
    served,   \* the binding is in the daemon's registry
    run,      \* runner -> the command under way
    deletes, faults, \* how much of each bound is used
    wanted,   \* history: a profile create began, and no delete since
    told,     \* history: the token its creators were given, or Absent
    raced,    \* history: runs whose auth.toml another run writes or removes too
    purged,   \* history: deleted with its data, and not created since
    wrote     \* history: written to since the last delete began

stores == <<db, bucket, index, rows>>
files  == <<dir, auth, conf>>
bounds == <<deletes, faults>>
hist   == <<wanted, told, raced, purged, wrote>>
vars   == <<stores, files, served, run, bounds, hist>>

\* existed: an auth.toml was found and is yet to be read; tok: the effective
\* token.
Idle == [pc |-> "idle", op |-> "none", existed |-> FALSE, tok |-> Absent]

Init ==
    /\ db = FALSE /\ bucket = FALSE /\ index = "absent" /\ rows = FALSE
    /\ dir = FALSE /\ auth = Absent /\ conf = "absent"
    /\ served = FALSE /\ run = [r \in Runners |-> Idle]
    /\ deletes = 0 /\ faults = 0
    /\ wanted = FALSE /\ told = Absent /\ raced = {} /\ purged = FALSE /\ wrote = FALSE

At(r, pc)    == run[r].pc = pc
GoTo(r, pc)  == run' = [run EXCEPT ![r].pc = pc]
Begin(r, op, pc) == At(r, "idle") /\ run' = [run EXCEPT ![r] = [Idle EXCEPT !.op = op, !.pc = pc]]
Stop(r)      == run' = [run EXCEPT ![r] = Idle] /\ raced' = raced \ {r}
Fault        == faults < MaxFaults /\ faults' = faults + 1
Others(r)    == {q \in Runners \ {r} : run[q].pc # "idle"}

\* A step failed.  The command ends; the admin handler reloads all the same.
Quit(r) == IF r = Admin THEN GoTo(r, "reload") /\ UNCHANGED raced ELSE Stop(r)

\* newBearerToken: 32 random bytes nobody has.
newBearerToken ==
    CHOOSE t \in Tokens : t # auth /\ t # told /\ \A r \in Runners : run[r].tok # t

\* Registry.Load wants a token from every binding's directory.
Loads == dir => auth \in Tokens

-----------------------------------------------------------------------------
(* History about auth.toml.                                                *)

\* Two runs that both found no auth.toml will both write one.
Claim(r) ==
    LET rivals == {q \in Others(r) : ~run[q].existed /\ run[q].pc \in {"mkdir", "token", "auth"}}
    IN  raced' = IF rivals = {} THEN raced ELSE raced \cup rivals \cup {r}

\* A run that raced writes auth.toml whatever is in it by now.
Spoil(r) ==
    IF r \in raced THEN told' = Absent /\ raced' = raced \cup Others(r)
                   ELSE UNCHANGED <<told, raced>>

\* The caller gets the effective token.
Tell(r) == told' = IF r \in raced THEN told ELSE run[r].tok

-----------------------------------------------------------------------------
(* ProfileCreate.                                                          *)

CreateStart(r) ==
    /\ Begin(r, "profile", "postgres")
    /\ wanted' = TRUE /\ purged' = FALSE
    /\ UNCHANGED <<stores, files, served, bounds, told, raced, wrote>>

\* provisionPostgres: a failure is noted and the next step runs.
ProvisionPostgres(r) ==
    /\ At(r, "postgres")
    /\ \/ db' = TRUE /\ UNCHANGED faults
       \/ Fault /\ UNCHANGED db
    /\ GoTo(r, "bucket")
    /\ UNCHANGED <<bucket, index, rows, files, served, deletes, hist>>

\* provisionBucket, and the --create-bucket of binding create; the folder
\* placeholder in it is not modelled.
ProvisionBucket(r) ==
    /\ At(r, "bucket")
    /\ \/ bucket' = TRUE /\ UNCHANGED faults
       \/ Fault /\ UNCHANGED bucket
    /\ IF run[r].op = "profile"
       THEN GoTo(r, "stat") /\ UNCHANGED <<told, raced>>
       ELSE Stop(r) /\ (IF faults' = faults THEN Tell(r) ELSE UNCHANGED told)
    /\ UNCHANGED <<db, index, rows, files, served, deletes, wanted, purged, wrote>>

\* Mutant: an auth.toml that is there does not count.
StatAuthNever(r) ==
    /\ At(r, "stat") /\ GoTo(r, "mkdir") /\ Claim(r)
    /\ UNCHANGED <<stores, files, served, bounds, wanted, told, purged, wrote>>

\* writeBindingConfig: is there an auth.toml ...
StatAuth(r) ==
    /\ At(r, "stat")
    /\ run' = [run EXCEPT ![r].pc = "mkdir", ![r].existed = (auth # Absent)]
    /\ IF auth = Absent THEN Claim(r) ELSE UNCHANGED raced
    /\ UNCHANGED <<stores, files, served, bounds, wanted, told, purged, wrote>>

MakeDir(r) ==
    /\ At(r, "mkdir")
    /\ dir' = TRUE
    /\ GoTo(r, "token")
    /\ UNCHANGED <<stores, auth, conf, served, bounds, hist>>


\* ... then its token is read back; a file without one fails the step ...
ReadToken(r) ==
    /\ At(r, "token") /\ run[r].existed
    /\ IF auth \in Tokens
       THEN /\ run' = [run EXCEPT ![r].pc = "config", ![r].existed = FALSE, ![r].tok = auth]
            /\ UNCHANGED raced
       ELSE Quit(r)
    /\ UNCHANGED <<stores, files, served, bounds, wanted, told, purged, wrote>>

\* ... or a fresh one is written: opened and truncated, then filled.
OpenAuth(r) ==
    /\ At(r, "token") /\ ~run[r].existed
    /\ IF dir
       THEN /\ auth' = Torn
            /\ run' = [run EXCEPT ![r].pc = "auth", ![r].tok = newBearerToken]
            /\ Spoil(r)
       ELSE Quit(r) /\ UNCHANGED <<auth, told>>
    /\ UNCHANGED <<stores, dir, conf, served, bounds, wanted, purged, wrote>>

\* binding create without overrides writes no config.toml.
WriteAuth(r) ==
    /\ At(r, "auth")
    /\ auth' = run[r].tok
    /\ \/ GoTo(r, "config") /\ Spoil(r)
       \/ /\ run[r].op = "binding" /\ GoTo(r, "done")
          /\ IF r \in raced THEN Spoil(r) ELSE Tell(r) /\ UNCHANGED raced
    /\ UNCHANGED <<stores, dir, conf, served, bounds, wanted, purged, wrote>>

\* config.toml is written again on every run.
OpenConfig(r) ==
    /\ At(r, "config")
    /\ IF dir
       THEN conf' = "empty" /\ GoTo(r, "conf") /\ UNCHANGED raced
       ELSE Quit(r) /\ UNCHANGED conf
    /\ UNCHANGED <<stores, dir, auth, served, bounds, wanted, told, purged, wrote>>

\* A file that was removed meanwhile is written without a name.  profile
\* create answers with the token; binding create may have a bucket to make.
WriteConfig(r) ==
    /\ At(r, "conf")
    /\ conf' = IF conf = "absent" THEN conf ELSE "full"
    /\ \/ run[r].op = "binding" /\ GoTo(r, "bucket") /\ UNCHANGED told
       \/ GoTo(r, IF r = Admin THEN "reload" ELSE "done") /\ Tell(r)
    /\ UNCHANGED <<stores, dir, auth, served, bounds, wanted, raced, purged, wrote>>

\* binding create: refused when the directory is there, auth.toml or not.
BindingCreate(r) ==
    /\ r \in Commands /\ ~dir
    /\ Begin(r, "binding", "mkdir")
    /\ Claim(r)
    /\ purged' = FALSE
    /\ UNCHANGED <<stores, files, served, bounds, wanted, told, wrote>>

-----------------------------------------------------------------------------
(* binding delete.                                                         *)

\* Refused unless the whole registry loads; --purge-data is refused for a
\* binding without [storage_overrides].
DeleteStart(r) ==
    /\ r \in Commands /\ deletes < MaxDeletes
    /\ dir /\ Loads
    /\ deletes' = deletes + 1
    /\ \/ Begin(r, "delete", "remove")
       \/ conf = "full" /\ Begin(r, "purge", "purge")
    /\ wanted' = FALSE /\ purged' = FALSE
    /\ wrote' = (Others(r) # {})
    /\ UNCHANGED <<stores, files, served, faults, told, raced>>

\* purgeBindingData: first the index, which the other vaults share and which
\* may be gone already ...
DeleteIndex(r) ==
    /\ At(r, "purge")
    /\ \/ index' = "absent" /\ GoTo(r, "empty") /\ UNCHANGED <<faults, raced>>
       \/ Fault /\ Stop(r) /\ UNCHANGED index
    /\ UNCHANGED <<db, bucket, rows, files, served, deletes, wanted, told, purged, wrote>>

\* ... then the bucket, which they share too.  A failure ends the command, and
\* a bucket that is gone already is one.
RemoveBucket(r) ==
    /\ At(r, "empty")
    /\ \/ bucket /\ bucket' = FALSE /\ GoTo(r, "rows") /\ UNCHANGED <<faults, raced>>
       \/ ~bucket /\ Stop(r) /\ UNCHANGED <<bucket, faults>>
       \/ Fault /\ Stop(r) /\ UNCHANGED bucket
    /\ UNCHANGED <<db, index, rows, files, served, deletes, wanted, told, purged, wrote>>

\* The same for another vault of the profile: this binding loses them too, or
\* the index only when that purge failed.
SiblingPurged ==
    /\ deletes < MaxDeletes /\ deletes' = deletes + 1
    /\ index' = "absent"
    /\ \/ bucket' = FALSE /\ UNCHANGED faults
       \/ Fault /\ UNCHANGED bucket
    /\ UNCHANGED <<db, rows, files, served, run, hist>>

\* Mutant: a purge that failed is logged, and the directory removed.
PurgeBindingIgnored(r) ==
    /\ At(r, "rows") /\ GoTo(r, "remove")
    /\ \/ rows' = FALSE /\ UNCHANGED faults
       \/ Fault /\ UNCHANGED rows
    /\ UNCHANGED <<db, bucket, index, files, served, deletes, hist>>

\* PurgeBinding: the rows of this binding, in one transaction; a failure ends
\* the command, a missing DSN only skips the step.
PurgeBinding(r) ==
    /\ At(r, "rows")
    /\ \/ db /\ rows' = FALSE /\ GoTo(r, "remove") /\ UNCHANGED <<faults, raced>>
       \/ ~db /\ Stop(r) /\ UNCHANGED <<rows, faults>>
       \/ Fault /\ Stop(r) /\ UNCHANGED rows
       \/ /\ run' = [run EXCEPT ![r].pc = "remove", ![r].op = "delete"]
          /\ UNCHANGED <<rows, faults, raced>>
    /\ UNCHANGED <<db, bucket, index, files, served, deletes, wanted, told, purged, wrote>>

\* auth.toml is unlinked; a run that has it open writes to no name.
Unlink(r, pc) ==
    /\ auth' = Absent /\ told' = Absent
    /\ run' = [q \in Runners |->
                 CASE q = r              -> [run[q] EXCEPT !.pc = pc]
                   [] run[q].pc = "auth" -> [run[q] EXCEPT !.pc = "config"]
                   [] OTHER              -> run[q]]
    /\ raced' = raced \cup Others(r)

\* os.RemoveAll: one file after the other, then the directory.
RemoveSome(r) ==
    /\ At(r, "remove")
    /\ Unlink(r, "removing")
    /\ UNCHANGED <<stores, dir, conf, served, bounds, wanted, purged, wrote>>

RemoveDone(r) ==
    /\ At(r, "removing")
    /\ Unlink(r, "done")
    /\ dir' = FALSE /\ conf' = "absent"
    /\ purged' = (run[r].op = "purge")
    /\ UNCHANGED <<stores, served, bounds, wanted, wrote>>

Done(r) ==
    /\ At(r, "done") /\ Stop(r)
    /\ UNCHANGED <<stores, files, served, bounds, wanted, told, purged, wrote>>

-----------------------------------------------------------------------------
(* The daemon.                                                             *)

\* osproject.EnsureIndex, for each binding in turn, once the pool of its
\* profile is open: an index that is there is left as it is.  The other
\* vaults may have it made when this binding is not served, or is served
\* without its config.toml, on the default index.
EnsureIndex ==
    LET made == IF index = "absent" THEN "mapped" ELSE index
        own  == dir /\ conf = "full"
    IN  index' \in IF Loads /\ db THEN {made} \cup (IF own THEN {} ELSE {index}) ELSE {index}

\* EnsureBucketExists, for a binding that is new to the daemon: this one, or
\* another vault of the profile.
EnsureBucket ==
    LET new == dir /\ conf = "full" /\ ~served
    IN  bucket' \in IF Loads THEN {TRUE} \cup (IF new THEN {} ELSE {bucket}) ELSE {bucket}

\* A reload, on SIGHUP or at the end of the admin handler.  The registry is
\* all or nothing; what fails after it is logged.
Reload ==
    /\ served' = IF Loads THEN dir ELSE served
    /\ \/ EnsureBucket /\ EnsureIndex /\ UNCHANGED faults
       \/ Fault /\ EnsureBucket /\ UNCHANGED index
       \/ Fault /\ UNCHANGED bucket /\ EnsureIndex
    /\ IF At(Admin, "reload") THEN Stop(Admin) ELSE UNCHANGED <<run, raced>>
    /\ UNCHANGED <<db, rows, files, deletes, wanted, told, purged, wrote>>

\* A write to the binding; a deleted one is served until the next reload.
Write ==
    /\ served /\ db
    /\ rows' = TRUE /\ wrote' = TRUE
    /\ UNCHANGED <<db, bucket, index, files, served, run, bounds, wanted, told, raced, purged>>

\* The projection of a write, to this vault or another, puts a document:
\* OpenSearch makes an index that is not there, without the mapping.
AutoIndex ==
    /\ db /\ index = "absent"
    /\ index' = "auto"
    /\ UNCHANGED <<db, bucket, rows, files, served, run, bounds, hist>>

\* A process is killed, the daemon with the admin handler; or a file cannot
\* be written and the command gives up.
Crash(r) ==
    /\ ~At(r, "idle") /\ Fault /\ Stop(r)
    /\ served' \in IF r = Admin THEN {served, FALSE} ELSE {served}
    /\ UNCHANGED <<stores, files, deletes, wanted, told, purged, wrote>>

-----------------------------------------------------------------------------
Step(r) ==
    \/ ProvisionPostgres(r) \/ ProvisionBucket(r) \/ StatAuth(r) \/ MakeDir(r)
    \/ ReadToken(r) \/ OpenAuth(r) \/ WriteAuth(r) \/ OpenConfig(r) \/ WriteConfig(r)
    \/ DeleteIndex(r) \/ RemoveBucket(r) \/ PurgeBinding(r) \/ RemoveSome(r) \/ RemoveDone(r) \/ Done(r)
Next ==
    \/ \E r \in Runners :
        CreateStart(r) \/ BindingCreate(r) \/ DeleteStart(r) \/ Step(r) \/ Crash(r)
    \/ SiblingPurged \/ Reload \/ Write \/ AutoIndex

Spec == Init /\ [][Next]_vars

\* Commands run on, the admin handler ends with a reload, and whoever wants
\* the binding repeats the create.  No other command truncates config.toml
\* just before every reload.
WholeReload == At(Admin, "reload") /\ conf = "full" /\ Reload
FairSpec ==
    /\ Spec
    /\ \A r \in Runners : WF_vars(Step(r))
    /\ WF_vars(At(Admin, "reload") /\ Reload) /\ SF_vars(WholeReload) /\ SF_vars(CreateStart(Admin))

-----------------------------------------------------------------------------
(* Properties.                                                             *)

\* Whoever provisioned the binding holds its token: later creates, failed or
\* killed ones included, keep it and hand it back until the binding is
\* deleted (provision.go: "never clobber a live token", "a re-run is safe").
\* Two creates that both found no auth.toml are the exception: nothing keeps
\* the commands apart.
TokenIsEffective == told # Absent => auth = told

Complete == db /\ bucket /\ index = "mapped" /\ dir /\ auth \in Tokens /\ conf = "full"

\* What no create heals: an auth.toml that a killed create left empty, and an
\* index that a write made before a reload did.
Stuck == (auth = Torn /\ \A r \in Runners : ~At(r, "auth")) \/ index = "auto"


\* A delete that purges removes the directory last and only when the purge
\* succeeded: the rows of a binding so deleted are gone, unless the daemon,
\* which serves it until its next reload, wrote some more (binding.go
\* bindingDeleteCmd), and never does a failed purge hide its rows behind a
\* missing binding.
PurgedIsGone == purged /\ ~wrote => ~rows
=============================================================================
