--------------------------- MODULE BindingReload ----------------------------
(***************************************************************************)
(* Live reconfiguration of the daemon: the registry of (profile, vault)    *)
(* bindings read from the config directory, the set of vault runners, the  *)
(* published per-binding views, and the per-profile Postgres resources (a  *)
(* pool and a River client).  reload() runs on SIGHUP and inside the admin *)
(* handler that provisions a binding; the two share pgMu, taken only for   *)
(* the last part of a reload, and nothing else.                            *)
(***************************************************************************)
EXTENDS Integers, FiniteSets

CONSTANTS
    Profiles,
    Vaults,
    AdminEnabled,   \* PB_ADMIN_KEY is set: the admin surface is served
    MaxPools,       \* bound: pools ever opened, the ones of the start included
    MaxEdits,       \* bound: changes to the config directory
    MaxReloads,     \* bound: reloads
    MaxFaults       \* bound: failed calls to MinIO, Postgres, OpenSearch, River

ASSUME ReloadAssumption ==
    /\ IsFiniteSet(Profiles)
    /\ AdminEnabled \in BOOLEAN
    /\ MaxPools \in Nat /\ Cardinality(Profiles) <= MaxPools
    /\ MaxEdits \in Nat
    /\ MaxReloads \in Nat /\ MaxFaults \in Nat

VARIABLES
    config,         \* bindings with files in the config directory
    broken,         \* one of these files does not parse
    registry,       \* registry.byVault
    runners,        \* runnerSet
    deps,           \* bindings: the published view of each key
    pgProfiles,     \* per profile: the pool of its resources
    open,           \* pools not closed
    started,        \* pools whose River client runs
    nextPool,
    pgMu,
    reloader,       \* local state of each goroutine that may run reload
    last,           \* how the last reload went: "clean" if no failure, no edit
                    \* and no other reload came in its way, "solo" if only
                    \* other reloads did not
    edits, reloads, faults

files == <<config, broken>>
pg == <<pgProfiles, open, started, nextPool>>
bounds == <<edits, reloads, faults>>
vars == <<config, broken, registry, runners, deps, pgProfiles, open, started,
          nextPool, pgMu, reloader, last, edits, reloads, faults>>

-----------------------------------------------------------------------------
(* VaultKey                                                                *)
Keys == Profiles \X Vaults

ProfilesOf(S) == {k[1] : k \in S}

(* The signal loop of Run, and the admin handler under provisionMu.        *)
Reloaders == {"hup", "admin"}
Nobody == "nobody"

Pools == 1 .. MaxPools

(* A published view: none, one without Postgres, or one over a pool.       *)
Unpublished == -1
NoPG == 0

Reloader == [pc : {"idle", "load", "swap", "diff", "apply", "lock", "build",
                   "publish", "start"},
             prior : SUBSET Keys, next : SUBSET Keys, added : SUBSET Keys,
             removed : SUBSET Keys, fresh : SUBSET Keys, filled : SUBSET Keys,
             todo : SUBSET Keys, needed : SUBSET Profiles,
             newlyAdded : SUBSET Profiles, alone : BOOLEAN, clean : BOOLEAN]

IdleReloader == [pc |-> "idle", prior |-> {}, next |-> {}, added |-> {},
                 removed |-> {}, fresh |-> {}, filled |-> {}, todo |-> {},
                 needed |-> {}, newlyAdded |-> {}, alone |-> FALSE, clean |-> FALSE]

TypeOK ==
    /\ config \subseteq Keys /\ broken \in BOOLEAN
    /\ registry \subseteq Keys
    /\ runners \subseteq Keys
    /\ deps \in [Keys -> {Unpublished, NoPG} \cup Pools]
    /\ pgProfiles \in [Profiles -> {0} \cup Pools]
    /\ open \subseteq Pools
    /\ started \subseteq open
    /\ nextPool \in 1 .. MaxPools + 1
    /\ pgMu \in Reloaders \cup {Nobody}
    /\ reloader \in [Reloaders -> Reloader]
    /\ last \in {"none", "solo", "clean"}
    /\ edits \in Nat /\ reloads \in Nat /\ faults \in Nat

At(r, pc) == reloader[r].pc = pc

Idle == \A r \in Reloaders : At(r, "idle")

Live == {p \in Profiles : pgProfiles[p] # 0}

Solo(r) == IF reloader[r].alone THEN "solo" ELSE "none"

Fault ==
    /\ faults < MaxFaults
    /\ faults' = faults + 1

-----------------------------------------------------------------------------
(* The config directory, edited by the operator.                           *)

Disturb ==
    /\ last' = IF last = "clean" THEN "solo" ELSE last
    /\ reloader' = [r \in Reloaders |-> [reloader[r] EXCEPT !.clean = FALSE]]

EditConfig(k) ==
    /\ edits < MaxEdits
    /\ edits' = edits + 1
    /\ config' \in {config \cup {k}, config \ {k}} \ {config}
    /\ Disturb
    /\ UNCHANGED <<broken, registry, runners, deps, pg, pgMu, reloads, faults>>

BreakConfig ==
    /\ edits < MaxEdits
    /\ edits' = edits + 1
    /\ broken' = ~broken
    /\ Disturb
    /\ UNCHANGED <<config, registry, runners, deps, pg, pgMu, reloads, faults>>

-----------------------------------------------------------------------------
(* reload, up to the Postgres resources: no lock is held.                  *)

(* Mutant: the prior bindings are the registry's, not the runners'.        *)
BeginFromRegistry(r) ==
    /\ At(r, "idle")
    /\ reloads < MaxReloads
    /\ reloads' = reloads + 1
    /\ last' = "none"
    /\ reloader' = [q \in Reloaders |->
            IF q = r THEN [IdleReloader EXCEPT !.pc = "load", !.prior = registry,
                                               !.alone = Idle, !.clean = Idle]
            ELSE [reloader[q] EXCEPT !.alone = FALSE, !.clean = FALSE]]

(* prior := d.runners.Keys()                                               *)
Begin(r) ==
    /\ At(r, "idle")
    /\ reloads < MaxReloads
    /\ reloads' = reloads + 1
    /\ last' = "none"
    /\ reloader' = [q \in Reloaders |->
            IF q = r THEN [IdleReloader EXCEPT !.pc = "load", !.prior = runners,
                                               !.alone = Idle, !.clean = Idle]
            ELSE [reloader[q] EXCEPT !.alone = FALSE, !.clean = FALSE]]

(* Run receives SIGHUP.                                                    *)
Hup ==
    /\ Begin("hup")
    /\ UNCHANGED <<files, registry, runners, deps, pg, pgMu, edits, faults>>

(* handleAdminProfileCreate: ProvisionFn writes the binding's files unless *)
(* one of its steps fails; the handler reloads either way.                 *)
AdminProfileCreate(k) ==
    /\ AdminEnabled
    /\ Begin("admin")
    /\ config' \in {config, config \cup {k}}
    /\ UNCHANGED <<broken, registry, runners, deps, pg, pgMu, edits, faults>>

(* registry.Load walks the directory; any file that does not parse ends    *)
(* the reload with the registry as it was.                                 *)
LoadReads(r) ==
    /\ At(r, "load")
    /\ reloader' = IF broken THEN [reloader EXCEPT ![r] = IdleReloader]
                   ELSE [reloader EXCEPT ![r].pc = "swap", ![r].next = config]
    /\ UNCHANGED <<files, registry, runners, deps, pg, pgMu, last, bounds>>

LoadSwaps(r) ==
    /\ At(r, "swap")
    /\ registry' = reloader[r].next
    /\ reloader' = [reloader EXCEPT ![r].pc = "diff"]
    /\ UNCHANGED <<files, runners, deps, pg, pgMu, last, bounds>>

Diff(r) ==
    /\ At(r, "diff")
    /\ reloader' = [reloader EXCEPT ![r].pc = "apply",
                                    ![r].added = registry \ reloader[r].prior,
                                    ![r].removed = reloader[r].prior \ registry]
    /\ UNCHANGED <<files, registry, runners, deps, pg, pgMu, last, bounds>>

(* Removed bindings: runners.Remove and bindings.Delete.                   *)
Remove(r, k) ==
    /\ At(r, "apply")
    /\ k \in reloader[r].removed
    /\ runners' = runners \ {k}
    /\ deps' = [deps EXCEPT ![k] = Unpublished]
    /\ reloader' = [reloader EXCEPT ![r].removed = @ \ {k}]
    /\ UNCHANGED <<files, registry, pg, pgMu, last, bounds>>

(* Added bindings: ensure bucket and skeleton, runners.Add; one that has   *)
(* left the registry again, or whose bucket fails, is skipped.             *)
Add(r, k) ==
    /\ At(r, "apply")
    /\ reloader[r].removed = {}
    /\ k \in reloader[r].added
    /\ \/ /\ runners' = IF k \in registry THEN runners \cup {k} ELSE runners
          /\ reloader' = [reloader EXCEPT ![r].added = @ \ {k}]
          /\ UNCHANGED faults
       \/ /\ Fault
          /\ reloader' = [reloader EXCEPT ![r].added = @ \ {k}, ![r].clean = FALSE]
          /\ UNCHANGED runners
    /\ UNCHANGED <<files, registry, deps, pg, pgMu, last, edits, reloads>>

(* buildBindingDeps: stage a view for every binding of the registry.       *)
Stage(r) ==
    /\ At(r, "apply")
    /\ reloader[r].removed = {} /\ reloader[r].added = {}
    /\ reloader' = [reloader EXCEPT ![r].pc = "lock", ![r].fresh = registry]
    /\ UNCHANGED <<files, registry, runners, deps, pg, pgMu, last, bounds>>

-----------------------------------------------------------------------------
(* buildPGBindingDeps, under pgMu.                                         *)

(* Mutant: only the profiles of this reload's additions are needed.        *)
AcquireAdded(r) ==
    /\ At(r, "lock")
    /\ pgMu = Nobody
    /\ pgMu' = r
    /\ reloader' = [reloader EXCEPT ![r].pc = "build",
            ![r].needed = ProfilesOf(reloader[r].fresh \ reloader[r].prior)]
    /\ UNCHANGED <<files, registry, runners, deps, pg, last, bounds>>

(* pgMu is taken and the profiles needed are counted.  pgBaseDSN and       *)
(* osBase are set once, by Start, which fails without them: the branches   *)
(* that close every pool because one is missing cannot be taken later.     *)
Acquire(r) ==
    /\ At(r, "lock")
    /\ pgMu = Nobody
    /\ pgMu' = r
    /\ reloader' = [reloader EXCEPT ![r].pc = "build",
                                    ![r].needed = ProfilesOf(reloader[r].fresh)]
    /\ UNCHANGED <<files, registry, runners, deps, pg, last, bounds>>

(* Mutant: the client of a new profile is started as soon as it is built.  *)
BuildProfileStarts(r, p) ==
    /\ At(r, "build")
    /\ p \in reloader[r].needed \ Live
    /\ nextPool \in Pools
    /\ pgProfiles' = [pgProfiles EXCEPT ![p] = nextPool]
    /\ open' = open \cup {nextPool}
    /\ started' = started \cup {nextPool}
    /\ nextPool' = nextPool + 1
    /\ UNCHANGED <<files, registry, runners, deps, pgMu, reloader, last, bounds>>

(* buildPGProfileResources for an added profile.                           *)
BuildProfile(r, p) ==
    /\ At(r, "build")
    /\ p \in reloader[r].needed \ Live
    /\ nextPool \in Pools
    /\ pgProfiles' = [pgProfiles EXCEPT ![p] = nextPool]
    /\ open' = open \cup {nextPool}
    /\ nextPool' = nextPool + 1
    /\ reloader' = [reloader EXCEPT ![r].newlyAdded = @ \cup {p}]
    /\ UNCHANGED <<files, registry, runners, deps, started, pgMu, last, bounds>>

(* publishFreshLocked and the error return: every staged view goes out,    *)
(* with Postgres only where this reload has filled it in.                  *)
PublishFresh(r) ==
    /\ deps' = [k \in Keys |->
                  IF k \notin reloader[r].fresh THEN deps[k]
                  ELSE IF k \in reloader[r].filled THEN pgProfiles[k[1]] ELSE NoPG]
    /\ reloader' = [reloader EXCEPT ![r] = IdleReloader]
    /\ pgMu' = Nobody
    /\ last' = Solo(r)

(* A profile cannot be built, the search pipeline or the index of a        *)
(* binding cannot be ensured.                                              *)
BuildFails(r) ==
    /\ \/ At(r, "build")
       \/ At(r, "publish") /\ reloader[r].todo # {}
    /\ Fault
    /\ PublishFresh(r)
    /\ UNCHANGED <<files, registry, runners, pg, edits, reloads>>

(* EnsureSearchPipeline, then the bindings the registry has by now.        *)
Pipeline(r) ==
    /\ At(r, "build")
    /\ reloader[r].needed \subseteq Live
    /\ reloader' = [reloader EXCEPT ![r].pc = "publish",
                                    ![r].todo = registry \cap reloader[r].fresh]
    /\ UNCHANGED <<files, registry, runners, deps, pg, pgMu, last, bounds>>

(* Mutant: a binding that has a view keeps it.                             *)
PublishOnce(r, k) ==
    /\ At(r, "publish")
    /\ k \in reloader[r].todo
    /\ deps' = [deps EXCEPT ![k] = IF @ = Unpublished THEN pgProfiles[k[1]] ELSE @]
    /\ reloader' = [reloader EXCEPT ![r].todo = @ \ {k}, ![r].filled = @ \cup {k}]
    /\ UNCHANGED <<files, registry, runners, pg, pgMu, last, bounds>>

(* EnsureIndex and the publication of one complete view.                   *)
Publish(r, k) ==
    /\ At(r, "publish")
    /\ k \in reloader[r].todo
    /\ deps' = [deps EXCEPT ![k] = pgProfiles[k[1]]]
    /\ reloader' = [reloader EXCEPT ![r].todo = @ \ {k}, ![r].filled = @ \cup {k}]
    /\ UNCHANGED <<files, registry, runners, pg, pgMu, last, bounds>>

Published(r) ==
    /\ At(r, "publish")
    /\ reloader[r].todo = {}
    /\ reloader' = [reloader EXCEPT ![r].pc = "start"]
    /\ UNCHANGED <<files, registry, runners, deps, pg, pgMu, last, bounds>>

(* River clients of the profiles this reload added.                        *)
StartRiver(r, p) ==
    /\ At(r, "start")
    /\ p \in reloader[r].newlyAdded
    /\ started' = started \cup {pgProfiles[p]}
    /\ reloader' = [reloader EXCEPT ![r].newlyAdded = @ \ {p}]
    /\ UNCHANGED <<files, registry, runners, deps, pgProfiles, open, nextPool,
                   pgMu, last, bounds>>

(* A client that does not start ends the reload.                           *)
StartFails(r) ==
    /\ At(r, "start")
    /\ reloader[r].newlyAdded # {}
    /\ Fault
    /\ reloader' = [reloader EXCEPT ![r] = IdleReloader]
    /\ pgMu' = Nobody
    /\ last' = Solo(r)
    /\ UNCHANGED <<files, registry, runners, deps, pg, edits, reloads>>

(* Mutant: the pool is closed under a running client.                      *)
CloseProfileOnly(r, p) ==
    /\ At(r, "start")
    /\ reloader[r].newlyAdded = {}
    /\ p \in Live \ reloader[r].needed
    /\ open' = open \ {pgProfiles[p]}
    /\ pgProfiles' = [pgProfiles EXCEPT ![p] = 0]
    /\ UNCHANGED <<files, registry, runners, deps, started, nextPool, pgMu,
                   reloader, last, bounds>>

(* closePGProfileResourceLocked for a profile no longer needed: stop the   *)
(* client, close the pool.                                                 *)
CloseProfile(r, p) ==
    /\ At(r, "start")
    /\ reloader[r].newlyAdded = {}
    /\ p \in Live \ reloader[r].needed
    /\ open' = open \ {pgProfiles[p]}
    /\ started' = started \ {pgProfiles[p]}
    /\ pgProfiles' = [pgProfiles EXCEPT ![p] = 0]
    /\ UNCHANGED <<files, registry, runners, deps, nextPool, pgMu, reloader,
                   last, bounds>>

Done(r) ==
    /\ At(r, "start")
    /\ reloader[r].newlyAdded = {}
    /\ Live \subseteq reloader[r].needed
    /\ pgMu' = Nobody
    /\ last' = IF reloader[r].clean THEN "clean" ELSE Solo(r)
    /\ reloader' = [reloader EXCEPT ![r] = IdleReloader]
    /\ UNCHANGED <<files, registry, runners, deps, pg, bounds>>

-----------------------------------------------------------------------------
(* Start: a daemon that came up has built everything its config names.     *)
Init ==
    /\ config \in SUBSET Keys
    /\ broken = FALSE
    /\ registry = config
    /\ runners = config
    /\ nextPool = Cardinality(ProfilesOf(config)) + 1
    /\ open = 1 .. nextPool - 1
    /\ started = open
    /\ pgProfiles \in [Profiles -> {0} \cup open]
    /\ \A p \in Profiles : pgProfiles[p] # 0 <=> p \in ProfilesOf(config)
    /\ \A p, q \in Live : pgProfiles[p] = pgProfiles[q] => p = q
    /\ deps = [k \in Keys |-> IF k \in config THEN pgProfiles[k[1]] ELSE Unpublished]
    /\ pgMu = Nobody
    /\ reloader = [r \in Reloaders |-> IdleReloader]
    /\ last = "clean"
    /\ edits = 0 /\ reloads = 0 /\ faults = 0

ReloadStep(r) ==
    \/ LoadReads(r) \/ LoadSwaps(r) \/ Diff(r)
    \/ \E k \in Keys : Remove(r, k) \/ Add(r, k) \/ Publish(r, k)
    \/ Stage(r) \/ Acquire(r) \/ Pipeline(r) \/ Published(r)
    \/ \E p \in Profiles : BuildProfile(r, p) \/ StartRiver(r, p) \/ CloseProfile(r, p)
    \/ Done(r)

Next ==
    \/ \E k \in Keys : EditConfig(k) \/ AdminProfileCreate(k)
    \/ BreakConfig
    \/ Hup
    \/ \E r \in Reloaders : ReloadStep(r) \/ BuildFails(r) \/ StartFails(r)

Spec == Init /\ [][Next]_vars

-----------------------------------------------------------------------------
(* A reload that nothing disturbed repairs whatever earlier reloads left   *)
(* behind, failed or interleaved: every configured binding is registered,  *)
(* has a runner and a view over the open pool of its profile, and no other *)
(* pool is open (reload, buildPGBindingDeps).                              *)
CleanReloadServesAll ==
    last = "clean" =>
        /\ registry = config
        /\ runners = config
        /\ \A k \in config : deps[k] = pgProfiles[k[1]]
        /\ Live = ProfilesOf(config)
        /\ open = {pgProfiles[p] : p \in Live}

(* A reload that fails half-way, without another one in its way, leaves no *)
(* registered binding on a closed pool: each has its profile's open pool   *)
(* or no Postgres view, which requests report (publishFreshLocked).        *)
FailedReloadIsSafe ==
    last # "none" => \A k \in registry : deps[k] \in {NoPG} \cup open

(* The River client of a profile starts after the views its workers        *)
(* resolve through are published, unless another reload interferes         *)
(* ("a projection worker never resolves through an unpublished deps").     *)
StartsAfterPublish ==
    [][\A r \in Reloaders : \A k \in registry :
          (pgMu = r /\ reloader[r].alone /\ pgProfiles'[k[1]] \in started' \ started)
              => deps[k] = pgProfiles'[k[1]]]_vars

(* A reload on its own closes the resources of a profile only once no      *)
(* registered binding uses the profile ("KEEP every profile that is still  *)
(* present").  Overlapping reloads do not keep to it: the SIGHUP loop does *)
(* not take provisionMu.                                                   *)
SoloKeepsPresentProfiles ==
    [][\A r \in Reloaders : \A p \in Profiles :
          (pgMu = r /\ reloader[r].alone /\ pgProfiles[p] # 0
                    /\ pgProfiles'[p] # pgProfiles[p])
              => p \notin ProfilesOf(registry)]_vars
=============================================================================
