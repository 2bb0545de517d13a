------------------------ MODULE BindingReload_proofs ------------------------
(***************************************************************************)
(* Proofs about BindingReload.  One inductive invariant serves every       *)
(* result: the pool table is one to one, pgMu has one holder, a reload     *)
(* that runs alone has the other goroutine idle, and what a lone reload    *)
(* knows about the registry, the runners, the views and the pools at each  *)
(* of its points.                                                          *)
(***************************************************************************)
EXTENDS BindingReload, FiniteSetTheorems, TLAPS

(* The open pools are exactly those of the live profiles, one each, and    *)
(* were all handed out already (buildPGProfileResources,                   *)
(* closePGProfileResourceLocked).                                          *)
Pooled ==
    /\ \A p \in Profiles : pgProfiles[p] # 0 => pgProfiles[p] \in open
    /\ \A p, q \in Profiles :
          pgProfiles[p] # 0 /\ pgProfiles[p] = pgProfiles[q] => p = q
    /\ \A n \in open : n < nextPool /\ \E p \in Profiles : pgProfiles[p] = n

(* pgMu is held exactly between the lock and the return of                 *)
(* buildPGBindingDeps.                                                     *)
Critical == {"build", "publish", "start"}

Mutex == \A r \in Reloaders : reloader[r].pc \in Critical <=> pgMu = r

(* A reload that is alone has the other goroutine idle, and a verdict on   *)
(* the last reload stands only while no reload runs.                       *)
Lonely ==
    /\ \A r, q \in Reloaders : reloader[r].alone /\ q # r => At(q, "idle")
    /\ \A r \in Reloaders : reloader[r].clean => reloader[r].alone
    /\ \A r \in Reloaders : At(r, "idle") => ~reloader[r].alone
    /\ last # "none" => Idle

(* The parts of a reload's local state that are still empty.               *)
Blank ==
    \A r \in Reloaders :
        /\ ~ (reloader[r].pc \in {"publish", "start"}) => reloader[r].filled = {}
        /\ ~ (reloader[r].pc \in Critical) => reloader[r].newlyAdded = {}
        /\ \A p \in reloader[r].newlyAdded : pgProfiles[p] # 0

(* What a lone reload has established about the Postgres side: it works on *)
(* the registry as it is, needs its profiles, and has published the views  *)
(* it has filled over pools it does not close.                             *)
CourseAt(r) ==
    /\ reloader[r].pc \in {"lock"} \cup Critical => reloader[r].fresh = registry
    /\ reloader[r].pc \in Critical => reloader[r].needed = ProfilesOf(registry)
    /\ reloader[r].pc \in {"publish", "start"} =>
          /\ \A p \in reloader[r].needed : pgProfiles[p] # 0
          /\ \A k \in registry : k \in reloader[r].filled \/ k \in reloader[r].todo
          /\ \A k \in reloader[r].todo : k \in registry
          /\ \A k \in reloader[r].filled :
                k \in registry /\ deps[k] = pgProfiles[k[1]]
    /\ reloader[r].pc = "start" => reloader[r].todo = {}

Course == \A r \in Reloaders : reloader[r].alone => CourseAt(r)

(* What a reload that nothing disturbed has established about the runners: *)
(* the difference it works off is the one between them and the registry.   *)
RunnersAt(r) ==
    /\ reloader[r].pc = "swap" => reloader[r].next = config
    /\ reloader[r].pc \in {"diff", "apply", "lock"} \cup Critical => registry = config
    /\ reloader[r].pc \in {"load", "swap", "diff"} => runners = reloader[r].prior
    /\ reloader[r].pc = "apply" =>
          \A k \in Keys :
              /\ k \in reloader[r].added => k \in registry
              /\ k \in reloader[r].removed => ~ (k \in registry)
              /\ k \in runners <=> \/ k \in registry /\ ~ (k \in reloader[r].added)
                                   \/ k \in reloader[r].removed
    /\ reloader[r].pc \in {"lock"} \cup Critical => runners = registry

Undisturbed == \A r \in Reloaders : reloader[r].clean => RunnersAt(r)

Base == TypeOK /\ Pooled /\ Mutex /\ Lonely /\ Blank

ReloadInv ==
    /\ Base /\ Course /\ Undisturbed
    /\ FailedReloadIsSafe /\ CleanReloadServesAll

-----------------------------------------------------------------------------
(* What each step does to the local state of the reload that takes it.     *)

Others(r) == \A q \in Reloaders : q # r => reloader'[q] = reloader[q]

SameFlags(r) ==
    /\ reloader'[r].alone = reloader[r].alone
    /\ reloader'[r].clean = reloader[r].clean

SamePlan(r) ==
    /\ reloader'[r].prior = reloader[r].prior
    /\ reloader'[r].next = reloader[r].next
    /\ reloader'[r].added = reloader[r].added
    /\ reloader'[r].removed = reloader[r].removed

SameWork(r) ==
    /\ reloader'[r].fresh = reloader[r].fresh
    /\ reloader'[r].filled = reloader[r].filled
    /\ reloader'[r].todo = reloader[r].todo
    /\ reloader'[r].needed = reloader[r].needed
    /\ reloader'[r].newlyAdded = reloader[r].newlyAdded

Reset(r) == reloader'[r] = IdleReloader

(* One reloader's local state is replaced.                                 *)
LEMMA OneReloader ==
    ASSUME TypeOK, NEW r \in Reloaders, NEW x \in Reloader,
           reloader' = [reloader EXCEPT ![r] = x]
    PROVE  reloader' \in [Reloaders -> Reloader] /\ Others(r) /\ reloader'[r] = x
  BY DEF TypeOK, Others

(* The idle local state is a reloader's.                                   *)
LEMMA IdleType ==
    /\ IdleReloader \in Reloader
    /\ IdleReloader.pc = "idle" /\ IdleReloader.filled = {}
    /\ IdleReloader.newlyAdded = {}
    /\ IdleReloader.alone = FALSE /\ IdleReloader.clean = FALSE
BY DEF IdleReloader, Reloader

(* Begin leaves the reload that starts at "load" with an empty local       *)
(* state, and takes the flags of the other one.                            *)
LEMMA BeginEffect ==
    ASSUME TypeOK, NEW r \in Reloaders, Begin(r)
    PROVE  /\ reloader' \in [Reloaders -> Reloader]
           /\ reloader[r].pc = "idle" /\ reloader'[r].pc = "load"
           /\ reloader'[r].prior = runners
           /\ reloader'[r].filled = {} /\ reloader'[r].newlyAdded = {}
           /\ reloader'[r].alone = Idle /\ reloader'[r].clean = Idle
           /\ \A q \in Reloaders : q # r =>
                 /\ reloader'[q].pc = reloader[q].pc
                 /\ reloader'[q].filled = reloader[q].filled
                 /\ reloader'[q].newlyAdded = reloader[q].newlyAdded
                 /\ reloader'[q].alone = FALSE /\ reloader'[q].clean = FALSE
<1>1. Idle \in BOOLEAN
  BY DEF Idle
<1>2. PICK b \in BOOLEAN : b = Idle
  BY <1>1
<1>3. runners \in SUBSET Keys
  BY DEF TypeOK
<1>4. reloader' = [q \in Reloaders |->
            IF q = r THEN [IdleReloader EXCEPT !.pc = "load", !.prior = runners,
                                               !.alone = b, !.clean = b]
            ELSE [reloader[q] EXCEPT !.alone = FALSE, !.clean = FALSE]]
  BY <1>2 DEF Begin
<1>5. [IdleReloader EXCEPT !.pc = "load", !.prior = runners, !.alone = b, !.clean = b]
         \in Reloader
  BY <1>3 DEF IdleReloader, Reloader
<1>t. \A q \in Reloaders : reloader[q] \in Reloader
  BY DEF TypeOK
<1>6. ASSUME NEW q \in Reloaders
      PROVE  [reloader[q] EXCEPT !.alone = FALSE, !.clean = FALSE] \in Reloader
  <2>1. PICK x \in Reloader : x = reloader[q]
    BY <1>t
  <2>2. [x EXCEPT !.alone = FALSE, !.clean = FALSE] \in Reloader
    BY <2>1 DEF Reloader
  <2> QED
    BY <2>1, <2>2
<1>7. reloader' \in [Reloaders -> Reloader]
  BY <1>4, <1>5, <1>6
<1>8. reloader[r].pc = "idle"
  BY DEF Begin, At
<1>9. /\ reloader'[r].pc = "load" /\ reloader'[r].prior = runners
      /\ reloader'[r].filled = {} /\ reloader'[r].newlyAdded = {}
      /\ reloader'[r].alone = b /\ reloader'[r].clean = b
  BY <1>4 DEF IdleReloader
<1>10. ASSUME NEW q \in Reloaders, q # r
       PROVE  /\ reloader'[q].pc = reloader[q].pc
              /\ reloader'[q].filled = reloader[q].filled
              /\ reloader'[q].newlyAdded = reloader[q].newlyAdded
              /\ reloader'[q].alone = FALSE /\ reloader'[q].clean = FALSE
  BY <1>4, <1>10 DEF TypeOK, Reloader
<1> QED
  BY <1>2, <1>7, <1>8, <1>9, <1>10

(* An edit of the config directory takes only the clean flags.             *)
LEMMA DisturbEffect ==
    ASSUME TypeOK, Disturb
    PROVE  /\ reloader' \in [Reloaders -> Reloader]
           /\ \A r \in Reloaders :
                 /\ reloader'[r].pc = reloader[r].pc
                 /\ SamePlan(r) /\ SameWork(r)
                 /\ reloader'[r].alone = reloader[r].alone
                 /\ reloader'[r].clean = FALSE
<1>2. ASSUME NEW r \in Reloaders
      PROVE  [reloader[r] EXCEPT !.clean = FALSE] \in Reloader
  <2>t. reloader[r] \in Reloader
    BY DEF TypeOK
  <2>1. QED
    BY <2>t DEF Reloader
<1>3. reloader' \in [Reloaders -> Reloader]
  BY <1>2 DEF Disturb
<1>4. ASSUME NEW r \in Reloaders
      PROVE  /\ reloader'[r].pc = reloader[r].pc
             /\ reloader'[r].alone = reloader[r].alone
             /\ reloader'[r].clean = FALSE
  BY DEF Disturb, TypeOK, Reloader
<1>5. ASSUME NEW r \in Reloaders
      PROVE  SamePlan(r) /\ SameWork(r)
  BY DEF Disturb, TypeOK, Reloader, SamePlan, SameWork
<1> QED
  BY <1>3, <1>4, <1>5

LEMMA LoadReadsEffect ==
    ASSUME TypeOK, NEW r \in Reloaders, LoadReads(r)
    PROVE  /\ reloader' \in [Reloaders -> Reloader]
           /\ Others(r)
           /\ reloader[r].pc = "load"
           /\ \/ Reset(r)
              \/ /\ reloader'[r].pc = "swap" /\ reloader'[r].next = config
                 /\ reloader'[r].prior = reloader[r].prior
                 /\ SameWork(r) /\ SameFlags(r)
<1>1. CASE broken
  BY <1>1, IdleType DEF TypeOK, LoadReads, At, Others, Reset
<1>2. CASE ~broken
  <2>1. PICK c \in SUBSET Keys : c = config
    BY DEF TypeOK
  <2>2. reloader' = [reloader EXCEPT ![r].pc = "swap", ![r].next = c]
    BY <1>2, <2>1 DEF LoadReads
  <2>3. reloader' \in [Reloaders -> Reloader]
    <3>t. reloader[r] \in Reloader
      BY DEF TypeOK
    <3>1. [reloader[r] EXCEPT !.pc = "swap", !.next = c] \in Reloader
      BY <3>t DEF Reloader
    <3>2. reloader' = [reloader EXCEPT ![r] = [reloader[r] EXCEPT !.pc = "swap", !.next = c]]
      BY <2>2 DEF TypeOK
    <3> QED
      BY <3>1, <3>2 DEF TypeOK
  <2>4. Others(r)
    BY <2>2 DEF TypeOK, Others
  <2>5. /\ reloader'[r].pc = "swap" /\ reloader'[r].next = c
        /\ reloader'[r].prior = reloader[r].prior
        /\ SameWork(r) /\ SameFlags(r)
    BY <2>2 DEF TypeOK, Reloader, SameWork, SameFlags
  <2> QED
    BY <2>1, <2>3, <2>4, <2>5 DEF LoadReads, At
<1> QED
  BY <1>1, <1>2

LEMMA LoadSwapsEffect ==
    ASSUME TypeOK, NEW r \in Reloaders, LoadSwaps(r)
    PROVE  /\ reloader' \in [Reloaders -> Reloader]
           /\ Others(r)
           /\ reloader[r].pc = "swap" /\ reloader'[r].pc = "diff"
           /\ SamePlan(r) /\ SameWork(r) /\ SameFlags(r)
<1>t. reloader[r] \in Reloader
  BY DEF TypeOK
<1>1. PICK x : x = [reloader[r] EXCEPT !.pc = "diff"]
  OBVIOUS
<1>2. x \in Reloader
  BY <1>t, <1>1 DEF Reloader
<1>3. reloader' = [reloader EXCEPT ![r] = x]
  BY <1>1 DEF LoadSwaps
<1>4. reloader' \in [Reloaders -> Reloader] /\ Others(r) /\ reloader'[r] = x
  BY <1>2, <1>3, OneReloader
<1> QED
  BY <1>t, <1>1, <1>4 DEF Reloader, LoadSwaps, At, SamePlan, SameWork, SameFlags

LEMMA DiffEffect ==
    ASSUME TypeOK, NEW r \in Reloaders, Diff(r)
    PROVE  /\ reloader' \in [Reloaders -> Reloader]
           /\ Others(r)
           /\ reloader[r].pc = "diff" /\ reloader'[r].pc = "apply"
           /\ reloader'[r].added = registry \ reloader[r].prior
           /\ reloader'[r].removed = reloader[r].prior \ registry
           /\ SameWork(r) /\ SameFlags(r)
<1>1. PICK a \in SUBSET Keys : a = registry \ reloader[r].prior
  BY DEF TypeOK, Reloader
<1>2. PICK d \in SUBSET Keys : d = reloader[r].prior \ registry
  BY DEF TypeOK, Reloader
<1>3. reloader' = [reloader EXCEPT ![r].pc = "apply",
                                    ![r].added = a,
                                    ![r].removed = d]
  BY <1>1, <1>2 DEF Diff
<1>4. reloader' \in [Reloaders -> Reloader]
  <2>t. reloader[r] \in Reloader
    BY DEF TypeOK
  <2>1. [reloader[r] EXCEPT !.pc = "apply", !.added = a, !.removed = d] \in Reloader
    BY <2>t DEF Reloader
  <2>2. reloader' = [reloader EXCEPT ![r] = [reloader[r] EXCEPT !.pc = "apply", !.added = a, !.removed = d]]
    BY <1>3 DEF TypeOK
  <2> QED
    BY <2>1, <2>2 DEF TypeOK
<1>5. Others(r)
  BY <1>3 DEF TypeOK, Others
<1>6. /\ reloader'[r].pc = "apply"
      /\ reloader'[r].added = a
      /\ reloader'[r].removed = d
      /\ SameWork(r) /\ SameFlags(r)
  BY <1>3 DEF TypeOK, Reloader, SameFlags, SameWork, SamePlan
<1>7. /\ reloader[r].pc = "diff"
  BY DEF Diff, At, Live
<1> QED
  BY <1>1, <1>2, <1>4, <1>5, <1>6, <1>7

LEMMA RemoveEffect ==
    ASSUME TypeOK, NEW r \in Reloaders, NEW k \in Keys, Remove(r, k)
    PROVE  /\ reloader' \in [Reloaders -> Reloader]
           /\ Others(r)
           /\ reloader[r].pc = "apply" /\ reloader'[r].pc = "apply"
           /\ reloader'[r].added = reloader[r].added
           /\ k \in reloader[r].removed
           /\ reloader'[r].removed = reloader[r].removed \ {k}
           /\ SameWork(r) /\ SameFlags(r)
<1>t. reloader[r] \in Reloader
  BY DEF TypeOK
<1>d. PICK d \in SUBSET Keys : d = reloader[r].removed \ {k}
  BY <1>t DEF Reloader
<1>1. PICK x : x = [reloader[r] EXCEPT !.removed = d]
  OBVIOUS
<1>2. x \in Reloader
  BY <1>t, <1>1 DEF Reloader
<1>3. reloader' = [reloader EXCEPT ![r] = x]
  BY <1>1, <1>d DEF Remove
<1>4. reloader' \in [Reloaders -> Reloader] /\ Others(r) /\ reloader'[r] = x
  BY <1>2, <1>3, OneReloader
<1> QED
  BY <1>t, <1>1, <1>d, <1>4 DEF Reloader, Remove, At, SameWork, SameFlags

LEMMA AddEffect ==
    ASSUME TypeOK, NEW r \in Reloaders, NEW k \in Keys, Add(r, k)
    PROVE  /\ reloader' \in [Reloaders -> Reloader]
           /\ Others(r)
           /\ reloader[r].pc = "apply" /\ reloader'[r].pc = "apply"
           /\ k \in reloader[r].added /\ reloader[r].removed = {}
           /\ reloader'[r].added = reloader[r].added \ {k}
           /\ reloader'[r].removed = {}
           /\ SameWork(r)
           /\ reloader'[r].alone = reloader[r].alone
           /\ \/ /\ reloader'[r].clean = reloader[r].clean
                 /\ runners' = IF k \in registry THEN runners \cup {k} ELSE runners
                 /\ faults' = faults
              \/ /\ reloader'[r].clean = FALSE
                 /\ runners' = runners
                 /\ faults' = faults + 1
<1>1. CASE reloader' = [reloader EXCEPT ![r].added = @ \ {k}]
           /\ runners' = (IF k \in registry THEN runners \cup {k} ELSE runners)
           /\ faults' = faults
  <2>t. reloader[r] \in Reloader
    BY DEF TypeOK
  <2>1. PICK a \in SUBSET Keys : a = reloader[r].added \ {k}
    BY <2>t DEF Reloader
  <2>2. PICK x : x = [reloader[r] EXCEPT !.added = a]
    OBVIOUS
  <2>3. x \in Reloader
    BY <2>t, <2>2 DEF Reloader
  <2>4. reloader' = [reloader EXCEPT ![r] = x]
    BY <1>1, <2>1, <2>2
  <2>5. reloader' \in [Reloaders -> Reloader] /\ Others(r) /\ reloader'[r] = x
    BY <2>3, <2>4, OneReloader
  <2> QED
    BY <1>1, <2>t, <2>1, <2>2, <2>5 DEF Reloader, Add, At, SameWork
<1>2. CASE reloader' = [reloader EXCEPT ![r].added = @ \ {k}, ![r].clean = FALSE]
           /\ runners' = runners /\ faults' = faults + 1
  <2>1. PICK a \in SUBSET Keys : a = reloader[r].added \ {k}
    BY DEF TypeOK, Reloader
  <2>2. reloader' = [reloader EXCEPT ![r].added = a, ![r].clean = FALSE]
    BY <1>2, <2>1
  <2>3. reloader' \in [Reloaders -> Reloader]
    <3>t. reloader[r] \in Reloader
      BY DEF TypeOK
    <3>1. [reloader[r] EXCEPT !.added = a, !.clean = FALSE] \in Reloader
      BY <3>t DEF Reloader
    <3>2. reloader' = [reloader EXCEPT ![r] = [reloader[r] EXCEPT !.added = a, !.clean = FALSE]]
      BY <2>2 DEF TypeOK
    <3> QED
      BY <3>1, <3>2 DEF TypeOK
  <2>4. Others(r)
    BY <2>2 DEF TypeOK, Others
  <2>5. /\ reloader'[r].added = a /\ reloader'[r].clean = FALSE
        /\ reloader'[r].pc = reloader[r].pc
        /\ reloader'[r].removed = reloader[r].removed
        /\ reloader'[r].alone = reloader[r].alone
        /\ SameWork(r)
    BY <2>2 DEF TypeOK, Reloader, SameWork
  <2> QED
    BY <1>2, <2>1, <2>3, <2>4, <2>5 DEF Add, At
<1> QED
  BY <1>1, <1>2 DEF Add, Fault

LEMMA StageEffect ==
    ASSUME TypeOK, NEW r \in Reloaders, Stage(r)
    PROVE  /\ reloader' \in [Reloaders -> Reloader]
           /\ Others(r)
           /\ reloader[r].pc = "apply" /\ reloader'[r].pc = "lock"
           /\ reloader[r].removed = {} /\ reloader[r].added = {}
           /\ reloader'[r].fresh = registry
           /\ reloader'[r].filled = reloader[r].filled
           /\ reloader'[r].newlyAdded = reloader[r].newlyAdded
           /\ SameFlags(r)
<1>1. PICK f \in SUBSET Keys : f = registry
  BY DEF TypeOK, Reloader
<1>2. reloader' = [reloader EXCEPT ![r].pc = "lock",
                                    ![r].fresh = f]
  BY <1>1 DEF Stage
<1>3. reloader' \in [Reloaders -> Reloader]
  <2>1. [reloader[r] EXCEPT !.pc = "lock", !.fresh = f] \in Reloader
    <3>1. PICK v \in Reloader : v = reloader[r]
      BY DEF TypeOK
    <3>2. [v EXCEPT !.pc = "lock", !.fresh = f] \in Reloader
      BY DEF Reloader
    <3> QED
      BY <3>1, <3>2
  <2>2. reloader' = [reloader EXCEPT ![r] = [reloader[r] EXCEPT !.pc = "lock", !.fresh = f]]
    BY <1>2 DEF TypeOK
  <2> QED
    BY <2>1, <2>2 DEF TypeOK
<1>4. Others(r)
  BY <1>2 DEF TypeOK, Others
<1>5. /\ reloader'[r].pc = "lock"
      /\ reloader'[r].fresh = f
      /\ reloader'[r].filled = reloader[r].filled
      /\ reloader'[r].newlyAdded = reloader[r].newlyAdded
      /\ SameFlags(r)
  BY <1>2 DEF TypeOK, Reloader, SameFlags, SameWork, SamePlan
<1>6. /\ reloader[r].pc = "apply"
      /\ reloader[r].removed = {} /\ reloader[r].added = {}
  BY DEF Stage, At, Live
<1> QED
  BY <1>1, <1>3, <1>4, <1>5, <1>6

LEMMA AcquireEffect ==
    ASSUME TypeOK, NEW r \in Reloaders, Acquire(r)
    PROVE  /\ reloader' \in [Reloaders -> Reloader]
           /\ Others(r)
           /\ reloader[r].pc = "lock" /\ reloader'[r].pc = "build"
           /\ reloader'[r].fresh = reloader[r].fresh
           /\ reloader'[r].needed = ProfilesOf(reloader[r].fresh)
           /\ reloader'[r].filled = reloader[r].filled
           /\ reloader'[r].newlyAdded = reloader[r].newlyAdded
           /\ SameFlags(r)
<1>1. PICK n \in SUBSET Profiles : n = ProfilesOf(reloader[r].fresh)
  <2>1. reloader[r].fresh \subseteq Profiles \X Vaults
    BY DEF TypeOK, Reloader, Keys
  <2> QED
    BY <2>1 DEF ProfilesOf
<1>2. reloader' = [reloader EXCEPT ![r].pc = "build",
                                    ![r].needed = n]
  BY <1>1 DEF Acquire
<1>3. reloader' \in [Reloaders -> Reloader]
  <2>t. reloader[r] \in Reloader
    BY DEF TypeOK
  <2>1. [reloader[r] EXCEPT !.pc = "build", !.needed = n] \in Reloader
    BY <2>t DEF Reloader
  <2>2. reloader' = [reloader EXCEPT ![r] = [reloader[r] EXCEPT !.pc = "build", !.needed = n]]
    BY <1>2 DEF TypeOK
  <2> QED
    BY <2>1, <2>2 DEF TypeOK
<1>4. Others(r)
  BY <1>2 DEF TypeOK, Others
<1>5. /\ reloader'[r].pc = "build"
      /\ reloader'[r].needed = n
      /\ reloader'[r].fresh = reloader[r].fresh
      /\ reloader'[r].filled = reloader[r].filled
      /\ reloader'[r].newlyAdded = reloader[r].newlyAdded
      /\ SameFlags(r)
  BY <1>2 DEF TypeOK, Reloader, SameFlags, SameWork, SamePlan
<1>6. /\ reloader[r].pc = "lock"
  BY DEF Acquire, At, Live
<1> QED
  BY <1>1, <1>3, <1>4, <1>5, <1>6

LEMMA BuildProfileEffect ==
    ASSUME TypeOK, NEW r \in Reloaders, NEW p \in Profiles, BuildProfile(r, p)
    PROVE  /\ reloader' \in [Reloaders -> Reloader]
           /\ Others(r)
           /\ reloader[r].pc = "build" /\ reloader'[r].pc = "build"
           /\ pgProfiles[p] = 0
           /\ reloader'[r].newlyAdded = reloader[r].newlyAdded \cup {p}
           /\ reloader'[r].fresh = reloader[r].fresh
           /\ reloader'[r].needed = reloader[r].needed
           /\ reloader'[r].filled = reloader[r].filled
           /\ SameFlags(r)
<1>p. pgProfiles[p] = 0
  BY DEF BuildProfile, Live
<1>t. reloader[r] \in Reloader
  BY DEF TypeOK
<1>n. PICK n \in SUBSET Profiles : n = reloader[r].newlyAdded \cup {p}
  BY <1>t DEF Reloader
<1>1. PICK x : x = [reloader[r] EXCEPT !.newlyAdded = n]
  OBVIOUS
<1>2. x \in Reloader
  BY <1>t, <1>1 DEF Reloader
<1>3. reloader' = [reloader EXCEPT ![r] = x]
  BY <1>1, <1>n DEF BuildProfile
<1>4. reloader' \in [Reloaders -> Reloader] /\ Others(r) /\ reloader'[r] = x
  BY <1>2, <1>3, OneReloader
<1> QED
  BY <1>p, <1>t, <1>1, <1>n, <1>4 DEF Reloader, BuildProfile, At, SameFlags

LEMMA BuildFailsEffect ==
    ASSUME TypeOK, NEW r \in Reloaders, BuildFails(r)
    PROVE  /\ reloader' \in [Reloaders -> Reloader]
           /\ Others(r)
           /\ reloader[r].pc \in Critical
           /\ Reset(r)
BY IdleType DEF TypeOK, BuildFails, PublishFresh, At, Others, Reset, Critical

LEMMA PipelineEffect ==
    ASSUME TypeOK, NEW r \in Reloaders, Pipeline(r)
    PROVE  /\ reloader' \in [Reloaders -> Reloader]
           /\ Others(r)
           /\ reloader[r].pc = "build" /\ reloader'[r].pc = "publish"
           /\ \A p \in reloader[r].needed : pgProfiles[p] # 0
           /\ reloader'[r].todo = registry \cap reloader[r].fresh
           /\ reloader'[r].fresh = reloader[r].fresh
           /\ reloader'[r].needed = reloader[r].needed
           /\ reloader'[r].filled = reloader[r].filled
           /\ reloader'[r].newlyAdded = reloader[r].newlyAdded
           /\ SameFlags(r)
<1>1. PICK t \in SUBSET Keys : t = registry \cap reloader[r].fresh
  BY DEF TypeOK, Reloader
<1>2. reloader' = [reloader EXCEPT ![r].pc = "publish",
                                    ![r].todo = t]
  BY <1>1 DEF Pipeline
<1>3. reloader' \in [Reloaders -> Reloader]
  <2>t. reloader[r] \in Reloader
    BY DEF TypeOK
  <2>1. [reloader[r] EXCEPT !.pc = "publish", !.todo = t] \in Reloader
    BY <2>t DEF Reloader
  <2>2. reloader' = [reloader EXCEPT ![r] = [reloader[r] EXCEPT !.pc = "publish", !.todo = t]]
    BY <1>2 DEF TypeOK
  <2> QED
    BY <2>1, <2>2 DEF TypeOK
<1>4. Others(r)
  BY <1>2 DEF TypeOK, Others
<1>5. /\ reloader'[r].pc = "publish"
      /\ reloader'[r].todo = t
      /\ reloader'[r].fresh = reloader[r].fresh
      /\ reloader'[r].needed = reloader[r].needed
      /\ reloader'[r].filled = reloader[r].filled
      /\ reloader'[r].newlyAdded = reloader[r].newlyAdded
      /\ SameFlags(r)
  BY <1>2 DEF TypeOK, Reloader, SameFlags, SameWork, SamePlan
<1>6. /\ reloader[r].pc = "build"
      /\ \A p \in reloader[r].needed : pgProfiles[p] # 0
  BY DEF Pipeline, At, Live
<1> QED
  BY <1>1, <1>3, <1>4, <1>5, <1>6

LEMMA PublishEffect ==
    ASSUME TypeOK, NEW r \in Reloaders, NEW k \in Keys, Publish(r, k)
    PROVE  /\ reloader' \in [Reloaders -> Reloader]
           /\ Others(r)
           /\ reloader[r].pc = "publish" /\ reloader'[r].pc = "publish"
           /\ k \in reloader[r].todo
           /\ reloader'[r].todo = reloader[r].todo \ {k}
           /\ reloader'[r].filled = reloader[r].filled \cup {k}
           /\ reloader'[r].fresh = reloader[r].fresh
           /\ reloader'[r].needed = reloader[r].needed
           /\ reloader'[r].newlyAdded = reloader[r].newlyAdded
           /\ SameFlags(r)
<1>1. PICK t \in SUBSET Keys : t = reloader[r].todo \ {k}
  BY DEF TypeOK, Reloader
<1>2. PICK f \in SUBSET Keys : f = reloader[r].filled \cup {k}
  BY DEF TypeOK, Reloader
<1>3. reloader' = [reloader EXCEPT ![r].todo = t,
                                    ![r].filled = f]
  BY <1>1, <1>2 DEF Publish
<1>4. reloader' \in [Reloaders -> Reloader]
  <2>t. reloader[r] \in Reloader
    BY DEF TypeOK
  <2>1. [reloader[r] EXCEPT !.todo = t, !.filled = f] \in Reloader
    BY <2>t DEF Reloader
  <2>2. reloader' = [reloader EXCEPT ![r] = [reloader[r] EXCEPT !.todo = t, !.filled = f]]
    BY <1>3 DEF TypeOK
  <2> QED
    BY <2>1, <2>2 DEF TypeOK
<1>5. Others(r)
  BY <1>3 DEF TypeOK, Others
<1>6. /\ reloader'[r].todo = t
      /\ reloader'[r].filled = f
      /\ reloader'[r].pc = reloader[r].pc
      /\ reloader'[r].fresh = reloader[r].fresh
      /\ reloader'[r].needed = reloader[r].needed
      /\ reloader'[r].newlyAdded = reloader[r].newlyAdded
      /\ SameFlags(r)
  BY <1>3 DEF TypeOK, Reloader, SameFlags, SameWork, SamePlan
<1>7. /\ reloader[r].pc = "publish"
      /\ k \in reloader[r].todo
  BY DEF Publish, At, Live
<1> QED
  BY <1>1, <1>2, <1>4, <1>5, <1>6, <1>7

LEMMA PublishedEffect ==
    ASSUME TypeOK, NEW r \in Reloaders, Published(r)
    PROVE  /\ reloader' \in [Reloaders -> Reloader]
           /\ Others(r)
           /\ reloader[r].pc = "publish" /\ reloader'[r].pc = "start"
           /\ reloader[r].todo = {}
           /\ SameWork(r) /\ SameFlags(r)
<1>t. reloader[r] \in Reloader
  BY DEF TypeOK
<1>1. PICK x : x = [reloader[r] EXCEPT !.pc = "start"]
  OBVIOUS
<1>2. x \in Reloader
  BY <1>t, <1>1 DEF Reloader
<1>3. reloader' = [reloader EXCEPT ![r] = x]
  BY <1>1 DEF Published
<1>4. reloader' \in [Reloaders -> Reloader] /\ Others(r) /\ reloader'[r] = x
  BY <1>2, <1>3, OneReloader
<1> QED
  BY <1>t, <1>1, <1>4 DEF Reloader, Published, At, SameWork, SameFlags

LEMMA StartRiverEffect ==
    ASSUME TypeOK, NEW r \in Reloaders, NEW p \in Profiles, StartRiver(r, p)
    PROVE  /\ reloader' \in [Reloaders -> Reloader]
           /\ Others(r)
           /\ reloader[r].pc = "start" /\ reloader'[r].pc = "start"
           /\ p \in reloader[r].newlyAdded
           /\ reloader'[r].newlyAdded = reloader[r].newlyAdded \ {p}
           /\ reloader'[r].fresh = reloader[r].fresh
           /\ reloader'[r].needed = reloader[r].needed
           /\ reloader'[r].filled = reloader[r].filled
           /\ reloader'[r].todo = reloader[r].todo
           /\ SameFlags(r)
<1>t. reloader[r] \in Reloader
  BY DEF TypeOK
<1>n. PICK n \in SUBSET Profiles : n = reloader[r].newlyAdded \ {p}
  BY <1>t DEF Reloader
<1>1. PICK x : x = [reloader[r] EXCEPT !.newlyAdded = n]
  OBVIOUS
<1>2. x \in Reloader
  BY <1>t, <1>1 DEF Reloader
<1>3. reloader' = [reloader EXCEPT ![r] = x]
  BY <1>1, <1>n DEF StartRiver
<1>4. reloader' \in [Reloaders -> Reloader] /\ Others(r) /\ reloader'[r] = x
  BY <1>2, <1>3, OneReloader
<1> QED
  BY <1>t, <1>1, <1>n, <1>4 DEF Reloader, StartRiver, At, SameFlags

LEMMA StartFailsEffect ==
    ASSUME TypeOK, NEW r \in Reloaders, StartFails(r)
    PROVE  /\ reloader' \in [Reloaders -> Reloader]
           /\ Others(r)
           /\ reloader[r].pc = "start"
           /\ Reset(r)
BY IdleType DEF TypeOK, StartFails, At, Others, Reset

LEMMA DoneEffect ==
    ASSUME TypeOK, NEW r \in Reloaders, Done(r)
    PROVE  /\ reloader' \in [Reloaders -> Reloader]
           /\ Others(r)
           /\ reloader[r].pc = "start"
           /\ Reset(r)
BY IdleType DEF TypeOK, Done, At, Others, Reset

-----------------------------------------------------------------------------
(* The basic invariant.                                                    *)

(* A step inside one reload that leaves the pools alone.                   *)
LEMMA Internal ==
    ASSUME Base, NEW r \in Reloaders, TypeOK', Others(r),
           reloader[r].pc # "idle", reloader'[r].pc # "idle",
           reloader'[r].pc \in Critical <=> reloader[r].pc \in Critical,
           reloader'[r].alone = reloader[r].alone,
           reloader'[r].clean => reloader[r].clean,
           reloader'[r].filled = reloader[r].filled \/ reloader'[r].pc \in {"publish", "start"},
           reloader[r].pc \in {"publish", "start"} => reloader'[r].pc \in {"publish", "start"},
           reloader'[r].newlyAdded \subseteq reloader[r].newlyAdded,
           UNCHANGED <<pgProfiles, open, nextPool, pgMu, last>>
    PROVE  Base'
<1>1. Pooled'
  BY DEF Base, Pooled
<1>2. Mutex'
  BY DEF Base, Mutex, Others
<1>3. last = "none"
  BY DEF Base, Lonely, Idle, At
<1>4. Lonely'
  BY <1>3 DEF Base, Lonely, Others, At
<1>5. Blank'
  BY DEF Base, Blank, Others
<1> QED
  BY <1>1, <1>2, <1>4, <1>5 DEF Base

(* The end of a reload: its local state goes, and pgMu if it held it.      *)
LEMMA Quits ==
    ASSUME Base, NEW r \in Reloaders, TypeOK', Others(r), Reset(r),
           reloader[r].pc # "idle",
           reloader[r].pc \in Critical => pgMu' = Nobody,
           ~ (reloader[r].pc \in Critical) => pgMu' = pgMu,
           last' # "none" => reloader[r].alone \/ last' = last,
           UNCHANGED <<pgProfiles, open, nextPool>>
    PROVE  Base'
<1>0. /\ reloader'[r].pc = "idle" /\ reloader'[r].filled = {}
      /\ reloader'[r].newlyAdded = {}
      /\ reloader'[r].alone = FALSE /\ reloader'[r].clean = FALSE
  BY IdleType DEF Reset
<1>1. Pooled'
  BY DEF Base, Pooled
<1>2. Mutex'
  BY <1>0 DEF Base, Mutex, Others, Critical, Nobody, Reloaders
<1>3. last = "none"
  BY DEF Base, Lonely, Idle, At
<1>4. Lonely'
  BY <1>0, <1>3 DEF Base, Lonely, Others, At, Idle
<1>5. Blank'
  BY <1>0 DEF Base, Blank, Others
<1> QED
  BY <1>1, <1>2, <1>4, <1>5 DEF Base

(* The start of a reload.                                                  *)
LEMMA Begins ==
    ASSUME Base, NEW r \in Reloaders, Begin(r), TypeOK',
           UNCHANGED <<pgProfiles, open, nextPool, pgMu>>
    PROVE  Base'
<1>0. /\ reloader[r].pc = "idle" /\ reloader'[r].pc = "load"
      /\ reloader'[r].filled = {} /\ reloader'[r].newlyAdded = {}
      /\ reloader'[r].alone = Idle /\ reloader'[r].clean = Idle
      /\ \A q \in Reloaders : q # r =>
            /\ reloader'[q].pc = reloader[q].pc
            /\ reloader'[q].filled = reloader[q].filled
            /\ reloader'[q].newlyAdded = reloader[q].newlyAdded
            /\ reloader'[q].alone = FALSE /\ reloader'[q].clean = FALSE
  BY BeginEffect DEF Base
<1>1. Pooled'
  BY DEF Base, Pooled
<1>2. Mutex'
  BY <1>0 DEF Base, Mutex, Critical
<1>3. last' = "none"
  BY DEF Begin
<1>4. Lonely'
  BY <1>0, <1>3 DEF Lonely, At, Idle
<1>5. Blank'
  BY <1>0 DEF Base, Blank, Critical
<1> QED
  BY <1>1, <1>2, <1>4, <1>5 DEF Base

(* An edit of the config directory.                                        *)
LEMMA Disturbs ==
    ASSUME Base, Disturb, TypeOK', UNCHANGED <<pgProfiles, open, nextPool, pgMu>>
    PROVE  Base'
<1>0. \A r \in Reloaders :
         /\ reloader'[r].pc = reloader[r].pc
         /\ reloader'[r].filled = reloader[r].filled
         /\ reloader'[r].newlyAdded = reloader[r].newlyAdded
         /\ reloader'[r].alone = reloader[r].alone
         /\ reloader'[r].clean = FALSE
  BY DisturbEffect DEF Base, SameWork
<1>1. Pooled'
  BY DEF Base, Pooled
<1>2. Mutex'
  BY <1>0 DEF Base, Mutex
<1>3. last' # "none" => last # "none"
  BY DEF Disturb, Base, TypeOK
<1>4. Lonely'
  BY <1>0, <1>3 DEF Base, Lonely, At, Idle
<1>5. Blank'
  BY <1>0 DEF Base, Blank
<1> QED
  BY <1>1, <1>2, <1>4, <1>5 DEF Base

(* Every step of a reload keeps the basic invariant.                       *)
LEMMA LoadReadsBase ==
    ASSUME Base, NEW r \in Reloaders, LoadReads(r)
    PROVE  Base'
<1>0. TypeOK'
  BY LoadReadsEffect DEF Base, TypeOK, LoadReads, files, pg, bounds
<1>1. CASE Reset(r)
  BY <1>0, <1>1, LoadReadsEffect, Quits DEF Base, LoadReads, files, pg, bounds, Critical
<1>2. CASE reloader'[r].pc = "swap" /\ SameWork(r) /\ SameFlags(r)
  <2>1. UNCHANGED <<pgProfiles, open, nextPool, pgMu, last>>
    BY DEF LoadReads, pg
  <2>2. Others(r) /\ reloader[r].pc = "load"
    BY LoadReadsEffect DEF Base
  <2> QED
    BY <1>0, <1>2, <2>1, <2>2, Internal DEF SameWork, SameFlags, Critical
<1> QED
  BY <1>1, <1>2, LoadReadsEffect DEF Base

LEMMA LoadSwapsBase ==
    ASSUME Base, NEW r \in Reloaders, LoadSwaps(r)
    PROVE  Base'
<1>0. TypeOK'
  BY LoadSwapsEffect DEF Base, TypeOK, Reloader, LoadSwaps, files, pg, bounds
<1> QED
  BY <1>0, LoadSwapsEffect, Internal DEF Base, Blank, LoadSwaps, files, pg, bounds, SameWork, SameFlags, Critical

LEMMA DiffBase ==
    ASSUME Base, NEW r \in Reloaders, Diff(r)
    PROVE  Base'
<1>0. TypeOK'
  BY DiffEffect DEF Base, TypeOK, Diff, files, pg, bounds
<1> QED
  BY <1>0, DiffEffect, Internal DEF Base, Blank, Diff, files, pg, bounds, SameWork, SameFlags, Critical

LEMMA RemoveBase ==
    ASSUME Base, NEW r \in Reloaders, NEW k \in Keys, Remove(r, k)
    PROVE  Base'
<1>0. TypeOK'
  BY RemoveEffect DEF Base, TypeOK, Remove, files, pg, bounds
<1> QED
  BY <1>0, RemoveEffect, Internal DEF Base, Blank, Remove, files, pg, bounds, SameWork, SameFlags, Critical

LEMMA AddBase ==
    ASSUME Base, NEW r \in Reloaders, NEW k \in Keys, Add(r, k)
    PROVE  Base'
<1>1. UNCHANGED <<config, broken, registry, deps, pgProfiles, open, started, nextPool,
                  pgMu, last, edits, reloads>>
  BY DEF Add, files, pg
<1>2. /\ reloader' \in [Reloaders -> Reloader]
      /\ Others(r)
      /\ reloader[r].pc = "apply" /\ reloader'[r].pc = "apply"
      /\ SameWork(r)
      /\ reloader'[r].alone = reloader[r].alone
      /\ reloader'[r].clean = reloader[r].clean \/ reloader'[r].clean = FALSE
      /\ runners' \subseteq runners \cup {k}
      /\ faults' \in {faults, faults + 1}
  BY AddEffect DEF Base
<1>3. TypeOK'
  BY <1>1, <1>2 DEF Base, TypeOK
<1> QED
  BY <1>1, <1>2, <1>3, Internal DEF SameWork, Critical

LEMMA StageBase ==
    ASSUME Base, NEW r \in Reloaders, Stage(r)
    PROVE  Base'
<1>0. TypeOK'
  BY StageEffect DEF Base, TypeOK, Stage, files, pg, bounds
<1> QED
  BY <1>0, StageEffect, Internal DEF Base, Blank, Stage, files, pg, bounds, SameWork, SameFlags, Critical

LEMMA PipelineBase ==
    ASSUME Base, NEW r \in Reloaders, Pipeline(r)
    PROVE  Base'
<1>0. TypeOK'
  BY PipelineEffect DEF Base, TypeOK, Pipeline, files, pg, bounds
<1> QED
  BY <1>0, PipelineEffect, Internal DEF Base, Blank, Pipeline, files, pg, bounds, SameWork, SameFlags, Critical

LEMMA PublishBase ==
    ASSUME Base, NEW r \in Reloaders, NEW k \in Keys, Publish(r, k)
    PROVE  Base'
<1>1. k[1] \in Profiles
  BY DEF Keys
<1>2. deps' \in [Keys -> {Unpublished, NoPG} \cup Pools]
  BY <1>1 DEF Base, TypeOK, Publish, NoPG
<1>3. TypeOK'
  BY <1>2, PublishEffect DEF Base, TypeOK, Publish, files, pg, bounds
<1> QED
  BY <1>3, PublishEffect, Internal DEF Base, Publish, files, pg, bounds, SameFlags, Critical

LEMMA PublishedBase ==
    ASSUME Base, NEW r \in Reloaders, Published(r)
    PROVE  Base'
<1>0. TypeOK'
  BY PublishedEffect DEF Base, TypeOK, Published, files, pg, bounds
<1> QED
  BY <1>0, PublishedEffect, Internal DEF Base, Blank, Published, files, pg, bounds, SameWork, SameFlags, Critical

LEMMA StartRiverBase ==
    ASSUME Base, NEW r \in Reloaders, NEW p \in Profiles, StartRiver(r, p)
    PROVE  Base'
<1>1. pgProfiles[p] \in open
  BY StartRiverEffect DEF Base, Pooled, Blank
<1>2. TypeOK'
  BY <1>1, StartRiverEffect DEF Base, TypeOK, StartRiver, files, bounds
<1> QED
  BY <1>2, StartRiverEffect, Internal DEF Base, StartRiver, files, bounds, SameFlags, Critical

LEMMA BuildFailsBase ==
    ASSUME Base, NEW r \in Reloaders, BuildFails(r)
    PROVE  Base'
<1>1. \A k \in Keys : k[1] \in Profiles
  BY DEF Keys
<1>2. deps' \in [Keys -> {Unpublished, NoPG} \cup Pools]
  <2>1. deps' = [k \in Keys |->
                  IF k \notin reloader[r].fresh THEN deps[k]
                  ELSE IF k \in reloader[r].filled THEN pgProfiles[k[1]] ELSE NoPG]
    BY DEF BuildFails, PublishFresh
  <2> QED
    BY <1>1, <2>1 DEF Base, TypeOK, NoPG
<1>3. /\ UNCHANGED <<config, broken, registry, runners, pgProfiles, open, started,
                     nextPool, edits, reloads>>
      /\ pgMu' = Nobody /\ faults' = faults + 1
  BY DEF BuildFails, PublishFresh, Fault, files, pg
<1>4. /\ last' \in {"none", "solo", "clean"}
      /\ last' # "none" => reloader[r].alone
  BY DEF BuildFails, PublishFresh, Solo
<1>5. TypeOK'
  BY <1>2, <1>3, <1>4, BuildFailsEffect DEF Base, TypeOK
<1> QED
  BY <1>3, <1>4, <1>5, BuildFailsEffect, Quits DEF Base, Critical

LEMMA StartFailsBase ==
    ASSUME Base, NEW r \in Reloaders, StartFails(r)
    PROVE  Base'
<1>3. /\ UNCHANGED <<config, broken, registry, runners, deps, pgProfiles, open, started,
                     nextPool, edits, reloads>>
      /\ pgMu' = Nobody /\ faults' = faults + 1
  BY DEF StartFails, Fault, files, pg
<1>4. /\ last' \in {"none", "solo", "clean"}
      /\ last' # "none" => reloader[r].alone
  BY DEF StartFails, Solo
<1>5. TypeOK'
  BY <1>3, <1>4, StartFailsEffect DEF Base, TypeOK
<1> QED
  BY <1>3, <1>4, <1>5, StartFailsEffect, Quits DEF Base, Critical

LEMMA DoneBase ==
    ASSUME Base, NEW r \in Reloaders, Done(r)
    PROVE  Base'
<1>3. /\ UNCHANGED <<config, broken, registry, runners, deps, pgProfiles, open, started,
                     nextPool, edits, reloads, faults>>
      /\ pgMu' = Nobody
  BY DEF Done, files, pg, bounds
<1>4. /\ last' \in {"none", "solo", "clean"}
      /\ last' # "none" => reloader[r].alone
  BY DEF Done, Solo, Base, Lonely
<1>5. TypeOK'
  BY <1>3, <1>4, DoneEffect DEF Base, TypeOK
<1> QED
  BY <1>3, <1>4, <1>5, DoneEffect, Quits DEF Base, Critical


LEMMA AcquireBase ==
    ASSUME Base, NEW r \in Reloaders, Acquire(r)
    PROVE  Base'
<1>1. /\ UNCHANGED <<config, broken, registry, runners, deps, pgProfiles, open, started,
                     nextPool, last, edits, reloads, faults>>
      /\ pgMu = Nobody /\ pgMu' = r
  BY DEF Acquire, files, pg, bounds
<1>2. TypeOK'
  BY <1>1, AcquireEffect DEF Base, TypeOK
<1>3. Pooled'
  BY <1>1 DEF Base, Pooled
<1>4. Mutex'
  BY <1>1, AcquireEffect DEF Base, Mutex, Others, Critical, Nobody, Reloaders
<1>5. Lonely'
  <2>1. last = "none"
    BY AcquireEffect DEF Base, Lonely, Idle, At
  <2> QED
    BY <1>1, <2>1, AcquireEffect DEF Base, Lonely, Others, At, SameFlags
<1>6. Blank'
  BY <1>1, AcquireEffect DEF Base, Blank, Others, Critical
<1> QED
  BY <1>2, <1>3, <1>4, <1>5, <1>6 DEF Base

LEMMA BuildProfileBase ==
    ASSUME Base, NEW r \in Reloaders, NEW p \in Profiles, BuildProfile(r, p)
    PROVE  Base'
<1>1. /\ UNCHANGED <<config, broken, registry, runners, deps, started, pgMu,
                     last, edits, reloads, faults>>
      /\ nextPool \in 1 .. MaxPools
      /\ pgProfiles' = [pgProfiles EXCEPT ![p] = nextPool]
      /\ open' = open \cup {nextPool}
      /\ nextPool' = nextPool + 1
  BY DEF BuildProfile, files, bounds, Pools
<1>2. MaxPools \in Nat
  BY ReloadAssumption
<1>3. TypeOK'
  BY <1>1, <1>2, BuildProfileEffect DEF Base, TypeOK, Pools
<1>4. Pooled'
  <2>1. /\ pgProfiles \in [Profiles -> {0} \cup Pools]
        /\ open \subseteq Pools
        /\ pgProfiles[p] = 0
        /\ \A n \in open : n # nextPool
    BY <1>1, BuildProfileEffect DEF Base, TypeOK, Pools, Pooled
  <2>2. \A q \in Profiles : pgProfiles'[q] # 0 => pgProfiles'[q] \in open'
    BY <1>1, <2>1 DEF Base, Pooled
  <2>3. \A q, t \in Profiles :
           pgProfiles'[q] # 0 /\ pgProfiles'[q] = pgProfiles'[t] => q = t
    BY <1>1, <2>1 DEF Base, Pooled
  <2>4. \A n \in open' : n < nextPool' /\ \E q \in Profiles : pgProfiles'[q] = n
    BY <1>1, <2>1 DEF Base, Pooled, Pools
  <2> QED
    BY <2>2, <2>3, <2>4 DEF Pooled
<1>5. Mutex'
  BY <1>1, BuildProfileEffect DEF Base, Mutex, Others
<1>6. Lonely'
  <2>1. last = "none"
    BY BuildProfileEffect DEF Base, Lonely, Idle, At
  <2> QED
    BY <1>1, <2>1, BuildProfileEffect DEF Base, Lonely, Others, At, SameFlags
<1>7. Blank'
  <2>1. \A q \in Profiles : pgProfiles[q] # 0 \/ q = p => pgProfiles'[q] # 0
    BY <1>1 DEF Base, TypeOK
  <2>2. \A q \in Reloaders : reloader[q].newlyAdded \subseteq Profiles
    BY DEF Base, TypeOK, Reloader
  <2> QED
    BY <2>1, <2>2, BuildProfileEffect DEF Base, Blank, Others, Critical
<1> QED
  BY <1>3, <1>4, <1>5, <1>6, <1>7 DEF Base

LEMMA CloseProfileBase ==
    ASSUME Base, NEW r \in Reloaders, NEW p \in Profiles, CloseProfile(r, p)
    PROVE  Base'
<1>1. /\ UNCHANGED <<config, broken, registry, runners, deps, nextPool, pgMu, reloader,
                     last, edits, reloads, faults>>
      /\ reloader[r].pc = "start" /\ reloader[r].newlyAdded = {}
      /\ pgProfiles[p] # 0
      /\ pgProfiles' = [pgProfiles EXCEPT ![p] = 0]
      /\ open' = open \ {pgProfiles[p]}
      /\ started' = started \ {pgProfiles[p]}
  BY DEF CloseProfile, files, bounds, At, Live
<1>2. TypeOK'
  BY <1>1 DEF Base, TypeOK
<1>3. Pooled'
  <2>1. pgProfiles \in [Profiles -> {0} \cup Pools]
    BY DEF Base, TypeOK
  <2>2. \A q \in Profiles : pgProfiles'[q] # 0 => pgProfiles'[q] \in open'
    BY <1>1, <2>1 DEF Base, Pooled
  <2>3. \A q, t \in Profiles :
           pgProfiles'[q] # 0 /\ pgProfiles'[q] = pgProfiles'[t] => q = t
    BY <1>1, <2>1 DEF Base, Pooled
  <2>4. \A n \in open' : n < nextPool' /\ \E q \in Profiles : pgProfiles'[q] = n
    BY <1>1, <2>1 DEF Base, Pooled
  <2> QED
    BY <2>2, <2>3, <2>4 DEF Pooled
<1>4. Mutex' /\ Lonely'
  BY <1>1 DEF Base, Mutex, Lonely, Idle, At
<1>5. Blank'
  <2>1. ASSUME NEW q \in Reloaders, q # r
        PROVE  reloader[q].newlyAdded = {}
    <3>1. reloader[r].pc \in Critical
      BY <1>1 DEF Critical
    <3>2. pgMu = r
      BY <3>1 DEF Base, Mutex
    <3>3. ~ (reloader[q].pc \in Critical)
      BY <2>1, <3>2 DEF Base, Mutex
    <3> QED
      BY <3>3 DEF Base, Blank
  <2> QED
    BY <1>1, <2>1 DEF Base, Blank
<1> QED
  BY <1>2, <1>3, <1>4, <1>5 DEF Base

-----------------------------------------------------------------------------
(* What a lone and an undisturbed reload know.                             *)

(* A step of one reload that ends in no verdict.                           *)
LEMMA Proceeds ==
    ASSUME Base, NEW r \in Reloaders, Others(r), reloader[r].pc # "idle",
           last' = last,
           reloader'[r].alone => CourseAt(r)',
           reloader'[r].clean => RunnersAt(r)'
    PROVE  Course' /\ Undisturbed' /\ FailedReloadIsSafe' /\ CleanReloadServesAll'
<1>1. last = "none"
  BY DEF Base, Lonely, Idle, At
<1>2. ASSUME NEW q \in Reloaders, q # r
      PROVE  ~reloader'[q].alone /\ ~reloader'[q].clean
  BY <1>2 DEF Base, Lonely, Others, At
<1>3. Course'
  BY <1>2 DEF Course
<1>4. Undisturbed'
  BY <1>2 DEF Undisturbed
<1> QED
  BY <1>1, <1>3, <1>4 DEF FailedReloadIsSafe, CleanReloadServesAll

(* The end of a reload, whose verdict holds when it is alone.              *)
LEMMA Ends ==
    ASSUME Base, NEW r \in Reloaders, Others(r), Reset(r), reloader[r].pc # "idle"
    PROVE  Course' /\ Undisturbed'
<1>1. ~reloader'[r].alone /\ ~reloader'[r].clean
  BY IdleType DEF Reset
<1>2. ASSUME NEW q \in Reloaders, q # r
      PROVE  ~reloader'[q].alone /\ ~reloader'[q].clean
  BY <1>2 DEF Base, Lonely, Others, At
<1> QED
  BY <1>1, <1>2 DEF Course, Undisturbed

LEMMA LoadReadsInv ==
    ASSUME ReloadInv, NEW r \in Reloaders, LoadReads(r)
    PROVE  ReloadInv'
<1>1. Base'
  BY LoadReadsBase DEF ReloadInv
<1>2. Base /\ TypeOK
  BY DEF ReloadInv, Base
<1>3. UNCHANGED <<config, registry, runners, last>>
  BY DEF LoadReads, files
<1>4. Others(r) /\ reloader[r].pc = "load"
  BY <1>2, LoadReadsEffect
<1>5. CASE Reset(r)
  <2>1. ~reloader'[r].alone /\ ~reloader'[r].clean
    BY <1>5, IdleType DEF Reset
  <2> QED
    BY <1>1, <1>2, <1>3, <1>4, <2>1, Proceeds DEF ReloadInv
<1>6. CASE /\ reloader'[r].pc = "swap" /\ reloader'[r].next = config
           /\ reloader'[r].prior = reloader[r].prior /\ SameFlags(r)
  <2>1. CourseAt(r)'
    BY <1>6 DEF CourseAt, Critical
  <2>2. reloader'[r].clean => RunnersAt(r)'
    BY <1>3, <1>4, <1>6 DEF ReloadInv, Undisturbed, RunnersAt, Critical, SameFlags
  <2> QED
    BY <1>1, <1>2, <1>3, <1>4, <2>1, <2>2, Proceeds DEF ReloadInv
<1> QED
  BY <1>2, <1>5, <1>6, LoadReadsEffect

LEMMA LoadSwapsInv ==
    ASSUME ReloadInv, NEW r \in Reloaders, LoadSwaps(r)
    PROVE  ReloadInv'
<1>1. Base'
  BY LoadSwapsBase DEF ReloadInv
<1>2. Base /\ TypeOK
  BY DEF ReloadInv, Base
<1>3. registry' = reloader[r].next /\ UNCHANGED <<config, runners, last>>
  BY DEF LoadSwaps, files
<1>4. Others(r) /\ reloader[r].pc # "idle"
  BY <1>2, LoadSwapsEffect
<1>5. reloader'[r].alone => CourseAt(r)'
  BY <1>2, LoadSwapsEffect DEF CourseAt, Critical
<1>6. reloader'[r].clean => RunnersAt(r)'
  BY <1>2, <1>3, LoadSwapsEffect DEF ReloadInv, Undisturbed, RunnersAt, Critical, SameFlags, SamePlan
<1> QED
  BY <1>1, <1>2, <1>3, <1>4, <1>5, <1>6, Proceeds DEF ReloadInv

LEMMA DiffInv ==
    ASSUME ReloadInv, NEW r \in Reloaders, Diff(r)
    PROVE  ReloadInv'
<1>1. Base'
  BY DiffBase DEF ReloadInv
<1>2. Base /\ TypeOK
  BY DEF ReloadInv, Base
<1>3. UNCHANGED <<config, registry, runners, last>>
  BY DEF Diff, files
<1>4. Others(r) /\ reloader[r].pc # "idle"
  BY <1>2, DiffEffect
<1>5. reloader'[r].alone => CourseAt(r)'
  BY <1>2, DiffEffect DEF CourseAt, Critical
<1>6. reloader'[r].clean => RunnersAt(r)'
  BY <1>2, <1>3, DiffEffect DEF ReloadInv, Undisturbed, RunnersAt, Critical, SameFlags, SamePlan
<1> QED
  BY <1>1, <1>2, <1>3, <1>4, <1>5, <1>6, Proceeds DEF ReloadInv

LEMMA RemoveInv ==
    ASSUME ReloadInv, NEW r \in Reloaders, NEW k \in Keys, Remove(r, k)
    PROVE  ReloadInv'
<1>1. Base'
  BY RemoveBase DEF ReloadInv
<1>2. Base /\ TypeOK
  BY DEF ReloadInv, Base
<1>3. runners' = runners \ {k} /\ UNCHANGED <<config, registry, last>>
  BY DEF Remove, files
<1>4. Others(r) /\ reloader[r].pc # "idle"
  BY <1>2, RemoveEffect
<1>5. reloader'[r].alone => CourseAt(r)'
  BY <1>2, RemoveEffect DEF CourseAt, Critical
<1>6. reloader'[r].clean => RunnersAt(r)'
  BY <1>2, <1>3, RemoveEffect DEF ReloadInv, Undisturbed, RunnersAt, Critical, SameFlags, SamePlan
<1> QED
  BY <1>1, <1>2, <1>3, <1>4, <1>5, <1>6, Proceeds DEF ReloadInv

LEMMA AddInv ==
    ASSUME ReloadInv, NEW r \in Reloaders, NEW k \in Keys, Add(r, k)
    PROVE  ReloadInv'
<1>1. Base'
  BY AddBase DEF ReloadInv
<1>2. Base /\ TypeOK
  BY DEF ReloadInv, Base
<1>3. UNCHANGED <<config, registry, last>>
  BY DEF Add, files
<1>4. Others(r) /\ reloader[r].pc # "idle"
  BY <1>2, AddEffect
<1>5. reloader'[r].alone => CourseAt(r)'
  BY <1>2, AddEffect DEF CourseAt, Critical
<1>6. reloader'[r].clean => RunnersAt(r)'
  <2>1. SUFFICES ASSUME reloader'[r].clean
                 PROVE  RunnersAt(r)'
    OBVIOUS
  <2>2. /\ reloader[r].clean
        /\ runners' = IF k \in registry THEN runners \cup {k} ELSE runners
    BY <1>2, <2>1, AddEffect
  <2>3. RunnersAt(r)
    BY <2>2 DEF ReloadInv, Undisturbed
  <2>4. /\ reloader[r].pc = "apply" /\ reloader'[r].pc = "apply"
        /\ k \in reloader[r].added /\ reloader[r].removed = {}
        /\ reloader'[r].added = reloader[r].added \ {k}
        /\ reloader'[r].removed = {}
    BY <1>2, AddEffect
  <2>5. runners' = runners \cup {k} /\ registry = config
    BY <2>2, <2>3, <2>4 DEF RunnersAt
  <2> QED
    BY <1>3, <2>3, <2>4, <2>5 DEF RunnersAt, Critical
<1> QED
  BY <1>1, <1>2, <1>3, <1>4, <1>5, <1>6, Proceeds DEF ReloadInv

LEMMA StageInv ==
    ASSUME ReloadInv, NEW r \in Reloaders, Stage(r)
    PROVE  ReloadInv'
<1>1. Base'
  BY StageBase DEF ReloadInv
<1>2. Base /\ TypeOK
  BY DEF ReloadInv, Base
<1>3. UNCHANGED <<config, registry, runners, last>>
  BY DEF Stage, files
<1>4. Others(r) /\ reloader[r].pc # "idle"
  BY <1>2, StageEffect
<1>5. reloader'[r].alone => CourseAt(r)'
  BY <1>2, <1>3, StageEffect DEF CourseAt, Critical
<1>6. reloader'[r].clean => RunnersAt(r)'
  <2>1. SUFFICES ASSUME reloader'[r].clean
                 PROVE  RunnersAt(r)'
    OBVIOUS
  <2>2. /\ reloader[r].clean
        /\ reloader[r].pc = "apply" /\ reloader'[r].pc = "lock"
        /\ reloader[r].removed = {} /\ reloader[r].added = {}
    BY <1>2, <2>1, StageEffect DEF SameFlags
  <2>3. RunnersAt(r)
    BY <2>2 DEF ReloadInv, Undisturbed
  <2>4. \A k \in Keys : k \in runners <=> k \in registry
    BY <2>2, <2>3 DEF RunnersAt
  <2>5. runners = registry
    BY <1>2, <2>4 DEF TypeOK
  <2>6. registry = config
    BY <2>2, <2>3 DEF RunnersAt
  <2> QED
    BY <1>3, <2>2, <2>5, <2>6 DEF RunnersAt
<1> QED
  BY <1>1, <1>2, <1>3, <1>4, <1>5, <1>6, Proceeds DEF ReloadInv

LEMMA AcquireInv ==
    ASSUME ReloadInv, NEW r \in Reloaders, Acquire(r)
    PROVE  ReloadInv'
<1>1. Base'
  BY AcquireBase DEF ReloadInv
<1>2. Base /\ TypeOK
  BY DEF ReloadInv, Base
<1>3. UNCHANGED <<config, registry, runners, deps, pgProfiles, last>>
  BY DEF Acquire, files, pg
<1>4. Others(r) /\ reloader[r].pc # "idle"
  BY <1>2, AcquireEffect
<1>5. reloader'[r].alone => CourseAt(r)'
  BY <1>2, <1>3, AcquireEffect DEF ReloadInv, Course, CourseAt, Critical, SameFlags, SameWork
<1>6. reloader'[r].clean => RunnersAt(r)'
  BY <1>2, <1>3, AcquireEffect DEF ReloadInv, Undisturbed, RunnersAt, Critical, SameFlags, SamePlan
<1> QED
  BY <1>1, <1>2, <1>3, <1>4, <1>5, <1>6, Proceeds DEF ReloadInv

LEMMA PipelineInv ==
    ASSUME ReloadInv, NEW r \in Reloaders, Pipeline(r)
    PROVE  ReloadInv'
<1>1. Base'
  BY PipelineBase DEF ReloadInv
<1>2. Base /\ TypeOK
  BY DEF ReloadInv, Base
<1>3. UNCHANGED <<config, registry, runners, deps, pgProfiles, last>>
  BY DEF Pipeline, files, pg
<1>4. Others(r) /\ reloader[r].pc # "idle"
  BY <1>2, PipelineEffect
<1>5. reloader'[r].alone => CourseAt(r)'
  BY <1>2, <1>3, PipelineEffect DEF ReloadInv, Course, CourseAt, Critical, SameFlags, SameWork, Base, Blank
<1>6. reloader'[r].clean => RunnersAt(r)'
  BY <1>2, <1>3, PipelineEffect DEF ReloadInv, Undisturbed, RunnersAt, Critical, SameFlags, SamePlan
<1> QED
  BY <1>1, <1>2, <1>3, <1>4, <1>5, <1>6, Proceeds DEF ReloadInv

LEMMA PublishedInv ==
    ASSUME ReloadInv, NEW r \in Reloaders, Published(r)
    PROVE  ReloadInv'
<1>1. Base'
  BY PublishedBase DEF ReloadInv
<1>2. Base /\ TypeOK
  BY DEF ReloadInv, Base
<1>3. UNCHANGED <<config, registry, runners, deps, pgProfiles, last>>
  BY DEF Published, files, pg
<1>4. Others(r) /\ reloader[r].pc # "idle"
  BY <1>2, PublishedEffect
<1>5. reloader'[r].alone => CourseAt(r)'
  BY <1>2, <1>3, PublishedEffect DEF ReloadInv, Course, CourseAt, Critical, SameFlags, SameWork
<1>6. reloader'[r].clean => RunnersAt(r)'
  BY <1>2, <1>3, PublishedEffect DEF ReloadInv, Undisturbed, RunnersAt, Critical, SameFlags, SamePlan
<1> QED
  BY <1>1, <1>2, <1>3, <1>4, <1>5, <1>6, Proceeds DEF ReloadInv

LEMMA StartRiverInv ==
    ASSUME ReloadInv, NEW r \in Reloaders, NEW p \in Profiles, StartRiver(r, p)
    PROVE  ReloadInv'
<1>1. Base'
  BY StartRiverBase DEF ReloadInv
<1>2. Base /\ TypeOK
  BY DEF ReloadInv, Base
<1>3. UNCHANGED <<config, registry, runners, deps, pgProfiles, last>>
  BY DEF StartRiver, files
<1>4. Others(r) /\ reloader[r].pc # "idle"
  BY <1>2, StartRiverEffect
<1>5. reloader'[r].alone => CourseAt(r)'
  BY <1>2, <1>3, StartRiverEffect DEF ReloadInv, Course, CourseAt, Critical, SameFlags, SameWork
<1>6. reloader'[r].clean => RunnersAt(r)'
  BY <1>2, <1>3, StartRiverEffect DEF ReloadInv, Undisturbed, RunnersAt, Critical, SameFlags, SamePlan
<1> QED
  BY <1>1, <1>2, <1>3, <1>4, <1>5, <1>6, Proceeds DEF ReloadInv

LEMMA BuildProfileInv ==
    ASSUME ReloadInv, NEW r \in Reloaders, NEW p \in Profiles, BuildProfile(r, p)
    PROVE  ReloadInv'
<1>1. Base'
  BY BuildProfileBase DEF ReloadInv
<1>2. Base /\ TypeOK
  BY DEF ReloadInv, Base
<1>3. UNCHANGED <<config, registry, runners, deps, last>>
  BY DEF BuildProfile, files
<1>4. Others(r) /\ reloader[r].pc # "idle"
  BY <1>2, BuildProfileEffect
<1>5. reloader'[r].alone => CourseAt(r)'
  BY <1>2, <1>3, BuildProfileEffect DEF ReloadInv, Course, CourseAt, Critical, SameFlags, SameWork
<1>6. reloader'[r].clean => RunnersAt(r)'
  BY <1>2, <1>3, BuildProfileEffect DEF ReloadInv, Undisturbed, RunnersAt, Critical, SameFlags, SamePlan
<1> QED
  BY <1>1, <1>2, <1>3, <1>4, <1>5, <1>6, Proceeds DEF ReloadInv

LEMMA PublishInv ==
    ASSUME ReloadInv, NEW r \in Reloaders, NEW k \in Keys, Publish(r, k)
    PROVE  ReloadInv'
<1>1. Base'
  BY PublishBase DEF ReloadInv
<1>2. Base /\ TypeOK
  BY DEF ReloadInv, Base
<1>3. /\ deps' = [deps EXCEPT ![k] = pgProfiles[k[1]]]
      /\ UNCHANGED <<config, registry, runners, pgProfiles, last>>
  BY DEF Publish, files, pg
<1>4. Others(r) /\ reloader[r].pc # "idle"
  BY <1>2, PublishEffect
<1>5. reloader'[r].alone => CourseAt(r)'
  <2>1. SUFFICES ASSUME reloader'[r].alone
                 PROVE  CourseAt(r)'
    OBVIOUS
  <2>2. CourseAt(r)
    BY <1>2, <2>1, PublishEffect DEF ReloadInv, Course, SameFlags
  <2>3. reloader[r].filled \subseteq Keys
    BY <1>2 DEF TypeOK, Reloader
  <2>4. \A j \in Keys : deps'[j] = IF j = k THEN pgProfiles[k[1]] ELSE deps[j]
    BY <1>2, <1>3 DEF TypeOK
  <2>5. \A j \in reloader'[r].filled : j \in registry /\ deps'[j] = pgProfiles[j[1]]
    BY <1>2, <2>2, <2>3, <2>4, PublishEffect DEF CourseAt
  <2> QED
    BY <1>2, <1>3, <2>2, <2>5, PublishEffect DEF CourseAt, Critical
<1>6. reloader'[r].clean => RunnersAt(r)'
  BY <1>2, <1>3, PublishEffect DEF ReloadInv, Undisturbed, RunnersAt, Critical, SameFlags
<1> QED
  BY <1>1, <1>2, <1>3, <1>4, <1>5, <1>6, Proceeds DEF ReloadInv

(* A profile whose resources a lone reload closes is needed by no binding. *)
LEMMA CloseProfileInv ==
    ASSUME ReloadInv, NEW r \in Reloaders, NEW p \in Profiles, CloseProfile(r, p)
    PROVE  ReloadInv'
<1>1. Base'
  BY CloseProfileBase DEF ReloadInv
<1>2. Base /\ TypeOK
  BY DEF ReloadInv, Base
<1>3. /\ reloader[r].pc = "start" /\ p \notin reloader[r].needed
      /\ pgProfiles' = [pgProfiles EXCEPT ![p] = 0]
      /\ UNCHANGED <<config, registry, runners, deps, reloader, last>>
  BY DEF CloseProfile, files, At
<1>4. Others(r) /\ reloader[r].pc # "idle"
  BY <1>3 DEF Others
<1>5. reloader'[r].alone => CourseAt(r)'
  <2>1. SUFFICES ASSUME reloader[r].alone
                 PROVE  CourseAt(r)'
    BY <1>3
  <2>2. CourseAt(r)
    BY <2>1 DEF ReloadInv, Course
  <2>3. \A q \in Profiles : q # p => pgProfiles'[q] = pgProfiles[q]
    BY <1>2, <1>3 DEF TypeOK
  <2>4. reloader[r].needed \subseteq Profiles
    BY <1>2 DEF TypeOK, Reloader
  <2>5. \A k \in registry : k[1] \in reloader[r].needed
    BY <1>3, <2>2 DEF CourseAt, ProfilesOf, Critical
  <2>6. \A k \in registry : pgProfiles'[k[1]] = pgProfiles[k[1]]
    BY <1>3, <2>3, <2>4, <2>5
  <2>7. \A q \in reloader[r].needed : pgProfiles'[q] = pgProfiles[q]
    BY <1>3, <2>3, <2>4
  <2> QED
    BY <1>3, <2>2, <2>6, <2>7 DEF CourseAt
<1>6. reloader'[r].clean => RunnersAt(r)'
  BY <1>3 DEF ReloadInv, Undisturbed, RunnersAt
<1> QED
  BY <1>1, <1>2, <1>3, <1>4, <1>5, <1>6, Proceeds DEF ReloadInv

(* A reload that fails while it builds publishes every view it staged.     *)
LEMMA BuildFailsInv ==
    ASSUME ReloadInv, NEW r \in Reloaders, BuildFails(r)
    PROVE  ReloadInv'
<1>1. Base'
  BY BuildFailsBase DEF ReloadInv
<1>2. Base /\ TypeOK
  BY DEF ReloadInv, Base
<1>3. /\ deps' = [k \in Keys |->
                  IF k \notin reloader[r].fresh THEN deps[k]
                  ELSE IF k \in reloader[r].filled THEN pgProfiles[k[1]] ELSE NoPG]
      /\ last' = IF reloader[r].alone THEN "solo" ELSE "none"
      /\ UNCHANGED <<registry, pgProfiles, open>>
  BY DEF BuildFails, PublishFresh, Solo, pg
<1>4. Others(r) /\ Reset(r) /\ reloader[r].pc \in Critical
  BY <1>2, BuildFailsEffect
<1>5. Course' /\ Undisturbed'
  BY <1>2, <1>4, Ends DEF Critical
<1>6. FailedReloadIsSafe'
  <2>1. SUFFICES ASSUME last' # "none", NEW k \in registry
                 PROVE  deps'[k] \in {NoPG} \cup open
    BY <1>3 DEF FailedReloadIsSafe
  <2>2. reloader[r].fresh = registry
    BY <1>3, <1>4, <2>1 DEF ReloadInv, Course, CourseAt
  <2>3. k \in Keys /\ k[1] \in Profiles
    BY <1>2 DEF TypeOK, Keys
  <2>4. deps'[k] = IF k \in reloader[r].filled THEN pgProfiles[k[1]] ELSE NoPG
    BY <1>3, <2>2, <2>3
  <2>5. pgProfiles[k[1]] \in {0} \cup open
    BY <1>2, <2>3 DEF Base, Pooled
  <2> QED
    BY <2>4, <2>5 DEF NoPG
<1>7. CleanReloadServesAll'
  BY <1>3 DEF CleanReloadServesAll
<1> QED
  BY <1>1, <1>5, <1>6, <1>7 DEF ReloadInv

(* At the start of the River clients a lone reload has published every     *)
(* registered binding over the pool of its profile.                        *)
LEMMA Started ==
    ASSUME ReloadInv, NEW r \in Reloaders, reloader[r].alone, reloader[r].pc = "start"
    PROVE  /\ reloader[r].needed = ProfilesOf(registry)
           /\ \A p \in ProfilesOf(registry) : pgProfiles[p] # 0
           /\ \A k \in registry : deps[k] = pgProfiles[k[1]] /\ pgProfiles[k[1]] \in open
<1>1. CourseAt(r)
  BY DEF ReloadInv, Course
<1>2. registry \subseteq Keys
  BY DEF ReloadInv, Base, TypeOK
<1>3. reloader[r].needed = ProfilesOf(registry)
  BY <1>1 DEF CourseAt, Critical
<1>4. \A p \in ProfilesOf(registry) : pgProfiles[p] # 0
  BY <1>1, <1>3 DEF CourseAt
<1>5. \A k \in registry : deps[k] = pgProfiles[k[1]]
  BY <1>1 DEF CourseAt
<1>6. \A k \in registry : k[1] \in ProfilesOf(registry) /\ k[1] \in Profiles
  BY <1>2 DEF ProfilesOf, Keys
<1> QED
  BY <1>3, <1>4, <1>5, <1>6 DEF ReloadInv, Base, Pooled

LEMMA StartFailsInv ==
    ASSUME ReloadInv, NEW r \in Reloaders, StartFails(r)
    PROVE  ReloadInv'
<1>1. Base'
  BY StartFailsBase DEF ReloadInv
<1>2. Base /\ TypeOK
  BY DEF ReloadInv, Base
<1>3. /\ last' = IF reloader[r].alone THEN "solo" ELSE "none"
      /\ UNCHANGED <<registry, deps, open>>
  BY DEF StartFails, Solo, pg
<1>4. Others(r) /\ Reset(r) /\ reloader[r].pc = "start"
  BY <1>2, StartFailsEffect
<1>5. Course' /\ Undisturbed'
  BY <1>2, <1>4, Ends
<1>6. FailedReloadIsSafe'
  BY <1>3, <1>4, Started DEF FailedReloadIsSafe
<1>7. CleanReloadServesAll'
  BY <1>3 DEF CleanReloadServesAll
<1> QED
  BY <1>1, <1>5, <1>6, <1>7 DEF ReloadInv

(* A reload that ends undisturbed serves every configured binding.         *)
LEMMA DoneInv ==
    ASSUME ReloadInv, NEW r \in Reloaders, Done(r)
    PROVE  ReloadInv'
<1>1. Base'
  BY DoneBase DEF ReloadInv
<1>2. Base /\ TypeOK
  BY DEF ReloadInv, Base
<1>3. /\ last' = IF reloader[r].clean THEN "clean" ELSE Solo(r)
      /\ \A p \in Profiles : pgProfiles[p] # 0 => p \in reloader[r].needed
      /\ UNCHANGED <<config, registry, runners, deps, pgProfiles, open>>
  BY DEF Done, files, pg, Live
<1>4. Others(r) /\ Reset(r) /\ reloader[r].pc = "start"
  BY <1>2, DoneEffect
<1>5. Course' /\ Undisturbed'
  BY <1>2, <1>4, Ends
<1>6. last' # "none" => reloader[r].alone
  BY <1>2, <1>3 DEF Solo, Base, Lonely
<1>7. FailedReloadIsSafe'
  BY <1>3, <1>4, <1>6, Started DEF FailedReloadIsSafe
<1>8. CleanReloadServesAll'
  <2>1. SUFFICES ASSUME last' = "clean"
                 PROVE  /\ registry = config
                        /\ runners = config
                        /\ \A k \in config : deps[k] = pgProfiles[k[1]]
                        /\ Live = ProfilesOf(config)
                        /\ open = {pgProfiles[p] : p \in Live}
    BY <1>3 DEF CleanReloadServesAll, Live
  <2>2. reloader[r].clean /\ reloader[r].alone
    BY <1>3, <1>6, <2>1 DEF Solo
  <2>3. registry = config /\ runners = config
    BY <1>4, <2>2 DEF ReloadInv, Undisturbed, RunnersAt, Critical
  <2>4. /\ reloader[r].needed = ProfilesOf(registry)
        /\ \A p \in ProfilesOf(registry) : pgProfiles[p] # 0
        /\ \A k \in registry : deps[k] = pgProfiles[k[1]]
    BY <1>4, <2>2, Started
  <2>5. ProfilesOf(registry) \subseteq Profiles
    BY <1>2 DEF TypeOK, ProfilesOf, Keys
  <2>6. Live = ProfilesOf(config)
    BY <1>3, <2>3, <2>4, <2>5 DEF Live
  <2>7. open = {pgProfiles[p] : p \in Live}
    <3>1. \A n \in open : n # 0 /\ \E p \in Profiles : pgProfiles[p] = n
      BY <1>2 DEF Base, TypeOK, Pooled, Pools
    <3>2. \A p \in Live : pgProfiles[p] \in open
      BY <1>2 DEF Base, Pooled, Live
    <3>3. \A n \in open : \E p \in Live : pgProfiles[p] = n
      BY <3>1 DEF Live
    <3> QED
      BY <3>2, <3>3
  <2> QED
    BY <2>3, <2>4, <2>6, <2>7
<1> QED
  BY <1>1, <1>5, <1>7, <1>8 DEF ReloadInv

LEMMA BeginInv ==
    ASSUME ReloadInv, NEW r \in Reloaders, Begin(r), TypeOK',
           UNCHANGED <<runners, pgProfiles, open, nextPool, pgMu>>
    PROVE  ReloadInv'
<1>1. Base'
  BY Begins DEF ReloadInv
<1>2. /\ reloader'[r].pc = "load" /\ reloader'[r].prior = runners
      /\ \A q \in Reloaders : q # r =>
            reloader'[q].alone = FALSE /\ reloader'[q].clean = FALSE
  BY BeginEffect DEF ReloadInv, Base
<1>3. last' = "none"
  BY DEF Begin
<1>4. Course'
  BY <1>2 DEF Course, CourseAt, Critical
<1>5. Undisturbed'
  BY <1>2 DEF Undisturbed, RunnersAt, Critical
<1> QED
  BY <1>1, <1>3, <1>4, <1>5 DEF ReloadInv, FailedReloadIsSafe, CleanReloadServesAll

LEMMA DisturbInv ==
    ASSUME ReloadInv, Disturb, TypeOK',
           UNCHANGED <<registry, deps, pgProfiles, open, nextPool, pgMu>>
    PROVE  ReloadInv'
<1>1. Base'
  BY Disturbs DEF ReloadInv
<1>2. \A r \in Reloaders :
         /\ reloader'[r].pc = reloader[r].pc
         /\ SameWork(r)
         /\ reloader'[r].alone = reloader[r].alone
         /\ reloader'[r].clean = FALSE
  BY DisturbEffect DEF ReloadInv, Base
<1>3. /\ last' # "clean"
      /\ last' # "none" => last # "none"
  BY DEF Disturb
<1>4. Course'
  BY <1>2 DEF ReloadInv, Course, CourseAt, SameWork
<1>5. Undisturbed'
  BY <1>2 DEF Undisturbed
<1>6. FailedReloadIsSafe'
  BY <1>3 DEF ReloadInv, FailedReloadIsSafe
<1>7. CleanReloadServesAll'
  BY <1>3 DEF CleanReloadServesAll
<1> QED
  BY <1>1, <1>4, <1>5, <1>6, <1>7 DEF ReloadInv

(* The pools of the start: as many as the config has profiles, one each.   *)
LEMMA InitPools ==
    ASSUME Init
    PROVE  /\ nextPool \in 1 .. MaxPools + 1
           /\ open \subseteq Pools
           /\ \A n \in open : n < nextPool /\ n # 0
           /\ \A n \in open : \E p \in Live : pgProfiles[p] = n
           /\ \A p \in Live : pgProfiles[p] \in open
<1>1. ProfilesOf(config) \subseteq Profiles
  BY DEF Init, ProfilesOf, Keys
<1>2. PICK P \in SUBSET Profiles : P = ProfilesOf(config)
  BY <1>1
<1>3. IsFiniteSet(P) /\ Cardinality(P) <= Cardinality(Profiles)
  BY FS_Subset, ReloadAssumption
<1>4. Cardinality(P) \in Nat /\ Cardinality(Profiles) \in Nat
  BY <1>3, FS_CardinalityType, ReloadAssumption
<1>5. PICK n \in Nat : n = Cardinality(P)
  BY <1>4
<1>6. n <= MaxPools /\ MaxPools \in Nat
  BY <1>3, <1>4, <1>5, ReloadAssumption
<1>7. nextPool = n + 1 /\ open = 1 .. n
  <2>1. nextPool = n + 1 /\ open = 1 .. nextPool - 1
    BY <1>2, <1>5 DEF Init
  <2>2. nextPool - 1 = n
    BY <2>1
  <2> QED
    BY <2>1, <2>2
<1>8. Live = P
  BY <1>2 DEF Init, Live
<1>9. /\ pgProfiles \in [Profiles -> {0} \cup open]
      /\ \A p, q \in P : pgProfiles[p] = pgProfiles[q] => p = q
      /\ \A p \in P : pgProfiles[p] # 0
  BY <1>2, <1>8 DEF Init
<1>10. PICK f : f = [p \in P |-> pgProfiles[p]]
  OBVIOUS
<1>11. f \in Injection(P, 1 .. n)
  <2>1. f \in [P -> 1 .. n]
    BY <1>7, <1>9, <1>10
  <2>2. \A p, q \in P : f[p] = f[q] => p = q
    BY <1>9, <1>10
  <2> QED
    BY <2>1, <2>2 DEF Injection, IsInjective
<1>12. IsFiniteSet(1 .. n) /\ Cardinality(1 .. n) = n
  BY FS_Interval
<1>13. f \in Surjection(P, 1 .. n)
  BY <1>5, <1>11, <1>12, FS_Injection
<1>14. \A m \in 1 .. n : \E p \in P : pgProfiles[p] = m
  BY <1>10, <1>13 DEF Surjection
<1> QED
  BY <1>6, <1>7, <1>8, <1>9, <1>14 DEF Pools

LEMMA InitReload == Init => ReloadInv
<1> SUFFICES ASSUME Init
             PROVE  ReloadInv
  OBVIOUS
<1>0. reloader \in [Reloaders -> Reloader] /\ \A r \in Reloaders : reloader[r] = IdleReloader
  BY IdleType DEF Init
<1>1. TypeOK
  <2>1. pgProfiles \in [Profiles -> {0} \cup Pools]
    BY InitPools DEF Init
  <2>2. \A k \in Keys : k[1] \in Profiles
    BY DEF Keys
  <2>3. deps \in [Keys -> {Unpublished, NoPG} \cup Pools]
    BY <2>1, <2>2 DEF Init, NoPG
  <2> QED
    BY <1>0, <2>1, <2>3, InitPools DEF Init, TypeOK
<1>2. Pooled
  BY InitPools DEF Init, Pooled, Live
<1>3. Mutex
  BY <1>0, IdleType DEF Init, Mutex, Critical, Nobody, Reloaders
<1>4. Lonely
  BY <1>0, IdleType DEF Lonely, Idle, At
<1>5. Blank
  BY <1>0, IdleType DEF Blank
<1>6. Course /\ Undisturbed
  BY <1>0, IdleType DEF Course, Undisturbed
<1>7. Live = ProfilesOf(config)
  BY DEF Init, Live, ProfilesOf, Keys
<1>8. open = {pgProfiles[p] : p \in Live}
  BY InitPools
<1>9. \A k \in config : deps[k] = pgProfiles[k[1]] /\ k[1] \in Live
  <2>1. config \subseteq Keys
    BY DEF Init
  <2>2. \A k \in config : k[1] \in ProfilesOf(config)
    BY DEF ProfilesOf
  <2>3. \A k \in config : deps[k] = pgProfiles[k[1]]
    BY <2>1 DEF Init
  <2> QED
    BY <1>7, <2>2, <2>3
<1>10. CleanReloadServesAll
  BY <1>7, <1>8, <1>9 DEF Init, CleanReloadServesAll
<1>11. FailedReloadIsSafe
  BY <1>8, <1>9 DEF Init, FailedReloadIsSafe
<1> QED
  BY <1>1, <1>2, <1>3, <1>4, <1>5, <1>6, <1>10, <1>11 DEF ReloadInv, Base

(* Every step keeps the invariant.                                         *)
LEMMA NextReload ==
    ASSUME ReloadInv, [Next]_vars
    PROVE  ReloadInv'
<1>0. TypeOK
  BY DEF ReloadInv, Base
<1>1. ASSUME NEW k \in Keys, EditConfig(k)
      PROVE  ReloadInv'
  <2>1. TypeOK'
    <3>1. Disturb
      BY <1>1 DEF EditConfig
    <3>2. reloader' \in [Reloaders -> Reloader]
      BY <1>0, <3>1, DisturbEffect
    <3>3. last' \in {"none", "solo", "clean"}
      BY <1>0, <3>1 DEF Disturb, TypeOK
    <3>4. config' \subseteq Keys /\ broken' \in BOOLEAN
      BY <1>0, <1>1 DEF EditConfig, TypeOK
    <3>5. /\ edits' = edits + 1
          /\ UNCHANGED <<registry, runners, deps, pgProfiles, open, started, nextPool,
                         pgMu, reloads, faults>>
      BY <1>1 DEF EditConfig, pg
    <3> QED
      BY <1>0, <3>2, <3>3, <3>4, <3>5 DEF TypeOK
  <2> QED
    BY <1>1, <2>1, DisturbInv DEF EditConfig, pg
<1>2. ASSUME BreakConfig
      PROVE  ReloadInv'
  <2>1. TypeOK'
    <3>1. Disturb
      BY <1>2 DEF BreakConfig
    <3>2. reloader' \in [Reloaders -> Reloader]
      BY <1>0, <3>1, DisturbEffect
    <3>3. last' \in {"none", "solo", "clean"}
      BY <1>0, <3>1 DEF Disturb, TypeOK
    <3>4. config' \subseteq Keys /\ broken' \in BOOLEAN
      BY <1>0, <1>2 DEF BreakConfig, TypeOK
    <3>5. /\ edits' = edits + 1
          /\ UNCHANGED <<registry, runners, deps, pgProfiles, open, started, nextPool,
                         pgMu, reloads, faults>>
      BY <1>2 DEF BreakConfig, pg
    <3> QED
      BY <1>0, <3>2, <3>3, <3>4, <3>5 DEF TypeOK
  <2> QED
    BY <1>2, <2>1, DisturbInv DEF BreakConfig, pg
<1>3. ASSUME NEW k \in Keys, AdminProfileCreate(k)
      PROVE  ReloadInv'
  <2>1. "admin" \in Reloaders /\ Begin("admin")
    BY <1>3 DEF AdminProfileCreate, Reloaders
  <2>2. reloader' \in [Reloaders -> Reloader]
    BY <1>0, <2>1, BeginEffect
  <2>3. last' = "none" /\ reloads' = reloads + 1
    BY <2>1 DEF Begin
  <2>4. TypeOK'
    BY <1>0, <1>3, <2>2, <2>3 DEF TypeOK, AdminProfileCreate, pg
  <2> QED
    BY <1>3, <2>1, <2>4, BeginInv DEF AdminProfileCreate, pg
<1>4. ASSUME Hup
      PROVE  ReloadInv'
  <2>1. "hup" \in Reloaders /\ Begin("hup")
    BY <1>4 DEF Hup, Reloaders
  <2>2. reloader' \in [Reloaders -> Reloader]
    BY <1>0, <2>1, BeginEffect
  <2>3. last' = "none" /\ reloads' = reloads + 1
    BY <2>1 DEF Begin
  <2>4. TypeOK'
    BY <1>0, <1>4, <2>2, <2>3 DEF TypeOK, Hup, files, pg
  <2> QED
    BY <1>4, <2>1, <2>4, BeginInv DEF Hup, pg
<1>5. ASSUME NEW r \in Reloaders, ReloadStep(r)
      PROVE  ReloadInv'
  <2>1. ASSUME NEW k \in Keys, Remove(r, k) \/ Add(r, k) \/ Publish(r, k)
        PROVE  ReloadInv'
    BY <2>1, RemoveInv, AddInv, PublishInv
  <2>2. ASSUME NEW p \in Profiles, BuildProfile(r, p) \/ StartRiver(r, p) \/ CloseProfile(r, p)
        PROVE  ReloadInv'
    BY <2>2, BuildProfileInv, StartRiverInv, CloseProfileInv
  <2>3. ASSUME LoadReads(r) \/ LoadSwaps(r) \/ Diff(r) \/ Stage(r) \/ Acquire(r)
               \/ Pipeline(r) \/ Published(r) \/ Done(r)
        PROVE  ReloadInv'
    BY <2>3, LoadReadsInv, LoadSwapsInv, DiffInv, StageInv, AcquireInv, PipelineInv,
       PublishedInv, DoneInv
  <2> QED
    BY <1>5, <2>1, <2>2, <2>3 DEF ReloadStep
<1>6. ASSUME NEW r \in Reloaders, BuildFails(r) \/ StartFails(r)
      PROVE  ReloadInv'
  BY <1>6, BuildFailsInv, StartFailsInv
<1>7. ASSUME UNCHANGED vars
      PROVE  ReloadInv'
  <2>1. TypeOK'
    BY <1>0, <1>7 DEF vars, TypeOK
  <2>2. Pooled' /\ Mutex' /\ Lonely' /\ Blank'
    BY <1>7 DEF ReloadInv, Base, vars, Pooled, Mutex, Lonely, Blank, Idle, At
  <2>3. Course' /\ Undisturbed'
    BY <1>7 DEF ReloadInv, vars, Course, CourseAt, Undisturbed, RunnersAt
  <2>4. FailedReloadIsSafe' /\ CleanReloadServesAll'
    BY <1>7 DEF ReloadInv, vars, FailedReloadIsSafe, CleanReloadServesAll, Live
  <2> QED
    BY <2>1, <2>2, <2>3, <2>4 DEF ReloadInv, Base
<1> QED
  BY <1>1, <1>2, <1>3, <1>4, <1>5, <1>6, <1>7, Zenon DEF Next

(* The invariant holds in every reachable state.                           *)
LEMMA ReloadInvariant == Spec => []ReloadInv
BY InitReload, NextReload, PTL DEF Spec

-----------------------------------------------------------------------------
(* The types of the daemon's registry, runners, views and pools; a client  *)
(* runs only over an open pool.                                            *)
THEOREM TypeCorrect == Spec => []TypeOK
<1>1. ReloadInv => TypeOK
  BY DEF ReloadInv, Base
<1> QED
  BY <1>1, ReloadInvariant, PTL

(* A reload that fails half-way on its own leaves no registered binding on *)
(* a closed pool, whatever the reloads before it did (publishFreshLocked). *)
THEOREM FailedReloadIsSafeHolds == Spec => []FailedReloadIsSafe
<1>1. ReloadInv => FailedReloadIsSafe
  BY DEF ReloadInv
<1> QED
  BY <1>1, ReloadInvariant, PTL

(* A reload that nothing disturbed serves every configured binding, from   *)
(* whatever state earlier reloads left (reload, buildPGBindingDeps).       *)
THEOREM CleanReloadServesAllHolds == Spec => []CleanReloadServesAll
<1>1. ReloadInv => CleanReloadServesAll
  BY DEF ReloadInv
<1> QED
  BY <1>1, ReloadInvariant, PTL

(* The two reload steps that change the pools of live profiles or start a  *)
(* client, told apart from all the others.                                 *)
LEMMA PoolSteps ==
    ASSUME TypeOK, [Next]_vars
    PROVE  \/ UNCHANGED <<pgProfiles, started>>
           \/ \E r \in Reloaders, p \in Profiles : BuildProfile(r, p)
           \/ \E r \in Reloaders, p \in Profiles : StartRiver(r, p)
           \/ \E r \in Reloaders, p \in Profiles : CloseProfile(r, p)
<1>1. ASSUME NEW k \in Keys, EditConfig(k) \/ AdminProfileCreate(k)
      PROVE  UNCHANGED <<pgProfiles, started>>
  BY <1>1 DEF EditConfig, AdminProfileCreate, pg
<1>2. ASSUME BreakConfig \/ Hup \/ UNCHANGED vars
      PROVE  UNCHANGED <<pgProfiles, started>>
  BY <1>2 DEF BreakConfig, Hup, vars, pg
<1>3. ASSUME NEW r \in Reloaders, BuildFails(r) \/ StartFails(r)
      PROVE  UNCHANGED <<pgProfiles, started>>
  BY <1>3 DEF BuildFails, StartFails, pg
<1>4. ASSUME NEW r \in Reloaders, ReloadStep(r)
      PROVE  \/ UNCHANGED <<pgProfiles, started>>
             \/ \E p \in Profiles : BuildProfile(r, p) \/ StartRiver(r, p) \/ CloseProfile(r, p)
  <2>1. ASSUME NEW k \in Keys, Remove(r, k) \/ Add(r, k) \/ Publish(r, k)
        PROVE  UNCHANGED <<pgProfiles, started>>
    BY <2>1 DEF Remove, Add, Publish, pg
  <2>2. ASSUME LoadReads(r) \/ LoadSwaps(r) \/ Diff(r) \/ Stage(r) \/ Acquire(r)
               \/ Pipeline(r) \/ Published(r) \/ Done(r)
        PROVE  UNCHANGED <<pgProfiles, started>>
    BY <2>2 DEF LoadReads, LoadSwaps, Diff, Stage, Acquire, Pipeline, Published, Done, pg
  <2> QED
    BY <1>4, <2>1, <2>2 DEF ReloadStep
<1> QED
  BY <1>1, <1>2, <1>3, <1>4, Zenon DEF Next

(* The action a lone reload keeps to when it starts a client.              *)
LEMMA StartsAfterPublishStep ==
    ASSUME ReloadInv, [Next]_vars, NEW r \in Reloaders, NEW k \in registry,
           pgMu = r, reloader[r].alone, pgProfiles'[k[1]] \in started' \ started
    PROVE  deps[k] = pgProfiles'[k[1]]
<1>1. TypeOK /\ registry \subseteq Keys
  BY DEF ReloadInv, Base, TypeOK
<1>2. ~ UNCHANGED started
  OBVIOUS
<1>3. ~ \E q \in Reloaders, p \in Profiles : BuildProfile(q, p) \/ CloseProfile(q, p)
  BY DEF BuildProfile, CloseProfile
<1>4. PICK q \in Reloaders, p \in Profiles : StartRiver(q, p)
  BY <1>1, <1>2, <1>3, PoolSteps
<1>5. reloader[q].pc = "start" /\ UNCHANGED pgProfiles
  BY <1>4 DEF StartRiver, At
<1>6. q = r
  BY <1>5 DEF ReloadInv, Base, Mutex, Critical
<1> QED
  BY <1>5, <1>6, Started

(* The action a lone reload keeps to when it closes a pool.                *)
LEMMA SoloKeepsPresentProfilesStep ==
    ASSUME ReloadInv, [Next]_vars, NEW r \in Reloaders, NEW p \in Profiles,
           pgMu = r, reloader[r].alone, pgProfiles[p] # 0, pgProfiles'[p] # pgProfiles[p]
    PROVE  p \notin ProfilesOf(registry)
<1>1. TypeOK
  BY DEF ReloadInv, Base
<1>2. ASSUME NEW q \in Reloaders, NEW t \in Profiles, BuildProfile(q, t)
      PROVE  FALSE
  <2>1. pgProfiles[t] = 0 /\ pgProfiles' = [pgProfiles EXCEPT ![t] = nextPool]
    BY <1>2 DEF BuildProfile, Live
  <2> QED
    BY <1>1, <2>1 DEF TypeOK
<1>3. ~ \E q \in Reloaders, t \in Profiles : StartRiver(q, t)
  BY DEF StartRiver
<1>4. PICK q \in Reloaders, t \in Profiles : CloseProfile(q, t)
  BY <1>1, <1>2, <1>3, PoolSteps
<1>5. /\ reloader[q].pc = "start" /\ t \notin reloader[q].needed
      /\ pgProfiles' = [pgProfiles EXCEPT ![t] = 0]
  BY <1>4 DEF CloseProfile, At
<1>6. t = p
  BY <1>1, <1>5 DEF TypeOK
<1>7. q = r
  BY <1>5 DEF ReloadInv, Base, Mutex, Critical
<1> QED
  BY <1>5, <1>6, <1>7, Started

(* Without another reload in its way a River client starts only after the  *)
(* views its workers resolve through are published                         *)
(* (buildPGBindingDeps).                                                   *)
THEOREM StartsAfterPublishHolds == Spec => StartsAfterPublish
<1>1. ReloadInv /\ [Next]_vars =>
         [\A r \in Reloaders : \A k \in registry :
            (pgMu = r /\ reloader[r].alone /\ pgProfiles'[k[1]] \in started' \ started)
                => deps[k] = pgProfiles'[k[1]]]_vars
  BY StartsAfterPublishStep
<1> QED
  BY <1>1, ReloadInvariant, PTL DEF Spec, StartsAfterPublish

(* A reload on its own closes the resources of a profile only once no      *)
(* registered binding uses the profile (buildPGBindingDeps).               *)
THEOREM SoloKeepsPresentProfilesHolds == Spec => SoloKeepsPresentProfiles
<1>1. ReloadInv /\ [Next]_vars =>
         [\A r \in Reloaders : \A p \in Profiles :
            (pgMu = r /\ reloader[r].alone /\ pgProfiles[p] # 0
                      /\ pgProfiles'[p] # pgProfiles[p])
                => p \notin ProfilesOf(registry)]_vars
  BY SoloKeepsPresentProfilesStep
<1> QED
  BY <1>1, ReloadInvariant, PTL DEF Spec, SoloKeepsPresentProfiles
=============================================================================
