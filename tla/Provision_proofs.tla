-------------------------- MODULE Provision_proofs --------------------------
(***************************************************************************)
(* Proofs about provisioning, for any number of commands next to the admin *)
(* handler, any number of deletes and any number of faults.                *)
(*                                                                         *)
(* A run of writeBindingConfig decides to write auth.toml long before it   *)
(* does, and hands out the token long after.  Writing and Holding name     *)
(* these two stretches; Alone, Vacant and Kept say what keeps them apart   *)
(* as long as a run has not raced.  Rowless follows a purge from the rows  *)
(* to the removal of the directory.                                        *)
(***************************************************************************)
EXTENDS Provision, FiniteSetTheorems, TLAPS

Pcs == {"idle", "postgres", "bucket", "stat", "mkdir", "token", "auth", "config", "conf",
        "reload", "purge", "empty", "rows", "remove", "removing", "done"}
Ops == {"none", "profile", "binding", "delete", "purge"}
RunState == [pc : Pcs, op : Ops, existed : BOOLEAN, tok : Tokens \cup {Absent}]

Types ==
    /\ rows \in BOOLEAN /\ dir \in BOOLEAN
    /\ auth \in Tokens \cup {Absent, Torn}
    /\ told \in Tokens \cup {Absent}
    /\ run \in [Runners -> RunState]
    /\ raced \in SUBSET Runners

(* It found no auth.toml and has still to write one.                       *)
Writing(r) == ~run[r].existed /\ run[r].pc \in {"mkdir", "token", "auth"}
(* It has the token it will answer with.                                   *)
Holding(r) == run[r].pc \in {"config", "conf"} \/ (run[r].pc = "bucket" /\ run[r].op = "binding")

(* Two runs that both write are known to race.                             *)
Alone == \A q, r \in Runners : q # r /\ Writing(q) /\ Writing(r) => r \in raced

(* What a run that writes alone finds in auth.toml.                        *)
Vacant ==
    /\ \A r \in Runners : run[r].pc = "auth" => /\ dir /\ run[r].tok \in Tokens /\ ~run[r].existed
    /\ \A r \in Runners \ raced : Writing(r) =>
          auth = IF run[r].pc = "auth" THEN Torn ELSE Absent
    /\ ~dir => auth = Absent

(* The token a run is about to hand out is the one in auth.toml.           *)
Kept == \A r \in Runners \ raced : Holding(r) => auth = run[r].tok /\ auth \in Tokens

(* Only profile create migrates, only the two creates make a bucket.       *)
Opened ==
    \A r \in Runners : /\ run[r].pc = "postgres" => run[r].op = "profile"
                       /\ run[r].pc = "bucket" => run[r].op \in {"profile", "binding"}

Orderly  == Alone /\ Vacant /\ Kept /\ Opened /\ TokenIsEffective
TokenInv == Types /\ Orderly

(* Between the purge of the rows and the removal of the directory.         *)
Rowless ==
    \A r \in Runners :
        run[r].pc \in {"remove", "removing"} /\ run[r].op = "purge" /\ ~wrote => ~rows

PurgeInv == Types /\ Rowless /\ PurgedIsGone

-----------------------------------------------------------------------------
(* Tokens and runs.                                                        *)

(* newBearerToken finds a number that is no token yet.                     *)
LEMMA NewToken == ASSUME Types PROVE newBearerToken \in Tokens
<1> DEFINE toks == {run[r].tok : r \in Runners}
           S    == {auth, told} \cup toks
<1>1. IsFiniteSet(Runners) /\ Cardinality(Runners) \in Nat
  <2>1. IsFiniteSet(Commands)
    BY ProvisionAssumption
  <2>2. IsFiniteSet(Runners)
    BY <2>1, FS_AddElement DEF Runners
  <2>3. QED
    BY <2>2, FS_CardinalityType
<1>2. IsFiniteSet(toks) /\ Cardinality(toks) <= Cardinality(Runners)
  <2> DEFINE f == [r \in Runners |-> run[r].tok]
  <2>1. f \in Surjection(Runners, toks)
    BY DEF Surjection
  <2>2. QED
    BY <1>1, <2>1, FS_Surjection
<1>3. IsFiniteSet({auth, told}) /\ Cardinality({auth, told}) <= 2
  <2>1. IsFiniteSet({auth}) /\ Cardinality({auth}) = 1
    BY FS_Singleton
  <2>2. {auth, told} = {auth} \cup {told}
    OBVIOUS
  <2>3. /\ IsFiniteSet({auth} \cup {told})
        /\ Cardinality({auth} \cup {told}) = IF told \in {auth} THEN 1 ELSE 1 + 1
    BY <2>1, FS_AddElement
  <2>4. QED
    BY <2>2, <2>3
<1>4. IsFiniteSet(S) /\ Cardinality(S) <= Cardinality(Runners) + 2
  <2>1. /\ IsFiniteSet(S)
        /\ Cardinality(S) = Cardinality({auth, told}) + Cardinality(toks)
                              - Cardinality({auth, told} \cap toks)
    BY <1>2, <1>3, FS_Union
  <2>2. /\ Cardinality({auth, told} \cap toks) \in Nat /\ Cardinality({auth, told}) \in Nat
        /\ Cardinality(toks) \in Nat
    BY <1>2, <1>3, FS_Intersection, FS_CardinalityType
  <2>3. QED
    BY <1>1, <1>2, <1>3, <2>1, <2>2
<1>5. IsFiniteSet(Tokens) /\ Cardinality(Tokens) = Cardinality(Runners) + 3
  <2>1. PICK n \in Int : n = Cardinality(Runners) + 3 /\ n >= 1
    BY <1>1
  <2>2. IsFiniteSet(1 .. n) /\ Cardinality(1 .. n) = IF 1 > n THEN 0 ELSE n - 1 + 1
    BY FS_Interval
  <2>3. QED
    BY <2>1, <2>2 DEF Tokens
<1>6. ~(Tokens \subseteq S)
  <2>1. ASSUME Tokens \subseteq S PROVE FALSE
    <3>1. Cardinality(Tokens) <= Cardinality(S)
      BY <1>4, <2>1, FS_Subset
    <3>2. Cardinality(S) \in Nat
      BY <1>4, FS_CardinalityType
    <3>3. QED
      BY <1>1, <1>4, <1>5, <3>1, <3>2
  <2>2. QED
    BY <2>1
<1>7. \E t \in Tokens : t # auth /\ t # told /\ \A r \in Runners : run[r].tok # t
  BY <1>6
<1>8. QED
  BY <1>7 DEF newBearerToken

LEMMA TokenTypes == Absent \notin Tokens /\ Torn \notin Tokens /\ Absent # Torn
<1>1. \A t \in Tokens : t \in Int /\ t >= 1
  BY DEF Tokens
<1>2. QED
  BY <1>1 DEF Absent, Torn

(* Run r has now this pc, op, existed and tok, and the others are as they were. *)
Becomes(r, p, o, e, t) ==
    /\ run' \in [Runners -> RunState]
    /\ run'[r].pc = p /\ run'[r].op = o /\ run'[r].existed = e /\ run'[r].tok = t
    /\ \A q \in Runners \ {r} : run'[q] = run[q]
LEMMA GoToEffect ==
    ASSUME Types, NEW r \in Runners, NEW p \in Pcs, GoTo(r, p)
    PROVE  Becomes(r, p, run[r].op, run[r].existed, run[r].tok)
  BY DEF GoTo, Types, RunState, Becomes

LEMMA StopEffect ==
    ASSUME Types, NEW r \in Runners, Stop(r)
    PROVE  Becomes(r, "idle", "none", FALSE, Absent)
  BY DEF Stop, Idle, Types, RunState, Becomes, Pcs, Ops

LEMMA BeginEffect ==
    ASSUME Types, NEW r \in Runners, NEW o \in Ops, NEW p \in Pcs, Begin(r, o, p)
    PROVE  Becomes(r, p, o, FALSE, Absent) /\ run[r].pc = "idle"
  BY DEF Begin, At, Idle, Types, RunState, Becomes

(* A failed step: the admin handler goes on to its reload.                  *)
LEMMA QuitEffect ==
    ASSUME Types, NEW r \in Runners, Quit(r)
    PROVE  \/ Becomes(r, "reload", run[r].op, run[r].existed, run[r].tok) /\ UNCHANGED raced
           \/ Becomes(r, "idle", "none", FALSE, Absent) /\ raced' = raced \ {r}
<1>1. CASE r = Admin
  BY <1>1, GoToEffect DEF Quit, Pcs
<1>2. CASE r # Admin
  <2>1. Stop(r)
    BY <1>2 DEF Quit
  <2>2. QED
    BY <2>1, StopEffect DEF Stop
<1>3. QED
  BY <1>1, <1>2

LEMMA StatEffect ==
    ASSUME Types, NEW r \in Runners, StatAuth(r)
    PROVE  Becomes(r, "mkdir", run[r].op, (auth # Absent), run[r].tok)
  BY DEF StatAuth, Types, RunState, Becomes, Pcs

LEMMA TokEffect ==
    ASSUME Types, NEW r \in Runners, NEW p \in Pcs, NEW t \in Tokens,
           run' = [run EXCEPT ![r].pc = p, ![r].tok = t]
    PROVE  Becomes(r, p, run[r].op, run[r].existed, t)
  BY DEF Types, RunState, Becomes

LEMMA ReadEffect ==
    ASSUME Types, NEW r \in Runners, NEW t \in Tokens,
           run' = [run EXCEPT ![r].pc = "config", ![r].existed = FALSE, ![r].tok = t]
    PROVE  Becomes(r, "config", run[r].op, FALSE, t)
  BY DEF Types, RunState, Becomes, Pcs

LEMMA SkipEffect ==
    ASSUME Types, NEW r \in Runners,
           run' = [run EXCEPT ![r].pc = "remove", ![r].op = "delete"]
    PROVE  Becomes(r, "remove", "delete", run[r].existed, run[r].tok)
  BY DEF Types, RunState, Becomes, Pcs, Ops

(* A removal: every other run under way is known to race.                  *)
LEMMA UnlinkEffect ==
    ASSUME Types, NEW r \in Runners, NEW p \in Pcs, Unlink(r, p), run[r].pc # "auth"
    PROVE  /\ run' \in [Runners -> RunState]
           /\ run'[r].pc = p /\ run'[r].op = run[r].op
           /\ \A q \in Runners \ {r} :
                 /\ run'[q].existed = run[q].existed /\ run'[q].tok = run[q].tok
                 /\ run'[q].op = run[q].op
                 /\ run'[q].pc = IF run[q].pc = "auth" THEN "config" ELSE run[q].pc
           /\ \A q \in Runners \ {r} : q \in raced' \/ run[q].pc = "idle"
           /\ raced' \in SUBSET Runners
<1>c. "config" \in Pcs
  BY DEF Pcs
<1>1. ASSUME NEW q \in Runners
      PROVE  /\ run'[q] \in RunState
             /\ run'[q].existed = run[q].existed /\ run'[q].tok = run[q].tok
             /\ run'[q].op = run[q].op
             /\ run'[q].pc = IF q = r THEN p ELSE IF run[q].pc = "auth" THEN "config" ELSE run[q].pc
  <2>0. run[q] \in RunState
    BY DEF Types
  <2>1. CASE q = r
    <3>1. run'[q] = [run[q] EXCEPT !.pc = p]
      BY <2>1 DEF Unlink
    <3>2. QED
      BY <2>0, <2>1, <3>1 DEF RunState
  <2>2. CASE q # r /\ run[q].pc = "auth"
    <3>1. run'[q] = [run[q] EXCEPT !.pc = "config"]
      BY <2>2 DEF Unlink
    <3>2. QED
      BY <1>c, <2>0, <2>2, <3>1 DEF RunState
  <2>3. CASE q # r /\ run[q].pc # "auth"
    <3>1. run'[q] = run[q]
      BY <2>3 DEF Unlink
    <3>2. QED
      BY <2>0, <2>3, <3>1
  <2>4. QED
    BY <2>1, <2>2, <2>3
<1>2. run' = [q \in Runners |-> run'[q]]
  BY DEF Unlink
<1>3. run' \in [Runners -> RunState]
  BY <1>1, <1>2
<1>8. /\ \A q \in Runners \ {r} : q \in raced' \/ run[q].pc = "idle"
      /\ raced' \in SUBSET Runners
  BY DEF Unlink, Others, Types
<1>9. QED
  BY <1>1, <1>3, <1>8

-----------------------------------------------------------------------------
(* Types.                                                                  *)

LEMMA TypesInit == Init => Types
<1>1. Idle \in RunState
  BY DEF RunState, Idle, Pcs, Ops
<1>2. QED
  BY <1>1 DEF Init, Types

LEMMA TypesStep == ASSUME Types, Next PROVE Types'
<1>r. \A r \in Runners : raced \in SUBSET Runners /\ (Claim(r) \/ Stop(r) \/ Quit(r) => raced' \in SUBSET Runners)
  BY DEF Types, Claim, Stop, Quit, Others
<1>s. \A r \in Runners : Spoil(r) => /\ raced' \in SUBSET Runners
                                     /\ told' \in Tokens \cup {Absent}
  BY DEF Types, Spoil, Others
<1>t. \A r \in Runners : Tell(r) => told' \in Tokens \cup {Absent}
  BY DEF Types, Tell, RunState
<1>p. /\ {"idle", "postgres", "bucket", "stat", "mkdir", "token", "auth", "config", "conf", "reload",
          "purge", "empty", "rows", "remove", "removing", "done"} \subseteq Pcs
      /\ {"none", "profile", "binding", "delete", "purge"} \subseteq Ops
  BY DEF Pcs, Ops
<1>b. \A r, p, o, e, t : Becomes(r, p, o, e, t) => run' \in [Runners -> RunState]
  BY DEF Becomes
<1>g. ASSUME NEW r \in Runners, NEW p \in Pcs, GoTo(r, p) PROVE run' \in [Runners -> RunState]
  BY <1>b, <1>g, GoToEffect
<1>i. ASSUME NEW r \in Runners, Stop(r) PROVE run' \in [Runners -> RunState]
  BY <1>b, <1>i, StopEffect
<1>q. ASSUME NEW r \in Runners, Quit(r) PROVE run' \in [Runners -> RunState]
  BY <1>b, <1>q, QuitEffect
<1>j. ASSUME NEW r \in Runners, NEW o \in Ops, NEW p \in Pcs, Begin(r, o, p)
      PROVE  run' \in [Runners -> RunState]
  BY <1>b, <1>j, BeginEffect
<1>1. ASSUME NEW r \in Runners, CreateStart(r) \/ BindingCreate(r) \/ DeleteStart(r) PROVE Types'
  BY <1>1, <1>r, <1>p, <1>j DEF CreateStart, BindingCreate, DeleteStart, Types, stores, files
<1>2. ASSUME NEW r \in Runners, ProvisionPostgres(r) \/ MakeDir(r) \/ DeleteIndex(r) \/ RemoveBucket(r) PROVE Types'
  BY <1>2, <1>r, <1>p, <1>g, <1>i DEF ProvisionPostgres, MakeDir, DeleteIndex, RemoveBucket, Types,
     stores, files, hist
<1>3. ASSUME NEW r \in Runners, ProvisionBucket(r) PROVE Types'
  BY <1>3, <1>r, <1>t, <1>p, <1>g, <1>i DEF ProvisionBucket, Types, files
<1>4. ASSUME NEW r \in Runners, StatAuth(r) PROVE Types'
  <2>1. run' \in [Runners -> RunState]
    BY <1>4, <1>b, StatEffect
  <2>2. QED
    BY <1>4, <1>r, <2>1 DEF StatAuth, Types, stores, files
<1>5. ASSUME NEW r \in Runners, ReadToken(r) PROVE Types'
  <2>1. run' \in [Runners -> RunState]
    BY <1>5, <1>b, <1>p, <1>q, ReadEffect DEF ReadToken
  <2>2. QED
    BY <1>5, <1>r, <2>1 DEF ReadToken, Types, stores, files
<1>6. ASSUME NEW r \in Runners, OpenAuth(r) PROVE Types'
  <2>1. run' \in [Runners -> RunState]
    BY <1>6, <1>b, <1>p, <1>q, TokEffect, NewToken DEF OpenAuth
  <2>2. QED
    BY <1>6, <1>r, <1>s, <2>1 DEF OpenAuth, Types, stores
<1>7. ASSUME NEW r \in Runners, WriteAuth(r) PROVE Types'
  <2>1. run[r].tok \in Tokens \cup {Absent}
    BY DEF Types, RunState
  <2>2. QED
    BY <1>7, <1>r, <1>s, <1>t, <1>p, <1>g, <2>1 DEF WriteAuth, Types, stores
<1>8. ASSUME NEW r \in Runners, OpenConfig(r) \/ WriteConfig(r) \/ Done(r) \/ Crash(r) PROVE Types'
  BY <1>8, <1>r, <1>t, <1>p, <1>g, <1>i, <1>q DEF OpenConfig, WriteConfig, Done, Crash, Types, stores, files
<1>9. ASSUME NEW r \in Runners, PurgeBinding(r) PROVE Types'
  <2>1. run' \in [Runners -> RunState]
    BY <1>9, <1>b, <1>p, <1>g, <1>i, SkipEffect DEF PurgeBinding
  <2>2. QED
    BY <1>9, <1>r, <2>1 DEF PurgeBinding, Types, files
<1>10. ASSUME NEW r \in Runners, RemoveSome(r) \/ RemoveDone(r) PROVE Types'
  <2>1. PICK p \in Pcs : Unlink(r, p) /\ run[r].pc # "auth"
    BY <1>10, <1>p DEF RemoveSome, RemoveDone, At
  <2>2. run' \in [Runners -> RunState] /\ raced' \in SUBSET Runners
    BY <2>1, UnlinkEffect
  <2>3. auth' = Absent /\ told' = Absent
    BY <2>1 DEF Unlink
  <2>4. QED
    BY <1>10, <2>2, <2>3 DEF RemoveSome, RemoveDone, Types, stores
<1>11. CASE SiblingPurged \/ Reload \/ Write \/ AutoIndex
  <2>1. Admin \in Runners
    BY DEF Runners
  <2>2. QED
    BY <1>11, <1>r, <1>i, <2>1 DEF SiblingPurged, Reload, Write, AutoIndex, Types, stores, files, hist
<1>12. QED
  BY <1>1, <1>2, <1>3, <1>4, <1>5, <1>6, <1>7, <1>8, <1>9, <1>10, <1>11 DEF Next, Step

-----------------------------------------------------------------------------
(* The token that was handed out.                                          *)

(* A run moves and leaves auth.toml alone.                                 *)
LEMMA Aside ==
    ASSUME TokenInv, NEW r \in Runners, UNCHANGED <<auth, told>>, dir' = dir \/ dir' = TRUE,
           \A q \in Runners \ {r} : run'[q] = run[q] /\ (q \in raced => q \in raced'),
           r \in raced => r \in raced' \/ run'[r].pc = "idle",
           run'[r].pc = "auth" => /\ run[r].pc = "auth" /\ run'[r].tok = run[r].tok
                                  /\ run'[r].existed = run[r].existed,
           run'[r].pc = "postgres" => run'[r].op = "profile",
           run'[r].pc = "bucket" => run'[r].op \in {"profile", "binding"},
           Writing(r)' => Writing(r) /\ (run'[r].pc = "auth" <=> run[r].pc = "auth"),
           Holding(r)' => Holding(r) /\ run'[r].tok = run[r].tok
    PROVE  Orderly'
<1> USE DEF TokenInv, Orderly
<1>1. \A q \in Runners \ {r} : (Writing(q)' <=> Writing(q)) /\ (Holding(q)' <=> Holding(q))
  BY DEF Writing, Holding
<1>2. run'[r].pc = "idle" => ~Writing(r)' /\ ~Holding(r)'
  BY DEF Writing, Holding
<1>3. Alone'
  BY <1>1, <1>2 DEF Alone
<1>4. Vacant'
  <2>1. \A q \in Runners : run'[q].pc = "auth" => dir' /\ run'[q].tok \in Tokens /\ ~run'[q].existed
    <3>1. run'[r].pc = "auth" => ~run'[r].existed
      BY DEF Vacant
    <3>2. QED
      BY <3>1 DEF Vacant
  <2>2. \A q \in Runners \ raced' : Writing(q)' =>
            auth = IF run'[q].pc = "auth" THEN Torn ELSE Absent
    BY <1>1, <1>2 DEF Vacant
  <2>3. QED
    BY <2>1, <2>2 DEF Vacant
<1>5. Kept'
  BY <1>1, <1>2 DEF Kept
<1>6. TokenIsEffective'
  BY DEF TokenIsEffective
<1>7. Opened'
  BY DEF Opened
<1>8. QED
  BY <1>3, <1>4, <1>5, <1>6, <1>7

(* The pcs between which a run neither begins to write nor to hold.        *)
Calm == {"idle", "postgres", "stat", "reload", "purge", "empty", "rows", "remove", "removing", "done"}

LEMMA AsideCalm ==
    ASSUME TokenInv, NEW r \in Runners, UNCHANGED <<auth, told>>, dir' = dir \/ dir' = TRUE,
           NEW p \in Calm, NEW o, NEW e, NEW t, Becomes(r, p, o, e, t), p = "postgres" => o = "profile",
           raced' = raced \/ (raced' = raced \ {r} /\ p = "idle")
    PROVE  Orderly'
<1>1. \A q \in Runners \ {r} : run'[q] = run[q] /\ (q \in raced => q \in raced')
  BY DEF Becomes
<1>2. run'[r].pc = p /\ run'[r].op = o /\ p # "auth" /\ p # "bucket" /\ ~Writing(r)' /\ ~Holding(r)'
  BY DEF Becomes, Calm, Writing, Holding
<1>3. QED
  BY <1>1, <1>2, Aside

LEMMA AsideQuit ==
    ASSUME TokenInv, NEW r \in Runners, Quit(r), UNCHANGED <<auth, told, dir>>
    PROVE  Orderly'
<1>1. Types /\ {"idle", "reload"} \subseteq Calm
  BY DEF TokenInv, Calm
<1>2. CASE Becomes(r, "reload", run[r].op, run[r].existed, run[r].tok) /\ UNCHANGED raced
  BY <1>1, <1>2, AsideCalm
<1>3. CASE Becomes(r, "idle", "none", FALSE, Absent) /\ raced' = raced \ {r}
  BY <1>1, <1>3, AsideCalm
<1>4. QED
  BY <1>1, <1>2, <1>3, QuitEffect

LEMMA TokenCalm ==
    ASSUME TokenInv, NEW r \in Runners,
           CreateStart(r) \/ DeleteStart(r) \/ DeleteIndex(r) \/ RemoveBucket(r) \/ PurgeBinding(r)
           \/ Done(r) \/ Crash(r)
    PROVE  Orderly'
<1> USE DEF TokenInv, Orderly
<1>c. {"idle", "postgres", "stat", "purge", "empty", "rows", "remove"} \subseteq Calm
      /\ {"idle", "postgres", "stat", "purge", "empty", "rows", "remove"} \subseteq Pcs
      /\ {"profile", "delete", "purge"} \subseteq Ops
  BY DEF Calm, Pcs, Ops
<1>s. ASSUME Stop(r), UNCHANGED <<auth, told, dir>>
      PROVE  Orderly'
  BY <1>s, <1>c, StopEffect, AsideCalm DEF Stop
<1>g. ASSUME NEW p \in Calm \cap Pcs, p # "postgres", GoTo(r, p), UNCHANGED <<auth, told, dir, raced>>
      PROVE  Orderly'
  BY <1>g, GoToEffect, AsideCalm
<1>b. ASSUME NEW p \in Calm \cap Pcs, NEW o \in Ops, Begin(r, o, p), p = "postgres" => o = "profile",
              UNCHANGED <<auth, told, dir, raced>>
      PROVE  Orderly'
  BY <1>b, BeginEffect, AsideCalm
<1>1. CASE CreateStart(r) \/ DeleteStart(r)
  BY <1>1, <1>b, <1>c DEF CreateStart, DeleteStart, files
<1>2. CASE DeleteIndex(r) \/ RemoveBucket(r) \/ Done(r) \/ Crash(r)
  BY <1>2, <1>s, <1>g, <1>c DEF DeleteIndex, RemoveBucket, Done, Crash, files
<1>3. CASE PurgeBinding(r)
  <2>1. CASE run' = [run EXCEPT ![r].pc = "remove", ![r].op = "delete"] /\ UNCHANGED raced
    BY <1>3, <1>c, <2>1, SkipEffect, AsideCalm DEF PurgeBinding, files
  <2>2. QED
    BY <1>3, <1>s, <1>g, <1>c, <2>1 DEF PurgeBinding, files
<1>4. QED
  BY <1>1, <1>2, <1>3

(* A run that has found its token goes on, or one that writes comes closer.*)
LEMMA TokenOn ==
    ASSUME TokenInv, NEW r \in Runners,
           ProvisionPostgres(r) \/ MakeDir(r) \/ OpenConfig(r)
    PROVE  Orderly'
<1> USE DEF TokenInv, Orderly
<1>c. "bucket" \in Pcs /\ "token" \in Pcs /\ "conf" \in Pcs
  BY DEF Pcs
<1>1. CASE ProvisionPostgres(r)
  <2>1. Becomes(r, "bucket", run[r].op, run[r].existed, run[r].tok) /\ run[r].pc = "postgres"
    BY <1>1, <1>c, GoToEffect DEF ProvisionPostgres, At
  <2>2. UNCHANGED <<auth, told, dir, raced>>
    BY <1>1 DEF ProvisionPostgres, files, hist
  <2>3. run[r].op = "profile"
    BY <2>1 DEF Opened
  <2>4. QED
    BY <2>1, <2>2, <2>3, Aside DEF Becomes, Writing, Holding
<1>2. CASE MakeDir(r)
  <2>1. Becomes(r, "token", run[r].op, run[r].existed, run[r].tok) /\ run[r].pc = "mkdir"
    BY <1>2, <1>c, GoToEffect DEF MakeDir, At
  <2>2. UNCHANGED <<auth, told, raced>> /\ dir' = TRUE
    BY <1>2 DEF MakeDir, hist
  <2>3. QED
    BY <2>1, <2>2, Aside DEF Becomes, Writing, Holding
<1>3. CASE OpenConfig(r)
  <2>1. UNCHANGED <<auth, told, dir>>
    BY <1>3 DEF OpenConfig
  <2>2. CASE GoTo(r, "conf") /\ UNCHANGED raced
    <3>1. Becomes(r, "conf", run[r].op, run[r].existed, run[r].tok) /\ run[r].pc = "config"
      BY <1>3, <1>c, <2>2, GoToEffect DEF OpenConfig, At
    <3>2. QED
      BY <2>1, <2>2, <3>1, Aside DEF Becomes, Writing, Holding
  <2>3. CASE Quit(r)
    BY <2>1, <2>3, AsideQuit
  <2>4. QED
    BY <1>3, <2>2, <2>3 DEF OpenConfig
<1>4. QED
  BY <1>1, <1>2, <1>3

(* A run finds no auth.toml: it writes alone, or every writer is known to race. *)
LEMMA Claimed ==
    ASSUME TokenInv, NEW r \in Runners, ~Writing(r), Claim(r), auth = Absent, UNCHANGED <<auth, told, dir>>,
           NEW o, NEW t, Becomes(r, "mkdir", o, FALSE, t)
    PROVE  Orderly'
<1> USE DEF TokenInv, Orderly
<1>1. \A q \in Runners \ {r} : run'[q] = run[q] /\ (Writing(q)' <=> Writing(q)) /\ (Holding(q)' <=> Holding(q))
  BY DEF Becomes, Writing, Holding
<1>2. Writing(r)' /\ ~Holding(r)' /\ run'[r].pc = "mkdir"
  BY DEF Becomes, Writing, Holding
<1>3. raced \subseteq raced'
  BY DEF Claim
<1>4. ASSUME NEW q \in Runners \ {r}, Writing(q) PROVE q \in raced' /\ r \in raced'
  <2>1. q \in Others(r)
    BY <1>4 DEF Others, Writing
  <2>2. QED
    BY <1>4, <2>1 DEF Claim, Writing
<1>5. Alone'
  BY <1>1, <1>3, <1>4 DEF Alone
<1>6. Vacant'
  BY <1>1, <1>2, <1>3 DEF Vacant
<1>7. Kept'
  BY <1>1, <1>2, <1>3 DEF Kept
<1>8. Opened' /\ TokenIsEffective'
  BY <1>1, <1>2 DEF Opened, TokenIsEffective
<1>9. QED
  BY <1>5, <1>6, <1>7, <1>8

LEMMA TokenStat ==
    ASSUME TokenInv, NEW r \in Runners, StatAuth(r) \/ BindingCreate(r)
    PROVE  Orderly'
<1> USE DEF TokenInv, Orderly
<1>1. CASE StatAuth(r) /\ auth # Absent
  <2>1. Becomes(r, "mkdir", run[r].op, (auth # Absent), run[r].tok)
    BY <1>1, StatEffect
  <2>2. UNCHANGED <<auth, told, dir, raced>>
    BY <1>1 DEF StatAuth, files
  <2>3. run'[r].pc = "mkdir" /\ run'[r].existed
    BY <1>1, <2>1 DEF Becomes
  <2>4. ~Writing(r)' /\ ~Holding(r)'
    BY <2>3 DEF Writing, Holding
  <2>5. QED
    BY <2>1, <2>2, <2>3, <2>4, Aside DEF Becomes
<1>2. CASE StatAuth(r) /\ auth = Absent
  <2>1. Becomes(r, "mkdir", run[r].op, FALSE, run[r].tok)
    BY <1>2, StatEffect
  <2>2. Claim(r) /\ UNCHANGED <<auth, told, dir>> /\ ~Writing(r)
    BY <1>2 DEF StatAuth, files, At, Writing
  <2>3. QED
    BY <1>2, <2>1, <2>2, Claimed
<1>3. CASE BindingCreate(r)
  <2>1. Becomes(r, "mkdir", "binding", FALSE, Absent) /\ run[r].pc = "idle"
    BY <1>3, BeginEffect DEF BindingCreate, Pcs, Ops
  <2>2. Claim(r) /\ UNCHANGED <<auth, told, dir>> /\ ~Writing(r)
    BY <1>3, <2>1 DEF BindingCreate, files, Writing
  <2>3. auth = Absent
    BY <1>3 DEF BindingCreate, Vacant
  <2>4. QED
    BY <2>1, <2>2, <2>3, Claimed
<1>4. QED
  BY <1>1, <1>2, <1>3

(* The token is read back.                                                 *)
LEMMA TokenRead == ASSUME TokenInv, NEW r \in Runners, ReadToken(r) PROVE Orderly'
<1> USE DEF TokenInv, Orderly
<1>1. UNCHANGED <<auth, told, dir>>
  BY DEF ReadToken, files
<1>2. CASE auth \notin Tokens
  <2>1. Quit(r)
    BY <1>2 DEF ReadToken
  <2>2. QED
    BY <1>1, <2>1, AsideQuit
<1>3. CASE auth \in Tokens
  <2>1. Becomes(r, "config", run[r].op, FALSE, auth) /\ UNCHANGED raced
    BY <1>3, ReadEffect DEF ReadToken
  <2>2. \A q \in Runners \ {r} : run'[q] = run[q] /\ (Writing(q)' <=> Writing(q)) /\ (Holding(q)' <=> Holding(q))
    BY <2>1 DEF Becomes, Writing, Holding
  <2>3. ~Writing(r)' /\ run'[r].pc = "config" /\ run'[r].tok = auth
    BY <2>1 DEF Becomes, Writing
  <2>4. Alone' /\ Vacant'
    BY <1>1, <2>1, <2>2, <2>3 DEF Alone, Vacant
  <2>5. Kept'
    BY <1>1, <1>3, <2>1, <2>2, <2>3 DEF Kept
  <2>6. Opened' /\ TokenIsEffective'
    BY <1>1, <2>2, <2>3 DEF Opened, TokenIsEffective
  <2>7. QED
    BY <2>4, <2>5, <2>6
<1>4. QED
  BY <1>2, <1>3

(* What happens when auth.toml is written: by a run that raced everything  *)
(* said of it is given up; one that writes alone finds nobody to disturb.  *)
LEMMA Spoiled ==
    ASSUME TokenInv, NEW r \in Runners, Writing(r), Spoil(r)
    PROVE  /\ told' = Absent /\ raced \subseteq raced' /\ (r \in raced' => r \in raced)
           /\ \A q \in Runners \ {r} : q \notin raced' => ~Writing(q) /\ ~Holding(q)
<1> USE DEF TokenInv, Orderly
<1>1. CASE r \in raced
  <2>1. told' = Absent /\ raced' = raced \cup Others(r)
    BY <1>1 DEF Spoil
  <2>2. \A q \in Runners \ {r} : Writing(q) \/ Holding(q) => q \in Others(r)
    BY DEF Others, Writing, Holding
  <2>3. QED
    BY <1>1, <2>1, <2>2
<1>2. CASE r \notin raced
  <2>1. UNCHANGED <<told, raced>>
    BY <1>2 DEF Spoil
  <2>2. auth \notin Tokens /\ told = Absent
    BY <1>2, TokenTypes DEF Vacant, TokenIsEffective, Types
  <2>3. \A q \in Runners \ {r} : q \notin raced => ~Holding(q)
    BY <2>2 DEF Kept
  <2>4. \A q \in Runners \ {r} : ~Writing(q)
    BY <1>2 DEF Alone
  <2>5. QED
    BY <1>2, <2>1, <2>2, <2>3, <2>4
<1>3. QED
  BY <1>1, <1>2

LEMMA TokenOpen == ASSUME TokenInv, NEW r \in Runners, OpenAuth(r) PROVE Orderly'
<1> USE DEF TokenInv, Orderly
<1>1. CASE ~dir
  <2>1. Quit(r) /\ UNCHANGED <<auth, told, dir>>
    BY <1>1 DEF OpenAuth
  <2>2. QED
    BY <2>1, AsideQuit
<1>2. CASE dir
  <2>1. PICK t \in Tokens : Becomes(r, "auth", run[r].op, run[r].existed, t)
    BY <1>2, NewToken, TokEffect DEF OpenAuth, Pcs
  <2>2. Writing(r) /\ auth' = Torn /\ Spoil(r) /\ dir' = dir /\ ~run[r].existed
    BY <1>2 DEF OpenAuth, Writing, At
  <2>3. /\ told' = Absent /\ raced \subseteq raced' /\ (r \in raced' => r \in raced)
        /\ \A q \in Runners \ {r} : q \notin raced' => ~Writing(q) /\ ~Holding(q)
    BY <2>2, Spoiled
  <2>4. \A q \in Runners \ {r} : run'[q] = run[q] /\ (Writing(q)' <=> Writing(q)) /\ (Holding(q)' <=> Holding(q))
    BY <2>1 DEF Becomes, Writing, Holding
  <2>5. run'[r].pc = "auth" /\ run'[r].tok = t /\ ~run'[r].existed /\ ~Holding(r)'
    BY <2>1, <2>2 DEF Becomes, Holding
  <2>6. Alone'
    BY <2>2, <2>3, <2>4 DEF Alone
  <2>7. Vacant'
    BY <1>2, <2>2, <2>3, <2>4, <2>5 DEF Vacant
  <2>8. Kept'
    BY <2>3, <2>4, <2>5 DEF Kept
  <2>9. Opened' /\ TokenIsEffective'
    BY <2>3, <2>4, <2>5 DEF Opened, TokenIsEffective
  <2>10. QED
    BY <2>6, <2>7, <2>8, <2>9
<1>3. QED
  BY <1>1, <1>2

LEMMA TokenWrite == ASSUME TokenInv, NEW r \in Runners, WriteAuth(r) PROVE Orderly'
<1> USE DEF TokenInv, Orderly
<1>1. /\ Writing(r) /\ dir /\ dir' = dir /\ run[r].tok \in Tokens /\ ~run[r].existed
      /\ auth' = run[r].tok /\ run[r].pc = "auth"
  BY DEF WriteAuth, At, Writing, Vacant
<1>2. PICK p \in {"config", "done"} : /\ GoTo(r, p)
                                      /\ Spoil(r) \/ (p = "done" /\ r \notin raced /\ Tell(r) /\ UNCHANGED raced)
  BY DEF WriteAuth
<1>3. /\ raced \subseteq raced' /\ (r \in raced' => r \in raced)
      /\ \A q \in Runners \ {r} : q \notin raced' => ~Writing(q) /\ ~Holding(q)
      /\ told' = Absent \/ (told' = run[r].tok /\ UNCHANGED raced /\ r \notin raced)
  <2>1. CASE Spoil(r)
    BY <1>1, <2>1, Spoiled
  <2>2. CASE r \notin raced /\ Tell(r) /\ UNCHANGED raced
    <3>1. auth \notin Tokens
      BY <1>1, <2>2, TokenTypes DEF Vacant
    <3>2. \A q \in Runners \ {r} : q \notin raced => ~Holding(q) /\ ~Writing(q)
      BY <1>1, <2>2, <3>1 DEF Kept, Alone
    <3>3. QED
      BY <2>2, <3>2 DEF Tell
  <2>3. QED
    BY <1>2, <2>1, <2>2
<1>4. Becomes(r, p, run[r].op, run[r].existed, run[r].tok)
  BY <1>2, GoToEffect DEF Pcs
<1>5. \A q \in Runners \ {r} : run'[q] = run[q] /\ (Writing(q)' <=> Writing(q)) /\ (Holding(q)' <=> Holding(q))
  BY <1>4 DEF Becomes, Writing, Holding
<1>6. run'[r].pc \in {"config", "done"} /\ run'[r].tok = run[r].tok /\ ~Writing(r)'
  BY <1>4 DEF Becomes, Writing
<1>7. Alone'
  BY <1>3, <1>5, <1>6 DEF Alone
<1>8. Vacant'
  BY <1>1, <1>3, <1>5, <1>6 DEF Vacant
<1>9. Kept'
  BY <1>1, <1>3, <1>5, <1>6 DEF Kept
<1>10. Opened' /\ TokenIsEffective'
  BY <1>1, <1>3, <1>5, <1>6 DEF Opened, TokenIsEffective
<1>11. QED
  BY <1>7, <1>8, <1>9, <1>10

(* The caller is told: what it gets is in auth.toml.                       *)
LEMMA Telling ==
    ASSUME TokenInv, NEW r \in Runners, Holding(r), Tell(r), UNCHANGED <<auth, dir>>,
           NEW p \in Calm, NEW o, NEW e, NEW t, Becomes(r, p, o, e, t), p # "postgres",
           raced' = raced \/ (raced' = raced \ {r} /\ p = "idle")
    PROVE  Orderly'
<1> USE DEF TokenInv, Orderly
<1>1. told' = told \/ told' = auth
  BY DEF Tell, Kept
<1>2. TokenIsEffective'
  BY <1>1 DEF TokenIsEffective
<1>3. \A q \in Runners \ {r} : /\ run'[q] = run[q] /\ (q \in raced => q \in raced')
                               /\ (Writing(q)' <=> Writing(q)) /\ (Holding(q)' <=> Holding(q))
  BY DEF Becomes, Writing, Holding
<1>4. run'[r].pc = p /\ p # "auth" /\ p # "bucket" /\ ~Writing(r)' /\ ~Holding(r)'
  BY DEF Becomes, Calm, Writing, Holding
<1>5. Alone' /\ Vacant'
  BY <1>3, <1>4 DEF Alone, Vacant
<1>6. Kept' /\ Opened'
  BY <1>3, <1>4 DEF Kept, Opened
<1>7. QED
  BY <1>2, <1>5, <1>6

LEMMA TokenTell ==
    ASSUME TokenInv, NEW r \in Runners, ProvisionBucket(r) \/ WriteConfig(r)
    PROVE  Orderly'
<1> USE DEF TokenInv, Orderly
<1>c. {"idle", "stat", "reload", "done"} \subseteq Calm \cap Pcs /\ "bucket" \in Pcs
  BY DEF Calm, Pcs
<1>1. CASE ProvisionBucket(r) /\ run[r].op = "profile"
  <2>1. GoTo(r, "stat") /\ UNCHANGED <<auth, told, dir, raced>>
    BY <1>1 DEF ProvisionBucket, files
  <2>2. QED
    BY <1>c, <2>1, GoToEffect, AsideCalm
<1>2. CASE ProvisionBucket(r) /\ run[r].op # "profile"
  <2>1. Stop(r) /\ UNCHANGED <<auth, dir>> /\ (Tell(r) \/ told' = told) /\ run[r].pc = "bucket"
    BY <1>2 DEF ProvisionBucket, files, At
  <2>2. Becomes(r, "idle", "none", FALSE, Absent) /\ raced' = raced \ {r}
    BY <2>1, StopEffect DEF Stop
  <2>3. Holding(r)
    BY <1>2, <2>1 DEF Holding, Opened
  <2>4. QED
    BY <1>c, <2>1, <2>2, <2>3, AsideCalm, Telling
<1>3. CASE WriteConfig(r)
  <2>1. run[r].pc = "conf" /\ UNCHANGED <<auth, dir, raced>> /\ Holding(r)
    BY <1>3 DEF WriteConfig, At, Holding
  <2>2. CASE run[r].op = "binding" /\ GoTo(r, "bucket") /\ UNCHANGED told
    <3>1. Becomes(r, "bucket", run[r].op, run[r].existed, run[r].tok)
      BY <1>c, <2>2, GoToEffect
    <3>2. QED
      BY <2>1, <2>2, <3>1, Aside DEF Becomes, Writing, Holding
  <2>3. CASE GoTo(r, IF r = Admin THEN "reload" ELSE "done") /\ Tell(r)
    <3>1. PICK p \in {"reload", "done"} : GoTo(r, p)
      BY <2>3
    <3>2. QED
      BY <1>c, <2>1, <2>3, <3>1, GoToEffect, Telling
  <2>4. QED
    BY <1>3, <2>2, <2>3 DEF WriteConfig
<1>4. QED
  BY <1>1, <1>2, <1>3

(* A delete removes auth.toml, and every other run under way is known to race. *)
LEMMA TokenUnlink ==
    ASSUME TokenInv, NEW r \in Runners, RemoveSome(r) \/ RemoveDone(r)
    PROVE  Orderly'
<1> USE DEF TokenInv, Orderly
<1>1. PICK p \in {"removing", "done"} : Unlink(r, p) /\ run[r].pc # "auth"
  BY DEF RemoveSome, RemoveDone, At
<1>2. auth' = Absent /\ told' = Absent
  BY <1>1 DEF Unlink
<1>3. /\ run'[r].pc = p
      /\ \A q \in Runners \ {r} :
            /\ run'[q].existed = run[q].existed /\ run'[q].tok = run[q].tok /\ run'[q].op = run[q].op
            /\ run'[q].pc = IF run[q].pc = "auth" THEN "config" ELSE run[q].pc
            /\ q \in raced' \/ run[q].pc = "idle"
  BY <1>1, UnlinkEffect DEF Pcs
<1>4. /\ \A q \in Runners : run'[q].pc # "auth"
      /\ \A q \in Runners \ raced' : ~Writing(q)' /\ ~Holding(q)'
  BY <1>3 DEF Writing, Holding
<1>5. Alone'
  BY <1>4 DEF Alone
<1>6. Vacant' /\ Kept'
  BY <1>2, <1>4 DEF Vacant, Kept
<1>7. Opened' /\ TokenIsEffective'
  BY <1>2, <1>3 DEF Opened, TokenIsEffective
<1>8. QED
  BY <1>5, <1>6, <1>7

LEMMA TokenReload ==
    ASSUME TokenInv, SiblingPurged \/ Reload \/ Write \/ AutoIndex
    PROVE  Orderly'
<1> USE DEF TokenInv, Orderly
<1>1. UNCHANGED <<auth, told, dir>> /\ (Stop(Admin) \/ UNCHANGED <<run, raced>>)
  BY DEF SiblingPurged, Reload, Write, AutoIndex, files, hist
<1>2. CASE UNCHANGED <<run, raced>>
  BY <1>1, <1>2 DEF Alone, Vacant, Kept, Opened, TokenIsEffective, Writing, Holding
<1>3. CASE Stop(Admin)
  <2>1. Admin \in Runners /\ "idle" \in Calm
    BY DEF Runners, Calm
  <2>2. QED
    BY <1>1, <1>3, <2>1, StopEffect, AsideCalm DEF Stop
<1>4. QED
  BY <1>1, <1>2, <1>3

LEMMA TokenStep == TokenInv /\ [Next]_vars => TokenInv'
<1> SUFFICES ASSUME TokenInv, [Next]_vars PROVE TokenInv'
  OBVIOUS
<1>1. CASE UNCHANGED vars
  BY <1>1 DEF TokenInv, Types, Orderly, Alone, Vacant, Kept, Opened, TokenIsEffective, Writing,
     Holding, vars, stores, files, hist
<1>2. CASE Next
  <2>1. Types'
    BY <1>2, TypesStep DEF TokenInv
  <2>2. Orderly'
    BY <1>2, TokenCalm, TokenOn, TokenStat, TokenRead, TokenOpen, TokenWrite, TokenTell,
       TokenUnlink, TokenReload DEF Next, Step
  <2>3. QED
    BY <2>1, <2>2 DEF TokenInv
<1>3. QED
  BY <1>1, <1>2

(* Whoever was given the binding's token holds the one in auth.toml, until *)
(* the binding is deleted or two creates that both found no auth.toml meet *)
(* (provision.go: "never clobber a live token").                           *)
THEOREM TokenIsEffectiveHolds == Spec => []TokenIsEffective
<1>1. Init => TokenInv
  <2>1. ASSUME Init PROVE Orderly
    BY <2>1 DEF Init, Idle, Orderly, Alone, Vacant, Kept, Opened, TokenIsEffective, Writing, Holding
  <2>2. QED
    BY <2>1, TypesInit DEF TokenInv
<1>2. TokenInv => TokenIsEffective
  BY DEF TokenInv, Orderly
<1>3. QED
  BY <1>1, <1>2, TokenStep, PTL DEF Spec

-----------------------------------------------------------------------------
(* The rows of a purged binding.                                           *)

LEMMA RowlessStep == ASSUME Types, Rowless, Next PROVE Rowless'
<1>w. ASSUME NEW r \in Runners, Step(r) \/ CreateStart(r) \/ BindingCreate(r) \/ Crash(r)
      PROVE  wrote' = wrote /\ (rows' = rows \/ rows' = FALSE)
  BY <1>w DEF Step, CreateStart, BindingCreate, Crash, ProvisionPostgres, ProvisionBucket, StatAuth,
     MakeDir, ReadToken, OpenAuth, WriteAuth, OpenConfig, WriteConfig, DeleteIndex, RemoveBucket,
     PurgeBinding, RemoveSome, RemoveDone, Done, stores, hist
<1> DEFINE Late(r) == run[r].pc \in {"remove", "removing"} /\ run[r].op = "purge"
<1>k. ASSUME wrote' = wrote, rows' = rows \/ rows' = FALSE,
             \A r \in Runners : Late(r)' => Late(r) \/ ~rows'
      PROVE  Rowless'
  BY <1>k DEF Rowless
<1>b. ASSUME NEW r \in Runners, NEW p, NEW o, NEW e, NEW t, Becomes(r, p, o, e, t),
             p \notin {"remove", "removing"} \/ o = "delete"
      PROVE  \A q \in Runners : Late(q)' => Late(q)
  BY <1>b DEF Becomes
<1>p. /\ {"idle", "postgres", "bucket", "stat", "mkdir", "token", "auth", "config", "conf", "reload",
          "purge", "empty", "rows", "remove", "removing", "done"} \subseteq Pcs
      /\ {"none", "profile", "binding", "delete", "purge"} \subseteq Ops
  BY DEF Pcs, Ops
<1>g. ASSUME NEW r \in Runners, NEW p \in Pcs, GoTo(r, p), p \notin {"remove", "removing"}
      PROVE  \A q \in Runners : Late(q)' => Late(q)
  BY <1>g, <1>b, GoToEffect
<1>i. ASSUME NEW r \in Runners, Stop(r) PROVE \A q \in Runners : Late(q)' => Late(q)
  BY <1>i, <1>b, StopEffect
<1>q. ASSUME NEW r \in Runners, Quit(r) PROVE \A q \in Runners : Late(q)' => Late(q)
  BY <1>q, <1>b, QuitEffect
<1>1. ASSUME NEW r \in Runners, CreateStart(r) \/ BindingCreate(r) PROVE Rowless'
  <2>1. PICK p \in {"postgres", "mkdir"}, o \in Ops : Begin(r, o, p)
    BY <1>1, <1>p DEF CreateStart, BindingCreate
  <2>2. Becomes(r, p, o, FALSE, Absent)
    BY <1>p, <2>1, BeginEffect
  <2>3. \A q \in Runners : Late(q)' => Late(q)
    BY <1>b, <2>1, <2>2
  <2>4. QED
    BY <1>1, <1>w, <1>k, <2>3
<1>2. ASSUME NEW r \in Runners, DeleteStart(r) PROVE Rowless'
  <2>1. PICK p \in {"remove", "purge"}, o \in Ops : Begin(r, o, p) /\ (p = "remove" => o = "delete")
    BY <1>2, <1>p DEF DeleteStart
  <2>2. Becomes(r, p, o, FALSE, Absent)
    BY <1>p, <2>1, BeginEffect
  <2>3. \A q \in Runners : Late(q)' => Late(q)
    BY <1>b, <2>1, <2>2
  <2>4. ASSUME NEW q \in Runners, Late(q)' PROVE wrote'
    <3>1. q # r
      BY <2>1, <2>2, <2>4 DEF Becomes
    <3>2. q \in Others(r)
      BY <2>3, <2>4, <3>1 DEF Others
    <3>3. QED
      BY <1>2, <3>2 DEF DeleteStart
  <2>5. QED
    BY <2>4 DEF Rowless
<1>3. ASSUME NEW r \in Runners,
             ProvisionPostgres(r) \/ ProvisionBucket(r) \/ MakeDir(r) \/ WriteAuth(r) \/ OpenConfig(r)
             \/ WriteConfig(r) \/ DeleteIndex(r) \/ RemoveBucket(r) \/ Done(r) \/ Crash(r)
      PROVE  Rowless'
  <2>1. Stop(r) \/ Quit(r) \/ \E p \in Pcs \ {"remove", "removing"} : GoTo(r, p)
    BY <1>3, <1>p DEF ProvisionPostgres, ProvisionBucket, MakeDir, WriteAuth, OpenConfig, WriteConfig,
       DeleteIndex, RemoveBucket, Done, Crash
  <2>2. \A q \in Runners : Late(q)' => Late(q)
    BY <1>g, <1>i, <1>q, <2>1
  <2>3. QED
    BY <1>3, <1>w, <1>k, <2>2 DEF Step
<1>4. ASSUME NEW r \in Runners, StatAuth(r) \/ ReadToken(r) \/ OpenAuth(r) PROVE Rowless'
  <2>1. \/ Quit(r) \/ StatAuth(r)
        \/ \E t \in Tokens : run' = [run EXCEPT ![r].pc = "auth", ![r].tok = t]
        \/ \E t \in Tokens : run' = [run EXCEPT ![r].pc = "config", ![r].existed = FALSE, ![r].tok = t]
    BY <1>4, NewToken DEF ReadToken, OpenAuth
  <2>2. ASSUME StatAuth(r) PROVE \A q \in Runners : Late(q)' => Late(q)
    BY <1>b, <1>p, <2>2, StatEffect
  <2>3. ASSUME NEW t \in Tokens, run' = [run EXCEPT ![r].pc = "auth", ![r].tok = t]
        PROVE  \A q \in Runners : Late(q)' => Late(q)
    <3>1. Becomes(r, "auth", run[r].op, run[r].existed, t)
      BY <1>p, <2>3, TokEffect
    <3>2. QED
      BY <1>b, <3>1
  <2>4. ASSUME NEW t \in Tokens,
               run' = [run EXCEPT ![r].pc = "config", ![r].existed = FALSE, ![r].tok = t]
        PROVE  \A q \in Runners : Late(q)' => Late(q)
    BY <1>b, <1>p, <2>4, ReadEffect
  <2>5. \A q \in Runners : Late(q)' => Late(q)
    BY <1>q, <2>1, <2>2, <2>3, <2>4
  <2>6. QED
    BY <1>4, <1>w, <1>k, <2>5 DEF Step
<1>5. ASSUME NEW r \in Runners, PurgeBinding(r) PROVE Rowless'
  <2>1. CASE rows' = FALSE
    BY <2>1 DEF Rowless
  <2>2. CASE Stop(r) \/ run' = [run EXCEPT ![r].pc = "remove", ![r].op = "delete"]
    BY <1>5, <1>w, <1>k, <1>b, <1>i, <2>2, SkipEffect DEF Step
  <2>3. QED
    BY <1>5, <2>1, <2>2 DEF PurgeBinding
<1>6. ASSUME NEW r \in Runners, RemoveSome(r) \/ RemoveDone(r) PROVE Rowless'
  <2>1. PICK p \in Pcs : Unlink(r, p) /\ run[r].pc \in {"remove", "removing"}
    BY <1>6, <1>p DEF RemoveSome, RemoveDone, At
  <2>2. \A q \in Runners : Late(q)' => Late(q)
    BY <2>1, UnlinkEffect
  <2>3. QED
    BY <1>6, <1>w, <1>k, <2>2 DEF Step
<1>7. CASE SiblingPurged \/ Reload \/ Write \/ AutoIndex
  <2>1. CASE Write
    BY <2>1 DEF Write, Rowless
  <2>2. CASE SiblingPurged \/ Reload \/ AutoIndex
    <3>1. wrote' = wrote /\ rows' = rows /\ (Stop(Admin) \/ run' = run) /\ Admin \in Runners
      BY <2>2 DEF SiblingPurged, Reload, AutoIndex, stores, hist, Runners
    <3>2. \A q \in Runners : Late(q)' => Late(q)
      BY <1>i, <3>1
    <3>3. QED
      BY <1>k, <3>1, <3>2
  <2>3. QED
    BY <1>7, <2>1, <2>2
<1>8. QED
  BY <1>1, <1>2, <1>3, <1>4, <1>5, <1>6, <1>7 DEF Next, Step

LEMMA PurgedStep == ASSUME Types, Rowless, PurgedIsGone, Next PROVE PurgedIsGone'
<1>1. ASSUME NEW r \in Runners, RemoveDone(r) PROVE PurgedIsGone'
  BY <1>1 DEF RemoveDone, At, Rowless, PurgedIsGone, stores
<1>2. ASSUME NEW r \in Runners, Step(r), ~RemoveDone(r)
      PROVE  purged' = purged /\ wrote' = wrote /\ (rows' = rows \/ rows' = FALSE)
  BY <1>2 DEF Step, ProvisionPostgres, ProvisionBucket, StatAuth, MakeDir, ReadToken, OpenAuth,
     WriteAuth, OpenConfig, WriteConfig, DeleteIndex, RemoveBucket, PurgeBinding, RemoveSome, Done,
     stores, hist
<1>3. ASSUME NEW r \in Runners, CreateStart(r) \/ BindingCreate(r) \/ DeleteStart(r) PROVE ~purged'
  BY <1>3 DEF CreateStart, BindingCreate, DeleteStart
<1>4. ASSUME NEW r \in Runners, Crash(r) PROVE UNCHANGED <<purged, wrote, rows>>
  BY <1>4 DEF Crash, stores
<1>5. CASE SiblingPurged \/ Reload \/ Write \/ AutoIndex
  BY <1>5 DEF SiblingPurged, Reload, Write, AutoIndex, PurgedIsGone, stores, hist
<1>6. QED
  BY <1>1, <1>2, <1>3, <1>4, <1>5 DEF Next, PurgedIsGone

(* The rows of a binding deleted with its data are gone, unless the daemon *)
(* wrote to it again: the directory goes last, and only when the purge     *)
(* succeeded (binding.go bindingDeleteCmd).                                *)
THEOREM PurgedIsGoneHolds == Spec => []PurgedIsGone
<1>1. Init => PurgeInv
  <2>1. ASSUME Init PROVE Rowless /\ PurgedIsGone
    BY <2>1 DEF Init, Rowless, PurgedIsGone
  <2>2. QED
    BY <2>1, TypesInit DEF PurgeInv
<1>2. PurgeInv /\ [Next]_vars => PurgeInv'
  <2> SUFFICES ASSUME PurgeInv, [Next]_vars PROVE PurgeInv'
    OBVIOUS
  <2>1. CASE UNCHANGED vars
    BY <2>1 DEF PurgeInv, Types, Rowless, PurgedIsGone, vars, stores, files, hist
  <2>2. CASE Next
    BY <2>2, TypesStep, RowlessStep, PurgedStep DEF PurgeInv
  <2>3. QED
    BY <2>1, <2>2
<1>3. PurgeInv => PurgedIsGone
  BY DEF PurgeInv
<1>4. QED
  BY <1>1, <1>2, <1>3, PTL DEF Spec

=============================================================================
