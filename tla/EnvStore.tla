------------------------------ MODULE EnvStore ------------------------------
(***************************************************************************)
(* The environments row of one project/branch, and the status graph that   *)
(* the store enforces on every write to it (internal/store).               *)
(*                                                                         *)
(* An Environment is kept as the fields that steer the reconciler.  The    *)
(* zero value of the Go struct is NoEnv: it is what a failed store call    *)
(* returns, and it also stands for "there is no row yet".                  *)
(***************************************************************************)
CONSTANT Artifact         \* the artifact references that have a name

NoArtifact == ""

ASSUME ArtifactAssumption == NoArtifact \notin Artifact

Status == {"pending", "deploying", "ready", "failed", "sleeping",
           "destroying", "destroyed", "degraded"}

(* ttl abstracts TTLExpiresAt against the clock: NULL, still in the future, *)
(* or at/before now.                                                        *)
Env == [id          : {"", "env"},
        status      : Status \cup {""},
        DeployRef   : {"", "ref"},
        ArtifactRef : Artifact \cup {NoArtifact},
        LastGood    : Artifact \cup {NoArtifact},
        ttl         : {"none", "running", "expired"}]

NoEnv == [id |-> "", status |-> "", DeployRef |-> "", ArtifactRef |-> NoArtifact,
          LastGood |-> NoArtifact, ttl |-> "none"]

(* The row upsertPendingEnvironment inserts for a branch it never saw. *)
NewRow(a) == [id |-> "env", status |-> "pending", DeployRef |-> "",
              ArtifactRef |-> a, LastGood |-> NoArtifact, ttl |-> "none"]

allowedTransitions ==
  [s \in Status |->
     CASE s = "pending"    -> {"deploying", "destroying", "failed"}
       [] s = "deploying"  -> {"ready", "degraded", "failed", "destroying"}
       [] s = "ready"      -> {"deploying", "sleeping", "destroying", "failed", "degraded"}
       [] s = "failed"     -> {"deploying", "destroying"}
       [] s = "sleeping"   -> {"deploying", "ready", "destroying"}
       [] s = "destroying" -> {"destroyed", "failed"}
       [] s = "destroyed"  -> {"deploying", "destroying"}
       [] s = "degraded"   -> {"deploying", "destroying"}]

CanTransition(from, to) ==
  /\ from \in Status
  /\ to = from \/ to \in allowedTransitions[from]

(* UpdateEnvironment accepts env: a row with its id exists and the move from *)
(* the stored status is legal.  The whole row is then replaced by env.       *)
CanWrite(row, env) ==
  /\ env.id # ""
  /\ row.id = env.id
  /\ CanTransition(row.status, env.status)
=============================================================================
