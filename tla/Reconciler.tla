----------------------------- MODULE Reconciler -----------------------------
(***************************************************************************)
(* The reconciler of internal/core for ONE project/branch that the policy  *)
(* admits: every entry point (API requests, the reaper's sweep, webhook    *)
(* events and the replay of durable events) run by concurrent goroutines,  *)
(* against the environments row, its dns_records row, the event log and    *)
(* the outside infrastructure.  One action is one store or provider call,  *)
(* so a crash or another goroutine can come between any two calls.         *)
(*                                                                         *)
(* A goroutine is a record task[t]; its field pc names the next call.  The *)
(* per-branch mutex is the variable lock (KeyedMutex shows that            *)
(* internal/core/keyedmutex.go provides it).  A call that fails is a       *)
(* fault; faults and crashes are bounded.                                  *)
(***************************************************************************)
EXTENDS Naturals, EnvStore

CONSTANTS
  Task,               \* goroutines that serve requests, webhooks and replays
  Event,              \* ids of the event log (bounds the number of requests)
  NoTask, NoEvent,
  Ops,                \* the requests clients make in this instance
  MaxApplyAttempts,   \* maxApplyAttempts (5 in the code)
  MaxEventAttempts,   \* maxEventAttempts (10 in the code)
  TTLEnabled,         \* defaultTTL > 0
  SlowWork,           \* may an event become due again while a goroutine still works on it
                      \* (its 10 minute lease ran out, or another goroutine rescheduled it)?
  MaxFaults,          \* bound on failing calls
  MaxCrashes          \* bound on daemon crashes

AllOps == {"apply", "rollback", "destroy", "sleep", "wake", "sweep", "push", "barepush",
           "close"}
Kind   == {"apply", "destroy", "sleep", "wake", "push", "close"}

ASSUME ReconcilerAssumption ==
  /\ NoTask \notin Task
  /\ NoEvent \notin Event
  /\ Ops \subseteq AllOps
  /\ MaxApplyAttempts \in Nat \ {0}
  /\ MaxEventAttempts \in Nat \ {0}
  /\ TTLEnabled \in BOOLEAN
  /\ SlowWork \in BOOLEAN
  /\ MaxFaults \in Nat
  /\ MaxCrashes \in Nat

VARIABLES
  row,      \* the environments row (NoEnv: none)
  dnsRow,   \* the dns_records row of the environment: "none" | "recorded"
  events,   \* the durable event log
  dep,      \* the deployment at the deploy target
  dns,      \* the record at the DNS provider: "absent" | "unowned" | "owned"
  cert,     \* where the certificate is: subset of {"issued", "installed"}
  lock,     \* holder of the project/branch mutex
  task,     \* the goroutines
  faults, crashes

infra == <<dep, dns, cert>>
bounds == <<faults, crashes>>
vars == <<row, dnsRow, events, dep, dns, cert, lock, task, faults, crashes>>

(* An event is pending while it is "due" or "waiting" (leased to a worker or *)
(* backing off: next_attempt_at lies in the future).                         *)
EventState == {"none", "due", "waiting", "processed", "dead", "dead_processed"}
Pending == {"due", "waiting"}
Dead == {"dead", "dead_processed"}
EventRec == [kind : Kind \cup {""}, art : Artifact \cup {NoArtifact},
             state : EventState, attempts : Nat]
NoEventRec == [kind |-> "", art |-> NoArtifact, state |-> "none", attempts |-> 0]

Deployment == [art : Artifact \cup {NoArtifact},
               mode : {"none", "starting", "up", "stopped"}]
NoDeployment == [art |-> NoArtifact, mode |-> "none"]

Pc == {"idle", "load", "lock", "upsert", "log", "deploying", "deploy", "health",
       "dns", "cert", "install", "record", "ready", "degraded", "failed",
       "destroying", "deldns", "delrow", "revoke", "remove", "undeploy", "destroyed",
       "sleep", "asleep", "wake", "awake", "settle", "unlock"}
TaskRec == [pc : Pc, src : {"api", "inbox"}, op : Kind, env : Env,
            art : Artifact \cup {NoArtifact}, ev : Event \cup {NoEvent},
            attempts : Nat, try : 1..(MaxApplyAttempts + 1),
            err : {"none", "transient", "terminal"}]
Idle == [pc |-> "idle", src |-> "api", op |-> "apply", env |-> NoEnv,
         art |-> NoArtifact, ev |-> NoEvent, attempts |-> 0, try |-> 1, err |-> "none"]

TypeOK ==
  /\ row \in Env
  /\ dnsRow \in {"none", "recorded"}
  /\ events \in [Event -> EventRec]
  /\ dep \in Deployment
  /\ dns \in {"absent", "unowned", "owned"}
  /\ cert \in SUBSET {"issued", "installed"}
  /\ lock \in Task \cup {NoTask}
  /\ task \in [Task -> TaskRec]
  /\ faults \in 0..MaxFaults
  /\ crashes \in 0..MaxCrashes

Init ==
  /\ row = NoEnv
  /\ dnsRow = "none"
  /\ events = [e \in Event |-> NoEventRec]
  /\ dep = NoDeployment
  /\ dns = "absent"
  /\ cert = {}
  /\ lock = NoTask
  /\ task = [t \in Task |-> Idle]
  /\ faults = 0
  /\ crashes = 0

-----------------------------------------------------------------------------
(* Building blocks *)

Become(t, r) == task' = [task EXCEPT ![t] = r]
Goto(t, p) == Become(t, [task[t] EXCEPT !.pc = p])

(* A call returns: ok, or an error that one of the MaxFaults faults explains. *)
Returns(ok) ==
  \/ ok /\ UNCHANGED faults
  \/ ~ok /\ faults < MaxFaults /\ faults' = faults + 1

(* Store.UpdateEnvironment(env): rejected for an illegal move or an unknown  *)
(* id, and otherwise written; on a fault the transaction may have committed  *)
(* all the same, because the row is read back after the commit.              *)
UpdateEnvironment(env, ok) ==
  \/ ok /\ CanWrite(row, env) /\ row' = env /\ UNCHANGED faults
  \/ ~ok /\ ~CanWrite(row, env) /\ UNCHANGED <<row, faults>>
  \/ ~ok /\ CanWrite(row, env) /\ Returns(ok) /\ row' \in {row, env}

(* The operation is over with error err: an API call settles its event and   *)
(* then drops the mutex, ProcessEvent drops the mutex first.                 *)
Over(r, err) == [r EXCEPT !.pc = IF r.src = "api" THEN "settle" ELSE "unlock",
                          !.err = err]

(* Ids no stored event has and no request in flight will use. *)
Fresh(e) == events[e].state = "none" /\ \A u \in Task : task[u].ev # e

-----------------------------------------------------------------------------
(* Requests *)

(* handleWebhook stores a verified delivery as a due event.  A push may name *)
(* no revision ("barepush": a GitHub payload without "after", a Bitbucket    *)
(* target without a hash), and nothing on its way rejects it.                *)
Deliver(e, op, a) ==
  /\ \/ op = "push" /\ (IF a = NoArtifact THEN "barepush" ELSE "push") \in Ops
     \/ op = "close" /\ "close" \in Ops /\ a = NoArtifact
  /\ Fresh(e)
  /\ events' = [events EXCEPT ![e] = [kind |-> op, art |-> a, state |-> "due", attempts |-> 0]]
  /\ UNCHANGED <<row, dnsRow, infra, lock, task, bounds>>

(* An API handler, or the reaper, calls Apply, Destroy, Sleep or Wake with   *)
(* what it read from the store before taking the mutex.                      *)
Request(t, e, op, a, env) ==
  /\ task[t].pc = "idle"
  /\ Fresh(e)
  /\ Become(t, [Idle EXCEPT !.pc = "lock", !.op = op, !.art = a, !.env = env, !.ev = e])
  /\ UNCHANGED <<row, dnsRow, events, infra, lock, bounds>>

RequestApply(t, e, a) == "apply" \in Ops /\ Request(t, e, "apply", a, NoEnv)

RequestRollback(t, e) ==
  /\ "rollback" \in Ops
  /\ row.LastGood # NoArtifact
  /\ Request(t, e, "apply", row.LastGood, NoEnv)

RequestOn(t, e, op) ==
  /\ op \in Ops \cap {"destroy", "sleep", "wake"}
  /\ row.id # ""
  /\ Request(t, e, op, NoArtifact, row)

(* ListExpiredEnvironments filters on the TTL alone, then Sweep destroys. *)
Sweep(t, e) ==
  /\ "sweep" \in Ops
  /\ row.ttl = "expired"
  /\ Request(t, e, "destroy", NoArtifact, row)

TTLExpires ==
  /\ row.ttl = "running"
  /\ row' = [row EXCEPT !.ttl = "expired"]
  /\ UNCHANGED <<dnsRow, events, infra, lock, task, bounds>>

(* ProcessEvent: whoever finds the event due takes it by compare-and-set. *)
Claim(t, e) ==
  /\ task[t].pc = "idle"
  /\ events[e].state = "due"
  /\ events' = [events EXCEPT ![e].state = "waiting"]
  /\ Become(t, [Idle EXCEPT !.pc = IF events[e].kind = "push" THEN "lock" ELSE "load",
                            !.src = "inbox", !.op = events[e].kind, !.art = events[e].art,
                            !.ev = e, !.attempts = events[e].attempts])
  /\ UNCHANGED <<row, dnsRow, infra, lock, bounds>>

(* ... and loads the environment, still without the mutex. *)
Load(t) ==
  /\ task[t].pc = "load"
  /\ \E ok \in BOOLEAN :
       /\ Returns(ok)
       /\ Become(t, IF ok /\ row.id # ""
                    THEN [task[t] EXCEPT !.pc = "lock", !.env = row]
                    ELSE [task[t] EXCEPT !.pc = "settle",
                            !.err = IF ~ok THEN "transient"
                                    ELSE IF task[t].op = "close" THEN "none" ELSE "terminal"])
  /\ UNCHANGED <<row, dnsRow, events, infra, lock, crashes>>

(* A lease runs out, or a backoff ends. *)
Elapse(e) ==
  /\ events[e].state = "waiting"
  /\ SlowWork \/ \A t \in Task : task[t].ev = e => task[t].src = "api"
  /\ events' = [events EXCEPT ![e].state = "due"]
  /\ UNCHANGED <<row, dnsRow, infra, lock, task, bounds>>

-----------------------------------------------------------------------------
(* Taking and dropping the mutex *)

(* The first call of the operation once it holds the mutex.  Sleep and Wake  *)
(* of the API check the status of the environment they were called with.     *)
Entry(r) ==
  CASE r.op = "push" \/ (r.op = "apply" /\ r.src = "api") -> "upsert"
    [] r.op = "apply" /\ r.src = "inbox"   -> "deploying"
    [] r.op = "destroy" /\ r.src = "api"   -> "log"
    [] r.op = "destroy" /\ r.src = "inbox" -> "deldns"
    [] r.op = "close"                      -> "destroying"
    [] r.op = "sleep" /\ r.src = "api"     -> IF r.env.status = "ready" THEN "log" ELSE "unlock"
    [] r.op = "wake" /\ r.src = "api"      -> IF r.env.status = "sleeping" THEN "log" ELSE "unlock"
    [] r.op = "sleep" /\ r.src = "inbox"   -> "sleep"
    [] r.op = "wake" /\ r.src = "inbox"    -> "wake"

Lock(t) ==
  /\ task[t].pc = "lock"
  /\ lock = NoTask
  /\ lock' = t
  /\ Goto(t, Entry(task[t]))
  /\ UNCHANGED <<row, dnsRow, events, infra, bounds>>

Unlock(t) ==
  /\ task[t].pc = "unlock"
  /\ lock' = NoTask
  /\ Become(t, IF task[t].src = "api" THEN Idle ELSE [task[t] EXCEPT !.pc = "settle"])
  /\ UNCHANGED <<row, dnsRow, events, infra, bounds>>

(* upsertPendingEnvironment *)
Upsert(t) ==
  /\ task[t].pc = "upsert"
  /\ LET env == IF row.id = "" THEN NewRow(task[t].art) ELSE row IN
     \/ /\ row' = env
        /\ Become(t, [task[t] EXCEPT !.env = env,
                                     !.pc = IF task[t].src = "api" THEN "log" ELSE "deploying"])
        /\ UNCHANGED faults
     \/ /\ Returns(FALSE)
        /\ UNCHANGED row
        /\ Become(t, [task[t] EXCEPT !.pc = "unlock", !.err = "transient"])
  /\ UNCHANGED <<dnsRow, events, infra, lock, crashes>>

(* The API operations log their event before any provider call; it has no    *)
(* next_attempt_at and no lease, so it is due at once.                       *)
Log(t) ==
  /\ task[t].pc = "log"
  /\ \/ /\ events' = [events EXCEPT ![task[t].ev] = [kind |-> task[t].op, art |-> task[t].art,
                                                     state |-> "due", attempts |-> 0]]
        /\ Goto(t, CASE task[t].op = "apply"   -> "deploying"
                     [] task[t].op = "destroy" -> "destroying"
                     [] task[t].op = "sleep"   -> "sleep"
                     [] task[t].op = "wake"    -> "wake"
                     [] OTHER                  -> "unlock")
        /\ UNCHANGED faults
     \/ /\ Returns(FALSE)
        /\ UNCHANGED events
        /\ Goto(t, "unlock")
  /\ UNCHANGED <<row, dnsRow, infra, lock, crashes>>

-----------------------------------------------------------------------------
(* doApply and attemptApply.  Attempt MaxApplyAttempts + 1 is the            *)
(* compensating redeploy of the last known-good revision.                    *)

RollingBack(r) == r.try = MaxApplyAttempts + 1
Target(r) == IF RollingBack(r) THEN r.env.LastGood ELSE r.art

(* Mutant: the retry loop is not bounded by the attempt budget. *)
MutAttemptFailed(r, env, err) ==
  [r EXCEPT !.pc = "deploy", !.try = r.try + 1, !.env = env, !.err = err]

(* An attempt failed with error err, leaving doApply with environment env.   *)
(* A failed rollback changes neither the environment nor the error.          *)
AttemptFailed(r, env, err) ==
  IF RollingBack(r) THEN [r EXCEPT !.pc = "failed"]
  ELSE IF \/ r.try < MaxApplyAttempts
          \/ env.LastGood \notin {NoArtifact, r.art}
       THEN [r EXCEPT !.pc = "deploy", !.try = r.try + 1, !.env = env, !.err = err]
       ELSE [r EXCEPT !.pc = "failed", !.env = env, !.err = err]

MarkDeploying(t) ==
  /\ task[t].pc = "deploying"
  /\ LET env == [task[t].env EXCEPT !.ArtifactRef = task[t].art, !.status = "deploying"] IN
     \E ok \in BOOLEAN :
       /\ UpdateEnvironment(env, ok)
       /\ Become(t, IF ok THEN [task[t] EXCEPT !.pc = "deploy", !.env = env, !.try = 1]
                          ELSE Over(task[t], "transient"))
  /\ UNCHANGED <<dnsRow, events, infra, lock, crashes>>

(* A failed deploy may have started the new revision all the same. *)
Deploy(t) ==
  /\ task[t].pc = "deploy"
  /\ LET new == [art |-> Target(task[t]), mode |-> "starting"] IN
     \/ dep' = new /\ Goto(t, "health") /\ UNCHANGED faults
     \/ /\ Returns(FALSE)
        /\ dep' \in {dep, new}
        /\ Become(t, AttemptFailed(task[t], task[t].env, "transient"))
  /\ UNCHANGED <<row, dnsRow, events, dns, cert, lock, crashes>>

(* Mutant: a readiness timeout is not treated as a failure. *)
MutHealth(t) ==
  /\ task[t].pc = "health"
  /\ UNCHANGED dep /\ Goto(t, "dns") /\ Returns(FALSE)
  /\ UNCHANGED <<row, dnsRow, events, dns, cert, lock, crashes>>

(* waitUntilHealthy: the deployment comes up before the timeout, or not. *)
Health(t) ==
  /\ task[t].pc = "health"
  /\ \/ dep' = [dep EXCEPT !.mode = "up"] /\ Goto(t, "dns") /\ UNCHANGED faults
     \/ /\ Returns(FALSE)
        /\ UNCHANGED dep
        /\ Become(t, AttemptFailed(task[t], task[t].env, "transient"))
  /\ UNCHANGED <<row, dnsRow, events, dns, cert, lock, crashes>>

(* EnsureRecord writes the record and then its TXT ownership marker.  A name *)
(* that has a record without the marker is refused for good.                 *)
EnsureRecord(t) ==
  /\ task[t].pc = "dns"
  /\ \/ dns # "unowned" /\ dns' = "owned" /\ Goto(t, "cert") /\ UNCHANGED faults
     \/ /\ dns = "unowned"
        /\ UNCHANGED <<dns, faults>>
        /\ Become(t, AttemptFailed(task[t], task[t].env, "terminal"))
     \/ /\ Returns(FALSE)
        /\ dns' \in {dns} \cup (IF dns = "absent" THEN {"unowned", "owned"} ELSE {})
        /\ Become(t, AttemptFailed(task[t], task[t].env, "transient"))
  /\ UNCHANGED <<row, dnsRow, events, dep, cert, lock, crashes>>

(* EnsureCertificate, then InstallCertificate *)
EnsureCertificate(t) ==
  /\ task[t].pc = "cert"
  /\ \/ cert' = cert \cup {"issued"} /\ Goto(t, "install") /\ UNCHANGED faults
     \/ /\ Returns(FALSE)
        /\ UNCHANGED cert
        /\ Become(t, AttemptFailed(task[t], task[t].env, "transient"))
  /\ UNCHANGED <<row, dnsRow, events, dep, dns, lock, crashes>>

InstallCertificate(t) ==
  /\ task[t].pc = "install"
  /\ \/ cert' = cert \cup {"installed"} /\ Goto(t, "record") /\ UNCHANGED faults
     \/ /\ Returns(FALSE)
        /\ cert' \in {cert, cert \cup {"installed"}}
        /\ Become(t, AttemptFailed(task[t], task[t].env, "transient"))
  /\ UNCHANGED <<row, dnsRow, events, dep, dns, lock, crashes>>

(* recordDNSRow: the zero environment has no id for the row to refer to. *)
RecordDNSRow(t) ==
  /\ task[t].pc = "record"
  /\ \/ /\ task[t].env.id # ""
        /\ dnsRow' = "recorded" /\ Goto(t, "ready") /\ UNCHANGED faults
     \/ /\ \/ task[t].env.id = "" /\ UNCHANGED faults
           \/ Returns(FALSE)
        /\ UNCHANGED dnsRow
        /\ Become(t, AttemptFailed(task[t], task[t].env, "transient"))
  /\ UNCHANGED <<row, events, infra, lock, crashes>>

(* Mutant: a first deployment does not become the last known-good revision. *)
MutReadyRow(r) == [r.env EXCEPT !.DeployRef = "ref", !.status = "ready",
                                !.ttl = IF TTLEnabled THEN "running" ELSE r.env.ttl]

(* What a successful attempt writes. *)
ReadyRow(r) == [r.env EXCEPT !.DeployRef = "ref", !.status = "ready", !.LastGood = Target(r),
                             !.ttl = IF TTLEnabled THEN "running" ELSE r.env.ttl]

(* A failed write leaves attemptApply with the zero environment. *)
MarkReady(t) ==
  /\ task[t].pc = "ready"
  /\ LET r == task[t]
         env == ReadyRow(r) IN
     \E ok \in BOOLEAN :
       /\ UpdateEnvironment(env, ok)
       /\ Become(t, IF ~ok THEN AttemptFailed(r, NoEnv, "transient")
                    ELSE IF RollingBack(r) THEN [r EXCEPT !.pc = "degraded", !.env = env]
                    ELSE Over([r EXCEPT !.env = env], "none"))
  /\ UNCHANGED <<dnsRow, events, infra, lock, crashes>>

(* After a rollback the apply is still an error, whatever this write returns. *)
MarkDegraded(t) ==
  /\ task[t].pc = "degraded"
  /\ \E ok \in BOOLEAN :
       UpdateEnvironment([task[t].env EXCEPT !.status = "degraded", !.ArtifactRef = task[t].art], ok)
  /\ Become(t, Over(task[t], task[t].err))
  /\ UNCHANGED <<dnsRow, events, infra, lock, crashes>>

MarkFailed(t) ==
  /\ task[t].pc = "failed"
  /\ \E ok \in BOOLEAN : UpdateEnvironment([task[t].env EXCEPT !.status = "failed"], ok)
  /\ Become(t, Over(task[t], task[t].err))
  /\ UNCHANGED <<dnsRow, events, infra, lock, crashes>>

-----------------------------------------------------------------------------
(* Destroy: every teardown step is attempted whatever the earlier ones did.  *)

Worse(err, new) == IF "terminal" \in {err, new} THEN "terminal" ELSE new

(* Mutant: a failed teardown step is forgotten. *)
MutStepFailed(r, p, err) == [r EXCEPT !.pc = p]

StepFailed(r, p, err) == [r EXCEPT !.pc = p, !.err = Worse(r.err, err)]

(* destroyLocked returns at once when this write fails: its event is neither *)
(* settled nor rescheduled.                                                  *)
MarkDestroying(t) ==
  /\ task[t].pc = "destroying"
  /\ LET env == [task[t].env EXCEPT !.status = "destroying"] IN
     \/ /\ task[t].env.status = "destroying"
        /\ Goto(t, "deldns")
        /\ UNCHANGED <<row, faults>>
     \/ /\ task[t].env.status # "destroying"
        /\ \E ok \in BOOLEAN :
             /\ UpdateEnvironment(env, ok)
             /\ Become(t, IF ok THEN [task[t] EXCEPT !.pc = "deldns", !.env = env]
                                ELSE [task[t] EXCEPT !.pc = "unlock", !.err = "transient"])
  /\ UNCHANGED <<dnsRow, events, infra, lock, crashes>>

(* DeleteRecord answers ErrOwnershipMismatch, a permanent failure, for a     *)
(* record that is gone or carries no ownership marker.                       *)
DeleteRecord(t) ==
  /\ task[t].pc = "deldns"
  /\ \/ /\ dnsRow = "none"
        /\ Goto(t, "revoke")
        /\ UNCHANGED <<dns, faults>>
     \/ /\ dnsRow = "recorded" /\ dns = "owned"
        /\ dns' = "absent"
        /\ Goto(t, "delrow")
        /\ UNCHANGED faults
     \/ /\ dnsRow = "recorded" /\ dns # "owned"
        /\ Become(t, StepFailed(task[t], "revoke", "terminal"))
        /\ UNCHANGED <<dns, faults>>
     \/ /\ Returns(FALSE)
        /\ dns' \in {dns} \cup (IF dnsRow = "recorded" /\ dns = "owned" THEN {"absent"} ELSE {})
        /\ Become(t, StepFailed(task[t], "revoke", "transient"))
  /\ UNCHANGED <<row, dnsRow, events, dep, cert, lock, crashes>>

DeleteDNSRow(t) ==
  /\ task[t].pc = "delrow"
  /\ \/ dnsRow' = "none" /\ Goto(t, "revoke") /\ UNCHANGED faults
     \/ /\ Returns(FALSE)
        /\ UNCHANGED dnsRow
        /\ Become(t, StepFailed(task[t], "revoke", "transient"))
  /\ UNCHANGED <<row, events, infra, lock, crashes>>

RevokeCertificate(t) ==
  /\ task[t].pc = "revoke"
  /\ \/ cert' = cert \ {"issued"} /\ Goto(t, "remove") /\ UNCHANGED faults
     \/ /\ Returns(FALSE)
        /\ UNCHANGED cert
        /\ Become(t, StepFailed(task[t], "remove", "transient"))
  /\ UNCHANGED <<row, dnsRow, events, dep, dns, lock, crashes>>

RemoveCertificate(t) ==
  /\ task[t].pc = "remove"
  /\ \/ cert' = cert \ {"installed"} /\ Goto(t, "undeploy") /\ UNCHANGED faults
     \/ /\ Returns(FALSE)
        /\ UNCHANGED cert
        /\ Become(t, StepFailed(task[t], "undeploy", "transient"))
  /\ UNCHANGED <<row, dnsRow, events, dep, dns, lock, crashes>>

(* Only a deployment the loaded environment names is destroyed. *)
Undeploy(t) ==
  /\ task[t].pc = "undeploy"
  /\ \/ /\ dep' = IF task[t].env.DeployRef = "" THEN dep ELSE NoDeployment
        /\ Goto(t, "destroyed")
        /\ UNCHANGED faults
     \/ /\ task[t].env.DeployRef # ""
        /\ Returns(FALSE)
        /\ UNCHANGED dep
        /\ Become(t, StepFailed(task[t], "destroyed", "transient"))
  /\ UNCHANGED <<row, dnsRow, events, dns, cert, lock, crashes>>

MarkDestroyed(t) ==
  /\ task[t].pc = "destroyed"
  /\ \/ /\ task[t].err # "none"
        /\ Become(t, Over(task[t], task[t].err))
        /\ UNCHANGED <<row, faults>>
     \/ /\ task[t].err = "none"
        /\ \E ok \in BOOLEAN :
             /\ UpdateEnvironment([task[t].env EXCEPT !.status = "destroyed"], ok)
             /\ Become(t, Over(task[t], IF ok THEN "none" ELSE "transient"))
  /\ UNCHANGED <<dnsRow, events, infra, lock, crashes>>

-----------------------------------------------------------------------------
(* Sleep and Wake: the status is checked on the environment the operation    *)
(* carries, the provider is called, the new status is written.               *)

Scale(t, p, from, mode, next) ==
  /\ task[t].pc = p
  /\ LET r == task[t] IN
     \/ /\ r.env.status # from \/ r.env.DeployRef = ""
        /\ Become(t, Over(r, "terminal"))
        /\ UNCHANGED <<dep, faults>>
     \/ /\ r.env.status = from /\ r.env.DeployRef # ""
        /\ \/ /\ dep' = IF dep.mode = "none" THEN dep ELSE [dep EXCEPT !.mode = mode]
              /\ Goto(t, next)
              /\ UNCHANGED faults
           \/ /\ \/ dep.mode = "none" /\ UNCHANGED faults
                 \/ Returns(FALSE)
              /\ UNCHANGED dep
              /\ Become(t, Over(r, "transient"))
  /\ UNCHANGED <<row, dnsRow, events, dns, cert, lock, crashes>>

MarkScaled(t, p, status) ==
  /\ task[t].pc = p
  /\ \E ok \in BOOLEAN :
       /\ UpdateEnvironment([task[t].env EXCEPT !.status = status], ok)
       /\ Become(t, Over(task[t], IF ok THEN "none" ELSE "transient"))
  /\ UNCHANGED <<dnsRow, events, infra, lock, crashes>>

Sleep(t)        == Scale(t, "sleep", "ready", "stopped", "asleep")
MarkSleeping(t) == MarkScaled(t, "asleep", "sleeping")
Wake(t)         == Scale(t, "wake", "sleeping", "up", "awake")
MarkAwake(t)    == MarkScaled(t, "awake", "ready")

-----------------------------------------------------------------------------
(* Mutant: the event is marked processed whatever the outcome was. *)
MutSettleProcessed(r) == [events[r.ev] EXCEPT !.state = "processed"]

(* Mutant: failed work is rescheduled without counting the attempt. *)
MutSettleForever(r) ==
  [events[r.ev] EXCEPT !.state = IF r.err = "none" THEN "processed" ELSE "waiting"]

(* The outcome is recorded on the event.  MarkEventProcessed has no guard;   *)
(* rescheduling and dead-lettering only touch a pending event, and count     *)
(* attempts from the copy of the event the goroutine started with.           *)
SettleEvent(r) ==
  LET e == events[r.ev] IN
  CASE r.err = "none" ->
         [e EXCEPT !.state = IF e.state \in Dead THEN "dead_processed" ELSE "processed"]
    [] r.err # "none" /\ e.state \notin Pending -> e
    [] r.err # "none" /\ e.state \in Pending ->
         [e EXCEPT !.attempts = @ + 1,
                   !.state = IF r.err = "terminal" \/ r.attempts + 1 >= MaxEventAttempts
                             THEN "dead" ELSE "waiting"]

Settle(t) ==
  /\ task[t].pc = "settle"
  /\ \/ events' = [events EXCEPT ![task[t].ev] = SettleEvent(task[t])] /\ UNCHANGED faults
     \/ Returns(FALSE) /\ UNCHANGED events
  /\ Become(t, IF task[t].src = "api" THEN [task[t] EXCEPT !.pc = "unlock"] ELSE Idle)
  /\ UNCHANGED <<row, dnsRow, infra, lock, crashes>>

(* The daemon dies: goroutines and mutexes are gone, the store remains. *)
Crash ==
  /\ crashes < MaxCrashes
  /\ crashes' = crashes + 1
  /\ task' = [t \in Task |-> Idle]
  /\ lock' = NoTask
  /\ UNCHANGED <<row, dnsRow, events, infra, faults>>

(* A tick of the event loop that finds no event pending and nothing running. *)
Rest ==
  /\ \A t \in Task : task[t].pc = "idle"
  /\ \A e \in Event : events[e].state \notin Pending
  /\ UNCHANGED vars

-----------------------------------------------------------------------------
Applying(t) ==
  \/ Upsert(t) \/ Log(t) \/ MarkDeploying(t) \/ Deploy(t) \/ Health(t)
  \/ EnsureRecord(t) \/ EnsureCertificate(t) \/ InstallCertificate(t)
  \/ RecordDNSRow(t) \/ MarkReady(t) \/ MarkDegraded(t) \/ MarkFailed(t)

Destroying(t) ==
  \/ MarkDestroying(t) \/ DeleteRecord(t) \/ DeleteDNSRow(t) \/ RevokeCertificate(t)
  \/ RemoveCertificate(t) \/ Undeploy(t) \/ MarkDestroyed(t)

Scaling(t) == Sleep(t) \/ MarkSleeping(t) \/ Wake(t) \/ MarkAwake(t)

Clients ==
  \/ \E e \in Event, op \in Kind, a \in Artifact \cup {NoArtifact} : Deliver(e, op, a)
  \/ \E t \in Task, e \in Event :
       \/ \E a \in Artifact : RequestApply(t, e, a)
       \/ RequestRollback(t, e)
       \/ \E op \in Kind : RequestOn(t, e, op)
       \/ Sweep(t, e)

(* The steps of goroutine t once it has work. *)
Working(t) ==
  Load(t) \/ Lock(t) \/ Applying(t) \/ Destroying(t) \/ Scaling(t) \/ Settle(t) \/ Unlock(t)

Next ==
  \/ Clients
  \/ TTLExpires
  \/ \E e \in Event : Elapse(e) \/ \E t \in Task : Claim(t, e)
  \/ \E t \in Task : Working(t)
  \/ Crash
  \/ Rest

Spec == Init /\ [][Next]_vars

(* Goroutines run, timers fire, the event loop polls every two seconds and    *)
(* offers every due event to a worker, and a Go mutex hands itself to a       *)
(* waiter that has waited too long.  Clients, crashes and faults are not fair.*)
Fairness ==
  /\ \A t \in Task : WF_vars(Working(t)) /\ SF_vars(Lock(t))
  /\ \A e \in Event : WF_vars(Elapse(e)) /\ SF_vars(\E t \in Task : Claim(t, e))

FairSpec == Spec /\ Fairness

-----------------------------------------------------------------------------
(* Properties *)

(* A row that says something is being served or parked (ready, sleeping,     *)
(* degraded) names the deployment.  It also names the revision to go back    *)
(* to, unless it was asked for by a push that named none; and a degraded one *)
(* runs another revision than the one asked for, which doApply's rollback    *)
(* never leaves unnamed.  This although doSleep, doWake, doDestroy and       *)
(* replays write whole rows from copies they read before they had the mutex, *)
(* and a failed write leaves attemptApply with the zero environment.         *)
ServingRowIsComplete ==
  /\ row.status \in {"ready", "sleeping", "degraded"} => row.DeployRef # ""
  /\ row.status \in {"ready", "sleeping"} /\ row.LastGood = NoArtifact =>
       row.ArtifactRef = NoArtifact
  /\ row.status = "degraded" => row.LastGood \notin {NoArtifact, row.ArtifactRef}

(* doDestroy marks an environment destroyed only when its dns_records row is *)
(* gone, and an environment that was never deployed has none: a recorded DNS *)
(* record always belongs to an environment some later destroy will still     *)
(* list.                                                                     *)
RecordBelongsToLiveRow ==
  dnsRow = "recorded" => row.status \notin {"", "pending", "destroyed"}

(* While nobody holds the mutex, an environment left deploying or destroying *)
(* is remembered by an event: one that is still pending will drive it on, or *)
(* one was dead-lettered for the operator to see.                            *)
Remembered(kinds) ==
  \E e \in Event : events[e].kind \in kinds /\ events[e].state \in Pending \cup Dead

InFlightIsRemembered ==
  lock = NoTask =>
    /\ row.status = "deploying"  => Remembered({"apply", "push"})
    /\ row.status = "destroying" => Remembered({"destroy", "close"})

(* README "Health-checked before ready": the steps that make a deployment    *)
(* public (record, certificate) or call it ready after a deploy are only     *)
(* taken while it is up, and ready also needs the record and the certificate.*)
PublishedOnlyWhenUp ==
  [][/\ dns' = "owned" /\ dns # "owned" => dep.mode = "up"
     /\ cert' # cert /\ cert \subseteq cert' => dep.mode = "up"
     /\ row.status = "deploying" /\ row'.status = "ready" =>
          /\ dep.mode = "up" /\ dep.art = row'.LastGood
          /\ dns = "owned" /\ cert = {"issued", "installed"} /\ dnsRow = "recorded"]_vars

(* When nothing runs and nothing is pending or dead-lettered, the row tells  *)
(* the truth about the infrastructure.                                       *)
Quiet ==
  /\ \A t \in Task : task[t].pc = "idle"
  /\ \A e \in Event : events[e].state \in {"none", "processed"}

Nothing == dep = NoDeployment /\ dns = "absent" /\ cert = {}

Truthful ==
  /\ row.status \in {"", "pending", "ready", "sleeping", "destroyed"}
  /\ row.status \in {"", "pending", "destroyed"} => Nothing
  /\ row.status \in {"ready", "sleeping"} =>
       /\ dep = [art |-> row.LastGood, mode |-> IF row.status = "ready" THEN "up" ELSE "stopped"]
       /\ row.ArtifactRef = row.LastGood
       /\ dns = "owned" /\ cert = {"issued", "installed"}

QuietIsTruthful == Quiet => Truthful

(* Every stored event is retired: processed, or dead-lettered once it failed *)
(* for good or used up its attempts.  No goroutine waits forever for the     *)
(* mutex, and no retry goes on forever.                                      *)
EventsRetire ==
  \A e \in Event : events[e].state \in Pending ~> events[e].state \notin Pending

(* A branch does not stay half way: pending, deploying and destroying are    *)
(* left again, unless the operator has been shown a dead-lettered event.     *)
HalfWay == row.status \in {"pending", "deploying", "destroying"}
DeadLettered == \E e \in Event : events[e].state \in Dead
BranchSettles == HalfWay ~> (~HalfWay \/ DeadLettered)

-----------------------------------------------------------------------------
(* What the repository says of the code, and the code does not keep.         *)

(* README: closing the pull request "tears the whole thing down: deployment, *)
(* DNS record, and certificate".  Quiet and destroyed means nothing is left. *)
DestroyedLeavesNothing == Quiet /\ row.status = "destroyed" => Nothing
=============================================================================
