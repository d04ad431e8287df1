-------------------------- MODULE ReconcilerProofs --------------------------
(***************************************************************************)
(* Proofs about Reconciler, for every set of goroutines, events and        *)
(* artifacts and every bound.  The inductive invariant IInv adds to the    *)
(* two properties what carries them through a pass: the mutex, what the    *)
(* copies of the row held by goroutines look like, and what the holder of  *)
(* the mutex may rely on between its calls.  AInv and WInv carry the action *)
(* property PublishedOnlyWhenUp, FInv and JInv InFlightIsRemembered, SInv   *)
(* and QInv QuietIsTruthful when operations do not overlap.                *)
(***************************************************************************)
EXTENDS Reconciler, TLAPS

Serving == {"ready", "sleeping", "degraded"}
AttemptPc == {"deploy", "health", "dns", "cert", "install", "record", "ready"}
ApplyPc == AttemptPc \cup {"upsert", "deploying", "degraded", "failed"}
LateTeardown == {"revoke", "remove", "undeploy", "destroyed"}

(* Goroutine r is inside its critical section. *)
Holds(r) ==
  \/ r.pc \notin {"idle", "load", "lock", "settle"}
  \/ r.pc = "settle" /\ r.src = "api"

(* A copy of the row that claims to serve is complete. *)
Complete(env) ==
  /\ env.status \in Serving => env.DeployRef # ""
  /\ env.status \in {"ready", "sleeping"} /\ env.LastGood = NoArtifact =>
       env.ArtifactRef = NoArtifact
  /\ env.status = "degraded" => env.LastGood \notin {NoArtifact, env.ArtifactRef}

RowOK(rw, dr) ==
  /\ Complete(rw)
  /\ rw.id = "" => rw.status = ""
  /\ dr = "recorded" => rw.status \notin {"", "pending", "destroyed"}

EventOK(ev) == ev.state \in Pending => ev.kind # ""

(* What a goroutine's own record satisfies. *)
TaskOK(r) ==
  /\ Complete(r.env)
  /\ r.pc # "idle" => r.ev \in Event
  /\ r.pc = "load" => r.src = "inbox"
  /\ r.pc \in ApplyPc => r.op \in {"apply", "push"}
  /\ r.pc \in AttemptPc => r.env.ArtifactRef \in {r.art, NoArtifact}
  /\ r.pc \in AttemptPc /\ RollingBack(r) => r.env.LastGood \notin {NoArtifact, r.art}
  /\ r.pc = "degraded" => r.env.LastGood \notin {NoArtifact, r.art}
  /\ r.pc \in {"degraded", "asleep"} => r.env.status = "ready"
  /\ r.pc = "awake" => r.env.status = "sleeping"

(* What the holder of the mutex may rely on about the store. *)
PassOK(r, rw, dr) ==
  /\ r.pc \in AttemptPc /\ r.env.id # "" => rw.status = "deploying"
  /\ r.pc \in LateTeardown /\ r.err = "none" => dr = "none"

IInv ==
  /\ TypeOK
  /\ RowOK(row, dnsRow)
  /\ \A e \in Event : EventOK(events[e])
  /\ \A t \in Task : TaskOK(task[t])
  /\ \A t \in Task : PassOK(task[t], row, dnsRow)
  /\ \A t \in Task : Holds(task[t]) => lock = t

-----------------------------------------------------------------------------
(* The invariant gives the two properties. *)
LEMMA IInvGives == IInv => ServingRowIsComplete /\ RecordBelongsToLiveRow
  BY DEF IInv, RowOK, Complete, Serving, ServingRowIsComplete, RecordBelongsToLiveRow

(* The zero environment and the idle goroutine are well typed. *)
LEMMA ZeroTyped == NoEnv \in Env /\ Idle \in TaskRec
<1>1. NoEnv \in Env
  BY DEF NoEnv, Env
<1>2. 1 \in 1..(MaxApplyAttempts + 1)
  BY ReconcilerAssumption
<1> QED
  BY <1>1, <1>2 DEF Idle, TaskRec, Pc, Kind

(* It holds initially. *)
LEMMA InitIInv == Init => IInv
<1> SUFFICES ASSUME Init PROVE IInv
  OBVIOUS
<1>1. TypeOK
  <2>1. NoEventRec \in EventRec /\ NoDeployment \in Deployment
    BY DEF NoEventRec, EventRec, EventState, NoDeployment, Deployment
  <2>2. 0 \in 0..MaxFaults /\ 0 \in 0..MaxCrashes
    BY ReconcilerAssumption
  <2> QED
    BY <2>1, <2>2, ZeroTyped DEF Init, TypeOK
<1>2. RowOK(row, dnsRow)
  BY DEF Init, RowOK, NoEnv, Complete, Serving
<1>3. \A e \in Event : EventOK(events[e])
  BY DEF Init, EventOK, NoEventRec, Pending
<1>4. \A t \in Task : TaskOK(task[t]) /\ PassOK(task[t], row, dnsRow) /\ ~Holds(task[t])
  BY DEF Init, TaskOK, PassOK, Holds, Idle, NoEnv, Complete, Serving, ApplyPc, AttemptPc,
     LateTeardown
<1> QED
  BY <1>1, <1>2, <1>3, <1>4 DEF IInv

-----------------------------------------------------------------------------
(* Framing.  A goroutine outside its critical section moves on, the store   *)
(* and the mutex unchanged apart from the events.                           *)
LEMMA FrameOutside ==
  ASSUME IInv, NEW t \in Task, NEW r \in TaskRec,
         Become(t, r), TaskOK(r), ~Holds(r), ~Holds(task[t]),
         events' \in [Event -> EventRec], \A e \in Event : EventOK(events'[e]),
         faults' \in 0..MaxFaults, UNCHANGED <<row, dnsRow, infra, lock, crashes>>
  PROVE  IInv'
<1>1. TypeOK'
  BY DEF IInv, TypeOK, Become, infra
<1>2. \A u \in Task : task'[u] = IF u = t THEN r ELSE task[u]
  BY DEF IInv, TypeOK, Become
<1>3. PassOK(r, row, dnsRow)
  BY DEF PassOK, Holds, AttemptPc, LateTeardown
<1> QED
  BY <1>1, <1>2, <1>3 DEF IInv

(* The holder of the mutex makes a call and keeps the mutex. *)
LEMMA FrameHolder ==
  ASSUME IInv, NEW t \in Task, NEW r \in TaskRec, Holds(task[t]),
         Become(t, r), TaskOK(r), PassOK(r, row', dnsRow'),
         row' \in Env, dnsRow' \in {"none", "recorded"}, RowOK(row', dnsRow'),
         events' \in [Event -> EventRec], \A e \in Event : EventOK(events'[e]),
         dep' \in Deployment, dns' \in {"absent", "unowned", "owned"},
         cert' \in SUBSET {"issued", "installed"},
         faults' \in 0..MaxFaults, UNCHANGED <<lock, crashes>>
  PROVE  IInv'
<1>1. TypeOK'
  BY DEF IInv, TypeOK, Become
<1>2. \A u \in Task : task'[u] = IF u = t THEN r ELSE task[u]
  BY DEF IInv, TypeOK, Become
<1>3. lock = t /\ \A u \in Task : u # t => ~Holds(task[u])
  BY DEF IInv
<1>4. \A u \in Task : u # t => PassOK(task[u], row', dnsRow')
  BY <1>3 DEF PassOK, Holds, AttemptPc, LateTeardown
<1> QED
  BY <1>1, <1>2, <1>3, <1>4 DEF IInv

-----------------------------------------------------------------------------
(* Facts about the building blocks. *)

LEMMA ReturnsTyped ==
  ASSUME faults \in 0..MaxFaults, NEW ok \in BOOLEAN, Returns(ok)
  PROVE  faults' \in 0..MaxFaults
  BY ReconcilerAssumption DEF Returns

(* A write either leaves the row alone or replaces it by env, which then     *)
(* carries the row's id.                                                     *)
LEMMA UpdateWrites ==
  ASSUME faults \in 0..MaxFaults, NEW ok \in BOOLEAN, NEW env, UpdateEnvironment(env, ok)
  PROVE  /\ faults' \in 0..MaxFaults
         /\ row' \in {row, env}
         /\ ok => row' = env
         /\ row' # row => env.id # ""
         /\ ok => env.id # ""
  BY ReturnsTyped DEF UpdateEnvironment, CanWrite

(* Ending an operation keeps a goroutine well typed and in its section. *)
LEMMA OverOK ==
  ASSUME NEW r \in TaskRec, TaskOK(r), r.pc # "idle",
         NEW err \in {"none", "transient", "terminal"}, NEW rw, NEW dr
  PROVE  Over(r, err) \in TaskRec /\ TaskOK(Over(r, err)) /\ PassOK(Over(r, err), rw, dr)
<1>1. Over(r, err) \in TaskRec
  BY DEF Over, TaskRec, Pc
<1>2. /\ Over(r, err).pc \in {"settle", "unlock"}
      /\ Over(r, err).env = r.env /\ Over(r, err).ev = r.ev
      /\ Over(r, err).op = r.op /\ Over(r, err).art = r.art
  BY DEF Over, TaskRec
<1> QED
  BY <1>1, <1>2 DEF TaskOK, PassOK, ApplyPc, AttemptPc, LateTeardown

(* The attempt counter stays in its range. *)
LEMMA NextTry ==
  ASSUME NEW n \in 1..(MaxApplyAttempts + 1)
  PROVE  /\ n # MaxApplyAttempts + 1 => n + 1 \in 1..(MaxApplyAttempts + 1)
         /\ n + 1 = MaxApplyAttempts + 1 => ~(n < MaxApplyAttempts)
<1>1. MaxApplyAttempts \in Nat
  BY ReconcilerAssumption
<1> QED
  BY <1>1

(* A failed attempt, with the same environment or with the zero one. *)
LEMMA AttemptFailedOK ==
  ASSUME NEW r \in TaskRec, TaskOK(r), r.pc \in AttemptPc,
         NEW env \in {r.env, NoEnv}, NEW err \in {"transient", "terminal"},
         NEW rw, NEW dr, r.env.id # "" => rw.status = "deploying" \/ env = NoEnv \/ RollingBack(r)
  PROVE  LET q == AttemptFailed(r, env, err) IN
           q \in TaskRec /\ TaskOK(q) /\ PassOK(q, rw, dr)
<1> DEFINE q == AttemptFailed(r, env, err)
<1>a. NoEnv.status = "" /\ NoEnv.id = "" /\ NoEnv.LastGood = NoArtifact
      /\ NoEnv.ArtifactRef = NoArtifact
  BY DEF NoEnv
<1>b. Complete(NoEnv)
  BY <1>a DEF Complete, Serving
<1>c. r.env \in Env /\ r.try \in 1..(MaxApplyAttempts + 1) /\ MaxApplyAttempts \in Nat
  BY ReconcilerAssumption DEF TaskRec
<1>d. PICK n \in 1..(MaxApplyAttempts + 1) : n = r.try
  BY <1>c
<1>0. env \in Env /\ Complete(env) /\ NoEnv.LastGood = NoArtifact /\ NoEnv.id = ""
      /\ env.ArtifactRef \in {r.art, NoArtifact}
  BY <1>a, <1>b, <1>c, ZeroTyped DEF TaskOK
<1>1. CASE RollingBack(r)
  <2>1. q = [r EXCEPT !.pc = "failed"]
    BY <1>1 DEF AttemptFailed
  <2>2. q \in TaskRec
    BY <2>1 DEF TaskRec, Pc
  <2> QED
    BY <2>1, <2>2 DEF TaskOK, PassOK, TaskRec, ApplyPc, AttemptPc, LateTeardown
<1>2. CASE ~RollingBack(r) /\ (r.try < MaxApplyAttempts \/ env.LastGood \notin {NoArtifact, r.art})
  <2>1. q = [r EXCEPT !.pc = "deploy", !.try = r.try + 1, !.env = env, !.err = err]
    BY <1>2 DEF AttemptFailed
  <2>2. r.try + 1 \in 1..(MaxApplyAttempts + 1)
    <3>1. n # MaxApplyAttempts + 1
      BY <1>2, <1>d DEF RollingBack
    <3>2. n + 1 \in 1..(MaxApplyAttempts + 1)
      BY <3>1, NextTry
    <3> QED
      BY <3>2, <1>d
  <2>3. q \in TaskRec
    BY <2>1, <2>2, <1>0 DEF TaskRec, Pc
  <2>4. q.try = r.try + 1 /\ q.env = env /\ q.pc = "deploy" /\ q.ev = r.ev /\ q.op = r.op /\ q.art = r.art
    BY <2>1 DEF TaskRec
  <2>5. RollingBack(q) => env.LastGood \notin {NoArtifact, r.art}
    <3>1. RollingBack(q) => n + 1 = MaxApplyAttempts + 1
      BY <2>4, <1>d DEF RollingBack
    <3>2. RollingBack(q) => ~(n < MaxApplyAttempts)
      BY <3>1, NextTry
    <3> QED
      BY <3>2, <1>2, <1>d
  <2> QED
    BY <2>3, <2>4, <2>5, <1>0, <1>2 DEF TaskOK, PassOK, ApplyPc, AttemptPc, LateTeardown
<1>3. CASE ~RollingBack(r) /\ ~(r.try < MaxApplyAttempts \/ env.LastGood \notin {NoArtifact, r.art})
  <2>1. q = [r EXCEPT !.pc = "failed", !.env = env, !.err = err]
    BY <1>3 DEF AttemptFailed
  <2>2. q \in TaskRec
    BY <2>1, <1>0 DEF TaskRec, Pc
  <2>3. q.env = env /\ q.pc = "failed" /\ q.ev = r.ev /\ q.op = r.op /\ q.art = r.art
    BY <2>1 DEF TaskRec
  <2> QED
    BY <2>2, <2>3, <1>0 DEF TaskOK, PassOK, ApplyPc, AttemptPc, LateTeardown
<1> QED
  BY <1>1, <1>2, <1>3

(* What the invariant says of the goroutine that takes a step. *)
LEMMA Actor ==
  ASSUME IInv, NEW t \in Task
  PROVE  /\ task[t] \in TaskRec /\ TaskOK(task[t]) /\ PassOK(task[t], row, dnsRow)
         /\ row \in Env /\ RowOK(row, dnsRow) /\ dnsRow \in {"none", "recorded"}
         /\ events \in [Event -> EventRec] /\ \A e \in Event : EventOK(events[e])
         /\ dep \in Deployment /\ dns \in {"absent", "unowned", "owned"}
         /\ cert \in SUBSET {"issued", "installed"} /\ faults \in 0..MaxFaults
  BY DEF IInv, TypeOK

(* A provider call inside an attempt succeeds, and the attempt goes on, or   *)
(* fails, and the environment stays as it was.                               *)
LEMMA AttemptStep ==
  ASSUME IInv, NEW t \in Task, task[t].pc \in AttemptPc, NEW q, Become(t, q),
         \/ \E p \in AttemptPc : q = [task[t] EXCEPT !.pc = p]
         \/ \E err \in {"transient", "terminal"} : q = AttemptFailed(task[t], task[t].env, err),
         dep' \in Deployment, dns' \in {"absent", "unowned", "owned"},
         cert' \in SUBSET {"issued", "installed"}, faults' \in 0..MaxFaults,
         UNCHANGED <<row, dnsRow, events, lock, crashes>>
  PROVE  IInv'
<1> DEFINE r == task[t]
<1>1. Holds(r)
  BY DEF Holds, AttemptPc
<1>2. q \in TaskRec /\ TaskOK(q) /\ PassOK(q, row, dnsRow)
  <2>1. CASE \E p \in AttemptPc : q = [r EXCEPT !.pc = p]
    <3>1. PICK p \in AttemptPc : q = [r EXCEPT !.pc = p]
      BY <2>1
    <3>2. q \in TaskRec
      BY <3>1, Actor DEF TaskRec, Pc, AttemptPc
    <3>3. /\ q.pc = p /\ q.env = r.env /\ q.ev = r.ev /\ q.op = r.op
          /\ q.art = r.art /\ q.try = r.try
      BY <3>1, Actor DEF TaskRec
    <3> QED
      BY <3>2, <3>3, Actor DEF TaskOK, PassOK, RollingBack, AttemptPc, ApplyPc, LateTeardown
  <2>2. CASE \E err \in {"transient", "terminal"} : q = AttemptFailed(r, r.env, err)
    <3>1. r.env.id # "" => row.status = "deploying"
      BY Actor DEF PassOK
    <3>2. PICK err \in {"transient", "terminal"} : q = AttemptFailed(r, r.env, err)
      BY <2>2
    <3>3. r.env \in {r.env, NoEnv} /\ r \in TaskRec /\ TaskOK(r) /\ r.pc \in AttemptPc
      BY Actor
    <3> HIDE DEF r
    <3>4. LET z == AttemptFailed(r, r.env, err) IN
            z \in TaskRec /\ TaskOK(z) /\ PassOK(z, row, dnsRow)
      BY <3>1, <3>3, AttemptFailedOK
    <3> QED
      BY <3>2, <3>4
  <2> QED
    BY <2>1, <2>2
<1> QED
  BY <1>1, <1>2, Actor, FrameHolder

LEMMA DeployStep == ASSUME IInv, NEW t \in Task, Deploy(t) PROVE IInv'
<1>1. task[t].pc \in AttemptPc /\ "health" \in AttemptPc
  BY DEF Deploy, AttemptPc
<1>2. Target(task[t]) \in Artifact \cup {NoArtifact}
  BY Actor DEF Target, TaskRec, Env
<1>3. dep' \in Deployment
  <2>1. [art |-> Target(task[t]), mode |-> "starting"] \in Deployment
    BY <1>2 DEF Deployment
  <2>2. dep' \in {dep, [art |-> Target(task[t]), mode |-> "starting"]}
    BY DEF Deploy
  <2> QED
    BY <2>1, <2>2, Actor
<1>4. faults' \in 0..MaxFaults
  BY Actor, ReturnsTyped DEF Deploy
<1>5. UNCHANGED <<row, dnsRow, events, lock, crashes>> /\ dns' = dns /\ cert' = cert
  BY DEF Deploy
<1>6. CASE Goto(t, "health")
  BY <1>1, <1>3, <1>4, <1>5, <1>6, Actor, AttemptStep DEF Goto
<1>7. CASE Become(t, AttemptFailed(task[t], task[t].env, "transient"))
  BY <1>1, <1>3, <1>4, <1>5, <1>7, Actor, AttemptStep
<1> QED
  BY <1>6, <1>7 DEF Deploy

LEMMA HealthStep == ASSUME IInv, NEW t \in Task, Health(t) PROVE IInv'
<1>1. task[t].pc \in AttemptPc /\ "dns" \in AttemptPc
  BY DEF Health, AttemptPc
<1>2. dep' \in Deployment
  BY Actor DEF Health, Deployment
<1>3. faults' \in 0..MaxFaults
  BY Actor, ReturnsTyped DEF Health
<1>4. UNCHANGED <<row, dnsRow, events, lock, crashes>> /\ dns' = dns /\ cert' = cert
  BY DEF Health
<1>5. CASE Goto(t, "dns")
  BY <1>1, <1>2, <1>3, <1>4, <1>5, Actor, AttemptStep DEF Goto
<1>6. CASE Become(t, AttemptFailed(task[t], task[t].env, "transient"))
  BY <1>1, <1>2, <1>3, <1>4, <1>6, Actor, AttemptStep
<1> QED
  BY <1>5, <1>6 DEF Health

LEMMA EnsureRecordStep == ASSUME IInv, NEW t \in Task, EnsureRecord(t) PROVE IInv'
<1>1. task[t].pc \in AttemptPc /\ "cert" \in AttemptPc
  BY DEF EnsureRecord, AttemptPc
<1>2. dns' \in {"absent", "unowned", "owned"}
  BY Actor DEF EnsureRecord
<1>3. faults' \in 0..MaxFaults
  BY Actor, ReturnsTyped DEF EnsureRecord
<1>4. UNCHANGED <<row, dnsRow, events, lock, crashes>> /\ dep' = dep /\ cert' = cert
  BY DEF EnsureRecord
<1>5. CASE Goto(t, "cert")
  BY <1>1, <1>2, <1>3, <1>4, <1>5, Actor, AttemptStep DEF Goto
<1>6. CASE \E err \in {"transient", "terminal"} :
             Become(t, AttemptFailed(task[t], task[t].env, err))
  BY <1>1, <1>2, <1>3, <1>4, <1>6, Actor, AttemptStep
<1> QED
  BY <1>5, <1>6 DEF EnsureRecord

LEMMA CertificateStep ==
  ASSUME IInv, NEW t \in Task, EnsureCertificate(t) \/ InstallCertificate(t)
  PROVE  IInv'
<1>1. task[t].pc \in AttemptPc /\ "install" \in AttemptPc /\ "record" \in AttemptPc
  BY DEF EnsureCertificate, InstallCertificate, AttemptPc
<1>2. cert' \in SUBSET {"issued", "installed"}
  BY Actor DEF EnsureCertificate, InstallCertificate
<1>3. faults' \in 0..MaxFaults
  BY Actor, ReturnsTyped DEF EnsureCertificate, InstallCertificate
<1>4. UNCHANGED <<row, dnsRow, events, lock, crashes>> /\ dep' = dep /\ dns' = dns
  BY DEF EnsureCertificate, InstallCertificate
<1>5. CASE Goto(t, "install") \/ Goto(t, "record")
  BY <1>1, <1>2, <1>3, <1>4, <1>5, Actor, AttemptStep DEF Goto
<1>6. CASE Become(t, AttemptFailed(task[t], task[t].env, "transient"))
  BY <1>1, <1>2, <1>3, <1>4, <1>6, Actor, AttemptStep
<1> QED
  BY <1>5, <1>6 DEF EnsureCertificate, InstallCertificate

(* An operation ends inside its section: whatever it wrote, the next call    *)
(* settles its event or drops the mutex.                                     *)
LEMMA EndStep ==
  ASSUME IInv, NEW t \in Task, Holds(task[t]), task[t].pc # "idle",
         NEW err \in {"none", "transient", "terminal"}, Become(t, Over(task[t], err)),
         row' \in Env, RowOK(row', dnsRow), dep' \in Deployment, faults' \in 0..MaxFaults,
         UNCHANGED <<dnsRow, events, dns, cert, lock, crashes>>
  PROVE  IInv'
<1>1. Over(task[t], err) \in TaskRec /\ TaskOK(Over(task[t], err))
      /\ PassOK(Over(task[t], err), row', dnsRow')
  BY Actor, OverOK
<1> QED
  BY <1>1, Actor, FrameHolder

LEMMA RecordDNSRowStep == ASSUME IInv, NEW t \in Task, RecordDNSRow(t) PROVE IInv'
<1> DEFINE r == task[t]
<1>1. r.pc \in AttemptPc /\ "ready" \in AttemptPc
  BY DEF RecordDNSRow, AttemptPc
<1>2. faults' \in 0..MaxFaults
  BY Actor, ReturnsTyped DEF RecordDNSRow
<1>3. UNCHANGED <<row, events, lock, crashes>> /\ dep' = dep /\ dns' = dns /\ cert' = cert
  BY DEF RecordDNSRow, infra
<1>4. CASE r.env.id # "" /\ dnsRow' = "recorded" /\ Goto(t, "ready")
  <2> DEFINE q == [r EXCEPT !.pc = "ready"]
  <2>1. q \in TaskRec
    BY Actor DEF TaskRec, Pc
  <2>2. q.pc = "ready" /\ q.env = r.env /\ q.ev = r.ev /\ q.op = r.op /\ q.art = r.art /\ q.try = r.try
    BY Actor DEF TaskRec
  <2>3. row.status = "deploying"
    BY <1>1, <1>4, Actor DEF PassOK
  <2>4. TaskOK(q) /\ PassOK(q, row', dnsRow')
    BY <1>1, <1>3, <2>2, <2>3, Actor DEF TaskOK, PassOK, RollingBack, AttemptPc, ApplyPc, LateTeardown
  <2>5. RowOK(row', dnsRow')
    BY <1>3, <2>3, Actor DEF RowOK
  <2>6. Become(t, q) /\ Holds(r)
    BY <1>1, <1>4 DEF Goto, Holds, AttemptPc
  <2> QED
    BY <1>2, <1>3, <1>4, <2>1, <2>4, <2>5, <2>6, Actor, FrameHolder
<1>5. CASE dnsRow' = dnsRow /\ Become(t, AttemptFailed(r, r.env, "transient"))
  BY <1>1, <1>2, <1>3, <1>5, Actor, AttemptStep
<1> QED
  BY <1>4, <1>5 DEF RecordDNSRow

(* What a successful attempt writes is complete: its last good revision is   *)
(* the one asked for or, after a rollback, another one that has a name.      *)
LEMMA ReadyRowOK ==
  ASSUME NEW r \in TaskRec, TaskOK(r), r.pc \in AttemptPc
  PROVE  /\ ReadyRow(r) \in Env /\ Complete(ReadyRow(r))
         /\ ReadyRow(r).status = "ready" /\ ReadyRow(r).id = r.env.id
         /\ ReadyRow(r).LastGood = Target(r) /\ ReadyRow(r).ArtifactRef = r.env.ArtifactRef
<1>1. r.env \in Env /\ r.art \in Artifact \cup {NoArtifact}
  BY DEF TaskRec
<1>2. Target(r) \in Artifact \cup {NoArtifact}
  BY <1>1 DEF Target, Env
<1>3. Target(r) = NoArtifact => r.env.ArtifactRef = NoArtifact
  BY DEF Target, TaskOK
<1>4. ReadyRow(r) \in Env
  BY <1>1, <1>2 DEF ReadyRow, Env, Status
<1> QED
  BY <1>1, <1>3, <1>4 DEF ReadyRow, Complete, Env

LEMMA MarkReadyStep == ASSUME IInv, NEW t \in Task, MarkReady(t) PROVE IInv'
<1> DEFINE r == task[t]
           env == ReadyRow(r)
<1>1. r \in TaskRec /\ TaskOK(r) /\ r.pc \in AttemptPc /\ r.pc = "ready" /\ Holds(r)
  BY Actor DEF MarkReady, AttemptPc, Holds
<1>2. env \in Env /\ Complete(env) /\ env.status = "ready" /\ env.id = r.env.id
      /\ env.LastGood = Target(r) /\ env.ArtifactRef = r.env.ArtifactRef
  BY <1>1, ReadyRowOK
<1>3. PICK ok \in BOOLEAN :
        /\ UpdateEnvironment(env, ok)
        /\ Become(t, IF ~ok THEN AttemptFailed(r, NoEnv, "transient")
                     ELSE IF RollingBack(r) THEN [r EXCEPT !.pc = "degraded", !.env = env]
                     ELSE Over([r EXCEPT !.env = env], "none"))
  BY DEF MarkReady
<1>4. UNCHANGED <<dnsRow, events, lock, crashes>> /\ dep' = dep /\ dns' = dns /\ cert' = cert
  BY DEF MarkReady, infra
<1>5. faults' \in 0..MaxFaults /\ row' \in {row, env} /\ (row' # row => env.id # "")
  BY <1>3, Actor, UpdateWrites
<1>6. row' \in Env /\ RowOK(row', dnsRow')
  BY <1>2, <1>4, <1>5, Actor DEF RowOK
<1>7. CASE ~ok
  <2>1. /\ NoEnv \in {r.env, NoEnv} /\ "transient" \in {"transient", "terminal"}
        /\ r.env.id # "" => row'.status = "deploying" \/ NoEnv = NoEnv \/ RollingBack(r)
    OBVIOUS
  <2> HIDE DEF r
  <2>2. LET z == AttemptFailed(r, NoEnv, "transient") IN
          z \in TaskRec /\ TaskOK(z) /\ PassOK(z, row', dnsRow')
    BY <1>1, <2>1, AttemptFailedOK
  <2>3. Become(t, AttemptFailed(r, NoEnv, "transient"))
    BY <1>3, <1>7
  <2> QED
    BY <1>1, <1>4, <1>5, <1>6, <2>2, <2>3, Actor, FrameHolder DEF r
<1>8. CASE ok /\ RollingBack(r)
  <2> DEFINE q == [r EXCEPT !.pc = "degraded", !.env = env]
  <2>1. q \in TaskRec
    BY <1>1, <1>2 DEF TaskRec, Pc
  <2>2. q.pc = "degraded" /\ q.env = env /\ q.ev = r.ev /\ q.op = r.op /\ q.art = r.art
    BY <1>1 DEF TaskRec
  <2>3. env.LastGood \notin {NoArtifact, r.art}
    BY <1>1, <1>2, <1>8 DEF Target, TaskOK
  <2>4. TaskOK(q) /\ PassOK(q, row', dnsRow')
    BY <1>1, <1>2, <2>2, <2>3 DEF TaskOK, PassOK, AttemptPc, ApplyPc, LateTeardown
  <2>5. Become(t, q)
    BY <1>3, <1>8
  <2> QED
    BY <1>1, <1>4, <1>5, <1>6, <2>1, <2>4, <2>5, Actor, FrameHolder
<1>9. CASE ok /\ ~RollingBack(r)
  <2> DEFINE p == [r EXCEPT !.env = env]
             q == Over(p, "none")
  <2>1. p \in TaskRec
    BY <1>1, <1>2 DEF TaskRec
  <2>2. p.pc = "ready" /\ p.env = env /\ p.ev = r.ev /\ p.op = r.op /\ p.art = r.art /\ p.try = r.try
    BY <1>1 DEF TaskRec
  <2>3. TaskOK(p) /\ p.pc # "idle"
    BY <1>1, <1>2, <1>9, <2>2 DEF TaskOK, RollingBack, AttemptPc, ApplyPc
  <2>4. q \in TaskRec /\ TaskOK(q) /\ PassOK(q, row', dnsRow')
    BY <2>1, <2>3, OverOK
  <2>5. Become(t, q)
    BY <1>3, <1>9
  <2> QED
    BY <1>1, <1>4, <1>5, <1>6, <2>4, <2>5, Actor, FrameHolder
<1> QED
  BY <1>7, <1>8, <1>9

(* A write of a complete environment keeps the row well formed. *)
LEMMA WriteOK ==
  ASSUME faults \in 0..MaxFaults, row \in Env, NEW dr, RowOK(row, dr),
         NEW env \in Env, Complete(env), env.status # "",
         dr = "recorded" => env.status \notin {"pending", "destroyed"},
         NEW ok \in BOOLEAN, UpdateEnvironment(env, ok)
  PROVE  faults' \in 0..MaxFaults /\ row' \in Env /\ RowOK(row', dr)
<1>1. faults' \in 0..MaxFaults /\ row' \in {row, env} /\ (row' # row => env.id # "")
  BY UpdateWrites
<1> QED
  BY <1>1 DEF RowOK

LEMMA MarkDegradedStep == ASSUME IInv, NEW t \in Task, MarkDegraded(t) PROVE IInv'
<1> DEFINE r == task[t]
           env == [r.env EXCEPT !.status = "degraded", !.ArtifactRef = r.art]
<1>1. r \in TaskRec /\ TaskOK(r) /\ r.pc = "degraded" /\ Holds(r)
  BY Actor DEF MarkDegraded, Holds
<1>2. r.env \in Env /\ r.art \in Artifact \cup {NoArtifact} /\ r.err \in {"none", "transient", "terminal"}
  BY <1>1 DEF TaskRec
<1>3. env \in Env /\ env.status = "degraded" /\ env.DeployRef = r.env.DeployRef
      /\ env.LastGood = r.env.LastGood /\ env.ArtifactRef = r.art
  BY <1>2 DEF Env, Status
<1>4. Complete(env)
  BY <1>1, <1>3 DEF TaskOK, Complete, Serving
<1>5. PICK ok \in BOOLEAN : UpdateEnvironment(env, ok)
  BY DEF MarkDegraded
<1>6. faults' \in 0..MaxFaults /\ row' \in Env /\ RowOK(row', dnsRow)
  BY <1>3, <1>4, <1>5, Actor, WriteOK
<1> QED
  BY <1>1, <1>2, <1>6, Actor, EndStep DEF MarkDegraded, infra

LEMMA MarkFailedStep == ASSUME IInv, NEW t \in Task, MarkFailed(t) PROVE IInv'
<1> DEFINE r == task[t]
           env == [r.env EXCEPT !.status = "failed"]
<1>1. r \in TaskRec /\ r.pc = "failed" /\ Holds(r)
  BY Actor DEF MarkFailed, Holds
<1>2. r.env \in Env /\ r.err \in {"none", "transient", "terminal"}
  BY <1>1 DEF TaskRec
<1>3. env \in Env /\ env.status = "failed"
  BY <1>2 DEF Env, Status
<1>4. Complete(env)
  BY <1>3 DEF Complete, Serving
<1>5. PICK ok \in BOOLEAN : UpdateEnvironment(env, ok)
  BY DEF MarkFailed
<1>6. faults' \in 0..MaxFaults /\ row' \in Env /\ RowOK(row', dnsRow)
  BY <1>3, <1>4, <1>5, Actor, WriteOK
<1> QED
  BY <1>1, <1>2, <1>6, Actor, EndStep DEF MarkFailed, infra

LEMMA MarkDeployingStep == ASSUME IInv, NEW t \in Task, MarkDeploying(t) PROVE IInv'
<1> DEFINE r == task[t]
           env == [r.env EXCEPT !.ArtifactRef = r.art, !.status = "deploying"]
           q == [r EXCEPT !.pc = "deploy", !.env = env, !.try = 1]
<1>1. r \in TaskRec /\ TaskOK(r) /\ r.pc = "deploying" /\ Holds(r)
  BY Actor DEF MarkDeploying, Holds
<1>2. r.env \in Env /\ r.art \in Artifact \cup {NoArtifact}
  BY <1>1 DEF TaskRec
<1>3. env \in Env /\ env.status = "deploying" /\ env.ArtifactRef = r.art
  BY <1>2 DEF Env, Status
<1>4. Complete(env)
  BY <1>3 DEF Complete, Serving
<1>5. PICK ok \in BOOLEAN :
        /\ UpdateEnvironment(env, ok)
        /\ Become(t, IF ok THEN q ELSE Over(r, "transient"))
  BY DEF MarkDeploying
<1>6. faults' \in 0..MaxFaults /\ row' \in Env /\ RowOK(row', dnsRow) /\ (ok => row' = env)
  BY <1>3, <1>4, <1>5, Actor, WriteOK, UpdateWrites
<1>7. UNCHANGED <<dnsRow, events, lock, crashes>> /\ dep' = dep /\ dns' = dns /\ cert' = cert
  BY DEF MarkDeploying, infra
<1>8. CASE ok
  <2>1. 1 \in 1..(MaxApplyAttempts + 1) /\ 1 # MaxApplyAttempts + 1
    BY ReconcilerAssumption
  <2>2. q \in TaskRec
    BY <1>1, <1>3, <2>1 DEF TaskRec, Pc
  <2>3. q.pc = "deploy" /\ q.env = env /\ q.try = 1 /\ q.ev = r.ev /\ q.op = r.op /\ q.art = r.art
    BY <1>1 DEF TaskRec
  <2>4. TaskOK(q) /\ PassOK(q, row', dnsRow')
    BY <1>1, <1>3, <1>4, <1>6, <1>8, <2>1, <2>3
    DEF TaskOK, PassOK, RollingBack, AttemptPc, ApplyPc, LateTeardown
  <2>5. Become(t, q)
    BY <1>5, <1>8
  <2> QED
    BY <1>1, <1>6, <1>7, <2>2, <2>4, <2>5, Actor, FrameHolder
<1>9. CASE ~ok
  BY <1>1, <1>5, <1>6, <1>7, <1>9, Actor, EndStep
<1> QED
  BY <1>8, <1>9

LEMMA UpsertStep == ASSUME IInv, NEW t \in Task, Upsert(t) PROVE IInv'
<1> DEFINE r == task[t]
           env == IF row.id = "" THEN NewRow(r.art) ELSE row
           q == [r EXCEPT !.env = env, !.pc = IF r.src = "api" THEN "log" ELSE "deploying"]
           z == [r EXCEPT !.pc = "unlock", !.err = "transient"]
<1>1. r \in TaskRec /\ TaskOK(r) /\ r.pc = "upsert" /\ Holds(r)
  BY Actor DEF Upsert, Holds
<1>2. r.op \in {"apply", "push"} /\ r.ev \in Event
      /\ r.art \in Artifact \cup {NoArtifact}
  BY <1>1 DEF TaskOK, ApplyPc, TaskRec
<1>3. NewRow(r.art) \in Env /\ Complete(NewRow(r.art)) /\ NewRow(r.art).id = "env"
      /\ NewRow(r.art).status = "pending"
  BY <1>2 DEF NewRow, Env, Status, Complete, Serving
<1>4. env \in Env /\ Complete(env)
  BY <1>3, Actor DEF RowOK
<1>5. RowOK(env, dnsRow)
  BY <1>3, Actor DEF RowOK
<1>6. UNCHANGED <<dnsRow, events, lock, crashes>> /\ dep' = dep /\ dns' = dns /\ cert' = cert
  BY DEF Upsert, infra
<1>7. CASE row' = env /\ Become(t, q) /\ faults' = faults
  <2>1. q \in TaskRec
    BY <1>1, <1>4 DEF TaskRec, Pc
  <2>2. q.pc \in {"log", "deploying"} /\ q.env = env /\ q.ev = r.ev /\ q.op = r.op /\ q.art = r.art
    BY <1>1 DEF TaskRec
  <2>3. TaskOK(q) /\ PassOK(q, row', dnsRow')
    BY <1>2, <1>4, <2>2 DEF TaskOK, PassOK, AttemptPc, ApplyPc, LateTeardown
  <2> QED
    BY <1>1, <1>4, <1>5, <1>6, <1>7, <2>1, <2>3, Actor, FrameHolder
<1>8. CASE row' = row /\ Become(t, z) /\ Returns(FALSE)
  <2>1. z \in TaskRec
    BY <1>1 DEF TaskRec, Pc
  <2>2. z.pc = "unlock" /\ z.env = r.env /\ z.ev = r.ev /\ z.op = r.op /\ z.art = r.art
    BY <1>1 DEF TaskRec
  <2>3. TaskOK(z) /\ PassOK(z, row', dnsRow')
    BY <1>1, <1>2, <2>2 DEF TaskOK, PassOK, AttemptPc, ApplyPc, LateTeardown
  <2>4. faults' \in 0..MaxFaults
    BY <1>8, Actor, ReturnsTyped
  <2> QED
    BY <1>1, <1>6, <1>8, <2>1, <2>3, <2>4, Actor, FrameHolder
<1> QED
  BY <1>7, <1>8 DEF Upsert

(* Logging stores an event that names its operation and artifact. *)
LEMMA LogStep == ASSUME IInv, NEW t \in Task, Log(t) PROVE IInv'
<1> DEFINE r == task[t]
           ev == [kind |-> r.op, art |-> r.art, state |-> "due", attempts |-> 0]
<1>1. r \in TaskRec /\ TaskOK(r) /\ r.pc = "log" /\ Holds(r)
  BY Actor DEF Log, Holds
<1>2. r.ev \in Event /\ r.op \in Kind /\ r.art \in Artifact \cup {NoArtifact}
  BY <1>1 DEF TaskOK, TaskRec
<1>3. ev \in EventRec /\ EventOK(ev)
  BY <1>2 DEF EventRec, EventState, EventOK, Kind
<1>4. UNCHANGED <<row, dnsRow, lock, crashes>> /\ dep' = dep /\ dns' = dns /\ cert' = cert
  BY DEF Log, infra
<1>5. faults' \in 0..MaxFaults
  BY Actor, ReturnsTyped DEF Log
<1>6. events' \in [Event -> EventRec] /\ \A e \in Event : EventOK(events'[e])
  <2>1. CASE events' = events
    BY <2>1, Actor
  <2>2. CASE events' = [events EXCEPT ![r.ev] = ev]
    BY <1>2, <1>3, <2>2, Actor
  <2> QED
    BY <2>1, <2>2 DEF Log
<1>7. PICK p \in {"deploying", "destroying", "sleep", "wake", "unlock"} :
        Goto(t, p) /\ (p = "deploying" => r.op = "apply")
  BY DEF Log
<1> DEFINE q == [r EXCEPT !.pc = p]
<1>8. q \in TaskRec
  BY <1>1 DEF TaskRec, Pc
<1>9. q.pc = p /\ q.env = r.env /\ q.ev = r.ev /\ q.op = r.op /\ q.art = r.art
  BY <1>1 DEF TaskRec
<1>10. TaskOK(q) /\ PassOK(q, row', dnsRow')
  BY <1>1, <1>2, <1>7, <1>9 DEF TaskOK, PassOK, AttemptPc, ApplyPc, LateTeardown
<1> QED
  BY <1>1, <1>4, <1>5, <1>6, <1>7, <1>8, <1>10, Actor, FrameHolder DEF Goto

(* A teardown step goes on, or records its error and goes on. *)
LEMMA TeardownStep ==
  ASSUME IInv, NEW t \in Task,
         task[t].pc \in {"deldns", "delrow", "revoke", "remove", "undeploy"},
         NEW p \in LateTeardown \cup {"delrow"}, NEW q, Become(t, q),
         \/ q = [task[t] EXCEPT !.pc = p] /\ (p = "delrow" \/ task[t].err # "none" \/ dnsRow' = "none")
         \/ \E err \in {"transient", "terminal"} : q = StepFailed(task[t], p, err),
         dnsRow' \in {"none", dnsRow}, dep' \in Deployment,
         dns' \in {"absent", "unowned", "owned"}, cert' \in SUBSET {"issued", "installed"},
         faults' \in 0..MaxFaults, UNCHANGED <<row, events, lock, crashes>>
  PROVE  IInv'
<1> DEFINE r == task[t]
<1>1. r \in TaskRec /\ TaskOK(r) /\ Holds(r) /\ r.pc # "idle"
  BY Actor DEF Holds
<1>2. r.err \in {"none", "transient", "terminal"}
  BY <1>1 DEF TaskRec
<1>3. /\ q \in TaskRec
      /\ q.pc = p /\ q.env = r.env /\ q.ev = r.ev /\ q.op = r.op /\ q.art = r.art
      /\ p \in LateTeardown /\ q.err = "none" => dnsRow' = "none"
  <2>1. CASE q = [r EXCEPT !.pc = p] /\ (p = "delrow" \/ r.err # "none" \/ dnsRow' = "none")
    BY <1>1, <2>1 DEF TaskRec, Pc, LateTeardown
  <2>2. CASE \E err \in {"transient", "terminal"} : q = StepFailed(r, p, err)
    <3>1. PICK err \in {"transient", "terminal"} : q = StepFailed(r, p, err)
      BY <2>2
    <3>2. Worse(r.err, err) \in {"transient", "terminal"}
      BY <1>2 DEF Worse
    <3> QED
      BY <1>1, <3>1, <3>2 DEF StepFailed, TaskRec, Pc, LateTeardown
  <2> QED
    BY <2>1, <2>2
<1>4. TaskOK(q) /\ PassOK(q, row', dnsRow')
  BY <1>1, <1>3 DEF TaskOK, PassOK, AttemptPc, ApplyPc, LateTeardown
<1>5. RowOK(row', dnsRow') /\ dnsRow' \in {"none", "recorded"}
  BY Actor DEF RowOK
<1> QED
  BY <1>1, <1>3, <1>4, <1>5, Actor, FrameHolder

LEMMA DeleteRecordStep == ASSUME IInv, NEW t \in Task, DeleteRecord(t) PROVE IInv'
<1>1. task[t].pc = "deldns" /\ "revoke" \in LateTeardown
  BY DEF DeleteRecord, LateTeardown
<1>2. faults' \in 0..MaxFaults /\ dns' \in {"absent", "unowned", "owned"}
  BY Actor, ReturnsTyped DEF DeleteRecord
<1>3. UNCHANGED <<row, dnsRow, events, lock, crashes>> /\ dep' = dep /\ cert' = cert
  BY DEF DeleteRecord
<1>4. CASE dnsRow = "none" /\ Goto(t, "revoke")
  BY <1>1, <1>2, <1>3, <1>4, Actor, TeardownStep DEF Goto
<1>5. CASE Goto(t, "delrow")
  BY <1>1, <1>2, <1>3, <1>5, Actor, TeardownStep DEF Goto
<1>6. CASE \E err \in {"transient", "terminal"} : Become(t, StepFailed(task[t], "revoke", err))
  BY <1>1, <1>2, <1>3, <1>6, Actor, TeardownStep
<1> QED
  BY <1>4, <1>5, <1>6 DEF DeleteRecord

LEMMA DeleteDNSRowStep == ASSUME IInv, NEW t \in Task, DeleteDNSRow(t) PROVE IInv'
<1>1. task[t].pc = "delrow" /\ "revoke" \in LateTeardown
  BY DEF DeleteDNSRow, LateTeardown
<1>2. faults' \in 0..MaxFaults
  BY Actor, ReturnsTyped DEF DeleteDNSRow
<1>3. UNCHANGED <<row, events, lock, crashes>> /\ dep' = dep /\ dns' = dns /\ cert' = cert
  BY DEF DeleteDNSRow, infra
<1>4. CASE dnsRow' = "none" /\ Goto(t, "revoke")
  BY <1>1, <1>2, <1>3, <1>4, Actor, TeardownStep DEF Goto
<1>5. CASE dnsRow' = dnsRow /\ Become(t, StepFailed(task[t], "revoke", "transient"))
  BY <1>1, <1>2, <1>3, <1>5, Actor, TeardownStep
<1> QED
  BY <1>4, <1>5 DEF DeleteDNSRow

LEMMA LateTeardownStep ==
  ASSUME IInv, NEW t \in Task, RevokeCertificate(t) \/ RemoveCertificate(t) \/ Undeploy(t)
  PROVE  IInv'
<1>1. task[t].pc \in {"revoke", "remove", "undeploy"}
  BY DEF RevokeCertificate, RemoveCertificate, Undeploy
<1>2. faults' \in 0..MaxFaults
  BY Actor, ReturnsTyped DEF RevokeCertificate, RemoveCertificate, Undeploy
<1>3. UNCHANGED <<row, dnsRow, events, lock, crashes>> /\ dns' = dns
  BY DEF RevokeCertificate, RemoveCertificate, Undeploy
<1>4. dep' \in Deployment
  <2>1. NoDeployment \in Deployment
    BY DEF NoDeployment, Deployment
  <2>2. dep' \in {dep, NoDeployment}
    BY DEF RevokeCertificate, RemoveCertificate, Undeploy
  <2> QED
    BY <2>1, <2>2, Actor
<1>5. cert' \in SUBSET {"issued", "installed"}
  BY Actor DEF RevokeCertificate, RemoveCertificate, Undeploy
<1>6. task[t].err # "none" \/ dnsRow' = "none"
  BY <1>1, <1>3, Actor DEF PassOK, LateTeardown
<1>7. PICK p \in {"remove", "undeploy", "destroyed"} :
        Goto(t, p) \/ Become(t, StepFailed(task[t], p, "transient"))
  BY DEF RevokeCertificate, RemoveCertificate, Undeploy
<1>8. p \in LateTeardown
  BY DEF LateTeardown
<1>9. CASE Goto(t, p)
  BY <1>1, <1>2, <1>3, <1>4, <1>5, <1>6, <1>8, <1>9, Actor, TeardownStep DEF Goto
<1>10. CASE Become(t, StepFailed(task[t], p, "transient"))
  BY <1>1, <1>2, <1>3, <1>4, <1>5, <1>8, <1>10, Actor, TeardownStep
<1> QED
  BY <1>7, <1>9, <1>10

LEMMA MarkDestroyingStep == ASSUME IInv, NEW t \in Task, MarkDestroying(t) PROVE IInv'
<1> DEFINE r == task[t]
           env == [r.env EXCEPT !.status = "destroying"]
<1>1. r \in TaskRec /\ TaskOK(r) /\ r.pc = "destroying" /\ Holds(r)
  BY Actor DEF MarkDestroying, Holds
<1>2. r.env \in Env
  BY <1>1 DEF TaskRec
<1>3. env \in Env /\ env.status = "destroying"
  BY <1>2 DEF Env, Status
<1>4. Complete(env)
  BY <1>3 DEF Complete, Serving
<1>5. faults' \in 0..MaxFaults /\ row' \in Env /\ RowOK(row', dnsRow)
  <2>1. CASE UNCHANGED <<row, faults>>
    BY <2>1, Actor
  <2>2. CASE \E ok \in BOOLEAN : UpdateEnvironment(env, ok)
    BY <1>3, <1>4, <2>2, Actor, WriteOK
  <2> QED
    BY <2>1, <2>2 DEF MarkDestroying
<1>6. UNCHANGED <<dnsRow, events, lock, crashes>> /\ dep' = dep /\ dns' = dns /\ cert' = cert
  BY DEF MarkDestroying, infra
<1>7. PICK q \in {[r EXCEPT !.pc = "deldns"], [r EXCEPT !.pc = "deldns", !.env = env],
                  [r EXCEPT !.pc = "unlock", !.err = "transient"]} : Become(t, q)
  BY DEF MarkDestroying, Goto
<1>8. /\ q \in TaskRec
      /\ q.pc \in {"deldns", "unlock"} /\ q.env \in {r.env, env}
      /\ q.ev = r.ev /\ q.op = r.op /\ q.art = r.art
  BY <1>1, <1>3 DEF TaskRec, Pc
<1>9. TaskOK(q) /\ PassOK(q, row', dnsRow')
  BY <1>1, <1>4, <1>8 DEF TaskOK, PassOK, AttemptPc, ApplyPc, LateTeardown
<1> QED
  BY <1>1, <1>5, <1>6, <1>7, <1>8, <1>9, Actor, FrameHolder

LEMMA MarkDestroyedStep == ASSUME IInv, NEW t \in Task, MarkDestroyed(t) PROVE IInv'
<1> DEFINE r == task[t]
           env == [r.env EXCEPT !.status = "destroyed"]
<1>1. r \in TaskRec /\ r.pc = "destroyed" /\ Holds(r) /\ PassOK(r, row, dnsRow)
  BY Actor DEF MarkDestroyed, Holds
<1>2. r.env \in Env /\ r.err \in {"none", "transient", "terminal"}
  BY <1>1 DEF TaskRec
<1>3. env \in Env /\ env.status = "destroyed"
  BY <1>2 DEF Env, Status
<1>4. Complete(env)
  BY <1>3 DEF Complete, Serving
<1>5. UNCHANGED <<dnsRow, events, lock, crashes>> /\ dep' = dep /\ dns' = dns /\ cert' = cert
  BY DEF MarkDestroyed, infra
<1>6. CASE r.err # "none"
  <2>1. Become(t, Over(r, r.err)) /\ UNCHANGED <<row, faults>>
    BY <1>6 DEF MarkDestroyed
  <2> QED
    BY <1>1, <1>2, <1>5, <2>1, Actor, EndStep
<1>7. CASE r.err = "none"
  <2>1. dnsRow = "none"
    BY <1>1, <1>7 DEF PassOK, LateTeardown
  <2>2. PICK ok \in BOOLEAN :
          UpdateEnvironment(env, ok) /\ Become(t, Over(r, IF ok THEN "none" ELSE "transient"))
    BY <1>7 DEF MarkDestroyed
  <2>3. faults' \in 0..MaxFaults /\ row' \in Env /\ RowOK(row', dnsRow)
    BY <1>3, <1>4, <2>1, <2>2, Actor, WriteOK
  <2> QED
    BY <1>1, <1>5, <2>2, <2>3, Actor, EndStep
<1> QED
  BY <1>6, <1>7

(* doSleep and doWake: the provider is only reached with a complete copy. *)
LEMMA ScaleStep ==
  ASSUME IInv, NEW t \in Task, Sleep(t) \/ Wake(t)
  PROVE  IInv'
<1> DEFINE r == task[t]
<1>0. PICK p \in {"sleep", "wake"}, from \in {"ready", "sleeping"}, mode \in {"stopped", "up"},
           next \in {"asleep", "awake"} :
        /\ Scale(t, p, from, mode, next)
        /\ next = "asleep" => from = "ready"
        /\ next = "awake" => from = "sleeping"
  BY DEF Sleep, Wake
<1>1. r \in TaskRec /\ TaskOK(r) /\ r.pc = p /\ Holds(r)
  BY <1>0, Actor DEF Scale, Holds
<1>2. faults' \in 0..MaxFaults
  BY <1>0, Actor, ReturnsTyped DEF Scale
<1>3. dep' \in Deployment
  <2>1. dep' \in {dep, [dep EXCEPT !.mode = mode]}
    BY <1>0 DEF Scale
  <2>2. [dep EXCEPT !.mode = mode] \in Deployment
    BY Actor DEF Deployment
  <2> QED
    BY <2>1, <2>2, Actor
<1>4. UNCHANGED <<row, dnsRow, events, dns, cert, lock, crashes>>
  BY <1>0 DEF Scale
<1>5. CASE \E err \in {"transient", "terminal"} : Become(t, Over(r, err))
  BY <1>1, <1>2, <1>3, <1>4, <1>5, Actor, EndStep
<1>6. CASE Goto(t, next) /\ r.env.status = from
  <2> DEFINE q == [r EXCEPT !.pc = next]
  <2>1. q \in TaskRec
    BY <1>1 DEF TaskRec, Pc
  <2>2. q.pc = next /\ q.env = r.env /\ q.ev = r.ev /\ q.op = r.op /\ q.art = r.art
    BY <1>1 DEF TaskRec
  <2>3. TaskOK(q) /\ PassOK(q, row', dnsRow')
    BY <1>0, <1>1, <1>6, <2>2 DEF TaskOK, PassOK, AttemptPc, ApplyPc, LateTeardown
  <2> QED
    BY <1>1, <1>2, <1>3, <1>4, <1>6, <2>1, <2>3, Actor, FrameHolder DEF Goto
<1> QED
  BY <1>0, <1>5, <1>6 DEF Scale

LEMMA MarkScaledStep ==
  ASSUME IInv, NEW t \in Task, MarkSleeping(t) \/ MarkAwake(t)
  PROVE  IInv'
<1> DEFINE r == task[t]
<1>0. PICK p \in {"asleep", "awake"}, status \in {"ready", "sleeping"} : MarkScaled(t, p, status)
  BY DEF MarkSleeping, MarkAwake
<1> DEFINE env == [r.env EXCEPT !.status = status]
<1>1. r \in TaskRec /\ TaskOK(r) /\ r.pc = p /\ Holds(r)
  BY <1>0, Actor DEF MarkScaled, Holds
<1>2. r.env \in Env /\ Complete(r.env) /\ r.env.status \in {"ready", "sleeping"}
  BY <1>1 DEF TaskRec, TaskOK
<1>3. env \in Env /\ env.status = status /\ env.DeployRef = r.env.DeployRef
      /\ env.LastGood = r.env.LastGood /\ env.ArtifactRef = r.env.ArtifactRef
  BY <1>2 DEF Env, Status
<1>4. Complete(env)
  BY <1>2, <1>3 DEF Complete, Serving
<1>5. PICK ok \in BOOLEAN :
        UpdateEnvironment(env, ok) /\ Become(t, Over(r, IF ok THEN "none" ELSE "transient"))
  BY <1>0 DEF MarkScaled
<1>6. faults' \in 0..MaxFaults /\ row' \in Env /\ RowOK(row', dnsRow)
  BY <1>3, <1>4, <1>5, Actor, WriteOK
<1>7. UNCHANGED <<dnsRow, events, lock, crashes>> /\ dep' = dep /\ dns' = dns /\ cert' = cert
  BY <1>0 DEF MarkScaled, infra
<1> QED
  BY <1>1, <1>5, <1>6, <1>7, Actor, EndStep

-----------------------------------------------------------------------------
(* Steps that take or drop the mutex, and steps outside the section. *)

LEMMA FrameLock ==
  ASSUME IInv, NEW t \in Task, NEW r \in TaskRec, Become(t, r), TaskOK(r),
         PassOK(r, row, dnsRow), \A u \in Task : u # t => ~Holds(task[u]),
         lock' \in Task \cup {NoTask}, Holds(r) => lock' = t,
         UNCHANGED <<row, dnsRow, events, infra, bounds>>
  PROVE  IInv'
<1>1. TypeOK'
  BY DEF IInv, TypeOK, Become, infra, bounds
<1>2. \A u \in Task : task'[u] = IF u = t THEN r ELSE task[u]
  BY DEF IInv, TypeOK, Become
<1> QED
  BY <1>1, <1>2 DEF IInv

LEMMA LockStep == ASSUME IInv, NEW t \in Task, Lock(t) PROVE IInv'
<1> DEFINE r == task[t]
           q == [r EXCEPT !.pc = Entry(r)]
<1>1. r \in TaskRec /\ TaskOK(r) /\ r.pc = "lock"
  BY Actor DEF Lock
<1>2. r.op \in Kind /\ r.src \in {"api", "inbox"}
  BY <1>1 DEF TaskRec
<1>3. /\ Entry(r) \in {"upsert", "deploying", "log", "deldns", "destroying", "unlock", "sleep", "wake"}
      /\ Entry(r) \in {"upsert", "deploying"} => r.op \in {"apply", "push"}
  BY <1>2 DEF Entry, Kind
<1>4. q \in TaskRec
  BY <1>1, <1>3 DEF TaskRec, Pc
<1>5. q.pc = Entry(r) /\ q.env = r.env /\ q.ev = r.ev /\ q.op = r.op /\ q.art = r.art
  BY <1>1 DEF TaskRec
<1>6. TaskOK(q) /\ PassOK(q, row, dnsRow)
  BY <1>1, <1>3, <1>5 DEF TaskOK, PassOK, AttemptPc, ApplyPc, LateTeardown
<1>7. \A u \in Task : ~Holds(task[u])
  BY ReconcilerAssumption DEF IInv, Lock
<1> QED
  BY <1>4, <1>6, <1>7, FrameLock DEF Lock, Goto

(* The idle goroutine satisfies the invariant of goroutines. *)
LEMMA IdleOK ==
  ASSUME NEW rw, NEW dr
  PROVE  Idle \in TaskRec /\ TaskOK(Idle) /\ PassOK(Idle, rw, dr) /\ ~Holds(Idle)
  BY ZeroTyped DEF TaskOK, PassOK, Holds, Idle, NoEnv, Complete, Serving, ApplyPc, AttemptPc,
     LateTeardown

LEMMA UnlockStep == ASSUME IInv, NEW t \in Task, Unlock(t) PROVE IInv'
<1> DEFINE r == task[t]
           q == [r EXCEPT !.pc = "settle"]
<1>1. r \in TaskRec /\ TaskOK(r) /\ r.pc = "unlock" /\ Holds(r)
  BY Actor DEF Unlock, Holds
<1>2. \A u \in Task : u # t => ~Holds(task[u])
  BY <1>1 DEF IInv
<1>3. lock' = NoTask /\ UNCHANGED <<row, dnsRow, events, infra, bounds>>
  BY DEF Unlock
<1>4. CASE r.src = "api"
  BY <1>2, <1>3, <1>4, IdleOK, FrameLock DEF Unlock
<1>5. CASE r.src # "api"
  <2>1. q \in TaskRec
    BY <1>1 DEF TaskRec, Pc
  <2>2. q.pc = "settle" /\ q.src # "api" /\ q.env = r.env /\ q.ev = r.ev /\ q.op = r.op /\ q.art = r.art
    BY <1>1, <1>5 DEF TaskRec
  <2>3. TaskOK(q) /\ PassOK(q, row, dnsRow) /\ ~Holds(q)
    BY <1>1, <2>2 DEF TaskOK, PassOK, Holds, AttemptPc, ApplyPc, LateTeardown
  <2>4. Become(t, q)
    BY <1>5 DEF Unlock
  <2> QED
    BY <1>2, <1>3, <2>1, <2>3, <2>4, FrameLock
<1> QED
  BY <1>4, <1>5

(* Settling keeps the kind and the artifact of the event. *)
LEMMA SettleEventOK ==
  ASSUME NEW r \in TaskRec, r.ev \in Event, events \in [Event -> EventRec], EventOK(events[r.ev])
  PROVE  SettleEvent(r) \in EventRec /\ EventOK(SettleEvent(r))
<1> DEFINE e == events[r.ev]
<1>1. e \in EventRec /\ r.err \in {"none", "transient", "terminal"}
  BY DEF TaskRec
<1>2. e.attempts + 1 \in Nat
  <2>1. e.attempts \in Nat
    BY <1>1 DEF EventRec
  <2>2. \A n \in Nat : n + 1 \in Nat
    OBVIOUS
  <2> QED
    BY <2>1, <2>2
<1>3. CASE r.err = "none"
  <2>1. PICK s \in {"processed", "dead_processed"} : SettleEvent(r) = [e EXCEPT !.state = s]
    BY <1>3 DEF SettleEvent
  <2> QED
    BY <1>1, <2>1 DEF EventRec, EventState, EventOK, Pending
<1>4. CASE r.err # "none" /\ e.state \notin Pending
  BY <1>1, <1>4 DEF SettleEvent
<1>5. CASE r.err # "none" /\ e.state \in Pending
  <2>1. PICK s \in {"dead", "waiting"} :
          SettleEvent(r) = [e EXCEPT !.attempts = e.attempts + 1, !.state = s]
    BY <1>5 DEF SettleEvent
  <2> QED
    BY <1>1, <1>2, <1>5, <2>1 DEF EventRec, EventState, EventOK, Pending
<1> QED
  BY <1>3, <1>4, <1>5

LEMMA SettleStep == ASSUME IInv, NEW t \in Task, Settle(t) PROVE IInv'
<1> DEFINE r == task[t]
           q == [r EXCEPT !.pc = "unlock"]
<1>1. r \in TaskRec /\ TaskOK(r) /\ r.pc = "settle"
  BY Actor DEF Settle
<1>2. r.ev \in Event
  BY <1>1 DEF TaskOK
<1>3. events' \in [Event -> EventRec] /\ \A e \in Event : EventOK(events'[e])
  <2>1. CASE events' = events
    BY <2>1, Actor
  <2>2. CASE events' = [events EXCEPT ![r.ev] = SettleEvent(r)]
    <3>1. SettleEvent(r) \in EventRec /\ EventOK(SettleEvent(r))
      BY <1>1, <1>2, Actor, SettleEventOK
    <3> QED
      BY <1>2, <2>2, <3>1, Actor
  <2> QED
    BY <2>1, <2>2 DEF Settle
<1>4. faults' \in 0..MaxFaults
  BY Actor, ReturnsTyped DEF Settle
<1>5. UNCHANGED <<row, dnsRow, infra, lock, crashes>> /\ dep' = dep /\ dns' = dns /\ cert' = cert
  BY DEF Settle, infra
<1>6. CASE r.src = "api"
  <2>1. Holds(r) /\ Become(t, q)
    BY <1>1, <1>6 DEF Holds, Settle
  <2>2. q \in TaskRec
    BY <1>1 DEF TaskRec, Pc
  <2>3. q.pc = "unlock" /\ q.env = r.env /\ q.ev = r.ev /\ q.op = r.op /\ q.art = r.art
    BY <1>1 DEF TaskRec
  <2>4. TaskOK(q) /\ PassOK(q, row', dnsRow')
    BY <1>1, <2>3 DEF TaskOK, PassOK, AttemptPc, ApplyPc, LateTeardown
  <2> QED
    BY <1>3, <1>4, <1>5, <2>1, <2>2, <2>4, Actor, FrameHolder
<1>7. CASE r.src # "api"
  <2>1. ~Holds(r) /\ Become(t, Idle)
    BY <1>1, <1>7 DEF Holds, Settle
  <2> QED
    BY <1>3, <1>4, <1>5, <2>1, IdleOK, FrameOutside
<1> QED
  BY <1>6, <1>7

(* ProcessEvent loads the row before it has the mutex. *)
LEMMA LoadStep == ASSUME IInv, NEW t \in Task, Load(t) PROVE IInv'
<1> DEFINE r == task[t]
<1>1. r \in TaskRec /\ TaskOK(r) /\ r.pc = "load" /\ r.src = "inbox" /\ ~Holds(r)
  BY Actor DEF Load, TaskOK, Holds
<1>2. faults' \in 0..MaxFaults
  BY Actor, ReturnsTyped DEF Load
<1>3. PICK q \in {[r EXCEPT !.pc = "lock", !.env = row]}
            \cup {[r EXCEPT !.pc = "settle", !.err = x] : x \in {"none", "transient", "terminal"}} :
        Become(t, q)
  BY DEF Load
<1>4. /\ q \in TaskRec
      /\ q.pc \in {"lock", "settle"} /\ q.src = "inbox" /\ q.env \in {r.env, row}
      /\ q.ev = r.ev /\ q.op = r.op /\ q.art = r.art
  <2>1. row \in Env
    BY Actor
  <2>2. CASE q = [r EXCEPT !.pc = "lock", !.env = row]
    BY <1>1, <2>1, <2>2 DEF TaskRec, Pc
  <2>3. ASSUME NEW x \in {"none", "transient", "terminal"},
               q = [r EXCEPT !.pc = "settle", !.err = x]
        PROVE  /\ q \in TaskRec
               /\ q.pc = "settle" /\ q.src = "inbox" /\ q.env = r.env
               /\ q.ev = r.ev /\ q.op = r.op /\ q.art = r.art
    BY <1>1, <2>3 DEF TaskRec, Pc
  <2> QED
    BY <2>2, <2>3
<1>5. TaskOK(q) /\ ~Holds(q)
  BY <1>1, <1>4, Actor DEF TaskOK, RowOK, Holds, AttemptPc, ApplyPc
<1> QED
  BY <1>1, <1>2, <1>3, <1>4, <1>5, Actor, FrameOutside DEF Load

LEMMA ClaimStep == ASSUME IInv, NEW t \in Task, NEW e \in Event, Claim(t, e) PROVE IInv'
<1> DEFINE ev == events[e]
           nev == [ev EXCEPT !.state = "waiting"]
           q == [Idle EXCEPT !.pc = IF ev.kind = "push" THEN "lock" ELSE "load",
                             !.src = "inbox", !.op = ev.kind, !.art = ev.art,
                             !.ev = e, !.attempts = ev.attempts]
<1>1. ev \in EventRec /\ EventOK(ev) /\ ev.state = "due"
  BY Actor DEF Claim
<1>2. ev.kind \in Kind /\ ev.art \in Artifact \cup {NoArtifact} /\ ev.attempts \in Nat
  BY <1>1 DEF EventRec, EventOK, Pending
<1>3. nev \in EventRec /\ nev.kind = ev.kind /\ nev.art = ev.art
  BY <1>1 DEF EventRec, EventState
<1>4. EventOK(nev)
  BY <1>1, <1>3 DEF EventOK, Pending
<1>5. events' = [events EXCEPT ![e] = nev]
  BY DEF Claim
<1>6. events' \in [Event -> EventRec] /\ \A f \in Event : EventOK(events'[f])
  BY <1>3, <1>4, <1>5, Actor
<1>7. q \in TaskRec
  <2> DEFINE p == IF ev.kind = "push" THEN "lock" ELSE "load"
  <2>1. p \in Pc
    BY DEF Pc
  <2>2. e \in Event \cup {NoEvent} /\ Idle \in TaskRec
    BY IdleOK
  <2> HIDE DEF p, ev
  <2>3. [Idle EXCEPT !.pc = p, !.src = "inbox", !.op = ev.kind, !.art = ev.art,
                     !.ev = e, !.attempts = ev.attempts] \in TaskRec
    BY <1>2, <2>1, <2>2 DEF TaskRec
  <2> QED
    BY <2>3 DEF p, ev
<1>8. q.pc \in {"lock", "load"} /\ q.src = "inbox" /\ q.op = ev.kind /\ q.art = ev.art /\ q.ev = e
      /\ q.env = NoEnv
  BY DEF Idle
<1>9. TaskOK(q) /\ ~Holds(q)
  <2>1. Complete(NoEnv)
    BY DEF NoEnv, Complete, Serving
  <2> QED
    BY <1>2, <1>8, <2>1 DEF TaskOK, Holds, AttemptPc, ApplyPc
<1>10. task[t].pc = "idle" /\ ~Holds(task[t]) /\ Become(t, q)
  BY DEF Claim, Holds
<1>11. UNCHANGED <<row, dnsRow, infra, lock, crashes>> /\ faults' = faults
  BY DEF Claim, bounds
<1> QED
  BY <1>6, <1>7, <1>9, <1>10, <1>11, Actor, FrameOutside

(* A request carries the row as it is now, or nothing. *)
LEMMA RequestStep ==
  ASSUME IInv, NEW t \in Task, NEW e \in Event, NEW op \in Kind,
         NEW a \in Artifact \cup {NoArtifact},
         NEW env \in {NoEnv, row}, Request(t, e, op, a, env)
  PROVE  IInv'
<1> DEFINE q == [Idle EXCEPT !.pc = "lock", !.op = op, !.art = a, !.env = env, !.ev = e]
<1>1. NoEnv \in Env /\ Complete(NoEnv)
  BY ZeroTyped DEF NoEnv, Complete, Serving
<1>2. env \in Env /\ Complete(env)
  BY <1>1, Actor DEF RowOK
<1>3. q \in TaskRec
  BY <1>2, IdleOK DEF TaskRec, Pc
<1>4. q.pc = "lock" /\ q.op = op /\ q.art = a /\ q.ev = e /\ q.env = env
  BY DEF Idle
<1>5. TaskOK(q) /\ ~Holds(q)
  BY <1>2, <1>4 DEF TaskOK, Holds, AttemptPc, ApplyPc
<1>6. ~Holds(task[t]) /\ Become(t, q) /\ faults' = faults
  BY DEF Request, Holds, bounds
<1>7. UNCHANGED <<row, dnsRow, events, infra, lock, crashes>>
  BY DEF Request, bounds
<1> QED
  BY <1>3, <1>5, <1>6, <1>7, Actor, FrameOutside

(* A step of the event log alone. *)
LEMMA FrameEvents ==
  ASSUME IInv, NEW e \in Event, NEW ev \in EventRec, EventOK(ev),
         events' = [events EXCEPT ![e] = ev],
         UNCHANGED <<row, dnsRow, infra, lock, task, bounds>>
  PROVE  IInv'
<1>1. events' \in [Event -> EventRec] /\ \A f \in Event : EventOK(events'[f])
  BY DEF IInv, TypeOK
<1>2. TypeOK'
  BY <1>1 DEF IInv, TypeOK, infra, bounds
<1> QED
  BY <1>1, <1>2 DEF IInv

LEMMA ClientsStep == ASSUME IInv, Clients PROVE IInv'
<1>1. ASSUME NEW e \in Event, NEW op \in Kind, NEW a \in Artifact \cup {NoArtifact},
             Deliver(e, op, a)
      PROVE  IInv'
  <2> DEFINE ev == [kind |-> op, art |-> a, state |-> "due", attempts |-> 0]
  <2>1. ev \in EventRec
    BY DEF EventRec, EventState
  <2>2. op \in {"push", "close"}
    BY <1>1 DEF Deliver
  <2>3. EventOK(ev)
    BY <2>2 DEF EventOK
  <2> QED
    BY <1>1, <2>1, <2>3, FrameEvents DEF Deliver
<1>2. ASSUME NEW t \in Task, NEW e \in Event, NEW a \in Artifact, RequestApply(t, e, a)
      PROVE  IInv'
  BY <1>2, RequestStep DEF RequestApply, Kind
<1>3. ASSUME NEW t \in Task, NEW e \in Event, RequestRollback(t, e)
      PROVE  IInv'
  <2>1. row.LastGood \in Artifact \cup {NoArtifact}
    BY <1>3, Actor DEF Env
  <2> QED
    BY <1>3, <2>1, RequestStep DEF RequestRollback, Kind
<1>4. ASSUME NEW t \in Task, NEW e \in Event, NEW op \in Kind, RequestOn(t, e, op)
      PROVE  IInv'
  BY <1>4, RequestStep DEF RequestOn
<1>5. ASSUME NEW t \in Task, NEW e \in Event, Sweep(t, e)
      PROVE  IInv'
  BY <1>5, RequestStep DEF Sweep, Kind
<1> QED
  BY <1>1, <1>2, <1>3, <1>4, <1>5 DEF Clients

LEMMA ElapseStep == ASSUME IInv, NEW e \in Event, Elapse(e) PROVE IInv'
<1> DEFINE ev == [events[e] EXCEPT !.state = "due"]
<1>1. events[e] \in EventRec /\ EventOK(events[e]) /\ events[e].state = "waiting"
  BY DEF IInv, TypeOK, Elapse
<1>2. ev \in EventRec /\ ev.kind = events[e].kind /\ ev.art = events[e].art
  BY <1>1 DEF EventRec, EventState
<1>3. EventOK(ev)
  BY <1>1, <1>2 DEF EventOK, Pending
<1>4. events' = [events EXCEPT ![e] = ev]
  BY DEF Elapse
<1> QED
  BY <1>2, <1>3, <1>4, FrameEvents DEF Elapse

LEMMA TTLStep == ASSUME IInv, TTLExpires PROVE IInv'
<1> DEFINE rw == [row EXCEPT !.ttl = "expired"]
<1>1. row \in Env /\ row' = rw
  BY DEF IInv, TypeOK, TTLExpires
<1>2. /\ rw \in Env /\ rw.id = row.id /\ rw.status = row.status
      /\ rw.DeployRef = row.DeployRef /\ rw.LastGood = row.LastGood
      /\ rw.ArtifactRef = row.ArtifactRef
  BY <1>1 DEF Env
<1>3. UNCHANGED <<dnsRow, events, dep, dns, cert, lock, task, faults, crashes>>
  BY DEF TTLExpires, infra, bounds
<1>4. TypeOK'
  BY <1>1, <1>2, <1>3 DEF IInv, TypeOK
<1>5. RowOK(row', dnsRow')
  BY <1>1, <1>2, <1>3 DEF IInv, RowOK, Complete
<1>6. \A t \in Task : PassOK(task[t], row', dnsRow')
  BY <1>1, <1>2, <1>3 DEF IInv, PassOK
<1> QED
  BY <1>3, <1>4, <1>5, <1>6 DEF IInv

LEMMA CrashStep == ASSUME IInv, Crash PROVE IInv'
<1>1. crashes' \in 0..MaxCrashes
  BY ReconcilerAssumption DEF IInv, TypeOK, Crash
<1>2. TypeOK'
  BY <1>1, IdleOK DEF IInv, TypeOK, Crash, infra
<1>3. \A t \in Task : task'[t] = Idle
  BY DEF Crash
<1> QED
  BY <1>2, <1>3, IdleOK DEF IInv, Crash

-----------------------------------------------------------------------------
(* Every step of the system preserves the invariant. *)
LEMMA StepIInv == IInv /\ [Next]_vars => IInv'
<1> SUFFICES ASSUME IInv, [Next]_vars PROVE IInv'
  OBVIOUS
<1>1. CASE UNCHANGED vars
  BY <1>1 DEF IInv, TypeOK, vars
<1>2. CASE Clients
  BY <1>2, ClientsStep
<1>3. CASE TTLExpires
  BY <1>3, TTLStep
<1>4. CASE \E e \in Event : Elapse(e) \/ \E t \in Task : Claim(t, e)
  BY <1>4, ElapseStep, ClaimStep
<1>5. ASSUME NEW t \in Task, Working(t) PROVE IInv'
  <2>1. CASE Load(t) \/ Lock(t) \/ Settle(t) \/ Unlock(t)
    BY <2>1, LoadStep, LockStep, SettleStep, UnlockStep
  <2>2. CASE Applying(t)
    BY <2>2, UpsertStep, LogStep, MarkDeployingStep, DeployStep, HealthStep, EnsureRecordStep,
       CertificateStep, RecordDNSRowStep, MarkReadyStep, MarkDegradedStep, MarkFailedStep
    DEF Applying
  <2>3. CASE Destroying(t)
    BY <2>3, MarkDestroyingStep, DeleteRecordStep, DeleteDNSRowStep, LateTeardownStep,
       MarkDestroyedStep
    DEF Destroying
  <2>4. CASE Scaling(t)
    BY <2>4, ScaleStep, MarkScaledStep DEF Scaling
  <2> QED
    BY <1>5, <2>1, <2>2, <2>3, <2>4 DEF Working
<1>6. CASE Crash
  BY <1>6, CrashStep
<1>7. CASE Rest
  BY <1>1, <1>7 DEF Rest
<1> QED
  BY <1>1, <1>2, <1>3, <1>4, <1>5, <1>6, <1>7 DEF Next

(* The inductive invariant holds in every reachable state: what each        *)
(* goroutine carries agrees with the row whenever it holds the mutex.        *)
THEOREM Invariance == Spec => []IInv
  BY InitIInv, StepIInv, PTL DEF Spec

(* Every reachable state is well typed: in particular the attempt counter    *)
(* of doApply never passes its budget plus the one compensating rollback.    *)
THEOREM TypeCorrect == Spec => []TypeOK
<1>1. IInv => TypeOK
  BY DEF IInv
<1> QED
  BY <1>1, Invariance, PTL

(* Whatever interleaves, fails or crashes, a row that claims to serve names  *)
(* its deployment, and the revision to go back to unless a push that named   *)
(* none asked for it; a degraded row runs another, named revision.           *)
THEOREM ServingRowsAreComplete == Spec => []ServingRowIsComplete
  BY IInvGives, Invariance, PTL

(* doDestroy never marks an environment destroyed while its DNS record is    *)
(* still on file.                                                            *)
THEOREM RecordsBelongToLiveRows == Spec => []RecordBelongsToLiveRow
  BY IInvGives, Invariance, PTL
-----------------------------------------------------------------------------
(* Publication.  What the attempt of goroutine r has achieved by the time it *)
(* reaches its next call; only the holder of the mutex can undo any of it.   *)
Exposed == {"dns", "cert", "install", "record", "ready"}

Achieved(r, d, n, c, dr) ==
  /\ r.pc \in {"health"} \cup Exposed => d.art = Target(r)
  /\ r.pc \in Exposed => d.mode = "up"
  /\ r.pc \in Exposed \ {"dns"} => n = "owned"
  /\ r.pc \in {"install", "record", "ready"} => "issued" \in c
  /\ r.pc \in {"record", "ready"} => "installed" \in c
  /\ r.pc = "ready" => dr = "recorded"

AInv == \A t \in Task : Achieved(task[t], dep, dns, cert, dnsRow)

(* No goroutine and no stored event is about a wake. *)
NeverWakes(r) == r.op # "wake" /\ r.pc \notin {"wake", "awake"}

WInv ==
  /\ \A e \in Event : events[e].kind # "wake"
  /\ \A t \in Task : NeverWakes(task[t])

(* A goroutine outside an attempt has nothing to keep. *)
LEMMA NothingAchieved ==
  ASSUME NEW r, r.pc \notin {"health"} \cup Exposed, NEW d, NEW n, NEW c, NEW dr
  PROVE  Achieved(r, d, n, c, dr)
  BY DEF Achieved, Exposed

(* A goroutine moves on; what it changes outside it changes as the holder.   *)
LEMMA AchievedKept ==
  ASSUME IInv, AInv, NEW t \in Task, NEW r, Become(t, r),
         Achieved(r, dep', dns', cert', dnsRow'),
         Holds(task[t]) \/ UNCHANGED <<dep, dns, cert, dnsRow>>
  PROVE  AInv'
<1>1. \A u \in Task : task'[u] = IF u = t THEN r ELSE task[u]
  BY DEF IInv, TypeOK, Become
<1>2. CASE Holds(task[t])
  <2>1. \A u \in Task : u # t => ~Holds(task[u])
    BY <1>2 DEF IInv
  <2>2. \A u \in Task : u # t => task[u].pc \notin {"health"} \cup Exposed
    BY <2>1 DEF Holds, Exposed
  <2>3. \A u \in Task : u # t => Achieved(task[u], dep', dns', cert', dnsRow')
    BY <2>2, NothingAchieved
  <2> QED
    BY <1>1, <2>3 DEF AInv
<1>3. CASE UNCHANGED <<dep, dns, cert, dnsRow>>
  BY <1>1, <1>3 DEF AInv
<1> QED
  BY <1>2, <1>3

(* Where the building blocks lead. *)
LEMMA FailedMove ==
  ASSUME NEW r \in TaskRec, NEW env, NEW err
  PROVE  AttemptFailed(r, env, err).pc \in {"deploy", "failed"} /\ AttemptFailed(r, env, err).op = r.op
  BY DEF AttemptFailed, TaskRec

LEMMA OverMove ==
  ASSUME NEW r \in TaskRec, NEW err
  PROVE  Over(r, err).pc \in {"settle", "unlock"} /\ Over(r, err).op = r.op
  BY DEF Over, TaskRec

LEMMA StepMove ==
  ASSUME NEW r \in TaskRec, NEW p, NEW err
  PROVE  StepFailed(r, p, err).pc = p /\ StepFailed(r, p, err).op = r.op
  BY DEF StepFailed, TaskRec

LEMMA GotoMove ==
  ASSUME NEW r \in TaskRec, NEW p
  PROVE  /\ [r EXCEPT !.pc = p].pc = p /\ [r EXCEPT !.pc = p].op = r.op
         /\ Target([r EXCEPT !.pc = p]) = Target(r)
<1>1. /\ [r EXCEPT !.pc = p].pc = p /\ [r EXCEPT !.pc = p].op = r.op
      /\ [r EXCEPT !.pc = p].try = r.try /\ [r EXCEPT !.pc = p].art = r.art
      /\ [r EXCEPT !.pc = p].env = r.env
  BY DEF TaskRec
<1>2. Target([r EXCEPT !.pc = p]) = Target(r)
  BY <1>1 DEF Target, RollingBack
<1> QED
  BY <1>1, <1>2

(* A step of goroutine t that leads to no call of an attempt after the       *)
(* deploy, and to a wake only from one.                                      *)
Aside(t) ==
  /\ \E r : /\ Become(t, r)
            /\ r.pc \notin {"health"} \cup Exposed
            /\ r.op \in {task[t].op, "apply"}
            /\ NeverWakes(task[t]) => r.pc \notin {"wake", "awake"}
  /\ Holds(task[t]) \/ UNCHANGED <<dep, dns, cert, dnsRow>>
  /\ dns' = "owned" => dns = "owned"
  /\ cert' \subseteq cert

LEMMA OutsideAside ==
  ASSUME IInv, NEW t \in Task, Load(t) \/ Lock(t) \/ Settle(t) \/ Unlock(t)
  PROVE  Aside(t)
<1> DEFINE r == task[t]
<1>0. r \in TaskRec /\ Idle.pc = "idle" /\ Idle.op = "apply"
  BY Actor DEF Idle
<1>1. UNCHANGED <<dep, dns, cert, dnsRow>>
  BY DEF Load, Lock, Settle, Unlock, infra
<1>2. ASSUME NEW q, Become(t, q), q.pc \in {"idle", "lock", "settle", "unlock"}, q.op \in {r.op, "apply"}
      PROVE  Aside(t)
  BY <1>1, <1>2 DEF Aside, Exposed
<1>3. CASE Load(t)
  <2>1. PICK q : /\ Become(t, q)
                 /\ \/ q = [r EXCEPT !.pc = "lock", !.env = row]
                    \/ \E err : q = [r EXCEPT !.pc = "settle", !.err = err]
    BY <1>3 DEF Load
  <2>2. q.pc \in {"lock", "settle"} /\ q.op = r.op
    BY <1>0, <2>1 DEF TaskRec
  <2> QED
    BY <1>2, <2>1, <2>2
<1>4. CASE Lock(t)
  <2>1. r.op \in Kind /\ r.src \in {"api", "inbox"}
    BY <1>0 DEF TaskRec
  <2>2. Entry(r) \in {"upsert", "deploying", "log", "deldns", "destroying", "unlock", "sleep", "wake"}
        /\ (r.op # "wake" => Entry(r) # "wake")
    BY <2>1 DEF Entry, Kind
  <2>3. Become(t, [r EXCEPT !.pc = Entry(r)])
    BY <1>4 DEF Lock, Goto
  <2>4. [r EXCEPT !.pc = Entry(r)].pc = Entry(r) /\ [r EXCEPT !.pc = Entry(r)].op = r.op
    BY <1>0, GotoMove
  <2> QED
    BY <1>1, <2>2, <2>3, <2>4 DEF Aside, Exposed, NeverWakes
<1>5. CASE Settle(t) \/ Unlock(t)
  <2>1. PICK q : /\ Become(t, q)
                 /\ q \in {Idle, [r EXCEPT !.pc = "unlock"], [r EXCEPT !.pc = "settle"]}
    BY <1>5 DEF Settle, Unlock
  <2>2. q.pc \in {"idle", "unlock", "settle"} /\ q.op \in {r.op, "apply"}
    BY <1>0, <2>1 DEF TaskRec
  <2> QED
    BY <1>2, <2>1, <2>2
<1> QED
  BY <1>3, <1>4, <1>5

LEMMA ApplyAside ==
  ASSUME IInv, NEW t \in Task,
         Upsert(t) \/ Log(t) \/ MarkDeploying(t) \/ MarkReady(t) \/ MarkDegraded(t) \/ MarkFailed(t)
  PROVE  Aside(t)
<1> DEFINE r == task[t]
<1>0. r \in TaskRec
  BY Actor
<1>1. UNCHANGED <<dep, dns, cert, dnsRow>>
  BY DEF Upsert, Log, MarkDeploying, MarkReady, MarkDegraded, MarkFailed, infra
<1>2. ASSUME NEW q, Become(t, q), q.op = r.op,
             q.pc \in {"log", "deploying", "unlock", "deploy", "failed", "degraded", "settle",
                       "destroying", "sleep"}
      PROVE  Aside(t)
  BY <1>1, <1>2 DEF Aside, Exposed
<1>3. CASE Upsert(t)
  <2> DEFINE env == IF row.id = "" THEN NewRow(r.art) ELSE row
             p == IF r.src = "api" THEN "log" ELSE "deploying"
  <2>1. PICK q : /\ Become(t, q)
                 /\ \/ q = [r EXCEPT !.env = env, !.pc = p]
                    \/ q = [r EXCEPT !.pc = "unlock", !.err = "transient"]
    BY <1>3 DEF Upsert
  <2>2. q.pc \in {"log", "deploying", "unlock"} /\ q.op = r.op
    BY <1>0, <2>1 DEF TaskRec
  <2> QED
    BY <1>2, <2>1, <2>2
<1>4. CASE Log(t)
  <2> DEFINE p == CASE r.op = "apply"   -> "deploying"
                    [] r.op = "destroy" -> "destroying"
                    [] r.op = "sleep"   -> "sleep"
                    [] r.op = "wake"    -> "wake"
                    [] OTHER            -> "unlock"
  <2>1. Goto(t, p) \/ Goto(t, "unlock")
    BY <1>4 DEF Log
  <2>2. p \in {"deploying", "destroying", "sleep", "wake", "unlock"} /\ (r.op # "wake" => p # "wake")
    OBVIOUS
  <2>3. ASSUME NEW x \in {p, "unlock"}, Goto(t, x) PROVE Aside(t)
    <3>1. [r EXCEPT !.pc = x].pc = x /\ [r EXCEPT !.pc = x].op = r.op
      BY <1>0, GotoMove
    <3>2. x \in {"deploying", "destroying", "sleep", "wake", "unlock"} /\ (r.op # "wake" => x # "wake")
      BY <2>2
    <3> QED
      BY <1>1, <2>3, <3>1, <3>2 DEF Aside, Exposed, NeverWakes, Goto
  <2> QED
    BY <2>1, <2>3
<1>5. CASE MarkDeploying(t)
  <2> DEFINE env == [r.env EXCEPT !.ArtifactRef = r.art, !.status = "deploying"]
  <2>1. PICK q : /\ Become(t, q)
                 /\ \/ q = [r EXCEPT !.pc = "deploy", !.env = env, !.try = 1]
                    \/ q = Over(r, "transient")
    BY <1>5 DEF MarkDeploying
  <2>2. CASE q = Over(r, "transient")
    BY <1>0, <1>2, <2>1, <2>2, OverMove
  <2>3. CASE q = [r EXCEPT !.pc = "deploy", !.env = env, !.try = 1]
    <3>1. q.pc = "deploy" /\ q.op = r.op
      BY <1>0, <2>3 DEF TaskRec
    <3> QED
      BY <1>2, <2>1, <3>1
  <2> QED
    BY <2>1, <2>2, <2>3
<1>6. CASE MarkReady(t)
  <2> DEFINE env == ReadyRow(r)
  <2>1. PICK q : /\ Become(t, q)
                 /\ \/ q = AttemptFailed(r, NoEnv, "transient")
                    \/ q = [r EXCEPT !.pc = "degraded", !.env = env]
                    \/ q = Over([r EXCEPT !.env = env], "none")
    BY <1>6 DEF MarkReady
  <2>2. CASE q = AttemptFailed(r, NoEnv, "transient")
    <3>1. q.pc \in {"deploy", "failed"} /\ q.op = r.op
      BY <1>0, <2>2, FailedMove
    <3> QED
      BY <1>2, <2>1, <3>1
  <2>3. CASE q = [r EXCEPT !.pc = "degraded", !.env = env]
    <3>1. q.pc = "degraded" /\ q.op = r.op
      BY <1>0, <2>3 DEF TaskRec
    <3> QED
      BY <1>2, <2>1, <3>1
  <2>4. CASE q = Over([r EXCEPT !.env = env], "none")
    <3>1. q.pc \in {"settle", "unlock"} /\ q.op = r.op
      BY <1>0, <2>4 DEF TaskRec, Over
    <3> QED
      BY <1>2, <2>1, <3>1
  <2> QED
    BY <2>1, <2>2, <2>3, <2>4
<1>7. CASE MarkDegraded(t) \/ MarkFailed(t)
  <2>1. Become(t, Over(r, r.err))
    BY <1>7 DEF MarkDegraded, MarkFailed
  <2>2. Over(r, r.err).pc \in {"settle", "unlock"} /\ Over(r, r.err).op = r.op
    BY <1>0, OverMove
  <2> QED
    BY <1>2, <2>1, <2>2
<1> QED
  BY <1>3, <1>4, <1>5, <1>6, <1>7

LEMMA DestroyAside ==
  ASSUME IInv, NEW t \in Task, Destroying(t)
  PROVE  Aside(t)
<1> DEFINE r == task[t]
<1>0. r \in TaskRec
  BY Actor
<1>1. Holds(r)
  BY DEF Destroying, MarkDestroying, DeleteRecord, DeleteDNSRow, RevokeCertificate,
     RemoveCertificate, Undeploy, MarkDestroyed, Holds
<1>2. (dns' = "owned" => dns = "owned") /\ cert' \subseteq cert
  BY DEF Destroying, MarkDestroying, DeleteRecord, DeleteDNSRow, RevokeCertificate,
     RemoveCertificate, Undeploy, MarkDestroyed, infra
<1>3. ASSUME NEW q, Become(t, q), q.op = r.op, q.pc \in LateTeardown \cup {"deldns", "delrow", "settle", "unlock"}
      PROVE  Aside(t)
  BY <1>1, <1>2, <1>3 DEF Aside, Exposed, LateTeardown
<1>4. CASE MarkDestroying(t)
  <2>1. PICK q, env : /\ Become(t, q)
                      /\ \/ q = [r EXCEPT !.pc = "deldns"]
                         \/ q = [r EXCEPT !.pc = "deldns", !.env = env]
                         \/ q = [r EXCEPT !.pc = "unlock", !.err = "transient"]
    BY <1>4 DEF MarkDestroying, Goto
  <2>2. q.pc \in {"deldns", "unlock"} /\ q.op = r.op
    BY <1>0, <2>1 DEF TaskRec
  <2> QED
    BY <1>3, <2>1, <2>2
<1>a. ASSUME NEW p \in LateTeardown \cup {"delrow"}, Goto(t, p) PROVE Aside(t)
  <2>1. [r EXCEPT !.pc = p].pc = p /\ [r EXCEPT !.pc = p].op = r.op
    BY <1>0, GotoMove
  <2> QED
    BY <1>3, <1>a, <2>1 DEF Goto
<1>b. ASSUME NEW p \in LateTeardown \cup {"delrow"}, NEW err, Become(t, StepFailed(r, p, err))
      PROVE  Aside(t)
  <2>1. StepFailed(r, p, err).pc = p /\ StepFailed(r, p, err).op = r.op
    BY <1>0, StepMove
  <2> QED
    BY <1>3, <1>b, <2>1
<1>5. CASE DeleteRecord(t) \/ DeleteDNSRow(t) \/ RevokeCertificate(t) \/ RemoveCertificate(t) \/ Undeploy(t)
  <2>1. {"revoke", "remove", "undeploy", "destroyed"} = LateTeardown
    BY DEF LateTeardown
  <2>2. CASE DeleteRecord(t) \/ DeleteDNSRow(t)
    BY <1>a, <1>b, <2>1, <2>2 DEF DeleteRecord, DeleteDNSRow
  <2>3. CASE RevokeCertificate(t) \/ RemoveCertificate(t) \/ Undeploy(t)
    BY <1>a, <1>b, <2>1, <2>3 DEF RevokeCertificate, RemoveCertificate, Undeploy
  <2> QED
    BY <1>5, <2>2, <2>3
<1>6. CASE MarkDestroyed(t)
  <2>1. PICK err : Become(t, Over(r, err))
    BY <1>6 DEF MarkDestroyed
  <2> QED
    BY <1>0, <1>3, <2>1, OverMove
<1> QED
  BY <1>4, <1>5, <1>6 DEF Destroying

LEMMA ScaleAside ==
  ASSUME IInv, NEW t \in Task, Scaling(t)
  PROVE  Aside(t)
<1> DEFINE r == task[t]
<1>0. r \in TaskRec
  BY Actor
<1>1. Holds(r) /\ dns' = dns /\ cert' = cert
  BY DEF Scaling, Sleep, Wake, MarkSleeping, MarkAwake, Scale, MarkScaled, Holds, infra
<1>2. PICK q : /\ Become(t, q)
               /\ \/ \E err : q = Over(r, err)
                  \/ q = [r EXCEPT !.pc = "asleep"]
                  \/ q = [r EXCEPT !.pc = "awake"] /\ r.pc = "wake"
  BY DEF Scaling, Sleep, Wake, MarkSleeping, MarkAwake, Scale, MarkScaled, Goto
<1>3. q.pc \in {"settle", "unlock", "asleep", "awake"} /\ q.op = r.op /\ (q.pc = "awake" => r.pc = "wake")
  <2>1. CASE \E err : q = Over(r, err)
    BY <1>0, <2>1, OverMove
  <2>2. CASE q = [r EXCEPT !.pc = "asleep"] \/ (q = [r EXCEPT !.pc = "awake"] /\ r.pc = "wake")
    BY <1>0, <2>2 DEF TaskRec
  <2> QED
    BY <1>2, <2>1, <2>2
<1> QED
  BY <1>1, <1>2, <1>3 DEF Aside, Exposed, NeverWakes

(* The calls of an attempt establish what the next one relies on. *)
LEMMA AttemptAchieves ==
  ASSUME IInv, AInv, NEW t \in Task,
         \/ Deploy(t) \/ Health(t) \/ EnsureRecord(t) \/ EnsureCertificate(t)
         \/ InstallCertificate(t) \/ RecordDNSRow(t)
  PROVE  AInv'
<1> DEFINE r == task[t]
<1>0. /\ r \in TaskRec /\ Achieved(r, dep, dns, cert, dnsRow)
      /\ dep \in Deployment /\ cert \in SUBSET {"issued", "installed"}
  BY Actor DEF AInv
<1>1. Holds(r)
  BY DEF Holds, Deploy, Health, EnsureRecord, EnsureCertificate, InstallCertificate, RecordDNSRow
<1>2. ASSUME NEW err, Become(t, AttemptFailed(r, r.env, err)) PROVE AInv'
  <2>1. AttemptFailed(r, r.env, err).pc \in {"deploy", "failed"}
    BY <1>0, FailedMove
  <2>2. Achieved(AttemptFailed(r, r.env, err), dep', dns', cert', dnsRow')
    BY <2>1, NothingAchieved DEF Exposed
  <2> QED
    BY <1>1, <1>2, <2>2, AchievedKept
<1>3. ASSUME NEW p, Goto(t, p),
             p \in {"health"} \cup Exposed => dep'.art = Target(r),
             p \in Exposed => dep'.mode = "up",
             p \in Exposed \ {"dns"} => dns' = "owned",
             p \in {"install", "record", "ready"} => "issued" \in cert',
             p \in {"record", "ready"} => "installed" \in cert',
             p = "ready" => dnsRow' = "recorded"
      PROVE  AInv'
  <2>1. [r EXCEPT !.pc = p].pc = p /\ Target([r EXCEPT !.pc = p]) = Target(r)
    BY <1>0, GotoMove
  <2>2. Achieved([r EXCEPT !.pc = p], dep', dns', cert', dnsRow')
    BY <1>3, <2>1 DEF Achieved
  <2> QED
    BY <1>1, <1>3, <2>2, AchievedKept DEF Goto
<1>4. CASE Deploy(t)
  <2>1. CASE dep' = [art |-> Target(r), mode |-> "starting"] /\ Goto(t, "health")
    BY <1>3, <2>1 DEF Exposed
  <2>2. CASE Become(t, AttemptFailed(r, r.env, "transient"))
    BY <1>2, <2>2
  <2> QED
    BY <1>4, <2>1, <2>2 DEF Deploy
<1>5. CASE Health(t)
  <2>1. CASE dep' = [dep EXCEPT !.mode = "up"] /\ Goto(t, "dns")
    <3>1. dep'.mode = "up" /\ dep'.art = dep.art
      BY <1>0, <2>1 DEF Deployment
    <3>2. dep.art = Target(r)
      BY <1>0, <1>5 DEF Achieved, Health
    <3> QED
      BY <1>3, <2>1, <3>1, <3>2
  <2>2. CASE Become(t, AttemptFailed(r, r.env, "transient"))
    BY <1>2, <2>2
  <2> QED
    BY <1>5, <2>1, <2>2 DEF Health
<1>6. CASE EnsureRecord(t)
  <2>1. CASE dns' = "owned" /\ Goto(t, "cert")
    <3>1. dep' = dep /\ dep.mode = "up" /\ dep.art = Target(r)
      BY <1>0, <1>6 DEF Achieved, EnsureRecord, Exposed
    <3> QED
      BY <1>3, <2>1, <3>1
  <2>2. CASE \E err : Become(t, AttemptFailed(r, r.env, err))
    BY <1>2, <2>2
  <2> QED
    BY <1>6, <2>1, <2>2 DEF EnsureRecord
<1>7. CASE EnsureCertificate(t)
  <2>1. CASE cert' = cert \cup {"issued"} /\ Goto(t, "install")
    <3>1. dep' = dep /\ dep.mode = "up" /\ dep.art = Target(r) /\ dns' = "owned"
      BY <1>0, <1>7 DEF Achieved, EnsureCertificate, Exposed
    <3>2. "issued" \in cert'
      BY <2>1
    <3> QED
      BY <1>3, <2>1, <3>1, <3>2
  <2>2. CASE Become(t, AttemptFailed(r, r.env, "transient"))
    BY <1>2, <2>2
  <2> QED
    BY <1>7, <2>1, <2>2 DEF EnsureCertificate
<1>8. CASE InstallCertificate(t)
  <2>1. CASE cert' = cert \cup {"installed"} /\ Goto(t, "record")
    <3>1. dep' = dep /\ dep.mode = "up" /\ dep.art = Target(r) /\ dns' = "owned" /\ "issued" \in cert
      BY <1>0, <1>8 DEF Achieved, InstallCertificate, Exposed
    <3>2. "issued" \in cert' /\ "installed" \in cert'
      BY <2>1, <3>1
    <3> QED
      BY <1>3, <2>1, <3>1, <3>2
  <2>2. CASE Become(t, AttemptFailed(r, r.env, "transient"))
    BY <1>2, <2>2
  <2> QED
    BY <1>8, <2>1, <2>2 DEF InstallCertificate
<1>9. CASE RecordDNSRow(t)
  <2>1. CASE dnsRow' = "recorded" /\ Goto(t, "ready")
    <3>1. /\ dep' = dep /\ dep.mode = "up" /\ dep.art = Target(r) /\ dns' = "owned"
          /\ cert' = cert /\ "issued" \in cert /\ "installed" \in cert
      BY <1>0, <1>9 DEF Achieved, RecordDNSRow, Exposed, infra
    <3> QED
      BY <1>3, <2>1, <3>1
  <2>2. CASE Become(t, AttemptFailed(r, r.env, "transient"))
    BY <1>2, <2>2
  <2> QED
    BY <1>9, <2>1, <2>2 DEF RecordDNSRow
<1> QED
  BY <1>4, <1>5, <1>6, <1>7, <1>8, <1>9

(* Claims and requests start outside the mutex. *)
LEMMA StartMove ==
  ASSUME NEW t \in Task, NEW e \in Event, NEW a, NEW env, NEW op,
         Claim(t, e) \/ Request(t, e, op, a, env)
  PROVE  /\ \E r : /\ Become(t, r) /\ r.pc \in {"lock", "load"}
                   /\ r.op = events[e].kind \/ (Request(t, e, op, a, env) /\ r.op = op)
         /\ UNCHANGED <<dep, dns, cert, dnsRow, row>>
<1>1. UNCHANGED <<dep, dns, cert, dnsRow, row>>
  BY DEF Claim, Request, infra
<1>2. CASE Claim(t, e)
  <2> DEFINE q == [Idle EXCEPT !.pc = IF events[e].kind = "push" THEN "lock" ELSE "load",
                               !.src = "inbox", !.op = events[e].kind, !.art = events[e].art,
                               !.ev = e, !.attempts = events[e].attempts]
  <2>1. Become(t, q)
    BY <1>2 DEF Claim
  <2>2. q.pc \in {"lock", "load"} /\ q.op = events[e].kind
    BY DEF Idle
  <2> HIDE DEF q
  <2> QED
    BY <1>1, <2>1, <2>2
<1>3. CASE Request(t, e, op, a, env)
  <2> DEFINE q == [Idle EXCEPT !.pc = "lock", !.op = op, !.art = a, !.env = env, !.ev = e]
  <2>1. Become(t, q)
    BY <1>3 DEF Request
  <2>2. q.pc = "lock" /\ q.op = op
    BY DEF Idle
  <2> HIDE DEF q
  <2> QED
    BY <1>1, <1>3, <2>1, <2>2
<1> QED
  BY <1>2, <1>3

LEMMA AchievedStep == IInv /\ AInv /\ [Next]_vars => AInv'
<1> SUFFICES ASSUME IInv, AInv, [Next]_vars PROVE AInv'
  OBVIOUS
<1>1. CASE UNCHANGED <<task, dep, dns, cert, dnsRow>>
  BY <1>1 DEF AInv
<1>2. ASSUME NEW t \in Task, Aside(t) PROVE AInv'
  <2>1. PICK r : Become(t, r) /\ r.pc \notin {"health"} \cup Exposed
    BY <1>2 DEF Aside
  <2>2. Achieved(r, dep', dns', cert', dnsRow')
    BY <2>1, NothingAchieved
  <2>3. Holds(task[t]) \/ UNCHANGED <<dep, dns, cert, dnsRow>>
    BY <1>2 DEF Aside
  <2> QED
    BY <2>1, <2>2, <2>3, AchievedKept
<1>3. ASSUME NEW t \in Task, NEW e \in Event, NEW a, NEW env, NEW op,
             Claim(t, e) \/ Request(t, e, op, a, env)
      PROVE  AInv'
  <2>1. PICK r : Become(t, r) /\ r.pc \in {"lock", "load"}
    BY <1>3, StartMove
  <2>2. Achieved(r, dep', dns', cert', dnsRow')
    BY <2>1, NothingAchieved DEF Exposed
  <2> QED
    BY <1>3, <2>1, <2>2, StartMove, AchievedKept
<1>4. CASE Clients
  <2>1. ASSUME NEW e, NEW op, NEW a, Deliver(e, op, a) PROVE AInv'
    BY <1>1, <2>1 DEF Deliver, infra
  <2> QED
    BY <1>3, <1>4, <2>1 DEF Clients, RequestApply, RequestRollback, RequestOn, Sweep
<1>5. CASE TTLExpires
  BY <1>1, <1>5 DEF TTLExpires, infra
<1>6. CASE \E e \in Event : Elapse(e) \/ \E t \in Task : Claim(t, e)
  <2>1. ASSUME NEW e, Elapse(e) PROVE AInv'
    BY <1>1, <2>1 DEF Elapse, infra
  <2> QED
    BY <1>3, <1>6, <2>1
<1>7. ASSUME NEW t \in Task, Working(t) PROVE AInv'
  <2>1. CASE \/ Deploy(t) \/ Health(t) \/ EnsureRecord(t) \/ EnsureCertificate(t)
             \/ InstallCertificate(t) \/ RecordDNSRow(t)
    BY <2>1, AttemptAchieves
  <2>2. CASE Load(t) \/ Lock(t) \/ Settle(t) \/ Unlock(t)
    BY <1>2, <2>2, OutsideAside
  <2>3. CASE Upsert(t) \/ Log(t) \/ MarkDeploying(t) \/ MarkReady(t) \/ MarkDegraded(t) \/ MarkFailed(t)
    BY <1>2, <2>3, ApplyAside
  <2>4. CASE Destroying(t) \/ Scaling(t)
    BY <1>2, <2>4, DestroyAside, ScaleAside
  <2> QED
    BY <1>7, <2>1, <2>2, <2>3, <2>4 DEF Working, Applying
<1>8. CASE Crash
  <2>1. \A t \in Task : task'[t].pc = "idle"
    BY <1>8 DEF Crash, Idle
  <2> QED
    BY <2>1, NothingAchieved DEF AInv, Exposed
<1>9. CASE UNCHANGED vars \/ Rest
  BY <1>1, <1>9 DEF Rest, vars
<1> QED
  BY <1>4, <1>5, <1>6, <1>7, <1>8, <1>9 DEF Next

LEMMA InitAchieved == Init => AInv
<1>1. Init => \A t \in Task : task[t].pc = "idle"
  BY DEF Init, Idle
<1> QED
  BY <1>1, NothingAchieved DEF AInv, Exposed

(* The record is written, and the certificate issued or installed, only      *)
(* while the deployment is up.                                               *)
PublicWhenUp ==
  /\ dns' = "owned" /\ dns # "owned" => dep.mode = "up"
  /\ cert' # cert /\ cert \subseteq cert' => dep.mode = "up"

LEMMA PublicStep == IInv /\ AInv /\ [Next]_vars => PublicWhenUp
<1> SUFFICES ASSUME IInv, AInv, [Next]_vars PROVE PublicWhenUp
  OBVIOUS
<1>1. CASE dns' = dns /\ cert' = cert
  BY <1>1 DEF PublicWhenUp
<1>2. ASSUME NEW t \in Task, Aside(t) PROVE PublicWhenUp
  BY <1>2 DEF Aside, PublicWhenUp
<1>3. CASE Clients \/ TTLExpires \/ Crash \/ Rest \/ UNCHANGED vars
  BY <1>1, <1>3 DEF Clients, Deliver, Request, RequestApply, RequestRollback, RequestOn, Sweep,
     TTLExpires, Crash, Rest, vars, infra
<1>4. CASE \E e \in Event : Elapse(e) \/ \E t \in Task : Claim(t, e)
  BY <1>1, <1>4 DEF Elapse, Claim, infra
<1>5. ASSUME NEW t \in Task, Working(t) PROVE PublicWhenUp
  <2>1. CASE Deploy(t) \/ Health(t) \/ RecordDNSRow(t)
    BY <1>1, <2>1 DEF Deploy, Health, RecordDNSRow, infra
  <2>2. CASE EnsureRecord(t) \/ EnsureCertificate(t) \/ InstallCertificate(t)
    <3>1. task[t].pc \in Exposed
      BY <2>2 DEF EnsureRecord, EnsureCertificate, InstallCertificate, Exposed
    <3>2. dep.mode = "up"
      BY <3>1 DEF AInv, Achieved
    <3> QED
      BY <3>2 DEF PublicWhenUp
  <2>3. CASE Load(t) \/ Lock(t) \/ Settle(t) \/ Unlock(t)
    BY <1>2, <2>3, OutsideAside
  <2>4. CASE Upsert(t) \/ Log(t) \/ MarkDeploying(t) \/ MarkReady(t) \/ MarkDegraded(t) \/ MarkFailed(t)
    BY <1>2, <2>4, ApplyAside
  <2>5. CASE Destroying(t) \/ Scaling(t)
    BY <1>2, <2>5, DestroyAside, ScaleAside
  <2> QED
    BY <1>5, <2>1, <2>2, <2>3, <2>4, <2>5 DEF Working, Applying
<1> QED
  BY <1>3, <1>4, <1>5 DEF Next

(* README "Health-checked before ready", for every operation, interleaving,  *)
(* failure and crash: attemptApply makes the branch public only while what   *)
(* it deployed is up.                                                        *)
THEOREM PublicOnlyWhenUp == Spec => [][PublicWhenUp]_vars
<1>1. Init => IInv /\ AInv
  BY InitIInv, InitAchieved
<1>2. IInv /\ AInv /\ [Next]_vars => (IInv /\ AInv)' /\ PublicWhenUp
  BY StepIInv, AchievedStep, PublicStep
<1> QED
  BY <1>1, <1>2, PTL DEF Spec

-----------------------------------------------------------------------------
(* Without wakes, ready is only written by attemptApply. *)
LEMMA KindsKept ==
  ASSUME IInv, WInv, "wake" \notin Ops, [Next]_vars, NEW f \in Event
  PROVE  events'[f].kind # "wake"
<1>0. events \in [Event -> EventRec] /\ events[f].kind # "wake"
  BY DEF IInv, TypeOK, WInv
<1>1. CASE UNCHANGED events
  BY <1>0, <1>1
<1>2. ASSUME NEW e \in Event, NEW ev, events' = [events EXCEPT ![e] = ev], ev.kind # "wake"
      PROVE  events'[f].kind # "wake"
  BY <1>0, <1>2
<1>3. CASE Clients
  <2>1. ASSUME NEW e \in Event, NEW op, NEW a, Deliver(e, op, a) PROVE events'[f].kind # "wake"
    BY <1>0, <2>1 DEF Deliver
  <2>2. CASE \E e \in Event, op \in Kind, a \in Artifact \cup {NoArtifact} : Deliver(e, op, a)
    BY <2>1, <2>2
  <2>3. CASE ~\E e \in Event, op \in Kind, a \in Artifact \cup {NoArtifact} : Deliver(e, op, a)
    BY <1>1, <1>3, <2>3 DEF Clients, RequestApply, RequestRollback, RequestOn, Sweep, Request
  <2> QED
    BY <2>2, <2>3
<1>4. ASSUME NEW e \in Event, NEW s, events' = [events EXCEPT ![e].state = s]
      PROVE  events'[f].kind # "wake"
  <2>1. [events[e] EXCEPT !.state = s].kind # "wake"
    BY <1>0 DEF WInv, EventRec
  <2> QED
    BY <1>2, <1>4, <2>1
<1>5. CASE \E e \in Event : Elapse(e) \/ \E t \in Task : Claim(t, e)
  BY <1>4, <1>5 DEF Elapse, Claim
<1>6. ASSUME NEW t \in Task, Working(t) PROVE events'[f].kind # "wake"
  <2>0. task[t] \in TaskRec /\ (task[t].pc # "idle" => task[t].ev \in Event) /\ task[t].op # "wake"
    BY Actor DEF TaskOK, WInv, NeverWakes
  <2>1. CASE Settle(t)
    <3>1. CASE UNCHANGED events
      BY <1>1, <3>1
    <3>2. CASE events' = [events EXCEPT ![task[t].ev] = SettleEvent(task[t])]
      <4>1. task[t].ev \in Event
        BY <2>0, <2>1 DEF Settle
      <4>2. events[task[t].ev] \in EventRec /\ events[task[t].ev].kind # "wake"
        BY <1>0, <4>1 DEF WInv
      <4>3. SettleEvent(task[t]).kind # "wake"
        BY <4>2 DEF SettleEvent, EventRec
      <4> QED
        BY <1>2, <3>2, <4>1, <4>3
    <3> QED
      BY <2>1, <3>1, <3>2 DEF Settle
  <2>2. CASE Log(t)
    <3>1. CASE UNCHANGED events
      BY <1>1, <3>1
    <3>2. CASE events' = [events EXCEPT ![task[t].ev] = [kind |-> task[t].op, art |-> task[t].art,
                                                         state |-> "due", attempts |-> 0]]
      <4>1. task[t].ev \in Event
        BY <2>0, <2>2 DEF Log
      <4> QED
        BY <1>0, <2>0, <3>2, <4>1
    <3> QED
      BY <2>2, <3>1, <3>2 DEF Log
  <2>3. CASE Load(t) \/ Lock(t) \/ Unlock(t) \/ Scaling(t)
    BY <1>1, <2>3 DEF Load, Lock, Unlock, Scaling, Sleep, MarkSleeping, Wake, MarkAwake, Scale, MarkScaled
  <2>4. CASE Applying(t) /\ ~Log(t)
    BY <1>1, <2>4 DEF Applying, Upsert, MarkDeploying, Deploy, Health, EnsureRecord,
       EnsureCertificate, InstallCertificate, RecordDNSRow, MarkReady, MarkDegraded, MarkFailed
  <2>5. CASE Destroying(t)
    BY <1>1, <2>5 DEF Destroying, MarkDestroying, DeleteRecord, DeleteDNSRow, RevokeCertificate,
       RemoveCertificate, Undeploy, MarkDestroyed
  <2> QED
    BY <1>6, <2>1, <2>2, <2>3, <2>4, <2>5 DEF Working
<1>7. CASE TTLExpires \/ Crash \/ Rest \/ UNCHANGED vars
  BY <1>1, <1>7 DEF TTLExpires, Crash, Rest, vars
<1> QED
  BY <1>3, <1>5, <1>6, <1>7 DEF Next

(* A call of an attempt leads to another one, or to the end of the attempt.  *)
LEMMA AttemptMove ==
  ASSUME IInv, NEW t \in Task,
         \/ Deploy(t) \/ Health(t) \/ EnsureRecord(t) \/ EnsureCertificate(t)
         \/ InstallCertificate(t) \/ RecordDNSRow(t)
  PROVE  \E r : Become(t, r) /\ r.pc \in {"failed"} \cup AttemptPc /\ r.op = task[t].op
<1>0. task[t] \in TaskRec
  BY Actor
<1>1. ASSUME NEW err, Become(t, AttemptFailed(task[t], task[t].env, err))
      PROVE  \E r : Become(t, r) /\ r.pc \in {"failed"} \cup AttemptPc /\ r.op = task[t].op
  <2>1. /\ AttemptFailed(task[t], task[t].env, err).pc \in {"deploy", "failed"}
        /\ AttemptFailed(task[t], task[t].env, err).op = task[t].op
    BY <1>0, FailedMove
  <2> QED
    BY <1>1, <2>1 DEF AttemptPc
<1>2. ASSUME NEW p \in AttemptPc, Goto(t, p)
      PROVE  \E r : Become(t, r) /\ r.pc \in {"failed"} \cup AttemptPc /\ r.op = task[t].op
  <2>1. [task[t] EXCEPT !.pc = p].pc = p /\ [task[t] EXCEPT !.pc = p].op = task[t].op
    BY <1>0, GotoMove
  <2> QED
    BY <1>2, <2>1 DEF Goto
<1>3. {"health", "dns", "cert", "install", "record", "ready"} \subseteq AttemptPc
  BY DEF AttemptPc
<1> QED
  BY <1>1, <1>2, <1>3 DEF Deploy, Health, EnsureRecord, EnsureCertificate, InstallCertificate, RecordDNSRow

LEMMA WakelessStep == ASSUME "wake" \notin Ops PROVE IInv /\ WInv /\ [Next]_vars => WInv'
<1> SUFFICES ASSUME IInv, WInv, [Next]_vars PROVE WInv'
  OBVIOUS
<1>0. \A f \in Event : events'[f].kind # "wake"
  BY KindsKept
<1>1. CASE UNCHANGED task
  BY <1>0, <1>1 DEF WInv
<1>2. ASSUME NEW t \in Task, NEW r, Become(t, r), NeverWakes(r) PROVE WInv'
  <2>1. \A u \in Task : task'[u] = IF u = t THEN r ELSE task[u]
    BY <1>2 DEF IInv, TypeOK, Become
  <2> QED
    BY <1>0, <1>2, <2>1 DEF WInv
<1>3. ASSUME NEW t \in Task, Aside(t) PROVE WInv'
  <2>1. NeverWakes(task[t])
    BY DEF WInv
  <2>2. PICK r : Become(t, r) /\ r.op \in {task[t].op, "apply"} /\ r.pc \notin {"wake", "awake"}
    BY <1>3, <2>1 DEF Aside
  <2> QED
    BY <1>2, <2>1, <2>2 DEF NeverWakes
<1>4. ASSUME NEW t \in Task, NEW e \in Event, NEW a, NEW env, NEW op, op # "wake",
             Claim(t, e) \/ Request(t, e, op, a, env)
      PROVE  WInv'
  <2>1. PICK r : /\ Become(t, r) /\ r.pc \in {"lock", "load"}
                 /\ r.op = events[e].kind \/ (Request(t, e, op, a, env) /\ r.op = op)
    BY <1>4, StartMove
  <2>2. events[e].kind # "wake"
    BY DEF WInv
  <2> QED
    BY <1>2, <1>4, <2>1, <2>2 DEF NeverWakes
<1>5. CASE Clients
  <2>1. ASSUME NEW e, NEW op, NEW a, Deliver(e, op, a) PROVE WInv'
    BY <1>1, <2>1 DEF Deliver
  <2>2. ASSUME NEW t \in Task, NEW e \in Event, NEW op, RequestOn(t, e, op) PROVE WInv'
    BY <1>4, <2>2 DEF RequestOn
  <2> QED
    BY <1>4, <1>5, <2>1, <2>2 DEF Clients, RequestApply, RequestRollback, Sweep
<1>6. CASE \E e \in Event : Elapse(e) \/ \E t \in Task : Claim(t, e)
  <2>1. ASSUME NEW e, Elapse(e) PROVE WInv'
    BY <1>1, <2>1 DEF Elapse
  <2> QED
    BY <1>4, <1>6, <2>1
<1>7. ASSUME NEW t \in Task, Working(t) PROVE WInv'
  <2>1. CASE \/ Deploy(t) \/ Health(t) \/ EnsureRecord(t) \/ EnsureCertificate(t)
             \/ InstallCertificate(t) \/ RecordDNSRow(t)
    <3>1. PICK r : Become(t, r) /\ r.pc \in {"failed"} \cup AttemptPc /\ r.op = task[t].op
      BY <2>1, AttemptMove
    <3> QED
      BY <1>2, <3>1 DEF WInv, NeverWakes, AttemptPc
  <2>2. CASE Load(t) \/ Lock(t) \/ Settle(t) \/ Unlock(t)
    BY <1>3, <2>2, OutsideAside
  <2>3. CASE Upsert(t) \/ Log(t) \/ MarkDeploying(t) \/ MarkReady(t) \/ MarkDegraded(t) \/ MarkFailed(t)
    BY <1>3, <2>3, ApplyAside
  <2>4. CASE Destroying(t) \/ Scaling(t)
    BY <1>3, <2>4, DestroyAside, ScaleAside
  <2> QED
    BY <1>7, <2>1, <2>2, <2>3, <2>4 DEF Working, Applying
<1>8. CASE Crash
  <2>1. \A t \in Task : NeverWakes(task'[t])
    BY <1>8 DEF Crash, Idle, NeverWakes
  <2> QED
    BY <1>0, <2>1 DEF WInv
<1>9. CASE TTLExpires \/ Rest \/ UNCHANGED vars
  BY <1>1, <1>9 DEF TTLExpires, Rest, vars
<1> QED
  BY <1>5, <1>6, <1>7, <1>8, <1>9 DEF Next

(* The status a write leaves is the old one or the one written. *)
LEMMA StatusWritten ==
  ASSUME IInv, NEW env \in Env, NEW s \in Status, NEW ok \in BOOLEAN,
         UpdateEnvironment([env EXCEPT !.status = s], ok)
  PROVE  row'.status \in {row.status, s}
<1>1. faults \in 0..MaxFaults
  BY DEF IInv, TypeOK
<1>2. row' \in {row, [env EXCEPT !.status = s]}
  BY <1>1, UpdateWrites
<1>3. [env EXCEPT !.status = s].status = s
  BY DEF Env
<1> QED
  BY <1>2, <1>3

(* deploying turns into ready only by MarkReady. *)
LEMMA ReadyOnlyByAttempt ==
  ASSUME IInv, WInv, [Next]_vars, row.status = "deploying", row'.status = "ready"
  PROVE  \E t \in Task : MarkReady(t)
<1>1. CASE UNCHANGED row
  BY <1>1
<1>2. CASE row'.status # "ready"
  BY <1>2
<1>3. CASE Clients \/ Crash \/ Rest \/ UNCHANGED vars
  BY <1>1, <1>3 DEF Clients, Deliver, Request, RequestApply, RequestRollback, RequestOn, Sweep,
     Crash, Rest, vars
<1>4. CASE TTLExpires
  <2>1. row \in Env
    BY DEF IInv, TypeOK
  <2>2. row'.status = row.status
    BY <1>4, <2>1 DEF TTLExpires, Env
  <2> QED
    BY <1>2, <2>2
<1>5. CASE \E e \in Event : Elapse(e) \/ \E t \in Task : Claim(t, e)
  BY <1>1, <1>5 DEF Elapse, Claim
<1>6. ASSUME NEW t \in Task, Working(t) PROVE \E u \in Task : MarkReady(u)
  <2> DEFINE r == task[t]
  <2>0. r \in TaskRec /\ r.env \in Env /\ row \in Env /\ r.pc \notin {"wake", "awake"}
    BY Actor DEF TaskRec, WInv, NeverWakes
  <2>1. CASE Load(t) \/ Lock(t) \/ Settle(t) \/ Unlock(t) \/ Log(t)
    BY <1>1, <2>1 DEF Load, Lock, Settle, Unlock, Log
  <2>2. CASE \/ Deploy(t) \/ Health(t) \/ EnsureRecord(t) \/ EnsureCertificate(t)
             \/ InstallCertificate(t) \/ RecordDNSRow(t)
    BY <1>1, <2>2 DEF Deploy, Health, EnsureRecord, EnsureCertificate, InstallCertificate, RecordDNSRow
  <2>3. CASE DeleteRecord(t) \/ DeleteDNSRow(t) \/ RevokeCertificate(t) \/ RemoveCertificate(t) \/ Undeploy(t)
    BY <1>1, <2>3 DEF DeleteRecord, DeleteDNSRow, RevokeCertificate, RemoveCertificate, Undeploy
  <2>4. CASE Upsert(t)
    <3>1. NewRow(r.art).status = "pending"
      BY DEF NewRow
    <3>2. row' \in {row, NewRow(r.art)}
      BY <2>4 DEF Upsert
    <3> QED
      BY <1>2, <3>1, <3>2
  <2>5. CASE MarkDeploying(t)
    <3> DEFINE env == [r.env EXCEPT !.ArtifactRef = r.art]
    <3>1. env \in Env
      BY <2>0 DEF TaskRec, Env
    <3>2. PICK ok \in BOOLEAN : UpdateEnvironment([env EXCEPT !.status = "deploying"], ok)
      BY <2>5 DEF MarkDeploying
    <3> HIDE DEF env
    <3>3. row'.status \in {row.status, "deploying"}
      BY <3>1, <3>2, StatusWritten DEF Status
    <3> QED
      BY <1>2, <3>3
  <2>6. CASE MarkReady(t)
    BY <2>6
  <2>7. CASE MarkDegraded(t)
    <3> DEFINE env == [r.env EXCEPT !.status = "degraded", !.ArtifactRef = r.art]
    <3>1. PICK ok \in BOOLEAN : UpdateEnvironment(env, ok)
      BY <2>7 DEF MarkDegraded
    <3>2. env.status = "degraded"
      BY <2>0 DEF Env
    <3>3. faults \in 0..MaxFaults
      BY DEF IInv, TypeOK
    <3> HIDE DEF env
    <3>4. row' \in {row, env}
      BY <3>1, <3>3, UpdateWrites
    <3> QED
      BY <1>2, <3>2, <3>4
  <2>8. CASE MarkFailed(t) \/ MarkDestroying(t) \/ MarkDestroyed(t) \/ MarkSleeping(t)
    <3>1. CASE UNCHANGED row
      BY <1>1, <3>1
    <3>2. CASE \E ok \in BOOLEAN, s \in {"failed", "destroying", "destroyed", "sleeping"} :
                 UpdateEnvironment([r.env EXCEPT !.status = s], ok)
      <4>1. row'.status \in {row.status, "failed", "destroying", "destroyed", "sleeping"}
        BY <2>0, <3>2, StatusWritten DEF Status
      <4> QED
        BY <1>2, <4>1
    <3> QED
      BY <2>8, <3>1, <3>2 DEF MarkFailed, MarkDestroying, MarkDestroyed, MarkSleeping, MarkScaled
  <2>9. CASE Sleep(t)
    BY <1>1, <2>9 DEF Sleep, Scale
  <2>10. CASE Wake(t) \/ MarkAwake(t)
    BY <2>0, <2>10 DEF Wake, Scale, MarkAwake, MarkScaled
  <2> QED
    BY <1>6, <2>1, <2>2, <2>3, <2>4, <2>5, <2>6, <2>7, <2>8, <2>9, <2>10
       DEF Working, Applying, Destroying, Scaling
<1> QED
  BY <1>3, <1>4, <1>5, <1>6 DEF Next

(* ... and then everything it stands for is there. *)
ReadyIsReal ==
  row.status = "deploying" /\ row'.status = "ready" =>
    /\ dep.mode = "up" /\ dep.art = row'.LastGood
    /\ dns = "owned" /\ cert = {"issued", "installed"} /\ dnsRow = "recorded"

LEMMA ReadyStep == IInv /\ AInv /\ WInv /\ [Next]_vars => ReadyIsReal
<1> SUFFICES ASSUME IInv, AInv, WInv, [Next]_vars, row.status = "deploying", row'.status = "ready"
             PROVE  /\ dep.mode = "up" /\ dep.art = row'.LastGood
                    /\ dns = "owned" /\ cert = {"issued", "installed"} /\ dnsRow = "recorded"
  BY DEF ReadyIsReal
<1>1. PICK t \in Task : MarkReady(t)
  BY ReadyOnlyByAttempt
<1> DEFINE r == task[t]
<1>2. /\ r \in TaskRec /\ r.env \in Env /\ Achieved(r, dep, dns, cert, dnsRow) /\ r.pc = "ready"
      /\ faults \in 0..MaxFaults /\ cert \subseteq {"issued", "installed"}
  BY <1>1, Actor DEF TaskRec, AInv, MarkReady
<1>3. /\ dep.art = Target(r) /\ dep.mode = "up" /\ dns = "owned" /\ dnsRow = "recorded"
      /\ "issued" \in cert /\ "installed" \in cert
  BY <1>2 DEF Achieved, Exposed
<1>4. PICK ok \in BOOLEAN : UpdateEnvironment(ReadyRow(r), ok)
  BY <1>1 DEF MarkReady
<1>5. row' = ReadyRow(r)
  BY <1>2, <1>4, UpdateWrites
<1>6. ReadyRow(r).LastGood = Target(r)
  BY <1>2 DEF ReadyRow, Env
<1>7. cert = {"issued", "installed"}
  BY <1>2, <1>3
<1> QED
  BY <1>3, <1>5, <1>6, <1>7

(* The whole of PublishedOnlyWhenUp when nobody asks for a wake: a row that  *)
(* was deploying becomes ready only when the new revision is up, its record  *)
(* is ours and its certificate is installed.  A wake with a stale copy of a  *)
(* sleeping row may write ready over deploying, which is why it is left out. *)
THEOREM PublishedWhenUp ==
  ASSUME "wake" \notin Ops
  PROVE  Spec => PublishedOnlyWhenUp
<1>1. Init => IInv /\ AInv /\ WInv
  <2>1. Init => \A e \in Event : events[e].kind # "wake"
    <3>1. NoEventRec.kind # "wake"
      BY DEF NoEventRec
    <3>2. Init => \A e \in Event : events[e] = NoEventRec
      BY DEF Init
    <3> QED
      BY <3>1, <3>2
  <2>2. Init => \A t \in Task : NeverWakes(task[t])
    <3>1. NeverWakes(Idle)
      BY DEF NeverWakes, Idle
    <3>2. Init => \A t \in Task : task[t] = Idle
      BY DEF Init
    <3> QED
      BY <3>1, <3>2
  <2> QED
    BY <2>1, <2>2, InitIInv, InitAchieved DEF WInv
<1>2. IInv /\ AInv /\ WInv /\ [Next]_vars => (IInv /\ AInv /\ WInv)'
  BY StepIInv, AchievedStep, WakelessStep
<1>3. IInv /\ AInv /\ WInv /\ [Next]_vars => PublicWhenUp /\ ReadyIsReal
  BY PublicStep, ReadyStep
<1> QED
  BY <1>1, <1>2, <1>3, PTL DEF Spec, PublishedOnlyWhenUp, PublicWhenUp, ReadyIsReal

-----------------------------------------------------------------------------
(* Unfinished work is remembered, when webhooks are the only source of work  *)
(* and leases outlast the work (LostApply shows why API requests are not     *)
(* covered).  A goroutine then works on an event of its own, which stays     *)
(* leased to it, and every path with an error keeps that error to the end.   *)
TeardownPc == LateTeardown \cup {"destroying", "deldns", "delrow"}
EndPc == {"unlock", "settle"}
HalfStatus == {"deploying", "destroying"}

(* What a goroutine that serves a webhook looks like. *)
Webhook(r) ==
  r.pc # "idle" =>
    /\ r.src = "inbox" /\ r.op \in {"push", "close"}
    /\ r.pc \in TeardownPc \cup {"load"} => r.op = "close"
    /\ r.pc \notin {"log", "sleep", "asleep", "wake", "awake"}
    /\ r.pc \in AttemptPc /\ r.try # 1 => r.err # "none"
    /\ r.pc \in {"degraded", "failed"} => r.err # "none"

(* Its event is leased to it and to nobody else. *)
Leased(t) ==
  task[t].pc # "idle" =>
    /\ events[task[t].ev].state = "waiting"
    /\ events[task[t].ev].kind = task[t].op
    /\ \A u \in Task \ {t} : task[u].pc # "idle" => task[u].ev # task[t].ev

FInv ==
  /\ \A e \in Event : events[e].kind \in {"", "push", "close"}
  /\ \A t \in Task : Webhook(task[t]) /\ Leased(t)

(* Event e, of this kind, is kept and nobody is about to mark it processed.  *)
Keeps(e, kind) ==
  /\ events[e].kind = kind
  /\ events[e].state \in Pending \cup Dead
  /\ \A t \in Task : task[t].ev = e /\ task[t].pc \in EndPc => task[t].err # "none"

JInv ==
  /\ row.status = "deploying"  => \E e \in Event : Keeps(e, "push")
  /\ row.status = "destroying" => \E e \in Event : Keeps(e, "close")

(* Goroutine t goes on with its event, as q; the store keeps the event.  It  *)
(* ends without an error only when the row is not left half way, and a row   *)
(* it leaves half way is so because of its own event.                        *)
GoesOn(t, q) ==
  /\ Become(t, q) /\ UNCHANGED events
  /\ task[t].pc # "idle" /\ q.pc # "idle" /\ q.ev = task[t].ev /\ q.op = task[t].op
  /\ Webhook(q)
  /\ q.pc \in EndPc /\ q.err = "none" =>
       \/ task[t].pc \in EndPc /\ task[t].err = "none"
       \/ row'.status \notin HalfStatus
  /\ \/ row'.status \in {row.status} \/ row'.status \notin HalfStatus
     \/ ~(q.pc \in EndPc /\ q.err = "none") /\ row'.status = "deploying" /\ q.op = "push"
     \/ ~(q.pc \in EndPc /\ q.err = "none") /\ row'.status = "destroying" /\ q.op = "close"

(* A witness other than a goroutine that just finished survives. *)
LEMMA KeepsOn ==
  ASSUME IInv, NEW t \in Task, NEW q, Become(t, q), NEW e \in Event, NEW kind, Keeps(e, kind),
         events'[e].kind = kind, events'[e].state \in Pending \cup Dead,
         q.ev = e /\ q.pc \in EndPc => q.err # "none"
  PROVE  Keeps(e, kind)'
<1>1. \A u \in Task : task'[u] = IF u = t THEN q ELSE task[u]
  BY DEF IInv, TypeOK, Become
<1> QED
  BY <1>1 DEF Keeps

LEMMA GoesOnKeeps ==
  ASSUME IInv, FInv, JInv, NEW t \in Task, NEW q, GoesOn(t, q)
  PROVE  FInv' /\ JInv'
<1> DEFINE r == task[t]
<1>1. \A u \in Task : task'[u] = IF u = t THEN q ELSE task[u]
  BY DEF IInv, TypeOK, Become, GoesOn
<1>2. r.pc # "idle" /\ q.pc # "idle" /\ q.ev = r.ev /\ q.op = r.op /\ events' = events /\ Webhook(q)
  BY DEF GoesOn
<1>3. r.ev \in Event /\ events[r.ev].state = "waiting" /\ events[r.ev].kind = r.op
      /\ \A u \in Task \ {t} : task[u].pc # "idle" => task[u].ev # r.ev
  BY <1>2, Actor DEF TaskOK, FInv, Leased
<1>4. FInv'
  <2>1. ASSUME NEW u \in Task PROVE Webhook(task'[u]) /\ Leased(u)'
    <3>1. CASE u = t
      BY <1>1, <1>2, <1>3, <3>1 DEF Leased
    <3>2. CASE u # t
      <4>1. Webhook(task[u]) /\ Leased(u) /\ task'[u] = task[u]
        BY <1>1, <3>2 DEF FInv
      <4>2. \A v \in Task : (task'[v].pc # "idle" <=> task[v].pc # "idle") /\ task'[v].ev = task[v].ev
        BY <1>1, <1>2
      <4> QED
        BY <1>2, <4>1, <4>2 DEF Leased
    <3> QED
      BY <3>1, <3>2
  <2> QED
    BY <1>2, <2>1 DEF FInv
<1>5. ASSUME NEW e \in Event, NEW kind, Keeps(e, kind), row'.status \in HalfStatus
      PROVE  Keeps(e, kind)'
  <2>1. q.ev = e /\ q.pc \in EndPc => q.err # "none"
    BY <1>2, <1>5 DEF GoesOn, Keeps
  <2>2. events'[e].kind = kind /\ events'[e].state \in Pending \cup Dead /\ Become(t, q)
    BY <1>2, <1>5 DEF Keeps, GoesOn
  <2> QED
    BY <1>5, <2>1, <2>2, KeepsOn
<1>6. ASSUME ~(q.pc \in EndPc /\ q.err = "none") PROVE Keeps(q.ev, q.op)'
  <2>1. \A u \in Task : task'[u].ev = r.ev /\ task'[u].pc \in EndPc => u = t
    BY <1>1, <1>3 DEF EndPc
  <2> QED
    BY <1>1, <1>2, <1>3, <1>6, <2>1 DEF Keeps, Pending
<1>7. CASE row'.status \notin HalfStatus
  BY <1>4, <1>7 DEF JInv, HalfStatus
<1>8. CASE row'.status \in HalfStatus /\ row'.status = row.status
  <2>1. CASE row.status = "deploying"
    <3>1. PICK e \in Event : Keeps(e, "push")
      BY <2>1 DEF JInv
    <3> QED
      BY <1>4, <1>5, <1>8, <2>1, <3>1 DEF JInv
  <2>2. CASE row.status = "destroying"
    <3>1. PICK e \in Event : Keeps(e, "close")
      BY <2>2 DEF JInv
    <3> QED
      BY <1>4, <1>5, <1>8, <2>2, <3>1 DEF JInv
  <2> QED
    BY <1>8, <2>1, <2>2 DEF HalfStatus
<1>9. CASE ~(q.pc \in EndPc /\ q.err = "none") /\ row'.status = "deploying" /\ q.op = "push"
  BY <1>2, <1>3, <1>4, <1>6, <1>9 DEF JInv
<1>10. CASE ~(q.pc \in EndPc /\ q.err = "none") /\ row'.status = "destroying" /\ q.op = "close"
  BY <1>2, <1>3, <1>4, <1>6, <1>10 DEF JInv
<1> QED
  BY <1>7, <1>8, <1>9, <1>10 DEF GoesOn

(* A goroutine of a webhook that is at work. *)
LEMMA WebhookActor ==
  ASSUME IInv, FInv, NEW t \in Task, task[t].pc # "idle"
  PROVE  /\ task[t] \in TaskRec /\ task[t].env \in Env /\ row \in Env /\ faults \in 0..MaxFaults
         /\ task[t].src = "inbox" /\ task[t].op \in {"push", "close"}
         /\ task[t].pc \in TeardownPc \cup {"load"} => task[t].op = "close"
         /\ task[t].pc \notin {"log", "sleep", "asleep", "wake", "awake"}
         /\ task[t].pc \in AttemptPc /\ task[t].try # 1 => task[t].err # "none"
         /\ task[t].pc \in {"degraded", "failed"} => task[t].err # "none"
         /\ task[t].pc \in ApplyPc => task[t].op = "push"
<1>1. task[t] \in TaskRec /\ row \in Env /\ faults \in 0..MaxFaults /\ TaskOK(task[t])
  BY Actor
<1>2. task[t].env \in Env
  BY <1>1 DEF TaskRec
<1>3. Webhook(task[t])
  BY DEF FInv
<1> QED
  BY <1>1, <1>2, <1>3 DEF Webhook, TaskOK

(* The pcs, apart. *)
LEMMA Pcs ==
  /\ AttemptPc \cap (TeardownPc \cup EndPc \cup {"idle", "load", "lock", "upsert", "deploying",
                                                 "degraded", "failed", "log", "sleep", "asleep", "wake", "awake"}) = {}
  /\ TeardownPc \cap (EndPc \cup {"idle", "load", "lock", "upsert", "deploying", "degraded", "failed",
                                  "log", "sleep", "asleep", "wake", "awake"}) = {}
  /\ EndPc = {"unlock", "settle"}
  BY DEF AttemptPc, TeardownPc, LateTeardown, EndPc

(* A failed attempt keeps its error. *)
LEMMA FailedWebhook ==
  ASSUME NEW r \in TaskRec, NEW env, NEW err \in {"transient", "terminal"},
         r.pc \in AttemptPc, Webhook(r), r.op = "push"
  PROVE  LET q == AttemptFailed(r, env, err) IN
           /\ q.pc \in {"deploy", "failed"} /\ q.ev = r.ev /\ q.op = r.op /\ Webhook(q)
<1> DEFINE q == AttemptFailed(r, env, err)
<1>0. r.src = "inbox" /\ (r.try # 1 => r.err # "none")
  BY Pcs DEF Webhook, AttemptPc
<1>1. RollingBack(r) => r.try # 1
  BY ReconcilerAssumption DEF RollingBack
<1>2. /\ q.pc \in {"deploy", "failed"} /\ q.ev = r.ev /\ q.op = r.op /\ q.src = r.src
      /\ q.err = IF RollingBack(r) THEN r.err ELSE err
  BY DEF AttemptFailed, TaskRec
<1>3. q.err # "none"
  BY <1>0, <1>1, <1>2
<1> QED
  BY <1>0, <1>2, <1>3 DEF Webhook, TeardownPc, LateTeardown

(* Ending an operation, failing a teardown step, and moving on. *)
LEMMA OverWebhook ==
  ASSUME NEW r \in TaskRec, NEW err, r.pc # "idle", Webhook(r)
  PROVE  LET q == Over(r, err) IN
           q.pc \in EndPc /\ q.ev = r.ev /\ q.op = r.op /\ q.err = err /\ Webhook(q)
<1>1. LET q == Over(r, err) IN
        q.pc \in EndPc /\ q.ev = r.ev /\ q.op = r.op /\ q.err = err /\ q.src = r.src
  BY DEF Over, TaskRec, EndPc
<1> QED
  BY <1>1 DEF Webhook, EndPc, TeardownPc, LateTeardown, AttemptPc

LEMMA TeardownWebhook ==
  ASSUME NEW r \in TaskRec, NEW p \in TeardownPc, r.pc # "idle", Webhook(r), r.op = "close",
         NEW q, q.pc = p, q.ev = r.ev, q.op = r.op, q.src = r.src
  PROVE  Webhook(q)
<1>1. p \notin AttemptPc \cup {"idle", "degraded", "failed", "log", "sleep", "asleep", "wake", "awake"}
  BY DEF TeardownPc, LateTeardown, AttemptPc
<1> QED
  BY <1>1 DEF Webhook

(* A step that writes no row. *)
LEMMA PlainOn ==
  ASSUME IInv, FInv, JInv, NEW t \in Task, NEW q, Become(t, q), UNCHANGED <<row, events>>,
         task[t].pc # "idle", q.pc # "idle", q.ev = task[t].ev, q.op = task[t].op, Webhook(q),
         q.pc \in EndPc /\ q.err = "none" =>
           (task[t].pc \in EndPc /\ task[t].err = "none") \/ row.status \notin HalfStatus
  PROVE  FInv' /\ JInv'
  BY GoesOnKeeps DEF GoesOn

LEMMA AttemptRemembers ==
  ASSUME IInv, FInv, JInv, NEW t \in Task,
         \/ Deploy(t) \/ Health(t) \/ EnsureRecord(t) \/ EnsureCertificate(t)
         \/ InstallCertificate(t) \/ RecordDNSRow(t)
  PROVE  FInv' /\ JInv'
<1> DEFINE r == task[t]
<1>0. r.pc \in AttemptPc /\ r.pc # "idle" /\ UNCHANGED <<row, events>>
  BY DEF AttemptPc, Deploy, Health, EnsureRecord, EnsureCertificate, InstallCertificate, RecordDNSRow
<1>1. r \in TaskRec /\ Webhook(r) /\ r.op = "push" /\ r.src = "inbox"
      /\ (r.try # 1 => r.err # "none")
  BY <1>0, WebhookActor DEF FInv, ApplyPc
<1>2. ASSUME NEW err \in {"transient", "terminal"}, Become(t, AttemptFailed(r, r.env, err))
      PROVE  FInv' /\ JInv'
  <2> DEFINE q == AttemptFailed(r, r.env, err)
  <2>1. q.pc \in {"deploy", "failed"} /\ q.ev = r.ev /\ q.op = r.op /\ Webhook(q)
    BY <1>0, <1>1, FailedWebhook
  <2>2. q.pc \notin EndPc /\ q.pc # "idle"
    BY <2>1 DEF EndPc
  <2> HIDE DEF q
  <2> QED
    BY <1>0, <1>2, <2>1, <2>2, PlainOn DEF q
<1>3. ASSUME NEW p \in AttemptPc, Goto(t, p) PROVE FInv' /\ JInv'
  <2> DEFINE q == [r EXCEPT !.pc = p]
  <2>1. q.pc = p /\ q.ev = r.ev /\ q.op = r.op /\ q.src = r.src /\ q.try = r.try /\ q.err = r.err
    BY <1>1 DEF TaskRec
  <2>2. q.pc \notin EndPc /\ q.pc # "idle" /\ Webhook(q)
    BY <1>1, <2>1, Pcs DEF Webhook
  <2>3. Become(t, q)
    BY <1>3 DEF Goto
  <2> HIDE DEF q
  <2> QED
    BY <1>0, <2>1, <2>2, <2>3, PlainOn
<1>4. {"health", "dns", "cert", "install", "record", "ready"} \subseteq AttemptPc
  BY DEF AttemptPc
<1> QED
  BY <1>2, <1>3, <1>4 DEF Deploy, Health, EnsureRecord, EnsureCertificate, InstallCertificate, RecordDNSRow

LEMMA OutsideRemembers ==
  ASSUME IInv, FInv, JInv, NEW t \in Task, Load(t) \/ Lock(t) \/ Unlock(t)
  PROVE  FInv' /\ JInv'
<1> DEFINE r == task[t]
<1>0. r.pc \in {"load", "lock", "unlock"} /\ r.pc # "idle" /\ UNCHANGED <<row, events>>
  BY DEF Load, Lock, Unlock
<1>1. r \in TaskRec /\ Webhook(r) /\ r.op \in {"push", "close"} /\ r.src = "inbox"
      /\ (r.pc = "load" => r.op = "close")
  BY <1>0, WebhookActor DEF FInv
<1>2. CASE Load(t)
  <2>1. PICK ok \in BOOLEAN :
          Become(t, IF ok /\ row.id # ""
                    THEN [r EXCEPT !.pc = "lock", !.env = row]
                    ELSE [r EXCEPT !.pc = "settle",
                            !.err = IF ~ok THEN "transient"
                                    ELSE IF r.op = "close" THEN "none" ELSE "terminal"])
    BY <1>2 DEF Load
  <2>2. CASE ok /\ row.id # ""
    <3> DEFINE q == [r EXCEPT !.pc = "lock", !.env = row]
    <3>1. q.pc = "lock" /\ q.ev = r.ev /\ q.op = r.op /\ q.src = r.src
      BY <1>1 DEF TaskRec
    <3>2. q.pc \notin EndPc /\ q.pc # "idle" /\ Webhook(q)
      BY <1>1, <3>1, Pcs DEF Webhook
    <3>3. Become(t, q)
      BY <2>1, <2>2
    <3> HIDE DEF q
    <3> QED
      BY <1>0, <3>1, <3>2, <3>3, PlainOn
  <2>3. CASE ~(ok /\ row.id # "")
    <3> DEFINE er == IF ~ok THEN "transient" ELSE IF r.op = "close" THEN "none" ELSE "terminal"
               q == [r EXCEPT !.pc = "settle", !.err = er]
    <3>1. q.pc = "settle" /\ q.ev = r.ev /\ q.op = r.op /\ q.src = r.src /\ q.err = er
      BY <1>1 DEF TaskRec
    <3>2. q.pc # "idle" /\ Webhook(q)
      BY <1>1, <3>1, Pcs DEF Webhook
    <3>3. Become(t, q)
      BY <2>1, <2>3
    <3>4. q.err = "none" => row.status \notin HalfStatus
      <4>1. q.err = "none" => ok
        BY <3>1
      <4>2. row.id = "" => row.status = ""
        BY Actor DEF RowOK
      <4> QED
        BY <2>3, <4>1, <4>2 DEF HalfStatus
    <3> HIDE DEF q, er
    <3> QED
      BY <1>0, <3>1, <3>2, <3>3, <3>4, PlainOn
  <2> QED
    BY <2>2, <2>3
<1>3. CASE Lock(t)
  <2> DEFINE q == [r EXCEPT !.pc = Entry(r)]
  <2>1. Entry(r) = IF r.op = "push" THEN "upsert" ELSE "destroying"
    BY <1>1 DEF Entry
  <2>2. q.pc = Entry(r) /\ q.ev = r.ev /\ q.op = r.op /\ q.src = r.src
    BY <1>1 DEF TaskRec
  <2>3. q.pc \notin EndPc /\ q.pc # "idle" /\ Webhook(q)
    BY <1>1, <2>1, <2>2 DEF Webhook, EndPc, TeardownPc, LateTeardown, AttemptPc
  <2>4. Become(t, q)
    BY <1>3 DEF Lock, Goto
  <2> HIDE DEF q
  <2> QED
    BY <1>0, <2>2, <2>3, <2>4, PlainOn
<1>4. CASE Unlock(t)
  <2> DEFINE q == [r EXCEPT !.pc = "settle"]
  <2>1. q.pc = "settle" /\ q.ev = r.ev /\ q.op = r.op /\ q.src = r.src /\ q.err = r.err
    BY <1>1 DEF TaskRec
  <2>2. q.pc # "idle" /\ Webhook(q)
    BY <1>1, <2>1, Pcs DEF Webhook
  <2>3. Become(t, q) /\ r.pc \in EndPc
    BY <1>1, <1>4 DEF Unlock, EndPc
  <2> HIDE DEF q
  <2> QED
    BY <1>0, <2>1, <2>2, <2>3, PlainOn
<1> QED
  BY <1>2, <1>3, <1>4

LEMMA TeardownRemembers ==
  ASSUME IInv, FInv, JInv, NEW t \in Task,
         \/ DeleteRecord(t) \/ DeleteDNSRow(t) \/ RevokeCertificate(t)
         \/ RemoveCertificate(t) \/ Undeploy(t)
  PROVE  FInv' /\ JInv'
<1> DEFINE r == task[t]
<1>0. r.pc \in TeardownPc /\ r.pc # "idle" /\ UNCHANGED <<row, events>>
  BY DEF TeardownPc, LateTeardown, DeleteRecord, DeleteDNSRow, RevokeCertificate, RemoveCertificate, Undeploy
<1>1. r \in TaskRec /\ Webhook(r) /\ r.op = "close"
  BY <1>0, WebhookActor DEF FInv
<1>2. ASSUME NEW p \in TeardownPc, NEW err, Become(t, StepFailed(r, p, err)) PROVE FInv' /\ JInv'
  <2> DEFINE q == StepFailed(r, p, err)
  <2>0. q.pc = p /\ q.ev = r.ev /\ q.op = r.op /\ q.src = r.src
    BY <1>1 DEF StepFailed, TaskRec
  <2> HIDE DEF q
  <2>1. q.pc = p /\ q.ev = r.ev /\ q.op = r.op /\ Webhook(q)
    BY <1>0, <1>1, <2>0, TeardownWebhook
  <2>2. q.pc \notin EndPc /\ q.pc # "idle"
    BY <2>1, Pcs
  <2> QED
    BY <1>0, <1>2, <2>1, <2>2, PlainOn DEF q
<1>3. ASSUME NEW p \in TeardownPc, Goto(t, p) PROVE FInv' /\ JInv'
  <2> DEFINE q == [r EXCEPT !.pc = p]
  <2>0. q.pc = p /\ q.ev = r.ev /\ q.op = r.op /\ q.src = r.src /\ Become(t, q)
    BY <1>1, <1>3 DEF TaskRec, Goto
  <2> HIDE DEF q
  <2>1. q.pc = p /\ q.ev = r.ev /\ q.op = r.op /\ Webhook(q)
    BY <1>0, <1>1, <2>0, TeardownWebhook
  <2>2. q.pc \notin EndPc /\ q.pc # "idle" /\ Become(t, q)
    BY <2>0, <2>1, Pcs
  <2> QED
    BY <1>0, <2>1, <2>2, PlainOn
<1>4. {"revoke", "remove", "undeploy", "destroyed", "delrow"} \subseteq TeardownPc
  BY DEF TeardownPc, LateTeardown
<1>5. CASE DeleteRecord(t) \/ DeleteDNSRow(t)
  BY <1>2, <1>3, <1>4, <1>5 DEF DeleteRecord, DeleteDNSRow
<1>6. CASE RevokeCertificate(t) \/ RemoveCertificate(t) \/ Undeploy(t)
  BY <1>2, <1>3, <1>4, <1>6 DEF RevokeCertificate, RemoveCertificate, Undeploy
<1> QED
  BY <1>5, <1>6

LEMMA UpsertRemembers ==
  ASSUME IInv, FInv, JInv, NEW t \in Task, Upsert(t) PROVE FInv' /\ JInv'
<1> DEFINE r == task[t]
           env == IF row.id = "" THEN NewRow(r.art) ELSE row
<1>0. r.pc = "upsert" /\ r.pc # "idle" /\ UNCHANGED events
  BY DEF Upsert
<1>1. r \in TaskRec /\ Webhook(r) /\ r.op = "push" /\ r.src = "inbox"
  BY <1>0, WebhookActor DEF FInv, ApplyPc
<1>2. CASE row' = env /\ Become(t, [r EXCEPT !.env = env, !.pc = "deploying"])
  <2> DEFINE q == [r EXCEPT !.env = env, !.pc = "deploying"]
  <2>1. q.pc = "deploying" /\ q.ev = r.ev /\ q.op = r.op /\ q.src = r.src
    BY <1>1 DEF TaskRec
  <2>2. q.pc \notin EndPc /\ q.pc # "idle" /\ Webhook(q)
    BY <1>1, <2>1, Pcs DEF Webhook
  <2>3. row' = row \/ row'.status \notin HalfStatus
    BY <1>2 DEF NewRow, HalfStatus
  <2>4. Become(t, q)
    BY <1>2
  <2> HIDE DEF q
  <2>5. GoesOn(t, q)
    BY <1>0, <2>1, <2>2, <2>3, <2>4 DEF GoesOn
  <2> QED
    BY <2>5, GoesOnKeeps
<1>3. CASE row' = row /\ Become(t, [r EXCEPT !.pc = "unlock", !.err = "transient"])
  <2> DEFINE q == [r EXCEPT !.pc = "unlock", !.err = "transient"]
  <2>1. q.pc = "unlock" /\ q.ev = r.ev /\ q.op = r.op /\ q.src = r.src /\ q.err = "transient"
    BY <1>1 DEF TaskRec
  <2>2. q.pc # "idle" /\ Webhook(q)
    BY <1>1, <2>1, Pcs DEF Webhook
  <2>3. Become(t, q)
    BY <1>3
  <2> HIDE DEF q
  <2> QED
    BY <1>0, <1>3, <2>1, <2>2, <2>3, PlainOn
<1> QED
  BY <1>1, <1>2, <1>3 DEF Upsert

(* What a write of status s leaves behind. *)
LEMMA HalfWritten ==
  ASSUME IInv, NEW env, NEW ok \in BOOLEAN, UpdateEnvironment(env, ok)
  PROVE  /\ row'.status \in {row.status, env.status}
         /\ ok => row'.status = env.status
<1>1. faults \in 0..MaxFaults
  BY DEF IInv, TypeOK
<1> QED
  BY <1>1, UpdateWrites

LEMMA MarkDeployingRemembers ==
  ASSUME IInv, FInv, JInv, NEW t \in Task, MarkDeploying(t) PROVE FInv' /\ JInv'
<1> DEFINE r == task[t]
           env == [r.env EXCEPT !.ArtifactRef = r.art, !.status = "deploying"]
<1>0. r.pc = "deploying" /\ r.pc # "idle" /\ UNCHANGED events
  BY DEF MarkDeploying
<1>1. r \in TaskRec /\ r.env \in Env /\ Webhook(r) /\ r.op = "push" /\ r.src = "inbox"
  BY <1>0, WebhookActor DEF FInv, ApplyPc
<1>2. PICK ok \in BOOLEAN :
        /\ UpdateEnvironment(env, ok)
        /\ Become(t, IF ok THEN [r EXCEPT !.pc = "deploy", !.env = env, !.try = 1]
                           ELSE Over(r, "transient"))
  BY DEF MarkDeploying
<1>3. env.status = "deploying"
  BY <1>1 DEF Env
<1>4. row'.status \in {row.status, "deploying"}
  <2> HIDE DEF env
  <2> QED
    BY <1>2, <1>3, HalfWritten
<1>5. ASSUME NEW q, Become(t, q), q.pc # "idle", q.ev = r.ev, q.op = r.op, Webhook(q),
             q.pc \in EndPc => q.err # "none"
      PROVE  FInv' /\ JInv'
  <2>1. GoesOn(t, q)
    BY <1>0, <1>1, <1>4, <1>5 DEF GoesOn
  <2> QED
    BY <2>1, GoesOnKeeps
<1>6. CASE ok
  <2> DEFINE q == [r EXCEPT !.pc = "deploy", !.env = env, !.try = 1]
  <2>1. q.pc = "deploy" /\ q.ev = r.ev /\ q.op = r.op /\ q.src = r.src /\ q.try = 1
    BY <1>1 DEF TaskRec
  <2>2. q.pc \notin EndPc /\ q.pc # "idle" /\ Webhook(q)
    BY <1>1, <2>1 DEF Webhook, EndPc, TeardownPc, LateTeardown
  <2>3. Become(t, q)
    BY <1>2, <1>6
  <2> HIDE DEF q
  <2> QED
    BY <1>5, <2>1, <2>2, <2>3
<1>7. CASE ~ok
  <2> DEFINE q == Over(r, "transient")
  <2>1. q.pc \in EndPc /\ q.ev = r.ev /\ q.op = r.op /\ q.err = "transient" /\ Webhook(q)
    BY <1>0, <1>1, OverWebhook
  <2>2. Become(t, q)
    BY <1>2, <1>7
  <2> HIDE DEF q
  <2> QED
    BY <1>5, <2>1, <2>2 DEF EndPc
<1> QED
  BY <1>6, <1>7

LEMMA MarkReadyRemembers ==
  ASSUME IInv, FInv, JInv, NEW t \in Task, MarkReady(t) PROVE FInv' /\ JInv'
<1> DEFINE r == task[t]
           env == ReadyRow(r)
<1>0. r.pc = "ready" /\ r.pc # "idle" /\ r.pc \in AttemptPc /\ UNCHANGED events
  BY DEF MarkReady, AttemptPc
<1>1. r \in TaskRec /\ r.env \in Env /\ Webhook(r) /\ r.op = "push" /\ r.src = "inbox"
      /\ (r.try # 1 => r.err # "none")
  BY <1>0, WebhookActor DEF FInv, ApplyPc
<1>2. PICK ok \in BOOLEAN :
        /\ UpdateEnvironment(env, ok)
        /\ Become(t, IF ~ok THEN AttemptFailed(r, NoEnv, "transient")
                     ELSE IF RollingBack(r) THEN [r EXCEPT !.pc = "degraded", !.env = env]
                     ELSE Over([r EXCEPT !.env = env], "none"))
  BY DEF MarkReady
<1>3. env.status = "ready"
  BY <1>1 DEF Env, ReadyRow
<1>4. row'.status \in {row.status, "ready"} /\ (ok => row'.status = "ready")
  <2> HIDE DEF env
  <2> QED
    BY <1>2, <1>3, HalfWritten
<1>5. ASSUME NEW q, Become(t, q), q.pc # "idle", q.ev = r.ev, q.op = r.op, Webhook(q),
             q.pc \in EndPc => row'.status = "ready"
      PROVE  FInv' /\ JInv'
  <2>1. GoesOn(t, q)
    BY <1>0, <1>1, <1>4, <1>5 DEF GoesOn, HalfStatus
  <2> QED
    BY <2>1, GoesOnKeeps
<1>6. CASE ~ok
  <2> DEFINE q == AttemptFailed(r, NoEnv, "transient")
  <2>1. q.pc \in {"deploy", "failed"} /\ q.ev = r.ev /\ q.op = r.op /\ Webhook(q)
    BY <1>0, <1>1, FailedWebhook
  <2>2. Become(t, q)
    BY <1>2, <1>6
  <2> HIDE DEF q
  <2> QED
    BY <1>5, <2>1, <2>2 DEF EndPc
<1>7. CASE ok /\ RollingBack(r)
  <2> DEFINE q == [r EXCEPT !.pc = "degraded", !.env = env]
  <2>1. q.pc = "degraded" /\ q.ev = r.ev /\ q.op = r.op /\ q.src = r.src /\ q.err = r.err
    BY <1>1 DEF TaskRec
  <2>2. r.try # 1
    BY <1>7, ReconcilerAssumption DEF RollingBack
  <2>3. q.pc \notin EndPc /\ q.pc # "idle" /\ Webhook(q)
    BY <1>1, <2>1, <2>2, Pcs DEF Webhook
  <2>4. Become(t, q)
    BY <1>2, <1>7
  <2> HIDE DEF q
  <2> QED
    BY <1>5, <2>1, <2>3, <2>4
<1>8. CASE ok /\ ~RollingBack(r)
  <2> DEFINE q == Over([r EXCEPT !.env = env], "none")
  <2>1. q.pc \in EndPc /\ q.ev = r.ev /\ q.op = r.op /\ q.src = r.src
    BY <1>1 DEF TaskRec, Over, EndPc
  <2>2. q.pc # "idle" /\ Webhook(q)
    BY <1>1, <2>1, Pcs DEF Webhook, EndPc
  <2>3. Become(t, q)
    BY <1>2, <1>8
  <2> HIDE DEF q
  <2> QED
    BY <1>4, <1>5, <1>8, <2>1, <2>2, <2>3
<1> QED
  BY <1>6, <1>7, <1>8

(* The last writes of an apply that failed. *)
LEMMA MarkFailedRemembers ==
  ASSUME IInv, FInv, JInv, NEW t \in Task, MarkDegraded(t) \/ MarkFailed(t) PROVE FInv' /\ JInv'
<1> DEFINE r == task[t]
<1>0. r.pc \in {"degraded", "failed"} /\ r.pc # "idle" /\ UNCHANGED events
      /\ Become(t, Over(r, r.err))
  BY DEF MarkDegraded, MarkFailed
<1>1. r \in TaskRec /\ r.env \in Env /\ Webhook(r) /\ r.err # "none"
  BY <1>0, WebhookActor DEF FInv
<1>2. row'.status \in {row.status, "degraded", "failed"}
  <2>1. CASE MarkDegraded(t)
    <3> DEFINE env == [r.env EXCEPT !.status = "degraded", !.ArtifactRef = r.art]
    <3>1. PICK ok \in BOOLEAN : UpdateEnvironment(env, ok)
      BY <2>1 DEF MarkDegraded
    <3>2. env.status = "degraded"
      BY <1>1 DEF Env
    <3> HIDE DEF env
    <3> QED
      BY <3>1, <3>2, HalfWritten
  <2>2. CASE MarkFailed(t)
    <3> DEFINE env == [r.env EXCEPT !.status = "failed"]
    <3>1. PICK ok \in BOOLEAN : UpdateEnvironment(env, ok)
      BY <2>2 DEF MarkFailed
    <3>2. env.status = "failed"
      BY <1>1 DEF Env
    <3> HIDE DEF env
    <3> QED
      BY <3>1, <3>2, HalfWritten
  <2> QED
    BY <2>1, <2>2
<1> DEFINE q == Over(r, r.err)
<1>3. q.pc \in EndPc /\ q.ev = r.ev /\ q.op = r.op /\ q.err = r.err /\ Webhook(q)
  BY <1>0, <1>1, OverWebhook
<1>4. Become(t, q)
  BY <1>0
<1> HIDE DEF q
<1>5. GoesOn(t, q)
  BY <1>0, <1>1, <1>2, <1>3, <1>4 DEF GoesOn, HalfStatus, EndPc
<1> QED
  BY <1>5, GoesOnKeeps

LEMMA MarkDestroyingRemembers ==
  ASSUME IInv, FInv, JInv, NEW t \in Task, MarkDestroying(t) PROVE FInv' /\ JInv'
<1> DEFINE r == task[t]
           env == [r.env EXCEPT !.status = "destroying"]
<1>0. r.pc = "destroying" /\ r.pc # "idle" /\ r.pc \in TeardownPc /\ "deldns" \in TeardownPc
      /\ UNCHANGED events
  BY DEF MarkDestroying, TeardownPc
<1>1. r \in TaskRec /\ r.env \in Env /\ Webhook(r) /\ r.op = "close" /\ r.src = "inbox"
  BY <1>0, WebhookActor DEF FInv
<1>3. env.status = "destroying"
  BY <1>1 DEF Env
<1>5. ASSUME NEW q, Become(t, q), q.pc # "idle", q.ev = r.ev, q.op = r.op, Webhook(q),
             q.pc \in EndPc => q.err # "none", row'.status \in {row.status, "destroying"}
      PROVE  FInv' /\ JInv'
  <2>1. GoesOn(t, q)
    BY <1>0, <1>1, <1>5 DEF GoesOn
  <2> QED
    BY <2>1, GoesOnKeeps
<1>6. ASSUME NEW q, Become(t, q), q.pc = "deldns", q.ev = r.ev, q.op = r.op, q.src = r.src,
             row'.status \in {row.status, "destroying"}
      PROVE  FInv' /\ JInv'
  <2>1. Webhook(q)
    BY <1>0, <1>1, <1>6, TeardownWebhook
  <2> QED
    BY <1>5, <1>6, <2>1 DEF EndPc
<1>7. CASE row' = row /\ Goto(t, "deldns")
  <2> DEFINE q == [r EXCEPT !.pc = "deldns"]
  <2>1. q.pc = "deldns" /\ q.ev = r.ev /\ q.op = r.op /\ q.src = r.src /\ Become(t, q)
    BY <1>1, <1>7 DEF TaskRec, Goto
  <2> HIDE DEF q
  <2> QED
    BY <1>6, <1>7, <2>1
<1>8. CASE \E ok \in BOOLEAN :
             /\ UpdateEnvironment(env, ok)
             /\ Become(t, IF ok THEN [r EXCEPT !.pc = "deldns", !.env = env]
                                ELSE [r EXCEPT !.pc = "unlock", !.err = "transient"])
  <2>1. PICK ok \in BOOLEAN :
             /\ UpdateEnvironment(env, ok)
             /\ Become(t, IF ok THEN [r EXCEPT !.pc = "deldns", !.env = env]
                                ELSE [r EXCEPT !.pc = "unlock", !.err = "transient"])
    BY <1>8
  <2>2. row'.status \in {row.status, "destroying"}
    <3> HIDE DEF env
    <3> QED
      BY <1>3, <2>1, HalfWritten
  <2>3. CASE ok
    <3> DEFINE q == [r EXCEPT !.pc = "deldns", !.env = env]
    <3>1. q.pc = "deldns" /\ q.ev = r.ev /\ q.op = r.op /\ q.src = r.src
      BY <1>1 DEF TaskRec
    <3>2. Become(t, q)
      BY <2>1, <2>3
    <3> HIDE DEF q
    <3> QED
      BY <1>6, <2>2, <3>1, <3>2
  <2>4. CASE ~ok
    <3> DEFINE q == [r EXCEPT !.pc = "unlock", !.err = "transient"]
    <3>1. q.pc = "unlock" /\ q.ev = r.ev /\ q.op = r.op /\ q.src = r.src /\ q.err = "transient"
      BY <1>1 DEF TaskRec
    <3>2. q.pc # "idle" /\ Webhook(q)
      BY <1>1, <3>1, Pcs DEF Webhook
    <3>3. Become(t, q)
      BY <2>1, <2>4
    <3> HIDE DEF q
    <3> QED
      BY <1>5, <2>2, <3>1, <3>2, <3>3
  <2> QED
    BY <2>3, <2>4
<1> QED
  BY <1>7, <1>8 DEF MarkDestroying

LEMMA MarkDestroyedRemembers ==
  ASSUME IInv, FInv, JInv, NEW t \in Task, MarkDestroyed(t) PROVE FInv' /\ JInv'
<1> DEFINE r == task[t]
           env == [r.env EXCEPT !.status = "destroyed"]
<1>0. r.pc = "destroyed" /\ r.pc # "idle" /\ UNCHANGED events
  BY DEF MarkDestroyed
<1>1. r \in TaskRec /\ r.env \in Env /\ Webhook(r)
  BY <1>0, WebhookActor DEF FInv
<1>2. env.status = "destroyed"
  BY <1>1 DEF Env
<1>3. ASSUME NEW err, Become(t, Over(r, err)), row'.status \in {row.status, "destroyed"},
             err = "none" => row'.status = "destroyed"
      PROVE  FInv' /\ JInv'
  <2> DEFINE q == Over(r, err)
  <2>1. q.pc \in EndPc /\ q.ev = r.ev /\ q.op = r.op /\ q.err = err /\ Webhook(q)
    BY <1>0, <1>1, OverWebhook
  <2>2. Become(t, q)
    BY <1>3
  <2> HIDE DEF q
  <2>3. GoesOn(t, q)
    BY <1>0, <1>3, <2>1, <2>2 DEF GoesOn, HalfStatus, EndPc
  <2> QED
    BY <2>3, GoesOnKeeps
<1>4. CASE r.err # "none" /\ Become(t, Over(r, r.err)) /\ row' = row
  BY <1>3, <1>4
<1>5. CASE \E ok \in BOOLEAN : UpdateEnvironment(env, ok)
                               /\ Become(t, Over(r, IF ok THEN "none" ELSE "transient"))
  <2>1. PICK ok \in BOOLEAN : UpdateEnvironment(env, ok)
                              /\ Become(t, Over(r, IF ok THEN "none" ELSE "transient"))
    BY <1>5
  <2>2. row'.status \in {row.status, "destroyed"} /\ (ok => row'.status = "destroyed")
    <3> HIDE DEF env
    <3> QED
      BY <1>2, <2>1, HalfWritten
  <2>3. CASE ok
    BY <1>3, <2>1, <2>2, <2>3
  <2>4. CASE ~ok
    BY <1>3, <2>1, <2>2, <2>4
  <2> QED
    BY <2>3, <2>4
<1> QED
  BY <1>4, <1>5 DEF MarkDestroyed

LEMMA SettleRemembers ==
  ASSUME IInv, FInv, JInv, NEW t \in Task, Settle(t) PROVE FInv' /\ JInv'
<1> DEFINE r == task[t]
           z == events[r.ev]
<1>0. r.pc = "settle" /\ r.pc # "idle" /\ row' = row
  BY DEF Settle
<1>1. r \in TaskRec /\ r.src = "inbox"
  BY <1>0, WebhookActor
<1>2. /\ r.ev \in Event /\ z \in EventRec /\ z.state = "waiting" /\ z.kind \in {"", "push", "close"}
      /\ \A u \in Task \ {t} : task[u].pc # "idle" => task[u].ev # r.ev
  BY <1>0, Actor DEF TaskOK, FInv, Leased
<1>3. Become(t, Idle) /\ Idle.pc = "idle"
  BY <1>1 DEF Settle, Idle
<1>4. \A u \in Task : task'[u] = IF u = t THEN Idle ELSE task[u]
  BY <1>3 DEF IInv, TypeOK, Become
<1>5. PICK new : /\ new.kind = z.kind /\ events' = [events EXCEPT ![r.ev] = new]
                 /\ new.state \in Pending \cup Dead \/ r.err = "none"
  <2>1. events \in [Event -> EventRec]
    BY Actor
  <2>2. CASE UNCHANGED events
    <3>1. events' = [events EXCEPT ![r.ev] = z] /\ z.state \in Pending
      BY <1>2, <2>1, <2>2 DEF Pending
    <3> QED
      BY <3>1
  <2>3. CASE events' = [events EXCEPT ![r.ev] = SettleEvent(r)]
    <3>1. SettleEvent(r).kind = z.kind
      BY <1>2 DEF SettleEvent, EventRec
    <3>2. r.err # "none" => SettleEvent(r).state \in {"waiting", "dead"}
      BY <1>2 DEF SettleEvent, EventRec, Pending
    <3> QED
      BY <2>3, <3>1, <3>2 DEF Pending, Dead
  <2> QED
    BY <2>2, <2>3 DEF Settle
<1>6. \A e \in Event : events'[e] = IF e = r.ev THEN new ELSE events[e]
  BY <1>2, <1>5, Actor
<1>7. FInv'
  <2>1. \A e \in Event : events'[e].kind \in {"", "push", "close"}
    BY <1>2, <1>5, <1>6 DEF FInv
  <2>2. ASSUME NEW u \in Task PROVE Webhook(task'[u]) /\ Leased(u)'
    <3>1. CASE u = t
      BY <1>3, <1>4, <3>1 DEF Webhook, Leased
    <3>2. CASE u # t
      <4>1. Webhook(task[u]) /\ Leased(u) /\ task'[u] = task[u]
        BY <1>4, <3>2 DEF FInv
      <4>2. task[u].pc # "idle" => task[u].ev \in Event /\ task[u].ev # r.ev
        BY <1>2, <3>2, Actor DEF TaskOK
      <4>3. task[u].pc # "idle" => events'[task[u].ev] = events[task[u].ev]
        BY <1>6, <4>2
      <4>4. \A v \in Task : task'[v].pc # "idle" => task'[v] = task[v]
        BY <1>3, <1>4
      <4> QED
        BY <4>1, <4>3, <4>4 DEF Leased
    <3> QED
      BY <3>1, <3>2
  <2> QED
    BY <2>1, <2>2 DEF FInv
<1>8. ASSUME NEW e \in Event, NEW kind, Keeps(e, kind) PROVE Keeps(e, kind)'
  <2>1. events'[e].kind = kind /\ events'[e].state \in Pending \cup Dead
    BY <1>0, <1>5, <1>6, <1>8 DEF Keeps, EndPc
  <2>2. Idle.pc \notin EndPc
    BY <1>3 DEF EndPc
  <2> QED
    BY <1>3, <1>8, <2>1, <2>2, KeepsOn
<1>9. JInv'
  BY <1>0, <1>8 DEF JInv
<1> QED
  BY <1>7, <1>9

LEMMA ClaimRemembers ==
  ASSUME IInv, FInv, JInv, NEW t \in Task, NEW f \in Event, Claim(t, f) PROVE FInv' /\ JInv'
<1> DEFINE ev == events[f]
           q == [Idle EXCEPT !.pc = IF ev.kind = "push" THEN "lock" ELSE "load",
                             !.src = "inbox", !.op = ev.kind, !.art = ev.art,
                             !.ev = f, !.attempts = ev.attempts]
<1>1. ev \in EventRec /\ ev.state = "due" /\ ev.kind \in {"push", "close"}
  <2>1. ev \in EventRec /\ EventOK(ev) /\ ev.state = "due"
    BY Actor DEF Claim
  <2>2. ev.kind # ""
    BY <2>1 DEF EventOK, Pending
  <2> QED
    BY <2>1, <2>2 DEF FInv
<1>2. q.pc \in {"lock", "load"} /\ q.src = "inbox" /\ q.op = ev.kind /\ q.ev = f
      /\ (q.pc = "load" => ev.kind = "close")
  BY <1>1 DEF Idle
<1>3. Become(t, q) /\ row' = row /\ events' = [events EXCEPT ![f].state = "waiting"]
  BY DEF Claim
<1> HIDE DEF q
<1>4. \A u \in Task : task'[u] = IF u = t THEN q ELSE task[u]
  BY <1>3 DEF IInv, TypeOK, Become
<1>5. /\ \A e \in Event : e # f => events'[e] = events[e]
      /\ events'[f].state = "waiting" /\ events'[f].kind = ev.kind
  BY <1>1, <1>3, Actor DEF EventRec
<1>6. \A u \in Task : task[u].pc # "idle" => task[u].ev \in Event /\ task[u].ev # f
  BY <1>1, Actor DEF TaskOK, FInv, Leased
<1>7. Webhook(q)
  BY <1>1, <1>2, Pcs DEF Webhook
<1>8. FInv'
  <2>1. \A e \in Event : events'[e].kind \in {"", "push", "close"}
    BY <1>1, <1>5 DEF FInv
  <2>2. ASSUME NEW u \in Task PROVE Webhook(task'[u]) /\ Leased(u)'
    <3>1. CASE u = t
      BY <1>2, <1>4, <1>5, <1>6, <1>7, <3>1 DEF Leased
    <3>2. CASE u # t
      <4>1. Webhook(task[u]) /\ Leased(u) /\ task'[u] = task[u]
        BY <1>4, <3>2 DEF FInv
      <4>2. task[u].pc # "idle" => events'[task[u].ev] = events[task[u].ev]
        BY <1>5, <1>6
      <4>3. \A v \in Task : v # t => task'[v] = task[v]
        BY <1>4
      <4>4. task'[t].ev = f
        BY <1>2, <1>4
      <4> QED
        BY <1>6, <4>1, <4>2, <4>3, <4>4 DEF Leased
    <3> QED
      BY <3>1, <3>2
  <2> QED
    BY <2>1, <2>2 DEF FInv
<1>9. ASSUME NEW e \in Event, NEW kind, Keeps(e, kind) PROVE Keeps(e, kind)'
  <2>1. events'[e].kind = kind /\ events'[e].state \in Pending \cup Dead
    BY <1>5, <1>9 DEF Keeps, Pending
  <2>2. q.pc \notin EndPc
    BY <1>2 DEF EndPc
  <2> QED
    BY <1>3, <1>9, <2>1, <2>2, KeepsOn
<1>10. JInv'
  BY <1>3, <1>9 DEF JInv
<1> QED
  BY <1>8, <1>10

(* A delivery, or a lease or backoff that ends: no goroutine is at the event. *)
LEMMA EventRemembers ==
  ASSUME IInv, FInv, JInv, NEW f \in Event, NEW new, events' = [events EXCEPT ![f] = new],
         new.kind \in {"push", "close"}, new.state = "due",
         events[f].state \in Pending \cup Dead => new.kind = events[f].kind,
         \A t \in Task : task[t].pc # "idle" => task[t].ev # f,
         UNCHANGED <<row, task>>
  PROVE  FInv' /\ JInv'
<1>1. \A e \in Event : events'[e] = IF e = f THEN new ELSE events[e]
  BY DEF IInv, TypeOK
<1>2. ASSUME NEW t \in Task PROVE Webhook(task'[t]) /\ Leased(t)'
  <2>1. Webhook(task[t]) /\ Leased(t) /\ (task[t].pc # "idle" => task[t].ev \in Event)
    BY Actor DEF FInv, TaskOK
  <2>2. task[t].pc # "idle" => events'[task[t].ev] = events[task[t].ev]
    BY <1>1, <2>1
  <2> QED
    BY <2>1, <2>2 DEF Leased
<1>3. FInv'
  BY <1>1, <1>2 DEF FInv
<1>4. ASSUME NEW e \in Event, NEW kind, Keeps(e, kind) PROVE Keeps(e, kind)'
  BY <1>1, <1>4 DEF Keeps, Pending
<1>5. JInv'
  BY <1>4 DEF JInv
<1> QED
  BY <1>3, <1>5

LEMMA QueueRemembers ==
  ASSUME IInv, FInv, JInv, ~SlowWork, NEW f \in Event,
         Elapse(f) \/ \E op \in Kind, a \in Artifact \cup {NoArtifact} : Deliver(f, op, a)
  PROVE  FInv' /\ JInv'
<1>0. events[f] \in EventRec /\ UNCHANGED <<row, task>>
  BY Actor DEF IInv, TypeOK, Elapse, Deliver
<1>1. CASE Elapse(f)
  <2> DEFINE new == [events[f] EXCEPT !.state = "due"]
  <2>1. events[f].state = "waiting" /\ EventOK(events[f]) /\ events[f].kind \in {"", "push", "close"}
    BY <1>1 DEF Elapse, IInv, FInv
  <2>2. events[f].kind # ""
    BY <2>1 DEF EventOK, Pending
  <2>3. new.kind = events[f].kind /\ new.state = "due"
    BY <1>0 DEF EventRec
  <2>4. \A t \in Task : task[t].pc # "idle" => task[t].ev # f
    BY <1>1 DEF Elapse, FInv, Webhook
  <2>5. events' = [events EXCEPT ![f] = new]
    BY <1>1 DEF Elapse
  <2> HIDE DEF new
  <2> QED
    BY <1>0, <2>1, <2>2, <2>3, <2>4, <2>5, EventRemembers
<1>2. ASSUME NEW op, NEW a, Deliver(f, op, a) PROVE FInv' /\ JInv'
  <2> DEFINE new == [kind |-> op, art |-> a, state |-> "due", attempts |-> 0]
  <2>1. op \in {"push", "close"} /\ events[f].state = "none" /\ events' = [events EXCEPT ![f] = new]
    BY <1>2 DEF Deliver, Fresh
  <2>2. new.kind = op /\ new.state = "due"
    OBVIOUS
  <2>3. \A t \in Task : task[t].pc # "idle" => task[t].ev # f
    BY <1>2 DEF Deliver, Fresh
  <2>4. events[f].state \notin Pending \cup Dead
    BY <2>1 DEF Pending, Dead
  <2> HIDE DEF new
  <2> QED
    BY <1>0, <2>1, <2>2, <2>3, <2>4, EventRemembers
<1> QED
  BY <1>1, <1>2

(* Nothing the property is about changes. *)
LEMMA StillRemembers ==
  ASSUME FInv, JInv, UNCHANGED <<events, task>>, row'.status = row.status
  PROVE  FInv' /\ JInv'
<1>1. FInv'
  BY DEF FInv, Webhook, Leased
<1>2. ASSUME NEW e \in Event, NEW kind, Keeps(e, kind) PROVE Keeps(e, kind)'
  BY <1>2 DEF Keeps
<1>3. JInv'
  BY <1>2 DEF JInv
<1> QED
  BY <1>1, <1>3

LEMMA CrashRemembers == ASSUME FInv, JInv, Crash PROVE FInv' /\ JInv'
<1>1. row' = row /\ events' = events /\ \A t \in Task : task'[t].pc = "idle"
  BY DEF Crash, Idle
<1>2. FInv'
  BY <1>1 DEF FInv, Webhook, Leased
<1>3. ASSUME NEW e \in Event, NEW kind, Keeps(e, kind) PROVE Keeps(e, kind)'
  BY <1>1, <1>3 DEF Keeps, EndPc
<1>4. JInv'
  BY <1>1, <1>3 DEF JInv
<1> QED
  BY <1>2, <1>4

LEMMA RememberStep ==
  ASSUME Ops \subseteq {"push", "barepush", "close"}, ~SlowWork
  PROVE  IInv /\ FInv /\ JInv /\ [Next]_vars => FInv' /\ JInv'
<1> SUFFICES ASSUME IInv, FInv, JInv, [Next]_vars PROVE FInv' /\ JInv'
  OBVIOUS
<1>1. CASE Clients
  <2>1. \E f \in Event : \E op \in Kind, a \in Artifact \cup {NoArtifact} : Deliver(f, op, a)
    BY <1>1 DEF Clients, RequestApply, RequestRollback, RequestOn, Sweep
  <2> QED
    BY <2>1, QueueRemembers
<1>2. CASE TTLExpires
  <2>1. row \in Env
    BY DEF IInv, TypeOK
  <2>2. row'.status = row.status /\ UNCHANGED <<events, task>>
    BY <1>2, <2>1 DEF TTLExpires, Env
  <2> QED
    BY <2>2, StillRemembers
<1>3. CASE \E e \in Event : Elapse(e) \/ \E t \in Task : Claim(t, e)
  BY <1>3, QueueRemembers, ClaimRemembers
<1>4. ASSUME NEW t \in Task, Working(t) PROVE FInv' /\ JInv'
  <2>1. CASE Load(t) \/ Lock(t) \/ Unlock(t) \/ Settle(t)
    BY <2>1, OutsideRemembers, SettleRemembers
  <2>2. CASE Applying(t) /\ ~Log(t)
    BY <2>2, UpsertRemembers, MarkDeployingRemembers, AttemptRemembers, MarkReadyRemembers,
       MarkFailedRemembers DEF Applying
  <2>3. CASE Destroying(t)
    BY <2>3, MarkDestroyingRemembers, TeardownRemembers, MarkDestroyedRemembers DEF Destroying
  <2>4. ~Log(t) /\ ~Scaling(t)
    BY WebhookActor DEF Log, Scaling, Sleep, MarkSleeping, Wake, MarkAwake, Scale, MarkScaled
  <2> QED
    BY <1>4, <2>1, <2>2, <2>3, <2>4 DEF Working, Applying
<1>5. CASE Crash
  BY <1>5, CrashRemembers
<1>6. CASE Rest \/ UNCHANGED vars
  BY <1>6, StillRemembers DEF Rest, vars
<1> QED
  BY <1>1, <1>2, <1>3, <1>4, <1>5, <1>6 DEF Next

LEMMA InitRemembers == Init => FInv /\ JInv
<1> SUFFICES ASSUME Init PROVE FInv /\ JInv
  OBVIOUS
<1>1. row.status = "" /\ (\A e \in Event : events[e].kind = "") /\ \A t \in Task : task[t].pc = "idle"
  BY DEF Init, NoEnv, NoEventRec, Idle
<1> QED
  BY <1>1 DEF FInv, JInv, Webhook, Leased

(* With webhooks only, any number of goroutines, failures and crashes: an    *)
(* environment that applyWithoutEvent or destroyWithoutEvent left deploying  *)
(* or destroying has an event that will drive it on or was dead-lettered.    *)
THEOREM HalfWayIsRemembered ==
  ASSUME Ops \subseteq {"push", "barepush", "close"}, ~SlowWork
  PROVE  Spec => []InFlightIsRemembered
<1>1. Init => IInv /\ FInv /\ JInv
  BY InitIInv, InitRemembers
<1>2. IInv /\ FInv /\ JInv /\ [Next]_vars => (IInv /\ FInv /\ JInv)'
  BY StepIInv, RememberStep
<1>3. JInv => InFlightIsRemembered
  BY DEF JInv, Keeps, InFlightIsRemembered, Remembered
<1> QED
  BY <1>1, <1>2, <1>3, PTL DEF Spec

-----------------------------------------------------------------------------
(* One caller at a time.  When operations never overlap, an operation that   *)
(* is not finished, or that failed, or that a crash cut short, still has its *)
(* own event pending or dead-lettered, and what it may have left behind in   *)
(* the infrastructure is excused by that event until one of its kind ends    *)
(* well.  (LeakedDeployment shows that two goroutines break this.)           *)
Solo == \A t, u \in Task : t = u

Deploys == {"apply", "push"}
Destroys == {"destroy", "close"}
ScalePc == {"sleep", "asleep", "wake", "awake"}

(* The goroutine is about to mark its event processed, or just has. *)
Finished(r) == r.pc \in EndPc /\ r.err = "none"

(* An event of one of these kinds is kept. *)
Kept(kinds) == \E e \in Event : \E k \in kinds : Keeps(e, k)

(* The copy of the row a teardown or a scaling works with, up to the ttl,    *)
(* which also expires under its feet.                                        *)
Copied(env, rw) ==
  /\ env.id = rw.id /\ env.status = rw.status /\ env.DeployRef = rw.DeployRef
  /\ env.ArtifactRef = rw.ArtifactRef /\ env.LastGood = rw.LastGood

CopyPc == {"lock", "log"} \cup TeardownPc \cup ScalePc

CopyOK(r, rw) ==
  /\ r.env.id = "" => r.env.status = ""
  /\ r.pc \in CopyPc /\ r.env.id # "" => Copied(r.env, rw)

(* The event of the operation: not stored yet, or pending. *)
Unlogged == {"lock", "upsert", "log", "unlock"}

OwnOK(r, evs) ==
  /\ r.src = "api" /\ r.pc \in {"lock", "upsert", "log"} => evs[r.ev].state = "none"
  /\ r.pc # "idle" /\ (r.src = "inbox" \/ r.pc \notin Unlogged) =>
       evs[r.ev].kind = r.op /\ evs[r.ev].state \in Pending

(* What the operation is, and that an attempt that failed keeps its error. *)
WorkOK(r) ==
  /\ r.pc \in AttemptPc /\ r.try # 1 => r.err # "none"
  /\ r.pc \in {"degraded", "failed"} => r.err # "none"
  /\ r.pc \in AttemptPc /\ r.env.id # "" => r.env.ArtifactRef = r.art
  /\ r.pc \in TeardownPc => r.op \in Destroys
  /\ r.pc \in ScalePc => r.op \in {"sleep", "wake"}
  /\ r.pc = "log" => r.src = "api"
  /\ r.pc = "lock" /\ r.src = "api" => r.op \notin {"push", "close"}

(* What a teardown or a scaling has achieved so far. *)
DoneOK(r, d, n, c) ==
  /\ r.pc = "delrow" => n = "absent"
  /\ r.pc \in {"remove", "undeploy", "destroyed"} /\ r.err = "none" => "issued" \notin c
  /\ r.pc \in {"undeploy", "destroyed"} /\ r.err = "none" => "installed" \notin c
  /\ r.pc = "destroyed" /\ r.err = "none" => r.env.DeployRef = "" \/ d = NoDeployment
  /\ r.pc = "asleep" => d.mode \in {"none", "stopped"}
  /\ r.pc = "awake"  => d.mode \in {"none", "up"}

SInv == \A t \in Task : /\ CopyOK(task[t], row) /\ OwnOK(task[t], events) /\ WorkOK(task[t])
                        /\ DoneOK(task[t], dep, dns, cert)

(* The deployment of a serving row, whether it is up or stopped. *)
Served(rw, d, n, c) ==
  /\ d.art = rw.LastGood /\ d.mode # "none" /\ rw.ArtifactRef = rw.LastGood
  /\ n = "owned" /\ c = {"issued", "installed"}

ModeOf(status) == IF status = "ready" THEN "up" ELSE "stopped"

QInv ==
  /\ dnsRow = "none" /\ dns # "absent" => Kept(Deploys)
  /\ row.DeployRef = "" /\ dep # NoDeployment => Kept(Deploys)
  /\ row.status \in {"", "pending", "destroyed"} => Nothing \/ Kept(Deploys)
  /\ row.status \in {"ready", "sleeping"} =>
       Served(row, dep, dns, cert) \/ Kept(Deploys \cup Destroys)
  /\ row.status \in {"ready", "sleeping"} => dep.mode = ModeOf(row.status) \/ Kept(Kind)
  /\ row.status \in {"deploying", "failed", "degraded"} => Kept(Deploys)
  /\ row.status = "destroying" => Kept(Destroys)

(* The only goroutine becomes q. *)
LEMMA SoloMove ==
  ASSUME IInv, Solo, NEW t \in Task, NEW q, Become(t, q),
         CopyOK(q, row'), OwnOK(q, events'), WorkOK(q), DoneOK(q, dep', dns', cert')
  PROVE  SInv'
<1>1. \A u \in Task : task'[u] = q
  BY DEF IInv, TypeOK, Become, Solo
<1> QED
  BY <1>1 DEF SInv

(* ... and has no copy of the row to rely on and no teardown to go on with. *)
LEMMA SoloPlain ==
  ASSUME IInv, Solo, NEW t \in Task, NEW q, Become(t, q),
         q.pc \notin CopyPc, q.env.id = "" => q.env.status = "",
         OwnOK(q, events'), WorkOK(q)
  PROVE  SInv'
<1>1. CopyOK(q, row')
  BY DEF CopyOK
<1>2. DoneOK(q, dep', dns', cert')
  BY DEF DoneOK, CopyPc, TeardownPc, LateTeardown, ScalePc
<1> QED
  BY <1>1, <1>2, SoloMove

(* What the invariants say of the goroutine that is at work. *)
LEMMA SoloActor ==
  ASSUME IInv, SInv, NEW t \in Task
  PROVE  /\ task[t] \in TaskRec /\ task[t].env \in Env /\ TaskOK(task[t])
         /\ task[t].pc # "idle" => task[t].ev \in Event
         /\ CopyOK(task[t], row) /\ OwnOK(task[t], events) /\ WorkOK(task[t])
         /\ DoneOK(task[t], dep, dns, cert)
         /\ task[t].env.id = "" => task[t].env.status = ""
<1>1. task[t] \in TaskRec /\ TaskOK(task[t])
  BY Actor
<1>2. task[t].env \in Env
  BY <1>1 DEF TaskRec
<1> QED
  BY <1>1, <1>2 DEF SInv, TaskOK, CopyOK

(* The kept events: when one stays kept while the goroutine becomes q. *)
LEMMA KeptOn ==
  ASSUME IInv, NEW t \in Task, NEW q, Become(t, q), UNCHANGED events, NEW kinds, Kept(kinds),
         Finished(q) => Finished(task[t]) /\ q.ev = task[t].ev
  PROVE  Kept(kinds)'
<1>1. PICK e \in Event, k \in kinds : Keeps(e, k)
  BY DEF Kept
<1>2. q.ev = e /\ q.pc \in EndPc => q.err # "none"
  BY <1>1 DEF Keeps, Finished
<1>3. events'[e].kind = k /\ events'[e].state \in Pending \cup Dead
  BY <1>1 DEF Keeps
<1>4. Keeps(e, k)'
  BY <1>1, <1>2, <1>3, KeepsOn
<1> QED
  BY <1>4 DEF Kept

(* The end of an operation of another kind. *)
LEMMA KeptOther ==
  ASSUME IInv, NEW t \in Task, NEW q, Become(t, q), UNCHANGED events, NEW kinds, Kept(kinds),
         events[q.ev].kind \notin kinds
  PROVE  Kept(kinds)'
<1>1. PICK e \in Event, k \in kinds : Keeps(e, k)
  BY DEF Kept
<1>2. q.ev # e
  BY <1>1 DEF Keeps
<1>3. events'[e].kind = k /\ events'[e].state \in Pending \cup Dead
  BY <1>1 DEF Keeps
<1>4. Keeps(e, k)'
  BY <1>1, <1>2, <1>3, KeepsOn
<1> QED
  BY <1>4 DEF Kept

(* An operation that goes on, or ends with an error, keeps its own event. *)
LEMMA KeptOwn ==
  ASSUME IInv, Solo, NEW t \in Task, NEW q, Become(t, q), UNCHANGED events, NEW kinds,
         q.ev \in Event, events[q.ev].kind \in kinds, events[q.ev].state \in Pending, ~Finished(q)
  PROVE  Kept(kinds)'
<1>1. \A u \in Task : task'[u] = q
  BY DEF IInv, TypeOK, Become, Solo
<1>2. PICK e \in Event : e = q.ev
  OBVIOUS
<1>3. PICK k \in kinds : k = events[e].kind
  BY <1>2
<1>4. Keeps(e, k)'
  BY <1>1, <1>2, <1>3 DEF Keeps, Finished
<1> QED
  BY <1>4 DEF Kept

(* More kinds keep more. *)
LEMMA KeptMore ==
  /\ Kept(Deploys)' => Kept(Deploys \cup Destroys)'
  /\ Kept(Destroys)' => Kept(Deploys \cup Destroys)'
  /\ Kept(Deploys \cup Destroys)' => Kept(Kind)'
  /\ Kept({"sleep", "wake"})' => Kept(Kind)'
  BY DEF Kept, Deploys, Destroys, Kind

(* The kept events of the kinds that matter are still kept. *)
StillKept ==
  /\ Kept(Deploys) => Kept(Deploys)'
  /\ Kept(Destroys) => Kept(Destroys)'
  /\ Kept(Deploys \cup Destroys) => Kept(Deploys \cup Destroys)'
  /\ Kept(Kind) => Kept(Kind)'

LEMMA StillKeptOn ==
  ASSUME IInv, NEW t \in Task, NEW q, Become(t, q), UNCHANGED events,
         Finished(q) => Finished(task[t]) /\ q.ev = task[t].ev
  PROVE  StillKept
<1>1. ASSUME NEW kinds PROVE Kept(kinds) => Kept(kinds)'
  BY KeptOn
<1> QED
  BY <1>1 DEF StillKept

(* ... also when the step changes the events, as long as none that is kept   *)
(* leaves the log and the goroutine does not finish with one.                *)
Live(ev) == ev.state \in Pending \cup Dead

LEMMA StillKeptChange ==
  ASSUME IInv, NEW t \in Task, NEW q, Become(t, q),
         \A e \in Event : Live(events[e]) /\ (Finished(task[t]) => e # task[t].ev) =>
                           Live(events'[e]) /\ events'[e].kind = events[e].kind,
         Finished(q) => ~Live(events[q.ev]) \/ (Finished(task[t]) /\ q.ev = task[t].ev)
  PROVE  StillKept
<1>1. ASSUME NEW kinds, Kept(kinds) PROVE Kept(kinds)'
  <2>1. PICK e \in Event, k \in kinds : Keeps(e, k)
    BY <1>1 DEF Kept
  <2>2. Live(events[e]) /\ events[e].kind = k /\ (Finished(task[t]) => e # task[t].ev)
    BY <2>1 DEF Keeps, Live, Finished
  <2>3. q.ev = e /\ q.pc \in EndPc => q.err # "none"
    BY <2>2 DEF Finished
  <2>4. events'[e].kind = k /\ events'[e].state \in Pending \cup Dead
    BY <2>2 DEF Live
  <2>5. Keeps(e, k)'
    BY <2>1, <2>3, <2>4, KeepsOn
  <2> QED
    BY <2>5 DEF Kept
<1> QED
  BY <1>1 DEF StillKept

(* ... or only the events, or forgets the goroutines. *)
LEMMA StillKeptQueue ==
  ASSUME UNCHANGED task \/ \A u \in Task : task'[u].pc = "idle",
         \A e \in Event : Live(events[e]) => Live(events'[e]) /\ events'[e].kind = events[e].kind
  PROVE  StillKept
<1>1. ASSUME NEW kinds, Kept(kinds) PROVE Kept(kinds)'
  <2>1. PICK e \in Event, k \in kinds : Keeps(e, k)
    BY <1>1 DEF Kept
  <2>2. events'[e].kind = k /\ events'[e].state \in Pending \cup Dead
    BY <2>1 DEF Keeps, Live
  <2>3. Keeps(e, k)'
    BY <2>1, <2>2 DEF Keeps, EndPc
  <2> QED
    BY <2>3 DEF Kept
<1> QED
  BY <1>1 DEF StillKept

(* A step that changes only the goroutine, the events and the ttl. *)
LEMMA QuietSame ==
  ASSUME QInv, StillKept, Copied(row', row), UNCHANGED <<dnsRow, dep, dns, cert>>
  PROVE  QInv'
<1>1. Served(row, dep, dns, cert) => Served(row, dep, dns, cert)'
  BY DEF Served, Copied
<1>2. Nothing => Nothing'
  BY DEF Nothing
<1>3. row'.status = row.status /\ row'.DeployRef = row.DeployRef
  BY DEF Copied
<1> QED
  BY <1>1, <1>2, <1>3 DEF QInv, StillKept

(* An apply that is not finished excuses everything but a row left           *)
(* destroying, which it does not write.                                      *)
LEMMA QuietDeploy ==
  ASSUME Kept(Deploys)', row'.status = "destroying" => Kept(Destroys)'
  PROVE  QInv'
<1>1. Kept(Deploys \cup Destroys)' /\ Kept(Kind)'
  BY KeptMore
<1> QED
  BY <1>1 DEF QInv

(* The rollback is not the first attempt. *)
LEMMA RollbackIsLate == ASSUME NEW r, RollingBack(r) PROVE r.try # 1
  BY ReconcilerAssumption DEF RollingBack

(* How the building blocks carry the goroutine on. *)
LEMMA FailedSolo ==
  ASSUME NEW r \in TaskRec, r.pc \in AttemptPc, NEW env \in {r.env, NoEnv},
         NEW err \in {"transient", "terminal"}, WorkOK(r), NEW evs, OwnOK(r, evs),
         r.env.id = "" => r.env.status = ""
  PROVE  LET q == AttemptFailed(r, env, err) IN
           /\ q.pc \in {"deploy", "failed"} /\ q.ev = r.ev /\ q.op = r.op
           /\ (q.env.id = "" => q.env.status = "") /\ OwnOK(q, evs) /\ WorkOK(q)
<1> DEFINE q == AttemptFailed(r, env, err)
<1>0. NoEnv.id = "" /\ NoEnv.status = ""
  BY DEF NoEnv
<1>a. RollingBack(r) => r.try # 1
  BY RollbackIsLate
<1>1. RollingBack(r) => r.err # "none"
  BY <1>a DEF WorkOK
<1>2. /\ q.pc \in {"deploy", "failed"} /\ q.ev = r.ev /\ q.op = r.op /\ q.src = r.src
      /\ q.art = r.art /\ q.env \in {r.env, NoEnv}
      /\ q.err = IF RollingBack(r) THEN r.err ELSE err
  BY DEF AttemptFailed, TaskRec
<1> HIDE DEF q
<1>3. q.err # "none"
  BY <1>1, <1>2
<1>4. OwnOK(q, evs)
  BY <1>2 DEF OwnOK, Unlogged, AttemptPc
<1>5. WorkOK(q)
  BY <1>0, <1>2, <1>3 DEF WorkOK, TeardownPc, LateTeardown, ScalePc
<1> QED
  BY <1>0, <1>2, <1>4, <1>5 DEF q

LEMMA OverSolo ==
  ASSUME NEW r \in TaskRec, r.pc \notin Unlogged \cup {"idle"}, NEW err, NEW evs, OwnOK(r, evs)
  PROVE  LET q == Over(r, err) IN
           /\ q.pc \in EndPc /\ q.ev = r.ev /\ q.op = r.op /\ q.env = r.env /\ q.err = err
           /\ OwnOK(q, evs) /\ WorkOK(q)
<1> DEFINE q == Over(r, err)
<1>1. /\ q.pc = (IF r.src = "api" THEN "settle" ELSE "unlock") /\ q.ev = r.ev /\ q.op = r.op
      /\ q.env = r.env /\ q.err = err /\ q.src = r.src
  BY DEF Over, TaskRec
<1> HIDE DEF q
<1>2. q.pc \in EndPc /\ WorkOK(q)
  BY <1>1 DEF WorkOK, EndPc, AttemptPc, TeardownPc, LateTeardown, ScalePc
<1>3. OwnOK(q, evs)
  BY <1>1 DEF OwnOK, Unlogged
<1> QED
  BY <1>1, <1>2, <1>3 DEF q

(* Ended pcs rely on nothing. *)
LEMMA EndPlain == EndPc \cap (CopyPc \cup AttemptPc \cup {"idle"}) = {}
  BY DEF EndPc, CopyPc, TeardownPc, LateTeardown, ScalePc, AttemptPc

-----------------------------------------------------------------------------
(* The steps of an apply. *)

(* An apply goes on as q, or ends with an error; what it did is excused.     *)
LEMMA SoloDeploys ==
  ASSUME IInv, Solo, SInv, QInv, NEW t \in Task, NEW q, Become(t, q), UNCHANGED events,
         q.ev = task[t].ev, q.ev \in Event, task[t].op \in Deploys,
         OwnOK(task[t], events), task[t].src = "inbox" \/ task[t].pc \notin Unlogged,
         task[t].pc # "idle", ~Finished(q), row'.status = "destroying" => row.status = "destroying",
         q.pc \notin CopyPc, q.env.id = "" => q.env.status = "", OwnOK(q, events), WorkOK(q)
  PROVE  SInv' /\ QInv'
<1>1. events[q.ev].kind \in Deploys /\ events[q.ev].state \in Pending
  BY DEF OwnOK
<1>2. Kept(Deploys)'
  BY <1>1, KeptOwn
<1>3. row'.status = "destroying" => Kept(Destroys)'
  <2>1. Kept(Destroys) => Kept(Destroys)'
    BY KeptOn
  <2> QED
    BY <2>1 DEF QInv
<1>4. QInv'
  BY <1>2, <1>3, QuietDeploy
<1>5. SInv'
  BY SoloPlain
<1> QED
  BY <1>4, <1>5

LEMMA AttemptSolo ==
  ASSUME IInv, Solo, SInv, QInv, NEW t \in Task,
         \/ Deploy(t) \/ Health(t) \/ EnsureRecord(t) \/ EnsureCertificate(t)
         \/ InstallCertificate(t) \/ RecordDNSRow(t)
  PROVE  SInv' /\ QInv'
<1> DEFINE r == task[t]
<1>0. r.pc \in AttemptPc /\ UNCHANGED <<row, events>>
  BY DEF AttemptPc, Deploy, Health, EnsureRecord, EnsureCertificate, InstallCertificate, RecordDNSRow
<1>a. r.pc \notin Unlogged \cup {"idle"}
  BY <1>0 DEF AttemptPc, Unlogged
<1>1. /\ r \in TaskRec /\ r.ev \in Event /\ r.op \in Deploys /\ OwnOK(r, events) /\ WorkOK(r)
      /\ r.env.id = "" => r.env.status = ""
  BY <1>0, <1>a, SoloActor DEF TaskOK, ApplyPc, Deploys
<1>2. ASSUME NEW err \in {"transient", "terminal"}, Become(t, AttemptFailed(r, r.env, err))
      PROVE  SInv' /\ QInv'
  <2> DEFINE q == AttemptFailed(r, r.env, err)
  <2>1. /\ q.pc \in {"deploy", "failed"} /\ q.ev = r.ev /\ q.op = r.op
        /\ (q.env.id = "" => q.env.status = "") /\ OwnOK(q, events) /\ WorkOK(q)
    BY <1>0, <1>1, FailedSolo
  <2>2. q.pc \notin CopyPc /\ ~Finished(q)
    BY <2>1 DEF CopyPc, TeardownPc, LateTeardown, ScalePc, Finished, EndPc
  <2>3. Become(t, q)
    BY <1>2
  <2> HIDE DEF q
  <2> QED
    BY <1>0, <1>a, <1>1, <2>1, <2>2, <2>3, SoloDeploys
<1>3. ASSUME NEW p \in AttemptPc, Goto(t, p) PROVE SInv' /\ QInv'
  <2> DEFINE q == [r EXCEPT !.pc = p]
  <2>1. /\ q.pc = p /\ q.ev = r.ev /\ q.op = r.op /\ q.src = r.src /\ q.try = r.try /\ q.err = r.err
        /\ q.env = r.env /\ q.art = r.art
    BY <1>1 DEF TaskRec
  <2>2. Become(t, q)
    BY <1>3 DEF Goto
  <2> HIDE DEF q
  <2>3. q.pc \notin CopyPc /\ ~Finished(q) /\ q.pc \notin Unlogged
    BY <2>1 DEF AttemptPc, CopyPc, TeardownPc, LateTeardown, ScalePc, Finished, EndPc, Unlogged
  <2>4. OwnOK(q, events)
    BY <1>a, <1>1, <2>1, <2>3 DEF OwnOK, Unlogged
  <2>5. WorkOK(q)
    BY <1>0, <1>1, <2>1 DEF WorkOK, AttemptPc, TeardownPc, LateTeardown, ScalePc
  <2> QED
    BY <1>0, <1>a, <1>1, <2>1, <2>2, <2>3, <2>4, <2>5, SoloDeploys
<1>4. {"health", "dns", "cert", "install", "record", "ready"} \subseteq AttemptPc
  BY DEF AttemptPc
<1> QED
  BY <1>2, <1>3, <1>4 DEF Deploy, Health, EnsureRecord, EnsureCertificate, InstallCertificate, RecordDNSRow

LEMMA MarkDeployingSolo ==
  ASSUME IInv, Solo, SInv, QInv, NEW t \in Task, MarkDeploying(t) PROVE SInv' /\ QInv'
<1> DEFINE r == task[t]
           env == [r.env EXCEPT !.ArtifactRef = r.art, !.status = "deploying"]
<1>0. r.pc = "deploying" /\ r.pc \notin Unlogged \cup {"idle"} /\ UNCHANGED events
  BY DEF MarkDeploying, Unlogged
<1>1. /\ r \in TaskRec /\ r.env \in Env /\ r.ev \in Event /\ r.op \in Deploys /\ OwnOK(r, events)
      /\ r.env.id = "" => r.env.status = ""
  BY <1>0, SoloActor DEF TaskOK, ApplyPc, Deploys
<1>2. PICK ok \in BOOLEAN :
        /\ UpdateEnvironment(env, ok)
        /\ Become(t, IF ok THEN [r EXCEPT !.pc = "deploy", !.env = env, !.try = 1]
                           ELSE Over(r, "transient"))
  BY DEF MarkDeploying
<1>3. env.status = "deploying" /\ env.ArtifactRef = r.art
  BY <1>1 DEF Env
<1>4. row'.status = "destroying" => row.status = "destroying"
  <2> HIDE DEF env
  <2> QED
    BY <1>2, <1>3, HalfWritten
<1>5. ok => env.id # ""
  <2> HIDE DEF env
  <2>1. faults \in 0..MaxFaults
    BY Actor
  <2> QED
    BY <1>2, <2>1, UpdateWrites
<1>6. CASE ok
  <2> DEFINE q == [r EXCEPT !.pc = "deploy", !.env = env, !.try = 1]
  <2>1. /\ q.pc = "deploy" /\ q.ev = r.ev /\ q.op = r.op /\ q.src = r.src /\ q.try = 1
        /\ q.env = env /\ q.art = r.art
    BY <1>1 DEF TaskRec
  <2>2. Become(t, q)
    BY <1>2, <1>6
  <2> HIDE DEF q, env
  <2>3. q.pc \notin CopyPc /\ ~Finished(q)
    BY <2>1 DEF CopyPc, TeardownPc, LateTeardown, ScalePc, Finished, EndPc
  <2>4. OwnOK(q, events)
    BY <1>0, <1>1, <2>1 DEF OwnOK, Unlogged
  <2>5. WorkOK(q)
    BY <1>3, <2>1 DEF WorkOK, AttemptPc, TeardownPc, LateTeardown, ScalePc
  <2> QED
    BY <1>0, <1>1, <1>4, <1>5, <1>6, <2>1, <2>2, <2>3, <2>4, <2>5, SoloDeploys
<1>7. CASE ~ok
  <2> DEFINE q == Over(r, "transient")
  <2>1. /\ q.pc \in EndPc /\ q.ev = r.ev /\ q.op = r.op /\ q.env = r.env /\ q.err = "transient"
        /\ OwnOK(q, events) /\ WorkOK(q)
    BY <1>0, <1>1, OverSolo
  <2>2. Become(t, q)
    BY <1>2, <1>7
  <2> HIDE DEF q, env
  <2>3. q.pc \notin CopyPc /\ ~Finished(q)
    BY <2>1, EndPlain DEF Finished
  <2> QED
    BY <1>0, <1>1, <1>4, <2>1, <2>2, <2>3, SoloDeploys
<1> QED
  BY <1>6, <1>7

LEMMA MarkReadySolo ==
  ASSUME IInv, AInv, Solo, SInv, QInv, NEW t \in Task, MarkReady(t) PROVE SInv' /\ QInv'
<1> DEFINE r == task[t]
           env == ReadyRow(r)
<1>0. r.pc = "ready" /\ r.pc \in AttemptPc /\ r.pc \notin Unlogged \cup {"idle"}
      /\ UNCHANGED <<events, dnsRow, dep, dns, cert>>
  BY DEF MarkReady, Unlogged, AttemptPc, infra
<1>1. /\ r \in TaskRec /\ r.env \in Env /\ r.ev \in Event /\ r.op \in Deploys /\ OwnOK(r, events)
      /\ WorkOK(r) /\ Achieved(r, dep, dns, cert, dnsRow)
      /\ r.env.id = "" => r.env.status = ""
  BY <1>0, SoloActor DEF TaskOK, ApplyPc, Deploys, AInv
<1>2. PICK ok \in BOOLEAN :
        /\ UpdateEnvironment(env, ok)
        /\ Become(t, IF ~ok THEN AttemptFailed(r, NoEnv, "transient")
                     ELSE IF RollingBack(r) THEN [r EXCEPT !.pc = "degraded", !.env = env]
                     ELSE Over([r EXCEPT !.env = env], "none"))
  BY DEF MarkReady
<1>3. /\ env.status = "ready" /\ env.DeployRef = "ref" /\ env.LastGood = Target(r)
      /\ env.ArtifactRef = r.env.ArtifactRef /\ env.id = r.env.id
  BY <1>1 DEF Env, ReadyRow
<1>4. /\ row'.status = "destroying" => row.status = "destroying"
      /\ ok => row' = env /\ env.id # ""
  <2> HIDE DEF env
  <2>1. faults \in 0..MaxFaults
    BY Actor
  <2> QED
    BY <1>2, <1>3, <2>1, HalfWritten, UpdateWrites
<1>5. CASE ~ok
  <2> DEFINE q == AttemptFailed(r, NoEnv, "transient")
  <2>1. /\ q.pc \in {"deploy", "failed"} /\ q.ev = r.ev /\ q.op = r.op
        /\ (q.env.id = "" => q.env.status = "") /\ OwnOK(q, events) /\ WorkOK(q)
    BY <1>0, <1>1, FailedSolo
  <2>2. q.pc \notin CopyPc /\ ~Finished(q)
    BY <2>1 DEF CopyPc, TeardownPc, LateTeardown, ScalePc, Finished, EndPc
  <2>3. Become(t, q)
    BY <1>2, <1>5
  <2> HIDE DEF q, env
  <2> QED
    BY <1>0, <1>1, <1>4, <2>1, <2>2, <2>3, SoloDeploys
<1>6. CASE ok /\ RollingBack(r)
  <2> DEFINE q == [r EXCEPT !.pc = "degraded", !.env = env]
  <2>1. /\ q.pc = "degraded" /\ q.ev = r.ev /\ q.op = r.op /\ q.src = r.src /\ q.err = r.err
        /\ q.env = env
    BY <1>1 DEF TaskRec
  <2>2. r.try # 1
    BY <1>6, ReconcilerAssumption DEF RollingBack
  <2>3. Become(t, q)
    BY <1>2, <1>6
  <2> HIDE DEF q, env
  <2>4. r.err # "none"
    BY <1>0, <1>1, <2>2 DEF WorkOK
  <2>5. q.pc \notin CopyPc /\ ~Finished(q) /\ WorkOK(q)
    BY <2>1, <2>4 DEF WorkOK, AttemptPc, CopyPc, TeardownPc, LateTeardown, ScalePc, Finished, EndPc
  <2>6. OwnOK(q, events)
    BY <1>0, <1>1, <2>1 DEF OwnOK, Unlogged
  <2> QED
    BY <1>0, <1>1, <1>4, <1>6, <2>1, <2>3, <2>5, <2>6, SoloDeploys
<1>7. CASE ok /\ ~RollingBack(r)
  <2> DEFINE z == [r EXCEPT !.env = env]
             q == Over(z, "none")
  <2>1. /\ q.pc = (IF r.src = "api" THEN "settle" ELSE "unlock") /\ q.ev = r.ev /\ q.op = r.op
        /\ q.src = r.src /\ q.env = env /\ q.err = "none"
    BY <1>1 DEF Over, TaskRec
  <2>3. Become(t, q)
    BY <1>2, <1>7
  <2> HIDE DEF q, z, env
  <2>4. q.pc \in EndPc /\ WorkOK(q) /\ OwnOK(q, events)
    BY <1>0, <1>1, <2>1 DEF WorkOK, EndPc, AttemptPc, TeardownPc, LateTeardown, ScalePc, OwnOK, Unlogged
  <2>5. SInv'
    <3>1. q.pc \notin CopyPc /\ (q.env.id = "" => q.env.status = "")
      BY <1>4, <1>7, <2>1, <2>4, EndPlain
    <3> QED
      BY <1>0, <2>3, <2>4, <3>1, SoloPlain
  <2>6. dep.art = Target(r) /\ dep.mode = "up" /\ dns = "owned" /\ dnsRow = "recorded"
        /\ "issued" \in cert /\ "installed" \in cert
    BY <1>0, <1>1 DEF Achieved, Exposed
  <2>7. cert = {"issued", "installed"}
    BY <2>6, Actor
  <2>8. row'.ArtifactRef = row'.LastGood /\ row'.LastGood = dep.art
    <3>1. r.env.ArtifactRef = r.art
      BY <1>0, <1>1, <1>3, <1>4, <1>7 DEF WorkOK
    <3>2. Target(r) = r.art
      BY <1>7 DEF Target
    <3> QED
      BY <1>3, <1>4, <1>7, <2>6, <3>1, <3>2
  <2>9. row'.status = "ready" /\ row'.DeployRef = "ref"
    BY <1>3, <1>4, <1>7
  <2>10. Served(row, dep, dns, cert)'
    BY <1>0, <2>6, <2>7, <2>8 DEF Served
  <2>11. dep'.mode = ModeOf(row'.status) /\ dnsRow' = "recorded"
    BY <1>0, <2>6, <2>9 DEF ModeOf
  <2>12. QInv'
    BY <2>9, <2>10, <2>11 DEF QInv
  <2> QED
    BY <2>5, <2>12
<1> QED
  BY <1>5, <1>6, <1>7

LEMMA MarkFailedSolo ==
  ASSUME IInv, Solo, SInv, QInv, NEW t \in Task, MarkDegraded(t) \/ MarkFailed(t)
  PROVE  SInv' /\ QInv'
<1> DEFINE r == task[t]
<1>0. r.pc \in {"degraded", "failed"} /\ r.pc \notin Unlogged \cup {"idle"} /\ UNCHANGED events
      /\ Become(t, Over(r, r.err))
  BY DEF MarkDegraded, MarkFailed, Unlogged
<1>1. /\ r \in TaskRec /\ r.env \in Env /\ r.ev \in Event /\ r.op \in Deploys /\ OwnOK(r, events)
      /\ WorkOK(r) /\ r.err # "none" /\ (r.env.id = "" => r.env.status = "")
  BY <1>0, SoloActor DEF TaskOK, ApplyPc, Deploys, WorkOK
<1>2. row'.status = "destroying" => row.status = "destroying"
  <2>1. CASE MarkDegraded(t)
    <3> DEFINE env == [r.env EXCEPT !.status = "degraded", !.ArtifactRef = r.art]
    <3>1. PICK ok \in BOOLEAN : UpdateEnvironment(env, ok)
      BY <2>1 DEF MarkDegraded
    <3>2. env.status = "degraded"
      BY <1>1 DEF Env
    <3> HIDE DEF env
    <3> QED
      BY <3>1, <3>2, HalfWritten
  <2>2. CASE MarkFailed(t)
    <3> DEFINE env == [r.env EXCEPT !.status = "failed"]
    <3>1. PICK ok \in BOOLEAN : UpdateEnvironment(env, ok)
      BY <2>2 DEF MarkFailed
    <3>2. env.status = "failed"
      BY <1>1 DEF Env
    <3> HIDE DEF env
    <3> QED
      BY <3>1, <3>2, HalfWritten
  <2> QED
    BY <2>1, <2>2
<1> DEFINE q == Over(r, r.err)
<1>3. /\ q.pc \in EndPc /\ q.ev = r.ev /\ q.op = r.op /\ q.env = r.env /\ q.err = r.err
      /\ OwnOK(q, events) /\ WorkOK(q)
  BY <1>0, <1>1, OverSolo
<1>4. Become(t, q)
  BY <1>0
<1> HIDE DEF q
<1>5. q.pc \notin CopyPc /\ ~Finished(q)
  BY <1>1, <1>3, EndPlain DEF Finished
<1> QED
  BY <1>0, <1>1, <1>2, <1>3, <1>4, <1>5, SoloDeploys

LEMMA UpsertSolo ==
  ASSUME IInv, Solo, SInv, QInv, NEW t \in Task, Upsert(t) PROVE SInv' /\ QInv'
<1> DEFINE r == task[t]
           env == IF row.id = "" THEN NewRow(r.art) ELSE row
           p == IF r.src = "api" THEN "log" ELSE "deploying"
<1>0. r.pc = "upsert" /\ UNCHANGED <<events, dnsRow, dep, dns, cert>>
  BY DEF Upsert, infra
<1>1. /\ r \in TaskRec /\ OwnOK(r, events) /\ r.src \in {"api", "inbox"}
      /\ r.env.id = "" => r.env.status = ""
  BY SoloActor DEF TaskRec
<1>2. CASE row' = env /\ Become(t, [r EXCEPT !.env = env, !.pc = p])
  <2> DEFINE q == [r EXCEPT !.env = env, !.pc = p]
  <2>1. q.pc = p /\ q.ev = r.ev /\ q.op = r.op /\ q.src = r.src /\ q.env = env
    BY <1>1 DEF TaskRec
  <2>2. env.id # "" /\ (row.id # "" => env = row)
        /\ (row.id = "" => env.status = "pending" /\ env.DeployRef = "")
    BY DEF NewRow
  <2>3. Become(t, q) /\ row' = env
    BY <1>2
  <2> HIDE DEF q, env
  <2>4. ~Finished(q) /\ WorkOK(q) /\ DoneOK(q, dep', dns', cert')
    BY <1>1, <2>1 DEF Finished, EndPc, WorkOK, DoneOK, AttemptPc, TeardownPc, LateTeardown, ScalePc
  <2>5. CopyOK(q, row')
    BY <2>1, <2>2, <2>3 DEF CopyOK, Copied
  <2>6. OwnOK(q, events')
    BY <1>0, <1>1, <2>1 DEF OwnOK, Unlogged
  <2>7. SInv'
    BY <2>3, <2>4, <2>5, <2>6, SoloMove
  <2>8. StillKept
    BY <1>0, <2>3, <2>4, StillKeptOn
  <2>9. CASE row.id # ""
    <3>1. Copied(row', row)
      BY <2>2, <2>3, <2>9 DEF Copied
    <3> QED
      BY <1>0, <2>7, <2>8, <3>1, QuietSame
  <2>10. CASE row.id = ""
    <3>1. row.status = "" /\ row'.status = "pending"
      BY <2>2, <2>3, <2>10, Actor DEF RowOK
    <3>2. Nothing \/ Kept(Deploys)
      BY <3>1 DEF QInv
    <3>3. Nothing' = Nothing
      BY <1>0 DEF Nothing
    <3>4. Nothing => dep' = NoDeployment /\ dns' = "absent"
      BY <1>0 DEF Nothing
    <3>5. QInv'
      BY <2>8, <3>1, <3>2, <3>3, <3>4 DEF QInv, StillKept
    <3> QED
      BY <2>7, <3>5
  <2> QED
    BY <2>9, <2>10
<1>3. CASE row' = row /\ Become(t, [r EXCEPT !.pc = "unlock", !.err = "transient"])
  <2> DEFINE q == [r EXCEPT !.pc = "unlock", !.err = "transient"]
  <2>1. /\ q.pc = "unlock" /\ q.ev = r.ev /\ q.op = r.op /\ q.src = r.src /\ q.err = "transient"
        /\ q.env = r.env
    BY <1>1 DEF TaskRec
  <2>2. Become(t, q)
    BY <1>3
  <2> HIDE DEF q
  <2>3. ~Finished(q) /\ WorkOK(q) /\ q.pc \notin CopyPc
    BY <2>1 DEF Finished, WorkOK, AttemptPc, CopyPc, TeardownPc, LateTeardown, ScalePc
  <2>4. OwnOK(q, events')
    BY <1>0, <1>1, <2>1 DEF OwnOK, Unlogged
  <2>5. SInv'
    BY <1>1, <2>1, <2>2, <2>3, <2>4, SoloPlain
  <2>6. StillKept
    BY <1>0, <2>2, <2>3, StillKeptOn
  <2>7. Copied(row', row)
    BY <1>3 DEF Copied
  <2> QED
    BY <1>0, <2>5, <2>6, <2>7, QuietSame
<1> QED
  BY <1>1, <1>2, <1>3 DEF Upsert

(* The event of an API operation is stored; it was not there before. *)
LEMMA LogSolo ==
  ASSUME IInv, Solo, SInv, QInv, NEW t \in Task, Log(t) PROVE SInv' /\ QInv'
<1> DEFINE r == task[t]
           new == [kind |-> r.op, art |-> r.art, state |-> "due", attempts |-> 0]
           p == CASE r.op = "apply"   -> "deploying"
                  [] r.op = "destroy" -> "destroying"
                  [] r.op = "sleep"   -> "sleep"
                  [] r.op = "wake"    -> "wake"
                  [] OTHER            -> "unlock"
<1>0. r.pc = "log" /\ UNCHANGED <<row, dnsRow, dep, dns, cert>> /\ Copied(row', row)
  BY DEF Log, infra, Copied
<1>1. /\ r \in TaskRec /\ r.ev \in Event /\ OwnOK(r, events) /\ r.src = "api" /\ CopyOK(r, row)
      /\ r.env.id = "" => r.env.status = ""
  BY <1>0, SoloActor DEF WorkOK
<1>2. events[r.ev].state = "none" /\ ~Live(events[r.ev])
  BY <1>0, <1>1 DEF OwnOK, Live, Pending, Dead
<1>3. CASE events' = events /\ Goto(t, "unlock")
  <2> DEFINE q == [r EXCEPT !.pc = "unlock"]
  <2>1. q.pc = "unlock" /\ q.ev = r.ev /\ q.src = r.src /\ q.env = r.env
    BY <1>1 DEF TaskRec
  <2>2. Become(t, q)
    BY <1>3 DEF Goto
  <2> HIDE DEF q
  <2>3. OwnOK(q, events') /\ WorkOK(q) /\ q.pc \notin CopyPc
    BY <1>1, <2>1 DEF OwnOK, Unlogged, WorkOK, AttemptPc, CopyPc, TeardownPc, LateTeardown, ScalePc
  <2>4. SInv'
    BY <1>1, <2>1, <2>2, <2>3, SoloPlain
  <2>5. StillKept
    BY <1>2, <1>3, <2>1, <2>2, StillKeptChange
  <2> QED
    BY <1>0, <2>4, <2>5, QuietSame
<1>4. CASE events' = [events EXCEPT ![r.ev] = new] /\ Goto(t, p)
  <2> DEFINE q == [r EXCEPT !.pc = p]
  <2>1. /\ q.pc = p /\ q.ev = r.ev /\ q.op = r.op /\ q.src = r.src /\ q.env = r.env
    BY <1>1 DEF TaskRec
  <2>2. Become(t, q)
    BY <1>4 DEF Goto
  <2>3. /\ p = "destroying" => r.op = "destroy"
        /\ p \in {"sleep", "wake"} => r.op \in {"sleep", "wake"}
        /\ p \in {"deploying", "destroying", "sleep", "wake", "unlock"}
    OBVIOUS
  <2>4. new.kind = r.op /\ new.state = "due"
    OBVIOUS
  <2>5. \A e \in Event : events'[e] = IF e = r.ev THEN new ELSE events[e]
    BY <1>1, <1>4, Actor
  <2> HIDE DEF q, p, new
  <2>6. OwnOK(q, events')
    <3>1. events'[q.ev].kind = q.op /\ events'[q.ev].state \in Pending
      BY <1>1, <2>1, <2>4, <2>5 DEF Pending
    <3> QED
      BY <2>1, <2>3, <3>1 DEF OwnOK
  <2>7. WorkOK(q) /\ DoneOK(q, dep', dns', cert')
    BY <2>1, <2>3 DEF WorkOK, DoneOK, Destroys, AttemptPc, TeardownPc, LateTeardown, ScalePc
  <2>8. CopyOK(q, row')
    BY <1>0, <1>1, <2>1 DEF CopyOK, CopyPc
  <2>9. SInv'
    BY <2>2, <2>6, <2>7, <2>8, SoloMove
  <2>10. \A e \in Event : Live(events[e]) => Live(events'[e]) /\ events'[e].kind = events[e].kind
    BY <1>2, <2>5
  <2>11. StillKept
    BY <1>2, <2>1, <2>2, <2>10, StillKeptChange
  <2> QED
    BY <1>0, <2>9, <2>11, QuietSame
<1> QED
  BY <1>3, <1>4 DEF Log

-----------------------------------------------------------------------------
(* The steps outside an operation. *)

LEMMA IdleSolo ==
  ASSUME IInv, Solo, NEW t \in Task, Become(t, Idle) PROVE SInv'
<1>1. Idle.pc = "idle" /\ Idle.env.status = "" /\ Idle.src = "api"
  BY DEF Idle, NoEnv
<1>2. Idle.pc \notin CopyPc /\ OwnOK(Idle, events') /\ WorkOK(Idle)
  BY <1>1 DEF CopyPc, OwnOK, WorkOK, AttemptPc, TeardownPc, LateTeardown, ScalePc
<1> QED
  BY <1>1, <1>2, SoloPlain

LEMMA LoadSolo ==
  ASSUME IInv, Solo, SInv, QInv, NEW t \in Task, Load(t) PROVE SInv' /\ QInv'
<1> DEFINE r == task[t]
<1>0. r.pc = "load" /\ UNCHANGED <<row, dnsRow, events, dep, dns, cert>> /\ Copied(row', row)
  BY DEF Load, infra, Copied
<1>1. /\ r \in TaskRec /\ r.src = "inbox" /\ r.ev \in Event /\ OwnOK(r, events)
      /\ events[r.ev].kind = r.op
      /\ r.env.id = "" => r.env.status = ""
  BY <1>0, SoloActor DEF TaskOK, OwnOK
<1>2. PICK ok \in BOOLEAN :
        Become(t, IF ok /\ row.id # ""
                  THEN [r EXCEPT !.pc = "lock", !.env = row]
                  ELSE [r EXCEPT !.pc = "settle",
                          !.err = IF ~ok THEN "transient"
                                  ELSE IF r.op = "close" THEN "none" ELSE "terminal"])
  BY DEF Load
<1>3. CASE ok /\ row.id # ""
  <2> DEFINE q == [r EXCEPT !.pc = "lock", !.env = row]
  <2>1. q.pc = "lock" /\ q.ev = r.ev /\ q.op = r.op /\ q.src = r.src /\ q.env = row
    BY <1>1 DEF TaskRec
  <2>2. Become(t, q)
    BY <1>2, <1>3
  <2> HIDE DEF q
  <2>3. OwnOK(q, events') /\ WorkOK(q) /\ DoneOK(q, dep', dns', cert') /\ ~Finished(q)
    BY <1>0, <1>1, <2>1 DEF OwnOK, WorkOK, DoneOK, AttemptPc, TeardownPc, LateTeardown, ScalePc,
       Finished, EndPc
  <2>4. CopyOK(q, row')
    BY <1>0, <1>3, <2>1 DEF CopyOK, Copied
  <2>5. SInv'
    BY <2>2, <2>3, <2>4, SoloMove
  <2>6. StillKept
    BY <1>0, <2>2, <2>3, StillKeptOn
  <2> QED
    BY <1>0, <2>5, <2>6, QuietSame
<1>4. CASE ~(ok /\ row.id # "")
  <2> DEFINE er == IF ~ok THEN "transient" ELSE IF r.op = "close" THEN "none" ELSE "terminal"
             q == [r EXCEPT !.pc = "settle", !.err = er]
  <2>1. q.pc = "settle" /\ q.ev = r.ev /\ q.op = r.op /\ q.src = r.src /\ q.err = er /\ q.env = r.env
    BY <1>1 DEF TaskRec
  <2>2. Become(t, q)
    BY <1>2, <1>4
  <2>3. er = "none" => r.op = "close" /\ row.id = ""
    BY <1>4
  <2> HIDE DEF q, er
  <2>4. OwnOK(q, events') /\ WorkOK(q) /\ q.pc \notin CopyPc
    BY <1>0, <1>1, <2>1 DEF OwnOK, WorkOK, AttemptPc, CopyPc, TeardownPc, LateTeardown, ScalePc
  <2>5. SInv'
    BY <1>1, <2>1, <2>2, <2>4, SoloPlain
  <2>6. CASE er # "none"
    <3>1. StillKept
      BY <1>0, <2>1, <2>2, <2>6, StillKeptOn DEF Finished
    <3> QED
      BY <1>0, <2>5, <3>1, QuietSame
  <2>7. CASE er = "none"
    <3>1. row.status = ""
      BY <2>3, <2>7, Actor DEF RowOK
    <3>2. Kept(Deploys) => Kept(Deploys)'
      <4>1. events[q.ev].kind \notin Deploys
        BY <1>1, <2>1, <2>3, <2>7 DEF Deploys
      <4> QED
        BY <1>0, <2>2, <4>1, KeptOther
    <3>3. Nothing' = Nothing
      BY <1>0 DEF Nothing
    <3>4. QInv'
      BY <1>0, <3>1, <3>2, <3>3 DEF QInv
    <3> QED
      BY <2>5, <3>4
  <2> QED
    BY <2>6, <2>7
<1> QED
  BY <1>3, <1>4

LEMMA LockSolo ==
  ASSUME IInv, Solo, SInv, QInv, NEW t \in Task, Lock(t) PROVE SInv' /\ QInv'
<1> DEFINE r == task[t]
           q == [r EXCEPT !.pc = Entry(r)]
<1>0. r.pc = "lock" /\ UNCHANGED <<row, dnsRow, events, dep, dns, cert>> /\ Copied(row', row)
  BY DEF Lock, infra, Copied
<1>1. /\ r \in TaskRec /\ r.op \in Kind /\ r.src \in {"api", "inbox"} /\ OwnOK(r, events)
      /\ CopyOK(r, row) /\ (r.src = "api" => r.op \notin {"push", "close"})
      /\ r.env.id = "" => r.env.status = ""
  BY <1>0, SoloActor DEF TaskRec, WorkOK
<1>2. q.pc = Entry(r) /\ q.ev = r.ev /\ q.op = r.op /\ q.src = r.src /\ q.env = r.env
  BY <1>1 DEF TaskRec
<1>3. /\ Entry(r) \in {"upsert", "deploying", "log", "deldns", "destroying", "unlock", "sleep", "wake"}
      /\ r.src = "api" => Entry(r) \in Unlogged
      /\ Entry(r) \in {"log", "unlock"} => r.src = "api"
      /\ Entry(r) \in {"deldns", "destroying"} => r.op \in Destroys
      /\ Entry(r) \in {"sleep", "wake"} => r.op \in {"sleep", "wake"}
  BY <1>1 DEF Entry, Kind, Unlogged, Destroys
<1>4. Become(t, q)
  BY DEF Lock, Goto
<1> HIDE DEF q
<1>5. WorkOK(q) /\ DoneOK(q, dep', dns', cert')
  BY <1>2, <1>3 DEF WorkOK, DoneOK, AttemptPc, TeardownPc, LateTeardown, ScalePc
<1>6. CopyOK(q, row')
  BY <1>0, <1>1, <1>2 DEF CopyOK, CopyPc
<1>7. OwnOK(q, events')
  BY <1>0, <1>1, <1>2, <1>3 DEF OwnOK, Unlogged
<1>8. SInv'
  BY <1>4, <1>5, <1>6, <1>7, SoloMove
<1>9. StillKept
  <2>1. Finished(q) => ~Live(events[q.ev])
    BY <1>0, <1>1, <1>2, <1>3 DEF Finished, EndPc, OwnOK, Live, Pending, Dead
  <2> QED
    BY <1>0, <1>4, <2>1, StillKeptChange
<1> QED
  BY <1>0, <1>8, <1>9, QuietSame

LEMMA UnlockSolo ==
  ASSUME IInv, Solo, SInv, QInv, NEW t \in Task, Unlock(t) PROVE SInv' /\ QInv'
<1> DEFINE r == task[t]
<1>0. r.pc = "unlock" /\ UNCHANGED <<row, dnsRow, events, dep, dns, cert>> /\ Copied(row', row)
  BY DEF Unlock, infra, Copied
<1>1. /\ r \in TaskRec /\ r.src \in {"api", "inbox"} /\ OwnOK(r, events)
      /\ r.env.id = "" => r.env.status = ""
  BY SoloActor DEF TaskRec
<1>2. CASE r.src = "api"
  <2>1. Become(t, Idle)
    BY <1>2 DEF Unlock
  <2>2. SInv'
    BY <2>1, IdleSolo
  <2>3. StillKept
    BY <1>0, <2>1, StillKeptOn DEF Finished, Idle, EndPc
  <2> QED
    BY <1>0, <2>2, <2>3, QuietSame
<1>3. CASE r.src = "inbox"
  <2> DEFINE q == [r EXCEPT !.pc = "settle"]
  <2>1. q.pc = "settle" /\ q.ev = r.ev /\ q.op = r.op /\ q.src = r.src /\ q.env = r.env /\ q.err = r.err
    BY <1>1 DEF TaskRec
  <2>2. Become(t, q)
    BY <1>3 DEF Unlock
  <2> HIDE DEF q
  <2>3. WorkOK(q) /\ OwnOK(q, events') /\ q.pc \notin CopyPc
    BY <1>0, <1>1, <1>3, <2>1 DEF WorkOK, OwnOK, AttemptPc, CopyPc, TeardownPc, LateTeardown, ScalePc
  <2>4. SInv'
    BY <1>1, <2>1, <2>2, <2>3, SoloPlain
  <2>5. StillKept
    BY <1>0, <2>1, <2>2, StillKeptOn DEF Finished, EndPc
  <2> QED
    BY <1>0, <2>4, <2>5, QuietSame
<1> QED
  BY <1>1, <1>2, <1>3

LEMMA SettleSolo ==
  ASSUME IInv, Solo, SInv, QInv, NEW t \in Task, Settle(t) PROVE SInv' /\ QInv'
<1> DEFINE r == task[t]
           z == events[r.ev]
<1>0. r.pc = "settle" /\ UNCHANGED <<row, dnsRow, dep, dns, cert>> /\ Copied(row', row)
  BY DEF Settle, infra, Copied
<1>1. /\ r \in TaskRec /\ r.ev \in Event /\ r.src \in {"api", "inbox"}
      /\ z \in EventRec /\ z.state \in Pending
      /\ r.env.id = "" => r.env.status = ""
  <2>1. r \in TaskRec /\ r.ev \in Event /\ OwnOK(r, events)
    BY <1>0, SoloActor
  <2>2. z \in EventRec
    BY <2>1, Actor
  <2> QED
    BY <1>0, <2>1, <2>2, SoloActor DEF TaskRec, OwnOK, Unlogged
<1>2. \A e \in Event : Live(events[e]) /\ (Finished(r) => e # r.ev) =>
                         Live(events'[e]) /\ events'[e].kind = events[e].kind
  <2>1. CASE UNCHANGED events
    BY <2>1
  <2>2. CASE events' = [events EXCEPT ![r.ev] = SettleEvent(r)]
    <3>1. \A e \in Event : events'[e] = IF e = r.ev THEN SettleEvent(r) ELSE events[e]
      BY <1>1, <2>2, Actor
    <3>2. r.err # "none" => SettleEvent(r).kind = z.kind /\ SettleEvent(r).state \in {"waiting", "dead"}
      BY <1>1 DEF SettleEvent, EventRec
    <3>3. r.err # "none" => Live(SettleEvent(r))
      BY <3>2 DEF Live, Pending, Dead
    <3>4. r.err = "none" => Finished(r)
      BY <1>0 DEF Finished, EndPc
    <3> QED
      BY <3>1, <3>2, <3>3, <3>4
  <2> QED
    BY <2>1, <2>2 DEF Settle
<1>3. CASE r.src = "api"
  <2> DEFINE q == [r EXCEPT !.pc = "unlock"]
  <2>1. q.pc = "unlock" /\ q.ev = r.ev /\ q.src = r.src /\ q.env = r.env /\ q.err = r.err
    BY <1>1 DEF TaskRec
  <2>2. Become(t, q)
    BY <1>3 DEF Settle
  <2> HIDE DEF q
  <2>3. OwnOK(q, events') /\ WorkOK(q) /\ q.pc \notin CopyPc
    BY <1>3, <2>1 DEF OwnOK, Unlogged, WorkOK, AttemptPc, CopyPc, TeardownPc, LateTeardown, ScalePc
  <2>4. SInv'
    BY <1>1, <2>1, <2>2, <2>3, SoloPlain
  <2>5. Finished(q) => Finished(r)
    BY <1>0, <2>1 DEF Finished, EndPc
  <2>6. StillKept
    BY <1>2, <2>1, <2>2, <2>5, StillKeptChange
  <2> QED
    BY <1>0, <2>4, <2>6, QuietSame
<1>4. CASE r.src = "inbox"
  <2>1. Become(t, Idle)
    BY <1>4 DEF Settle
  <2>2. ~Finished(Idle)
    BY DEF Finished, Idle, EndPc
  <2>3. StillKept
    BY <1>2, <2>1, <2>2, StillKeptChange
  <2> QED
    BY <1>0, <2>1, <2>3, IdleSolo, QuietSame
<1> QED
  BY <1>1, <1>3, <1>4

LEMMA ClaimSolo ==
  ASSUME IInv, Solo, SInv, QInv, NEW t \in Task, NEW f \in Event, Claim(t, f) PROVE SInv' /\ QInv'
<1> DEFINE ev == events[f]
           q == [Idle EXCEPT !.pc = IF ev.kind = "push" THEN "lock" ELSE "load",
                             !.src = "inbox", !.op = ev.kind, !.art = ev.art,
                             !.ev = f, !.attempts = ev.attempts]
<1>0. UNCHANGED <<row, dnsRow, dep, dns, cert>> /\ Copied(row', row)
      /\ ~Finished(task[t])
  BY DEF Claim, infra, Copied, Finished, EndPc
<1>1. q.pc \in {"lock", "load"} /\ q.src = "inbox" /\ q.op = ev.kind /\ q.ev = f
      /\ q.env.id = "" /\ q.env.status = ""
  BY DEF Idle, NoEnv
<1>2. Become(t, q) /\ events' = [events EXCEPT ![f].state = "waiting"]
  BY DEF Claim
<1>3. /\ \A e \in Event : e # f => events'[e] = events[e]
      /\ events'[f].state = "waiting" /\ events'[f].kind = ev.kind
  BY <1>2, Actor DEF EventRec
<1> HIDE DEF q
<1>4. OwnOK(q, events')
  BY <1>1, <1>3 DEF OwnOK, Pending
<1>5. WorkOK(q) /\ DoneOK(q, dep', dns', cert') /\ ~Finished(q)
  BY <1>1 DEF WorkOK, DoneOK, AttemptPc, TeardownPc, LateTeardown, ScalePc, Finished, EndPc
<1>6. CopyOK(q, row')
  BY <1>1 DEF CopyOK
<1>7. SInv'
  BY <1>2, <1>4, <1>5, <1>6, SoloMove
<1>8. \A e \in Event : Live(events[e]) => Live(events'[e]) /\ events'[e].kind = events[e].kind
  BY <1>3 DEF Live, Pending
<1>9. StillKept
  BY <1>0, <1>2, <1>5, <1>8, StillKeptChange
<1> QED
  BY <1>0, <1>7, <1>9, QuietSame

(* A request starts with the zero environment or with the row as it is. *)
LEMMA RequestSolo ==
  ASSUME IInv, Solo, SInv, QInv, NEW t \in Task, NEW f \in Event, NEW op, NEW a,
         NEW env, env = NoEnv \/ env = row, op \notin {"push", "close"}, Request(t, f, op, a, env)
  PROVE  SInv' /\ QInv'
<1> DEFINE q == [Idle EXCEPT !.pc = "lock", !.op = op, !.art = a, !.env = env, !.ev = f]
<1>0. UNCHANGED <<row, dnsRow, events, dep, dns, cert>> /\ Copied(row', row)
  BY DEF Request, infra, Copied
<1>1. q.pc = "lock" /\ q.src = "api" /\ q.op = op /\ q.ev = f /\ q.env = env
  BY DEF Idle
<1>2. Become(t, q) /\ events[f].state = "none"
  BY DEF Request, Fresh
<1>3. (env.id = "" => env.status = "") /\ (env.id # "" => Copied(env, row'))
  <2>1. CASE env = NoEnv
    BY <2>1 DEF NoEnv
  <2>2. CASE env = row
    <3>1. row.id = "" => row.status = ""
      BY Actor DEF RowOK
    <3> QED
      BY <1>0, <2>2, <3>1 DEF Copied
  <2> QED
    BY <2>1, <2>2
<1> HIDE DEF q
<1>4. OwnOK(q, events')
  BY <1>0, <1>1, <1>2 DEF OwnOK, Unlogged
<1>5. WorkOK(q) /\ DoneOK(q, dep', dns', cert') /\ ~Finished(q)
  BY <1>1 DEF WorkOK, DoneOK, AttemptPc, TeardownPc, LateTeardown, ScalePc, Finished, EndPc
<1>6. CopyOK(q, row')
  BY <1>1, <1>3 DEF CopyOK
<1>7. SInv'
  BY <1>2, <1>4, <1>5, <1>6, SoloMove
<1>8. StillKept
  BY <1>0, <1>2, <1>5, StillKeptOn
<1> QED
  BY <1>0, <1>7, <1>8, QuietSame

(* A delivery, or a lease or backoff that ends. *)
LEMMA QueueSolo ==
  ASSUME IInv, SInv, QInv, NEW f \in Event,
         Elapse(f) \/ \E op \in Kind, a \in Artifact \cup {NoArtifact} : Deliver(f, op, a)
  PROVE  SInv' /\ QInv'
<1>0. UNCHANGED <<row, task, dnsRow, dep, dns, cert>> /\ Copied(row', row)
  BY DEF Elapse, Deliver, infra, Copied
<1>1. PICK new : /\ events' = [events EXCEPT ![f] = new] /\ new.state = "due"
                 /\ \/ events[f].state = "waiting" /\ new.kind = events[f].kind
                    \/ events[f].state = "none" /\ \A u \in Task : task[u].ev # f
  <2>1. CASE Elapse(f)
    <3> DEFINE z == [events[f] EXCEPT !.state = "due"]
    <3>1. events' = [events EXCEPT ![f] = z] /\ events[f].state = "waiting"
      BY <2>1 DEF Elapse
    <3>2. z.state = "due" /\ z.kind = events[f].kind
      BY Actor DEF EventRec, IInv, TypeOK
    <3> HIDE DEF z
    <3> QED
      BY <3>1, <3>2
  <2>2. ASSUME NEW op, NEW a, Deliver(f, op, a)
        PROVE  \E new : /\ events' = [events EXCEPT ![f] = new] /\ new.state = "due"
                        /\ events[f].state = "none" /\ \A u \in Task : task[u].ev # f
    <3> DEFINE z == [kind |-> op, art |-> a, state |-> "due", attempts |-> 0]
    <3>1. events' = [events EXCEPT ![f] = z] /\ events[f].state = "none" /\ \A u \in Task : task[u].ev # f
      BY <2>2 DEF Deliver, Fresh
    <3>2. z.state = "due"
      OBVIOUS
    <3> HIDE DEF z
    <3> QED
      BY <3>1, <3>2
  <2> QED
    BY <2>1, <2>2
<1>2. \A e \in Event : events'[e] = IF e = f THEN new ELSE events[e]
  BY <1>1 DEF IInv, TypeOK
<1>3. \A e \in Event : Live(events[e]) => Live(events'[e]) /\ events'[e].kind = events[e].kind
  BY <1>1, <1>2 DEF Live, Pending, Dead
<1>4. StillKept
  BY <1>0, <1>3, StillKeptQueue
<1>5. ASSUME NEW u \in Task PROVE OwnOK(task[u], events')
  <2>1. OwnOK(task[u], events) /\ (task[u].pc # "idle" => task[u].ev \in Event)
    BY SoloActor
  <2>2. CASE task[u].pc = "idle"
    BY <2>2 DEF OwnOK
  <2>3. CASE task[u].pc # "idle"
    <3>1. CASE task[u].ev # f
      BY <1>2, <2>1, <2>3, <3>1 DEF OwnOK
    <3>2. CASE task[u].ev = f
      BY <1>1, <1>2, <2>1, <2>3, <3>2 DEF OwnOK, Pending
    <3> QED
      BY <3>1, <3>2
  <2> QED
    BY <2>2, <2>3
<1>6. SInv'
  BY <1>0, <1>5 DEF SInv
<1> QED
  BY <1>0, <1>4, <1>6, QuietSame

LEMMA TTLSolo == ASSUME IInv, SInv, QInv, TTLExpires PROVE SInv' /\ QInv'
<1>0. UNCHANGED <<task, events, dnsRow, dep, dns, cert>>
  BY DEF TTLExpires, infra
<1>1. row \in Env /\ row' = [row EXCEPT !.ttl = "expired"]
  BY DEF IInv, TypeOK, TTLExpires
<1>2. /\ row'.id = row.id /\ row'.status = row.status /\ row'.DeployRef = row.DeployRef
      /\ row'.ArtifactRef = row.ArtifactRef /\ row'.LastGood = row.LastGood
  BY <1>1 DEF Env
<1>3. Copied(row', row)
  BY <1>2 DEF Copied
<1>4. StillKept
  BY <1>0, StillKeptQueue
<1>5. ASSUME NEW u \in Task PROVE CopyOK(task[u], row')
  <2>1. CopyOK(task[u], row)
    BY DEF SInv
  <2> QED
    BY <1>2, <2>1 DEF CopyOK, Copied
<1>6. SInv'
  BY <1>0, <1>5 DEF SInv
<1> QED
  BY <1>0, <1>3, <1>4, <1>6, QuietSame

LEMMA CrashSolo == ASSUME QInv, Crash PROVE SInv' /\ QInv'
<1>0. UNCHANGED <<row, events, dnsRow, dep, dns, cert>> /\ Copied(row', row)
  BY DEF Crash, infra, Copied
<1>1. \A u \in Task : task'[u] = Idle
  BY DEF Crash
<1>2. Idle.pc = "idle" /\ Idle.env.status = "" /\ Idle.src = "api"
  BY DEF Idle, NoEnv
<1>3. /\ CopyOK(Idle, row') /\ OwnOK(Idle, events') /\ WorkOK(Idle)
      /\ DoneOK(Idle, dep', dns', cert')
  BY <1>2 DEF CopyOK, CopyPc, OwnOK, WorkOK, DoneOK, AttemptPc, TeardownPc, LateTeardown, ScalePc
<1>4. SInv'
  BY <1>1, <1>3 DEF SInv
<1>5. StillKept
  <2>1. \A u \in Task : task'[u].pc = "idle"
    BY <1>1, <1>2
  <2> QED
    BY <1>0, <2>1, StillKeptQueue
<1> QED
  BY <1>0, <1>4, <1>5, QuietSame

-----------------------------------------------------------------------------
(* The steps of a teardown. *)

(* A teardown goes on, or ends with an error: its event excuses a row that   *)
(* claims to serve, and what an apply left behind is still excused.          *)
LEMMA QuietDestroy ==
  ASSUME QInv, StillKept, Kept(Destroys)', row'.status \in {row.status, "destroying", "destroyed"},
         dnsRow' = "none" /\ dns' # "absent" => Kept(Deploys),
         row'.DeployRef = "" /\ dep' # NoDeployment => Kept(Deploys),
         row'.status \in {"", "pending", "destroyed"} => Nothing' \/ Kept(Deploys)
  PROVE  QInv'
<1>1. Kept(Deploys \cup Destroys)' /\ Kept(Kind)'
  BY KeptMore
<1>2. Kept(Deploys) => Kept(Deploys)'
  BY DEF StillKept
<1>3. row'.status \in {"deploying", "failed", "degraded"} => Kept(Deploys)'
  BY <1>2 DEF QInv
<1> QED
  BY <1>1, <1>2, <1>3 DEF QInv

(* The event of a goroutine at a teardown or a scaling is its own. *)
LEMMA SoloOwn ==
  ASSUME IInv, Solo, SInv, NEW t \in Task, task[t].pc \in TeardownPc \cup ScalePc
  PROVE  /\ task[t] \in TaskRec /\ task[t].env \in Env /\ task[t].ev \in Event
         /\ task[t].pc \notin Unlogged \cup {"idle"}
         /\ OwnOK(task[t], events) /\ CopyOK(task[t], row) /\ DoneOK(task[t], dep, dns, cert)
         /\ events[task[t].ev].kind = task[t].op /\ events[task[t].ev].state \in Pending
         /\ task[t].pc \in TeardownPc => task[t].op \in Destroys
         /\ task[t].pc \in ScalePc => task[t].op \in {"sleep", "wake"}
         /\ task[t].env.id = "" => task[t].env.status = ""
         /\ task[t].env.id # "" => Copied(task[t].env, row)
         /\ ~Finished(task[t])
<1>1. task[t].pc \notin Unlogged \cup {"idle"} \cup EndPc /\ task[t].pc \in CopyPc
  BY DEF TeardownPc, LateTeardown, ScalePc, Unlogged, EndPc, CopyPc
<1> QED
  BY <1>1, SoloActor DEF OwnOK, WorkOK, CopyOK, Finished

(* The next step of a teardown, or of a scaling, with the same copy. *)
LEMMA NextPlace ==
  ASSUME NEW r \in TaskRec, NEW p \in TeardownPc \cup ScalePc, NEW q, NEW rw, NEW evs,
         CopyOK(r, rw), OwnOK(r, evs), r.pc \in TeardownPc \cup ScalePc,
         q.pc = p, q.env = r.env, q.src = r.src, q.op = r.op, q.ev = r.ev,
         p \in TeardownPc => q.op \in Destroys, p \in ScalePc => q.op \in {"sleep", "wake"}
  PROVE  CopyOK(q, rw) /\ OwnOK(q, evs) /\ WorkOK(q) /\ ~Finished(q)
<1>1. /\ r.pc \notin Unlogged \cup {"idle"} /\ r.pc \in CopyPc /\ q.pc \in CopyPc
      /\ q.pc \notin Unlogged \cup {"idle", "degraded", "failed"} \cup EndPc \cup AttemptPc
  BY DEF TeardownPc, LateTeardown, ScalePc, Unlogged, EndPc, CopyPc, AttemptPc
<1>2. CopyOK(q, rw)
  BY <1>1 DEF CopyOK
<1>3. OwnOK(q, evs)
  BY <1>1 DEF OwnOK, Unlogged
<1>4. WorkOK(q) /\ ~Finished(q)
  BY <1>1 DEF WorkOK, Unlogged, Finished
<1> QED
  BY <1>2, <1>3, <1>4

(* A teardown call only removes things. *)
LEMMA TeardownMoves ==
  ASSUME IInv, Solo, SInv, QInv, NEW t \in Task, NEW q, Become(t, q),
         task[t].pc \in TeardownPc, q.pc \in TeardownPc,
         q.env = task[t].env, q.src = task[t].src, q.op = task[t].op, q.ev = task[t].ev,
         DoneOK(q, dep', dns', cert'), UNCHANGED <<row, events>>,
         dns' \in {dns, "absent"}, cert' \subseteq cert, dep' \in {dep, NoDeployment},
         dnsRow' = dnsRow \/ dns' = "absent"
  PROVE  SInv' /\ QInv'
<1> DEFINE r == task[t]
<1>1. /\ r \in TaskRec /\ r.ev \in Event /\ OwnOK(r, events) /\ CopyOK(r, row)
      /\ events[r.ev].kind = r.op /\ events[r.ev].state \in Pending /\ r.op \in Destroys
  BY SoloOwn
<1>2. q.pc \in TeardownPc => q.pc \notin ScalePc
  BY DEF TeardownPc, LateTeardown, ScalePc
<1> HIDE DEF r
<1>3. CopyOK(q, row) /\ OwnOK(q, events) /\ WorkOK(q) /\ ~Finished(q)
  BY <1>1, <1>2, NextPlace DEF r
<1>4. SInv'
  BY <1>3, SoloMove
<1>5. StillKept
  BY <1>3, StillKeptOn
<1>6. Kept(Destroys)'
  BY <1>1, <1>3, KeptOwn DEF r
<1>7. Nothing => Nothing'
  BY DEF Nothing
<1>8. dnsRow' = "none" /\ dns' # "absent" => Kept(Deploys)
  BY DEF QInv
<1>9. row'.DeployRef = "" /\ dep' # NoDeployment => Kept(Deploys)
  BY DEF QInv
<1>10. row'.status \in {"", "pending", "destroyed"} => Nothing' \/ Kept(Deploys)
  BY <1>7 DEF QInv
<1>11. QInv'
  BY <1>5, <1>6, <1>8, <1>9, <1>10, QuietDestroy
<1> QED
  BY <1>4, <1>11

LEMMA TeardownSolo ==
  ASSUME IInv, Solo, SInv, QInv, NEW t \in Task,
         \/ DeleteRecord(t) \/ DeleteDNSRow(t) \/ RevokeCertificate(t)
         \/ RemoveCertificate(t) \/ Undeploy(t)
  PROVE  SInv' /\ QInv'
<1> DEFINE r == task[t]
<1>0. r.pc \in TeardownPc /\ UNCHANGED <<row, events>>
  BY DEF TeardownPc, LateTeardown, DeleteRecord, DeleteDNSRow, RevokeCertificate, RemoveCertificate, Undeploy
<1>1. r \in TaskRec /\ DoneOK(r, dep, dns, cert)
  BY <1>0, SoloOwn
<1>2. dns' \in {dns, "absent"} /\ cert' \subseteq cert /\ dep' \in {dep, NoDeployment}
  BY DEF DeleteRecord, DeleteDNSRow, RevokeCertificate, RemoveCertificate, Undeploy, infra
<1>3. dnsRow' = dnsRow \/ dns' = "absent"
  BY <1>1 DEF DeleteRecord, DeleteDNSRow, RevokeCertificate, RemoveCertificate, Undeploy, infra, DoneOK
<1>4. {"revoke", "remove", "undeploy", "destroyed", "delrow"} \subseteq TeardownPc
  BY DEF TeardownPc, LateTeardown
<1>5. ASSUME NEW p \in {"revoke", "remove", "undeploy", "destroyed"}, NEW err \in {"transient", "terminal"},
             Become(t, StepFailed(r, p, err))
      PROVE  SInv' /\ QInv'
  <2> DEFINE q == StepFailed(r, p, err)
  <2>1. /\ q.pc = p /\ q.ev = r.ev /\ q.op = r.op /\ q.src = r.src /\ q.env = r.env
        /\ q.err # "none"
    BY <1>1 DEF StepFailed, TaskRec, Worse
  <2>2. Become(t, q)
    BY <1>5
  <2> HIDE DEF q
  <2>3. DoneOK(q, dep', dns', cert')
    BY <2>1 DEF DoneOK
  <2> QED
    BY <1>0, <1>2, <1>3, <1>4, <2>1, <2>2, <2>3, TeardownMoves
<1>6. ASSUME NEW p \in {"revoke", "remove", "undeploy", "destroyed", "delrow"}, Goto(t, p),
             p = "delrow" => dns' = "absent",
             p \in {"remove", "undeploy", "destroyed"} /\ r.err = "none" => "issued" \notin cert',
             p \in {"undeploy", "destroyed"} /\ r.err = "none" => "installed" \notin cert',
             p = "destroyed" /\ r.err = "none" => r.env.DeployRef = "" \/ dep' = NoDeployment
      PROVE  SInv' /\ QInv'
  <2> DEFINE q == [r EXCEPT !.pc = p]
  <2>1. /\ q.pc = p /\ q.ev = r.ev /\ q.op = r.op /\ q.src = r.src /\ q.env = r.env
        /\ q.err = r.err
    BY <1>1 DEF TaskRec
  <2>2. Become(t, q)
    BY <1>6 DEF Goto
  <2> HIDE DEF q
  <2>3. DoneOK(q, dep', dns', cert')
    BY <1>6, <2>1 DEF DoneOK
  <2> QED
    BY <1>0, <1>2, <1>3, <1>4, <2>1, <2>2, <2>3, TeardownMoves
<1>7. CASE DeleteRecord(t)
  BY <1>5, <1>6, <1>7 DEF DeleteRecord
<1>8. CASE DeleteDNSRow(t)
  BY <1>5, <1>6, <1>8 DEF DeleteDNSRow
<1>9. CASE RevokeCertificate(t)
  BY <1>5, <1>6, <1>9 DEF RevokeCertificate
<1>10. CASE RemoveCertificate(t)
  BY <1>1, <1>5, <1>6, <1>10 DEF RemoveCertificate, DoneOK
<1>11. CASE Undeploy(t)
  BY <1>1, <1>5, <1>6, <1>11 DEF Undeploy, DoneOK
<1> QED
  BY <1>7, <1>8, <1>9, <1>10, <1>11

LEMMA MarkDestroyingSolo ==
  ASSUME IInv, Solo, SInv, QInv, NEW t \in Task, MarkDestroying(t) PROVE SInv' /\ QInv'
<1> DEFINE r == task[t]
           env == [r.env EXCEPT !.status = "destroying"]
<1>0. r.pc = "destroying" /\ r.pc \in TeardownPc /\ "deldns" \in TeardownPc \ ScalePc
      /\ UNCHANGED <<events, dnsRow, dep, dns, cert>>
  BY DEF MarkDestroying, TeardownPc, LateTeardown, ScalePc, infra
<1>1. /\ r \in TaskRec /\ r.env \in Env /\ r.ev \in Event /\ OwnOK(r, events) /\ CopyOK(r, row)
      /\ events[r.ev].kind = r.op /\ events[r.ev].state \in Pending /\ r.op \in Destroys
      /\ r.pc \notin Unlogged \cup {"idle"}
      /\ (r.env.id = "" => r.env.status = "")
      /\ (r.env.id # "" => Copied(r.env, row))
  BY <1>0, SoloOwn
<1>2. CASE row' = row /\ Goto(t, "deldns")
  <2> DEFINE q == [r EXCEPT !.pc = "deldns"]
  <2>1. q.pc = "deldns" /\ q.ev = r.ev /\ q.op = r.op /\ q.src = r.src /\ q.env = r.env
    BY <1>1 DEF TaskRec
  <2>2. Become(t, q)
    BY <1>2 DEF Goto
  <2> HIDE DEF q
  <2>3. DoneOK(q, dep', dns', cert')
    BY <2>1 DEF DoneOK
  <2> QED
    BY <1>0, <1>2, <2>1, <2>2, <2>3, TeardownMoves
<1>3. CASE \E ok \in BOOLEAN :
             /\ UpdateEnvironment(env, ok)
             /\ Become(t, IF ok THEN [r EXCEPT !.pc = "deldns", !.env = env]
                                ELSE [r EXCEPT !.pc = "unlock", !.err = "transient"])
  <2>1. PICK ok \in BOOLEAN :
             /\ UpdateEnvironment(env, ok)
             /\ Become(t, IF ok THEN [r EXCEPT !.pc = "deldns", !.env = env]
                                ELSE [r EXCEPT !.pc = "unlock", !.err = "transient"])
    BY <1>3
  <2>2. env.status = "destroying" /\ env.id = r.env.id /\ env.DeployRef = r.env.DeployRef
    BY <1>1 DEF Env
  <2>3. row' \in {row, env} /\ (ok => row' = env /\ env.id # "") /\ (row' # row => env.id # "")
    <3> HIDE DEF env
    <3>1. faults \in 0..MaxFaults
      BY Actor
    <3>2. UpdateEnvironment(env, ok)
      BY <2>1
    <3>3. row' \in {row, env} /\ (ok => row' = env) /\ (row' # row => env.id # "") /\ (ok => env.id # "")
      BY <3>1, <3>2, UpdateWrites
    <3> QED
      BY <3>3
  <2> HIDE DEF env
  <2>4. row' = row \/ (row'.status = "destroying" /\ row'.DeployRef = row.DeployRef)
    BY <1>1, <2>2, <2>3 DEF Copied
  <2>5. ASSUME NEW q, Become(t, q), q.ev = r.ev, ~Finished(q) PROVE QInv'
    <3>1. StillKept
      BY <1>0, <2>5, StillKeptOn
    <3>2. Kept(Destroys)'
      BY <1>0, <1>1, <2>5, KeptOwn
    <3>3. Nothing' = Nothing
      BY <1>0 DEF Nothing
    <3>4. dnsRow' = "none" /\ dns' # "absent" => Kept(Deploys)
      BY <1>0 DEF QInv
    <3>5. row'.DeployRef = "" /\ dep' # NoDeployment => Kept(Deploys)
      BY <1>0, <2>4 DEF QInv
    <3>6. row'.status \in {"", "pending", "destroyed"} => Nothing' \/ Kept(Deploys)
      BY <2>4, <3>3 DEF QInv
    <3>7. row'.status \in {row.status, "destroying", "destroyed"}
      BY <2>4
    <3> QED
      BY <3>1, <3>2, <3>4, <3>5, <3>6, <3>7, QuietDestroy
  <2>6. CASE ok
    <3> DEFINE q == [r EXCEPT !.pc = "deldns", !.env = env]
    <3>1. q.pc = "deldns" /\ q.ev = r.ev /\ q.op = r.op /\ q.src = r.src /\ q.env = env
      BY <1>1 DEF TaskRec
    <3>2. Become(t, q)
      BY <2>1, <2>6
    <3> HIDE DEF q
    <3>3. CopyOK(q, row')
      BY <2>3, <2>6, <3>1 DEF CopyOK, Copied
    <3>4. OwnOK(q, events')
      BY <1>0, <1>1, <3>1 DEF OwnOK, Unlogged
    <3>5. WorkOK(q) /\ DoneOK(q, dep', dns', cert') /\ ~Finished(q)
      BY <1>1, <3>1 DEF WorkOK, DoneOK, AttemptPc, TeardownPc, LateTeardown, ScalePc, Finished, EndPc
    <3>6. SInv'
      BY <3>2, <3>3, <3>4, <3>5, SoloMove
    <3> QED
      BY <2>5, <3>1, <3>2, <3>5, <3>6
  <2>7. CASE ~ok
    <3> DEFINE q == [r EXCEPT !.pc = "unlock", !.err = "transient"]
    <3>1. /\ q.pc = "unlock" /\ q.ev = r.ev /\ q.op = r.op /\ q.src = r.src /\ q.env = r.env
          /\ q.err = "transient"
      BY <1>1 DEF TaskRec
    <3>2. Become(t, q)
      BY <2>1, <2>7
    <3> HIDE DEF q
    <3>3. OwnOK(q, events')
      BY <1>0, <1>1, <3>1 DEF OwnOK, Unlogged
    <3>4. WorkOK(q) /\ q.pc \notin CopyPc /\ ~Finished(q)
      BY <3>1 DEF WorkOK, AttemptPc, CopyPc, TeardownPc, LateTeardown, ScalePc, Finished
    <3>5. SInv'
      BY <1>1, <3>1, <3>2, <3>3, <3>4, SoloPlain
    <3> QED
      BY <2>5, <3>1, <3>2, <3>4, <3>5
  <2> QED
    BY <2>6, <2>7
<1> QED
  BY <1>2, <1>3 DEF MarkDestroying

LEMMA MarkDestroyedSolo ==
  ASSUME IInv, Solo, SInv, QInv, NEW t \in Task, MarkDestroyed(t) PROVE SInv' /\ QInv'
<1> DEFINE r == task[t]
           env == [r.env EXCEPT !.status = "destroyed"]
<1>0. r.pc = "destroyed" /\ r.pc \in TeardownPc /\ UNCHANGED <<events, dnsRow, dep, dns, cert>>
  BY DEF MarkDestroyed, TeardownPc, LateTeardown, infra
<1>1. /\ r \in TaskRec /\ r.env \in Env /\ r.ev \in Event /\ OwnOK(r, events)
      /\ DoneOK(r, dep, dns, cert)
      /\ events[r.ev].kind = r.op /\ events[r.ev].state \in Pending /\ r.op \in Destroys
      /\ r.pc \notin Unlogged \cup {"idle"}
      /\ (r.env.id = "" => r.env.status = "")
      /\ (r.env.id # "" => Copied(r.env, row))
  BY <1>0, SoloOwn
<1>2. ASSUME NEW err, Become(t, Over(r, err))
      PROVE  /\ SInv'
             /\ err # "none" => StillKept /\ Kept(Destroys)'
             /\ Kept(Deploys) => Kept(Deploys)'
  <2> DEFINE q == Over(r, err)
  <2>1. /\ q.pc \in EndPc /\ q.ev = r.ev /\ q.op = r.op /\ q.env = r.env /\ q.err = err
        /\ OwnOK(q, events) /\ WorkOK(q)
    BY <1>1, OverSolo
  <2>2. Become(t, q)
    BY <1>2
  <2> HIDE DEF q
  <2>3. q.pc \notin CopyPc /\ (err # "none" => ~Finished(q)) /\ events' = events
    BY <1>0, <2>1, EndPlain DEF Finished
  <2>4. SInv'
    BY <1>1, <2>1, <2>2, <2>3, SoloPlain
  <2>5. err # "none" => StillKept
    BY <2>2, <2>3, StillKeptOn
  <2>6. err # "none" => Kept(Destroys)'
    BY <1>1, <2>1, <2>2, <2>3, KeptOwn
  <2>7. Kept(Deploys) => Kept(Deploys)'
    <3>1. events[q.ev].kind \notin Deploys
      BY <1>1, <2>1 DEF Deploys, Destroys
    <3> QED
      BY <2>2, <2>3, <3>1, KeptOther
  <2> QED
    BY <2>4, <2>5, <2>6, <2>7
<1>3. CASE r.err # "none" /\ Become(t, Over(r, r.err)) /\ row' = row
  <2>1. Copied(row', row)
    BY <1>3 DEF Copied
  <2> QED
    BY <1>0, <1>2, <1>3, <2>1, QuietSame
<1>4. CASE r.err = "none" /\ \E ok \in BOOLEAN : UpdateEnvironment(env, ok)
                               /\ Become(t, Over(r, IF ok THEN "none" ELSE "transient"))
  <2>1. PICK ok \in BOOLEAN : UpdateEnvironment(env, ok)
                              /\ Become(t, Over(r, IF ok THEN "none" ELSE "transient"))
    BY <1>4
  <2>2. env.status = "destroyed" /\ env.id = r.env.id /\ env.DeployRef = r.env.DeployRef
    BY <1>1 DEF Env
  <2>3. row' \in {row, env} /\ (ok => row' = env /\ env.id # "") /\ (row' # row => env.id # "")
    <3> HIDE DEF env
    <3>1. faults \in 0..MaxFaults
      BY Actor
    <3>2. UpdateEnvironment(env, ok)
      BY <2>1
    <3>3. row' \in {row, env} /\ (ok => row' = env) /\ (row' # row => env.id # "") /\ (ok => env.id # "")
      BY <3>1, <3>2, UpdateWrites
    <3> QED
      BY <3>3
  <2> HIDE DEF env
  <2>4. env.id # "" => Nothing \/ Kept(Deploys)
    <3>1. PassOK(r, row, dnsRow) /\ cert \in SUBSET {"issued", "installed"}
      BY Actor
    <3>2. dnsRow = "none"
      BY <1>0, <1>4, <3>1 DEF PassOK, LateTeardown
    <3>3. cert = {}
      BY <1>0, <1>1, <1>4, <3>1 DEF DoneOK
    <3>4. r.env.DeployRef = "" \/ dep = NoDeployment
      BY <1>0, <1>1, <1>4 DEF DoneOK
    <3>5. env.id # "" => r.env.DeployRef = row.DeployRef
      BY <1>1, <2>2 DEF Copied
    <3> QED
      BY <3>2, <3>3, <3>4, <3>5 DEF QInv, Nothing
  <2>5. Nothing' = Nothing
    BY <1>0 DEF Nothing
  <2>6. row' = row \/ (row'.status = "destroyed" /\ row'.DeployRef = row.DeployRef /\ env.id # "")
    BY <1>1, <2>2, <2>3 DEF Copied
  <2>7. dnsRow' = "none" /\ dns' # "absent" => Kept(Deploys)
    BY <1>0 DEF QInv
  <2>8. row'.DeployRef = "" /\ dep' # NoDeployment => Kept(Deploys)
    BY <1>0, <2>6 DEF QInv
  <2>9. row'.status \in {"", "pending", "destroyed"} => Nothing' \/ Kept(Deploys)
    BY <2>4, <2>5, <2>6 DEF QInv
  <2>10. CASE ok
    <3>1. SInv' /\ (Kept(Deploys) => Kept(Deploys)')
      BY <1>2, <2>1, <2>10
    <3>2. row'.status = "destroyed"
      BY <2>2, <2>3, <2>10
    <3>3. QInv'
      BY <2>7, <2>8, <2>9, <3>1, <3>2 DEF QInv
    <3> QED
      BY <3>1, <3>3
  <2>11. CASE ~ok
    <3>1. SInv' /\ StillKept /\ Kept(Destroys)'
      BY <1>2, <2>1, <2>11
    <3>2. row'.status \in {row.status, "destroying", "destroyed"}
      BY <2>6
    <3> QED
      BY <2>7, <2>8, <2>9, <3>1, <3>2, QuietDestroy
  <2> QED
    BY <2>10, <2>11
<1> QED
  BY <1>3, <1>4 DEF MarkDestroyed

-----------------------------------------------------------------------------
(* The steps of a sleep and of a wake. *)

LEMMA ScaleSolo ==
  ASSUME IInv, Solo, SInv, QInv, NEW t \in Task,
         NEW p \in {"sleep", "wake"}, NEW from \in {"ready", "sleeping"},
         NEW mode \in {"up", "stopped"}, NEW next \in {"asleep", "awake"},
         next = "asleep" => mode = "stopped", next = "awake" => mode = "up",
         Scale(t, p, from, mode, next)
  PROVE  SInv' /\ QInv'
<1> DEFINE r == task[t]
<1>0. r.pc = p /\ r.pc \in ScalePc /\ next \in ScalePc \ TeardownPc /\ Copied(row', row)
      /\ UNCHANGED <<row, dnsRow, events, dns, cert>>
  BY DEF Scale, ScalePc, TeardownPc, LateTeardown, Copied
<1>1. /\ r \in TaskRec /\ r.ev \in Event /\ OwnOK(r, events) /\ CopyOK(r, row)
      /\ events[r.ev].kind = r.op /\ events[r.ev].state \in Pending /\ r.op \in {"sleep", "wake"}
      /\ r.pc \notin Unlogged \cup {"idle"}
      /\ (r.env.id = "" => r.env.status = "")
      /\ (r.env.id # "" => Copied(r.env, row))
  BY <1>0, SoloOwn
<1>2. ASSUME NEW err \in {"transient", "terminal"}, Become(t, Over(r, err)), UNCHANGED dep
      PROVE  SInv' /\ QInv'
  <2> DEFINE q == Over(r, err)
  <2>1. /\ q.pc \in EndPc /\ q.ev = r.ev /\ q.op = r.op /\ q.env = r.env /\ q.err = err
        /\ OwnOK(q, events) /\ WorkOK(q)
    BY <1>1, OverSolo
  <2>2. Become(t, q)
    BY <1>2
  <2> HIDE DEF q
  <2>3. q.pc \notin CopyPc /\ ~Finished(q)
    BY <2>1, EndPlain DEF Finished
  <2>4. SInv'
    BY <1>0, <1>1, <2>1, <2>2, <2>3, SoloPlain
  <2>5. StillKept
    BY <1>0, <2>2, <2>3, StillKeptOn
  <2> QED
    BY <1>0, <1>2, <2>4, <2>5, QuietSame
<1>3. ASSUME r.env.status = from, Goto(t, next),
             dep' = IF dep.mode = "none" THEN dep ELSE [dep EXCEPT !.mode = mode]
      PROVE  SInv' /\ QInv'
  <2> DEFINE q == [r EXCEPT !.pc = next]
  <2>1. q.pc = next /\ q.ev = r.ev /\ q.op = r.op /\ q.src = r.src /\ q.env = r.env
    BY <1>1 DEF TaskRec
  <2>2. Become(t, q)
    BY <1>3 DEF Goto
  <2> HIDE DEF q
  <2>3. /\ dep.mode = "none" => dep' = dep
        /\ dep.mode # "none" => dep'.mode = mode /\ dep'.art = dep.art
    BY <1>3, Actor DEF Deployment
  <2>4. CopyOK(q, row) /\ OwnOK(q, events) /\ WorkOK(q) /\ ~Finished(q)
    BY <1>0, <1>1, <2>1, NextPlace
  <2>5. DoneOK(q, dep', dns', cert')
    BY <2>1, <2>3 DEF DoneOK
  <2>6. SInv'
    BY <1>0, <2>2, <2>4, <2>5, SoloMove
  <2>7. StillKept
    BY <1>0, <2>2, <2>4, StillKeptOn
  <2>8. Kept({"sleep", "wake"})'
    BY <1>0, <1>1, <2>1, <2>2, <2>4, KeptOwn
  <2>9. Kept(Kind)'
    BY <2>8, KeptMore
  <2>10. row.status = from
    BY <1>1, <1>3 DEF Copied
  <2>11. Served(row, dep, dns, cert) => Served(row, dep, dns, cert)'
    BY <1>0, <2>3 DEF Served
  <2>12. dep' # NoDeployment => dep # NoDeployment
    BY <2>3 DEF NoDeployment
  <2>13. QInv'
    BY <1>0, <2>7, <2>9, <2>10, <2>11, <2>12 DEF QInv, StillKept
  <2> QED
    BY <2>6, <2>13
<1> QED
  BY <1>2, <1>3 DEF Scale

LEMMA MarkScaledSolo ==
  ASSUME IInv, Solo, SInv, QInv, NEW t \in Task, NEW p, NEW status,
         \/ p = "asleep" /\ status = "sleeping"
         \/ p = "awake" /\ status = "ready",
         MarkScaled(t, p, status)
  PROVE  SInv' /\ QInv'
<1> DEFINE r == task[t]
           env == [r.env EXCEPT !.status = status]
<1>0. r.pc = p /\ r.pc \in ScalePc /\ UNCHANGED <<dnsRow, events, dep, dns, cert>>
  BY DEF MarkScaled, ScalePc, infra
<1>1. /\ r \in TaskRec /\ r.env \in Env /\ r.ev \in Event /\ OwnOK(r, events)
      /\ DoneOK(r, dep, dns, cert)
      /\ events[r.ev].kind = r.op /\ events[r.ev].state \in Pending /\ r.op \in {"sleep", "wake"}
      /\ r.pc \notin Unlogged \cup {"idle"}
      /\ (r.env.id = "" => r.env.status = "")
      /\ (r.env.id # "" => Copied(r.env, row))
  BY <1>0, SoloOwn
<1>2. r.env.status \in {"ready", "sleeping"} /\ Copied(r.env, row)
  <2>1. r.env.status \in {"ready", "sleeping"}
    BY <1>0, Actor DEF TaskOK
  <2> QED
    BY <1>1, <2>1
<1>3. dep.mode \in {"none", ModeOf(status)} /\ status \in {"ready", "sleeping"}
  BY <1>0, <1>1 DEF DoneOK, ModeOf
<1>4. PICK ok \in BOOLEAN : UpdateEnvironment(env, ok)
                            /\ Become(t, Over(r, IF ok THEN "none" ELSE "transient"))
  BY DEF MarkScaled
<1>5. /\ env.status = status /\ env.DeployRef = r.env.DeployRef /\ env.LastGood = r.env.LastGood
      /\ env.ArtifactRef = r.env.ArtifactRef
  BY <1>1 DEF Env
<1>6. row' \in {row, env} /\ (ok => row' = env)
  <2> HIDE DEF env
  <2>1. faults \in 0..MaxFaults
    BY Actor
  <2> QED
    BY <1>4, <2>1, UpdateWrites
<1> HIDE DEF env
<1>7. /\ row'.status \in {row.status, status} /\ row'.status \in {"ready", "sleeping"}
      /\ row'.DeployRef = row.DeployRef /\ row'.LastGood = row.LastGood
      /\ row'.ArtifactRef = row.ArtifactRef
  BY <1>2, <1>3, <1>5, <1>6 DEF Copied
<1>8. Served(row, dep, dns, cert) => Served(row, dep, dns, cert)'
  BY <1>0, <1>7 DEF Served
<1>9. row.status \in {"ready", "sleeping"}
  BY <1>2 DEF Copied
<1> DEFINE err == IF ok THEN "none" ELSE "transient"
           q == Over(r, err)
<1>10. /\ q.pc \in EndPc /\ q.ev = r.ev /\ q.op = r.op /\ q.env = r.env /\ q.err = err
       /\ OwnOK(q, events) /\ WorkOK(q)
  BY <1>1, OverSolo
<1>11. Become(t, q)
  BY <1>4
<1> HIDE DEF q
<1>12. q.pc \notin CopyPc /\ (~ok => ~Finished(q))
  BY <1>10, EndPlain DEF Finished
<1>13. SInv'
  BY <1>0, <1>1, <1>10, <1>11, <1>12, SoloPlain
<1>14. ASSUME NEW kinds, "sleep" \notin kinds, "wake" \notin kinds, Kept(kinds) PROVE Kept(kinds)'
  <2>1. events[q.ev].kind \notin kinds
    BY <1>1, <1>10, <1>14
  <2> QED
    BY <1>0, <1>11, <1>14, <2>1, KeptOther
<1>15. /\ Kept(Deploys) => Kept(Deploys)'
       /\ Kept(Deploys \cup Destroys) => Kept(Deploys \cup Destroys)'
  BY <1>14 DEF Deploys, Destroys
<1>16. Kept(Deploys \cup Destroys)' => Kept(Kind)'
  BY KeptMore
<1>17. Served(row, dep, dns, cert) \/ Kept(Deploys \cup Destroys)
  BY <1>9 DEF QInv
<1>18. dep'.mode = ModeOf(row'.status) \/ Kept(Kind)'
  <2>1. CASE ok
    <3>1. row'.status = status
      BY <1>5, <1>6, <2>1
    <3>2. Served(row, dep, dns, cert) => dep.mode = ModeOf(status)
      BY <1>3 DEF Served
    <3> QED
      BY <1>0, <1>15, <1>16, <1>17, <3>1, <3>2
  <2>2. CASE ~ok
    <3>1. Kept({"sleep", "wake"})'
      BY <1>0, <1>1, <1>10, <1>11, <1>12, <2>2, KeptOwn
    <3> QED
      BY <3>1, KeptMore
  <2> QED
    BY <2>1, <2>2
<1>19. QInv'
  BY <1>0, <1>7, <1>8, <1>15, <1>17, <1>18 DEF QInv
<1> QED
  BY <1>13, <1>19

-----------------------------------------------------------------------------
LEMMA SoloStep ==
  ASSUME Solo PROVE IInv /\ AInv /\ SInv /\ QInv /\ [Next]_vars => SInv' /\ QInv'
<1> SUFFICES ASSUME IInv, AInv, SInv, QInv, [Next]_vars PROVE SInv' /\ QInv'
  OBVIOUS
<1>1. CASE Clients
  <2>1. CASE \E e \in Event, op \in Kind, a \in Artifact \cup {NoArtifact} : Deliver(e, op, a)
    BY <2>1, QueueSolo
  <2>2. ASSUME NEW t \in Task, NEW e \in Event,
               \/ \E a \in Artifact : RequestApply(t, e, a)
               \/ RequestRollback(t, e)
               \/ \E op \in Kind : RequestOn(t, e, op)
               \/ Sweep(t, e)
        PROVE  SInv' /\ QInv'
    <3>1. CASE \E a \in Artifact : RequestApply(t, e, a)
      <4>1. PICK a \in Artifact : Request(t, e, "apply", a, NoEnv)
        BY <3>1 DEF RequestApply
      <4> QED
        BY <4>1, RequestSolo
    <3>2. CASE RequestRollback(t, e)
      <4>1. Request(t, e, "apply", row.LastGood, NoEnv)
        BY <3>2 DEF RequestRollback
      <4> QED
        BY <4>1, RequestSolo
    <3>3. CASE \E op \in Kind : RequestOn(t, e, op)
      <4>1. PICK op \in {"destroy", "sleep", "wake"} : Request(t, e, op, NoArtifact, row)
        BY <3>3 DEF RequestOn
      <4>2. op \notin {"push", "close"}
        OBVIOUS
      <4> QED
        BY <4>1, <4>2, RequestSolo
    <3>4. CASE Sweep(t, e)
      <4>1. Request(t, e, "destroy", NoArtifact, row)
        BY <3>4 DEF Sweep
      <4> QED
        BY <4>1, RequestSolo
    <3> QED
      BY <2>2, <3>1, <3>2, <3>3, <3>4
  <2> QED
    BY <1>1, <2>1, <2>2 DEF Clients
<1>2. CASE TTLExpires
  BY <1>2, TTLSolo
<1>3. CASE \E e \in Event : Elapse(e) \/ \E t \in Task : Claim(t, e)
  BY <1>3, QueueSolo, ClaimSolo
<1>4. ASSUME NEW t \in Task, Working(t) PROVE SInv' /\ QInv'
  <2>1. CASE Load(t) \/ Lock(t) \/ Unlock(t) \/ Settle(t)
    BY <2>1, LoadSolo, LockSolo, UnlockSolo, SettleSolo
  <2>2. CASE Applying(t)
    BY <2>2, UpsertSolo, LogSolo, MarkDeployingSolo, AttemptSolo, MarkReadySolo, MarkFailedSolo
       DEF Applying
  <2>3. CASE Destroying(t)
    BY <2>3, MarkDestroyingSolo, TeardownSolo, MarkDestroyedSolo DEF Destroying
  <2>4. CASE Scaling(t)
    BY <2>4, ScaleSolo, MarkScaledSolo DEF Scaling, Sleep, MarkSleeping, Wake, MarkAwake
  <2> QED
    BY <1>4, <2>1, <2>2, <2>3, <2>4 DEF Working
<1>5. CASE Crash
  BY <1>5, CrashSolo
<1>6. CASE Rest \/ UNCHANGED vars
  <2>1. UNCHANGED <<row, task, events, dnsRow, dep, dns, cert>>
    BY <1>6 DEF Rest, vars
  <2>2. Copied(row', row)
    BY <2>1 DEF Copied
  <2>3. StillKept
    BY <2>1, StillKeptQueue
  <2>4. SInv'
    BY <2>1 DEF SInv
  <2> QED
    BY <2>1, <2>2, <2>3, <2>4, QuietSame
<1> QED
  BY <1>1, <1>2, <1>3, <1>4, <1>5, <1>6 DEF Next

LEMMA InitSolo == Init => SInv /\ QInv
<1> SUFFICES ASSUME Init PROVE SInv /\ QInv
  OBVIOUS
<1>1. \A u \in Task : task[u] = Idle
  BY DEF Init
<1>2. Idle.pc = "idle" /\ Idle.env.status = "" /\ Idle.src = "api"
  BY DEF Idle, NoEnv
<1>3. CopyOK(Idle, row) /\ OwnOK(Idle, events) /\ WorkOK(Idle) /\ DoneOK(Idle, dep, dns, cert)
  BY <1>2 DEF CopyOK, CopyPc, OwnOK, WorkOK, DoneOK, AttemptPc, TeardownPc, LateTeardown, ScalePc
<1>4. row.status = "" /\ dns = "absent" /\ dep = NoDeployment /\ Nothing
  BY DEF Init, NoEnv, Nothing
<1> QED
  BY <1>1, <1>3, <1>4 DEF SInv, QInv

(* The invariant of the behaviours in which operations do not overlap. *)
LEMMA SoloInvariance ==
  ASSUME Solo PROVE Spec => [](IInv /\ AInv /\ SInv /\ QInv)
<1>1. Init => IInv /\ AInv /\ SInv /\ QInv
  BY InitIInv, InitAchieved, InitSolo
<1>2. IInv /\ AInv /\ SInv /\ QInv /\ [Next]_vars => (IInv /\ AInv /\ SInv /\ QInv)'
  BY StepIInv, AchievedStep, SoloStep
<1> QED
  BY <1>1, <1>2, PTL DEF Spec

(* When operations do not overlap, whatever calls fail and whenever the      *)
(* daemon crashes: once nothing runs and no event is pending or              *)
(* dead-lettered, the row tells the truth about deployment, record and       *)
(* certificate.                                                              *)
THEOREM QuietRowsAreTruthful ==
  ASSUME Solo PROVE Spec => []QuietIsTruthful
<1>1. IInv /\ QInv => QuietIsTruthful
  <2> SUFFICES ASSUME IInv, QInv, Quiet PROVE Truthful
    BY DEF QuietIsTruthful
  <2>1. ASSUME NEW kinds PROVE ~Kept(kinds)
    BY DEF Kept, Keeps, Quiet, Pending, Dead
  <2>2. row.status \in Status \cup {""} /\ dep \in Deployment
    BY DEF IInv, TypeOK, Env
  <2>3. row.status \in {"", "pending", "ready", "sleeping", "destroyed"}
    BY <2>1, <2>2 DEF QInv, Status
  <2>4. row.status \in {"", "pending", "destroyed"} => Nothing
    BY <2>1 DEF QInv
  <2>5. row.status \in {"ready", "sleeping"} =>
          Served(row, dep, dns, cert) /\ dep.mode = ModeOf(row.status)
    BY <2>1 DEF QInv
  <2>6. dep = [art |-> dep.art, mode |-> dep.mode]
    BY <2>2 DEF Deployment
  <2> QED
    BY <2>3, <2>4, <2>5, <2>6 DEF Truthful, Served, ModeOf
<1> QED
  BY <1>1, SoloInvariance, PTL

(* ... and with one caller at a time every operation, API requests included, *)
(* leaves an event behind for a branch that it left deploying or destroying. *)
THEOREM HalfWayIsRememberedAlone ==
  ASSUME Solo PROVE Spec => []InFlightIsRemembered
<1>1. QInv => InFlightIsRemembered
  BY DEF QInv, Kept, Keeps, Deploys, Destroys, InFlightIsRemembered, Remembered
<1> QED
  BY <1>1, SoloInvariance, PTL

(* ... and a destroyed branch whose events are all settled has left nothing  *)
(* behind, as the README promises: what LeakedDeployment shows takes two     *)
(* goroutines.                                                               *)
THEOREM DestroyedAloneLeavesNothing ==
  ASSUME Solo PROVE Spec => []DestroyedLeavesNothing
<1>1. QuietIsTruthful => DestroyedLeavesNothing
  BY DEF QuietIsTruthful, Truthful, DestroyedLeavesNothing
<1> QED
  BY <1>1, QuietRowsAreTruthful, PTL
=============================================================================
