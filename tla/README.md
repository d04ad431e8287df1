# Ramify in TLA+

Ramify (`cmd/ramifyd`) gives every branch or pull request a preview environment:
a deployment on a VPS or in Kubernetes, a DNS record and a certificate. This
directory models the parts of it where several goroutines, failing provider
calls and restarts meet, model-checks them with TLC on small instances, and
proves all of their safety properties with TLAPS for every instance. Paths below are
relative to the repository; `PROJECT.json` holds the line-by-line map.

## 1. Inventory

| component | state | operations | talks to |
|---|---|---|---|
| reconciler (`internal/core/reconciler.go`) | none of its own but mutexes | Apply, Destroy, Sleep, Wake, ProcessWebhookEvent, ProcessEvent, ReplayEvents | store, deploy, DNS, certificate and notify providers |
| branch mutexes (`internal/core/keyedmutex.go`) | map of reference-counted mutexes | Lock, release function | every reconciler operation |
| store (`internal/store`) | environments, dns_records, events (SQLite, one connection) | create, update with the status graph, claim, settle, list, prune | reconciler, API, daemon loop |
| webhook inbox (`internal/api`, `cmd/ramifyd`) | events table, bounded queue, 8 pool workers, one event loop | receive, enqueue, poll, replay in batches, lease, retry, dead-letter, prune | git hosts, reconciler |
| admission (`admit`, `internal/core/policy`) | admissionMu | policy decision, count, reserve | store |
| reaper (`internal/core/reaper.go`) | none | Sweep | store, Destroy |
| control API (`internal/api`) | socket file, process lock | create, update, delete, rollback, sleep, wake, list, logs, readiness | reconciler, store |
| DNS providers (4) | records and TXT ownership markers at the provider | EnsureRecord, DeleteRecord, List | reconciler, ACME challenges |
| ACME provider | certificate cache in memory and on disk | EnsureCertificate, RevokeCertificate | CA, DNS provider |
| deploy providers (compose over SSH, Kubernetes) | remote deployments | Apply, HealthCheck, Sleep, Wake, Destroy, Install/RemoveCertificate | reconciler |
| daemon (`cmd/ramifyd`) | the process, its loops | start, replay, serve, stop on a signal | everything above |
| git providers (3) | none | ParseWebhook: payload to event | webhook handler |
| notifications, metrics, configuration, normalisation, CLI | none that matters here | comment, count, validate | |

How they interact. A webhook is stored as an event and answered; a copy goes to
the in-memory queue of the pool. Every two seconds the event loop lists due
events and replays them. Pool and loop race to claim an event (a compare-and-set
that is also a ten minute lease), and call the reconciler. API requests and the
reaper call the reconciler directly; it stores an event of its own before the
first provider call. Everything on one project/branch runs under that branch's
mutex, but much is read before the mutex is taken.

What is hard: copies of rows and events that are stale when used; two paths
that pick up the same event; provider calls that fail half way; a crash between
any two calls; nested retries; the ceiling across branches; events that must
eventually be retired; host names that several branches share; two daemons on
one socket; webhooks that come late, batched or after the fact. `PROJECT.json` lists these as hazards, each at its line.

What makes each part correct:

- reconciler: a row that claims to serve is complete; nothing is published
  before it is healthy; a destroyed environment leaves nothing behind;
  unfinished work is remembered; when all is quiet the row tells the truth.
- mutexes: exclusion per key although entries are reclaimed, no leak, no starvation.
- inbox: accepted means kept; one worker per event; retired exactly once, not
  early, and eventually.
- admission: the ceiling holds across branches and updates are never refused;
  the filter lets through what the documentation says, however a host words it.
- DNS: what is not ours is not touched, retries make no second record, and a
  name has one owner.
- certificates: memory, disk and CA agree, and none is issued for nobody.
- daemon: a running one keeps its socket, a dead one blocks nobody, a start
  settles, a signal ends the process.

## 2. Modules

| module | models | extends / uses |
|---|---|---|
| `EnvStore` | the environments row and the status graph | |
| `Reconciler` | every operation on ONE branch, one action per store or provider call | `EnvStore` |
| `MCReconciler` | symmetry for TLC | `Reconciler` |
| `ReconcilerProofs` | inductive invariant and theorems | `Reconciler` |
| `BranchLock` | abstract: one mutex per key | |
| `KeyedMutex` | `keyedmutex.go`, action by critical section | instance of `BranchLock` |
| `KeyedMutexProofs` | inductive invariant, theorems, refinement | `KeyedMutex` |
| `InboxAbs` | abstract: what a delivery may go through | |
| `EventInbox` / `MCEventInbox` | webhook handler, queue, pool, event loop, leases, pruning, restart | instance of `InboxAbs` |
| `EventInboxProofs` | inductive invariants, theorems, refinement | `EventInbox` |
| `Admission` / `MCAdmission` | policy, admissionMu, count and reserve on many branches | |
| `AdmissionProofs` | inductive invariant and theorems | `Admission` |
| `DNSOwnership` / `MCDNSOwnership` | records and markers of ONE host name at each of the four DNS providers, one action per request | |
| `DNSOwnershipProofs` | inductive invariant and theorems | `DNSOwnership` |
| `CertCache` / `MCCertCache` | the ACME provider: cache, files, CA | |
| `CertCacheProofs` | inductive invariant and theorems | `CertCache` |
| `Daemon` / `MCDaemon` | several processes on one socket path: start, replay, Serve, stop, crash | |
| `DaemonProofs` | inductive invariant and theorems | `Daemon` |
| `Intake` / `MCIntake` | what the webhooks of the three git hosts become, and the filter | |
| `IntakeProofs` | inductive invariant and theorems | `Intake` |

### Reconciler

The state is the row (`row`), its dns_records row (`dnsRow`), the event log
(`events`), the outside world (`dep`, `dns`, `cert`), the branch mutex (`lock`)
and the goroutines (`task`). A goroutine is a record whose `pc` names its next
call; `env` is the copy of the row it carries, `attempts` the attempts of its
copy of the event, `try` the attempt of `doApply` (budget + 1 is the
compensating rollback), `err` the worst error so far.

- `Deliver`, `RequestApply`, `RequestRollback`, `RequestOn`, `Sweep` are the
  requests; they carry what was read before the mutex. A push may carry no
  revision (`"barepush"` in `Ops`): a GitHub payload without `after`
  (github.go:195) or a Bitbucket target without a hash (bitbucket.go:181) becomes
  a push event with an empty artifact, which nothing on the webhook's way
  rejects; the API handlers do reject it.
- `Claim`, `Load`, `Lock` are the start of `ProcessEvent`; `Entry` tells which
  call comes first under the mutex (the API checks the status of its copy here).
- `Upsert`, `Log`, `MarkDeploying`, `Deploy` ... `MarkReady`, `MarkDegraded`,
  `MarkFailed` are `applyLocked`, `doApply` and `attemptApply`.
- `MarkDestroying` ... `MarkDestroyed` are `destroyLocked`/`destroyWithoutEvent`
  and `doDestroy`, which goes on after failed steps and joins their errors.
- `Sleep`, `MarkSleeping`, `Wake`, `MarkAwake`; `Settle` is `markProcessed`,
  `MarkEventRetry` or `MarkEventDeadLettered`; `Crash` drops goroutines and
  mutexes and keeps the store.

`ttl` is TTLExpiresAt against the clock; an event is `due` or `waiting`
(next_attempt_at in the future). A call that fails uses one of `MaxFaults`
faults, and may have had its effect all the same where the code cannot know
(a deploy, a DNS write, a committed transaction whose row could not be read
back). Some refusals need no fault: an illegal status transition, a DNS name
without our marker, a scale of something that does not exist. There is one
deployment, one DNS record and one certificate per branch; notifications, log
lines and the lengths of backoffs are left out. The dns provider is modelled on
`cloudflare.go`; how the four differ is `DNSOwnership`. RevokeCertificate is
simpler here than in acme.go:250-259: a call that fails has had no effect and a
retry is not refused; `CertCache` has the partial effects. A reserved
environment of `Admission` reaches `Upsert` as an existing row, which is why the
ceiling can be a module of its own.

### KeyedMutex

`Register` and `Drop` are the two sections under `k.mu`, `Acquire` and `Release`
the entry's own mutex. Entries are heap addresses, which can be used again once
nothing refers to them.

### EventInbox

Rows are kept in creation order, `pruned` rows in place. What the reconciler
does with an event is its outcome (`Work`). `Timeout` is the five minute context
of a pool worker, after which nothing can be recorded; a replay has no deadline,
so with `SlowWork` it outlasts its lease.
The startup replay (`tick.phase = "boot"`) ends before the daemon serves.

### Admission

`Decide`, `TakeMu`, `Lookup`, `Count`, `Reserve` are `admit`; `create` is an
apply through the control API, which is never asked for admission. What a pass
does to a branch is abstracted to its result. A store call may fail at any time
and the daemon may die at any time; neither is bounded.

### DNSOwnership

`main` and `txt` are the A records and the TXT markers at one host name, `row`
the branches that have a dns_records row, `call` the request each branch is at
and what it has listed so far. Two branches share the name: subdomains come from
the branch name alone, and two projects, or two spellings of one branch, hold
different mutexes. `ListMain` ... `Mark` are EnsureRecord, `CheckMarker` ...
`Unmark` DeleteRecord; which steps are taken in which order, and what a write
does to a set or to a single record, depends on `provider`. `RecordRow` and
`ForgetRow` are the store's side in attemptApply and doDestroy. `requote` is what
Cloud DNS markers go through that are read and written back
(`googlecloud.go:173`). An answer can be lost after the request took effect; a
crash ends all calls; the operator adds and removes records of its own when no
call is under way (a provider offers nothing to guard against an operator in
between two requests). It adds them only where there is neither a record nor a
marker: a record added beside a marker that a cut DeleteRecord left is not
covered, and ForeignIsUntouched says nothing of it.

The properties differ by provider because the code does. `raced` voids
NoDuplicates and EnsuredIsExclusive: no provider takes a lock, and two branches
that list an empty name both create. `halfGone` voids EnsuredIsExclusive: after a
DeleteRecord cut before its last request another branch may take the name while
the first is still marked. MarkersAreKept holds on Cloudflare unconditionally,
on Cloud DNS (whose changes are conditional) unless calls overlap and requote
each other's markers, and not on Route 53, which overwrites the set. DigitalOcean
accepts a record that already has the value before it looks for its marker.

### CertCache

One action is a critical section of `mu`, a file operation or a request to the
CA. `issueMu` is held from `TakeIssueMu` to the deferred unlock in `Return`;
RevokeCertificate does not take it. `Age` brings a certificate within 30 days of
its end. `Restart` is New with loadCache. The CA may have issued, or revoked,
although the call failed, and refuses to revoke twice. `cut` and `raced` collect
the hosts whose revocation failed or died half way, or overlapped with another
call; nothing clears them, so CacheIsTruthful exempts such a host for good.

### Daemon

Processes share `path`, the process whose socket file the path names, and
`lock`, the flock beside it. `unix` says whether the platform has the lock
(`pidlock_other.go` is a no-op). `pc` walks through run and Serve; `why` keeps
why Serve gave up. `Close` unlinks by name, as closing a Go unix listener does.
A dial to a live socket can time out, which is a fault. `Exit` waits for the
loops, which end on the signal only.

### Intake

The repository at the host moves and sends payloads in its own words; each is
mapped by the provider's ParseWebhook, decided by `Decide` and applied. `Push`
changes one branch or two, each by a commit or by deleting it; Bitbucket sends
such a push as one delivery, the others as one webhook per branch.
`CommitWithTag` brings a tag along, `OddPush` is a push webhook without a commit;
`Propose`, `Conclude` and `Edit` are about the pull request. A branch has one pull
request at a time, and deleting the branch closes it. A branch name and a pattern
are sequences of segments.

`want` is the answer of docs/providers.md and skills/ramify/SKILL.md, computed
from the moves and from `Promised` and `Glob`, which read patterns as the
documentation does, not from events: every commit and deletion counts, whichever
place it has in its push, and a push without a commit changes nothing. In two
cases the code does otherwise (section 7): Bitbucket's parser sees the first
branch of a push only, and GitHub's deploys a push without a commit. Such
branches are `astray`, and QuietMatchesDocs exempts them, until a later change to
the branch puts it right; a second branch with an open request is not astray, for
the request reports the change as well.

## 3. Runs

Bounds: two goroutines are the least that race, three events the least for
push, close and push again; attempts of 2 give a retry and an end of the budget;
one or two faults, and one crash, can fall between any two calls. Symmetry is
used for safety runs only.

| run | instance | checks |
|---|---|---|
| `ReconcilerWebhooks` | 2 goroutines, 3 events (pushes with and without a revision, closes), sleep and wake requests, 1 artifact and the empty one, 1 fault, 1 crash | TypeOK, ServingRowIsComplete, RecordBelongsToLiveRow, InFlightIsRemembered, PublishedOnlyWhenUp |
| `ReconcilerOneCaller` | 1 goroutine, every operation, pushes without a revision included, 3 events, 2 artifacts, 1 fault, 1 crash | QuietIsTruthful |
| `ReconcilerLiveness` | 2 goroutines, 2 webhook events, 1 fault, 1 crash, fair | EventsRetire, BranchSettles |
| `KeyedMutex` | 3 goroutines, 2 keys, 3 entries, fair | TypeOK, MutualExclusion, NoIdleEntries, ImplementsBranchLock, EveryWaiterEnters |
| `EventInbox` | 2 deliveries, 1 pool worker, 2 replay goroutines, queue of 1, polls of 1 row, 2 faults, 1 crash, fair | TypeOK, AnsweredIsKept, OneWorkerPerEvent, NotGivenUpEarly, KeepsPromise, EveryEventRetires |
| `Admission` | 4 branches (3 allowed), 3 goroutines, ceiling 2, pushes, API creates, destroys | TypeOK, CreationIsCapped, OnlyNewIsCounted |
| `DNSOwnership` | 2 branches and an operator, 4 providers, 1 fault, 1 crash | TypeOK, ForeignIsUntouched, NoDuplicates, MarkersAreKept, EnsuredIsExclusive |
| `CertCache` | 2 goroutines, 2 hosts, 3 certificates, 1 fault, 1 restart | TypeOK, CacheIsTruthful, NoStrayCertificate |
| `Daemon` | 2 processes, with and without the lock, 4 starts, 2 faults, 1 crash, fair | TypeOK, NotHijacked, LeftoversDoNotBlock, StartSettles, SignalEnds |
| `Intake` | 3 hosts, 5 filters, 2 branches, 4 moves of one branch or two, 4 webhooks under way | TypeOK, ClosedNeverDeploys, GateIsAbsolute, QuietMatchesDocs |

What the passing runs do not say. QuietIsTruthful is checked with one goroutine
because with two it does not hold: `LeakedDeployment` below is the reason.
InFlightIsRemembered is checked for webhook events with sleeps and wakes beside
them, not for API applies and destroys (`LostApply`), and
CreationIsCapped leaves out branches whose environment was once destroyed
(section 7) or that the control API created, which never asks.
ServingRowIsComplete and RecordBelongsToLiveRow under concurrent API applies,
rollbacks and destroys rest on the theorems of section 4 rather than on a run.
`ReconcilerLiveness` leaves out pushes without a revision, with which it outgrows
its time; no step waits on the revision. QuietMatchesDocs leaves out the two
pushes that are not read as documented (section 2, Intake).

In `Daemon` four starts let each process start again after the other took over,
and its deadlock is the bound on starts (`Intake`: on moves), so both cfgs turn
the deadlock check off. Four moves are enough to push two branches, open a
request, relabel or push to it, and close it, and to push or delete again behind
any two of these; a move may change both branches. Three certificates let a host be issued,
revoked and issued again beside the other one.

Two runs show that the code does not do what the repository says of it. The
sentences are quoted in `PROJECT.json` under findings; section 7 lists the rest.

| run | what TLC finds |
|---|---|
| `LeakedDeployment` | a close event that waited behind a push destroys from a copy without DeployRef; the branch is destroyed and its deployment runs on |
| `LostApply` | an API apply's own event is due at once, so it is applied twice; a crash in the second pass is remembered by nobody |

Fairness. `ReconcilerLiveness`: goroutines run (WF of `Working`), timers fire,
and the mutex and the claim are strongly fair, because `sync.Mutex` hands itself
to a long waiter and the loop offers every due event to a worker every two
seconds. `KeyedMutex`: strong fairness of `Acquire` for the same reason, weak
fairness of release; nobody has to ask. `EventInbox`: weak fairness of
handlers, workers, the loop and the clock. `Daemon`: weak fairness of each
process's own steps (`Step`): the operating system runs a process that can run,
and every call of the start and the shutdown returns. Clients, faults and
crashes are never fair.

## 4. Proofs

Each theorem holds for every value of the constants that the named assumption
of its module allows; the assumptions only say that sets are disjoint where the
model needs it, that bounds are numbers and that names and patterns are not
empty. Where a theorem needs more, its statement says so, and what follows says
why. Every inductive invariant was
checked with TLC on the run's instance before it was proved. No invariant of
section 3 is inductive as it stands; what each proof adds, and why, follows.

`ReconcilerProofs` (`ReconcilerAssumption`: any goroutines,
events, artifacts, budgets and bounds): `TypeCorrect`, `ServingRowsAreComplete`,
`RecordsBelongToLiveRows`. A goroutine writes whole rows from a copy it may have
read long ago, so `IInv` adds

- `TaskOK`: each copy is itself complete whenever it claims to serve, a compensating
  rollback has a named revision other than the one asked for to go back to, an
  attempt's copy asks for that revision or (the zero environment) for none, and
  the copy has the status the next write assumes;
- `PassOK`: while an attempt runs with a real environment the row says
  deploying, and late in a teardown without an error the DNS row is gone;
- `Holds(task[t]) => lock = t`, so that only one goroutine is between such calls;
- `EventOK` and `RowOK`: stored events can be dispatched, the row is complete.

The point that needs care is `MarkReady` from `deploying` in an attempt whose
copy is the zero environment: it has no id, so the store refuses the write, and
`PassOK` speaks of attempts with an id only. Each action has a lemma; frame
lemmas (`FrameOutside`, `FrameHolder`, `FrameLock`, `FrameEvents`) carry the
parts that a goroutine of one kind cannot disturb.

- `PublicOnlyWhenUp` is the part of PublishedOnlyWhenUp about the record and the
  certificate, for every operation. `AInv` says what an attempt has achieved by
  the time it reaches a call; only the holder of the mutex can undo it.
- `PublishedWhenUp` is all of PublishedOnlyWhenUp, under `"wake" \notin Ops`. The
  condition is needed: a wake that waited behind an apply that crashed carries a
  sleeping copy and writes ready over deploying.
- `HalfWayIsRemembered` is InFlightIsRemembered, under `Ops \subseteq {"push",
  "barepush", "close"}` (`LostApply` refutes it for API requests) and `~SlowWork` (a lease
  outlasts the work). `FInv`: a goroutine's event stays leased to it alone, and
  every path with an error keeps that error to the end. `JInv`: a row that is half
  way has an event of the right kind that nobody is about to mark processed.
- `QuietRowsAreTruthful` is QuietIsTruthful, and `HalfWayIsRememberedAlone` is
  InFlightIsRemembered with API requests and slow replays, both under `Solo`: at
  most one goroutine, so that operations never overlap, while events, retries,
  failures and crashes do as they like. `LeakedDeployment` and `LostApply` are
  why `Solo` is needed. Rows are untrue most of the time, and the invariant says
  what excuses each untruth: an event that is kept (pending or dead-lettered, and
  no goroutine is about to mark it processed) of a kind whose success repairs it.
  `QInv` lists the pairs: a row that is deploying, failed or degraded, a record or
  deployment the row does not know of, and leftovers of a branch without an
  environment need a deploy; a row that is destroying needs a teardown; one that
  claims to serve what is not there, either of them; a deployment that is up or
  stopped against the status, any event at all. `SInv` is what carries the excuse
  from step to step: an operation past its `Log` has its own event pending
  (`OwnOK`), an attempt that failed keeps its error to the end (`WorkOK`), a
  teardown without an error has really removed what it passed (`DoneOK`), and its
  copy of the row is current but for the TTL (`CopyOK`). Each action that ends an
  operation well has to show that what it was the excuse for is now true, or that
  another kept event excuses it. `DestroyedAloneLeavesNothing` follows.

`KeyedMutexProofs` (`KeyedMutexAssumption`, finitely many goroutines):
`TypeCorrect`, `Exclusion`, `Forgetting`, and `Refinement`, that KeyedMutex
implements `BranchLock` (register asks, acquire takes, release gives, drop
stutters). `IInv` says that a caller's entry is the one the map has for its key,
that no entry serves two keys, and that the count of an entry is the number of its
users, never zero: that is why a waiter's entry cannot be deleted.

`DaemonProofs` (`NoneAssumption`, `PlatformsAssumption`; any number of
processes, any bounds): `TypeCorrect`, `SocketIsSafe` (NotHijacked) and
`StaleSocketIsReplaced` (LeftoversDoNotBlock). A process about to remove or bind
the path could meet an open listener, so `IInv` adds `Exclusive`, that a process
between taking the lock and the end of Serve is the lock's holder, and
`PathIsFree`, that the path is as the process at that point of listenUnix left
it. Both properties are about the platform with the lock; without it TLC finds
the hijack at once.

`AdmissionProofs` (`AdmissionAssumption`; any branches, goroutines and ceiling):
`TypeCorrect`, `Ceiling` (CreationIsCapped), `ExistingIsAdmitted`
(OnlyNewIsCounted). Between the count and the reservation the number of live
environments could grow, so `IInv` adds that a push being admitted holds
admissionMu and its branch's mutex, that its branch still has no row, and
that before a reservation the slot it counted is free (`SlotOK`).

`EventInboxProofs` (`EventInboxAssumption`): `TypeCorrect`,
`NothingAnsweredIsLost` (AnsweredIsKept), `BudgetIsSpent` (NotGivenUpEarly)
without any condition; `Exclusion` (OneWorkerPerEvent) and `Refinement`
(KeepsPromise: the inbox implements `InboxAbs`) under `~SlowWork`, which the
code needs: a replay that outlasts its lease shares its event (section 7). Rows
are only appended or rewritten in place and attempts never fall (`Grows`), so
every copy in the queue, the batch or a call names a row that is there and knows
no more attempts than it (`Good`); `LInv` adds that the row of a call at work
stays leased.

`CertCacheProofs` (`CertAssumption`): `TypeCorrect`, `Truthful`
(CacheIsTruthful), `NoStray` (NoStrayCertificate). Memory and disk differ in the
middle of every call, so `IInv` says for each host and each step how far they may
differ: `HostOK` where no revocation overlapped with another call, `WholeOK`
where moreover none was cut short.

`IntakeProofs` (`IntakeAssumption`; any branches, policies and bounds):
`TypeCorrect`, `ClosedStaysDown` (ClosedNeverDeploys), `LabelGate`
(GateIsAbsolute). Webhooks are processed long after they were sent, so `IInv`
says of every payload under way that it is one its host could send for a request
in that state (`Sendable`).

- `DocumentationHolds` is QuietMatchesDocs. Of the webhooks under way about a
  branch only the last that changes it matters, so `DInv` speaks of that one: it
  leaves the branch as `want` says, and if there is none the environment is as
  `want` says already (`Heeded`). No induction over the queue is needed, because
  every webhook that one move sends about a branch says the same of it
  (`HeededAfterMove`); for a push of two branches, `PushReported` shows that each
  is reported by its own webhooks alone. A branch that is `astray` is excused
  until it is changed again; `DInv` adds that it can be out of step only if the
  filter lets a push through, which is why a later commit that is seen
  repairs it.
- `GlobMatches`: on documented patterns of any length `matches` is the
  documented `Glob`. That the cuts of `Glob` count 1, 2, 3 ... is an induction
  on numbers, done by a least counterexample (`LeastNumber`, `CountsUp`).

`DNSOwnershipProofs` (`DNSAssumption`: finitely many branches, none named like a
requoted marker): `TypeCorrect`, `OperatorKeepsTheName` (ForeignIsUntouched),
`Idempotent` (NoDuplicates), `MarkersStay` (MarkersAreKept), `OneOwner`
(EnsuredIsExclusive). A call decides from what it listed one or two requests
earlier. `IInv` says what each provider lets it rely on: while an operator's
record is at the name a call can only be refused (`Refused`); on Cloudflare the
marker an EnsureRecord saw as its own is still there (`StillOwned`), because ids
tell markers apart (`IdsOK`); while calls do not overlap at most one is under way
(`OneCall`) and what it listed is current (`Current`, `Marking`); `CloudDNSOK` and
`ExclusiveOK` keep the markers of a name down to one owner.

Model-checked only:

- all liveness (EventsRetire, BranchSettles, EveryWaiterEnters, EveryEventRetires,
  StartSettles, SignalEnds): fairness is out of the prover's reach;
- what the theorems above leave out by a condition: PublishedOnlyWhenUp with
  wakes, InFlightIsRemembered with overlapping API requests (refuted by
  `LostApply`), QuietIsTruthful with overlapping operations (refuted by
  `LeakedDeployment`), the inbox with replays that outlast their lease;
- the two runs that expect a violation.

## 5. Not modelled

- Signatures, JSON, HTTP status codes, authentication, headers, the dashboard,
  notifications, metrics, log lines, lists and pages, the CLI: they read state or
  format it, and change none that a property here depends on.
- Backup and schema migration: one sequential pass at start, on files.
- The commands of the deploy providers (SSH, docker compose, kubectl): I/O; their
  effects on a deployment are steps of `Reconciler`.
- Configuration and `domain.Normalize`: pure functions on strings, checked best
  by their unit tests. That two names normalise to one is in `DNSOwnership`.
- The ACME account key and the TXT records of DNS-01 challenges, which sit at
  names of their own; ListManagedRecords, which the daemon never calls.
- Lengths of time: backoff and jitter, leases and TTLs are "not yet" and "now".

## 6. Plan

Done: the nine components above, and proofs of every safety property of the
eight that have behaviour of their own. Left: `DeployTarget`, compose and
Kubernetes Apply, scale, destroy and certificates of two branches that share a
compose project or a host name.

## 7. What the models show besides

Behaviour found while modelling, present in the models and without a run of its
own. Each is a sequence of steps the code allows today.

Reconciler and inbox:

- A teardown cut between the DNS record and its row is refused by its retry
  (ErrOwnershipMismatch is permanent, and no provider answers
  ErrRecordAlreadyAbsent), and is dead-lettered (reconciler.go:639, against 625).
- A failing last write of an attempt returns the zero environment, with which the
  remaining attempts and the final status write carry on (reconciler.go:498).
- A replay that outlasts its lease shares its event with a second goroutine
  (`SlowWork`; reconciler.go:830, against 827).
- A queued stale copy reschedules an event whose budget is used up
  (reconciler.go:918, against 914).
- A destroy replayed after a crash tears down on a row never marked destroying
  (reconciler.go:863, against 560).
- A wake that waited behind a destroy still reaches the provider
  (reconciler.go:746).
- The reaper destroys an environment that a push refreshed after the listing
  (reaper.go:51).
- A replayed call that never returns keeps the event loop in its batch
  (reconciler.go:819, against 804).
- A push to a branch destroyed before has a row and is not counted against the
  ceiling (reconciler.go:279, against docs/operations.md:141).
- A push without a revision is deployed and its row turns ready with an empty
  last good revision, so that neither the API's rollback nor the compensating one
  has anything to go back to (reconciler.go:492, github.go:195).
- A push that is retried, or processed late, after the close of its branch brings
  the environment back: events carry no order (reconciler.go:934).

Providers:

- DigitalOcean takes over a record that already has the right value, whoever
  owns it, and leaves it unmarked, so that its DeleteRecord is refused later
  (digitalocean.go:102, against 89).
- Two branches that ensure an empty name at the same time both create a record
  (Cloudflare, DigitalOcean) or overwrite each other's marker (Route 53).
- Cloud DNS markers of other branches are quoted again whenever the set is
  rewritten, after which their owner is refused (googlecloud.go:173 and 210).
- Compose project names are normalised from project and branch joined by a dash,
  so `a/b` with `c-d` and `a/b-c` with `d` share one deployment
  (compose.go:127); Kubernetes names are hashes (kubernetes.go:110).
- A revocation that fails or dies before its file is removed is asked of the CA
  again, which refuses it (acme.go:250, against 239); one that overlaps with an
  issue for the same host can remove the newer file (acme.go:257). A teardown
  revokes the certificate of its host name even if another project serves it.

Daemon and intake:

- A second daemon replays the inbox before it asks for the lock, and when the
  lock is refused its event and reaper loops run on until a signal (main.go:157).
- A control API whose accept loop died is not noticed until the signal
  (server.go:208).
- The readiness threshold of 1000 pending events is compared with a list of at
  most 100 (handlers.go:64).
- A malformed deny pattern lets its branches through (policy.go:93 says it must
  not), and `**` inside a pattern is read as `*`.
- A GitHub push without a commit is deployed (github.go:195), although
  skills/ramify/SKILL.md:365 and 378 have only a push with a head commit applied
  and anything else ignored.
- Of a Bitbucket push that names several branches only the first is seen
  (bitbucket.go:172): a commit behind it deploys nothing and a deletion leaves its
  environment up, unless a pull request reports it, against docs/providers.md:104
  and skills/ramify/SKILL.md:365. With
  `required_labels` Bitbucket has no gate at all, also under `pr_only`
  (policy.go:73). Bitbucket deliveries are deduplicated by `X-Hook-UUID`
  (bitbucket.go:250); `EventInbox` takes that id to differ between deliveries,
  which is for the host to keep.
