----------------------------- MODULE Admission -----------------------------
(***************************************************************************)
(* Admission of webhook pushes on many branches: the policy, the ceiling on *)
(* live environments, and the paths that never ask for admission (the       *)
(* control API).  Inside the branch mutex a push takes admissionMu, looks   *)
(* the environment up, counts and reserves, each a store call of its own.   *)
(* What a pass does to a branch is abstracted to its outcome (Reconciler).  *)
(***************************************************************************)
EXTENDS Naturals, FiniteSets

CONSTANTS
  Branch,
  Allowed,          \* the branches Policy.Decide lets through
  Worker,           \* goroutines
  NoWorker, NoBranch,
  MaxConcurrent,    \* maxConcurrent (0: no ceiling)
  Ops               \* the operations of this instance

ASSUME AdmissionAssumption ==
  /\ Allowed \subseteq Branch
  /\ NoWorker \notin Worker
  /\ NoBranch \notin Branch
  /\ MaxConcurrent \in Nat
  /\ Ops \subseteq {"push", "create", "destroy"}

VARIABLES
  row,           \* the row of each branch; "deployed" is any other live status
  lock,          \* the holder of each branch mutex
  admissionMu,   \* the holder of admissionMu
  pc, branch,    \* the goroutines
  unmetered      \* history: branches once destroyed, or created by the control API

vars == <<row, lock, admissionMu, pc, branch, unmetered>>

Pc == {"idle", "push", "create", "destroy", "decide", "mu", "lookup", "count", "reserve",
       "upsert", "insert", "deploy", "teardown"}

TypeOK ==
  /\ row \in [Branch -> {"none", "pending", "deployed", "destroyed"}]
  /\ lock \in [Branch -> Worker \cup {NoWorker}]
  /\ admissionMu \in Worker \cup {NoWorker}
  /\ pc \in [Worker -> Pc]
  /\ branch \in [Worker -> Branch \cup {NoBranch}]
  /\ unmetered \subseteq Branch
  /\ admissionMu # NoWorker => pc[admissionMu] \in {"lookup", "count", "reserve"}

Init ==
  /\ row = [b \in Branch |-> "none"]
  /\ lock = [b \in Branch |-> NoWorker]
  /\ admissionMu = NoWorker
  /\ pc = [w \in Worker |-> "idle"]
  /\ branch = [w \in Worker |-> NoBranch]
  /\ unmetered = {}

(* CountLiveEnvironments: every stored row that is not destroyed. *)
Live == {b \in Branch : row[b] \in {"pending", "deployed"}}

Goto(w, p) == pc' = [pc EXCEPT ![w] = p]

Start(w, b, op) ==
  /\ op \in Ops /\ pc[w] = "idle"
  /\ Goto(w, op)
  /\ branch' = [branch EXCEPT ![w] = b]
  /\ UNCHANGED <<row, lock, admissionMu, unmetered>>

(* Mutant: pushes to one branch do not exclude each other. *)
MutLock(w) ==
  /\ pc[w] \in {"push", "create", "destroy"}
  /\ lock' = [lock EXCEPT ![branch[w]] = w]
  /\ Goto(w, CASE pc[w] = "push" -> "decide" [] pc[w] = "create" -> "insert"
               [] pc[w] = "destroy" -> "teardown")
  /\ UNCHANGED <<row, admissionMu, branch, unmetered>>

Lock(w) ==
  /\ pc[w] \in {"push", "create", "destroy"}
  /\ lock[branch[w]] = NoWorker
  /\ lock' = [lock EXCEPT ![branch[w]] = w]
  /\ Goto(w, CASE pc[w] = "push" -> "decide" [] pc[w] = "create" -> "insert"
               [] pc[w] = "destroy" -> "teardown")
  /\ UNCHANGED <<row, admissionMu, branch, unmetered>>

(* Mutant: an early return keeps admissionMu. *)
MutReturn(w) ==
  /\ pc' = [pc EXCEPT ![w] = "idle"]
  /\ branch' = [branch EXCEPT ![w] = NoBranch]
  /\ lock' = [lock EXCEPT ![branch[w]] = NoWorker]
  /\ UNCHANGED admissionMu

(* The deferred unlocks run: the operation is over. *)
Return(w) ==
  /\ pc' = [pc EXCEPT ![w] = "idle"]
  /\ branch' = [branch EXCEPT ![w] = NoBranch]
  /\ lock' = [lock EXCEPT ![branch[w]] = NoWorker]
  /\ admissionMu' = IF admissionMu = w THEN NoWorker ELSE admissionMu

Decide(w) ==
  /\ pc[w] = "decide"
  /\ \/ branch[w] \notin Allowed /\ Return(w)
     \/ /\ branch[w] \in Allowed
        /\ Goto(w, IF MaxConcurrent = 0 THEN "upsert" ELSE "mu")
        /\ UNCHANGED <<lock, admissionMu, branch>>
  /\ UNCHANGED <<row, unmetered>>

(* Mutant: counting and reserving are not serialised across branches. *)
MutTakeMu(w) ==
  /\ pc[w] = "mu"
  /\ Goto(w, "lookup")
  /\ UNCHANGED <<row, lock, admissionMu, branch, unmetered>>

TakeMu(w) ==
  /\ pc[w] = "mu"
  /\ admissionMu = NoWorker
  /\ admissionMu' = w
  /\ Goto(w, "lookup")
  /\ UNCHANGED <<row, lock, branch, unmetered>>

(* A branch that has a row is admitted, whatever the row says. *)
Lookup(w) ==
  /\ pc[w] = "lookup"
  /\ IF row[branch[w]] # "none"
     THEN admissionMu' = NoWorker /\ Goto(w, "upsert")
     ELSE Goto(w, "count") /\ UNCHANGED admissionMu
  /\ UNCHANGED <<row, lock, branch, unmetered>>

Count(w) ==
  /\ pc[w] = "count"
  /\ \/ Cardinality(Live) >= MaxConcurrent /\ Return(w)
     \/ /\ Cardinality(Live) < MaxConcurrent
        /\ Goto(w, "reserve")
        /\ UNCHANGED <<lock, admissionMu, branch>>
  /\ UNCHANGED <<row, unmetered>>

(* Mutant: the slot is not reserved; the row is left to the apply. *)
MutReserve(w) ==
  /\ pc[w] = "reserve"
  /\ admissionMu' = NoWorker
  /\ Goto(w, "upsert")
  /\ UNCHANGED <<row, lock, branch, unmetered>>

Reserve(w) ==
  /\ pc[w] = "reserve"
  /\ row' = [row EXCEPT ![branch[w]] = IF @ = "none" THEN "pending" ELSE @]
  /\ admissionMu' = NoWorker
  /\ Goto(w, "upsert")
  /\ UNCHANGED <<lock, branch, unmetered>>

(* applyWithoutEvent *)
Upsert(w) ==
  /\ pc[w] = "upsert"
  /\ row' = [row EXCEPT ![branch[w]] = IF @ = "none" THEN "pending" ELSE @]
  /\ Goto(w, "deploy")
  /\ UNCHANGED <<lock, admissionMu, branch, unmetered>>

(* applyLocked, for the control API: nobody is asked for admission. *)
Create(w) ==
  /\ pc[w] = "insert"
  /\ row' = [row EXCEPT ![branch[w]] = IF @ = "none" THEN "pending" ELSE @]
  /\ unmetered' = IF row[branch[w]] = "none" THEN unmetered \cup {branch[w]} ELSE unmetered
  /\ Goto(w, "deploy")
  /\ UNCHANGED <<lock, admissionMu, branch>>

Deploy(w) ==
  /\ pc[w] = "deploy"
  /\ row' = [row EXCEPT ![branch[w]] = "deployed"]
  /\ Return(w)
  /\ UNCHANGED unmetered

Teardown(w) ==
  /\ pc[w] = "teardown"
  /\ row' = [row EXCEPT ![branch[w]] = IF @ = "none" THEN @ ELSE "destroyed"]
  /\ unmetered' = IF row[branch[w]] = "none" THEN unmetered ELSE unmetered \cup {branch[w]}
  /\ Return(w)

(* A store call fails and the operation returns its error. *)
Fail(w) ==
  /\ pc[w] \in {"lookup", "count", "reserve", "upsert", "insert", "deploy", "teardown"}
  /\ Return(w)
  /\ UNCHANGED <<row, unmetered>>

(* The daemon dies; what was reserved stays reserved. *)
Crash ==
  /\ lock' = [b \in Branch |-> NoWorker]
  /\ admissionMu' = NoWorker
  /\ pc' = [w \in Worker |-> "idle"]
  /\ branch' = [w \in Worker |-> NoBranch]
  /\ UNCHANGED <<row, unmetered>>

admit(w) == Decide(w) \/ TakeMu(w) \/ Lookup(w) \/ Count(w) \/ Reserve(w)

Step(w) ==
  Lock(w) \/ admit(w) \/ Upsert(w) \/ Create(w) \/ Deploy(w) \/ Teardown(w) \/ Fail(w)

Next ==
  \/ \E w \in Worker : Step(w) \/ \E b \in Branch, op \in Ops : Start(w, b, op)
  \/ Crash

Spec == Init /\ [][Next]_vars

-----------------------------------------------------------------------------
(* "Only creation is capped": of the environments that pushes created and    *)
(* nobody destroyed yet, no more than the ceiling are live, although pushes  *)
(* to different branches hold different mutexes and the control API creates  *)
(* and destroys beside them.                                                 *)
CreationIsCapped == MaxConcurrent > 0 => Cardinality(Live \ unmetered) <= MaxConcurrent

(* "An event for an environment that already exists is always admitted": a   *)
(* push is only counted, and so refused, while its branch has no row, even   *)
(* when the control API creates and destroys the same branch.                *)
OnlyNewIsCounted ==
  \A w \in Worker : pc[w] \in {"count", "reserve"} => row[branch[w]] = "none"
=============================================================================
