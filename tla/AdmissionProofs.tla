-------------------------- MODULE AdmissionProofs --------------------------
(***************************************************************************)
(* The ceiling on environments for any branches, any number of goroutines   *)
(* and any ceiling.  The argument: from the lookup to the reservation a     *)
(* push holds admissionMu and the mutex of its branch, so nobody else       *)
(* reserves and its branch keeps having no row; every other way to a live   *)
(* row starts from a row that is there, or is marked unmetered.             *)
(***************************************************************************)
EXTENDS Admission, FiniteSetTheorems, TLAPS

Admitting == {"lookup", "count", "reserve"}
Inside == Pc \ {"idle", "push", "create", "destroy"}

(* The environments the ceiling is about. *)
Metered == Live \ unmetered

(* What a goroutine holds, and what that lets it rely on. *)
WorkerOK(w) ==
  /\ pc[w] # "idle" => branch[w] \in Branch
  /\ pc[w] \in Inside => lock[branch[w]] = w
  /\ pc[w] \in Admitting => admissionMu = w
  /\ pc[w] \in {"count", "reserve"} => row[branch[w]] = "none"
  /\ pc[w] = "upsert" /\ MaxConcurrent > 0 => row[branch[w]] # "none"
  /\ pc[w] = "deploy" => row[branch[w]] # "none"

(* The slot a push counted is still free when it reserves it. *)
SlotOK ==
  /\ IsFiniteSet(Live)
  /\ MaxConcurrent > 0 => Cardinality(Metered) <= MaxConcurrent
  /\ \A w \in Worker : pc[w] = "reserve" => Cardinality(Metered) < MaxConcurrent

IInv ==
  /\ TypeOK
  /\ \A w \in Worker : WorkerOK(w)
  /\ \A b \in Branch : row[b] = "destroyed" => b \in unmetered
  /\ SlotOK

LEMMA InitIInv == Init => IInv
<1> SUFFICES ASSUME Init PROVE IInv
  OBVIOUS
<1>1. Live = {} /\ Metered = {}
  BY DEF Init, Live, Metered
<1>2. SlotOK
  BY <1>1, FS_EmptySet, AdmissionAssumption DEF Init, SlotOK
<1> QED
  BY <1>2, AdmissionAssumption DEF Init, IInv, TypeOK, WorkerOK, Inside, Admitting, Pc

(* A goroutine that returns gives up its branch and what it held. *)
LEMMA ReturnOK ==
  ASSUME IInv, NEW w \in Worker, pc[w] \in Inside, Return(w)
  PROVE  /\ lock' \in [Branch -> Worker \cup {NoWorker}]
         /\ admissionMu' \in Worker \cup {NoWorker}
         /\ pc' \in [Worker -> Pc]
         /\ branch' \in [Worker -> Branch \cup {NoBranch}]
         /\ admissionMu' # NoWorker => pc'[admissionMu'] \in Admitting
         /\ pc'[w] = "idle"
         /\ \A v \in Worker : v # w => pc'[v] = pc[v] /\ branch'[v] = branch[v]
         /\ \A v \in Worker : v # w /\ pc[v] \in Inside =>
              branch[v] # branch[w] /\ lock'[branch[v]] = v
         /\ \A v \in Worker : v # w /\ pc[v] \in Admitting => admissionMu' = v
         /\ branch[w] \in Branch
<1>1. branch[w] \in Branch /\ lock[branch[w]] = w
  BY DEF IInv, WorkerOK, Inside
<1>2. "idle" \in Pc
  BY DEF Pc
<1>3. \A v \in Worker : v # w /\ pc[v] \in Inside => branch[v] \in Branch /\ lock[branch[v]] = v
  BY DEF IInv, WorkerOK, Inside
<1>4. \A v \in Worker : pc[v] \in Admitting => admissionMu = v
  BY DEF IInv, WorkerOK
<1>5. w # NoWorker
  BY AdmissionAssumption
<1> QED
  BY <1>1, <1>2, <1>3, <1>4, <1>5 DEF IInv, TypeOK, Return, Admitting

(* A step that meters nothing new, and lets nobody reserve, keeps the slots. *)
LEMMA SlotKept ==
  ASSUME IInv, NEW b, Live' \subseteq Live \cup {b}, Metered' \subseteq Metered,
         \A v \in Worker : pc'[v] = "reserve" => pc[v] = "reserve"
  PROVE  SlotOK'
<1>1. IsFiniteSet(Live) /\ IsFiniteSet(Live \cup {b})
  BY FS_AddElement DEF IInv, SlotOK
<1>2. IsFiniteSet(Live') /\ IsFiniteSet(Metered)
  BY <1>1, FS_Subset DEF Metered
<1>3. Cardinality(Metered') <= Cardinality(Metered) /\ Cardinality(Metered) \in Nat
      /\ Cardinality(Metered') \in Nat
  BY <1>2, FS_Subset, FS_CardinalityType
<1> QED
  BY <1>2, <1>3, AdmissionAssumption DEF IInv, SlotOK

(* Neither row nor history moves, and w does not get to reserve. *)
LEMMA SlotUntouched ==
  ASSUME IInv, UNCHANGED <<row, unmetered>>,
         \A v \in Worker : pc'[v] = "reserve" => pc[v] = "reserve"
  PROVE  SlotOK'
<1>1. Live' = Live /\ Metered' = Metered
  BY DEF Live, Metered
<1> QED
  BY <1>1, SlotKept, AdmissionAssumption

LEMMA StartStep ==
  ASSUME IInv, NEW w \in Worker, NEW b \in Branch, NEW op \in Ops, Start(w, b, op) PROVE IInv'
<1>1. op \in {"push", "create", "destroy"} /\ op \in Pc
  BY AdmissionAssumption DEF Pc
<1>2. TypeOK'
  BY <1>1 DEF IInv, TypeOK, Start, Goto
<1>3. ASSUME NEW v \in Worker PROVE WorkerOK(v)'
  BY <1>1 DEF IInv, TypeOK, WorkerOK, Start, Goto, Inside, Admitting
<1>4. SlotOK'
  BY <1>1, SlotUntouched DEF IInv, TypeOK, Start, Goto
<1> QED
  BY <1>2, <1>3, <1>4 DEF IInv, Start

LEMMA LockStep == ASSUME IInv, NEW w \in Worker, Lock(w) PROVE IInv'
<1>1. branch[w] \in Branch /\ pc[w] \notin Inside /\ pc[w] \notin Admitting
  BY DEF IInv, WorkerOK, Lock, Inside, Admitting
<1>2. pc'[w] \in {"decide", "insert", "teardown"} /\ pc' \in [Worker -> Pc]
      /\ \A v \in Worker : v # w => pc'[v] = pc[v]
  BY DEF IInv, TypeOK, Lock, Goto, Pc
<1>3. TypeOK'
  BY <1>1, <1>2 DEF IInv, TypeOK, Lock, Admitting
<1>4. ASSUME NEW v \in Worker PROVE WorkerOK(v)'
  <2>1. CASE v = w
    BY <1>1, <1>2, <2>1 DEF IInv, TypeOK, WorkerOK, Lock, Inside, Admitting
  <2>2. CASE v # w
    <3>1. pc[v] \in Inside => branch[v] \in Branch /\ lock[branch[v]] = v /\ v # NoWorker
      BY AdmissionAssumption DEF IInv, WorkerOK, Inside
    <3>2. pc[v] \in Inside => branch[v] # branch[w]
      BY <3>1 DEF Lock
    <3>3. pc[v] \in Inside => lock'[branch[v]] = v
      BY <1>1, <3>1, <3>2 DEF IInv, TypeOK, Lock
    <3> QED
      BY <1>2, <2>2, <3>3 DEF IInv, WorkerOK, Lock
  <2> QED
    BY <2>1, <2>2
<1>5. SlotOK'
  BY <1>2, SlotUntouched DEF Lock
<1> QED
  BY <1>3, <1>4, <1>5 DEF IInv, Lock

(* A return from inside keeps the invariant when no row changed. *)
LEMMA ReturnStep ==
  ASSUME IInv, NEW w \in Worker, pc[w] \in Inside, Return(w), UNCHANGED <<row, unmetered>>
  PROVE  IInv'
<1>1. TypeOK'
  BY ReturnOK DEF IInv, TypeOK, Admitting
<1>2. ASSUME NEW v \in Worker PROVE WorkerOK(v)'
  <2>1. CASE v = w
    BY <2>1, ReturnOK DEF WorkerOK, Inside, Admitting
  <2>2. CASE v # w
    BY <2>2, ReturnOK DEF IInv, WorkerOK
  <2> QED
    BY <2>1, <2>2
<1>3. SlotOK'
  BY ReturnOK, SlotUntouched
<1> QED
  BY <1>1, <1>2, <1>3 DEF IInv

(* A step of w inside its branch mutex that only moves its pc. *)
LEMMA GotoOK ==
  ASSUME IInv, NEW w \in Worker, NEW p \in Pc, Goto(w, p)
  PROVE  pc' \in [Worker -> Pc] /\ pc'[w] = p /\ \A v \in Worker : v # w => pc'[v] = pc[v]
  BY DEF IInv, TypeOK, Goto

LEMMA DecideStep == ASSUME IInv, NEW w \in Worker, Decide(w) PROVE IInv'
<1>0. pc[w] = "decide" /\ pc[w] \in Inside /\ UNCHANGED <<row, unmetered>>
  BY DEF Decide, Inside, Pc
<1>1. CASE Return(w)
  BY <1>0, <1>1, ReturnStep
<1>2. CASE ~Return(w)
  <2>1. PICK p \in {"upsert", "mu"} : Goto(w, p) /\ (p = "upsert" => MaxConcurrent = 0)
    BY <1>2 DEF Decide
  <2>2. UNCHANGED <<lock, admissionMu, branch>> /\ p \in Pc
    BY <1>2 DEF Decide, Pc
  <2>3. pc' \in [Worker -> Pc] /\ pc'[w] = p /\ \A v \in Worker : v # w => pc'[v] = pc[v]
    BY <2>1, <2>2, GotoOK
  <2>4. TypeOK'
    BY <1>0, <2>2, <2>3 DEF IInv, TypeOK
  <2>5. \A v \in Worker : WorkerOK(v)'
    BY <1>0, <2>1, <2>2, <2>3 DEF IInv, WorkerOK, Inside, Admitting
  <2>6. SlotOK'
    BY <1>0, <2>3, SlotUntouched
  <2> QED
    BY <1>0, <2>4, <2>5, <2>6 DEF IInv
<1> QED
  BY <1>1, <1>2

LEMMA TakeMuStep == ASSUME IInv, NEW w \in Worker, TakeMu(w) PROVE IInv'
<1>0. pc[w] = "mu" /\ pc[w] \in Inside /\ UNCHANGED <<row, lock, branch, unmetered>>
      /\ admissionMu = NoWorker /\ admissionMu' = w /\ "lookup" \in Pc
  BY DEF TakeMu, Inside, Pc
<1>1. pc' \in [Worker -> Pc] /\ pc'[w] = "lookup" /\ \A v \in Worker : v # w => pc'[v] = pc[v]
  BY <1>0, GotoOK DEF TakeMu
<1>2. \A v \in Worker : pc[v] \notin Admitting
  BY <1>0, AdmissionAssumption DEF IInv, WorkerOK
<1>3. TypeOK'
  BY <1>0, <1>1 DEF IInv, TypeOK
<1>4. ASSUME NEW v \in Worker PROVE WorkerOK(v)'
  BY <1>0, <1>1, <1>2 DEF IInv, WorkerOK, Inside, Admitting
<1>5. SlotOK'
  BY <1>0, <1>1, SlotUntouched
<1> QED
  BY <1>0, <1>3, <1>4, <1>5 DEF IInv

LEMMA LookupStep == ASSUME IInv, NEW w \in Worker, Lookup(w) PROVE IInv'
<1>0. pc[w] = "lookup" /\ pc[w] \in Inside /\ UNCHANGED <<row, lock, branch, unmetered>>
      /\ "upsert" \in Pc /\ "count" \in Pc
  BY DEF Lookup, Inside, Pc
<1>1. admissionMu = w /\ \A v \in Worker : v # w => pc[v] \notin Admitting
  BY <1>0 DEF IInv, WorkerOK, Admitting
<1>2. PICK p \in {"upsert", "count"} :
        /\ Goto(w, p)
        /\ p = "upsert" => row[branch[w]] # "none" /\ admissionMu' = NoWorker
        /\ p = "count" => row[branch[w]] = "none" /\ admissionMu' = admissionMu
  BY DEF Lookup
<1>3. pc' \in [Worker -> Pc] /\ pc'[w] = p /\ \A v \in Worker : v # w => pc'[v] = pc[v]
  BY <1>0, <1>2, GotoOK
<1>4. TypeOK'
  BY <1>0, <1>1, <1>2, <1>3 DEF IInv, TypeOK
<1>5. ASSUME NEW v \in Worker PROVE WorkerOK(v)'
  BY <1>0, <1>1, <1>2, <1>3 DEF IInv, WorkerOK, Inside, Admitting
<1>6. SlotOK'
  BY <1>0, <1>3, SlotUntouched
<1> QED
  BY <1>0, <1>4, <1>5, <1>6 DEF IInv

LEMMA CountStep == ASSUME IInv, NEW w \in Worker, Count(w) PROVE IInv'
<1>0. pc[w] = "count" /\ pc[w] \in Inside /\ UNCHANGED <<row, unmetered>> /\ "reserve" \in Pc
  BY DEF Count, Inside, Pc
<1>1. CASE Return(w)
  BY <1>0, <1>1, ReturnStep
<1>2. CASE ~Return(w)
  <2>1. Cardinality(Live) < MaxConcurrent /\ Goto(w, "reserve")
        /\ UNCHANGED <<lock, admissionMu, branch>>
    BY <1>2 DEF Count
  <2>2. pc' \in [Worker -> Pc] /\ pc'[w] = "reserve" /\ \A v \in Worker : v # w => pc'[v] = pc[v]
    BY <1>0, <2>1, GotoOK
  <2>3. admissionMu = w /\ \A v \in Worker : v # w => pc[v] \notin Admitting
    BY <1>0 DEF IInv, WorkerOK, Admitting
  <2>4. TypeOK'
    BY <1>0, <2>1, <2>2, <2>3 DEF IInv, TypeOK
  <2>5. \A v \in Worker : WorkerOK(v)'
    BY <1>0, <2>1, <2>2 DEF IInv, WorkerOK, Inside, Admitting
  <2>6. SlotOK'
    <3>1. Live' = Live /\ Metered' = Metered
      BY <1>0 DEF Live, Metered
    <3>2. IsFiniteSet(Live) /\ Metered \in SUBSET Live
      BY DEF IInv, SlotOK, Metered
    <3>3. Cardinality(Metered) <= Cardinality(Live) /\ Cardinality(Metered) \in Nat
          /\ Cardinality(Live) \in Nat
      BY <3>2, FS_Subset, FS_CardinalityType
    <3>4. Cardinality(Metered) < MaxConcurrent
      BY <2>1, <3>3, AdmissionAssumption
    <3> QED
      BY <3>1, <3>2, <3>4 DEF IInv, SlotOK
  <2> QED
    BY <1>0, <2>4, <2>5, <2>6 DEF IInv
<1> QED
  BY <1>1, <1>2

(* Goroutines inside are on different branches. *)
LEMMA Apart ==
  ASSUME IInv, NEW v \in Worker, NEW w \in Worker, v # w, pc[v] \in Inside, pc[w] \in Inside
  PROVE  branch[v] \in Branch /\ branch[w] \in Branch /\ branch[v] # branch[w]
  BY DEF IInv, WorkerOK, Inside

LEMMA ReserveStep == ASSUME IInv, NEW w \in Worker, Reserve(w) PROVE IInv'
<1>0. pc[w] = "reserve" /\ pc[w] \in Inside /\ admissionMu' = NoWorker /\ "upsert" \in Pc
      /\ UNCHANGED <<lock, branch, unmetered>>
  BY DEF Reserve, Inside, Pc
<1>1. branch[w] \in Branch /\ row[branch[w]] = "none" /\ admissionMu = w
      /\ \A v \in Worker : v # w => pc[v] \notin Admitting
  BY <1>0 DEF IInv, WorkerOK, Admitting
<1>2. row' = [row EXCEPT ![branch[w]] = "pending"]
  BY <1>1 DEF IInv, TypeOK, Reserve
<1>3. pc' \in [Worker -> Pc] /\ pc'[w] = "upsert" /\ \A v \in Worker : v # w => pc'[v] = pc[v]
  BY <1>0, GotoOK DEF Reserve
<1>4. TypeOK'
  BY <1>0, <1>1, <1>2, <1>3 DEF IInv, TypeOK
<1>5. ASSUME NEW v \in Worker PROVE WorkerOK(v)'
  <2>1. CASE v = w
    BY <1>0, <1>1, <1>2, <1>3, <2>1 DEF IInv, TypeOK, WorkerOK, Inside, Admitting
  <2>2. CASE v # w
    <3>1. pc[v] \in Inside => row'[branch[v]] = row[branch[v]]
      BY <1>0, <1>2, <2>2, Apart DEF IInv, TypeOK
    <3> QED
      BY <1>0, <1>1, <1>3, <2>2, <3>1 DEF IInv, WorkerOK, Inside, Admitting, Pc
  <2> QED
    BY <2>1, <2>2
<1>6. SlotOK'
  <2>1. Live' = Live \cup {branch[w]} /\ Metered' \subseteq Metered \cup {branch[w]}
    BY <1>0, <1>1, <1>2 DEF IInv, TypeOK, Live, Metered
  <2>2. IsFiniteSet(Live) /\ IsFiniteSet(Metered) /\ Cardinality(Metered) \in Nat
        /\ IsFiniteSet(Live')
    <3>1. IsFiniteSet(Live) /\ Metered \in SUBSET Live
      BY DEF IInv, SlotOK, Metered
    <3>2. IsFiniteSet(Live')
      BY <2>1, <3>1, FS_AddElement
    <3> QED
      BY <3>1, <3>2, FS_Subset, FS_CardinalityType
  <2>3. Cardinality(Metered \cup {branch[w]}) <= Cardinality(Metered) + 1
        /\ IsFiniteSet(Metered \cup {branch[w]})
        /\ Cardinality(Metered \cup {branch[w]}) \in Nat
    <3>1. IsFiniteSet(Metered \cup {branch[w]})
          /\ Cardinality(Metered \cup {branch[w]}) \in
               {Cardinality(Metered), Cardinality(Metered) + 1}
      BY <2>2, FS_AddElement
    <3> QED
      BY <2>2, <3>1
  <2>4. Cardinality(Metered') <= Cardinality(Metered \cup {branch[w]})
        /\ Cardinality(Metered') \in Nat
    BY <2>1, <2>3, FS_Subset, FS_CardinalityType
  <2>5. Cardinality(Metered) < MaxConcurrent
    BY <1>0 DEF IInv, SlotOK
  <2>6. Cardinality(Metered') <= MaxConcurrent
    BY <2>2, <2>3, <2>4, <2>5, AdmissionAssumption
  <2>7. \A v \in Worker : pc'[v] # "reserve"
    BY <1>1, <1>3 DEF Admitting
  <2> QED
    BY <2>2, <2>6, <2>7 DEF SlotOK
<1> QED
  BY <1>0, <1>1, <1>2, <1>4, <1>5, <1>6 DEF IInv, TypeOK

(* The upsert of a row that is there changes nothing the ceiling counts; one *)
(* that creates a row runs without a ceiling, or marks the branch.           *)
LEMMA PutStep ==
  ASSUME IInv, NEW w \in Worker, pc[w] \in {"upsert", "insert"},
         row' = [row EXCEPT ![branch[w]] = IF @ = "none" THEN "pending" ELSE @],
         unmetered \subseteq unmetered',
         unmetered' \subseteq unmetered \cup {branch[w]},
         MaxConcurrent > 0 /\ row[branch[w]] = "none" => branch[w] \in unmetered',
         Goto(w, "deploy"), UNCHANGED <<lock, admissionMu, branch>>
  PROVE  IInv'
<1>0. pc[w] \in Inside /\ pc[w] \notin Admitting /\ "deploy" \in Pc /\ branch[w] \in Branch
  BY DEF IInv, WorkerOK, Inside, Pc, Admitting
<1>1. /\ row' \in [Branch -> {"none", "pending", "deployed", "destroyed"}]
      /\ row'[branch[w]] # "none"
      /\ row'[branch[w]] = "destroyed" => row[branch[w]] = "destroyed"
      /\ \A b \in Branch : b # branch[w] \/ row[b] # "none" => row'[b] = row[b]
  BY <1>0 DEF IInv, TypeOK
<1>2. pc' \in [Worker -> Pc] /\ pc'[w] = "deploy" /\ \A v \in Worker : v # w => pc'[v] = pc[v]
  BY <1>0, GotoOK
<1>3. TypeOK'
  BY <1>0, <1>1, <1>2 DEF IInv, TypeOK, Admitting
<1>4. ASSUME NEW v \in Worker PROVE WorkerOK(v)'
  <2>1. CASE v = w
    BY <1>0, <1>1, <1>2, <2>1 DEF IInv, WorkerOK, Inside, Admitting
  <2>2. CASE v # w
    <3>1. pc[v] \in Inside => row'[branch[v]] = row[branch[v]]
      BY <1>0, <1>1, <2>2, Apart
    <3> QED
      BY <1>2, <2>2, <3>1 DEF IInv, WorkerOK, Inside, Pc
  <2> QED
    BY <2>1, <2>2
<1>5. SlotOK'
  <2>1. Live' \subseteq Live \cup {branch[w]}
    BY <1>1 DEF Live
  <2>2. CASE MaxConcurrent > 0
    <3>1. Metered' \subseteq Metered
      BY <1>1, <2>2 DEF Live, Metered
    <3> QED
      BY <1>2, <2>1, <3>1, SlotKept
  <2>3. CASE MaxConcurrent = 0
    <3>1. IsFiniteSet(Live) /\ IsFiniteSet(Live')
      BY <2>1, FS_AddElement, FS_Subset DEF IInv, SlotOK
    <3>2. Cardinality(Metered) \in Nat
      BY <3>1, FS_Subset, FS_CardinalityType DEF Metered
    <3>3. ~(Cardinality(Metered) < MaxConcurrent)
      BY <2>3, <3>2
    <3>4. \A v \in Worker : pc'[v] # "reserve"
      BY <1>2, <3>3 DEF IInv, SlotOK
    <3> QED
      BY <2>3, <3>1, <3>4 DEF SlotOK
  <2> QED
    BY <2>2, <2>3, AdmissionAssumption
<1> QED
  BY <1>1, <1>3, <1>4, <1>5 DEF IInv

LEMMA UpsertStep == ASSUME IInv, NEW w \in Worker, Upsert(w) PROVE IInv'
<1>1. pc[w] = "upsert" /\ (MaxConcurrent > 0 => row[branch[w]] # "none")
  BY DEF Upsert, IInv, WorkerOK
<1> QED
  BY <1>1, PutStep DEF Upsert

LEMMA CreateStep == ASSUME IInv, NEW w \in Worker, Create(w) PROVE IInv'
<1>1. unmetered \subseteq unmetered' /\ unmetered' \subseteq unmetered \cup {branch[w]}
      /\ (row[branch[w]] = "none" => branch[w] \in unmetered')
  BY DEF Create
<1> QED
  BY <1>1, PutStep DEF Create

(* A return that writes the row of its branch, which was there. *)
LEMMA WriteReturn ==
  ASSUME IInv, NEW w \in Worker, pc[w] \in {"deploy", "teardown"}, Return(w),
         row' \in [Branch -> {"none", "pending", "deployed", "destroyed"}],
         \A b \in Branch : b # branch[w] => row'[b] = row[b],
         row'[branch[w]] = "destroyed" => branch[w] \in unmetered',
         unmetered \subseteq unmetered',
         unmetered' \subseteq unmetered \cup {branch[w]},
         branch[w] \in Live' => branch[w] \in Live \cup unmetered
  PROVE  IInv'
<1>0. pc[w] \in Inside
  BY DEF Inside, Pc
<1>1. TypeOK'
  BY <1>0, ReturnOK DEF IInv, TypeOK, Admitting
<1>2. ASSUME NEW v \in Worker PROVE WorkerOK(v)'
  <2>1. CASE v = w
    BY <1>0, <2>1, ReturnOK DEF WorkerOK, Inside, Admitting
  <2>2. CASE v # w
    <3>1. pc[v] \in Inside => row'[branch[v]] = row[branch[v]]
      BY <1>0, <2>2, Apart
    <3> QED
      BY <1>0, <2>2, <3>1, ReturnOK DEF IInv, WorkerOK, Inside, Pc
  <2> QED
    BY <2>1, <2>2
<1>3. SlotOK'
  <2>1. Live' \subseteq Live \cup {branch[w]} /\ Metered' \subseteq Metered
    BY DEF Live, Metered
  <2> QED
    BY <1>0, <2>1, SlotKept, ReturnOK
<1> QED
  BY <1>1, <1>2, <1>3 DEF IInv

LEMMA DeployStep == ASSUME IInv, NEW w \in Worker, Deploy(w) PROVE IInv'
<1>1. pc[w] = "deploy" /\ branch[w] \in Branch /\ row[branch[w]] # "none"
  BY DEF Deploy, IInv, WorkerOK
<1>2. branch[w] \in Live \cup unmetered
  BY <1>1 DEF IInv, TypeOK, Live
<1>3. row' = [row EXCEPT ![branch[w]] = "deployed"] /\ unmetered' = unmetered /\ Return(w)
  BY DEF Deploy
<1>4. row' \in [Branch -> {"none", "pending", "deployed", "destroyed"}]
      /\ row'[branch[w]] = "deployed" /\ \A b \in Branch : b # branch[w] => row'[b] = row[b]
  BY <1>1, <1>3 DEF IInv, TypeOK
<1> QED
  BY <1>1, <1>2, <1>3, <1>4, WriteReturn

LEMMA TeardownStep == ASSUME IInv, NEW w \in Worker, Teardown(w) PROVE IInv'
<1>1. pc[w] = "teardown" /\ branch[w] \in Branch /\ Return(w)
  BY DEF Teardown, IInv, WorkerOK
<1>2. row' \in [Branch -> {"none", "pending", "deployed", "destroyed"}]
      /\ (row'[branch[w]] = "destroyed" => branch[w] \in unmetered')
      /\ branch[w] \notin Live'
      /\ \A b \in Branch : b # branch[w] => row'[b] = row[b]
  BY <1>1 DEF Teardown, IInv, TypeOK, Live
<1>3. unmetered \subseteq unmetered' /\ unmetered' \subseteq unmetered \cup {branch[w]}
  BY DEF Teardown
<1> QED
  BY <1>1, <1>2, <1>3, WriteReturn

LEMMA FailStep == ASSUME IInv, NEW w \in Worker, Fail(w) PROVE IInv'
  BY ReturnStep DEF Fail, Inside, Pc

LEMMA CrashStep == ASSUME IInv, Crash PROVE IInv'
<1>1. "idle" \in Pc /\ \A w \in Worker : pc'[w] = "idle"
  BY DEF Crash, Pc
<1>2. TypeOK'
  BY <1>1 DEF IInv, TypeOK, Crash
<1>3. \A w \in Worker : WorkerOK(w)'
  BY <1>1 DEF WorkerOK, Inside, Admitting
<1>4. SlotOK'
  BY <1>1, SlotUntouched DEF Crash
<1> QED
  BY <1>2, <1>3, <1>4 DEF IInv, Crash

LEMMA StepIInv == IInv /\ [Next]_vars => IInv'
<1> SUFFICES ASSUME IInv, [Next]_vars PROVE IInv'
  OBVIOUS
<1>1. CASE UNCHANGED vars
  BY <1>1 DEF IInv, TypeOK, WorkerOK, SlotOK, Live, Metered, vars
<1>2. ASSUME NEW w \in Worker, Step(w) PROVE IInv'
  BY <1>2, LockStep, DecideStep, TakeMuStep, LookupStep, CountStep, ReserveStep, UpsertStep,
     CreateStep, DeployStep, TeardownStep, FailStep DEF Step, admit
<1> QED
  BY <1>1, <1>2, StartStep, CrashStep DEF Next

(* Whoever is past the branch mutex holds it, whoever is between lookup and  *)
(* reservation holds admissionMu, and the slot it counted is still free.     *)
THEOREM Invariance == Spec => []IInv
  BY InitIInv, StepIInv, PTL DEF Spec

(* The variables keep their types, and admissionMu is held only by a push    *)
(* that is being admitted: no early return, failure or crash leaks it.       *)
THEOREM TypeCorrect == Spec => []TypeOK
<1>1. IInv => TypeOK
  BY DEF IInv
<1> QED
  BY <1>1, Invariance, PTL

(* Whatever runs beside it, of the environments that pushes created and      *)
(* nobody destroyed no more than the ceiling are live.                       *)
THEOREM Ceiling == Spec => []CreationIsCapped
<1>1. IInv => CreationIsCapped
  BY DEF IInv, SlotOK, Metered, CreationIsCapped
<1> QED
  BY <1>1, Invariance, PTL

(* A push is counted, and so refused, only while its branch has no row.      *)
THEOREM ExistingIsAdmitted == Spec => []OnlyNewIsCounted
<1>1. IInv => OnlyNewIsCounted
  BY DEF IInv, WorkerOK, OnlyNewIsCounted
<1> QED
  BY <1>1, Invariance, PTL
=============================================================================
