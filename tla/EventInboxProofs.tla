-------------------------- MODULE EventInboxProofs --------------------------
(***************************************************************************)
(* The durable inbox for any deliveries, pool and batch sizes, limits and   *)
(* budgets.  Rows are only appended or rewritten in place, their keys stay   *)
(* and their attempts never fall (Grows), so a copy made at any time names a *)
(* row that is still there and never knows more attempts than it (Good).    *)
(* While no replay outlasts its lease, the row a call works on stays leased, *)
(* which gives exclusion and, with it, the refinement of InboxAbs.           *)
(***************************************************************************)
EXTENDS EventInbox, FiniteSetTheorems, SequenceTheorems, TLAPS

Caller == Worker \cup Slot

(* The copies a goroutine may have of the rows as they are. *)
Good == {c \in Copy : c.id \in Id /\ c.attempts <= rows[c.id].attempts}

Tick(copies) == [phase : {"boot", "wait", "replay"}, serving : BOOLEAN, todo : Seq(copies)]

CallOK(c) ==
  /\ c.pc # "idle" => c.ev \in Good
  /\ c.pc = "settle" /\ c.err = "terminal" => c.ev.id \in permanent

UniqueKeys ==
  \A i, j \in Id : rows[i].key = rows[j].key /\ rows[i].state # "pruned" /\ rows[j].state # "pruned"
                     => i = j

IInv ==
  /\ TypeOK
  /\ queue \in Seq(Good)
  /\ tick \in Tick(Good)
  /\ \A p \in Caller : CallOK(proc[p])
  /\ AnsweredIsKept
  /\ NotGivenUpEarly
  /\ UniqueKeys

(* What every step does to the rows. *)
Grows ==
  /\ Len(rows) <= Len(rows')
  /\ \A i \in Id : rows'[i].key = rows[i].key /\ rows[i].attempts <= rows'[i].attempts

RowStep ==
  /\ rows' \in Seq(Row) /\ Len(rows') <= MaxRows
  /\ Grows
  /\ NotGivenUpEarly' /\ UniqueKeys'

LEMMA RowsTyped ==
  ASSUME TypeOK
  PROVE  /\ rows \in Seq(Row) /\ Len(rows) \in Nat /\ MaxRows \in Nat
         /\ \A i \in Id : /\ rows[i] \in Row /\ rows[i].key \in Delivery
                          /\ rows[i].state \in RowState /\ rows[i].attempts \in Nat
         /\ MaxEventAttempts \in Nat /\ QueueSize \in Nat /\ ListLimit \in Nat /\ BootLimit \in Nat
         /\ MaxFaults \in Nat /\ MaxCrashes \in Nat
<1>1. rows \in Seq(Row) /\ Len(rows) \in Nat
  BY LenProperties DEF TypeOK
<1>2. \A i \in Id : rows[i] \in Row
  BY <1>1, ElementOfSeq DEF Id
<1> QED
  BY <1>1, <1>2, EventInboxAssumption DEF Row

LEMMA InitIInv == Init => IInv
<1> SUFFICES ASSUME Init PROVE IInv
  OBVIOUS
<1>1. rows = <<>> /\ queue = <<>> /\ Len(rows) = 0 /\ Len(queue) = 0 /\ tick.todo = <<>>
  BY EmptySeq DEF Init, Booting
<1>2. Id = {}
  BY <1>1 DEF Id
<1>3. rows \in Seq(Row) /\ queue \in Seq(Copy) /\ queue \in Seq(Good)
      /\ <<>> \in Seq(Copy) /\ <<>> \in Seq(Good)
  BY <1>1, EmptySeq
<1>4. MaxRows \in Nat /\ QueueSize \in Nat /\ MaxFaults \in Nat /\ MaxCrashes \in Nat
  BY EventInboxAssumption
<1>5. tick \in Tick(Copy) /\ tick \in Tick(Good)
  BY <1>3 DEF Init, Booting, Tick
<1>6. TypeOK
  BY <1>1, <1>3, <1>4, <1>5 DEF Init, TypeOK, Tick, Call, IdleCall
<1> QED
  BY <1>2, <1>3, <1>5, <1>6 DEF Init, IInv, CallOK, IdleCall, Caller, AnsweredIsKept,
     NotGivenUpEarly, UniqueKeys

(* What a goroutine may hold stays good while the rows grow. *)
LEMMA GoodGrows ==
  ASSUME TypeOK, rows' \in Seq(Row), Grows
  PROVE  /\ Id \subseteq Id' /\ Good \subseteq Good' /\ Good \subseteq Copy
         /\ Seq(Good) \subseteq Seq(Good)' /\ Seq(Good) \subseteq Seq(Copy)
<1>1. Len(rows') \in Nat /\ Len(rows) \in Nat
  <2>1. Len(rows') \in Nat
    BY LenProperties
  <2> QED
    BY <2>1, RowsTyped
<1>2. Id \subseteq Id'
  BY <1>1 DEF Id, Grows
<1>3. \A i \in Id' : rows'[i].attempts \in Nat
  <2>1. \A i \in Id' : rows'[i] \in Row
    BY ElementOfSeq DEF Id
  <2> QED
    BY <2>1 DEF Row
<1>4. ASSUME NEW c \in Good PROVE c \in Good'
  <2>1. c \in Copy /\ c.id \in Id /\ c.attempts \in Nat /\ c.attempts <= rows[c.id].attempts
    BY DEF Good, Copy
  <2>2. rows[c.id].attempts \in Nat /\ rows'[c.id].attempts \in Nat
        /\ rows[c.id].attempts <= rows'[c.id].attempts
    BY <1>2, <1>3, <2>1, RowsTyped DEF Grows
  <2>3. c.attempts <= rows'[c.id].attempts
    BY <2>1, <2>2
  <2> QED
    BY <1>2, <2>1, <2>3 DEF Good
<1>5. Good \subseteq Copy
  BY DEF Good
<1> QED
  BY <1>2, <1>4, <1>5, SeqMonotonic

(* A step is sound when the rows grow and what it leaves to the goroutines   *)
(* was good before it.                                                       *)
LEMMA Assemble ==
  ASSUME IInv, RowStep,
         queue' \in Seq(Good), Len(queue') <= QueueSize,
         offering' \subseteq Id', answered' \subseteq {rows[i].key : i \in Id},
         tick' \in Tick(Good),
         proc' \in [Caller -> Call],
         \A p \in Caller : proc'[p].pc # "idle" => proc'[p].ev \in Good,
         \A p \in Caller : proc'[p].pc = "settle" /\ proc'[p].err = "terminal"
                             => proc'[p].ev.id \in permanent',
         permanent' \subseteq Id,
         faults' \in 0..MaxFaults, crashes' \in 0..MaxCrashes
  PROVE  IInv'
<1>1. TypeOK
  BY DEF IInv
<1>2. /\ Id \subseteq Id' /\ Good \subseteq Good' /\ Good \subseteq Copy
      /\ Seq(Good) \subseteq Seq(Good)' /\ Seq(Good) \subseteq Seq(Copy)
  BY <1>1, GoodGrows DEF RowStep
<1>3. tick' \in Tick(Copy) /\ tick' \in Tick(Good')
  BY <1>2 DEF Tick
<1>4. answered' \subseteq Delivery /\ AnsweredIsKept'
  <2> SUFFICES ASSUME NEW d \in answered'
               PROVE  d \in Delivery /\ \E i \in Id' : rows'[i].key = d
    BY DEF AnsweredIsKept
  <2>1. PICK i \in Id : rows[i].key = d
    OBVIOUS
  <2>2. i \in Id' /\ rows'[i].key = d /\ d \in Delivery
    BY <1>1, <1>2, <2>1, RowsTyped DEF RowStep, Grows
  <2> QED
    BY <2>2
<1>5. TypeOK'
  BY <1>2, <1>3, <1>4 DEF TypeOK, RowStep, Tick, Caller
<1>6. \A p \in Caller : CallOK(proc[p])'
  BY <1>2 DEF CallOK
<1> QED
  BY <1>2, <1>3, <1>4, <1>5, <1>6 DEF IInv, RowStep

LEMMA RowsStay ==
  ASSUME IInv, rows' = rows, permanent \subseteq permanent'
  PROVE  RowStep /\ Id' = Id
<1>1. Id' = Id
  BY DEF Id
<1>2. \A i \in Id : rows[i].attempts \in Nat
  BY RowsTyped DEF IInv
<1>3. Grows
  <2>1. Len(rows) \in Nat
    BY RowsTyped DEF IInv
  <2> QED
    BY <1>2, <2>1 DEF Grows
<1> QED
  BY <1>1, <1>3 DEF IInv, TypeOK, RowStep, NotGivenUpEarly, UniqueKeys

(* CreateEvent: the new row is the only one of its key that is not pruned.   *)
LEMMA RowAppended ==
  ASSUME IInv, NEW d \in Delivery, ~Known(d), Len(rows) < MaxRows, rows' = NewRow(d),
         permanent' = permanent
  PROVE  RowStep /\ Id' = Id \cup {Len(rows) + 1} /\ \A i \in Id : rows'[i] = rows[i]
<1> DEFINE r == [key |-> d, state |-> "due", attempts |-> 0]
<1>1. rows \in Seq(Row) /\ Len(rows) \in Nat /\ MaxRows \in Nat
  BY RowsTyped DEF IInv
<1>2. r \in Row
  BY DEF Row, RowState, Pending
<1>3. rows' \in Seq(Row) /\ Len(rows') = Len(rows) + 1 /\ rows'[Len(rows) + 1] = r
      /\ \A i \in 1..Len(rows) : rows'[i] = rows[i]
  BY <1>1, <1>2, AppendProperties DEF NewRow
<1>4. Id' = Id \cup {Len(rows) + 1} /\ \A i \in Id : rows'[i] = rows[i]
  BY <1>1, <1>3 DEF Id
<1>5. Len(rows') <= MaxRows /\ Len(rows) <= Len(rows')
  BY <1>1, <1>3
<1>6. \A i \in Id : rows[i].attempts \in Nat
  BY RowsTyped DEF IInv
<1>7. Grows
  BY <1>4, <1>5, <1>6 DEF Grows
<1>8. NotGivenUpEarly'
  BY <1>3, <1>4 DEF IInv, NotGivenUpEarly
<1>9. UniqueKeys'
  <2>1. \A i \in Id : rows'[i].key = d => rows'[i].state = "pruned"
    BY <1>4 DEF Known
  <2>2. rows'[Len(rows) + 1].key = d
    BY <1>3
  <2> QED
    BY <1>4, <2>1, <2>2 DEF IInv, UniqueKeys
<1> QED
  BY <1>3, <1>4, <1>5, <1>7, <1>8, <1>9 DEF RowStep

(* A row rewritten in place: its key stays, a pruned row stays pruned, and   *)
(* a dead row has failed for good or used up its budget.                     *)
LEMMA RowWritten ==
  ASSUME IInv, NEW i \in Id, NEW r \in Row,
         r.key = rows[i].key, rows[i].attempts <= r.attempts,
         rows[i].state = "pruned" => r.state = "pruned",
         r.state = "dead" => i \in permanent \/ r.attempts >= MaxEventAttempts,
         rows' = [rows EXCEPT ![i] = r], permanent' = permanent
  PROVE  RowStep /\ Id' = Id /\ rows'[i] = r /\ \A j \in Id : j # i => rows'[j] = rows[j]
<1>1. rows \in Seq(Row) /\ Len(rows) \in Nat /\ MaxRows \in Nat /\ Len(rows) <= MaxRows
      /\ \A j \in Id : rows[j].attempts \in Nat
  BY RowsTyped DEF IInv, TypeOK
<1>2. rows' \in Seq(Row) /\ Len(rows') = Len(rows)
      /\ \A j \in 1..Len(rows) : rows'[j] = IF j = i THEN r ELSE rows[j]
  BY <1>1, ExceptSeq DEF Id
<1>3. Id' = Id /\ rows'[i] = r /\ \A j \in Id : j # i => rows'[j] = rows[j]
  BY <1>2 DEF Id
<1>4. Grows
  BY <1>1, <1>2, <1>3 DEF Grows
<1>5. NotGivenUpEarly'
  BY <1>3 DEF IInv, NotGivenUpEarly
<1>6. UniqueKeys'
  BY <1>3 DEF IInv, UniqueKeys
<1> QED
  BY <1>1, <1>2, <1>3, <1>4, <1>5, <1>6 DEF RowStep

(* A new state for a row that is pending and stays so. *)
LEMMA RowMoved ==
  ASSUME IInv, NEW i \in Id, rows[i].state \in Pending, NEW s \in Pending,
         rows' = Set(i, s), permanent' = permanent
  PROVE  /\ RowStep /\ Id' = Id
         /\ rows'[i] = [rows[i] EXCEPT !.state = s] /\ \A j \in Id : j # i => rows'[j] = rows[j]
<1> DEFINE r == [rows[i] EXCEPT !.state = s]
<1>1. rows[i] \in Row /\ rows \in Seq(Row) /\ rows[i].attempts \in Nat
  BY RowsTyped DEF IInv
<1>2. r \in Row /\ r.key = rows[i].key /\ r.attempts = rows[i].attempts /\ r.state = s
  BY <1>1 DEF Row, RowState
<1>3. s # "dead" /\ rows[i].state # "pruned"
  BY DEF Pending
<1>4. rows' = [rows EXCEPT ![i] = r]
  BY DEF Set
<1>5. rows[i].attempts <= r.attempts
  BY <1>1, <1>2
<1> QED
  BY <1>2, <1>3, <1>4, <1>5, RowWritten

-----------------------------------------------------------------------------
(* One lemma per action. *)

(* What the invariant says of the goroutines, in the form Assemble wants it. *)
LEMMA Holdings ==
  ASSUME IInv
  PROVE  /\ queue \in Seq(Good) /\ Len(queue) <= QueueSize /\ Len(queue) \in Nat
         /\ offering \subseteq Id
         /\ answered \subseteq {rows[i].key : i \in Id}
         /\ tick \in Tick(Good) /\ tick.todo \in Seq(Good)
         /\ proc \in [Caller -> Call]
         /\ \A p \in Caller : proc[p].pc # "idle" => proc[p].ev \in Good
         /\ \A p \in Caller : proc[p].pc = "settle" /\ proc[p].err = "terminal"
                                => proc[p].ev.id \in permanent
         /\ permanent \subseteq Id
         /\ faults \in 0..MaxFaults /\ crashes \in 0..MaxCrashes
<1>1. Len(queue) \in Nat
  BY LenProperties DEF IInv
<1>2. tick \in Tick(Good) /\ tick.todo \in Seq(Good)
  BY DEF IInv, Tick
<1> QED
  BY <1>1, <1>2 DEF IInv, TypeOK, CallOK, AnsweredIsKept, Caller

LEMMA FaultOK == ASSUME IInv, Fault PROVE faults' \in 0..MaxFaults
<1>1. faults \in 0..MaxFaults /\ MaxFaults \in Nat
  BY EventInboxAssumption DEF IInv, TypeOK
<1> QED
  BY <1>1 DEF Fault

LEMMA ReceiveStep == ASSUME IInv, NEW d \in Delivery, Receive(d) PROVE IInv'
<1>1. RowStep /\ Id' = Id \cup {Len(rows) + 1}
  BY RowAppended DEF Receive
<1> QED
  BY <1>1, Holdings, Assemble DEF Receive, bounds

LEMMA ReceiveFailsStep == ASSUME IInv, NEW d \in Delivery, ReceiveFails(d) PROVE IInv'
<1>1. RowStep /\ Id \subseteq Id'
  <2>1. CASE rows' = rows
    BY <2>1, RowsStay DEF ReceiveFails
  <2>2. CASE rows' # rows
    <3>1. Len(rows) < MaxRows /\ rows' = NewRow(d)
      BY <2>2 DEF ReceiveFails
    <3> QED
      BY <3>1, RowAppended DEF ReceiveFails
  <2> QED
    BY <2>1, <2>2
<1>2. faults' \in 0..MaxFaults
  BY FaultOK DEF ReceiveFails
<1> QED
  BY <1>1, <1>2, Holdings, Assemble DEF ReceiveFails

LEMMA DuplicateStep == ASSUME IInv, NEW d \in Delivery, Duplicate(d) PROVE IInv'
<1>1. RowStep /\ Id' = Id
  BY RowsStay DEF Duplicate
<1>2. d \in {rows[i].key : i \in Id}
  BY DEF Duplicate, Known
<1> QED
  BY <1>1, <1>2, Holdings, Assemble DEF Duplicate, bounds

LEMMA OfferStep == ASSUME IInv, NEW i \in Id, Offer(i) PROVE IInv'
<1> DEFINE c == [id |-> i, attempts |-> 0]
<1>1. RowStep /\ Id' = Id
  BY RowsStay DEF Offer
<1>2. c \in Good
  <2>1. i \in Nat \ {0} /\ rows[i].attempts \in Nat
    BY RowsTyped DEF IInv, Id
  <2> QED
    BY <2>1 DEF Good, Copy
<1>3. queue' \in Seq(Good) /\ Len(queue') <= QueueSize
  <2>1. CASE Len(queue) < QueueSize
    <3>1. queue' = Append(queue, c)
      BY <2>1 DEF Offer
    <3>2. queue' \in Seq(Good) /\ Len(queue') = Len(queue) + 1
      BY <1>2, <3>1, Holdings, AppendProperties
    <3>3. Len(queue) \in Nat /\ QueueSize \in Nat
      BY Holdings, EventInboxAssumption
    <3> QED
      BY <2>1, <3>2, <3>3
  <2>2. CASE ~(Len(queue) < QueueSize)
    BY <2>2, Holdings DEF Offer
  <2> QED
    BY <2>1, <2>2
<1> QED
  BY <1>1, <1>3, Holdings, Assemble DEF Offer, bounds

(* A goroutine takes a good copy. *)
LEMMA ClaimCallOK ==
  ASSUME IInv, NEW p \in Caller, NEW c \in Good,
         Become(p, [IdleCall EXCEPT !.pc = "claim", !.ev = c])
  PROVE  /\ proc' \in [Caller -> Call]
         /\ \A q \in Caller : proc'[q].pc # "idle" => proc'[q].ev \in Good
         /\ \A q \in Caller : proc'[q].pc = "settle" /\ proc'[q].err = "terminal"
                                => proc'[q].ev.id \in permanent
<1> DEFINE k == [IdleCall EXCEPT !.pc = "claim", !.ev = c]
<1>1. k \in Call /\ k.pc = "claim" /\ k.ev = c
  BY DEF Call, Good, IdleCall, NoCopy
<1>2. proc' = [proc EXCEPT ![p] = k]
  BY DEF Become
<1> HIDE DEF k
<1> QED
  BY <1>1, <1>2, Holdings

LEMMA TakeStep == ASSUME IInv, NEW w \in Worker, Take(w) PROVE IInv'
<1>1. RowStep /\ Id' = Id
  BY RowsStay DEF Take
<1>2. queue # <<>> /\ queue \in Seq(Good) /\ Len(queue) \in Nat
  BY Holdings DEF Take
<1>3. Head(queue) \in Good /\ Tail(queue) \in Seq(Good) /\ Len(Tail(queue)) = Len(queue) - 1
  BY <1>2, HeadTailProperties
<1>4. w \in Caller
  BY DEF Caller
<1>5. queue' = Tail(queue) /\ Len(queue') <= QueueSize
  <2>1. Len(queue) <= QueueSize /\ QueueSize \in Nat
    BY Holdings, EventInboxAssumption
  <2> QED
    BY <1>2, <1>3, <2>1 DEF Take
<1>6. permanent' = permanent /\ Become(w, [IdleCall EXCEPT !.pc = "claim", !.ev = Head(queue)])
  BY DEF Take
<1>7. /\ proc' \in [Caller -> Call]
      /\ \A q \in Caller : proc'[q].pc # "idle" => proc'[q].ev \in Good
      /\ \A q \in Caller : proc'[q].pc = "settle" /\ proc'[q].err = "terminal"
                             => proc'[q].ev.id \in permanent
  BY <1>3, <1>4, <1>6, ClaimCallOK
<1> QED
  BY <1>1, <1>3, <1>5, <1>6, <1>7, Holdings, Assemble DEF Take, bounds

(* ListDueEvents returns good copies. *)
LEMMA DueCopiesGood ==
  ASSUME IInv, NEW limit \in Nat
  PROVE  DueCopies(limit) \subseteq Seq(Good)
<1> DEFINE due == {i \in Id : rows[i].state = "due"}
           n == IF Cardinality(due) <= limit THEN Cardinality(due) ELSE limit
<1>1. Len(rows) \in Nat /\ \A i \in Id : rows[i].attempts \in Nat
  BY RowsTyped DEF IInv
<1>2. IsFiniteSet(Id)
  BY <1>1, FS_Interval DEF Id
<1>3. n \in Nat
  BY <1>2, FS_Subset, FS_CardinalityType
<1>4. \A i \in Id : CopyOf(i) \in Good
  BY <1>1 DEF Good, Copy, CopyOf, Id
<1> HIDE DEF n
<1>5. ASSUME NEW s \in [1..n -> due]
      PROVE  [j \in 1..n |-> CopyOf(s[j])] \in Seq(Good)
  <2>1. \A j \in 1..n : CopyOf(s[j]) \in Good
    BY <1>4
  <2>2. [j \in 1..n |-> CopyOf(s[j])] \in [1..n -> Good]
    BY <2>1
  <2> QED
    BY <1>3, <2>2, SeqDef
<1> QED
  BY <1>5 DEF DueCopies, n

LEMMA ListStep == ASSUME IInv, List PROVE IInv'
<1>1. RowStep /\ Id' = Id
  BY RowsStay DEF List
<1>2. PICK todo \in DueCopies(IF tick.serving THEN ListLimit ELSE BootLimit) :
        tick' = [tick EXCEPT !.phase = "replay", !.todo = todo]
  BY DEF List
<1>3. (IF tick.serving THEN ListLimit ELSE BootLimit) \in Nat
  BY EventInboxAssumption
<1>4. todo \in Seq(Good)
  BY <1>2, <1>3, DueCopiesGood
<1>5. tick' \in Tick(Good)
  BY <1>2, <1>4, Holdings DEF Tick
<1> QED
  BY <1>1, <1>5, Holdings, Assemble DEF List, bounds

LEMMA DispatchStep == ASSUME IInv, NEW s \in Slot, Dispatch(s) PROVE IInv'
<1>1. RowStep /\ Id' = Id
  BY RowsStay DEF Dispatch
<1>2. tick.todo # <<>> /\ tick.todo \in Seq(Good) /\ tick' = [tick EXCEPT !.todo = Tail(@)]
      /\ permanent' = permanent
      /\ Become(s, [IdleCall EXCEPT !.pc = "claim", !.ev = Head(tick.todo)])
  BY Holdings DEF Dispatch
<1>3. Head(tick.todo) \in Good /\ Tail(tick.todo) \in Seq(Good)
  BY <1>2, HeadTailProperties
<1>4. tick' \in Tick(Good)
  BY <1>2, <1>3, Holdings DEF Tick
<1>5. s \in Caller
  BY DEF Caller
<1>6. /\ proc' \in [Caller -> Call]
      /\ \A q \in Caller : proc'[q].pc # "idle" => proc'[q].ev \in Good
      /\ \A q \in Caller : proc'[q].pc = "settle" /\ proc'[q].err = "terminal"
                             => proc'[q].ev.id \in permanent
  BY <1>2, <1>3, <1>5, ClaimCallOK
<1> QED
  BY <1>1, <1>2, <1>4, <1>6, Holdings, Assemble DEF Dispatch, bounds

(* Pruning rewrites processed rows in place. *)
LEMMA RowsPruned ==
  ASSUME IInv, NEW n \in Nat, permanent' = permanent,
         rows' = [i \in Id |-> IF i <= n /\ rows[i].state \in Done
                               THEN [rows[i] EXCEPT !.state = "pruned"] ELSE rows[i]]
  PROVE  /\ RowStep /\ Id' = Id
         /\ \A i \in Id : \/ rows'[i] = rows[i]
                          \/ rows[i].state \in Done /\ rows'[i].state = "pruned"
<1>1. /\ rows \in Seq(Row) /\ Len(rows) \in Nat /\ Len(rows) <= MaxRows
      /\ \A i \in Id : rows[i] \in Row /\ rows[i].attempts \in Nat
  BY RowsTyped DEF IInv, TypeOK
<1>2. \A i \in Id : [rows[i] EXCEPT !.state = "pruned"] \in Row
  BY <1>1 DEF Row, RowState
<1>3. rows' \in [Id -> Row]
  BY <1>1, <1>2
<1>4. rows' \in Seq(Row) /\ Len(rows') = Len(rows)
  <2>1. rows' \in [1..Len(rows) -> Row] /\ DOMAIN rows' = 1..Len(rows)
    BY <1>3 DEF Id
  <2>2. rows' \in Seq(Row)
    BY <1>1, <2>1, SeqDef
  <2>3. Len(rows') \in Nat /\ DOMAIN rows' = 1..Len(rows')
    BY <2>2, LenProperties
  <2>4. \A m, k \in Nat : 1..m = 1..k => m = k
    OBVIOUS
  <2> QED
    BY <1>1, <2>1, <2>2, <2>3, <2>4
<1>5. Id' = Id
  BY <1>4 DEF Id
<1>6. ASSUME NEW i \in Id
      PROVE  /\ rows'[i].key = rows[i].key /\ rows'[i].attempts = rows[i].attempts
             /\ \/ rows'[i] = rows[i]
                \/ rows[i].state \in Done /\ rows'[i].state = "pruned"
  BY <1>1 DEF Row
<1>7. Grows
  <2>1. \A i \in Id : rows[i].attempts <= rows'[i].attempts
    BY <1>1, <1>6
  <2>2. Len(rows) <= Len(rows')
    <3>1. \A m \in Nat : m <= m
      OBVIOUS
    <3> QED
      BY <1>1, <1>4, <3>1, Zenon
  <2> QED
    BY <1>6, <2>1, <2>2 DEF Grows
<1>8. NotGivenUpEarly'
  BY <1>5, <1>6 DEF IInv, NotGivenUpEarly
<1>9. UniqueKeys'
  <2>1. \A i \in Id : rows'[i].state # "pruned" => rows[i].state # "pruned"
    BY <1>6
  <2> QED
    BY <1>5, <1>6, <2>1 DEF IInv, UniqueKeys
<1> QED
  BY <1>1, <1>4, <1>5, <1>6, <1>7, <1>8, <1>9 DEF RowStep

LEMMA EndOfBatchStep == ASSUME IInv, EndOfBatch PROVE IInv'
<1>1. RowStep /\ Id' = Id
  <2>1. Len(rows) \in Nat
    BY RowsTyped DEF IInv
  <2>2. PICK n \in 0..(IF tick.serving THEN Len(rows) ELSE 0) :
          rows' = [i \in Id |-> IF i <= n /\ rows[i].state \in Done
                                THEN [rows[i] EXCEPT !.state = "pruned"] ELSE rows[i]]
    BY DEF EndOfBatch
  <2>3. n \in Nat /\ permanent' = permanent
    BY <2>1 DEF EndOfBatch
  <2> QED
    BY <2>2, <2>3, RowsPruned
<1>2. tick' \in Tick(Good)
  BY Holdings DEF EndOfBatch, Tick
<1> QED
  BY <1>1, <1>2, Holdings, Assemble DEF EndOfBatch, bounds

(* A call that ends. *)
LEMMA IdleCallOK ==
  ASSUME IInv, NEW p \in Caller, Become(p, IdleCall)
  PROVE  /\ proc' \in [Caller -> Call]
         /\ \A q \in Caller : proc'[q].pc # "idle" => proc'[q].ev \in Good
         /\ \A q \in Caller : proc'[q].pc = "settle" /\ proc'[q].err = "terminal"
                                => proc'[q].ev.id \in permanent
<1>1. IdleCall \in Call /\ IdleCall.pc = "idle"
  BY DEF Call, IdleCall
<1> QED
  BY <1>1, Holdings DEF Become

(* The row a call is about. *)
LEMMA CalledRow ==
  ASSUME IInv, NEW p \in Caller, proc[p].pc # "idle"
  PROVE  /\ proc[p] \in Call /\ proc[p].ev \in Good /\ proc[p].ev.id \in Id
         /\ rows[proc[p].ev.id] \in Row /\ rows[proc[p].ev.id].state \in RowState
         /\ rows[proc[p].ev.id].attempts \in Nat /\ proc[p].ev.attempts \in Nat
         /\ proc[p].ev.attempts <= rows[proc[p].ev.id].attempts
         /\ proc[p].err \in {"none", "transient", "terminal"}
<1>1. proc[p] \in Call /\ proc[p].ev \in Good
  BY Holdings
<1>2. proc[p].ev.id \in Id /\ proc[p].ev.attempts \in Nat
      /\ proc[p].ev.attempts <= rows[proc[p].ev.id].attempts
  BY <1>1 DEF Good, Copy
<1> QED
  BY <1>1, <1>2, RowsTyped DEF IInv, Call

LEMMA ClaimRows ==
  ASSUME IInv, NEW p \in Caller, Claim(p)
  PROVE  RowStep /\ Id' = Id
<1> DEFINE i == proc[p].ev.id
<1>1. i \in Id /\ permanent' = permanent
  BY CalledRow DEF Claim
<1>2. CASE rows' = rows
  BY <1>1, <1>2, RowsStay
<1>3. CASE rows' # rows
  <2>1. rows[i].state = "due" /\ rows' = Set(i, "leased")
    BY <1>3 DEF Claim
  <2> QED
    BY <1>1, <2>1, RowMoved DEF Pending
<1> QED
  BY <1>2, <1>3

LEMMA ClaimStep == ASSUME IInv, NEW p \in Caller, Claim(p) PROVE IInv'
<1>1. RowStep /\ Id' = Id
  BY ClaimRows
<1>2. faults' \in 0..MaxFaults
  BY FaultOK, Holdings DEF Claim
<1>3. /\ proc' \in [Caller -> Call]
      /\ \A q \in Caller : proc'[q].pc # "idle" => proc'[q].ev \in Good
      /\ \A q \in Caller : proc'[q].pc = "settle" /\ proc'[q].err = "terminal"
                             => proc'[q].ev.id \in permanent
  <2>1. CASE Become(p, IdleCall)
    BY <2>1, IdleCallOK
  <2>2. CASE Become(p, [proc[p] EXCEPT !.pc = "work"])
    <3> DEFINE k == [proc[p] EXCEPT !.pc = "work"]
    <3>1. proc[p] \in Call /\ proc[p].ev \in Good
      BY CalledRow DEF Claim
    <3>2. k \in Call /\ k.ev \in Good /\ k.pc = "work"
      BY <3>1 DEF Call
    <3>3. proc' = [proc EXCEPT ![p] = k]
      BY <2>2 DEF Become
    <3> HIDE DEF k
    <3> QED
      BY <3>2, <3>3, Holdings
  <2> QED
    BY <2>1, <2>2 DEF Claim
<1>4. permanent' = permanent
  BY DEF Claim
<1> QED
  BY <1>1, <1>2, <1>3, <1>4, Holdings, Assemble DEF Claim

LEMMA WorkStep == ASSUME IInv, NEW p \in Caller, Work(p) PROVE IInv'
<1>1. PICK err \in {"none", "transient", "terminal"} :
        /\ Become(p, [proc[p] EXCEPT !.pc = "settle", !.err = err])
        /\ IF err = "none" THEN UNCHANGED faults ELSE Fault
        /\ permanent' = IF err = "terminal" THEN permanent \cup {proc[p].ev.id} ELSE permanent
  BY DEF Work
<1>2. proc[p] \in Call /\ proc[p].ev \in Good /\ proc[p].ev.id \in Id
  BY CalledRow DEF Work
<1>3. RowStep /\ Id' = Id
  BY <1>1, RowsStay DEF Work
<1>4. faults' \in 0..MaxFaults
  BY <1>1, FaultOK, Holdings
<1>5. permanent' \subseteq Id /\ permanent \subseteq permanent'
  BY <1>1, <1>2, Holdings
<1> DEFINE k == [proc[p] EXCEPT !.pc = "settle", !.err = err]
<1>6. k \in Call /\ k.ev \in Good /\ k.ev.id = proc[p].ev.id /\ k.err = err
  BY <1>2 DEF Call
<1>7. proc' = [proc EXCEPT ![p] = k]
  BY <1>1 DEF Become
<1> HIDE DEF k
<1>8. /\ proc' \in [Caller -> Call]
      /\ \A q \in Caller : proc'[q].pc # "idle" => proc'[q].ev \in Good
      /\ \A q \in Caller : proc'[q].pc = "settle" /\ proc'[q].err = "terminal"
                             => proc'[q].ev.id \in permanent'
  BY <1>1, <1>5, <1>6, <1>7, Holdings
<1> QED
  BY <1>3, <1>4, <1>5, <1>8, Holdings, Assemble DEF Work

LEMMA TimeoutStep == ASSUME IInv, NEW w \in Worker, Timeout(w) PROVE IInv'
<1>1. RowStep /\ Id' = Id /\ permanent' = permanent /\ w \in Caller
  BY RowsStay DEF Timeout, Caller
<1>2. faults' \in 0..MaxFaults
  BY FaultOK DEF Timeout
<1>3. /\ proc' \in [Caller -> Call]
      /\ \A q \in Caller : proc'[q].pc # "idle" => proc'[q].ev \in Good
      /\ \A q \in Caller : proc'[q].pc = "settle" /\ proc'[q].err = "terminal"
                             => proc'[q].ev.id \in permanent
  BY <1>1, IdleCallOK DEF Timeout
<1> QED
  BY <1>1, <1>2, <1>3, Holdings, Assemble DEF Timeout

(* What markProcessed and scheduleRetry leave. *)
LEMMA SettledOK ==
  ASSUME IInv, NEW p \in Caller, proc[p].pc = "settle"
  PROVE  LET r == rows[proc[p].ev.id]
             s == Settled(proc[p])
         IN  /\ s \in Row /\ s.key = r.key /\ r.attempts <= s.attempts
             /\ r.state = "pruned" => s.state = "pruned"
             /\ s.state = "dead" =>
                  proc[p].ev.id \in permanent \/ s.attempts >= MaxEventAttempts
             /\ r.state = "leased" => s.state \in Done \cup {"dead", "backoff"}
<1> DEFINE c == proc[p]
           i == c.ev.id
           r == rows[i]
           s == Settled(c)
<1>1. /\ i \in Id /\ r \in Row /\ r.state \in RowState /\ r.attempts \in Nat
      /\ c.ev.attempts \in Nat /\ c.ev.attempts <= r.attempts
      /\ c.err \in {"none", "transient", "terminal"}
  BY CalledRow
<1>2. c.err = "terminal" => i \in permanent
  BY Holdings
<1>3. MaxEventAttempts \in Nat
  BY EventInboxAssumption
<1>4. r.state = "dead" => i \in permanent \/ r.attempts >= MaxEventAttempts
  BY <1>1 DEF IInv, NotGivenUpEarly
<1>5. CASE r.state = "pruned"
  <2>1. s = r
    BY <1>5 DEF Settled, Pending, Done
  <2> QED
    BY <1>1, <1>5, <2>1
<1>6. CASE r.state # "pruned" /\ c.err = "none"
  <2>1. s = [r EXCEPT !.state = IF r.state \in {"dead", "dead_processed"}
                                THEN "dead_processed" ELSE "processed"]
    BY <1>6 DEF Settled
  <2>2. s \in Row /\ s.key = r.key /\ s.attempts = r.attempts /\ s.state \in Done
    BY <1>1, <2>1 DEF Row, RowState, Done
  <2>3. s.state # "dead"
    BY <2>2 DEF Done
  <2> QED
    BY <1>1, <1>6, <2>2, <2>3
<1>7. CASE r.state \in Pending /\ c.err # "none"
  <2>0. PICK q \in {"dead", "backoff"} : q = IF Exhausted(c) THEN "dead" ELSE "backoff"
    OBVIOUS
  <2>1. s = [r EXCEPT !.attempts = @ + 1, !.state = q]
    BY <1>7, <2>0 DEF Settled, Pending, Done
  <2>2. s \in Row /\ s.key = r.key /\ s.attempts = r.attempts + 1 /\ s.state = q
    <3>1. r.attempts + 1 \in Nat /\ q \in RowState
      BY <1>1 DEF RowState, Pending
    <3> HIDE DEF s, r
    <3> QED
      BY <1>1, <2>1, <3>1 DEF Row
  <2>3. q = "dead" => i \in permanent \/ r.attempts + 1 >= MaxEventAttempts
    BY <1>1, <1>2, <1>3, <2>0 DEF Exhausted
  <2>4. r.attempts <= r.attempts + 1 /\ r.state # "pruned"
    BY <1>1, <1>7 DEF Pending
  <2> QED
    BY <2>2, <2>3, <2>4
<1>8. CASE r.state \in Done \cup {"dead"} /\ c.err # "none"
  <2>1. s = r
    BY <1>8 DEF Settled, Pending, Done
  <2> QED
    BY <1>1, <1>4, <1>8, <2>1 DEF Done
<1> QED
  BY <1>1, <1>5, <1>6, <1>7, <1>8 DEF RowState

LEMMA SettleRows ==
  ASSUME IInv, NEW p \in Caller, Settle(p)
  PROVE  RowStep /\ Id' = Id
<1>1. proc[p].pc = "settle" /\ proc[p].ev.id \in Id /\ permanent' = permanent
  BY CalledRow DEF Settle
<1>2. CASE rows' = rows
  BY <1>1, <1>2, RowsStay
<1>3. CASE rows' = [rows EXCEPT ![proc[p].ev.id] = Settled(proc[p])]
  BY <1>1, <1>3, SettledOK, RowWritten
<1> QED
  BY <1>2, <1>3 DEF Settle

LEMMA SettleStep == ASSUME IInv, NEW p \in Caller, Settle(p) PROVE IInv'
<1>1. RowStep /\ Id' = Id
  BY SettleRows
<1>2. faults' \in 0..MaxFaults
  BY FaultOK, Holdings DEF Settle
<1>3. permanent' = permanent
  BY DEF Settle
<1>4. /\ proc' \in [Caller -> Call]
      /\ \A q \in Caller : proc'[q].pc # "idle" => proc'[q].ev \in Good
      /\ \A q \in Caller : proc'[q].pc = "settle" /\ proc'[q].err = "terminal"
                             => proc'[q].ev.id \in permanent
  BY IdleCallOK DEF Settle
<1> QED
  BY <1>1, <1>2, <1>3, <1>4, Holdings, Assemble DEF Settle

LEMMA ElapseStep == ASSUME IInv, NEW i \in Id, Elapse(i) PROVE IInv'
<1>1. rows[i].state \in Pending /\ "due" \in Pending /\ rows' = Set(i, "due")
      /\ permanent' = permanent
  BY DEF Elapse, Pending
<1>2. RowStep /\ Id' = Id
  BY <1>1, RowMoved
<1> QED
  BY <1>2, Holdings, Assemble DEF Elapse, bounds

LEMMA CrashStep == ASSUME IInv, Crash PROVE IInv'
<1>1. RowStep /\ Id' = Id /\ permanent' = permanent
  BY RowsStay DEF Crash
<1>2. queue' \in Seq(Good) /\ Len(queue') <= QueueSize /\ <<>> \in Seq(Good)
  BY EmptySeq, EventInboxAssumption DEF Crash
<1>3. tick' \in Tick(Good)
  BY <1>2 DEF Crash, Booting, Tick
<1>4. proc' \in [Caller -> Call] /\ \A p \in Caller : proc'[p].pc = "idle"
  BY DEF Crash, Caller, IdleCall, Call
<1>5. crashes' \in 0..MaxCrashes
  BY EventInboxAssumption DEF Crash, IInv, TypeOK
<1> QED
  BY <1>1, <1>2, <1>3, <1>4, <1>5, Holdings, Assemble DEF Crash

LEMMA StepIInv == IInv /\ [Next]_vars => IInv'
<1> SUFFICES ASSUME IInv, [Next]_vars PROVE IInv'
  OBVIOUS
<1>1. CASE UNCHANGED vars
  <2>1. RowStep /\ Id' = Id
    BY <1>1, RowsStay DEF vars
  <2> QED
    BY <1>1, <2>1, Holdings, Assemble DEF vars
<1>2. CASE \E d \in Delivery : Handler(d)
  BY <1>2, ReceiveStep, ReceiveFailsStep, DuplicateStep DEF Handler
<1>3. CASE \E i \in Id : Offer(i) \/ Elapse(i)
  BY <1>3, OfferStep, ElapseStep
<1>4. CASE \E w \in Worker : Take(w) \/ Timeout(w)
  BY <1>4, TakeStep, TimeoutStep
<1>5. CASE \E p \in Caller : Processing(p)
  BY <1>5, ClaimStep, WorkStep, SettleStep DEF Processing
<1> QED
  BY <1>1, <1>2, <1>3, <1>4, <1>5, ListStep, EndOfBatchStep, DispatchStep, CrashStep
     DEF Next, Caller

(* Keys of rows that are not pruned are unique, and every copy in the queue, *)
(* in a batch or in a call names a row and knows at most its attempts.       *)
THEOREM Invariance == Spec => []IInv
  BY InitIInv, StepIInv, PTL DEF Spec

(* The variables keep their types and the queue its capacity. *)
THEOREM TypeCorrect == Spec => []TypeOK
<1>1. IInv => TypeOK
  BY DEF IInv
<1> QED
  BY <1>1, Invariance, PTL

(* No delivery a sender was told about is ever lost. *)
THEOREM NothingAnsweredIsLost == Spec => []AnsweredIsKept
<1>1. IInv => AnsweredIsKept
  BY DEF IInv
<1> QED
  BY <1>1, Invariance, PTL

(* An event is dead-lettered only when an attempt failed for good or the     *)
(* budget is used up, stale copies and outlasted leases included.            *)
THEOREM BudgetIsSpent == Spec => []NotGivenUpEarly
<1>1. IInv => NotGivenUpEarly
  BY DEF IInv
<1> QED
  BY <1>1, Invariance, PTL

-----------------------------------------------------------------------------
(* Exclusion, while no replay outlasts its lease (~SlowWork). *)

LInv ==
  /\ \A p \in Caller : \A i \in Id : Busy(p, i) => rows[i].state = "leased"
  /\ OneWorkerPerEvent

(* No call begins to work, and the rows worked on stay as they are. *)
LEMMA LeaseKept ==
  ASSUME LInv,
         \A p \in Caller : \A i \in Id' : Busy(p, i)' => i \in Id /\ Busy(p, i),
         \A p \in Caller : \A i \in Id : Busy(p, i)' => rows'[i].state = rows[i].state
  PROVE  LInv'
  BY DEF LInv, OneWorkerPerEvent, Caller

(* A call that changes keeps its event or stops working on it. *)
LEMMA BusyAfter ==
  ASSUME IInv, NEW p \in Caller, NEW c, Become(p, c)
  PROVE  /\ \A q \in Caller : \A i : q # p => (Busy(q, i)' <=> Busy(q, i))
         /\ \A i : Busy(p, i)' <=> c.pc \in {"work", "settle"} /\ c.ev.id = i
         /\ \A q \in Caller : \A i : Busy(q, i) => i \in Id
<1>1. proc \in [Caller -> Call]
  BY Holdings
<1>2. proc'[p] = c /\ \A q \in Caller : q # p => proc'[q] = proc[q]
  BY <1>1 DEF Become
<1>3. \A q \in Caller : proc[q].pc # "idle" => proc[q].ev.id \in Id
  BY CalledRow
<1> QED
  BY <1>2, <1>3 DEF Busy

LEMMA IdIsKept ==
  ASSUME IInv, RowStep
  PROVE  Id \subseteq Id'
  BY GoodGrows DEF IInv, RowStep

LEMMA LeaseClaim == ASSUME IInv, LInv, NEW p \in Caller, Claim(p) PROVE LInv'
<1> DEFINE i == proc[p].ev.id
<1>0. i \in Id /\ proc[p].pc = "claim" /\ rows[i] \in Row /\ rows \in Seq(Row) /\ Id' = Id
  BY CalledRow, ClaimRows, RowsTyped DEF Claim, IInv
<1>1. CASE rows[i].state = "due"
  <2>1. \A q \in Caller : ~Busy(q, i)
    BY <1>0, <1>1 DEF LInv
  <2>2. \A j \in Id : j # i => rows'[j] = rows[j]
    <3>1. CASE rows' = rows
      BY <3>1
    <3>2. CASE rows' = Set(i, "leased")
      BY <1>0, <3>2, RowsTyped, LenProperties DEF Set, Id, IInv
    <3> QED
      BY <3>1, <3>2 DEF Claim
  <2>3. CASE Become(p, IdleCall)
    <3>1. \A q \in Caller : \A j : Busy(q, j)' => Busy(q, j) /\ j \in Id /\ j # i
      BY <2>1, <2>3, BusyAfter DEF IdleCall
    <3> QED
      BY <1>0, <2>2, <3>1, LeaseKept
  <2>4. CASE Become(p, [proc[p] EXCEPT !.pc = "work"]) /\ rows' = Set(i, "leased")
    <3> DEFINE k == [proc[p] EXCEPT !.pc = "work"]
    <3>1. k.pc = "work" /\ k.ev.id = i
      BY <1>0, CalledRow DEF Call
    <3>2. rows'[i].state = "leased"
      <4>1. rows' = [rows EXCEPT ![i] = [rows[i] EXCEPT !.state = "leased"]] /\ i \in DOMAIN rows
        BY <1>0, <2>4, LenProperties DEF Set, Id
      <4> QED
        BY <1>0, <4>1 DEF Row
    <3>3. \A q \in Caller : \A j : Busy(q, j)' =>
            (q = p /\ j = i) \/ (q # p /\ Busy(q, j) /\ j \in Id /\ j # i)
      <4>1. Become(p, k)
        BY <2>4
      <4> HIDE DEF k
      <4>2. \A q \in Caller : \A j : q # p => (Busy(q, j)' <=> Busy(q, j))
        BY <4>1, BusyAfter
      <4>3. \A j : Busy(p, j)' => j = i
        BY <3>1, <4>1, BusyAfter
      <4>4. \A q \in Caller : \A j : Busy(q, j) => j \in Id
        BY <4>1, BusyAfter
      <4> QED
        BY <2>1, <4>2, <4>3, <4>4
    <3> QED
      BY <1>0, <2>2, <3>2, <3>3 DEF LInv, OneWorkerPerEvent, Caller
  <2> QED
    BY <1>1, <2>3, <2>4 DEF Claim
<1>2. CASE rows[i].state # "due"
  <2>1. rows' = rows /\ Become(p, IdleCall)
    BY <1>2 DEF Claim
  <2>2. \A q \in Caller : \A j : Busy(q, j)' => Busy(q, j)
    BY <2>1, BusyAfter DEF IdleCall
  <2> QED
    BY <1>0, <2>1, <2>2, LeaseKept
<1> QED
  BY <1>1, <1>2

LEMMA LeaseSettle == ASSUME IInv, LInv, NEW p \in Caller, Settle(p) PROVE LInv'
<1> DEFINE i == proc[p].ev.id
<1>0. i \in Id /\ Busy(p, i) /\ Id' = Id /\ Become(p, IdleCall) /\ rows \in Seq(Row)
  BY CalledRow, SettleRows, RowsTyped DEF Settle, Busy, IInv
<1>1. \A j \in Id : j # i => rows'[j] = rows[j]
  BY <1>0, LenProperties DEF Settle, Id
<1>2. \A q \in Caller : \A j : Busy(q, j)' => Busy(q, j) /\ q # p
  BY <1>0, BusyAfter DEF IdleCall
<1>3. \A q \in Caller : Busy(q, i) => q = p
  BY <1>0 DEF LInv, OneWorkerPerEvent, Caller
<1> QED
  BY <1>0, <1>1, <1>2, <1>3, LeaseKept

(* Steps that start no work and touch no row that is worked on. *)
LEMMA LeaseQuiet ==
  ASSUME IInv, LInv, RowStep, UNCHANGED proc,
         \A p \in Caller : \A i \in Id : Busy(p, i) => rows'[i].state = rows[i].state
  PROVE  LInv'
<1>1. \A p \in Caller : \A i : Busy(p, i)' => Busy(p, i)
  BY DEF Busy
<1>2. \A p \in Caller : \A i : Busy(p, i) => i \in Id
  BY CalledRow DEF Busy
<1> QED
  BY <1>1, <1>2, LeaseKept

LEMMA LeaseElapse ==
  ASSUME IInv, LInv, ~SlowWork, NEW i \in Id, Elapse(i)
  PROVE  LInv'
<1>1. rows[i].state \in Pending /\ "due" \in Pending /\ rows' = Set(i, "due")
      /\ permanent' = permanent /\ proc' = proc
  BY DEF Elapse, Pending
<1>2. RowStep /\ \A j \in Id : j # i => rows'[j] = rows[j]
  BY <1>1, RowMoved
<1>3. \A p \in Caller : ~Busy(p, i)
  BY DEF Elapse, LInv, Caller
<1> QED
  BY <1>1, <1>2, <1>3, LeaseQuiet

LEMMA LeaseHandler == ASSUME IInv, LInv, NEW d \in Delivery, Handler(d) PROVE LInv'
<1>1. RowStep /\ UNCHANGED proc /\ \A i \in Id : rows'[i] = rows[i]
  <2>1. CASE Receive(d)
    BY <2>1, RowAppended DEF Receive
  <2>2. CASE ReceiveFails(d) /\ rows' # rows
    <3>1. Len(rows) < MaxRows /\ rows' = NewRow(d)
      BY <2>2 DEF ReceiveFails
    <3> QED
      BY <2>2, <3>1, RowAppended DEF ReceiveFails
  <2>3. CASE ReceiveFails(d) /\ rows' = rows
    BY <2>3, RowsStay DEF ReceiveFails
  <2>4. CASE Duplicate(d)
    BY <2>4, RowsStay DEF Duplicate
  <2> QED
    BY <2>1, <2>2, <2>3, <2>4 DEF Handler
<1> QED
  BY <1>1, LeaseQuiet

LEMMA LeaseEndOfBatch == ASSUME IInv, LInv, EndOfBatch PROVE LInv'
<1>1. PICK n \in 0..(IF tick.serving THEN Len(rows) ELSE 0) :
        rows' = [i \in Id |-> IF i <= n /\ rows[i].state \in Done
                              THEN [rows[i] EXCEPT !.state = "pruned"] ELSE rows[i]]
  BY DEF EndOfBatch
<1>2. n \in Nat /\ permanent' = permanent /\ UNCHANGED proc
  BY <1>1, RowsTyped DEF EndOfBatch, IInv
<1>3. RowStep /\ \A i \in Id : rows'[i] = rows[i] \/ rows[i].state \in Done
  BY <1>1, <1>2, RowsPruned
<1> QED
  BY <1>2, <1>3, LeaseQuiet DEF LInv, Done

(* A goroutine starts a call, goes on with it or gives it up. *)
LEMMA LeaseCall ==
  ASSUME IInv, LInv, rows' = rows, NEW p \in Caller, NEW c, Become(p, c),
         c.pc \in {"work", "settle"} => Busy(p, c.ev.id)
  PROVE  LInv'
<1>1. Id' = Id
  BY DEF Id
<1>2. \A q \in Caller : \A i : Busy(q, i)' => Busy(q, i)
  BY BusyAfter
<1> QED
  BY <1>1, <1>2, LeaseKept

LEMMA LeaseStep == ASSUME IInv, LInv, ~SlowWork, [Next]_vars PROVE LInv'
<1>1. CASE UNCHANGED vars
  BY <1>1, RowsStay, LeaseQuiet DEF vars
<1>2. ASSUME NEW i \in Id, Offer(i) PROVE LInv'
  BY <1>2, RowsStay, LeaseQuiet DEF Offer
<1>3. ASSUME NEW w \in Worker, Take(w) PROVE LInv'
  <2>1. [IdleCall EXCEPT !.pc = "claim", !.ev = Head(queue)].pc = "claim"
    BY DEF IdleCall
  <2> QED
    BY <1>3, <2>1, LeaseCall DEF Take, Caller
<1>4. ASSUME NEW s \in Slot, Dispatch(s) PROVE LInv'
  <2>1. [IdleCall EXCEPT !.pc = "claim", !.ev = Head(tick.todo)].pc = "claim"
    BY DEF IdleCall
  <2> QED
    BY <1>4, <2>1, LeaseCall DEF Dispatch, Caller
<1>5. ASSUME NEW w \in Worker, Timeout(w) PROVE LInv'
  BY <1>5, LeaseCall DEF Timeout, IdleCall, Caller
<1>6. ASSUME NEW p \in Caller, Work(p) PROVE LInv'
  <2>1. PICK err \in {"none", "transient", "terminal"} :
          Become(p, [proc[p] EXCEPT !.pc = "settle", !.err = err])
    BY <1>6 DEF Work
  <2>2. proc[p].pc = "work" /\ proc[p] \in Call /\ rows' = rows
    BY <1>6, CalledRow DEF Work
  <2>3. [proc[p] EXCEPT !.pc = "settle", !.err = err].ev = proc[p].ev
    BY <2>2 DEF Call
  <2> QED
    BY <2>1, <2>2, <2>3, LeaseCall DEF Busy
<1>7. CASE List
  BY <1>7, RowsStay, LeaseQuiet DEF List
<1>8. CASE Crash
  <2>1. Id' = Id /\ rows' = rows
    BY <1>8 DEF Crash, Id
  <2>2. \A p \in Caller : \A i : ~Busy(p, i)'
    BY <1>8 DEF Crash, Busy, IdleCall, Caller
  <2> QED
    BY <2>1, <2>2, LeaseKept
<1> QED
  BY <1>1, <1>2, <1>3, <1>4, <1>5, <1>6, <1>7, <1>8, LeaseHandler, LeaseEndOfBatch, LeaseElapse,
     LeaseClaim, LeaseSettle DEF Next, Processing, Caller

LEMMA InitLInv == Init => LInv
  BY DEF Init, LInv, OneWorkerPerEvent, Busy, IdleCall, Caller

(* While no replay outlasts its lease, the row of a call that works or       *)
(* settles stays leased.                                                     *)
THEOREM LeaseInvariance == ASSUME ~SlowWork PROVE Spec => [](IInv /\ LInv)
<1>1. Init => IInv /\ LInv
  BY InitIInv, InitLInv
<1>2. IInv /\ LInv /\ [Next]_vars => (IInv /\ LInv)'
  BY StepIInv, LeaseStep
<1> QED
  BY <1>1, <1>2, PTL DEF Spec

(* While no replay outlasts its lease, one call at a time works on an event. *)
THEOREM Exclusion == ASSUME ~SlowWork PROVE Spec => []OneWorkerPerEvent
<1>1. LInv => OneWorkerPerEvent
  BY DEF LInv
<1> QED
  BY <1>1, LeaseInvariance, PTL

-----------------------------------------------------------------------------
(* Refinement of InboxAbs.  The outcome of a delivery is that of its one row *)
(* that is not pruned: appending accepts, settling completes or gives up,    *)
(* pruning forgets, everything else stutters.                                *)

Class(s) == IF s \in Pending THEN "pending" ELSE IF s \in Done THEN "done" ELSE "dead"

OutcomeOK ==
  /\ \A i \in Id : rows[i].state # "pruned" => Outcome(rows[i].key) = Class(rows[i].state)
  /\ \A d \in Delivery : ~Known(d) => Outcome(d) = "unknown"

LEMMA OutcomeIs == IInv => OutcomeOK
<1> SUFFICES ASSUME IInv PROVE OutcomeOK
  OBVIOUS
<1>1. ASSUME NEW i \in Id, rows[i].state # "pruned"
      PROVE  Outcome(rows[i].key) = Class(rows[i].state)
  <2> DEFINE d == rows[i].key
             j == CHOOSE j \in Id : rows[j].key = d /\ rows[j].state # "pruned"
  <2>1. j \in Id /\ rows[j].key = d /\ rows[j].state # "pruned"
    BY <1>1
  <2>2. j = i
    BY <1>1, <2>1 DEF IInv, UniqueKeys
  <2>3. rows[i].state \in Pending \cup Done \cup {"dead"}
    BY <1>1, RowsTyped DEF IInv, RowState
  <2>4. Outcome(d) = CASE rows[j].state \in Pending -> "pending"
                       [] rows[j].state \in Done    -> "done"
                       [] rows[j].state = "dead"    -> "dead"
    BY <1>1 DEF Outcome
  <2> HIDE DEF j
  <2> QED
    BY <2>2, <2>3, <2>4 DEF Class, Pending, Done
<1>2. ASSUME NEW d \in Delivery, ~Known(d) PROVE Outcome(d) = "unknown"
  BY <1>2 DEF Outcome, Known
<1> QED
  BY <1>1, <1>2 DEF OutcomeOK

(* A delivery none of whose rows changed has the outcome it had. *)
LEMMA SameOutcome ==
  ASSUME OutcomeOK, OutcomeOK', NEW d \in Delivery,
         \A i \in Id : rows[i].key = d => i \in Id' /\ rows'[i] = rows[i],
         \A i \in Id' : rows'[i].key = d => i \in Id /\ rows[i].key = d
  PROVE  Outcome(d)' = Outcome(d)
<1>1. CASE Known(d)
  <2>1. PICK i \in Id : rows[i].key = d /\ rows[i].state # "pruned"
    BY <1>1 DEF Known
  <2>2. Outcome(d) = Class(rows[i].state)
    BY <2>1 DEF OutcomeOK
  <2>3. i \in Id' /\ rows'[i] = rows[i]
    BY <2>1
  <2>4. Outcome(d)' = Class(rows[i].state)
    BY <2>1, <2>3 DEF OutcomeOK, Class
  <2> QED
    BY <2>2, <2>4
<1>2. CASE ~Known(d)
  <2>1. ~Known(d)'
    BY <1>2 DEF Known
  <2> QED
    BY <1>2, <2>1 DEF OutcomeOK
<1> QED
  BY <1>1, <1>2

LEMMA StayRefines ==
  ASSUME OutcomeOK, OutcomeOK', rows' = rows
  PROVE  [d \in Delivery |-> Outcome(d)]' = [d \in Delivery |-> Outcome(d)]
<1>1. Id' = Id
  BY DEF Id
<1>2. \A d \in Delivery : Outcome(d)' = Outcome(d)
  BY <1>1, SameOutcome
<1> QED
  BY <1>2

LEMMA AppendRefines ==
  ASSUME IInv, OutcomeOK, OutcomeOK', NEW d \in Delivery, ~Known(d), Len(rows) < MaxRows,
         rows' = NewRow(d), permanent' = permanent
  PROVE  Promise!Accept(d)
<1>1. Id' = Id \cup {Len(rows) + 1} /\ \A i \in Id : rows'[i] = rows[i]
  BY RowAppended
<1>2. rows'[Len(rows) + 1] = [key |-> d, state |-> "due", attempts |-> 0]
  BY RowsTyped, AppendProperties DEF NewRow, IInv
<1>3. \A e \in Delivery : e # d => Outcome(e)' = Outcome(e)
  BY <1>1, <1>2, SameOutcome
<1>4. Outcome(d) = "unknown"
  BY DEF OutcomeOK
<1>5. Outcome(d)' = "pending"
  BY <1>1, <1>2 DEF OutcomeOK, Class, Pending
<1> QED
  BY <1>3, <1>4, <1>5 DEF Promise!Accept, Promise!Move

(* One row changes, and neither was nor is pruned. *)
LEMMA WriteRefines ==
  ASSUME IInv, OutcomeOK, OutcomeOK', NEW i \in Id, Id' = Id,
         \A j \in Id : j # i => rows'[j] = rows[j],
         NEW k, rows[i].key = k, rows'[i].key = k,
         rows[i].state # "pruned", rows'[i].state # "pruned"
  PROVE  /\ k \in Delivery
         /\ Outcome(k) = Class(rows[i].state)
         /\ Outcome(k)' = Class(rows'[i].state)
         /\ \A d \in Delivery : d # k => Outcome(d)' = Outcome(d)
<1>1. k \in Delivery
  BY RowsTyped DEF IInv
<1>2. Outcome(k) = Class(rows[i].state)
  BY DEF OutcomeOK
<1>3. Outcome(k)' = Class(rows'[i].state)
  BY DEF OutcomeOK, Class
<1>4. \A d \in Delivery : d # k => Outcome(d)' = Outcome(d)
  BY SameOutcome
<1> QED
  BY <1>1, <1>2, <1>3, <1>4

LEMMA MoveRefines ==
  ASSUME IInv, OutcomeOK, OutcomeOK', NEW i \in Id, rows[i].state \in Pending, NEW s \in Pending,
         rows' = Set(i, s), permanent' = permanent
  PROVE  [d \in Delivery |-> Outcome(d)]' = [d \in Delivery |-> Outcome(d)]
<1>1. /\ Id' = Id /\ rows'[i] = [rows[i] EXCEPT !.state = s]
      /\ \A j \in Id : j # i => rows'[j] = rows[j]
  BY RowMoved
<1>2. PICK k : k = rows[i].key
  OBVIOUS
<1>3. rows'[i].state = s /\ rows'[i].key = k
  BY <1>1, <1>2, RowsTyped DEF Row, IInv
<1>4. s # "pruned" /\ rows[i].state # "pruned" /\ Class(s) = Class(rows[i].state)
  BY DEF Pending, Class
<1>5. Outcome(k)' = Outcome(k) /\ \A d \in Delivery : d # k => Outcome(d)' = Outcome(d)
  BY <1>1, <1>2, <1>3, <1>4, WriteRefines
<1> QED
  BY <1>5

LEMMA SettleRefines ==
  ASSUME IInv, LInv, OutcomeOK, OutcomeOK', NEW p \in Caller, Settle(p), rows' # rows
  PROVE  \E d \in Delivery : \/ Promise!Complete(d) \/ Promise!GiveUp(d)
                             \/ [e \in Delivery |-> Outcome(e)]' = [e \in Delivery |-> Outcome(e)]
<1>a. PICK i \in Id : i = proc[p].ev.id /\ rows' = [rows EXCEPT ![i] = Settled(proc[p])]
  BY CalledRow DEF Settle
<1>b. PICK s, k : s = Settled(proc[p]) /\ k = rows[i].key
  OBVIOUS
<1>0. /\ i = proc[p].ev.id /\ s = Settled(proc[p]) /\ k = rows[i].key
      /\ rows' = [rows EXCEPT ![i] = s]
  BY <1>a, <1>b
<1>1. rows[i].state = "leased" /\ permanent' = permanent /\ proc[p].pc = "settle"
  BY <1>0 DEF Settle, Busy, LInv
<1>2. /\ s \in Row /\ s.key = k /\ rows[i].attempts <= s.attempts
      /\ s.state = "dead" => i \in permanent \/ s.attempts >= MaxEventAttempts
      /\ s.state \in Done \cup {"dead", "backoff"}
  BY <1>0, <1>1, SettledOK
<1>3. s.state # "pruned" /\ rows[i].state # "pruned"
  BY <1>1, <1>2 DEF Done
<1>4. /\ k \in Delivery
      /\ Outcome(k) = Class(rows[i].state)
      /\ Outcome(k)' = Class(s.state)
      /\ \A d \in Delivery : d # k => Outcome(d)' = Outcome(d)
  <2>1. Id' = Id /\ rows'[i] = s /\ \A j \in Id : j # i => rows'[j] = rows[j]
    BY <1>0, <1>1, <1>2, <1>3, RowWritten
  <2> QED
    BY <1>0, <1>2, <1>3, <2>1, WriteRefines
<1>5. Class(rows[i].state) = "pending"
  BY <1>1 DEF Class, Pending
<1>6. CASE s.state \in Done
  <2>1. Class(s.state) = "done"
    BY <1>6 DEF Class, Pending, Done
  <2>2. Promise!Complete(k)
    BY <1>4, <1>5, <2>1 DEF Promise!Complete, Promise!Move
  <2> QED
    BY <1>4, <2>2
<1>7. CASE s.state = "dead"
  <2>1. Class(s.state) = "dead"
    BY <1>7 DEF Class, Pending, Done
  <2>2. Promise!GiveUp(k)
    BY <1>4, <1>5, <2>1 DEF Promise!GiveUp, Promise!Move
  <2> QED
    BY <1>4, <2>2
<1>8. CASE s.state = "backoff"
  <2>1. Class(s.state) = "pending"
    BY <1>8 DEF Class, Pending
  <2>2. [e \in Delivery |-> Outcome(e)]' = [e \in Delivery |-> Outcome(e)]
    BY <1>4, <1>5, <2>1
  <2> QED
    BY <1>4, <2>2
<1> QED
  BY <1>2, <1>6, <1>7, <1>8

LEMMA PruneRefines ==
  ASSUME IInv, OutcomeOK, OutcomeOK', EndOfBatch
  PROVE  \E S \in SUBSET Delivery : Promise!Forget(S)
<1>1. PICK n \in 0..(IF tick.serving THEN Len(rows) ELSE 0) :
        rows' = [i \in Id |-> IF i <= n /\ rows[i].state \in Done
                              THEN [rows[i] EXCEPT !.state = "pruned"] ELSE rows[i]]
  BY DEF EndOfBatch
<1>2. n \in Nat /\ permanent' = permanent
  BY <1>1, RowsTyped DEF EndOfBatch, IInv
<1>3. /\ Grows /\ Id' = Id
      /\ \A i \in Id : \/ rows'[i] = rows[i]
                       \/ rows[i].state \in Done /\ rows'[i].state = "pruned"
  BY <1>1, <1>2, RowsPruned DEF RowStep
<1> DEFINE Gone(i) == rows[i].state \in Done /\ rows'[i].state = "pruned"
           S == {d \in Delivery : \E i \in Id : rows[i].key = d /\ Gone(i)}
<1>4. ASSUME NEW d \in S PROVE Outcome(d) = "done" /\ Outcome(d)' = "unknown"
  <2>1. PICK i \in Id : rows[i].key = d /\ Gone(i)
    OBVIOUS
  <2>2. rows[i].state # "pruned" /\ Class(rows[i].state) = "done"
    BY <2>1 DEF Class, Done, Pending
  <2>3. ASSUME Known(d)' PROVE FALSE
    <3>1. PICK j \in Id : rows'[j].key = d /\ rows'[j].state # "pruned"
      BY <1>3, <2>3 DEF Known
    <3>2. rows'[j] = rows[j] /\ rows[j].key = d
      BY <1>3, <3>1
    <3>3. j = i
      BY <2>1, <2>2, <3>1, <3>2 DEF IInv, UniqueKeys
    <3> QED
      BY <2>1, <3>1, <3>3
  <2> QED
    BY <2>1, <2>2, <2>3 DEF OutcomeOK
<1>5. ASSUME NEW d \in Delivery, d \notin S PROVE Outcome(d)' = Outcome(d)
  <2>1. \A i \in Id : rows[i].key = d => rows'[i] = rows[i]
    BY <1>3, <1>5
  <2> QED
    BY <1>3, <2>1, SameOutcome DEF Grows
<1>6. S \in SUBSET Delivery /\ Promise!Forget(S)
  <2> HIDE DEF S
  <2>1. \A d \in S : d \in Delivery
    BY DEF S
  <2> QED
    BY <1>4, <1>5, <2>1 DEF Promise!Forget, Promise!Move
<1> QED
  BY <1>6

LEMMA InitRefines == Init => Promise!Init
<1> SUFFICES ASSUME Init PROVE Promise!Init
  OBVIOUS
<1>1. OutcomeOK
  BY InitIInv, OutcomeIs
<1>2. Id = {}
  BY EmptySeq DEF Init, Id
<1>3. \A d \in Delivery : Outcome(d) = "unknown"
  BY <1>1, <1>2 DEF OutcomeOK, Known
<1> QED
  BY <1>3 DEF Promise!Init

LEMMA StepRefines ==
  ASSUME IInv, LInv, OutcomeOK, OutcomeOK', [Next]_vars
  PROVE  [Promise!Next]_([d \in Delivery |-> Outcome(d)])
<1> DEFINE same == [d \in Delivery |-> Outcome(d)]' = [d \in Delivery |-> Outcome(d)]
<1>1. CASE rows' = rows
  BY <1>1, StayRefines
<1>2. ASSUME NEW d \in Delivery, Receive(d) \/ ReceiveFails(d), rows' # rows PROVE Promise!Next
  <2>1. ~Known(d) /\ Len(rows) < MaxRows /\ rows' = NewRow(d) /\ permanent' = permanent
    BY <1>2 DEF Receive, ReceiveFails
  <2>2. Promise!Accept(d)
    BY <2>1, AppendRefines
  <2> QED
    BY <2>2 DEF Promise!Next
<1>3. ASSUME NEW i \in Id, Elapse(i) PROVE same
  BY <1>3, MoveRefines DEF Elapse, Pending
<1>4. ASSUME NEW p \in Caller, Claim(p), rows' # rows PROVE same
  <2>1. PICK i \in Id : rows[i].state = "due" /\ rows' = Set(i, "leased")
    BY <1>4, CalledRow DEF Claim
  <2>2. permanent' = permanent
    BY <1>4 DEF Claim
  <2> QED
    BY <2>1, <2>2, MoveRefines DEF Pending
<1>5. ASSUME NEW p \in Caller, Settle(p), rows' # rows PROVE Promise!Next \/ same
  BY <1>5, SettleRefines DEF Promise!Next
<1>6. CASE EndOfBatch
  BY <1>6, PruneRefines DEF Promise!Next
<1>7. CASE \E d \in Delivery : Duplicate(d)
  BY <1>1, <1>7 DEF Duplicate
<1>8. CASE \E i \in Id : Offer(i)
  BY <1>1, <1>8 DEF Offer
<1>9. CASE \E w \in Worker : Take(w) \/ Timeout(w)
  BY <1>1, <1>9 DEF Take, Timeout
<1>10. CASE List \/ Crash \/ UNCHANGED vars
  BY <1>1, <1>10 DEF List, Crash, vars
<1>11. CASE \E s \in Slot : Dispatch(s)
  BY <1>1, <1>11 DEF Dispatch
<1>12. CASE \E p \in Caller : Work(p)
  BY <1>1, <1>12 DEF Work
<1> QED
  BY <1>1, <1>2, <1>3, <1>4, <1>5, <1>6, <1>7, <1>8, <1>9, <1>10, <1>11, <1>12
     DEF Next, Handler, Processing, Caller

(* While no replay outlasts its lease, a delivery that was accepted stays    *)
(* pending until it is settled, is settled one way only, and is forgotten    *)
(* only once done.                                                           *)
THEOREM Refinement == ASSUME ~SlowWork PROVE Spec => KeepsPromise
<1>1. IInv /\ LInv /\ OutcomeOK /\ OutcomeOK' /\ [Next]_vars
        => [Promise!Next]_([d \in Delivery |-> Outcome(d)])
  BY StepRefines
<1> QED
  BY <1>1, InitRefines, OutcomeIs, LeaseInvariance, PTL DEF Spec, KeepsPromise, Promise!Spec
=============================================================================
