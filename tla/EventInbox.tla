----------------------------- MODULE EventInbox -----------------------------
(***************************************************************************)
(* The durable inbox: handleWebhook stores a delivery and offers it to the  *)
(* bounded in-memory queue of the webhook pool; the event loop of ramifyd   *)
(* lists due events and replays them in batches; both race to claim.  What  *)
(* the reconciler does with an event is abstracted to its outcome           *)
(* (Reconciler models that part); here many deliveries, stale copies of     *)
(* events, leases, the batch barrier, crashes and pruning interact.         *)
(***************************************************************************)
EXTENDS Naturals, Sequences, FiniteSets

CONSTANTS
  Delivery,         \* delivery ids (the dedupe keys)
  Worker,           \* goroutines of the webhook pool (8 in the code)
  Slot,             \* replay goroutines of a batch (maxEventWorkers)
  QueueSize,        \* webhookQueueSize (256 in the code)
  ListLimit,        \* rows of one poll (100 in the code)
  BootLimit,        \* rows of the replay at startup (1000 in the code)
  MaxEventAttempts, \* maxEventAttempts (10 in the code)
  SlowWork,         \* may a replay outlast its 10 minute lease?
  MaxRows,          \* bound on the rows ever created
  MaxFaults,        \* bound on failing calls
  MaxCrashes        \* bound on daemon crashes

ASSUME EventInboxAssumption ==
  /\ Worker \cap Slot = {}
  /\ {QueueSize, MaxRows, MaxFaults, MaxCrashes} \subseteq Nat
  /\ {ListLimit, BootLimit, MaxEventAttempts} \subseteq Nat \ {0}
  /\ SlowWork \in BOOLEAN

VARIABLES
  rows,       \* the events table, in creation order; a deleted row is "pruned"
  queue,      \* webhookQueue: copies of events
  offering,   \* handlers that stored their event and not yet offered it
  answered,   \* deliveries the sender got a 2xx for
  tick,       \* the event loop: starting up or not, and the batch in progress
  proc,       \* calls of ProcessEvent
  permanent,  \* history: rows some attempt at which failed for good
  faults, crashes

bounds == <<faults, crashes>>
vars == <<rows, queue, offering, answered, tick, proc, permanent, faults, crashes>>

Pending == {"due", "leased", "backoff"}
Done    == {"processed", "dead_processed"}
RowState == Pending \cup Done \cup {"dead", "pruned"}

Row == [key : Delivery, state : RowState, attempts : Nat]
Id == 1..Len(rows)

(* What a goroutine knows of an event is a copy made when it was stored or   *)
(* listed; only the id and the attempts of it matter.                        *)
Copy == [id : Nat \ {0}, attempts : Nat]
CopyOf(i) == [id |-> i, attempts |-> rows[i].attempts]
NoCopy == [id |-> 0, attempts |-> 0]

Call == [pc : {"idle", "claim", "work", "settle"}, ev : Copy \cup {NoCopy},
         err : {"none", "transient", "terminal"}]
IdleCall == [pc |-> "idle", ev |-> NoCopy, err |-> "none"]

TypeOK ==
  /\ rows \in Seq(Row) /\ Len(rows) <= MaxRows
  /\ queue \in Seq(Copy) /\ Len(queue) <= QueueSize
  /\ offering \subseteq Id
  /\ answered \subseteq Delivery
  /\ tick \in [phase : {"boot", "wait", "replay"}, serving : BOOLEAN, todo : Seq(Copy)]
  /\ proc \in [Worker \cup Slot -> Call]
  /\ permanent \subseteq Id
  /\ faults \in 0..MaxFaults
  /\ crashes \in 0..MaxCrashes

Booting == [phase |-> "boot", serving |-> FALSE, todo |-> <<>>]

Init ==
  /\ rows = <<>>
  /\ queue = <<>>
  /\ offering = {}
  /\ answered = {}
  /\ tick = Booting
  /\ proc = [p \in Worker \cup Slot |-> IdleCall]
  /\ permanent = {}
  /\ faults = 0
  /\ crashes = 0

-----------------------------------------------------------------------------
Fault == faults < MaxFaults /\ faults' = faults + 1
Set(i, s) == [rows EXCEPT ![i].state = s]
Become(p, c) == proc' = [proc EXCEPT ![p] = c]

(* handleWebhook *)

(* Mutant: the unique index on the delivery id is missing. *)
MutKnown(d) == FALSE

Known(d) == \E i \in Id : rows[i].key = d /\ rows[i].state # "pruned"
NewRow(d) == Append(rows, [key |-> d, state |-> "due", attempts |-> 0])

Receive(d) ==
  /\ tick.serving /\ ~Known(d) /\ Len(rows) < MaxRows
  /\ rows' = NewRow(d)
  /\ offering' = offering \cup {Len(rows) + 1}
  /\ UNCHANGED <<queue, answered, tick, proc, permanent, bounds>>

(* Mutant: the error of CreateEvent is ignored and the sender is told 202. *)
MutReceiveFails(d) ==
  /\ tick.serving /\ ~Known(d)
  /\ Fault
  /\ answered' = answered \cup {d}
  /\ UNCHANGED <<rows, queue, offering, tick, proc, permanent, crashes>>

(* CreateEvent answers an error (503): the row may be stored all the same. *)
ReceiveFails(d) ==
  /\ tick.serving /\ ~Known(d)
  /\ Fault
  /\ rows' \in {rows} \cup (IF Len(rows) < MaxRows THEN {NewRow(d)} ELSE {})
  /\ UNCHANGED <<queue, offering, answered, tick, proc, permanent, crashes>>

Duplicate(d) ==
  /\ tick.serving /\ Known(d)
  /\ answered' = answered \cup {d}
  /\ UNCHANGED <<rows, queue, offering, tick, proc, permanent, bounds>>

(* Mutant: the copy is queued without looking at the capacity. *)
MutOffer(i) ==
  /\ i \in offering
  /\ queue' = Append(queue, [id |-> i, attempts |-> 0])
  /\ offering' = offering \ {i}
  /\ answered' = answered \cup {rows[i].key}
  /\ UNCHANGED <<rows, tick, proc, permanent, bounds>>

(* A full queue drops the copy: the event loop will find the row. *)
Offer(i) ==
  /\ i \in offering
  /\ queue' = IF Len(queue) < QueueSize THEN Append(queue, [id |-> i, attempts |-> 0]) ELSE queue
  /\ offering' = offering \ {i}
  /\ answered' = answered \cup {rows[i].key}
  /\ UNCHANGED <<rows, tick, proc, permanent, bounds>>

-----------------------------------------------------------------------------
(* runWebhookWorker, runEventLoop and ReplayEvents *)

Take(w) ==
  /\ proc[w].pc = "idle" /\ queue # <<>>
  /\ Become(w, [IdleCall EXCEPT !.pc = "claim", !.ev = Head(queue)])
  /\ queue' = Tail(queue)
  /\ UNCHANGED <<rows, offering, answered, tick, permanent, bounds>>

(* ListDueEvents: the oldest due rows, oldest first, as many as the limit    *)
(* allows.  A failing list skips the tick, or ends the daemon at startup     *)
(* (Crash).                                                                  *)
DueCopies(limit) ==
  LET due == {i \in Id : rows[i].state = "due"}
      n == IF Cardinality(due) <= limit THEN Cardinality(due) ELSE limit
      oldest == {s \in [1..n -> due] :
                   /\ \A j, k \in 1..n : j < k => s[j] < s[k]
                   /\ \A i \in due : (\E j \in 1..n : s[j] = i) \/ \A j \in 1..n : s[j] < i}
  IN {[j \in 1..n |-> CopyOf(s[j])] : s \in oldest}

List ==
  /\ tick.phase \in {"boot", "wait"}
  /\ \E todo \in DueCopies(IF tick.serving THEN ListLimit ELSE BootLimit) :
       tick' = [tick EXCEPT !.phase = "replay", !.todo = todo]
  /\ UNCHANGED <<rows, queue, offering, answered, proc, permanent, bounds>>

(* A free place in the semaphore lets the loop start the next event. *)
Dispatch(s) ==
  /\ tick.todo # <<>> /\ proc[s].pc = "idle"
  /\ Become(s, [IdleCall EXCEPT !.pc = "claim", !.ev = Head(tick.todo)])
  /\ tick' = [tick EXCEPT !.todo = Tail(@)]
  /\ UNCHANGED <<rows, queue, offering, answered, permanent, bounds>>

(* wg.Wait: the batch ends when its last call does.  A tick of the event     *)
(* loop then may prune the processed rows older than the retention; the      *)
(* replay at startup is followed by Serve.                                   *)
EndOfBatch ==
  /\ tick.phase = "replay" /\ tick.todo = <<>>
  /\ \A s \in Slot : proc[s].pc = "idle"
  /\ tick' = [tick EXCEPT !.phase = "wait", !.serving = TRUE]
  /\ \E n \in 0..(IF tick.serving THEN Len(rows) ELSE 0) :
       rows' = [i \in Id |-> IF i <= n /\ rows[i].state \in Done
                             THEN [rows[i] EXCEPT !.state = "pruned"] ELSE rows[i]]
  /\ UNCHANGED <<queue, offering, answered, proc, permanent, bounds>>

-----------------------------------------------------------------------------
(* ProcessEvent *)

(* Mutant: the claim does not look whether the event is still due. *)
MutClaim(p) ==
  /\ proc[p].pc = "claim"
  /\ rows' = Set(proc[p].ev.id, "leased")
  /\ Become(p, [proc[p] EXCEPT !.pc = "work"])
  /\ UNCHANGED <<queue, offering, answered, tick, permanent, bounds>>

(* ClaimEvent is a compare-and-set on the row.  It may fail after the commit.*)
Claim(p) ==
  /\ proc[p].pc = "claim"
  /\ LET i == proc[p].ev.id IN
     \/ /\ rows[i].state = "due"
        /\ rows' = Set(i, "leased")
        /\ Become(p, [proc[p] EXCEPT !.pc = "work"])
        /\ UNCHANGED faults
     \/ /\ rows[i].state # "due"
        /\ Become(p, IdleCall)
        /\ UNCHANGED <<rows, faults>>
     \/ /\ Fault
        /\ rows' \in {rows} \cup (IF rows[i].state = "due" THEN {Set(i, "leased")} ELSE {})
        /\ Become(p, IdleCall)
  /\ UNCHANGED <<queue, offering, answered, tick, permanent, crashes>>

(* The reconciler is done with the event. *)
Work(p) ==
  /\ proc[p].pc = "work"
  /\ \E err \in {"none", "transient", "terminal"} :
       /\ Become(p, [proc[p] EXCEPT !.pc = "settle", !.err = err])
       /\ IF err = "none" THEN UNCHANGED faults ELSE Fault
       /\ permanent' = IF err = "terminal" THEN permanent \cup {proc[p].ev.id} ELSE permanent
  /\ UNCHANGED <<rows, queue, offering, answered, tick, crashes>>

(* The 5 minute context of a pool worker expires.  Its work is abandoned,    *)
(* and nothing is recorded: the store calls of scheduleRetry fail with the   *)
(* same context.                                                             *)
Timeout(w) ==
  /\ proc[w].pc = "work"
  /\ Fault
  /\ Become(w, IdleCall)
  /\ UNCHANGED <<rows, queue, offering, answered, tick, permanent, crashes>>

(* Mutant: the budget is compared with the attempts before this one ends.    *)
MutExhausted(c) == c.err = "terminal" \/ c.ev.attempts + 2 >= MaxEventAttempts

Exhausted(c) == c.err = "terminal" \/ c.ev.attempts + 1 >= MaxEventAttempts

(* markProcessed or scheduleRetry.  Rows that are gone, or retired when the  *)
(* call is a retry, are not touched.                                         *)
Settled(c) ==
  LET r == rows[c.ev.id] IN
  CASE r.state = "pruned"                        -> r
    [] r.state # "pruned" /\ c.err = "none"      ->
         [r EXCEPT !.state = IF r.state \in {"dead", "dead_processed"}
                             THEN "dead_processed" ELSE "processed"]
    [] r.state \in Pending /\ c.err # "none"     ->
         [r EXCEPT !.attempts = @ + 1, !.state = IF Exhausted(c) THEN "dead" ELSE "backoff"]
    [] r.state \in Done \cup {"dead"} /\ c.err # "none" -> r

Settle(p) ==
  /\ proc[p].pc = "settle"
  /\ \/ rows' = [rows EXCEPT ![proc[p].ev.id] = Settled(proc[p])] /\ UNCHANGED faults
     \/ UNCHANGED rows /\ Fault
  /\ Become(p, IdleCall)
  /\ UNCHANGED <<queue, offering, answered, tick, permanent, crashes>>

-----------------------------------------------------------------------------
Busy(p, i) == proc[p].pc \in {"work", "settle"} /\ proc[p].ev.id = i

(* Mutant: a lease does not run out. *)
MutElapse(i) ==
  /\ rows[i].state = "backoff"
  /\ rows' = Set(i, "due")
  /\ UNCHANGED <<queue, offering, answered, tick, proc, permanent, bounds>>

(* A backoff ends, or a lease runs out: a pool worker never outlasts it.     *)
Elapse(i) ==
  /\ \/ rows[i].state = "backoff"
     \/ /\ rows[i].state = "leased"
        /\ \A p \in Worker \cup Slot :
             Busy(p, i) => p \in Slot /\ SlowWork
  /\ rows' = Set(i, "due")
  /\ UNCHANGED <<queue, offering, answered, tick, proc, permanent, bounds>>

(* The daemon dies and is started again; the store remains. *)
Crash ==
  /\ crashes < MaxCrashes
  /\ crashes' = crashes + 1
  /\ queue' = <<>> /\ offering' = {} /\ tick' = Booting
  /\ proc' = [p \in Worker \cup Slot |-> IdleCall]
  /\ UNCHANGED <<rows, answered, permanent, faults>>

Handler(d) == Receive(d) \/ ReceiveFails(d) \/ Duplicate(d)
Processing(p) == Claim(p) \/ Work(p) \/ Settle(p)

Next ==
  \/ \E d \in Delivery : Handler(d)
  \/ \E i \in Id : Offer(i) \/ Elapse(i)
  \/ \E w \in Worker : Take(w) \/ Timeout(w)
  \/ List \/ EndOfBatch
  \/ \E s \in Slot : Dispatch(s)
  \/ \E p \in Worker \cup Slot : Processing(p)
  \/ Crash

Spec == Init /\ [][Next]_vars

(* Goroutines run, the ticker fires and clocks advance; deliveries, faults   *)
(* and crashes need not come.                                                *)
Fairness ==
  /\ \A i \in 1..MaxRows : WF_vars(i \in Id /\ Offer(i)) /\ WF_vars(i \in Id /\ Elapse(i))
  /\ \A w \in Worker : WF_vars(Take(w)) /\ WF_vars(Processing(w) \/ Timeout(w))
  /\ \A s \in Slot : WF_vars(Processing(s))
  /\ WF_vars(List) /\ WF_vars(\E s \in Slot : Dispatch(s)) /\ WF_vars(EndOfBatch)

FairSpec == Spec /\ Fairness

-----------------------------------------------------------------------------
(* Properties *)

(* A delivery the sender was told about is on record, whatever crashed: the  *)
(* answer is only given for a stored row, and rows only go once processed.   *)
AnsweredIsKept == \A d \in answered : \E i \in Id : rows[i].key = d

(* While no replay outlasts its lease, one call at a time works on an event, *)
(* although queue, batch and retries all hold copies of it.                  *)
OneWorkerPerEvent ==
  \A p, q \in Worker \cup Slot : \A i \in Id : Busy(p, i) /\ Busy(q, i) => p = q

(* No event is given up early: dead-lettered means that an attempt failed    *)
(* for good or that the attempts on record reach the budget, even when the   *)
(* last call worked from a stale copy.                                       *)
NotGivenUpEarly ==
  \A i \in Id : rows[i].state = "dead" => i \in permanent \/ rows[i].attempts >= MaxEventAttempts

(* The inbox keeps its promise per delivery (InboxAbs). *)
Outcome(d) ==
  IF ~\E i \in Id : rows[i].key = d /\ rows[i].state # "pruned" THEN "unknown"
  ELSE LET i == CHOOSE i \in Id : rows[i].key = d /\ rows[i].state # "pruned" IN
       CASE rows[i].state \in Pending -> "pending"
         [] rows[i].state \in Done    -> "done"
         [] rows[i].state = "dead"    -> "dead"

Promise == INSTANCE InboxAbs WITH outcome <- [d \in Delivery |-> Outcome(d)]

KeepsPromise == Promise!Spec

(* Every stored event is retired, whether the queue was full, the daemon     *)
(* crashed, a call failed or a poll was cut at its limit.                    *)
Waiting(d) == \E i \in Id : rows[i].key = d /\ rows[i].state \in Pending
EveryEventRetires == \A d \in Delivery : Waiting(d) ~> ~Waiting(d)
=============================================================================
