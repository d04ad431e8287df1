----------------------------- MODULE KeyedMutex -----------------------------
(***************************************************************************)
(* The mutex per project/branch of internal/core/keyedmutex.go, which       *)
(* forgets a key once nobody holds it or waits for it.  The map and the     *)
(* reference counts change only under k.mu, so each of those two critical   *)
(* sections is one action; locking and unlocking the entry's own mutex are  *)
(* actions of their own, and other goroutines run in between.               *)
(***************************************************************************)
EXTENDS Naturals, FiniteSets

CONSTANTS
  Goroutine,     \* callers of Lock
  Key,           \* project/branch pairs
  Entry,         \* heap addresses of refCountedMutex values
  NoKey, NoEntry, NoGoroutine

ASSUME KeyedMutexAssumption ==
  /\ IsFiniteSet(Goroutine)
  /\ NoKey \notin Key
  /\ NoEntry \notin Entry
  /\ NoGoroutine \notin Goroutine

VARIABLES
  locks,     \* k.locks: the entry of each key
  refs,      \* e.refs
  owner,     \* who has locked e.mu
  pc, key, ent   \* a caller: where it is, its key, and its local variable e

vars == <<locks, refs, owner, pc, key, ent>>

TypeOK ==
  /\ locks \in [Key -> Entry \cup {NoEntry}]
  /\ refs \in [Entry -> Nat]
  /\ owner \in [Entry -> Goroutine \cup {NoGoroutine}]
  /\ pc \in [Goroutine -> {"out", "wait", "in", "drop"}]
  /\ key \in [Goroutine -> Key \cup {NoKey}]
  /\ ent \in [Goroutine -> Entry \cup {NoEntry}]

Init ==
  /\ locks = [k \in Key |-> NoEntry]
  /\ refs = [e \in Entry |-> 0]
  /\ owner = [e \in Entry |-> NoGoroutine]
  /\ pc = [g \in Goroutine |-> "out"]
  /\ key = [g \in Goroutine |-> NoKey]
  /\ ent = [g \in Goroutine |-> NoEntry]

(* An address no map entry and no caller refers to: new memory, or memory    *)
(* the garbage collector has reclaimed.                                      *)
Unreachable(e) == (\A k \in Key : locks[k] # e) /\ (\A g \in Goroutine : ent[g] # e)

(* Lock, first critical section: find or make the entry, count the caller.   *)
(* A new entry starts from zero.                                             *)
Register(g, k) ==
  /\ pc[g] = "out"
  /\ \E e \in Entry :
       /\ IF locks[k] = NoEntry THEN Unreachable(e) ELSE e = locks[k]
       /\ locks' = [locks EXCEPT ![k] = e]
       /\ refs' = [refs EXCEPT ![e] = IF locks[k] = NoEntry THEN 1 ELSE @ + 1]
       /\ owner' = [owner EXCEPT ![e] = IF locks[k] = NoEntry THEN NoGoroutine ELSE @]
       /\ ent' = [ent EXCEPT ![g] = e]
  /\ pc' = [pc EXCEPT ![g] = "wait"]
  /\ key' = [key EXCEPT ![g] = k]

(* Mutant: the lock is not fair, one waiter always lets the others go first. *)
MutAcquire(g) ==
  /\ pc[g] = "wait"
  /\ owner[ent[g]] = NoGoroutine
  /\ g = (CHOOSE x \in Goroutine : TRUE) =>
       \A h \in Goroutine : pc[h] = "wait" /\ ent[h] = ent[g] => h = g
  /\ owner' = [owner EXCEPT ![ent[g]] = g]
  /\ pc' = [pc EXCEPT ![g] = "in"]
  /\ UNCHANGED <<locks, refs, key, ent>>

(* Lock: e.mu.Lock() returns. *)
Acquire(g) ==
  /\ pc[g] = "wait"
  /\ owner[ent[g]] = NoGoroutine
  /\ owner' = [owner EXCEPT ![ent[g]] = g]
  /\ pc' = [pc EXCEPT ![g] = "in"]
  /\ UNCHANGED <<locks, refs, key, ent>>

(* The release function: e.mu.Unlock(), outside k.mu. *)
Release(g) ==
  /\ pc[g] = "in"
  /\ owner' = [owner EXCEPT ![ent[g]] = NoGoroutine]
  /\ pc' = [pc EXCEPT ![g] = "drop"]
  /\ UNCHANGED <<locks, refs, key, ent>>

(* Mutant: whoever releases the mutex forgets the key, waiters or not. *)
MutDrop(g) ==
  /\ pc[g] = "drop"
  /\ refs' = [refs EXCEPT ![ent[g]] = @ - 1]
  /\ locks' = [locks EXCEPT ![key[g]] = NoEntry]
  /\ pc' = [pc EXCEPT ![g] = "out"]
  /\ key' = [key EXCEPT ![g] = NoKey]
  /\ ent' = [ent EXCEPT ![g] = NoEntry]
  /\ UNCHANGED owner

(* Mutant: the count is decremented for a caller that never registered it.   *)
MutDropTwice(g) ==
  /\ pc[g] = "drop"
  /\ refs' = [refs EXCEPT ![ent[g]] = @ - 2]
  /\ locks' = IF refs[ent[g]] = 1 THEN [locks EXCEPT ![key[g]] = NoEntry] ELSE locks
  /\ pc' = [pc EXCEPT ![g] = "out"]
  /\ key' = [key EXCEPT ![g] = NoKey]
  /\ ent' = [ent EXCEPT ![g] = NoEntry]
  /\ UNCHANGED owner

(* Mutant: the entry is kept when its last user leaves. *)
MutDropKeeps(g) ==
  /\ pc[g] = "drop"
  /\ refs' = [refs EXCEPT ![ent[g]] = @ - 1]
  /\ pc' = [pc EXCEPT ![g] = "out"]
  /\ key' = [key EXCEPT ![g] = NoKey]
  /\ ent' = [ent EXCEPT ![g] = NoEntry]
  /\ UNCHANGED <<locks, owner>>

(* The release function, second part, under k.mu: the last user out deletes  *)
(* the key.                                                                  *)
Drop(g) ==
  /\ pc[g] = "drop"
  /\ refs' = [refs EXCEPT ![ent[g]] = @ - 1]
  /\ locks' = IF refs[ent[g]] = 1 THEN [locks EXCEPT ![key[g]] = NoEntry] ELSE locks
  /\ pc' = [pc EXCEPT ![g] = "out"]
  /\ key' = [key EXCEPT ![g] = NoKey]
  /\ ent' = [ent EXCEPT ![g] = NoEntry]
  /\ UNCHANGED owner

Next ==
  \E g \in Goroutine :
    Acquire(g) \/ Release(g) \/ Drop(g) \/ \E k \in Key : Register(g, k)

Spec == Init /\ [][Next]_vars

(* Every caller finishes what it does with the lock, and sync.Mutex does not *)
(* starve a waiter.  Nobody has to call Lock.                                *)
FairSpec ==
  Spec /\ \A g \in Goroutine : SF_vars(Acquire(g)) /\ WF_vars(Release(g)) /\ WF_vars(Drop(g))

-----------------------------------------------------------------------------
(* Two callers are never inside the critical section of the same key,        *)
(* although the map entry may be deleted and made anew while others wait.    *)
MutualExclusion ==
  \A g, h \in Goroutine : pc[g] = "in" /\ pc[h] = "in" /\ key[g] = key[h] => g = h

(* "forgets a key once its last holder unlocks": the map holds exactly the   *)
(* keys somebody uses, so it does not grow with the branches that come and   *)
(* go.                                                                       *)
NoIdleEntries ==
  \A k \in Key : locks[k] # NoEntry <=> \E g \in Goroutine : pc[g] # "out" /\ key[g] = k

(* It implements one mutex per key. *)
Branch ==
  INSTANCE BranchLock WITH
    wants <- [g \in Goroutine |-> IF pc[g] = "wait" THEN key[g] ELSE NoKey],
    holds <- [g \in Goroutine |-> IF pc[g] = "in" THEN key[g] ELSE NoKey]

ImplementsBranchLock == Branch!Spec

(* No caller waits forever. *)
EveryWaiterEnters == \A g \in Goroutine : pc[g] = "wait" ~> pc[g] = "in"
=============================================================================
