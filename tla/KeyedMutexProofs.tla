-------------------------- MODULE KeyedMutexProofs --------------------------
(***************************************************************************)
(* keyedMutex for any finite number of goroutines and any keys: mutual      *)
(* exclusion per key, no idle map entries, and the refinement of one mutex  *)
(* per key.  The argument is the reference count: it is the number of       *)
(* callers that refer to the entry, so the entry is deleted only when no    *)
(* caller still waits on it.                                                *)
(***************************************************************************)
EXTENDS KeyedMutex, FiniteSetTheorems, TLAPS

Users(e) == {g \in Goroutine : ent[g] = e}

(* A caller's entry is the one the map has for its key. *)
CallerOK(g) ==
  /\ pc[g] = "out" => ent[g] = NoEntry
  /\ pc[g] # "out" => key[g] \in Key /\ ent[g] \in Entry /\ locks[key[g]] = ent[g]
  /\ pc[g] = "in" => owner[ent[g]] = g

(* An entry in the map counts its users, and has some. *)
CountOK(k) ==
  locks[k] # NoEntry =>
    refs[locks[k]] = Cardinality(Users(locks[k])) /\ refs[locks[k]] # 0

IInv ==
  /\ TypeOK
  /\ \A g \in Goroutine : CallerOK(g)
  /\ \A k \in Key : CountOK(k)
  /\ \A k, l \in Key : locks[k] = locks[l] /\ locks[k] # NoEntry => k = l

LEMMA UsersFinite == ASSUME NEW e PROVE IsFiniteSet(Users(e)) /\ Cardinality(Users(e)) \in Nat
  BY KeyedMutexAssumption, FS_Subset, FS_CardinalityType DEF Users

LEMMA InitIInv == Init => IInv
  BY KeyedMutexAssumption DEF Init, IInv, TypeOK, CallerOK, CountOK

LEMMA RegisterStep ==
  ASSUME IInv, NEW g \in Goroutine, NEW k \in Key, Register(g, k)
  PROVE  IInv'
<1>1. PICK e \in Entry :
        /\ IF locks[k] = NoEntry THEN Unreachable(e) ELSE e = locks[k]
        /\ locks' = [locks EXCEPT ![k] = e]
        /\ refs' = [refs EXCEPT ![e] = IF locks[k] = NoEntry THEN 1 ELSE refs[e] + 1]
        /\ owner' = [owner EXCEPT ![e] = IF locks[k] = NoEntry THEN NoGoroutine ELSE owner[e]]
        /\ ent' = [ent EXCEPT ![g] = e]
  BY DEF Register
<1>2. pc[g] = "out" /\ pc' = [pc EXCEPT ![g] = "wait"] /\ key' = [key EXCEPT ![g] = k]
  BY DEF Register
<1>3. /\ locks \in [Key -> Entry \cup {NoEntry}] /\ refs \in [Entry -> Nat]
      /\ owner \in [Entry -> Goroutine \cup {NoGoroutine}]
      /\ pc \in [Goroutine -> {"out", "wait", "in", "drop"}]
      /\ key \in [Goroutine -> Key \cup {NoKey}] /\ ent \in [Goroutine -> Entry \cup {NoEntry}]
  BY DEF IInv, TypeOK
<1>4. ent[g] = NoEntry /\ e # NoEntry /\ g \notin Users(e)
  BY <1>2, KeyedMutexAssumption DEF IInv, CallerOK, Users
<1>5. TypeOK'
  BY <1>1, <1>2, <1>3 DEF TypeOK
<1>6. \A l \in Key : l # k => locks'[l] = locks[l] /\ locks[l] # e
  <2> SUFFICES ASSUME NEW l \in Key, l # k PROVE locks'[l] = locks[l] /\ locks[l] # e
    OBVIOUS
  <2>1. CASE locks[k] = NoEntry
    BY <1>1, <1>3, <2>1 DEF Unreachable
  <2>2. CASE locks[k] # NoEntry
    BY <1>1, <1>3, <2>2 DEF IInv
  <2> QED
    BY <2>1, <2>2
<1>7. locks'[k] = e /\ ent'[g] = e /\ \A h \in Goroutine : h # g => ent'[h] = ent[h]
  BY <1>1, <1>3
<1>8. ASSUME NEW h \in Goroutine PROVE CallerOK(h)'
  <2>1. CASE h = g
    BY <1>2, <1>3, <1>7, <2>1 DEF CallerOK
  <2>2. CASE h # g
    <3>1. CallerOK(h) /\ pc'[h] = pc[h] /\ key'[h] = key[h] /\ ent'[h] = ent[h]
      BY <1>2, <1>3, <1>7, <2>2 DEF IInv
    <3>2. CASE pc[h] = "out"
      BY <3>1, <3>2 DEF CallerOK
    <3>3. CASE pc[h] # "out"
      <4>1. key[h] \in Key /\ ent[h] \in Entry /\ locks[key[h]] = ent[h]
        BY <3>1, <3>3 DEF CallerOK
      <4>2. locks'[key[h]] = ent[h]
        BY <1>1, <1>3, <1>6, <1>7, <4>1, KeyedMutexAssumption
      <4>3. owner'[ent[h]] = owner[ent[h]]
        BY <1>1, <1>3, <4>1 DEF Unreachable
      <4> QED
        BY <3>1, <4>1, <4>2, <4>3 DEF CallerOK
    <3> QED
      BY <3>2, <3>3
  <2> QED
    BY <2>1, <2>2
<1>9. Users(e)' = Users(e) \cup {g} /\ \A f : f # e => Users(f)' = Users(f) \/ f = NoEntry
  BY <1>3, <1>4, <1>7 DEF Users
<1>10. Cardinality(Users(e)') = Cardinality(Users(e)) + 1
  BY <1>4, <1>9, UsersFinite, FS_AddElement
<1>11. CountOK(k)'
  <2>1. CASE locks[k] = NoEntry
    <3>1. Users(e) = {}
      BY <1>1, <2>1 DEF Unreachable, Users
    <3>2. Cardinality(Users(e)') = 1
      BY <1>10, <3>1, FS_EmptySet
    <3>3. refs'[e] = 1
      BY <1>1, <1>3, <2>1
    <3> QED
      BY <1>7, <3>2, <3>3 DEF CountOK
  <2>2. CASE locks[k] # NoEntry
    <3>1. refs[e] = Cardinality(Users(e)) /\ refs'[e] = refs[e] + 1 /\ refs[e] \in Nat
      BY <1>1, <1>3, <2>2 DEF IInv, CountOK
    <3>2. refs[e] + 1 # 0
      BY <3>1
    <3> QED
      BY <1>7, <1>10, <3>1, <3>2 DEF CountOK
  <2> QED
    BY <2>1, <2>2
<1>12. ASSUME NEW l \in Key, l # k PROVE CountOK(l)'
  <2>1. CountOK(l) /\ locks'[l] = locks[l] /\ locks[l] # e
    BY <1>6, <1>12 DEF IInv
  <2>2. CASE locks[l] = NoEntry
    BY <2>1, <2>2 DEF CountOK
  <2>3. CASE locks[l] # NoEntry
    <3>1. refs'[locks[l]] = refs[locks[l]] /\ Users(locks[l])' = Users(locks[l])
      BY <1>1, <1>3, <1>7, <2>1, <2>3, <1>4 DEF Users
    <3> QED
      BY <2>1, <2>3, <3>1 DEF CountOK
  <2> QED
    BY <2>2, <2>3
<1>13. \A l, m \in Key : locks'[l] = locks'[m] /\ locks'[l] # NoEntry => l = m
  BY <1>6, <1>7 DEF IInv
<1> QED
  BY <1>5, <1>8, <1>11, <1>12, <1>13 DEF IInv

LEMMA AcquireStep == ASSUME IInv, NEW g \in Goroutine, Acquire(g) PROVE IInv'
<1>1. /\ pc[g] = "wait" /\ owner[ent[g]] = NoGoroutine
      /\ owner' = [owner EXCEPT ![ent[g]] = g] /\ pc' = [pc EXCEPT ![g] = "in"]
      /\ UNCHANGED <<locks, refs, key, ent>>
  BY DEF Acquire
<1>2. ent[g] \in Entry
  BY <1>1 DEF IInv, CallerOK
<1>3. TypeOK'
  BY <1>1, <1>2 DEF IInv, TypeOK
<1>4. ASSUME NEW h \in Goroutine PROVE CallerOK(h)'
  <2>1. CASE h = g
    BY <1>1, <1>2, <2>1 DEF IInv, TypeOK, CallerOK
  <2>2. CASE h # g
    <3>1. CallerOK(h) /\ pc'[h] = pc[h]
      BY <1>1, <2>2 DEF IInv, TypeOK
    <3>2. pc[h] = "in" => owner'[ent[h]] = h
      BY <1>1, <1>2, <3>1, KeyedMutexAssumption DEF IInv, TypeOK, CallerOK
    <3> QED
      BY <1>1, <3>1, <3>2 DEF CallerOK
  <2> QED
    BY <2>1, <2>2
<1>5. \A k \in Key : CountOK(k)'
  BY <1>1 DEF IInv, CountOK, Users
<1> QED
  BY <1>1, <1>3, <1>4, <1>5 DEF IInv

LEMMA ReleaseStep == ASSUME IInv, NEW g \in Goroutine, Release(g) PROVE IInv'
<1>1. /\ pc[g] = "in"
      /\ owner' = [owner EXCEPT ![ent[g]] = NoGoroutine] /\ pc' = [pc EXCEPT ![g] = "drop"]
      /\ UNCHANGED <<locks, refs, key, ent>>
  BY DEF Release
<1>2. ent[g] \in Entry /\ owner[ent[g]] = g
  BY <1>1 DEF IInv, CallerOK
<1>3. TypeOK'
  BY <1>1, <1>2 DEF IInv, TypeOK
<1>4. ASSUME NEW h \in Goroutine PROVE CallerOK(h)'
  <2>1. CASE h = g
    BY <1>1, <1>2, <2>1 DEF IInv, TypeOK, CallerOK
  <2>2. CASE h # g
    <3>1. CallerOK(h) /\ pc'[h] = pc[h]
      BY <1>1, <2>2 DEF IInv, TypeOK
    <3>2. pc[h] = "in" => owner'[ent[h]] = h
      BY <1>1, <1>2, <2>2, <3>1 DEF IInv, TypeOK, CallerOK
    <3> QED
      BY <1>1, <3>1, <3>2 DEF CallerOK
  <2> QED
    BY <2>1, <2>2
<1>5. \A k \in Key : CountOK(k)'
  BY <1>1 DEF IInv, CountOK, Users
<1> QED
  BY <1>1, <1>3, <1>4, <1>5 DEF IInv

LEMMA DropStep == ASSUME IInv, NEW g \in Goroutine, Drop(g) PROVE IInv'
<1>0. PICK e \in Entry, k \in Key : e = ent[g] /\ k = key[g] /\ locks[k] = e
  BY DEF Drop, IInv, CallerOK
<1>1. /\ pc[g] = "drop" /\ refs' = [refs EXCEPT ![e] = refs[e] - 1]
      /\ locks' = IF refs[e] = 1 THEN [locks EXCEPT ![k] = NoEntry] ELSE locks
      /\ pc' = [pc EXCEPT ![g] = "out"] /\ key' = [key EXCEPT ![g] = NoKey]
      /\ ent' = [ent EXCEPT ![g] = NoEntry] /\ owner' = owner
  BY <1>0 DEF Drop
<1>2. k \in Key /\ e \in Entry /\ locks[k] = e /\ e # NoEntry
  BY <1>0, KeyedMutexAssumption
<1>3. /\ locks \in [Key -> Entry \cup {NoEntry}] /\ refs \in [Entry -> Nat]
      /\ owner \in [Entry -> Goroutine \cup {NoGoroutine}]
      /\ pc \in [Goroutine -> {"out", "wait", "in", "drop"}]
      /\ key \in [Goroutine -> Key \cup {NoKey}] /\ ent \in [Goroutine -> Entry \cup {NoEntry}]
  BY DEF IInv, TypeOK
<1>4. refs[e] = Cardinality(Users(e)) /\ refs[e] # 0 /\ refs[e] \in Nat
  BY <1>2, <1>3 DEF IInv, CountOK
<1>5. refs[e] - 1 \in Nat
  <2>1. \A n \in Nat : n # 0 => n - 1 \in Nat
    OBVIOUS
  <2> QED
    BY <1>4, <2>1
<1>6. TypeOK'
  BY <1>1, <1>2, <1>3, <1>5 DEF TypeOK
<1>7. g \in Users(e) /\ Users(e)' = Users(e) \ {g}
      /\ \A f \in Entry : f # e => Users(f)' = Users(f)
  BY <1>0, <1>1, <1>2, <1>3, KeyedMutexAssumption DEF Users
<1>8. Cardinality(Users(e)') = refs[e] - 1
  BY <1>4, <1>7, UsersFinite, FS_RemoveElement
<1>9. refs[e] = 1 => \A h \in Goroutine : ent[h] = e => h = g
  <2>1. refs[e] = 1 => \E x : Users(e) = {x}
    BY <1>4, UsersFinite, FS_Singleton
  <2> QED
    BY <1>7, <2>1 DEF Users
<1>10. ASSUME NEW h \in Goroutine PROVE CallerOK(h)'
  <2>1. CASE h = g
    BY <1>1, <1>3, <2>1 DEF CallerOK
  <2>2. CASE h # g
    <3>1. CallerOK(h) /\ pc'[h] = pc[h] /\ key'[h] = key[h] /\ ent'[h] = ent[h]
      BY <1>1, <1>3, <2>2 DEF IInv
    <3>2. pc[h] # "out" => locks'[key[h]] = locks[key[h]]
      BY <1>0, <1>1, <1>2, <1>3, <1>9, <2>2, <3>1 DEF CallerOK
    <3> QED
      BY <1>1, <3>1, <3>2 DEF CallerOK
  <2> QED
    BY <2>1, <2>2
<1>11. ASSUME NEW l \in Key PROVE CountOK(l)'
  <2>1. CASE l = k /\ refs[e] = 1
    BY <1>1, <1>2, <1>3, <2>1 DEF CountOK
  <2>2. CASE l = k /\ refs[e] # 1
    <3>1. locks'[l] = e /\ refs'[e] = refs[e] - 1
      BY <1>1, <1>2, <1>3, <2>2
    <3>2. refs[e] - 1 # 0
      <4>1. \A n \in Nat : n # 1 => n - 1 # 0
        OBVIOUS
      <4> QED
        BY <1>4, <2>2, <4>1
    <3> QED
      BY <1>8, <3>1, <3>2 DEF CountOK
  <2>3. CASE l # k
    <3>1. CountOK(l) /\ locks'[l] = locks[l] /\ locks[l] # e /\ locks[l] \in Entry \cup {NoEntry}
      BY <1>1, <1>2, <1>3, <2>3 DEF IInv
    <3>2. CASE locks[l] = NoEntry
      BY <3>1, <3>2 DEF CountOK
    <3>3. CASE locks[l] # NoEntry
      <4>1. PICK f \in Entry : f = locks[l] /\ f # e
        BY <3>1, <3>3
      <4>2. refs'[f] = refs[f] /\ Users(f)' = Users(f)
        BY <1>1, <1>3, <1>7, <4>1
      <4> QED
        BY <3>1, <4>1, <4>2 DEF CountOK
    <3> QED
      BY <3>2, <3>3
  <2> QED
    BY <2>1, <2>2, <2>3
<1>12. \A l, m \in Key : locks'[l] = locks'[m] /\ locks'[l] # NoEntry => l = m
  BY <1>1, <1>2, <1>3 DEF IInv
<1> QED
  BY <1>6, <1>10, <1>11, <1>12 DEF IInv

LEMMA StepIInv == IInv /\ [Next]_vars => IInv'
<1> SUFFICES ASSUME IInv, [Next]_vars PROVE IInv'
  OBVIOUS
<1>1. CASE UNCHANGED vars
  BY <1>1 DEF IInv, TypeOK, CallerOK, CountOK, Users, vars
<1>2. CASE Next
  BY <1>2, RegisterStep, AcquireStep, ReleaseStep, DropStep DEF Next
<1> QED
  BY <1>1, <1>2

(* The reference count of an entry is the number of callers using it. *)
THEOREM Invariance == Spec => []IInv
  BY InitIInv, StepIInv, PTL DEF Spec

(* The variables keep their types: a count never goes below zero, and a      *)
(* caller never waits on something that is not an entry.                     *)
THEOREM TypeCorrect == Spec => []TypeOK
<1>1. IInv => TypeOK
  BY DEF IInv
<1> QED
  BY <1>1, Invariance, PTL

LEMMA IInvExcludes == IInv => MutualExclusion
<1> SUFFICES ASSUME IInv, NEW g \in Goroutine, NEW h \in Goroutine,
                    pc[g] = "in", pc[h] = "in", key[g] = key[h]
             PROVE  g = h
  BY DEF MutualExclusion
<1>1. owner[ent[g]] = g /\ owner[ent[h]] = h /\ ent[g] = ent[h]
  BY DEF IInv, CallerOK
<1> QED
  BY <1>1

LEMMA IInvForgets == IInv => NoIdleEntries
<1> SUFFICES ASSUME IInv, NEW k \in Key
             PROVE  locks[k] # NoEntry <=> \E g \in Goroutine : pc[g] # "out" /\ key[g] = k
  BY DEF NoIdleEntries
<1>1. ASSUME locks[k] # NoEntry PROVE \E g \in Goroutine : pc[g] # "out" /\ key[g] = k
  <2>1. Cardinality(Users(locks[k])) # 0
    BY <1>1 DEF IInv, CountOK
  <2>2. PICK g \in Users(locks[k]) : TRUE
    BY <2>1, FS_EmptySet
  <2>3. g \in Goroutine /\ ent[g] = locks[k] /\ pc[g] # "out"
    BY <1>1, <2>2 DEF Users, IInv, CallerOK
  <2>4. key[g] \in Key /\ locks[key[g]] = locks[k]
    BY <2>3 DEF IInv, CallerOK
  <2> QED
    BY <1>1, <2>3, <2>4 DEF IInv
<1>2. ASSUME NEW g \in Goroutine, pc[g] # "out", key[g] = k PROVE locks[k] # NoEntry
  BY <1>2, KeyedMutexAssumption DEF IInv, CallerOK
<1> QED
  BY <1>1, <1>2

(* Two callers are never inside the section of one key. *)
THEOREM Exclusion == Spec => []MutualExclusion
  BY IInvExcludes, Invariance, PTL

(* The map never keeps a key nobody uses, and never loses one somebody does. *)
THEOREM Forgetting == Spec => []NoIdleEntries
  BY IInvForgets, Invariance, PTL

-----------------------------------------------------------------------------
(* Refinement: Register asks, Acquire takes, Release gives, Drop stutters.   *)
LEMMA InitRefines == Init => Branch!Init
  BY DEF Init, Branch!Init

LEMMA StepRefines ==
  ASSUME IInv, [Next]_vars
  PROVE  [Branch!Next]_<<[g \in Goroutine |-> IF pc[g] = "wait" THEN key[g] ELSE NoKey],
                         [g \in Goroutine |-> IF pc[g] = "in" THEN key[g] ELSE NoKey]>>
<1> DEFINE W == [g \in Goroutine |-> IF pc[g] = "wait" THEN key[g] ELSE NoKey]
           H == [g \in Goroutine |-> IF pc[g] = "in" THEN key[g] ELSE NoKey]
<1>0. /\ pc \in [Goroutine -> {"out", "wait", "in", "drop"}]
      /\ key \in [Goroutine -> Key \cup {NoKey}]
  BY DEF IInv, TypeOK
<1>1. CASE UNCHANGED vars
  BY <1>1 DEF vars
<1>2. ASSUME NEW g \in Goroutine, NEW k \in Key, Register(g, k) PROVE Branch!Next
  <2>1. pc[g] = "out" /\ pc' = [pc EXCEPT ![g] = "wait"] /\ key' = [key EXCEPT ![g] = k]
    BY <1>2 DEF Register
  <2>2. W' = [W EXCEPT ![g] = k] /\ H' = H /\ W[g] = NoKey /\ H[g] = NoKey
    BY <1>0, <2>1
  <2>3. Branch!Ask(g, k)
    BY <2>2 DEF Branch!Ask
  <2> QED
    BY <2>3 DEF Branch!Next
<1>3. ASSUME NEW g \in Goroutine, Acquire(g) PROVE Branch!Next
  <2>1. pc[g] = "wait" /\ pc' = [pc EXCEPT ![g] = "in"] /\ key' = key /\ owner[ent[g]] = NoGoroutine
    BY <1>3 DEF Acquire
  <2>2. key[g] \in Key /\ locks[key[g]] = ent[g]
    BY <2>1 DEF IInv, CallerOK
  <2>3. W' = [W EXCEPT ![g] = NoKey] /\ H' = [H EXCEPT ![g] = W[g]] /\ W[g] = key[g]
    BY <1>0, <2>1
  <2>4. \A h \in Goroutine : H[h] # W[g]
    <3> SUFFICES ASSUME NEW h \in Goroutine, H[h] = key[g] PROVE FALSE
      BY <2>3
    <3>1. pc[h] = "in" /\ key[h] = key[g]
      BY <2>2, KeyedMutexAssumption
    <3>2. owner[ent[h]] = h /\ ent[h] = ent[g]
      BY <2>2, <3>1 DEF IInv, CallerOK
    <3> QED
      BY <2>1, <3>2, KeyedMutexAssumption
  <2>5. W[g] # NoKey
    BY <2>2, <2>3, KeyedMutexAssumption
  <2>6. Branch!Take(g)
    BY <2>3, <2>4, <2>5 DEF Branch!Take
  <2> QED
    BY <2>6 DEF Branch!Next
<1>4. ASSUME NEW g \in Goroutine, Release(g) PROVE Branch!Next
  <2>1. pc[g] = "in" /\ pc' = [pc EXCEPT ![g] = "drop"] /\ key' = key
    BY <1>4 DEF Release
  <2>2. key[g] # NoKey
    BY <2>1, KeyedMutexAssumption DEF IInv, CallerOK
  <2>3. H' = [H EXCEPT ![g] = NoKey] /\ W' = W /\ H[g] # NoKey
    BY <1>0, <2>1, <2>2
  <2>4. Branch!Give(g)
    BY <2>3 DEF Branch!Give
  <2> QED
    BY <2>4 DEF Branch!Next
<1>5. ASSUME NEW g \in Goroutine, Drop(g) PROVE W' = W /\ H' = H
  <2>1. pc[g] = "drop" /\ pc' = [pc EXCEPT ![g] = "out"] /\ key' = [key EXCEPT ![g] = NoKey]
    BY <1>5 DEF Drop
  <2> QED
    BY <1>0, <2>1
<1> QED
  BY <1>1, <1>2, <1>3, <1>4, <1>5 DEF Next

(* keyedMutex implements one mutex per key, which is how Reconciler models   *)
(* the lock of a project/branch.                                             *)
THEOREM Refinement == Spec => ImplementsBranchLock
  BY InitRefines, StepRefines, Invariance, PTL DEF Spec, ImplementsBranchLock, Branch!Spec
=============================================================================
