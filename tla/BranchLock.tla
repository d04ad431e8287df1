----------------------------- MODULE BranchLock -----------------------------
(***************************************************************************)
(* What the reconciler relies on: one mutex per key.  A goroutine asks for  *)
(* a key, holds it when no other goroutine does, and gives it back.         *)
(***************************************************************************)
CONSTANTS Goroutine, Key, NoKey

VARIABLES wants, holds     \* the key each goroutine waits for, and has

Ask(g, k) ==
  /\ wants[g] = NoKey /\ holds[g] = NoKey
  /\ wants' = [wants EXCEPT ![g] = k]
  /\ UNCHANGED holds

Take(g) ==
  /\ wants[g] # NoKey
  /\ \A h \in Goroutine : holds[h] # wants[g]
  /\ holds' = [holds EXCEPT ![g] = wants[g]]
  /\ wants' = [wants EXCEPT ![g] = NoKey]

Give(g) ==
  /\ holds[g] # NoKey
  /\ holds' = [holds EXCEPT ![g] = NoKey]
  /\ UNCHANGED wants

Init == wants = [g \in Goroutine |-> NoKey] /\ holds = [g \in Goroutine |-> NoKey]

Next == \E g \in Goroutine : Take(g) \/ Give(g) \/ \E k \in Key : Ask(g, k)

Spec == Init /\ [][Next]_<<wants, holds>>
=============================================================================
