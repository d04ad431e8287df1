---------------------------- MODULE DaemonProofs ----------------------------
(***************************************************************************)
(* Type correctness of Daemon, and the safety of the control socket for    *)
(* any number of processes, starts, faults and crashes, by one inductive   *)
(* invariant: on Unix a process inside Serve holds the lock, so all that   *)
(* happens to the path there happens to one process at a time.             *)
(***************************************************************************)
EXTENDS Daemon, TLAPS

\* On Unix a process between the lock and the return of Serve holds the lock.
Exclusive == unix => \A p \in Procs : pc[p] \in Locked => lock = p

\* On Unix nothing takes the path between its removal and the bind.
PathIsFree == unix => \A p \in Procs : pc[p] = "listen" => path = None

IInv == TypeOK /\ Exclusive /\ PathIsFree /\ NotHijacked /\ LeftoversDoNotBlock

-----------------------------------------------------------------------------
\* Every step of a process keeps the types (all actions of Daemon).
LEMMA StepKeepsTypes ==
    ASSUME TypeOK, NEW p \in Procs, unix' = unix,
           \/ Start(p) \/ Step(p)
           \/ AcceptError(p) \/ Signal(p) \/ Crash(p)
    PROVE  TypeOK'
PROOF
  <1> USE NoneAssumption DEF TypeOK, Pcs, Locked, Listening, Reasons, bounds
  <1>1. CASE Start(p)
    BY <1>1 DEF Start, Goto
  <1>2. CASE Replay(p)
    BY <1>2 DEF Replay, Goto, Fault
  <1>3. CASE acquireProcessLock(p)
    BY <1>3 DEF acquireProcessLock, Goto, Fault
  <1>4. CASE Stat(p)
    BY <1>4 DEF Stat, Goto, GiveUp, Fault
  <1>5. CASE probeStaleSocket(p)
    BY <1>5 DEF probeStaleSocket, Goto, GiveUp, Fault, Live
  <1>6. CASE Remove(p)
    BY <1>6 DEF Remove, Goto, GiveUp, Fault
  <1>7. CASE Listen(p)
    <2>1. CASE Goto(p, "chmod")
      BY <1>7, <2>1 DEF Listen, GiveUp, Goto
    <2>2. CASE /\ GiveUp(p, "taken") \/ GiveUp(p, "fault")
               /\ UNCHANGED <<open, path>>
      BY <1>7, <2>2 DEF Listen, GiveUp, Goto, Fault
    <2>3. QED
      BY <1>7, <2>1, <2>2 DEF Listen
  <1>8. CASE Chmod(p)
    <2>1. CASE Goto(p, "tcp") /\ UNCHANGED <<open, path, why, bounds>>
      BY <1>8, <2>1 DEF Chmod, Goto
    <2>2. CASE Close(p) /\ GiveUp(p, "fault") /\ Fault
      BY <1>8, <2>2 DEF Chmod, Close, GiveUp, Goto, Fault
    <2>3. QED
      BY <1>8, <2>1, <2>2 DEF Chmod
  <1>9. CASE ListenTCP(p)
    <2>1. CASE Goto(p, "serving") /\ UNCHANGED <<open, path, why, bounds>>
      BY <1>9, <2>1 DEF ListenTCP, Goto
    <2>2. CASE Close(p) /\ GiveUp(p, "fault") /\ Fault
      BY <1>9, <2>2 DEF ListenTCP, Close, GiveUp, Goto, Fault
    <2>3. QED
      BY <1>9, <2>1, <2>2 DEF ListenTCP
  <1>10. CASE Shutdown(p)
    BY <1>10 DEF Shutdown, Close, Goto
  <1>11. CASE Release(p)
    BY <1>11 DEF Release, Goto
  <1>12. CASE Exit(p)
    BY <1>12 DEF Exit, Goto
  <1>13. CASE AcceptError(p)
    BY <1>13 DEF AcceptError, Close, Fault
  <1>14. CASE Signal(p)
    BY <1>14 DEF Signal
  <1>15. CASE Crash(p)
    BY <1>15 DEF Crash, Goto
  <1>16. QED
    BY <1>1, <1>2, <1>3, <1>4, <1>5, <1>6, <1>7, <1>8, <1>9, <1>10, <1>11, <1>12, <1>13, <1>14, <1>15 DEF Step, Serve

\* Init and every step keep the types, whatever the platform, the processes
\* and the bounds; a listener never survives the Serve that opened it.
THEOREM TypeCorrect == Spec => []TypeOK
PROOF
  <1>1. Init => TypeOK
    BY PlatformsAssumption
       DEF Init, TypeOK, Pcs, Locked, Listening, Reasons
  <1>2. TypeOK /\ [Next]_vars => TypeOK'
    <2>1. CASE Next
      BY <2>1, StepKeepsTypes DEF Next
    <2>2. CASE UNCHANGED vars
      BY <2>2 DEF vars, TypeOK
    <2>3. QED
      BY <2>1, <2>2
  <1>3. QED
    BY <1>1, <1>2, PTL DEF Spec

-----------------------------------------------------------------------------
\* The probe of a process that holds the lock never meets a live socket: its
\* owner would be inside Serve and hold the lock too (probeStaleSocket).
LEMMA ProbeFindsNoOne ==
    ASSUME IInv, unix, NEW p \in Procs, pc[p] = "probe"
    PROVE  ~Live
PROOF
  <1>1. ASSUME Live PROVE FALSE
    <2>1. path \in Procs /\ open[path]
      BY <1>1 DEF Live, IInv, TypeOK
    <2>2. pc[path] \in Listening
      BY <2>1 DEF IInv, TypeOK
    <2>3. lock = path /\ lock = p
      BY <2>1, <2>2 DEF IInv, Exclusive, Listening, Locked
    <2>4. QED
      BY <2>2, <2>3 DEF Listening
  <1>2. QED
    BY <1>1

\* Every step of a process keeps the control socket safe on Unix.
LEMMA StepKeepsSocket ==
    ASSUME IInv, NEW p \in Procs, unix' = unix, unix,
           \/ Start(p) \/ Step(p)
           \/ AcceptError(p) \/ Signal(p) \/ Crash(p)
    PROVE  Exclusive' /\ PathIsFree' /\ NotHijacked' /\ LeftoversDoNotBlock'
PROOF
  <1> USE NoneAssumption DEF IInv, TypeOK, Exclusive, PathIsFree, NotHijacked,
          LeftoversDoNotBlock, Locked, Listening, bounds
  <1>1. CASE Start(p)
    BY <1>1 DEF Start, Goto
  <1>2. CASE Replay(p)
    BY <1>2 DEF Replay, Goto, Fault
  <1>3. CASE acquireProcessLock(p)
    BY <1>3 DEF acquireProcessLock, Goto, Fault
  <1>4. CASE Stat(p)
    BY <1>4 DEF Stat, Goto, GiveUp, Fault
  <1>5. CASE probeStaleSocket(p)
    BY <1>5, ProbeFindsNoOne DEF probeStaleSocket, Goto, GiveUp, Fault
  <1>6. CASE Remove(p)
    BY <1>6 DEF Remove, Goto, GiveUp, Fault
  <1>7. CASE Listen(p)
    BY <1>7 DEF Listen, Goto, GiveUp, Fault
  <1>8. CASE Chmod(p)
    BY <1>8 DEF Chmod, Close, Goto, GiveUp, Fault
  <1>9. CASE ListenTCP(p)
    BY <1>9 DEF ListenTCP, Close, Goto, GiveUp, Fault
  <1>10. CASE Shutdown(p)
    BY <1>10 DEF Shutdown, Close, Goto
  <1>11. CASE Release(p)
    BY <1>11 DEF Release, Goto
  <1>12. CASE Exit(p)
    BY <1>12 DEF Exit, Goto
  <1>13. CASE AcceptError(p)
    BY <1>13 DEF AcceptError, Close, Fault
  <1>14. CASE Signal(p)
    BY <1>14 DEF Signal
  <1>15. CASE Crash(p)
    BY <1>15 DEF Crash, Goto
  <1>16. QED
    BY <1>1, <1>2, <1>3, <1>4, <1>5, <1>6, <1>7, <1>8, <1>9, <1>10, <1>11, <1>12, <1>13, <1>14, <1>15 DEF Step, Serve

\* The inductive invariant behind the two theorems below.
LEMMA Inductive == Spec => []IInv
PROOF
  <1>1. Init => IInv
    <2>1. Init => TypeOK
      BY PlatformsAssumption
         DEF Init, TypeOK, Pcs, Locked, Listening, Reasons
    <2>2. QED
      BY <2>1 DEF Init, IInv, Exclusive, PathIsFree, NotHijacked,
                  LeftoversDoNotBlock, Locked
  <1>2. IInv /\ [Next]_vars => IInv'
    <2> SUFFICES ASSUME IInv, [Next]_vars
                 PROVE  IInv'
      OBVIOUS
    <2>1. CASE Next
      <3>1. PICK p \in Procs : \/ Start(p) \/ Step(p)
                               \/ AcceptError(p) \/ Signal(p) \/ Crash(p)
        BY <2>1 DEF Next
      <3>2. unix' = unix
        BY <2>1 DEF Next
      <3>3. TypeOK'
        BY <3>1, <3>2, StepKeepsTypes DEF IInv
      <3>4. CASE unix
        BY <3>1, <3>2, <3>3, <3>4, StepKeepsSocket DEF IInv
      <3>5. CASE ~unix
        BY <3>2, <3>3, <3>5
           DEF IInv, Exclusive, PathIsFree, NotHijacked, LeftoversDoNotBlock
      <3>6. QED
        BY <3>4, <3>5
    <2>2. CASE UNCHANGED vars
      BY <2>2 DEF vars, IInv, TypeOK, Exclusive, PathIsFree, NotHijacked,
                  LeftoversDoNotBlock
    <2>3. QED
      BY <2>1, <2>2
  <1>3. QED
    BY <1>1, <1>2, PTL DEF Spec

\* With the process lock no daemon loses its socket to another one: not to a
\* probe that misjudges, a rebinding, a failed start or a late shutdown.
THEOREM SocketIsSafe == Spec => []NotHijacked
PROOF
  <1>1. IInv => NotHijacked
    BY DEF IInv
  <1>2. QED
    BY <1>1, Inductive, PTL

\* With the process lock a start fails only for a held lock or a failing
\* system call, never for what an earlier daemon left at the path.
THEOREM StaleSocketIsReplaced == Spec => []LeftoversDoNotBlock
PROOF
  <1>1. IInv => LeftoversDoNotBlock
    BY DEF IInv
  <1>2. QED
    BY <1>1, Inductive, PTL
=============================================================================
