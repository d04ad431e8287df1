------------------------------- MODULE Daemon -------------------------------
(***************************************************************************)
(* Several ramifyd processes configured with one socket path: start, the   *)
(* replay of the inbox, Server.Serve up to its blocking wait, the stop on  *)
(* a signal and the crash.  What they share is outside the processes: the  *)
(* directory entry of the control socket and the advisory lock beside it.  *)
(*                                                                         *)
(* A socket file outlives the process that bound it, a flock does not.     *)
(* Closing a listener unlinks whatever the path names at that moment, not  *)
(* only the file the listener bound.                                       *)
(***************************************************************************)
EXTENDS Naturals

CONSTANTS Procs,       \* the ramifyd processes of one configuration
          None,        \* no process
          Platforms,   \* a set of BOOLEANs: TRUE is Unix, where the process
                       \* lock exists; elsewhere it is a no-op
          MaxStarts,   \* bound on the processes started
          MaxFaults,   \* bound on failing system calls
          MaxCrashes   \* bound on processes that die without a shutdown

ASSUME NoneAssumption == None \notin Procs
ASSUME PlatformsAssumption == Platforms \subseteq BOOLEAN

VARIABLES
    unix,      \* the platform has the process lock
    pc,        \* what the process is doing; "off" when it is not running
    stop,      \* SIGTERM or SIGINT was delivered: ctx is cancelled
    why,       \* why Serve gave up: "lock", "live", "taken", "fault" or None
    open,      \* the process's unix listener is open
    path,      \* the process whose socket file the path names, or None
    lock,      \* the process holding <socket>.lock, or None
    starts, faults, crashes

vars == <<unix, pc, stop, why, open, path, lock, starts, faults, crashes>>
bounds == <<starts, faults, crashes>>

\* Between taking the lock and the return of Serve.
Locked == {"stat", "probe", "remove", "listen", "chmod", "tcp", "serving",
           "release"}
Listening == {"chmod", "tcp", "serving"}
Pcs == {"off", "replay", "lock", "returned"} \cup Locked
Reasons == {None, "lock", "live", "taken", "fault"}

Init ==
    /\ unix \in Platforms
    /\ pc = [p \in Procs |-> "off"]
    /\ stop = [p \in Procs |-> FALSE]
    /\ why = [p \in Procs |-> None]
    /\ open = [p \in Procs |-> FALSE]
    /\ path = None
    /\ lock = None
    /\ starts = 0 /\ faults = 0 /\ crashes = 0

Goto(p, label) == pc' = [pc EXCEPT ![p] = label]

\* A system call of this step fails.
Fault ==
    /\ faults < MaxFaults
    /\ faults' = faults + 1
    /\ UNCHANGED <<starts, crashes>>

\* Serve reports an error on its way out; the deferred release comes next.
GiveUp(p, reason) ==
    /\ Goto(p, "release")
    /\ why' = [why EXCEPT ![p] = reason]

-----------------------------------------------------------------------------
\* run: configuration, store and providers are up; the inbox is replayed
\* before the control API, the reaper loop and the event loop exist.
Start(p) ==
    /\ pc[p] = "off"
    /\ starts < MaxStarts
    /\ starts' = starts + 1
    /\ Goto(p, "replay")
    /\ stop' = [stop EXCEPT ![p] = FALSE]
    /\ why' = [why EXCEPT ![p] = None]
    /\ UNCHANGED <<open, path, lock, faults, crashes>>

\* An error of the replay ends the process before it listens.
Replay(p) ==
    /\ pc[p] = "replay"
    /\ \/ Goto(p, "lock") /\ UNCHANGED bounds
       \/ Goto(p, "off") /\ Fault
    /\ UNCHANGED <<stop, why, open, path, lock>>

\* The flock waits for its holder instead of failing.
MutBlockingLock(p) ==
    /\ pc[p] = "lock"
    /\ unix => lock = None
    /\ lock' = IF unix THEN p ELSE lock
    /\ Goto(p, "stat")
    /\ UNCHANGED <<why, bounds, stop, open, path>>

\* flock(LOCK_EX | LOCK_NB): a held lock is an error at once.
acquireProcessLock(p) ==
    /\ pc[p] = "lock"
    /\ \/ /\ unix => lock = None
          /\ lock' = IF unix THEN p ELSE lock
          /\ Goto(p, "stat")
          /\ UNCHANGED <<why, bounds>>
       \/ /\ unix /\ lock # None
          /\ Goto(p, "returned")
          /\ why' = [why EXCEPT ![p] = "lock"]
          /\ UNCHANGED <<lock, bounds>>
       \/ /\ Goto(p, "returned")
          /\ why' = [why EXCEPT ![p] = "fault"]
          /\ Fault
          /\ UNCHANGED lock
    /\ UNCHANGED <<stop, open, path>>

Stat(p) ==
    /\ pc[p] = "stat"
    /\ \/ Goto(p, IF path = None THEN "remove" ELSE "probe") /\ UNCHANGED <<why, bounds>>
       \/ GiveUp(p, "fault") /\ Fault
    /\ UNCHANGED <<stop, open, path, lock>>

\* The path names the socket of a process that still listens on it.
Live == path # None /\ open[path]

\* Any file at the path is taken for a live socket.
MutProbe(p) ==
    /\ pc[p] = "probe"
    /\ GiveUp(p, "live")
    /\ UNCHANGED <<stop, open, path, lock, bounds>>

\* A connection is a refusal to go on.  A dial that fails, or that a busy
\* server leaves waiting past the timeout, takes the file for stale.
probeStaleSocket(p) ==
    /\ pc[p] = "probe"
    /\ \/ Live /\ GiveUp(p, "live") /\ UNCHANGED bounds
       \/ Live /\ Goto(p, "remove") /\ Fault /\ UNCHANGED why
       \/ ~Live /\ Goto(p, "remove") /\ UNCHANGED <<why, bounds>>
    /\ UNCHANGED <<stop, open, path, lock>>

\* The file is removed by name, even when Stat saw none.
Remove(p) ==
    /\ pc[p] = "remove"
    /\ \/ path' = None /\ Goto(p, "listen") /\ UNCHANGED <<why, bounds>>
       \/ GiveUp(p, "fault") /\ Fault /\ UNCHANGED path
    /\ UNCHANGED <<stop, open, lock>>

Listen(p) ==
    /\ pc[p] = "listen"
    /\ \/ /\ path = None
          /\ path' = p
          /\ open' = [open EXCEPT ![p] = TRUE]
          /\ Goto(p, "chmod")
          /\ UNCHANGED <<why, bounds>>
       \/ path # None /\ GiveUp(p, "taken") /\ UNCHANGED <<open, path, bounds>>
       \/ GiveUp(p, "fault") /\ Fault /\ UNCHANGED <<open, path>>
    /\ UNCHANGED <<stop, lock>>

\* The listener is closed, which unlinks the path whatever it names.
Close(p) ==
    /\ open' = [open EXCEPT ![p] = FALSE]
    /\ path' = IF open[p] THEN None ELSE path

Chmod(p) ==
    /\ pc[p] = "chmod"
    /\ \/ Goto(p, "tcp") /\ UNCHANGED <<open, path, why, bounds>>
       \/ Close(p) /\ GiveUp(p, "fault") /\ Fault
    /\ UNCHANGED <<stop, lock>>

\* When the TCP address cannot be bound the unix server is left running.
MutListenTCP(p) ==
    /\ pc[p] = "tcp"
    /\ \/ Goto(p, "serving") /\ UNCHANGED <<why, bounds>>
       \/ GiveUp(p, "fault") /\ Fault
    /\ UNCHANGED <<stop, lock, open, path>>

\* The unix server already answers when the TCP address is bound; when that
\* fails it is shut down again.
ListenTCP(p) ==
    /\ pc[p] = "tcp"
    /\ \/ Goto(p, "serving") /\ UNCHANGED <<open, path, why, bounds>>
       \/ Close(p) /\ GiveUp(p, "fault") /\ Fault
    /\ UNCHANGED <<stop, lock>>

\* The accept loop of the unix server fails: http.Server.Serve closes the
\* listener and its error waits in errCh, while Serve goes on waiting for ctx.
AcceptError(p) ==
    /\ pc[p] \in {"tcp", "serving"} /\ open[p]
    /\ Close(p)
    /\ Fault
    /\ UNCHANGED <<pc, stop, why, lock>>

\* The lock is released before the listener is closed.
MutShutdown(p) ==
    /\ pc[p] = "serving" /\ stop[p]
    /\ IF lock = p
         THEN lock' = None /\ UNCHANGED <<pc, open, path>>
         ELSE Close(p) /\ Goto(p, "release") /\ UNCHANGED lock
    /\ UNCHANGED <<stop, why, bounds>>

\* Only a server that still listens is shut down.
MutShutdownOpen(p) ==
    /\ open[p]
    /\ pc[p] = "serving" /\ stop[p]
    /\ Close(p)
    /\ Goto(p, "release")
    /\ UNCHANGED <<stop, why, lock, bounds>>

\* ctx is done: both servers are shut down, then the deferred release runs.
Shutdown(p) ==
    /\ pc[p] = "serving" /\ stop[p]
    /\ Close(p)
    /\ Goto(p, "release")
    /\ UNCHANGED <<stop, why, lock, bounds>>

Release(p) ==
    /\ pc[p] = "release"
    /\ lock' = IF lock = p THEN None ELSE lock
    /\ Goto(p, "returned")
    /\ UNCHANGED <<stop, why, open, path, bounds>>

\* run waits for all three goroutines.  The loops end only on the signal, so
\* a process whose Serve failed keeps replaying and reaping until then.
Exit(p) ==
    /\ pc[p] = "returned" /\ stop[p]
    /\ Goto(p, "off")
    /\ UNCHANGED <<stop, why, open, path, lock, bounds>>

Signal(p) ==
    /\ pc[p] # "off" /\ ~stop[p]
    /\ stop' = [stop EXCEPT ![p] = TRUE]
    /\ UNCHANGED <<pc, why, open, path, lock, bounds>>

\* The kernel closes the descriptors: the lock is free, the file stays.
Crash(p) ==
    /\ pc[p] # "off"
    /\ crashes < MaxCrashes
    /\ crashes' = crashes + 1
    /\ Goto(p, "off")
    /\ open' = [open EXCEPT ![p] = FALSE]
    /\ lock' = IF lock = p THEN None ELSE lock
    /\ UNCHANGED <<stop, why, path, starts, faults>>

Serve(p) ==
    \/ acquireProcessLock(p) \/ Stat(p) \/ probeStaleSocket(p) \/ Remove(p)
    \/ Listen(p) \/ Chmod(p) \/ ListenTCP(p) \/ Shutdown(p) \/ Release(p)

Step(p) == Replay(p) \/ Serve(p) \/ Exit(p)

Next ==
    /\ \E p \in Procs :
         \/ Start(p) \/ Step(p)
         \/ AcceptError(p) \/ Signal(p) \/ Crash(p)
    /\ UNCHANGED unix

\* A running process is scheduled; signals, faults and crashes are not owed.
Spec == Init /\ [][Next]_vars /\ \A p \in Procs : WF_vars(Step(p) /\ UNCHANGED unix)

-----------------------------------------------------------------------------
(* Properties *)

TypeOK ==
    /\ unix \in BOOLEAN
    /\ pc \in [Procs -> Pcs]
    /\ stop \in [Procs -> BOOLEAN]
    /\ why \in [Procs -> Reasons]
    /\ open \in [Procs -> BOOLEAN]
    /\ path \in Procs \cup {None}
    /\ lock \in Procs \cup {None}
    /\ \A p \in Procs : open[p] => pc[p] \in Listening  \* no listener survives Serve
    /\ starts \in Nat /\ faults \in Nat /\ crashes \in Nat

\* Where the process lock exists, the socket path names the socket of every
\* process that listens: no other daemon's removal, rebinding, failed start or
\* late shutdown (closing unlinks by name) takes the path from a running
\* daemon, even when the probe misjudges a busy one (Serve, listenUnix;
\* docs/operations.md: a second daemon cannot disconnect or hijack the first).
NotHijacked == unix => \A p \in Procs : open[p] => path = p

\* Where the process lock exists, Serve gives up for a held lock or a failing
\* system call only: the socket file of a daemon that is dead or has given up
\* the lock never makes a start fail (probeStaleSocket, listenUnix).
LeftoversDoNotBlock ==
    unix => \A p \in Procs : why[p] \in {None, "lock", "fault"}

\* A process that begins to serve gets to serve, or gives up with an error, or
\* ends: it waits for no other daemon (LOCK_NB in acquireProcessLock).
StartSettles == \A p \in Procs :
    pc[p] = "lock" ~> (pc[p] \in {"serving", "off"} \/ why[p] # None)

\* A signalled process ends, whatever became of its control API: a Serve that
\* failed early and one whose accept loop died both let run return.
SignalEnds == \A p \in Procs : stop[p] ~> pc[p] = "off"
=============================================================================
