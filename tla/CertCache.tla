----------------------------- MODULE CertCache -----------------------------
(***************************************************************************)
(* The ACME certificate provider: the cache in memory, its copy on disk,    *)
(* and the CA.  EnsureCertificate and RevokeCertificate run concurrently    *)
(* for many hosts, and for one host when two branches share its name; one   *)
(* action is one critical section, file operation or CA request.            *)
(***************************************************************************)
EXTENDS Naturals, FiniteSets

CONSTANTS
  Caller,      \* goroutines
  Host,        \* domains
  NoHost, NoCaller,
  MaxSerial,   \* bound on certificates the CA issues
  MaxFaults,   \* bound on failing requests and file operations
  MaxCrashes   \* bound on daemon restarts

ASSUME CertAssumption ==
  /\ NoHost \notin Host /\ NoCaller \notin Caller
  /\ MaxSerial \in Nat /\ MaxFaults \in Nat /\ MaxCrashes \in Nat

VARIABLES
  ca,        \* the certificates the CA has issued
  cache,     \* Provider.cache: the serial of each host, 0 for none
  disk,      \* the persisted certificate of each host, 0 for none
  issueMu,   \* the holder of issueMu
  call,      \* the goroutines
  faults, crashes,
  raced,     \* history: hosts on which a revocation overlapped with another call
  cut        \* history: hosts whose revocation failed or died under way

vars == <<ca, cache, disk, issueMu, call, faults, crashes, raced, cut>>

(* "fresh": more than 30 days to run; "ageing": less, or expired. *)
Serial == 1..MaxSerial
Cert == [host : Host \cup {NoHost}, age : {"none", "fresh", "ageing"}, revoked : BOOLEAN]
NoCert == [host |-> NoHost, age |-> "none", revoked |-> FALSE]
Pc == {"idle", "look", "wait", "relook", "obtain", "persist", "fill", "read", "revoke", "drop", "unlink"}
Idle == [pc |-> "idle", host |-> NoHost, cert |-> 0]

TypeOK ==
  /\ ca \in [Serial -> Cert]
  /\ cache \in [Host -> 0..MaxSerial] /\ disk \in [Host -> 0..MaxSerial]
  /\ issueMu \in Caller \cup {NoCaller}
  /\ call \in [Caller -> [pc : Pc, host : Host \cup {NoHost}, cert : 0..MaxSerial]]
  /\ faults \in 0..MaxFaults /\ crashes \in 0..MaxCrashes
  /\ raced \subseteq Host /\ cut \subseteq Host
  /\ \A c \in Caller : issueMu = c <=> call[c].pc \in {"relook", "obtain", "persist", "fill"}

Init ==
  /\ ca = [s \in Serial |-> NoCert]
  /\ cache = [h \in Host |-> 0] /\ disk = [h \in Host |-> 0]
  /\ issueMu = NoCaller
  /\ call = [c \in Caller |-> Idle]
  /\ faults = 0 /\ crashes = 0 /\ raced = {} /\ cut = {}

-----------------------------------------------------------------------------
Goto(c, p) == call' = [call EXCEPT ![c].pc = p]

Fault == faults < MaxFaults /\ faults' = faults + 1

(* Mutant: an early return keeps issueMu. *)
MutReturn(c) ==
  /\ call' = [call EXCEPT ![c] = Idle]
  /\ cut' = IF call[c].pc \in {"revoke", "unlink"} THEN cut \cup {call[c].host} ELSE cut
  /\ UNCHANGED issueMu

(* The call returns; the deferred unlock of issueMu runs. *)
Return(c) ==
  /\ call' = [call EXCEPT ![c] = Idle]
  /\ issueMu' = IF issueMu = c THEN NoCaller ELSE issueMu
  /\ cut' = IF call[c].pc \in {"revoke", "unlink"} THEN cut \cup {call[c].host} ELSE cut

On(h) == {c \in Caller : call[c].host = h}
Revoking(c) == call[c].pc \in {"read", "revoke", "drop", "unlink"}

(* attemptApply asks for a certificate, doDestroy revokes it. *)
Start(c, h, p) ==
  /\ call[c].pc = "idle"
  /\ call' = [call EXCEPT ![c] = [Idle EXCEPT !.pc = p, !.host = h]]
  /\ raced' = IF \E d \in On(h) : p = "read" \/ Revoking(d) THEN raced \cup {h} ELSE raced
  /\ UNCHANGED <<ca, cache, disk, issueMu, faults, crashes, cut>>

-----------------------------------------------------------------------------
(* EnsureCertificate *)

Usable(h) == cache[h] # 0 /\ ca[cache[h]].age = "fresh"

Look(c) ==
  /\ call[c].pc = "look"
  /\ IF Usable(call[c].host) THEN Return(c)
     ELSE Goto(c, "wait") /\ UNCHANGED <<issueMu, cut>>
  /\ UNCHANGED <<ca, cache, disk, faults, crashes, raced>>

TakeIssueMu(c) ==
  /\ call[c].pc = "wait"
  /\ issueMu = NoCaller
  /\ issueMu' = c
  /\ Goto(c, "relook")
  /\ UNCHANGED <<ca, cache, disk, faults, crashes, raced, cut>>

(* Mutant: the cache is not looked at again once issueMu is held. *)
MutRelook(c) ==
  /\ call[c].pc = "relook"
  /\ Goto(c, "obtain")
  /\ UNCHANGED <<ca, cache, disk, issueMu, faults, crashes, raced, cut>>

Relook(c) ==
  /\ call[c].pc = "relook"
  /\ IF Usable(call[c].host) THEN Return(c)
     ELSE Goto(c, "obtain") /\ UNCHANGED <<issueMu, cut>>
  /\ UNCHANGED <<ca, cache, disk, faults, crashes, raced>>

(* The CA may have issued although Obtain, or reading its answer, failed. *)
Obtain(c) ==
  /\ call[c].pc = "obtain"
  /\ \/ \E s \in Serial :
          /\ ca[s] = NoCert /\ \A r \in 1..(s - 1) : ca[r] # NoCert
          /\ ca' = [ca EXCEPT ![s] = [host |-> call[c].host, age |-> "fresh", revoked |-> FALSE]]
          /\ \/ call' = [call EXCEPT ![c].pc = "persist", ![c].cert = s]
                /\ UNCHANGED <<issueMu, cut, faults>>
             \/ Fault /\ Return(c)
     \/ /\ \A s \in Serial : ca[s] # NoCert      \* the CA's rate limit
        /\ Return(c) /\ UNCHANGED <<ca, faults>>
     \/ Fault /\ Return(c) /\ UNCHANGED ca
  /\ UNCHANGED <<cache, disk, crashes, raced>>

(* persist: a temporary file, then a rename. *)
Persist(c) ==
  /\ call[c].pc = "persist"
  /\ \/ /\ disk' = [disk EXCEPT ![call[c].host] = call[c].cert]
        /\ Goto(c, "fill")
        /\ UNCHANGED <<issueMu, cut, faults>>
     \/ Fault /\ Return(c) /\ UNCHANGED disk
  /\ UNCHANGED <<ca, cache, crashes, raced>>

Fill(c) ==
  /\ call[c].pc = "fill"
  /\ cache' = [cache EXCEPT ![call[c].host] = call[c].cert]
  /\ Return(c)
  /\ UNCHANGED <<ca, disk, faults, crashes, raced>>

-----------------------------------------------------------------------------
(* RevokeCertificate, which does not take issueMu *)

Read(c) ==
  /\ call[c].pc = "read"
  /\ IF cache[call[c].host] = 0 THEN Return(c)
     ELSE /\ call' = [call EXCEPT ![c].pc = "revoke", ![c].cert = cache[call[c].host]]
          /\ UNCHANGED <<issueMu, cut>>
  /\ UNCHANGED <<ca, cache, disk, faults, crashes, raced>>

(* The CA refuses to revoke a certificate twice. *)
Revoke(c) ==
  /\ call[c].pc = "revoke"
  /\ LET s == call[c].cert IN
     \/ ca[s].revoked /\ Return(c) /\ UNCHANGED <<ca, faults>>
     \/ /\ ~ca[s].revoked
        /\ ca' = [ca EXCEPT ![s].revoked = TRUE]
        /\ \/ Goto(c, "drop") /\ UNCHANGED <<issueMu, cut, faults>>
           \/ Fault /\ Return(c)
     \/ Fault /\ Return(c) /\ UNCHANGED ca
  /\ UNCHANGED <<cache, disk, crashes, raced>>

(* Mutant: the revoked certificate stays in the cache. *)
MutDrop(c) ==
  /\ call[c].pc = "drop"
  /\ Goto(c, "unlink")
  /\ UNCHANGED <<ca, cache, disk, issueMu, faults, crashes, raced, cut>>

Drop(c) ==
  /\ call[c].pc = "drop"
  /\ cache' = [cache EXCEPT ![call[c].host] = 0]
  /\ Goto(c, "unlink")
  /\ UNCHANGED <<ca, disk, issueMu, faults, crashes, raced, cut>>

Unlink(c) ==
  /\ call[c].pc = "unlink"
  /\ \/ /\ disk' = [disk EXCEPT ![call[c].host] = 0]
        /\ call' = [call EXCEPT ![c] = Idle]
        /\ UNCHANGED <<issueMu, cut, faults>>
     \/ Fault /\ Return(c) /\ UNCHANGED disk
  /\ UNCHANGED <<ca, cache, crashes, raced>>

-----------------------------------------------------------------------------
(* The daemon dies and New loads what is on disk. *)
Restart ==
  /\ crashes < MaxCrashes
  /\ crashes' = crashes + 1
  /\ cache' = disk
  /\ issueMu' = NoCaller
  /\ call' = [c \in Caller |-> Idle]
  /\ cut' = cut \cup {call[c].host : c \in {c \in Caller : Revoking(c)}}
  /\ UNCHANGED <<ca, disk, faults, raced>>

Age(s) ==
  /\ ca[s].age = "fresh"
  /\ ca' = [ca EXCEPT ![s].age = "ageing"]
  /\ UNCHANGED <<cache, disk, issueMu, call, faults, crashes, raced, cut>>

EnsureCertificate(c) == Look(c) \/ TakeIssueMu(c) \/ Relook(c) \/ Obtain(c) \/ Persist(c) \/ Fill(c)

RevokeCertificate(c) == Read(c) \/ Revoke(c) \/ Drop(c) \/ Unlink(c)

Step(c) == EnsureCertificate(c) \/ RevokeCertificate(c)

Next ==
  \/ \E c \in Caller : Step(c) \/ \E h \in Host, p \in {"look", "read"} : Start(c, h, p)
  \/ Restart
  \/ \E s \in Serial : Age(s)

Spec == Init /\ [][Next]_vars

-----------------------------------------------------------------------------
Quiet(h) == On(h) = {} /\ h \notin raced \cup cut

(* While nobody works on a host, memory and disk agree on its certificate, so *)
(* a restart changes nothing, and the certificate EnsureCertificate would     *)
(* return was not revoked: however the calls for this and other hosts, their  *)
(* failures and restarts were interleaved.  Void for a host whose revocation  *)
(* was cut short or overlapped with another call.                             *)
CacheIsTruthful ==
  \A h \in Host : Quiet(h) =>
    /\ cache[h] = disk[h]
    /\ cache[h] # 0 => ~ca[cache[h]].revoked

(* "Another concurrent caller may have filled the cache while this caller     *)
(* waited": a valid certificate that is neither stored, where a teardown      *)
(* finds it, nor in the hands of a caller costs a failure or a restart.       *)
Held(h) == {disk[h]} \cup {call[c].cert : c \in On(h)}
Stray(h) == {s \in Serial : ca[s].host = h /\ ca[s].age = "fresh" /\ ~ca[s].revoked} \ Held(h)

NoStrayCertificate ==
  \A h \in Host : h \notin raced => Cardinality(Stray(h)) <= faults + crashes
=============================================================================
