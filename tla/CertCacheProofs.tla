-------------------------- MODULE CertCacheProofs --------------------------
(***************************************************************************)
(* The certificate cache for any goroutines, hosts and bounds.  Only calls  *)
(* for a host touch its cache entry, its file and its certificates, and     *)
(* issueMu lets one of them at a time obtain; a revocation that overlapped  *)
(* with no other call was alone on its host from its first step to its last.*)
(***************************************************************************)
EXTENDS CertCache, FiniteSetTheorems, TLAPS

Obtaining == {"relook", "obtain", "persist", "fill"}
Holding == {"persist", "fill", "revoke", "drop", "unlink"}

(* A goroutine has a host while it runs, and a certificate of that host from *)
(* the step that got one.                                                    *)
CallOK(c) ==
  /\ call[c].pc = "idle" <=> call[c].host = NoHost
  /\ call[c].pc \in Holding <=> call[c].cert # 0
  /\ call[c].cert # 0 => ca[call[c].cert].host = call[c].host

(* What is stored for a host was issued for it. *)
StoreOK(h) ==
  /\ cache[h] # 0 => ca[cache[h]].host = h
  /\ disk[h] # 0 => ca[disk[h]].host = h

(* A host on which no revocation overlapped with another call: the cache     *)
(* lags behind the disk only while a fill is due, or names nothing because   *)
(* the certificate on disk is revoked.                                       *)
HostOK(h) ==
  /\ \A c, d \in On(h) : Revoking(c) => d = c
  /\ (\A c \in On(h) : call[c].pc # "fill") =>
       /\ cache[h] \in {0, disk[h]}
       /\ cache[h] = 0 /\ disk[h] # 0 => ca[disk[h]].revoked
  /\ \A c \in On(h) :
       /\ call[c].pc \in {"obtain", "persist"} => cache[h] = 0 \/ ca[cache[h]].age # "fresh"
       /\ call[c].pc \in {"persist", "fill"} => ~ca[call[c].cert].revoked
       /\ call[c].pc = "fill" => disk[h] = call[c].cert
       /\ call[c].pc \in {"revoke", "drop"} => cache[h] = call[c].cert
       /\ call[c].pc \in {"drop", "unlink"} => ca[call[c].cert].revoked
       /\ call[c].pc = "unlink" => cache[h] = 0
  /\ Cardinality(Stray(h)) <= faults + crashes

(* ... and whose revocations were not cut short. *)
WholeOK(h) ==
  (\A c \in On(h) : call[c].pc \notin {"drop", "unlink"}) /\ disk[h] # 0
    => ~ca[disk[h]].revoked

IInv ==
  /\ TypeOK
  /\ \A c \in Caller : CallOK(c)
  /\ \A h \in Host : StoreOK(h)
  /\ \A h \in Host : h \notin raced => HostOK(h)
  /\ \A h \in Host : h \notin raced \cup cut => WholeOK(h)

(* The step of c makes k of its call, and no other goroutine moves. *)
Moves(c, k) ==
  /\ call' = [d \in Caller |-> call'[d]]
  /\ call'[c] = k
  /\ \A d \in Caller : d # c => call'[d] = call[d]

CallRec == [pc : Pc, host : Host \cup {NoHost}, cert : 0..MaxSerial]

LEMMA Typed ==
  ASSUME TypeOK
  PROVE  /\ \A s \in Serial : /\ ca[s] \in Cert /\ ca[s].host \in Host \cup {NoHost}
                              /\ ca[s].revoked \in BOOLEAN
         /\ \A h \in Host : cache[h] \in 0..MaxSerial /\ disk[h] \in 0..MaxSerial
         /\ \A c \in Caller : call[c] \in CallRec /\ call[c].pc \in Pc
                              /\ call[c].host \in Host \cup {NoHost} /\ call[c].cert \in 0..MaxSerial
         /\ \A n \in 0..MaxSerial : n # 0 => n \in Serial
         /\ faults \in Nat /\ crashes \in Nat /\ 0 \notin Serial
<1>1. \A s \in Serial : ca[s] \in Cert /\ ca[s].host \in Host \cup {NoHost} /\ ca[s].revoked \in BOOLEAN
  BY DEF TypeOK, Cert
<1>2. \A c \in Caller : call[c] \in CallRec /\ call[c].pc \in Pc
        /\ call[c].host \in Host \cup {NoHost} /\ call[c].cert \in 0..MaxSerial
  BY DEF TypeOK, CallRec
<1>3. \A n \in 0..MaxSerial : n # 0 => n \in Serial
  BY CertAssumption DEF Serial
<1>4. faults \in Nat /\ crashes \in Nat /\ 0 \notin Serial
  BY CertAssumption DEF TypeOK, Serial
<1> QED
  BY <1>1, <1>2, <1>3, <1>4 DEF TypeOK

LEMMA StrayFinite == ASSUME NEW h PROVE IsFiniteSet(Stray(h))
<1>1. IsFiniteSet(Serial)
  BY FS_Interval, CertAssumption DEF Serial
<1>2. Stray(h) \in SUBSET Serial
  BY DEF Stray
<1> QED
  BY <1>1, <1>2, FS_Subset

(* Strays may only grow by one, and only when something failed or died. *)
LEMMA StrayKept ==
  ASSUME TypeOK, TypeOK', NEW h, Stray(h)' \subseteq Stray(h),
         Cardinality(Stray(h)) <= faults + crashes, faults <= faults', crashes <= crashes'
  PROVE  Cardinality(Stray(h)') <= faults' + crashes'
<1>1. Cardinality(Stray(h)') <= Cardinality(Stray(h)) /\ Cardinality(Stray(h)) \in Nat
      /\ Cardinality(Stray(h)') \in Nat
  BY StrayFinite, FS_Subset, FS_CardinalityType
<1>2. faults \in Nat /\ crashes \in Nat /\ faults' \in Nat /\ crashes' \in Nat
  BY CertAssumption DEF TypeOK
<1> QED
  BY <1>1, <1>2

LEMMA StrayOne ==
  ASSUME TypeOK, TypeOK', NEW h, NEW s, Stray(h)' \subseteq Stray(h) \cup {s},
         Cardinality(Stray(h)) <= faults + crashes,
         \/ faults' = faults + 1 /\ crashes' = crashes
         \/ faults' = faults /\ crashes' = crashes + 1
  PROVE  Cardinality(Stray(h)') <= faults' + crashes'
<1>1. IsFiniteSet(Stray(h)) /\ IsFiniteSet(Stray(h) \cup {s})
      /\ Cardinality(Stray(h) \cup {s}) \in {Cardinality(Stray(h)), Cardinality(Stray(h)) + 1}
  BY StrayFinite, FS_AddElement
<1>2. Cardinality(Stray(h)') <= Cardinality(Stray(h) \cup {s})
  BY <1>1, FS_Subset
<1>3. Cardinality(Stray(h)) \in Nat /\ Cardinality(Stray(h)') \in Nat
  <2>1. IsFiniteSet(Stray(h)')
    BY <1>1, FS_Subset
  <2> QED
    BY <1>1, <2>1, FS_CardinalityType
<1>4. faults \in Nat /\ crashes \in Nat /\ faults' \in Nat /\ crashes' \in Nat
  BY CertAssumption DEF TypeOK
<1> QED
  BY <1>1, <1>2, <1>3, <1>4

LEMMA InitIInv == Init => IInv
<1> SUFFICES ASSUME Init PROVE IInv
  OBVIOUS
<1>1. NoCert \in Cert /\ Idle \in CallRec /\ 0 \in 0..MaxSerial
  BY CertAssumption DEF NoCert, Cert, Idle, CallRec, Pc
<1>2. TypeOK
  BY <1>1, CertAssumption DEF Init, TypeOK, CallRec, Idle
<1>3. \A c \in Caller : call[c].pc = "idle" /\ call[c].host = NoHost /\ call[c].cert = 0
  BY DEF Init, Idle
<1>4. \A h \in Host : On(h) = {} /\ Stray(h) = {} /\ cache[h] = 0 /\ disk[h] = 0
  BY <1>3, CertAssumption DEF Init, On, Stray, NoCert
<1>5. \A h \in Host : HostOK(h) /\ WholeOK(h) /\ StoreOK(h)
  BY <1>4, FS_EmptySet, CertAssumption DEF Init, HostOK, WholeOK, StoreOK
<1>6. \A c \in Caller : CallOK(c)
  BY <1>3, CertAssumption DEF CallOK, Holding
<1> QED
  BY <1>2, <1>5, <1>6 DEF IInv

(* A host that no call of the step is about. *)
LEMMA OtherHost ==
  ASSUME IInv, TypeOK', NEW h \in Host,
         \A d \in Caller : call[d].host = h \/ call'[d].host = h => call'[d] = call[d],
         cache'[h] = cache[h], disk'[h] = disk[h],
         \A s \in Serial : ca[s].host = h \/ ca'[s].host = h => ca'[s] = ca[s],
         faults <= faults', crashes <= crashes'
  PROVE  (HostOK(h) => HostOK(h)') /\ (WholeOK(h) => WholeOK(h)')
<1>1. On(h)' = On(h) /\ \A c \in On(h) : call'[c] = call[c]
  BY DEF On
<1>2. StoreOK(h) /\ cache[h] \in 0..MaxSerial /\ disk[h] \in 0..MaxSerial
  BY Typed DEF IInv
<1>3. (cache[h] # 0 => ca'[cache[h]] = ca[cache[h]]) /\ (disk[h] # 0 => ca'[disk[h]] = ca[disk[h]])
  BY <1>2, Typed DEF IInv, StoreOK
<1>4. \A c \in On(h) : call[c].pc \in Holding => ca'[call[c].cert] = ca[call[c].cert]
  BY Typed DEF IInv, CallOK, On
<1>5. ASSUME HostOK(h) PROVE HostOK(h)'
  <2>1. Held(h)' = Held(h)
    BY <1>1 DEF Held
  <2>2. Stray(h)' = Stray(h)
    BY <2>1 DEF Stray
  <2>3. Cardinality(Stray(h)') <= faults' + crashes'
    BY <1>5, <2>2, StrayKept DEF HostOK, IInv
  <2>4. \A c \in On(h) : Revoking(c)' <=> Revoking(c)
    BY <1>1 DEF Revoking
  <2>5. (\A c \in On(h)' : call'[c].pc # "fill") =>
          /\ cache'[h] \in {0, disk'[h]}
          /\ cache'[h] = 0 /\ disk'[h] # 0 => ca'[disk'[h]].revoked
    BY <1>1, <1>3, <1>5 DEF HostOK
  <2>6. ASSUME NEW c \in On(h)
        PROVE /\ call'[c].pc \in {"obtain", "persist"} => cache'[h] = 0 \/ ca'[cache'[h]].age # "fresh"
              /\ call'[c].pc \in {"persist", "fill"} => ~ca'[call'[c].cert].revoked
              /\ call'[c].pc = "fill" => disk'[h] = call'[c].cert
              /\ call'[c].pc \in {"revoke", "drop"} => cache'[h] = call'[c].cert
              /\ call'[c].pc \in {"drop", "unlink"} => ca'[call'[c].cert].revoked
              /\ call'[c].pc = "unlink" => cache'[h] = 0
    <3>1. call'[c] = call[c] /\ (call[c].pc \in Holding => ca'[call[c].cert] = ca[call[c].cert])
      BY <1>1, <1>4
    <3> QED
      BY <1>3, <1>5, <3>1 DEF HostOK, Holding
  <2> QED
    BY <1>1, <1>5, <2>3, <2>4, <2>5, <2>6 DEF HostOK
<1>6. ASSUME WholeOK(h) PROVE WholeOK(h)'
  BY <1>1, <1>3, <1>6 DEF WholeOK
<1> QED
  BY <1>5, <1>6

(* A step of one call touches nothing of other hosts. *)
LEMMA OwnStep ==
  ASSUME IInv, TypeOK', NEW c \in Caller, NEW h \in Host, h = call[c].host,
         NEW k \in CallRec, Moves(c, k), k.host \in {h, NoHost},
         raced' = raced, cut \subseteq cut',
         \A g \in Host : g # h => cache'[g] = cache[g] /\ disk'[g] = disk[g],
         \A s \in Serial : ca'[s] = ca[s] \/ (ca[s].host \in {h, NoHost} /\ ca'[s].host = h),
         faults <= faults', crashes <= crashes',
         CallOK(c)', StoreOK(h)',
         h \notin raced => HostOK(h)',
         h \notin raced \cup cut' => WholeOK(h)'
  PROVE  IInv'
<1>1. call'[c] = k /\ \A d \in Caller : d # c => call'[d] = call[d]
  BY DEF Moves
<1>2. h # NoHost
  BY CertAssumption
<1>3. ASSUME NEW d \in Caller, d # c PROVE CallOK(d)'
  <2>1. CallOK(d) /\ call'[d] = call[d] /\ call[d].cert \in 0..MaxSerial
    BY <1>1, <1>3, Typed DEF IInv
  <2>2. call[d].cert # 0 => call[d].cert \in Serial /\ call[d].host # NoHost
    BY <2>1, Typed DEF IInv, CallOK, Holding
  <2>3. call[d].cert # 0 => ca'[call[d].cert].host = ca[call[d].cert].host
    BY <2>1, <2>2 DEF CallOK
  <2> QED
    BY <2>1, <2>3 DEF CallOK
<1>4. ASSUME NEW g \in Host, g # h PROVE StoreOK(g)'
  <2>1. StoreOK(g) /\ cache[g] \in 0..MaxSerial /\ disk[g] \in 0..MaxSerial /\ g # NoHost
    BY Typed, CertAssumption DEF IInv
  <2> QED
    BY <1>4, <2>1, Typed DEF IInv, StoreOK
<1>5. ASSUME NEW g \in Host, g # h
      PROVE  (HostOK(g) => HostOK(g)') /\ (WholeOK(g) => WholeOK(g)')
  <2>1. \A d \in Caller : call[d].host = g \/ call'[d].host = g => call'[d] = call[d]
    BY <1>1, <1>5, CertAssumption
  <2>2. \A s \in Serial : ca[s].host = g \/ ca'[s].host = g => ca'[s] = ca[s]
    BY <1>5, CertAssumption
  <2> QED
    BY <1>5, <2>1, <2>2, OtherHost
<1> QED
  BY <1>3, <1>4, <1>5 DEF IInv

LEMMA Bounds ==
  ASSUME IInv
  PROVE  /\ faults \in Nat /\ crashes \in Nat /\ faults <= faults /\ crashes <= crashes
         /\ Fault => faults' \in 0..MaxFaults /\ faults' = faults + 1 /\ faults <= faults'
<1>1. faults \in Nat /\ crashes \in Nat /\ faults \in 0..MaxFaults /\ MaxFaults \in Nat
  BY Typed, CertAssumption DEF IInv, TypeOK
<1> QED
  BY <1>1 DEF Fault

(* The host of a call that runs. *)
LEMMA Called ==
  ASSUME IInv, NEW c \in Caller, call[c].pc # "idle"
  PROVE  /\ call[c].host \in Host /\ call[c].host # NoHost /\ c \in On(call[c].host)
         /\ call[c] \in CallRec /\ call[c].pc \in Pc /\ call[c].cert \in 0..MaxSerial
         /\ call[c].pc \in Holding => call[c].cert \in Serial /\ call[c].cert # 0
         /\ call[c].pc \notin Holding => call[c].cert = 0
<1>1. CallOK(c) /\ call[c] \in CallRec /\ call[c].host \in Host \cup {NoHost} /\ call[c].pc \in Pc
      /\ call[c].cert \in 0..MaxSerial
  BY Typed DEF IInv
<1> QED
  BY <1>1, Typed DEF CallOK, On, IInv

(* What the step of c has to keep of its host, the other calls aside. *)
LEMMA OwnHost ==
  ASSUME IInv, NEW c \in Caller, NEW h \in Host, h \notin raced, c \in On(h),
         \A d \in On(h)' : d # c => d \in On(h) /\ call'[d] = call[d],
         \A d \in On(h) : d # c => d \in On(h)' /\ call'[d] = call[d],
         \A s \in Serial : ca[s].host = h => ca'[s] = ca[s],
         cache' = cache, disk' = disk,
         c \in On(h)' => (Revoking(c)' => Revoking(c)),
         Cardinality(Stray(h)') <= faults' + crashes',
         call[c].pc = "fill" => c \in On(h)' /\ call'[c].pc = "fill",
         c \in On(h)' =>
           /\ call'[c].pc \in {"obtain", "persist"} => cache[h] = 0 \/ ca'[cache[h]].age # "fresh"
           /\ call'[c].pc \in {"persist", "fill"} => ~ca'[call'[c].cert].revoked
           /\ call'[c].pc = "fill" => disk[h] = call'[c].cert
           /\ call'[c].pc \in {"revoke", "drop"} => cache[h] = call'[c].cert
           /\ call'[c].pc \in {"drop", "unlink"} => ca'[call'[c].cert].revoked
           /\ call'[c].pc = "unlink" => cache[h] = 0
  PROVE  HostOK(h)'
<1>1. HostOK(h) /\ StoreOK(h) /\ cache[h] \in 0..MaxSerial /\ disk[h] \in 0..MaxSerial
  BY Typed DEF IInv
<1>2. (cache[h] # 0 => ca'[cache[h]] = ca[cache[h]]) /\ (disk[h] # 0 => ca'[disk[h]] = ca[disk[h]])
  BY <1>1, Typed DEF IInv, StoreOK
<1>3. \A d \in On(h) : call[d].pc \in Holding => ca'[call[d].cert] = ca[call[d].cert]
  BY Typed DEF IInv, CallOK, On
<1>4. \A d, e \in On(h)' : Revoking(d)' => e = d
  BY <1>1 DEF HostOK, Revoking
<1>5. (\A d \in On(h)' : call'[d].pc # "fill") =>
        /\ cache'[h] \in {0, disk'[h]}
        /\ cache'[h] = 0 /\ disk'[h] # 0 => ca'[disk'[h]].revoked
  <2> SUFFICES ASSUME \A d \in On(h)' : call'[d].pc # "fill"
               PROVE  /\ cache[h] \in {0, disk[h]}
                      /\ cache[h] = 0 /\ disk[h] # 0 => ca'[disk[h]].revoked
    OBVIOUS
  <2>1. CASE \A d \in On(h) : call[d].pc # "fill"
    BY <1>1, <1>2, <2>1 DEF HostOK
  <2>2. CASE \E d \in On(h) : call[d].pc = "fill"
    <3>1. PICK d \in On(h) : call[d].pc = "fill"
      BY <2>2
    <3>2. CASE d = c
      BY <3>1, <3>2
    <3>3. CASE d # c
      BY <3>1, <3>3
    <3> QED
      BY <3>2, <3>3
  <2> QED
    BY <2>1, <2>2
<1>6. ASSUME NEW d \in On(h)', d # c
      PROVE  /\ call'[d].pc \in {"obtain", "persist"} => cache[h] = 0 \/ ca'[cache[h]].age # "fresh"
             /\ call'[d].pc \in {"persist", "fill"} => ~ca'[call'[d].cert].revoked
             /\ call'[d].pc = "fill" => disk[h] = call'[d].cert
             /\ call'[d].pc \in {"revoke", "drop"} => cache[h] = call'[d].cert
             /\ call'[d].pc \in {"drop", "unlink"} => ca'[call'[d].cert].revoked
             /\ call'[d].pc = "unlink" => cache[h] = 0
  <2>1. d \in On(h) /\ call'[d] = call[d]
        /\ (call[d].pc \in Holding => ca'[call[d].cert] = ca[call[d].cert])
    BY <1>3, <1>6
  <2> QED
    BY <1>1, <1>2, <2>1 DEF HostOK, Holding
<1> QED
  BY <1>4, <1>5, <1>6 DEF HostOK

(* The other calls for the host of c stay as they are. *)
LEMMA Others ==
  ASSUME IInv, NEW c \in Caller, NEW k, Moves(c, k), NEW h \in Host
  PROVE  /\ call'[c] = k /\ \A d \in Caller : d # c => call'[d] = call[d]
         /\ \A d \in On(h)' : d # c => d \in On(h) /\ call'[d] = call[d]
         /\ \A d \in On(h) : d # c => d \in On(h)' /\ call'[d] = call[d]
         /\ c \in On(h)' <=> k.host = h
<1>1. call'[c] = k /\ \A d \in Caller : d # c => call'[d] = call[d]
  BY DEF Moves
<1> QED
  BY <1>1 DEF On

(* What a caller lets go of is the only certificate it can leave stray. *)
LEMMA LetGo ==
  ASSUME IInv, NEW c \in Caller, NEW k, Moves(c, k), NEW h \in Host,
         call[c].host = h, disk'[h] = disk[h], ca' = ca
  PROVE  /\ Stray(h)' \subseteq Stray(h) \cup {call[c].cert}
         /\ k.host = h /\ k.cert = call[c].cert => Stray(h)' \subseteq Stray(h)
         /\ call[c].cert \in {0, disk[h]} => Stray(h)' \subseteq Stray(h)
         /\ call[c].cert # 0 /\ ca[call[c].cert].revoked => Stray(h)' \subseteq Stray(h)
<1>1. /\ call'[c] = k
      /\ \A d \in On(h) : d # c => d \in On(h)' /\ call'[d] = call[d]
      /\ c \in On(h)' <=> k.host = h
  BY Others
<1>2. \A x \in Held(h) : x \in Held(h)' \/ x = call[c].cert
  BY <1>1 DEF Held
<1>3. disk[h] \in Held(h)'
  BY DEF Held
<1>4. k.host = h /\ k.cert = call[c].cert => call[c].cert \in Held(h)'
  BY <1>1 DEF Held
<1>5. \A s \in Stray(h)' : s \in Serial /\ s \notin Held(h)' /\ ~ca[s].revoked
                           /\ (s \notin Held(h) => s \in Stray(h))
  BY DEF Stray
<1> QED
  BY <1>2, <1>3, <1>4, <1>5, Typed DEF IInv

(* A step that touches neither cache nor disk. *)
LEMMA Passive ==
  ASSUME IInv, TypeOK', NEW c \in Caller, NEW h \in Host, call[c].host = h,
         NEW k \in CallRec, Moves(c, k), k.host \in {h, NoHost},
         cache' = cache, disk' = disk, raced' = raced, cut \subseteq cut',
         faults <= faults', crashes <= crashes',
         \A s \in Serial : ca'[s] = ca[s] \/ (ca[s].host = NoHost /\ ca'[s].host = h),
         CallOK(c)', call[c].pc # "fill",
         h \notin raced => Cardinality(Stray(h)') <= faults' + crashes',
         call[c].pc \in {"drop", "unlink"} => h \in cut',
         h \notin raced /\ k.host = h =>
           /\ k.pc \in {"read", "revoke", "drop", "unlink"} => Revoking(c)
           /\ k.pc \in {"obtain", "persist"} => cache[h] = 0 \/ ca'[cache[h]].age # "fresh"
           /\ k.pc \in {"persist", "fill"} => ~ca'[k.cert].revoked
           /\ k.pc = "fill" => disk[h] = k.cert
           /\ k.pc \in {"revoke", "drop"} => cache[h] = k.cert
           /\ k.pc \in {"drop", "unlink"} => ca'[k.cert].revoked
           /\ k.pc = "unlink" => cache[h] = 0
  PROVE  IInv'
<1>1. /\ call'[c] = k /\ \A d \in Caller : d # c => call'[d] = call[d]
      /\ \A d \in On(h)' : d # c => d \in On(h) /\ call'[d] = call[d]
      /\ \A d \in On(h) : d # c => d \in On(h)' /\ call'[d] = call[d]
      /\ c \in On(h)' <=> k.host = h
  BY Others
<1>2. h # NoHost /\ c \in On(h)
  BY CertAssumption DEF On
<1>3. \A s \in Serial : ca[s].host = h => ca'[s] = ca[s]
  BY <1>2
<1>4. StoreOK(h)'
  <2>1. StoreOK(h) /\ cache[h] \in 0..MaxSerial /\ disk[h] \in 0..MaxSerial
    BY Typed DEF IInv
  <2> QED
    BY <2>1, <1>3, Typed DEF StoreOK, IInv
<1>5. ASSUME h \notin raced PROVE HostOK(h)'
  <2>1. c \in On(h)' => (Revoking(c)' => Revoking(c))
    BY <1>1, <1>5 DEF Revoking
  <2>2. c \in On(h)' =>
           /\ call'[c].pc \in {"obtain", "persist"} => cache[h] = 0 \/ ca'[cache[h]].age # "fresh"
           /\ call'[c].pc \in {"persist", "fill"} => ~ca'[call'[c].cert].revoked
           /\ call'[c].pc = "fill" => disk[h] = call'[c].cert
           /\ call'[c].pc \in {"revoke", "drop"} => cache[h] = call'[c].cert
           /\ call'[c].pc \in {"drop", "unlink"} => ca'[call'[c].cert].revoked
           /\ call'[c].pc = "unlink" => cache[h] = 0
    BY <1>1, <1>5
  <2> QED
    BY <1>1, <1>2, <1>3, <1>5, <2>1, <2>2, OwnHost
<1>6. ASSUME h \notin raced \cup cut' PROVE WholeOK(h)'
  <2>1. WholeOK(h) /\ StoreOK(h) /\ disk[h] \in 0..MaxSerial
    BY <1>6, Typed DEF IInv
  <2>2. call[c].pc \notin {"drop", "unlink"}
    BY <1>6
  <2>3. disk[h] # 0 => ca'[disk[h]] = ca[disk[h]]
    BY <2>1, <1>3, Typed DEF StoreOK, IInv
  <2> QED
    BY <1>1, <2>1, <2>2, <2>3 DEF WholeOK
<1>7. \A s \in Serial : ca'[s] = ca[s] \/ (ca[s].host \in {h, NoHost} /\ ca'[s].host = h)
  OBVIOUS
<1>8. \A g \in Host : g # h => cache'[g] = cache[g] /\ disk'[g] = disk[g]
  OBVIOUS
<1> QED
  BY <1>4, <1>5, <1>6, <1>7, <1>8, OwnStep

LEMMA ReturnMoves ==
  ASSUME TypeOK, NEW c \in Caller
  PROVE  Return(c) => Moves(c, Idle)
<1>1. call \in [Caller -> [pc : Pc, host : Host \cup {NoHost}, cert : 0..MaxSerial]]
  BY DEF TypeOK
<1> QED
  BY <1>1 DEF Moves, Return

(* The step keeps the types when it takes and releases issueMu as it should. *)
LEMMA TypeStep ==
  ASSUME TypeOK, NEW c \in Caller, NEW k \in CallRec, Moves(c, k),
         ca' \in [Serial -> Cert], cache' \in [Host -> 0..MaxSerial], disk' \in [Host -> 0..MaxSerial],
         \/ issueMu' = issueMu /\ (call[c].pc \in Obtaining <=> k.pc \in Obtaining)
         \/ issueMu = NoCaller /\ issueMu' = c /\ k.pc \in Obtaining
         \/ issueMu' = (IF issueMu = c THEN NoCaller ELSE issueMu) /\ k.pc \notin Obtaining,
         faults' \in 0..MaxFaults, crashes' \in 0..MaxCrashes, raced' \subseteq Host, cut' \subseteq Host
  PROVE  TypeOK'
<1>1. call' \in [Caller -> CallRec]
  <2>1. call \in [Caller -> CallRec]
    BY DEF TypeOK, CallRec
  <2>2. call' = [d \in Caller |-> call'[d]]
    BY DEF Moves
  <2>3. \A d \in Caller : call'[d] \in CallRec
    BY <2>1 DEF Moves
  <2> QED
    BY <2>2, <2>3
<1>2. \A d \in Caller : issueMu' = d <=> call'[d].pc \in Obtaining
  BY CertAssumption DEF TypeOK, Moves, Obtaining
<1>3. issueMu' \in Caller \cup {NoCaller}
  BY DEF TypeOK
<1> QED
  BY <1>1, <1>2, <1>3 DEF TypeOK, CallRec, Obtaining

LEMMA IdleRec == /\ Idle \in CallRec /\ Idle.host = NoHost /\ Idle.pc = "idle" /\ Idle.cert = 0
                 /\ Idle.pc \notin Obtaining /\ Idle.pc \notin Holding
  BY CertAssumption DEF Idle, CallRec, Pc, Obtaining, Holding

(* A call that returns without having changed anything. *)
LEMMA Returned ==
  ASSUME IInv, NEW c \in Caller, call[c].pc \notin {"idle", "fill", "drop"}, Return(c),
         UNCHANGED <<ca, cache, disk, crashes, raced>>,
         \/ faults' = faults /\ call[c].pc \notin {"persist", "unlink"}
         \/ Fault
  PROVE  IInv'
<1>1. PICK h \in Host : call[c].host = h
  BY Called
<1>2. /\ h # NoHost /\ c \in On(h) /\ call[c].pc \in Pc /\ call[c].cert \in 0..MaxSerial
      /\ call[c].pc \in Holding => call[c].cert \in Serial /\ call[c].cert # 0
      /\ call[c].pc \notin Holding => call[c].cert = 0
  BY <1>1, Called
<1>3. Moves(c, Idle) /\ Idle \in CallRec /\ Idle.host = NoHost
  BY ReturnMoves, IdleRec DEF IInv
<1>4. faults \in Nat /\ crashes \in Nat /\ faults <= faults' /\ crashes <= crashes'
      /\ faults' \in 0..MaxFaults
  BY Bounds DEF IInv, TypeOK
<1>5. TypeOK'
  <2>1. cut' \subseteq Host /\ issueMu' = (IF issueMu = c THEN NoCaller ELSE issueMu)
    BY <1>1 DEF Return, IInv, TypeOK
  <2>2. TypeOK
    BY DEF IInv
  <2> QED
    BY <1>3, <1>4, <2>1, <2>2, IdleRec, TypeStep DEF TypeOK
<1>6. CallOK(c)'
  BY <1>3, IdleRec DEF CallOK, Moves
<1>7. cut \subseteq cut' /\ (call[c].pc \in {"drop", "unlink"} => h \in cut')
  BY <1>1 DEF Return
<1>8. ASSUME h \notin raced PROVE Cardinality(Stray(h)') <= faults' + crashes'
  <2>1. HostOK(h) /\ TypeOK
    BY <1>8 DEF IInv
  <2>2. Cardinality(Stray(h)) <= faults + crashes
    BY <2>1 DEF HostOK
  <2>3. /\ Stray(h)' \subseteq Stray(h) \cup {call[c].cert}
        /\ call[c].cert \in {0, disk[h]} => Stray(h)' \subseteq Stray(h)
        /\ call[c].cert # 0 /\ ca[call[c].cert].revoked => Stray(h)' \subseteq Stray(h)
    BY <1>1, <1>3, LetGo
  <2>4. CASE call[c].pc = "persist"
    <3>1. faults' = faults + 1 /\ crashes' = crashes
      BY <2>4, Bounds
    <3> QED
      BY <1>5, <2>1, <2>2, <2>3, <3>1, StrayOne
  <2>5. CASE call[c].pc = "revoke"
    <3>1. call[c].cert = cache[h] /\ cache[h] # 0
      BY <1>2, <2>1, <2>5 DEF HostOK, Holding
    <3>2. \A d \in On(h) : call[d].pc # "fill"
      BY <1>2, <2>1, <2>5 DEF HostOK, Revoking
    <3>3. call[c].cert = disk[h]
      BY <2>1, <3>1, <3>2 DEF HostOK
    <3> QED
      BY <1>4, <1>5, <2>1, <2>2, <2>3, <3>3, StrayKept
  <2>6. CASE call[c].pc = "unlink"
    <3>1. ca[call[c].cert].revoked /\ call[c].cert # 0
      BY <1>2, <2>1, <2>6 DEF HostOK, Holding
    <3> QED
      BY <1>4, <1>5, <2>1, <2>2, <2>3, <3>1, StrayKept
  <2>7. CASE call[c].pc \notin Holding
    BY <1>2, <1>4, <1>5, <2>1, <2>2, <2>3, <2>7, StrayKept
  <2> QED
    BY <2>4, <2>5, <2>6, <2>7 DEF Holding
<1>9. call[c].pc # "fill" /\ (\A s \in Serial : ca'[s] = ca[s]) /\ cache' = cache /\ disk' = disk
      /\ raced' = raced
  OBVIOUS
<1>10. PICK k \in CallRec : k = Idle /\ k.host # h /\ k.host \in {h, NoHost}
  BY <1>2, <1>3
<1>11. Moves(c, k)
  BY <1>3, <1>10
<1>12. \A s \in Serial : ca'[s] = ca[s] \/ (ca[s].host = NoHost /\ ca'[s].host = h)
  BY <1>9
<1> QED
  BY <1>1, <1>4, <1>5, <1>6, <1>7, <1>8, <1>9, <1>10, <1>11, <1>12, Passive

(* The steps of EnsureCertificate before the CA is asked. *)
LEMMA Waits ==
  ASSUME IInv, NEW c \in Caller, NEW p \in {"wait", "relook", "obtain"}, Goto(c, p),
         call[c].pc \in {"look", "wait", "relook"}, p = "obtain" => ~Usable(call[c].host),
         UNCHANGED <<ca, cache, disk, faults, crashes, raced, cut>>,
         \/ issueMu' = issueMu /\ (call[c].pc \in Obtaining <=> p \in Obtaining)
         \/ issueMu = NoCaller /\ issueMu' = c /\ p \in Obtaining
  PROVE  IInv'
<1>1. PICK h \in Host : call[c].host = h
  BY Called
<1>2. h # NoHost /\ c \in On(h) /\ call[c].cert = 0
  BY <1>1, Called DEF Holding
<1>3. PICK k \in CallRec : k = [pc |-> p, host |-> h, cert |-> 0]
  <2>1. [pc |-> p, host |-> h, cert |-> 0] \in CallRec
    BY CertAssumption DEF CallRec, Pc
  <2> QED
    BY <2>1
<1>4. Moves(c, k)
  <2>1. call \in [Caller -> [pc : Pc, host : Host \cup {NoHost}, cert : 0..MaxSerial]]
    BY DEF IInv, TypeOK
  <2>2. call'[c] = [pc |-> p, host |-> call[c].host, cert |-> call[c].cert]
    BY <2>1 DEF Goto
  <2> QED
    BY <1>1, <1>2, <1>3, <2>1, <2>2 DEF Moves, Goto
<1>5. faults \in Nat /\ crashes \in Nat /\ faults <= faults' /\ crashes <= crashes'
  BY Bounds
<1>6. TypeOK'
  BY <1>3, <1>4, TypeStep DEF IInv, TypeOK
<1>7. CallOK(c)'
  BY <1>2, <1>3, <1>4 DEF CallOK, Moves, Holding
<1>8. ASSUME h \notin raced PROVE Cardinality(Stray(h)') <= faults' + crashes'
  <2>1. HostOK(h) /\ TypeOK
    BY <1>8 DEF IInv
  <2>2. Stray(h)' \subseteq Stray(h)
    BY <1>1, <1>2, <1>4, LetGo
  <2> QED
    BY <1>5, <1>6, <2>1, <2>2, StrayKept DEF HostOK
<1>9. (\A s \in Serial : ca'[s] = ca[s]) /\ cache' = cache /\ disk' = disk /\ raced' = raced
      /\ cut' = cut
  OBVIOUS
<1>10. k.pc \in {"obtain", "persist"} => cache[h] = 0 \/ ca'[cache[h]].age # "fresh"
  BY <1>1, <1>3 DEF Usable
<1> QED
  BY <1>1, <1>3, <1>4, <1>5, <1>6, <1>7, <1>8, <1>9, <1>10, Passive

LEMMA LookStep == ASSUME IInv, NEW c \in Caller, Look(c) PROVE IInv'
<1>1. CASE Return(c)
  BY <1>1, Returned DEF Look
<1>2. CASE Goto(c, "wait") /\ UNCHANGED <<issueMu, cut>>
  BY <1>2, Waits DEF Look, Obtaining
<1> QED
  BY <1>1, <1>2 DEF Look

LEMMA TakeIssueMuStep == ASSUME IInv, NEW c \in Caller, TakeIssueMu(c) PROVE IInv'
  BY Waits DEF TakeIssueMu, Obtaining

LEMMA RelookStep == ASSUME IInv, NEW c \in Caller, Relook(c) PROVE IInv'
<1>1. CASE Usable(call[c].host)
  BY <1>1, Returned DEF Relook
<1>2. CASE ~Usable(call[c].host)
  BY <1>2, Waits DEF Relook, Obtaining
<1> QED
  BY <1>1, <1>2

(* The CA issued certificate s for the host of c. *)
LEMMA Issued ==
  ASSUME IInv, NEW c \in Caller, call[c].pc = "obtain", NEW h \in Host, call[c].host = h,
         NEW s \in Serial, ca[s] = NoCert,
         ca' = [ca EXCEPT ![s] = [host |-> h, age |-> "fresh", revoked |-> FALSE]],
         NEW k \in CallRec, Moves(c, k), UNCHANGED <<cache, disk, crashes, raced>>,
         \/ /\ k = [pc |-> "persist", host |-> h, cert |-> s]
            /\ UNCHANGED <<issueMu, cut, faults>>
         \/ k = Idle /\ Fault /\ Return(c)
  PROVE  IInv'
<1>1. /\ h # NoHost /\ c \in On(h) /\ call[c].cert = 0 /\ TypeOK
      /\ ca[s].host = NoHost /\ StoreOK(h) /\ cache[h] \in 0..MaxSerial
  BY Called, Typed, CertAssumption DEF IInv, NoCert, Holding
<1>2. ca' \in [Serial -> Cert] /\ ca'[s].host = h /\ ~ca'[s].revoked
      /\ \A r \in Serial : r # s => ca'[r] = ca[r]
  <2>1. ca \in [Serial -> Cert] /\ [host |-> h, age |-> "fresh", revoked |-> FALSE] \in Cert
    BY DEF IInv, TypeOK, Cert
  <2> QED
    BY <2>1
<1>3. faults \in Nat /\ crashes \in Nat /\ faults <= faults' /\ crashes <= crashes'
      /\ faults' \in 0..MaxFaults
  BY Bounds, <1>1 DEF TypeOK
<1>4. TypeOK'
  <2>1. CASE k = [pc |-> "persist", host |-> h, cert |-> s] /\ UNCHANGED <<issueMu, cut, faults>>
    BY <1>1, <1>2, <1>3, <2>1, TypeStep DEF TypeOK, Obtaining
  <2>2. CASE k = Idle /\ Fault /\ Return(c)
    <3>1. cut' \subseteq Host /\ issueMu' = (IF issueMu = c THEN NoCaller ELSE issueMu)
      BY <1>1, <2>2 DEF Return, TypeOK
    <3> QED
      BY <1>1, <1>2, <1>3, <2>2, <3>1, IdleRec, TypeStep DEF TypeOK
  <2> QED
    BY <2>1, <2>2
<1>5. CallOK(c)'
  <2>1. CASE k = [pc |-> "persist", host |-> h, cert |-> s]
    BY <1>1, <1>2, <2>1, Typed DEF CallOK, Moves, Holding
  <2>2. CASE k = Idle
    BY <2>2, IdleRec DEF CallOK, Moves
  <2> QED
    BY <2>1, <2>2
<1>6. ASSUME h \notin raced PROVE Cardinality(Stray(h)') <= faults' + crashes'
  <2>1. Cardinality(Stray(h)) <= faults + crashes
    BY <1>6 DEF IInv, HostOK
  <2>2. call'[c] = k /\ (\A d \in On(h) : d # c => d \in On(h)' /\ call'[d] = call[d])
        /\ (c \in On(h)' <=> k.host = h)
    BY Others
  <2>3. \A x \in Held(h) : x \in Held(h)' \/ x = 0
    BY <1>1, <2>2 DEF Held
  <2>4. \A x \in Stray(h)' : x \in Stray(h) \cup {s}
    BY <1>1, <1>2, <2>3, Typed DEF Stray
  <2>5. CASE k = [pc |-> "persist", host |-> h, cert |-> s] /\ UNCHANGED <<issueMu, cut, faults>>
    <3>1. s \in Held(h)'
      BY <2>2, <2>5 DEF Held
    <3>2. Stray(h)' \subseteq Stray(h)
      BY <2>4, <3>1 DEF Stray
    <3> QED
      BY <1>1, <1>3, <1>4, <2>1, <3>2, StrayKept
  <2>6. CASE Fault
    <3>1. faults' = faults + 1 /\ crashes' = crashes /\ Stray(h)' \subseteq Stray(h) \cup {s}
      BY <2>4, <2>6, Bounds
    <3> QED
      BY <1>1, <1>4, <2>1, <3>1, StrayOne
  <2> QED
    BY <2>5, <2>6
<1>7. cut \subseteq cut'
  BY DEF Return
<1>8. ASSUME h \notin raced, k.host = h
      PROVE  /\ k.pc = "persist" /\ k.cert = s
             /\ cache[h] = 0 \/ ca'[cache[h]].age # "fresh"
  <2>1. k = [pc |-> "persist", host |-> h, cert |-> s]
    BY <1>1, <1>8, IdleRec
  <2>2. cache[h] = 0 \/ ca[cache[h]].age # "fresh"
    BY <1>1, <1>8 DEF IInv, HostOK
  <2>3. cache[h] # 0 => cache[h] \in Serial /\ cache[h] # s
    BY <1>1, Typed DEF StoreOK
  <2> QED
    BY <1>2, <2>1, <2>2, <2>3
<1>9. k.host \in {h, NoHost} /\ cache' = cache /\ disk' = disk /\ raced' = raced
  BY IdleRec
<1>10. \A r \in Serial : ca'[r] = ca[r] \/ (ca[r].host = NoHost /\ ca'[r].host = h)
  BY <1>1, <1>2
<1> QED
  BY <1>2, <1>3, <1>4, <1>5, <1>6, <1>7, <1>8, <1>9, <1>10, Passive

LEMMA ObtainStep == ASSUME IInv, NEW c \in Caller, Obtain(c) PROVE IInv'
<1>1. PICK h \in Host : call[c].host = h
  BY Called DEF Obtain
<1>2. call[c].pc = "obtain" /\ UNCHANGED <<cache, disk, crashes, raced>>
  BY DEF Obtain
<1>3. ASSUME NEW s \in Serial, ca[s] = NoCert,
             ca' = [ca EXCEPT ![s] = [host |-> call[c].host, age |-> "fresh", revoked |-> FALSE]],
             call' = [call EXCEPT ![c].pc = "persist", ![c].cert = s], UNCHANGED <<issueMu, cut, faults>>
      PROVE  IInv'
  <2>1. call \in [Caller -> [pc : Pc, host : Host \cup {NoHost}, cert : 0..MaxSerial]]
    BY DEF IInv, TypeOK
  <2>2. call'[c] = [pc |-> "persist", host |-> h, cert |-> s]
    BY <1>1, <1>3, <2>1
  <2>3. [pc |-> "persist", host |-> h, cert |-> s] \in CallRec
    BY DEF CallRec, Pc, Serial
  <2>4. PICK k \in CallRec : k = [pc |-> "persist", host |-> h, cert |-> s]
    BY <2>3
  <2>5. Moves(c, k)
    BY <1>3, <2>1, <2>2, <2>4 DEF Moves
  <2> QED
    BY <1>1, <1>2, <1>3, <2>4, <2>5, Issued
<1>4. ASSUME NEW s \in Serial, ca[s] = NoCert,
             ca' = [ca EXCEPT ![s] = [host |-> call[c].host, age |-> "fresh", revoked |-> FALSE]],
             Fault, Return(c)
      PROVE  IInv'
  <2>1. Moves(c, Idle) /\ Idle \in CallRec
    BY <1>4, ReturnMoves, IdleRec DEF IInv
  <2> QED
    BY <1>1, <1>2, <1>4, <2>1, Issued
<1>5. CASE Return(c) /\ UNCHANGED <<ca, faults>>
  BY <1>2, <1>5, Returned
<1>6. CASE Fault /\ Return(c) /\ UNCHANGED ca
  BY <1>2, <1>6, Returned
<1> QED
  BY <1>3, <1>4, <1>5, <1>6 DEF Obtain

(* Whoever holds issueMu for a host is the only one to obtain there, and no  *)
(* revocation runs beside it.                                                *)
LEMMA Sole ==
  ASSUME IInv, NEW c \in Caller, NEW h \in Host, h \notin raced, call[c].host = h,
         call[c].pc \in Obtaining
  PROVE  \A d \in On(h) : d # c => call[d].pc \in {"idle", "look", "wait"}
<1>1. ASSUME NEW d \in On(h), d # c PROVE call[d].pc \in {"idle", "look", "wait"}
  <2>1. call[d].pc \in Pc /\ c \in On(h) /\ d \in Caller
    BY Typed DEF IInv, On
  <2>2. call[d].pc \notin Obtaining
    BY <1>1, <2>1 DEF IInv, TypeOK, Obtaining
  <2>3. ~Revoking(d)
    BY <1>1, <2>1 DEF IInv, HostOK
  <2> QED
    BY <2>1, <2>2, <2>3 DEF Pc, Obtaining, Revoking
<1> QED
  BY <1>1

(* A revocation that met no other call is alone on its host. *)
LEMMA Alone ==
  ASSUME IInv, NEW c \in Caller, NEW h \in Host, h \notin raced, call[c].host = h, Revoking(c)
  PROVE  /\ On(h) = {c} /\ cache[h] \in {0, disk[h]}
         /\ cache[h] = 0 /\ disk[h] # 0 => ca[disk[h]].revoked
<1>1. HostOK(h) /\ c \in On(h)
  BY DEF IInv, On
<1>2. On(h) = {c}
  BY <1>1 DEF HostOK
<1> QED
  BY <1>1, <1>2 DEF HostOK, Revoking

LEMMA GoesTo ==
  ASSUME IInv, NEW c \in Caller, NEW p \in Pc, Goto(c, p), NEW h, call[c].host = h, NEW s, call[c].cert = s
  PROVE  \E k \in CallRec : Moves(c, k) /\ k.pc = p /\ k.host = h /\ k.cert = s
<1>1. call \in [Caller -> CallRec] /\ call[c].host \in Host \cup {NoHost} /\ call[c].cert \in 0..MaxSerial
  BY Typed DEF IInv, TypeOK, CallRec
<1>2. [pc |-> p, host |-> h, cert |-> s] \in CallRec
  BY <1>1 DEF CallRec
<1>3. call'[c] = [pc |-> p, host |-> h, cert |-> s]
  BY <1>1 DEF CallRec, Goto
<1>4. call' = [d \in Caller |-> call'[d]] /\ \A d \in Caller : d # c => call'[d] = call[d]
  BY <1>1 DEF Goto
<1> QED
  BY <1>2, <1>3, <1>4 DEF Moves

LEMMA PersistStep == ASSUME IInv, NEW c \in Caller, Persist(c) PROVE IInv'
<1>1. PICK h \in Host : call[c].host = h
  BY Called DEF Persist
<1>2. PICK s \in Serial : call[c].cert = s /\ s # 0
  BY Called DEF Persist, Holding
<1>3. CASE Fault /\ Return(c) /\ UNCHANGED disk
  BY <1>3, Returned DEF Persist
<1>4. CASE disk' = [disk EXCEPT ![h] = s] /\ Goto(c, "fill") /\ UNCHANGED <<issueMu, cut, faults>>
  <2>1. call[c].pc = "persist" /\ c \in On(h) /\ ca[s].host = h /\ TypeOK /\ StoreOK(h)
    BY <1>1, <1>2 DEF IInv, CallOK, On, Persist
  <2>2. PICK k \in CallRec : Moves(c, k) /\ k.pc = "fill" /\ k.host = h /\ k.cert = s
    BY <1>1, <1>2, <1>4, GoesTo DEF Pc
  <2>3. disk' \in [Host -> 0..MaxSerial] /\ disk'[h] = s /\ \A g \in Host : g # h => disk'[g] = disk[g]
    BY <1>2, <1>4, <2>1 DEF TypeOK, Serial
  <2>4. ca' = ca /\ cache' = cache /\ crashes' = crashes /\ raced' = raced /\ faults' = faults /\ cut' = cut
        /\ faults <= faults' /\ crashes <= crashes'
    BY <1>4, Bounds DEF Persist
  <2>5. TypeOK'
    BY <1>4, <2>1, <2>2, <2>3, <2>4, TypeStep DEF TypeOK, Obtaining
  <2>6. CallOK(c)' /\ StoreOK(h)'
    BY <1>1, <1>2, <2>1, <2>2, <2>3, <2>4, CertAssumption DEF CallOK, StoreOK, Moves, Holding
  <2>7. ASSUME h \notin raced PROVE HostOK(h)' /\ WholeOK(h)'
    <3>1. HostOK(h) /\ ~ca[s].revoked /\ (cache[h] = 0 \/ ca[cache[h]].age # "fresh")
      BY <1>2, <2>1, <2>7 DEF IInv, HostOK
    <3>2. \A d \in On(h) : d # c => call[d].pc \in {"idle", "look", "wait"}
      BY <1>1, <2>1, <2>7, Sole DEF Obtaining
    <3>3. /\ call'[c] = k /\ c \in On(h)'
          /\ \A d \in On(h)' : d # c => d \in On(h) /\ call'[d] = call[d]
          /\ \A d \in On(h) : d # c => d \in On(h)' /\ call'[d] = call[d]
      BY <2>2, Others
    <3>4. disk[h] # 0 => ca[disk[h]].age # "fresh" \/ ca[disk[h]].revoked
      BY <2>1, <3>1, <3>2 DEF HostOK
    <3>5. Stray(h)' \subseteq Stray(h)
      <4>1. s \in Held(h)' /\ \A x \in Held(h) : x \in Held(h)' \/ x = disk[h]
        BY <1>2, <2>2, <2>3, <3>3 DEF Held
      <4> QED
        BY <2>1, <2>4, <3>4, <4>1, Typed DEF Stray
    <3>6. Cardinality(Stray(h)') <= faults' + crashes'
      BY <2>1, <2>4, <2>5, <3>1, <3>5, StrayKept DEF HostOK
    <3>7. \A d, e \in On(h)' : Revoking(d)' => e = d
      BY <2>2, <3>2, <3>3 DEF Revoking
    <3>8. ASSUME NEW d \in On(h)'
          PROVE  /\ call'[d].pc \notin {"obtain", "persist", "revoke", "drop", "unlink"}
                 /\ call'[d].pc = "fill" => call'[d].cert = s
      BY <2>2, <3>2, <3>3
    <3> QED
      BY <2>2, <2>3, <2>4, <3>1, <3>3, <3>6, <3>7, <3>8 DEF HostOK, WholeOK
  <2>8. /\ \A g \in Host : g # h => cache'[g] = cache[g] /\ disk'[g] = disk[g]
        /\ \A r \in Serial : ca'[r] = ca[r]
    BY <2>3, <2>4
  <2> QED
    BY <1>1, <2>2, <2>4, <2>5, <2>6, <2>7, <2>8, OwnStep
<1> QED
  BY <1>1, <1>2, <1>3, <1>4 DEF Persist

LEMMA FillStep == ASSUME IInv, NEW c \in Caller, Fill(c) PROVE IInv'
<1>1. PICK h \in Host : call[c].host = h
  BY Called DEF Fill
<1>2. PICK s \in Serial : call[c].cert = s /\ s # 0
  BY Called DEF Fill, Holding
<1>3. call[c].pc = "fill" /\ c \in On(h) /\ ca[s].host = h /\ TypeOK /\ StoreOK(h) /\ Return(c)
  BY <1>1, <1>2 DEF IInv, CallOK, On, Fill
<1>4. Moves(c, Idle) /\ Idle \in CallRec
  BY <1>3, ReturnMoves, IdleRec
<1>5. cache' \in [Host -> 0..MaxSerial] /\ cache'[h] = s /\ \A g \in Host : g # h => cache'[g] = cache[g]
  BY <1>1, <1>2, <1>3 DEF TypeOK, Serial, Fill
<1>6. ca' = ca /\ disk' = disk /\ crashes' = crashes /\ raced' = raced /\ faults' = faults /\ cut' = cut
      /\ faults <= faults' /\ crashes <= crashes'
  BY <1>3, Bounds DEF Fill, Return
<1>7. TypeOK'
  <2>1. issueMu' = (IF issueMu = c THEN NoCaller ELSE issueMu)
    BY <1>3 DEF Return
  <2> QED
    BY <1>3, <1>4, <1>5, <1>6, <2>1, IdleRec, TypeStep DEF TypeOK
<1>8. CallOK(c)' /\ StoreOK(h)'
  BY <1>3, <1>4, <1>5, <1>6, IdleRec DEF CallOK, StoreOK, Moves
<1>9. ASSUME h \notin raced PROVE HostOK(h)' /\ WholeOK(h)'
  <2>1. HostOK(h) /\ ~ca[s].revoked /\ disk[h] = s
    BY <1>2, <1>3, <1>9 DEF IInv, HostOK
  <2>2. \A d \in On(h) : d # c => call[d].pc \in {"idle", "look", "wait"}
    BY <1>1, <1>3, <1>9, Sole DEF Obtaining
  <2>3. \A d \in On(h)' : d \in On(h) /\ call'[d] = call[d] /\ call'[d].pc \in {"idle", "look", "wait"}
    BY <1>4, <2>2, Others, IdleRec, CertAssumption
  <2>4. Stray(h)' \subseteq Stray(h)
    BY <1>1, <1>2, <1>4, <1>6, <2>1, LetGo
  <2>5. Cardinality(Stray(h)') <= faults' + crashes'
    BY <1>3, <1>6, <1>7, <2>1, <2>4, StrayKept DEF HostOK
  <2>6. \A d \in On(h)' : ~Revoking(d)'
    BY <2>3 DEF Revoking
  <2> QED
    BY <1>2, <1>5, <1>6, <2>1, <2>3, <2>5, <2>6 DEF HostOK, WholeOK
<1>10. /\ \A g \in Host : g # h => cache'[g] = cache[g] /\ disk'[g] = disk[g]
       /\ \A r \in Serial : ca'[r] = ca[r]
  BY <1>5, <1>6
<1>11. PICK k \in CallRec : Moves(c, k) /\ k.host \in {h, NoHost}
  BY <1>4, IdleRec
<1> QED
  BY <1>1, <1>6, <1>7, <1>8, <1>9, <1>10, <1>11, OwnStep

LEMMA ReadStep == ASSUME IInv, NEW c \in Caller, Read(c) PROVE IInv'
<1>1. PICK h \in Host : call[c].host = h
  BY Called DEF Read
<1>2. /\ call[c].pc = "read" /\ h # NoHost /\ c \in On(h) /\ call[c].cert = 0 /\ TypeOK
      /\ StoreOK(h) /\ UNCHANGED <<ca, cache, disk, faults, crashes, raced>>
  BY <1>1, Called DEF IInv, Holding, Read
<1>3. CASE Return(c)
  BY <1>2, <1>3, Returned
<1>4. CASE /\ cache[h] # 0 /\ call' = [call EXCEPT ![c].pc = "revoke", ![c].cert = cache[h]]
           /\ UNCHANGED <<issueMu, cut>>
  <2>1. PICK s \in Serial : s = cache[h] /\ s # 0 /\ ca[s].host = h
    BY <1>2, <1>4, Typed DEF StoreOK
  <2>2. call \in [Caller -> CallRec] /\ [pc |-> "revoke", host |-> h, cert |-> s] \in CallRec
    BY <1>2 DEF TypeOK, CallRec, Pc, Serial
  <2>3. call'[c] = [pc |-> "revoke", host |-> h, cert |-> s]
    BY <1>1, <1>4, <2>1, <2>2 DEF CallRec
  <2>4. PICK k \in CallRec : k = [pc |-> "revoke", host |-> h, cert |-> s]
    BY <2>2
  <2>5. Moves(c, k)
    BY <1>4, <2>2, <2>3, <2>4 DEF Moves
  <2>6. faults <= faults' /\ crashes <= crashes' /\ (\A r \in Serial : ca'[r] = ca[r])
        /\ cache' = cache /\ disk' = disk /\ raced' = raced /\ cut' = cut
    BY <1>2, <1>4, Bounds
  <2>7. TypeOK'
    BY <1>2, <1>4, <2>4, <2>5, TypeStep DEF TypeOK, Obtaining
  <2>8. CallOK(c)'
    BY <1>2, <2>1, <2>4, <2>5 DEF CallOK, Moves, Holding
  <2>9. ASSUME h \notin raced PROVE Cardinality(Stray(h)') <= faults' + crashes'
    <3>1. HostOK(h)
      BY <2>9 DEF IInv
    <3>2. Stray(h)' \subseteq Stray(h)
      BY <1>1, <1>2, <2>5, LetGo
    <3> QED
      BY <1>2, <2>6, <2>7, <3>1, <3>2, StrayKept DEF HostOK
  <2>10. k.pc = "revoke" /\ k.cert = cache[h] /\ k.host = h /\ Revoking(c)
    BY <1>2, <2>1, <2>4 DEF Revoking
  <2> QED
    BY <1>1, <1>2, <2>5, <2>6, <2>7, <2>8, <2>9, <2>10, Passive
<1> QED
  BY <1>1, <1>3, <1>4 DEF Read

(* The CA revoked the certificate that c read. *)
LEMMA Revoked ==
  ASSUME IInv, NEW c \in Caller, call[c].pc = "revoke", NEW h \in Host, call[c].host = h,
         NEW s \in Serial, call[c].cert = s, ca' = [ca EXCEPT ![s].revoked = TRUE],
         NEW k \in CallRec, Moves(c, k), UNCHANGED <<cache, disk, crashes, raced>>,
         \/ /\ k.pc = "drop" /\ k.host = h /\ k.cert = s
            /\ UNCHANGED <<issueMu, cut, faults>>
         \/ k = Idle /\ Fault /\ Return(c)
  PROVE  IInv'
<1>1. ca[s].host = h /\ TypeOK /\ StoreOK(h) /\ c \in On(h) /\ Revoking(c) /\ s # 0
      /\ cache[h] \in 0..MaxSerial /\ disk[h] \in 0..MaxSerial
  BY Typed DEF IInv, CallOK, On, Revoking
<1>2. /\ ca' \in [Serial -> Cert] /\ ca'[s].host = h /\ ca'[s].revoked
      /\ \A r \in Serial : ca'[r].host = ca[r].host /\ (r # s => ca'[r] = ca[r])
  <2>1. ca \in [Serial -> Cert] /\ ca[s] \in Cert
    BY Typed, <1>1 DEF TypeOK
  <2>2. [ca[s] EXCEPT !.revoked = TRUE] \in Cert
    BY <2>1 DEF Cert
  <2> QED
    BY <1>1, <2>1, <2>2 DEF Cert
<1>3. faults <= faults' /\ crashes <= crashes' /\ faults' \in 0..MaxFaults /\ cut \subseteq cut'
      /\ k.host \in {h, NoHost} /\ (k = Idle => h \in cut')
  BY Bounds, <1>1, IdleRec DEF TypeOK, Return, Pc
<1>4. TypeOK'
  <2>1. CASE k.pc = "drop" /\ UNCHANGED <<issueMu, cut, faults>>
    BY <1>1, <1>2, <1>3, <2>1, TypeStep DEF TypeOK, Obtaining
  <2>2. CASE k = Idle /\ Fault /\ Return(c)
    <3>1. cut' \subseteq Host /\ issueMu' = (IF issueMu = c THEN NoCaller ELSE issueMu)
      BY <1>1, <2>2 DEF Return, TypeOK
    <3> QED
      BY <1>1, <1>2, <1>3, <2>2, <3>1, IdleRec, TypeStep DEF TypeOK
  <2> QED
    BY <2>1, <2>2
<1>5. CallOK(c)'
  <2>1. CASE k = Idle
    BY <2>1, IdleRec DEF CallOK, Moves
  <2>2. CASE k.pc = "drop" /\ k.host = h /\ k.cert = s
    BY <1>1, <1>2, <2>2, CertAssumption DEF CallOK, Moves, Holding
  <2> QED
    BY <2>1, <2>2
<1>6. StoreOK(h)'
  BY <1>1, <1>2, Typed DEF StoreOK
<1>7. ASSUME h \notin raced PROVE HostOK(h)' /\ (h \notin cut' => WholeOK(h)')
  <2>1. HostOK(h) /\ On(h) = {c} /\ cache[h] = s /\ disk[h] = s
    BY <1>1, <1>7, Alone DEF IInv, HostOK
  <2>2. call'[c] = k /\ (c \in On(h)' <=> k.host = h) /\ \A d \in On(h)' : d = c
    BY <2>1, Others
  <2>3. Stray(h)' \subseteq Stray(h)
    <3>1. \A x \in Held(h) : x = s
      BY <2>1 DEF Held
    <3> QED
      BY <1>2, <3>1 DEF Stray
  <2>4. Cardinality(Stray(h)') <= faults' + crashes'
    BY <1>1, <1>3, <1>4, <2>1, <2>3, StrayKept DEF HostOK
  <2>5. ASSUME NEW d \in On(h)' PROVE call'[d].pc = "drop" /\ call'[d].cert = s
    BY <2>2, <2>5, IdleRec, CertAssumption
  <2>6. h \notin cut' => c \in On(h)'
    BY <1>3, <2>2
  <2> QED
    BY <1>1, <1>2, <2>1, <2>2, <2>4, <2>5, <2>6 DEF HostOK, WholeOK
<1>8. /\ \A g \in Host : g # h => cache'[g] = cache[g] /\ disk'[g] = disk[g]
      /\ \A r \in Serial : ca'[r] = ca[r] \/ (ca[r].host \in {h, NoHost} /\ ca'[r].host = h)
  BY <1>1, <1>2
<1> QED
  BY <1>3, <1>4, <1>5, <1>6, <1>7, <1>8, OwnStep

LEMMA RevokeStep == ASSUME IInv, NEW c \in Caller, Revoke(c) PROVE IInv'
<1>1. PICK h \in Host : call[c].host = h
  BY Called DEF Revoke
<1>2. PICK s \in Serial : call[c].cert = s /\ s # 0
  BY Called DEF Revoke, Holding
<1>3. call[c].pc = "revoke" /\ UNCHANGED <<cache, disk, crashes, raced>>
  BY DEF Revoke
<1>4. CASE Return(c) /\ UNCHANGED <<ca, faults>>
  BY <1>3, <1>4, Returned
<1>5. CASE Fault /\ Return(c) /\ UNCHANGED ca
  BY <1>3, <1>5, Returned
<1>6. CASE /\ ca' = [ca EXCEPT ![s].revoked = TRUE]
           /\ Goto(c, "drop") /\ UNCHANGED <<issueMu, cut, faults>>
  <2>1. PICK k \in CallRec : Moves(c, k) /\ k.pc = "drop" /\ k.host = h /\ k.cert = s
    BY <1>1, <1>2, <1>6, GoesTo DEF Pc
  <2> QED
    BY <1>1, <1>2, <1>3, <1>6, <2>1, Revoked
<1>7. CASE ca' = [ca EXCEPT ![s].revoked = TRUE] /\ Fault /\ Return(c)
  <2>1. Moves(c, Idle) /\ Idle \in CallRec
    BY <1>7, ReturnMoves, IdleRec DEF IInv
  <2> QED
    BY <1>1, <1>2, <1>3, <1>7, <2>1, Revoked
<1> QED
  BY <1>2, <1>4, <1>5, <1>6, <1>7 DEF Revoke

LEMMA DropStep == ASSUME IInv, NEW c \in Caller, Drop(c) PROVE IInv'
<1>1. PICK h \in Host : call[c].host = h
  BY Called DEF Drop
<1>2. PICK s \in Serial : call[c].cert = s /\ s # 0
  BY Called DEF Drop, Holding
<1>3. /\ call[c].pc = "drop" /\ c \in On(h) /\ ca[s].host = h /\ TypeOK /\ StoreOK(h) /\ Revoking(c)
  BY <1>1, <1>2 DEF IInv, CallOK, On, Drop, Revoking
<1>4. PICK k \in CallRec : Moves(c, k) /\ k.pc = "unlink" /\ k.host = h /\ k.cert = s
  BY <1>1, <1>2, GoesTo DEF Pc, Drop
<1>5. cache' \in [Host -> 0..MaxSerial] /\ cache'[h] = 0 /\ \A g \in Host : g # h => cache'[g] = cache[g]
  BY <1>1, <1>3, CertAssumption DEF TypeOK, Drop
<1>6. ca' = ca /\ disk' = disk /\ crashes' = crashes /\ raced' = raced /\ faults' = faults /\ cut' = cut
      /\ issueMu' = issueMu /\ faults <= faults' /\ crashes <= crashes'
  BY Bounds DEF Drop
<1>7. TypeOK'
  BY <1>3, <1>4, <1>5, <1>6, TypeStep DEF TypeOK, Obtaining
<1>8. CallOK(c)' /\ StoreOK(h)'
  BY <1>2, <1>3, <1>4, <1>5, <1>6, CertAssumption DEF CallOK, StoreOK, Moves, Holding
<1>9. ASSUME h \notin raced PROVE HostOK(h)' /\ WholeOK(h)'
  <2>1. HostOK(h) /\ On(h) = {c} /\ disk[h] = s /\ ca[s].revoked
    BY <1>1, <1>2, <1>3, <1>9, Alone DEF IInv, HostOK
  <2>2. call'[c] = k /\ c \in On(h)' /\ \A d \in On(h)' : d = c
    BY <1>4, <2>1, Others
  <2>3. Stray(h)' \subseteq Stray(h)
    BY <1>1, <1>2, <1>4, <1>6, LetGo
  <2>4. Cardinality(Stray(h)') <= faults' + crashes'
    BY <1>3, <1>6, <1>7, <2>1, <2>3, StrayKept DEF HostOK
  <2> QED
    BY <1>4, <1>5, <1>6, <2>1, <2>2, <2>4 DEF HostOK, WholeOK
<1>10. /\ \A g \in Host : g # h => cache'[g] = cache[g] /\ disk'[g] = disk[g]
       /\ \A r \in Serial : ca'[r] = ca[r]
  BY <1>5, <1>6
<1> QED
  BY <1>1, <1>4, <1>6, <1>7, <1>8, <1>9, <1>10, OwnStep

LEMMA UnlinkStep == ASSUME IInv, NEW c \in Caller, Unlink(c) PROVE IInv'
<1>1. PICK h \in Host : call[c].host = h
  BY Called DEF Unlink
<1>2. PICK s \in Serial : call[c].cert = s /\ s # 0
  BY Called DEF Unlink, Holding
<1>3. /\ call[c].pc = "unlink" /\ c \in On(h) /\ TypeOK /\ StoreOK(h) /\ Revoking(c)
      /\ UNCHANGED <<ca, cache, crashes, raced>>
  BY <1>1, <1>2 DEF IInv, On, Unlink, Revoking
<1>4. CASE Fault /\ Return(c) /\ UNCHANGED disk
  BY <1>3, <1>4, Returned
<1>5. CASE /\ disk' = [disk EXCEPT ![h] = 0] /\ call' = [call EXCEPT ![c] = Idle]
           /\ UNCHANGED <<issueMu, cut, faults>>
  <2>1. Moves(c, Idle) /\ Idle \in CallRec
    BY <1>3, <1>5, IdleRec DEF Moves, TypeOK
  <2>2. disk' \in [Host -> 0..MaxSerial] /\ disk'[h] = 0 /\ \A g \in Host : g # h => disk'[g] = disk[g]
    BY <1>3, <1>5, CertAssumption DEF TypeOK
  <2>3. faults' = faults /\ cut' = cut /\ issueMu' = issueMu /\ ca' = ca /\ cache' = cache
        /\ crashes' = crashes /\ raced' = raced /\ faults <= faults' /\ crashes <= crashes'
    BY <1>3, <1>5, Bounds
  <2>4. TypeOK'
    BY <1>3, <2>1, <2>2, <2>3, IdleRec, TypeStep DEF TypeOK, Obtaining
  <2>5. CallOK(c)' /\ StoreOK(h)'
    BY <1>3, <2>1, <2>2, <2>3, IdleRec DEF CallOK, StoreOK, Moves
  <2>6. ASSUME h \notin raced PROVE HostOK(h)' /\ WholeOK(h)'
    <3>1. HostOK(h) /\ On(h) = {c} /\ (disk[h] # 0 => ca[disk[h]].revoked) /\ ca[s].revoked /\ cache[h] = 0
      BY <1>1, <1>2, <1>3, <2>6, Alone DEF IInv, HostOK
    <3>2. On(h)' = {}
      BY <2>1, <3>1, Others, IdleRec, CertAssumption
    <3>3. Stray(h)' \subseteq Stray(h)
      <4>1. \A x \in Held(h) : x = disk[h] \/ x = s
        BY <1>2, <3>1 DEF Held
      <4> QED
        BY <1>3, <2>3, <3>1, <4>1, Typed DEF Stray
    <3>4. Cardinality(Stray(h)') <= faults' + crashes'
      BY <1>3, <2>3, <2>4, <3>1, <3>3, StrayKept DEF HostOK
    <3> QED
      BY <2>2, <2>3, <3>1, <3>2, <3>4 DEF HostOK, WholeOK
  <2>7. /\ \A g \in Host : g # h => cache'[g] = cache[g] /\ disk'[g] = disk[g]
        /\ \A r \in Serial : ca'[r] = ca[r]
    BY <2>2, <2>3
  <2>8. PICK k \in CallRec : Moves(c, k) /\ k.host \in {h, NoHost}
    BY <2>1, IdleRec
  <2> QED
    BY <1>1, <2>3, <2>4, <2>5, <2>6, <2>7, <2>8, OwnStep
<1> QED
  BY <1>1, <1>4, <1>5 DEF Unlink

LEMMA AgeStep == ASSUME IInv, NEW s \in Serial, Age(s) PROVE IInv'
<1>1. /\ ca' \in [Serial -> Cert]
      /\ \A r \in Serial : ca'[r].host = ca[r].host /\ ca'[r].revoked = ca[r].revoked
                           /\ (ca'[r].age = "fresh" => ca[r].age = "fresh")
  <2>1. ca \in [Serial -> Cert] /\ ca[s] \in Cert
    BY DEF IInv, TypeOK
  <2>2. ca' = [ca EXCEPT ![s].age = "ageing"] /\ [ca[s] EXCEPT !.age = "ageing"] \in Cert
    BY <2>1 DEF Age, Cert
  <2> QED
    BY <2>1, <2>2 DEF Cert
<1>2. UNCHANGED <<cache, disk, issueMu, call, faults, crashes, raced, cut>> /\ TypeOK
  BY DEF Age, IInv
<1>3. TypeOK'
  BY <1>1, <1>2 DEF TypeOK
<1>4. \A c \in Caller : CallOK(c)'
  BY <1>1, <1>2, Typed DEF IInv, CallOK
<1>5. \A h \in Host : StoreOK(h)'
  BY <1>1, <1>2, Typed DEF IInv, StoreOK
<1>6. ASSUME NEW h \in Host, h \notin raced PROVE HostOK(h)'
  <2>1. HostOK(h) /\ On(h)' = On(h) /\ cache[h] \in 0..MaxSerial /\ disk[h] \in 0..MaxSerial
    BY <1>2, <1>6, Typed DEF IInv, On
  <2>2. Stray(h)' \subseteq Stray(h)
    BY <1>1, <1>2, <2>1 DEF Stray, Held
  <2>3. Cardinality(Stray(h)') <= faults' + crashes'
    BY <1>2, <1>3, <2>1, <2>2, Bounds, StrayKept DEF HostOK
  <2>4. \A c \in On(h) : call'[c] = call[c] /\ (call[c].pc \in Holding => call[c].cert \in Serial)
                         /\ (Revoking(c)' <=> Revoking(c))
    BY <1>2, Typed DEF On, IInv, CallOK, Revoking
  <2> QED
    BY <1>1, <1>2, <2>1, <2>3, <2>4, Typed DEF HostOK, Holding
<1>7. ASSUME NEW h \in Host, h \notin raced \cup cut PROVE WholeOK(h)'
  <2>1. WholeOK(h) /\ On(h)' = On(h) /\ disk[h] \in 0..MaxSerial
    BY <1>2, <1>7, Typed DEF IInv, On
  <2> QED
    BY <1>1, <1>2, <2>1, Typed DEF WholeOK
<1> QED
  BY <1>2, <1>3, <1>4, <1>5, <1>6, <1>7 DEF IInv

LEMMA StartStep ==
  ASSUME IInv, NEW c \in Caller, NEW h \in Host, NEW p \in {"look", "read"}, Start(c, h, p)
  PROVE  IInv'
<1>1. /\ call[c].pc = "idle" /\ call[c].host = NoHost /\ call[c].cert = 0 /\ TypeOK /\ h # NoHost
      /\ UNCHANGED <<ca, cache, disk, issueMu, faults, crashes, cut>>
  BY CertAssumption DEF IInv, CallOK, Start, Holding
<1>2. PICK k \in CallRec : k = [pc |-> p, host |-> h, cert |-> 0]
  <2>1. [pc |-> p, host |-> h, cert |-> 0] \in CallRec
    BY CertAssumption DEF CallRec, Pc
  <2> QED
    BY <2>1
<1>3. Moves(c, k)
  BY <1>1, <1>2 DEF Start, Moves, TypeOK, Idle
<1>4. TypeOK'
  <2>1. raced' \subseteq Host
    BY <1>1 DEF Start, TypeOK
  <2> QED
    BY <1>1, <1>2, <1>3, <2>1, TypeStep DEF TypeOK, Obtaining
<1>5. \A d \in Caller : CallOK(d)'
  BY <1>1, <1>2, <1>3 DEF IInv, CallOK, Moves, Holding
<1>6. \A g \in Host : StoreOK(g)'
  BY <1>1 DEF IInv, StoreOK
<1>7. ASSUME NEW g \in Host, g # h
      PROVE  (HostOK(g) => HostOK(g)') /\ (WholeOK(g) => WholeOK(g)')
  <2>1. \A d \in Caller : call[d].host = g \/ call'[d].host = g => call'[d] = call[d]
    BY <1>1, <1>2, <1>3, <1>7, CertAssumption DEF Moves
  <2> QED
    BY <1>1, <1>4, <2>1, Bounds, OtherHost
<1>8. raced \subseteq raced' /\ \A g \in Host : g # h /\ g \notin raced' => g \notin raced
  BY DEF Start
<1>9. /\ call'[c] = k /\ c \in On(h)' /\ c \notin On(h)
      /\ \A d \in On(h)' : d # c => d \in On(h) /\ call'[d] = call[d]
      /\ \A d \in On(h) : d # c => d \in On(h)' /\ call'[d] = call[d]
  BY <1>1, <1>2, <1>3, Others DEF On
<1>10. ASSUME h \notin raced' PROVE HostOK(h)'
  <2>1. HostOK(h) /\ (\A d \in On(h) : ~Revoking(d)) /\ (p = "read" => On(h) = {})
    BY <1>8, <1>10 DEF IInv, Start
  <2>2. \A d \in On(h) : d # c /\ d \in On(h)' /\ call'[d] = call[d] /\ ~Revoking(d)'
    BY <1>9, <2>1 DEF Revoking
  <2>3. Revoking(c)' => On(h)' = {c}
    BY <1>2, <1>9, <2>1 DEF Revoking
  <2>4. \A d, e \in On(h)' : Revoking(d)' => e = d
    BY <1>9, <2>2, <2>3
  <2>5. Stray(h)' \subseteq Stray(h)
    <3>1. \A x \in Held(h) : x \in Held(h)'
      BY <1>1, <2>2 DEF Held
    <3> QED
      BY <1>1, <3>1 DEF Stray
  <2>6. Cardinality(Stray(h)') <= faults' + crashes'
    BY <1>1, <1>4, <2>1, <2>5, Bounds, StrayKept DEF HostOK
  <2> QED
    BY <1>1, <1>2, <1>9, <2>1, <2>2, <2>4, <2>6 DEF HostOK
<1>11. ASSUME h \notin raced' \cup cut' PROVE WholeOK(h)'
  <2>1. WholeOK(h)
    BY <1>1, <1>8, <1>11 DEF IInv
  <2> QED
    BY <1>1, <1>2, <1>9, <2>1 DEF WholeOK
<1>12. \A g \in Host : g \notin raced' => HostOK(g)'
  BY <1>7, <1>8, <1>10 DEF IInv
<1>13. \A g \in Host : g \notin raced' \cup cut' => WholeOK(g)'
  BY <1>1, <1>7, <1>8, <1>11 DEF IInv
<1> QED
  BY <1>4, <1>5, <1>6, <1>12, <1>13 DEF IInv

LEMMA RestartStep == ASSUME IInv, Restart PROVE IInv'
<1>1. TypeOK /\ cache' = disk /\ disk' = disk /\ ca' = ca /\ faults' = faults /\ raced' = raced
      /\ crashes' = crashes + 1 /\ crashes' \in 0..MaxCrashes /\ issueMu' = NoCaller
      /\ call' = [c \in Caller |-> Idle]
  BY CertAssumption DEF IInv, TypeOK, Restart
<1>2. cut \subseteq cut' /\ cut' \subseteq Host /\ \A c \in Caller : Revoking(c) => call[c].host \in cut'
  <2>1. \A c \in Caller : Revoking(c) => call[c].host \in Host
    BY Called DEF Revoking
  <2> QED
    BY <1>1, <2>1 DEF Restart, TypeOK
<1>3. \A c \in Caller : call'[c] = Idle
  BY <1>1
<1>4. TypeOK'
  BY <1>1, <1>2, <1>3, IdleRec, CertAssumption DEF TypeOK, CallRec, Obtaining
<1>5. \A c \in Caller : CallOK(c)'
  BY <1>3, IdleRec DEF CallOK
<1>6. \A h \in Host : StoreOK(h)'
  BY <1>1 DEF IInv, StoreOK
<1>7. \A h \in Host : On(h)' = {}
  BY <1>3, IdleRec, CertAssumption DEF On
<1>8. ASSUME NEW h \in Host, h \notin raced PROVE HostOK(h)'
  <2>1. HostOK(h)
    BY <1>8 DEF IInv
  <2>2. ASSUME NEW c \in On(h), call[c].cert \in Stray(h)' PROVE call[c].pc = "persist"
    <3>1. /\ c \in Caller /\ call[c].host = h /\ call[c].pc \in Holding /\ ~ca[call[c].cert].revoked
          /\ call[c].cert # disk[h]
      BY <1>1, <2>2, Typed DEF On, IInv, CallOK, Stray, Held
    <3>2. call[c].pc # "fill" /\ call[c].pc \notin {"drop", "unlink"}
      BY <2>1, <2>2, <3>1 DEF HostOK
    <3>3. call[c].pc # "revoke"
      <4> SUFFICES ASSUME call[c].pc = "revoke" PROVE FALSE
        OBVIOUS
      <4>1. cache[h] = call[c].cert /\ call[c].cert # 0
        BY <2>1, <3>1 DEF HostOK, Holding, IInv, CallOK
      <4>2. cache[h] \in {0, disk[h]}
        BY <1>8, <3>1, Alone DEF Revoking
      <4> QED
        BY <3>1, <4>1, <4>2
    <3> QED
      BY <3>1, <3>2, <3>3 DEF Holding
  <2>3. \A x \in Stray(h)' : x \in Stray(h) \/ \E c \in On(h) : x = call[c].cert /\ call[c].pc = "persist"
    BY <1>1, <2>2 DEF Stray, Held
  <2>4. \A c, d \in On(h) : call[c].pc = "persist" /\ call[d].pc = "persist" => c = d
    BY <1>1 DEF TypeOK, On
  <2>5. \E s : Stray(h)' \subseteq Stray(h) \cup {s}
    <3>1. CASE \E c \in On(h) : call[c].pc = "persist"
      <4>1. PICK c \in On(h) : call[c].pc = "persist"
        BY <3>1
      <4> WITNESS call[c].cert
      <4> QED
        BY <2>3, <2>4, <4>1
    <3>2. CASE ~\E c \in On(h) : call[c].pc = "persist"
      BY <2>3, <3>2
    <3> QED
      BY <3>1, <3>2
  <2>6. PICK s : Stray(h)' \subseteq Stray(h) \cup {s}
    BY <2>5
  <2>7. Cardinality(Stray(h)') <= faults' + crashes'
    BY <1>1, <1>4, <2>1, <2>6, StrayOne DEF HostOK
  <2> QED
    BY <1>1, <1>7, <2>7 DEF HostOK
<1>9. ASSUME NEW h \in Host, h \notin raced' \cup cut' PROVE WholeOK(h)'
  <2>1. WholeOK(h) /\ \A c \in On(h) : ~Revoking(c)
    BY <1>1, <1>2, <1>9 DEF IInv, On
  <2> QED
    BY <1>1, <2>1 DEF WholeOK, Revoking
<1> QED
  BY <1>1, <1>4, <1>5, <1>6, <1>8, <1>9 DEF IInv

LEMMA StepIInv == IInv /\ [Next]_vars => IInv'
<1> SUFFICES ASSUME IInv, [Next]_vars PROVE IInv'
  OBVIOUS
<1>1. ASSUME NEW c \in Caller, EnsureCertificate(c) PROVE IInv'
  BY <1>1, LookStep, TakeIssueMuStep, RelookStep, ObtainStep, PersistStep, FillStep DEF EnsureCertificate
<1>2. ASSUME NEW c \in Caller, RevokeCertificate(c) PROVE IInv'
  BY <1>2, ReadStep, RevokeStep, DropStep, UnlinkStep DEF RevokeCertificate
<1>3. CASE UNCHANGED vars
  <2>1. TypeOK' /\ (\A c \in Caller : CallOK(c)') /\ \A h \in Host : StoreOK(h)'
    BY <1>3 DEF vars, IInv, TypeOK, CallOK, StoreOK
  <2>2. ASSUME NEW h \in Host PROVE (HostOK(h) => HostOK(h)') /\ (WholeOK(h) => WholeOK(h)')
    BY <1>3, <2>1, Bounds, OtherHost DEF vars
  <2> QED
    BY <1>3, <2>1, <2>2 DEF vars, IInv
<1>4. ASSUME NEW c \in Caller, NEW h \in Host, NEW p \in {"look", "read"}, Start(c, h, p) PROVE IInv'
  BY <1>4, StartStep
<1>5. CASE Restart
  BY <1>5, RestartStep
<1>6. ASSUME NEW s \in Serial, Age(s) PROVE IInv'
  BY <1>6, AgeStep
<1> QED
  BY <1>1, <1>2, <1>3, <1>4, <1>5, <1>6 DEF Next, Step

(* The inductive invariant holds for any goroutines, hosts and bounds. *)
THEOREM Invariance == Spec => []IInv
  BY InitIInv, StepIInv, PTL DEF Spec

(* The types, and that issueMu is held exactly by the goroutine between its   *)
(* Lock and the deferred Unlock of EnsureCertificate.                         *)
THEOREM TypeCorrect == Spec => []TypeOK
<1>1. IInv => TypeOK
  BY DEF IInv
<1> QED
  BY <1>1, Invariance, PTL

LEMMA TruthfulFromIInv == IInv => CacheIsTruthful
<1> SUFFICES ASSUME IInv, NEW h \in Host, Quiet(h)
             PROVE  /\ cache[h] = disk[h]
                    /\ cache[h] # 0 => ~ca[cache[h]].revoked
  BY DEF CacheIsTruthful
<1>1. On(h) = {} /\ HostOK(h) /\ WholeOK(h)
  BY DEF Quiet, IInv
<1>2. disk[h] # 0 => ~ca[disk[h]].revoked
  BY <1>1 DEF WholeOK
<1>3. cache[h] \in {0, disk[h]} /\ (cache[h] = 0 /\ disk[h] # 0 => ca[disk[h]].revoked)
  BY <1>1 DEF HostOK
<1> QED
  BY <1>2, <1>3

(* Between calls, the cache and the file of a host agree and name a           *)
(* certificate that was not revoked, unless a revocation of that host was cut *)
(* short or overlapped with another call.                                     *)
THEOREM Truthful == Spec => []CacheIsTruthful
  BY Invariance, TruthfulFromIInv, PTL

LEMMA NoStrayFromIInv == IInv => NoStrayCertificate
  BY DEF IInv, HostOK, NoStrayCertificate

(* Every valid certificate that is neither on disk nor in the hands of a      *)
(* caller is paid for by a failure or a restart of its own.                   *)
THEOREM NoStray == Spec => []NoStrayCertificate
  BY Invariance, NoStrayFromIInv, PTL
=============================================================================
