------------------------- MODULE DNSOwnershipProofs -------------------------
(***************************************************************************)
(* The DNS records of a name for any branches, providers and bounds.  The  *)
(* invariant says of every call what its provider lets it rely on between  *)
(* two requests: against an operator's record nothing but a refusal        *)
(* (Refused), on Cloudflare its own marker (StillOwned), and without       *)
(* overlapping calls that what it listed is still so (Current).            *)
(***************************************************************************)
EXTENDS DNSOwnership, FiniteSetTheorems, TLAPS

CallRec == [pc : Pc, op : {"ensure", "delete"}, main : SUBSET Record, txt : SUBSET Marker]

Sequential == ~raced
CloudDNS == provider = "googlecloud" /\ Sequential
Exclusive == provider # "digitalocean" /\ Sequential /\ ~halfGone
Single(rs) == \A r, s \in rs : r = s

(* What holds of a call, whatever the other calls did meanwhile ... *)
Shape(o) ==
  /\ call[o].pc = "idle" => call[o] = NoCall
  /\ call[o].pc \in {"write", "recheck", "mark", "record"} => call[o].op = "ensure"
  /\ call[o].pc \in {"delete", "unmark", "forget"} => call[o].op = "delete"
  /\ call[o].pc \in {"recheck", "mark"} => ~Owned(o)
  /\ call[o].pc = "recheck" => provider = "cloudflare"
  /\ call[o].op = "delete" => o \notin ensured

(* ... while the operator holds the name: it can only find that out; *)
Refused(o) ==
  foreign # {} =>
    /\ call[o].txt = {}
    /\ call[o].pc \in {"idle", "main", "txt", "write", "record"}
    /\ call[o].pc = "main" => call[o].op = "ensure"
    /\ call[o].pc = "write" => call[o].main = foreign
    /\ call[o].pc = "txt" /\ call[o].op = "ensure" /\ provider # "cloudflare" => call[o].main = foreign

(* ... on Cloudflare: the marker an EnsureRecord saw as its own is still there; *)
StillOwned(o) ==
  provider = "cloudflare" /\ call[o].op = "ensure" /\ Owned(o) => o \in Values(txt)

(* ... and when no two calls overlapped: what it listed is still so. *)
Current(o) ==
  Sequential =>
    /\ call[o].pc \in {"write", "delete"} => call[o].main = main
    /\ call[o].pc = "txt" /\ call[o].op = "ensure" /\ provider # "cloudflare" => call[o].main = main
    /\ call[o].pc \in {"write", "recheck", "mark", "delete", "unmark"} => call[o].txt = txt
    /\ call[o].pc = "main" /\ (provider = "cloudflare" \/ call[o].op = "delete") => call[o].txt = txt

Marking(o) ==
  /\ CloudDNS /\ call[o].pc = "mark" => ensured = {} /\ main # {}
  /\ Exclusive /\ call[o].pc \in {"recheck", "mark"} => txt = {} /\ Values(main) = {Target}

CallInv(o) == Shape(o) /\ Refused(o) /\ StillOwned(o) /\ Current(o) /\ Marking(o)

Finite == IsFiniteSet(main) /\ IsFiniteSet(txt)
          /\ \A o \in Owner : IsFiniteSet(call[o].main) /\ IsFiniteSet(call[o].txt)

(* Cloudflare's ids tell markers apart, those that calls remember included. *)
MarkersKnown == UNION ({txt} \cup {call[o].txt : o \in Owner})
IdsOK == provider = "cloudflare" => \A m, n \in MarkersKnown : m.id = n.id => m = n

OneCall == Sequential => \A o, p \in InFlight : o = p

CloudDNSOK ==
  CloudDNS =>
    /\ \A o, p \in Owner : o \in Values(txt) /\ p \in Values(txt) => o = p
    /\ ensured # {} => main # {}

ExclusiveOK ==
  Exclusive =>
    /\ Single(txt)
    /\ txt # {} => main # {} \/ \E o \in Owner : call[o].pc \in {"delete", "unmark"}

IInv ==
  /\ TypeOK /\ Finite
  /\ \A o \in Owner : CallInv(o)
  /\ ForeignIsUntouched
  /\ IdsOK
  /\ OneCall
  /\ Sequential => Single(main)
  /\ MarkersAreKept
  /\ CloudDNSOK
  /\ EnsuredIsExclusive
  /\ ExclusiveOK

-----------------------------------------------------------------------------
(* The step of o makes k of its call, and no other call moves. *)
Moves(o, k) ==
  /\ call' = [p \in Owner |-> call'[p]]
  /\ call'[o] = k
  /\ \A p \in Owner : p # o => call'[p] = call[p]

LEMMA ImageFinite ==
  ASSUME NEW S, IsFiniteSet(S), NEW f, f = [x \in S |-> f[x]], NEW T, T = {f[x] : x \in S}
  PROVE  IsFiniteSet(T) /\ Cardinality(T) <= Cardinality(S)
<1>1. f \in Surjection(S, T)
  BY DEF Surjection
<1> QED
  BY <1>1, FS_Surjection

(* The sets that the provider's answers are made of are finite. *)
LEMMA FiniteParts ==
  /\ \A rs : IsFiniteSet(rs) => IsFiniteSet(Values(rs))
  /\ \A vals : IsFiniteSet(vals) => IsFiniteSet(Set(vals)) /\ IsFiniteSet(requote(vals))
  /\ \A rs, id, v : IsFiniteSet(rs) => IsFiniteSet(Edit(rs, id, v))
<1>1. ASSUME NEW rs, IsFiniteSet(rs) PROVE IsFiniteSet(Values(rs))
  <2> DEFINE f == [r \in rs |-> r.val]
  <2>1. f = [x \in rs |-> f[x]] /\ Values(rs) = {f[x] : x \in rs}
    BY DEF Values
  <2> HIDE DEF f
  <2> QED
    BY <1>1, <2>1, ImageFinite
<1>2. ASSUME NEW vals, IsFiniteSet(vals) PROVE IsFiniteSet(Set(vals))
  <2> DEFINE f == [v \in vals |-> [id |-> 0, val |-> v]]
  <2>1. f = [x \in vals |-> f[x]] /\ Set(vals) = {f[x] : x \in vals}
    BY DEF Set
  <2> HIDE DEF f
  <2> QED
    BY <1>2, <2>1, ImageFinite
<1>3. ASSUME NEW vals, IsFiniteSet(vals) PROVE IsFiniteSet(requote(vals))
  <2> DEFINE f == [v \in vals |-> IF v \in Owner THEN <<v, "requoted">> ELSE v]
  <2>1. f = [x \in vals |-> f[x]] /\ requote(vals) = {f[x] : x \in vals}
    BY DEF requote
  <2> HIDE DEF f
  <2> QED
    BY <1>3, <2>1, ImageFinite
<1>4. ASSUME NEW rs, NEW id, NEW v, IsFiniteSet(rs) PROVE IsFiniteSet(Edit(rs, id, v))
  <2> DEFINE f == [r \in rs |-> IF r.id = id THEN [r EXCEPT !.val = v] ELSE r]
  <2>1. f = [x \in rs |-> f[x]] /\ Edit(rs, id, v) = {f[x] : x \in rs}
    BY DEF Edit
  <2> HIDE DEF f
  <2> QED
    BY <1>4, <2>1, ImageFinite
<1> QED
  BY <1>1, <1>2, <1>3, <1>4

(* The id of a new record is not that of any record somebody remembers. *)
LEMMA Fresh ==
  ASSUME TypeOK, Finite
  PROVE  /\ NewId \in Nat /\ NewId # 0
         /\ \A r \in main \cup txt : r.id # NewId
         /\ \A o \in Owner : \A r \in call[o].main \cup call[o].txt : r.id # NewId
<1>1. IsFiniteSet(Known)
  <2> DEFINE f == [o \in Owner |-> call[o].main]
             g == [o \in Owner |-> call[o].txt]
             F == {call[o].main : o \in Owner}
             G == {call[o].txt : o \in Owner}
  <2>1. f = [x \in Owner |-> f[x]] /\ F = {f[x] : x \in Owner}
        /\ g = [x \in Owner |-> g[x]] /\ G = {g[x] : x \in Owner}
    OBVIOUS
  <2>2. IsFiniteSet(F) /\ IsFiniteSet(G)
    <3> HIDE DEF f, g, F, G
    <3>1. IsFiniteSet(Owner)
      BY DNSAssumption
    <3>2. IsFiniteSet(F)
      BY <2>1, <3>1, ImageFinite
    <3>3. IsFiniteSet(G)
      BY <2>1, <3>1, ImageFinite
    <3> QED
      BY <3>2, <3>3
  <2>3. IsFiniteSet({main, txt})
    <3>1. IsFiniteSet({main}) /\ IsFiniteSet({txt})
      BY FS_Singleton
    <3>2. IsFiniteSet({main} \cup {txt})
      BY <3>1, FS_Union
    <3>3. {main, txt} = {main} \cup {txt}
      OBVIOUS
    <3> QED
      BY <3>2, <3>3
  <2>4. \A T \in {main, txt} \cup F \cup G : IsFiniteSet(T)
    BY DEF Finite
  <2>5. IsFiniteSet({main, txt} \cup F \cup G)
    <3> HIDE DEF F, G
    <3> QED
      BY <2>2, <2>3, FS_Union
  <2>6. Known = UNION ({main, txt} \cup F \cup G)
    BY DEF Known
  <2> HIDE DEF F, G
  <2> QED
    BY <2>4, <2>5, <2>6, FS_UNION
<1> DEFINE n == Cardinality(Known)
           ids == {r.id : r \in Known}
<1>2. n \in Nat
  BY <1>1, FS_CardinalityType
<1>3. IsFiniteSet(ids) /\ Cardinality(ids) <= n /\ Cardinality(ids) \in Nat
  <2> DEFINE f == [r \in Known |-> r.id]
  <2>1. f = [x \in Known |-> f[x]] /\ ids = {f[x] : x \in Known}
    OBVIOUS
  <2> HIDE DEF f, ids
  <2> QED
    BY <1>1, <2>1, ImageFinite, FS_CardinalityType
<1>4. \E i \in 1..(n + 1) : ~Present(Known, i)
  <2> SUFFICES ASSUME \A i \in 1..(n + 1) : Present(Known, i) PROVE FALSE
    OBVIOUS
  <2>1. 1..(n + 1) \in SUBSET ids
    BY DEF Present
  <2>2. Cardinality(1..(n + 1)) = n + 1
    <3> HIDE DEF n
    <3> QED
      BY <1>2, FS_Interval
  <2>3. Cardinality(1..(n + 1)) <= Cardinality(ids)
    <3> HIDE DEF n, ids
    <3> QED
      BY <1>3, <2>1, FS_Subset
  <2> HIDE DEF n, ids
  <2> QED
    BY <1>2, <1>3, <2>2, <2>3
<1>5. NewId \in 1..(n + 1) /\ ~Present(Known, NewId)
  BY <1>4 DEF NewId
<1>6. NewId \in Nat /\ NewId # 0
  <2> HIDE DEF n
  <2> QED
    BY <1>2, <1>5
<1>7. /\ \A r \in main \cup txt : r \in Known
      /\ \A o \in Owner : \A r \in call[o].main \cup call[o].txt : r \in Known
  BY DEF Known
<1> QED
  BY <1>5, <1>6, <1>7 DEF Present

LEMMA NoCallRec ==
  /\ NoCall \in CallRec /\ NoCall.pc = "idle" /\ NoCall.op = "ensure"
  /\ NoCall.main = {} /\ NoCall.txt = {} /\ IsFiniteSet({}) /\ Values({}) = {}
  BY FS_EmptySet DEF NoCall, CallRec, Pc, Values

LEMMA InitIInv == Init => IInv
<1> SUFFICES ASSUME Init PROVE IInv
  OBVIOUS
<1>1. \A o \in Owner : call[o] = NoCall
  BY DEF Init
<1>2. call \in [Owner -> CallRec] /\ main = {} /\ txt = {} /\ foreign = {} /\ ensured = {} /\ InFlight = {}
  BY <1>1, NoCallRec DEF Init, InFlight
<1>3. TypeOK
  <2>1. raced \in BOOLEAN /\ halfGone \in BOOLEAN
    BY DEF Init
  <2>2. faults \in 0..MaxFaults /\ crashes \in 0..MaxCrashes
    BY DNSAssumption DEF Init
  <2>3. row = {} /\ provider \in Providers
    BY DEF Init
  <2>4. \A o \in Owner : call[o].op # "delete"
    BY <1>1, NoCallRec
  <2> QED
    BY <1>2, <2>1, <2>2, <2>3, <2>4 DEF TypeOK, CallRec
<1>4. Finite
  BY <1>1, <1>2, NoCallRec DEF Finite
<1>5. ASSUME NEW o \in Owner PROVE CallInv(o)
  <2>1. ~Owned(o)
    BY <1>1, NoCallRec DEF Owned
  <2>2. Shape(o)
    BY <1>1, <1>2, <2>1, NoCallRec DEF Shape
  <2>3. Refused(o) /\ StillOwned(o)
    BY <1>2, <2>1 DEF Refused, StillOwned
  <2>4. Current(o) /\ Marking(o)
    BY <1>1, NoCallRec DEF Current, Marking
  <2> QED
    BY <2>2, <2>3, <2>4 DEF CallInv
<1>6. MarkersKnown = {}
  BY <1>1, <1>2, NoCallRec DEF MarkersKnown
<1>7. ForeignIsUntouched /\ IdsOK /\ OneCall /\ Single(main) /\ Single(txt)
  BY <1>2, <1>6 DEF ForeignIsUntouched, IdsOK, OneCall, Single
<1>8. MarkersAreKept /\ CloudDNSOK /\ EnsuredIsExclusive /\ ExclusiveOK
  BY <1>2, <1>7, NoCallRec DEF MarkersAreKept, CloudDNSOK, EnsuredIsExclusive, ExclusiveOK
<1> QED
  BY <1>3, <1>4, <1>5, <1>7, <1>8 DEF IInv

LEMMA Typed ==
  ASSUME TypeOK
  PROVE  /\ call \in [Owner -> CallRec]
         /\ \A o \in Owner : /\ call[o] \in CallRec /\ call[o].pc \in Pc /\ call[o].op \in {"ensure", "delete"}
                             /\ call[o].main \in SUBSET Record /\ call[o].txt \in SUBSET Marker
         /\ main \in SUBSET Record /\ txt \in SUBSET Marker
         /\ raced \in BOOLEAN /\ halfGone \in BOOLEAN
         /\ provider \in {"cloudflare", "digitalocean", "route53", "googlecloud"}
         /\ faults \in Nat /\ crashes \in Nat
<1>1. call \in [Owner -> CallRec]
  BY DEF TypeOK, CallRec
<1>2. \A o \in Owner : /\ call[o] \in CallRec /\ call[o].pc \in Pc /\ call[o].op \in {"ensure", "delete"}
                       /\ call[o].main \in SUBSET Record /\ call[o].txt \in SUBSET Marker
  BY <1>1 DEF CallRec
<1>3. provider \in {"cloudflare", "digitalocean", "route53", "googlecloud"}
  BY DNSAssumption DEF TypeOK, PerRecord
<1>4. faults \in Nat /\ crashes \in Nat
  BY DNSAssumption DEF TypeOK
<1>5. raced \in BOOLEAN /\ halfGone \in BOOLEAN
  BY DEF TypeOK
<1> QED
  BY <1>1, <1>2, <1>3, <1>4, <1>5 DEF TypeOK

(* A call that is over owes nothing. *)
LEMMA IdleInv ==
  ASSUME NEW o \in Owner, call'[o] = NoCall
  PROVE  CallInv(o)'
<1>1. ~Owned(o)'
  BY NoCallRec DEF Owned
<1>2. Shape(o)'
  BY <1>1, NoCallRec DEF Shape
<1>3. Refused(o)' /\ StillOwned(o)'
  BY <1>1, NoCallRec DEF Refused, StillOwned
<1>4. Current(o)' /\ Marking(o)'
  BY NoCallRec DEF Current, Marking
<1> QED
  BY <1>2, <1>3, <1>4 DEF CallInv

(* The calls of the others do not notice a step of o: either they are over,  *)
(* or two calls have overlapped.                                             *)
LEMMA OtherCalls ==
  ASSUME IInv, NEW o \in Owner, NEW k, Moves(o, k), NEW p \in Owner, p # o,
         provider' = provider, foreign' = foreign, ensured' \subseteq ensured \cup {o},
         raced' \/ p \notin InFlight,
         provider = "cloudflare" /\ p \in Values(txt) => p \in Values(txt')
  PROVE  CallInv(p)'
<1>1. call'[p] = call[p] /\ CallInv(p)
  BY DEF Moves, IInv
<1>2. CASE p \notin InFlight
  BY <1>1, <1>2, IdleInv DEF InFlight, CallInv, Shape
<1>3. CASE raced'
  <2>1. Owned(p)' <=> Owned(p)
    BY <1>1 DEF Owned
  <2>2. Shape(p)'
    BY <1>1, <2>1 DEF CallInv, Shape
  <2>3. Refused(p)'
    BY <1>1 DEF CallInv, Refused
  <2>4. StillOwned(p)'
    BY <1>1, <2>1 DEF CallInv, StillOwned, Values
  <2>5. Current(p)' /\ Marking(p)'
    BY <1>3 DEF Current, Marking, Sequential, CloudDNS, Exclusive
  <2> QED
    BY <2>2, <2>3, <2>4, <2>5 DEF CallInv
<1> QED
  BY <1>2, <1>3

(* What the step of o leaves to be shown. *)
LEMMA Assemble ==
  ASSUME IInv, NEW o \in Owner, NEW k \in CallRec, Moves(o, k),
         provider' = provider, foreign' = foreign,
         main' \in SUBSET Record, txt' \in SUBSET Marker, IsFiniteSet(main'), IsFiniteSet(txt'),
         IsFiniteSet(k.main), IsFiniteSet(k.txt), row' \subseteq Owner, ensured' \subseteq Owner,
         faults' \in 0..MaxFaults, crashes' \in 0..MaxCrashes,
         raced' \in BOOLEAN, halfGone' \in BOOLEAN, raced => raced',
         k.op = "delete" /\ k.pc \in {"main", "delete", "unmark"} => \E m \in k.txt : m.val = o,
         o \in InFlight \/ raced' \/ InFlight = {}, ensured' \subseteq ensured \cup {o},
         provider = "cloudflare" => \A p \in Owner : p # o /\ p \in Values(txt) => p \in Values(txt'),
         CallInv(o)', ForeignIsUntouched', IdsOK', Sequential' => Single(main'),
         MarkersAreKept', CloudDNSOK', EnsuredIsExclusive', ExclusiveOK'
  PROVE  IInv'
<1>1. call' \in [Owner -> CallRec]
  <2>1. \A p \in Owner : call'[p] \in CallRec
    BY Typed DEF Moves, IInv
  <2>2. call' = [p \in Owner |-> call'[p]]
    BY DEF Moves
  <2> QED
    BY <2>1, <2>2
<1>2. \A p \in Owner : call'[p].op = "delete" /\ call'[p].pc \in {"main", "delete", "unmark"} =>
                         \E m \in call'[p].txt : m.val = p
  BY DEF IInv, TypeOK, Moves
<1>3. TypeOK'
  BY <1>1, <1>2 DEF IInv, TypeOK, CallRec
<1>4. Finite'
  BY DEF IInv, Finite, Moves
<1>5. ASSUME NEW p \in Owner, p # o PROVE raced' \/ p \notin InFlight
  BY <1>5 DEF IInv, OneCall, Sequential
<1>6. ASSUME NEW p \in Owner, p # o PROVE CallInv(p)'
  BY <1>5, <1>6, OtherCalls
<1>7. OneCall'
  <2>1. \A p \in InFlight' : p = o \/ p \in InFlight
    BY DEF InFlight, Moves
  <2>2. InFlight \subseteq Owner /\ InFlight' \subseteq Owner
    BY DEF InFlight
  <2> QED
    BY <1>5, <2>1, <2>2 DEF OneCall, Sequential
<1> QED
  BY <1>3, <1>4, <1>6, <1>7 DEF IInv

(* A step that changes neither the records nor the markers. *)
LEMMA ReadOnly ==
  ASSUME IInv, NEW o \in Owner, NEW k \in CallRec, Moves(o, k),
         UNCHANGED <<provider, main, txt, foreign>>,
         k.main \in {{}, call[o].main, main}, k.txt \in {{}, call[o].txt, txt},
         row' \subseteq Owner, faults' \in 0..MaxFaults, crashes' \in 0..MaxCrashes,
         raced' \in BOOLEAN, halfGone' \in BOOLEAN, raced => raced', halfGone => halfGone',
         k.op = "delete" /\ k.pc \in {"main", "delete", "unmark"} => \E m \in k.txt : m.val = o,
         o \in InFlight \/ raced' \/ InFlight = {}, CallInv(o)',
         \/ ensured' \subseteq ensured
         \/ ensured' = ensured \cup {o} /\ provider = "digitalocean"
         \/ ensured' = ensured \cup {o} /\ provider = "cloudflare" /\ o \in Values(txt) /\ ~Exclusive',
         call[o].pc \in {"delete", "unmark"} => k.pc \in {"delete", "unmark"} \/ halfGone'
  PROVE  IInv'
<1>1. main \in SUBSET Record /\ txt \in SUBSET Marker /\ Finite /\ ensured \subseteq Owner
  BY Typed DEF IInv, TypeOK
<1>2. IsFiniteSet(k.main) /\ IsFiniteSet(k.txt) /\ IsFiniteSet(main) /\ IsFiniteSet(txt)
  BY <1>1, NoCallRec DEF Finite
<1>3. ForeignIsUntouched'
  BY DEF IInv, ForeignIsUntouched
<1>4. IdsOK'
  <2>1. \A m \in MarkersKnown' : m \in MarkersKnown
    BY DEF MarkersKnown, Moves
  <2> QED
    BY <2>1 DEF IInv, IdsOK
<1>5. Sequential' => Sequential /\ Single(main)
  BY DEF IInv, Sequential
<1>6. Values(main)' = Values(main) /\ Values(txt)' = Values(txt)
  BY DEF Values
<1>7. MarkersAreKept'
  BY <1>5, <1>6 DEF IInv, MarkersAreKept, Sequential
<1>8. CloudDNSOK'
  BY <1>5, <1>6 DEF IInv, CloudDNSOK, CloudDNS
<1>9. EnsuredIsExclusive'
  BY <1>5, <1>6 DEF IInv, EnsuredIsExclusive, Exclusive, Sequential
<1>10. ExclusiveOK'
  <2> SUFFICES ASSUME Exclusive'
               PROVE  /\ Single(txt)
                      /\ txt # {} => main # {} \/ \E p \in Owner : call'[p].pc \in {"delete", "unmark"}
    BY DEF ExclusiveOK, Single
  <2>1. Exclusive /\ ~halfGone'
    BY DEF Exclusive, Sequential
  <2>2. \A p \in Owner : call[p].pc \in {"delete", "unmark"} => call'[p].pc \in {"delete", "unmark"}
    BY <2>1 DEF Moves
  <2> QED
    BY <2>1, <2>2 DEF IInv, ExclusiveOK
<1>11. Sequential' => Single(main')
  BY <1>5
<1> QED
  BY <1>1, <1>2, <1>3, <1>4, <1>6, <1>7, <1>8, <1>9, <1>10, <1>11, Assemble

(* The forms in which a step assigns to fields of a call. *)
Lists(o, M, p) == call' = [call EXCEPT ![o].main = M, ![o].pc = p]
Remembers(o, T, p) == call' = [call EXCEPT ![o].txt = T, ![o].pc = p]
Drops(o, M) == call' = [call EXCEPT ![o].main = M]

LEMMA Becomes ==
  ASSUME TypeOK, NEW o \in Owner, NEW p \in Pc, NEW M \in SUBSET Record, NEW T \in SUBSET Marker,
         \/ Goto(o, p) /\ M = call[o].main /\ T = call[o].txt
         \/ Lists(o, M, p) /\ T = call[o].txt
         \/ Remembers(o, T, p) /\ M = call[o].main
         \/ Drops(o, M) /\ T = call[o].txt /\ p = call[o].pc
  PROVE  \E k \in CallRec : /\ Moves(o, k)
                            /\ k.pc = p /\ k.op = call[o].op /\ k.main = M /\ k.txt = T
<1>1. call \in [Owner -> CallRec] /\ call[o].op \in {"ensure", "delete"}
  BY Typed
<1> DEFINE new == [pc |-> p, op |-> call[o].op, main |-> M, txt |-> T]
<1>2. new \in CallRec
  BY <1>1 DEF CallRec
<1>3. call' = [q \in Owner |-> call'[q]] /\ \A q \in Owner : q # o => call'[q] = call[q]
  BY <1>1 DEF Goto, Lists, Remembers, Drops
<1>4. call'[o] = new
  <2>1. CASE Goto(o, p) /\ M = call[o].main /\ T = call[o].txt
    BY <1>1, <2>1 DEF CallRec, Goto
  <2>2. CASE Lists(o, M, p) /\ T = call[o].txt
    <3>1. call'[o] = [[call[o] EXCEPT !.main = M] EXCEPT !.pc = p]
      BY <1>1, <2>2 DEF Lists
    <3>2. [call[o] EXCEPT !.main = M] = [pc |-> call[o].pc, op |-> call[o].op, main |-> M, txt |-> T]
      BY <1>1, <2>2 DEF CallRec
    <3> QED
      BY <3>1, <3>2
  <2>3. CASE Remembers(o, T, p) /\ M = call[o].main
    <3>1. call'[o] = [[call[o] EXCEPT !.txt = T] EXCEPT !.pc = p]
      BY <1>1, <2>3 DEF Remembers
    <3>2. [call[o] EXCEPT !.txt = T] = [pc |-> call[o].pc, op |-> call[o].op, main |-> M, txt |-> T]
      BY <1>1, <2>3 DEF CallRec
    <3> QED
      BY <3>1, <3>2
  <2>4. CASE Drops(o, M) /\ T = call[o].txt /\ p = call[o].pc
    BY <1>1, <2>4 DEF CallRec, Drops
  <2> QED
    BY <2>1, <2>2, <2>3, <2>4
<1> QED
  BY <1>2, <1>3, <1>4 DEF Moves

LEMMA Jumps ==
  ASSUME TypeOK, NEW o \in Owner, NEW p \in Pc, Goto(o, p)
  PROVE  \E k \in CallRec : /\ Moves(o, k) /\ k.pc = p /\ k.op = call[o].op
                            /\ k.main = call[o].main /\ k.txt = call[o].txt
<1>1. PICK M \in SUBSET Record, T \in SUBSET Marker : M = call[o].main /\ T = call[o].txt
  BY Typed
<1> QED
  BY <1>1, Becomes

LEMMA Ends ==
  ASSUME TypeOK, NEW o \in Owner, call' = [call EXCEPT ![o] = NoCall]
  PROVE  Moves(o, NoCall) /\ NoCall \in CallRec /\ call'[o] = NoCall
  BY Typed, NoCallRec DEF Moves

LEMMA Counted ==
  ASSUME TypeOK
  PROVE  /\ faults \in 0..MaxFaults /\ crashes \in 0..MaxCrashes
         /\ Fault => faults' \in 0..MaxFaults
<1>1. faults \in 0..MaxFaults /\ crashes \in 0..MaxCrashes /\ MaxFaults \in Nat
  BY DNSAssumption DEF TypeOK
<1> QED
  BY <1>1 DEF Fault

(* A call that fails without having changed anything in this step. *)
LEMMA Errors ==
  ASSUME IInv, NEW o \in Owner, call[o].pc # "idle", Error(o), faults' = faults \/ Fault,
         UNCHANGED <<provider, main, txt, row, crashes>>
  PROVE  IInv'
<1>1. TypeOK /\ raced \in BOOLEAN /\ halfGone \in BOOLEAN /\ faults' \in 0..MaxFaults /\ crashes' \in 0..MaxCrashes
      /\ row' \subseteq Owner
  BY Typed, Counted DEF IInv, TypeOK
<1>2. Moves(o, NoCall) /\ NoCall \in CallRec /\ call'[o] = NoCall
  BY <1>1, Ends DEF Error
<1>3. CallInv(o)'
  BY <1>2, IdleInv
<1>4. halfGone' = (halfGone \/ call[o].pc \in {"delete", "unmark"}) /\ UNCHANGED <<foreign, ensured, raced>>
  BY DEF Error
<1>5. raced' \in BOOLEAN /\ halfGone' \in BOOLEAN /\ (raced => raced') /\ (halfGone => halfGone')
      /\ (call[o].pc \in {"delete", "unmark"} => halfGone')
  BY <1>1, <1>4
<1>6. o \in InFlight
  BY DEF InFlight
<1>7. PICK k \in CallRec : Moves(o, k) /\ k.main = {} /\ k.txt = {} /\ k.pc = "idle"
  BY <1>2, NoCallRec
<1> QED
  BY <1>1, <1>3, <1>4, <1>5, <1>6, <1>7, ReadOnly

LEMMA FailStep == ASSUME IInv, NEW o \in Owner, Fail(o) PROVE IInv'
  BY Errors DEF Fail

LEMMA RowSteps ==
  ASSUME IInv, NEW o \in Owner, RecordRow(o) \/ ForgetRow(o)
  PROVE  IInv'
<1>1. /\ call[o].pc \in {"record", "forget"} /\ row' \in {row \cup {o}, row \ {o}}
      /\ call' = [call EXCEPT ![o] = NoCall]
      /\ UNCHANGED <<provider, main, txt, faults, crashes, foreign, ensured, raced, halfGone>>
  BY DEF RecordRow, ForgetRow, history
<1>2. TypeOK /\ raced \in BOOLEAN /\ halfGone \in BOOLEAN /\ faults' \in 0..MaxFaults /\ crashes' \in 0..MaxCrashes
      /\ row' \subseteq Owner
  BY <1>1, Typed, Counted DEF IInv, TypeOK
<1>3. Moves(o, NoCall) /\ NoCall \in CallRec /\ call'[o] = NoCall
  BY <1>1, <1>2, Ends
<1>4. CallInv(o)'
  BY <1>3, IdleInv
<1>5. o \in InFlight
  BY <1>1 DEF InFlight
<1>6. PICK k \in CallRec : Moves(o, k) /\ k.main = {} /\ k.txt = {} /\ k.pc = "idle"
  BY <1>3, NoCallRec
<1> QED
  BY <1>1, <1>2, <1>4, <1>5, <1>6, ReadOnly

LEMMA StartSteps ==
  ASSUME IInv, NEW o \in Owner, StartEnsure(o) \/ StartDelete(o)
  PROVE  IInv'
<1>1. TypeOK /\ CallInv(o) /\ raced \in BOOLEAN /\ halfGone \in BOOLEAN
  BY Typed DEF IInv
<1>2. PICK op \in {"ensure", "delete"}, p \in {"main", "txt"} :
        /\ Start(o, op, p)
        /\ op = "delete" => p = "txt" /\ ensured' = ensured \ {o}
        /\ op = "ensure" => ensured' = ensured /\ (p = "txt" <=> provider = "cloudflare")
  BY DEF StartEnsure, StartDelete
<1>3. PICK k \in CallRec : k = [pc |-> p, op |-> op, main |-> {}, txt |-> {}]
  <2>1. [pc |-> p, op |-> op, main |-> {}, txt |-> {}] \in CallRec
    BY DEF CallRec, Pc
  <2> QED
    BY <2>1
<1>4. Moves(o, k)
  BY <1>1, <1>2, <1>3, Typed DEF Start, Moves, NoCall
<1>5. UNCHANGED <<provider, main, txt, row, faults, crashes, foreign, halfGone>>
      /\ raced' = (raced \/ InFlight # {})
  BY <1>2 DEF Start
<1>6. raced' \in BOOLEAN /\ halfGone' \in BOOLEAN /\ (raced => raced') /\ (halfGone => halfGone')
      /\ (raced' \/ InFlight = {})
  BY <1>1, <1>5
<1>7. ensured' \subseteq ensured
  BY <1>2
<1>8. CallInv(o)'
  <2>1. call'[o] = k /\ ~Owned(o)'
    BY <1>3, <1>4, NoCallRec DEF Moves, Owned
  <2>2. Shape(o)'
    BY <1>2, <1>3, <1>7, <2>1 DEF Shape
  <2>3. Refused(o)' /\ StillOwned(o)'
    BY <1>2, <1>3, <1>5, <2>1 DEF Refused, StillOwned
  <2>4. Current(o)' /\ Marking(o)'
    BY <1>2, <1>3, <1>5, <2>1 DEF Current, Marking
  <2> QED
    BY <2>2, <2>3, <2>4 DEF CallInv
<1>9. call[o].pc = "idle" /\ row' \subseteq Owner /\ faults' \in 0..MaxFaults /\ crashes' \in 0..MaxCrashes
      /\ k.main = {} /\ k.txt = {} /\ (k.op = "delete" => k.pc = "txt")
  BY <1>1, <1>2, <1>3, <1>5, Counted DEF Start, TypeOK
<1> QED
  BY <1>4, <1>5, <1>6, <1>7, <1>8, <1>9, ReadOnly

(* The facts every step of a call under way starts from. *)
LEMMA Working ==
  ASSUME IInv, NEW o \in Owner, call[o].pc # "idle"
  PROVE  /\ TypeOK /\ Finite /\ CallInv(o) /\ o \in InFlight
         /\ row \subseteq Owner /\ faults \in 0..MaxFaults /\ crashes \in 0..MaxCrashes
         /\ raced \in BOOLEAN /\ halfGone \in BOOLEAN
         /\ main \in SUBSET Record /\ txt \in SUBSET Marker
         /\ call[o].main \in SUBSET Record /\ call[o].txt \in SUBSET Marker
         /\ call[o].pc \in Pc /\ call[o].op \in {"ensure", "delete"}
  BY Typed, Counted DEF IInv, TypeOK, InFlight

LEMMA ListMainStep == ASSUME IInv, NEW o \in Owner, ListMain(o) PROVE IInv'
<1>1. call[o].pc = "main" /\ call[o].op = "ensure" /\ UNCHANGED <<provider, main, txt, row, faults, crashes>>
  BY DEF ListMain
<1>2. /\ TypeOK /\ Finite /\ CallInv(o) /\ o \in InFlight
      /\ row \subseteq Owner /\ faults \in 0..MaxFaults /\ crashes \in 0..MaxCrashes
      /\ raced \in BOOLEAN /\ halfGone \in BOOLEAN /\ main \in SUBSET Record
      /\ call[o].main \in SUBSET Record /\ call[o].txt \in SUBSET Marker
  BY <1>1, Working
<1>3. CASE provider = "digitalocean" /\ Ensured(o)
  <2>1. ensured' = ensured \cup {o} /\ UNCHANGED <<foreign, raced, halfGone>>
    BY <1>3 DEF Ensured
  <2>2. PICK k \in CallRec : /\ Moves(o, k) /\ k.pc = "record" /\ k.op = call[o].op
                             /\ k.main = call[o].main /\ k.txt = call[o].txt
    <3>1. "record" \in Pc /\ Goto(o, "record")
      BY <1>3 DEF Ensured, Pc
    <3> QED
      BY <1>2, <3>1, Becomes
  <2>3. CallInv(o)'
    <3>1. call'[o] = k /\ (Owned(o)' <=> Owned(o))
      BY <2>2 DEF Moves, Owned
    <3>2. Shape(o)' /\ Refused(o)'
      BY <1>1, <1>2, <2>1, <2>2, <3>1 DEF CallInv, Shape, Refused
    <3>3. StillOwned(o)' /\ Current(o)' /\ Marking(o)'
      BY <1>1, <1>3, <2>2, <3>1 DEF StillOwned, Current, Marking
    <3> QED
      BY <3>2, <3>3 DEF CallInv
  <2> QED
    BY <1>1, <1>2, <1>3, <2>1, <2>2, <2>3, ReadOnly
<1>4. CASE /\ call' = [call EXCEPT ![o].main = main,
                                   ![o].pc = IF provider = "cloudflare" THEN "write" ELSE "txt"]
           /\ UNCHANGED history
  <2>1. PICK p \in Pc : p = IF provider = "cloudflare" THEN "write" ELSE "txt"
    BY DEF Pc
  <2>2. PICK k \in CallRec : /\ Moves(o, k) /\ k.pc = p /\ k.op = call[o].op
                             /\ k.main = main /\ k.txt = call[o].txt
    <3>1. Lists(o, main, p)
      BY <1>4, <2>1 DEF Lists
    <3> QED
      BY <1>2, <3>1, Becomes
  <2>3. UNCHANGED <<foreign, ensured, raced, halfGone>>
    BY <1>4 DEF history
  <2>4. CallInv(o)'
    <3>1. call'[o] = k /\ (Owned(o)' <=> Owned(o)) /\ (Values(txt)' = Values(txt))
      BY <1>1, <2>2 DEF Moves, Owned, Values
    <3>2. Shape(o)' /\ StillOwned(o)'
      BY <1>1, <1>2, <2>1, <2>2, <2>3, <3>1 DEF CallInv, Shape, StillOwned
    <3>3. Refused(o)'
      BY <1>1, <1>2, <2>1, <2>2, <2>3, <3>1 DEF CallInv, Refused, IInv, ForeignIsUntouched
    <3>4. Current(o)' /\ Marking(o)'
      BY <1>1, <1>2, <2>1, <2>2, <2>3, <3>1 DEF CallInv, Current, Marking, Sequential
    <3> QED
      BY <3>2, <3>3, <3>4 DEF CallInv
  <2> QED
    BY <1>1, <1>2, <2>1, <2>2, <2>3, <2>4, ReadOnly
<1> QED
  BY <1>3, <1>4 DEF ListMain

LEMMA ListMarkersStep == ASSUME IInv, NEW o \in Owner, ListMarkers(o) PROVE IInv'
<1>1. /\ call[o].pc = "txt" /\ call[o].op = "ensure"
      /\ UNCHANGED <<provider, main, txt, row, faults, crashes, foreign, ensured, raced, halfGone>>
  BY DEF ListMarkers, history
<1>2. /\ TypeOK /\ CallInv(o) /\ o \in InFlight
      /\ row \subseteq Owner /\ faults \in 0..MaxFaults /\ crashes \in 0..MaxCrashes
      /\ raced \in BOOLEAN /\ halfGone \in BOOLEAN /\ txt \in SUBSET Marker /\ call[o].main \in SUBSET Record
  BY <1>1, Working
<1>3. PICK p \in Pc : p = IF provider = "cloudflare" THEN "main" ELSE "write"
  BY DEF Pc
<1>4. PICK k \in CallRec : /\ Moves(o, k) /\ k.pc = p /\ k.op = call[o].op
                           /\ k.main = call[o].main /\ k.txt = txt
  <2>1. Remembers(o, txt, p)
    BY <1>3 DEF ListMarkers, Remembers
  <2> QED
    BY <1>2, <2>1, Becomes
<1>5. CallInv(o)'
  <2>1. call'[o] = k /\ (Owned(o)' <=> o \in Values(txt)) /\ Values(txt)' = Values(txt)
    BY <1>1, <1>4 DEF Moves, Owned, Values
  <2>2. Shape(o)' /\ StillOwned(o)'
    BY <1>1, <1>2, <1>3, <1>4, <2>1 DEF CallInv, Shape, StillOwned
  <2>3. Refused(o)'
    BY <1>1, <1>2, <1>3, <1>4, <2>1 DEF CallInv, Refused, IInv, ForeignIsUntouched
  <2>4. Current(o)' /\ Marking(o)'
    BY <1>1, <1>2, <1>3, <1>4, <2>1 DEF CallInv, Current, Marking, Sequential
  <2> QED
    BY <2>2, <2>3, <2>4 DEF CallInv
<1> QED
  BY <1>1, <1>2, <1>3, <1>4, <1>5, ReadOnly

LEMMA RecheckStep == ASSUME IInv, NEW o \in Owner, Recheck(o) PROVE IInv'
<1>1. call[o].pc = "recheck" /\ UNCHANGED <<provider, main, txt, row, faults, crashes>>
  BY DEF Recheck
<1>2. /\ TypeOK /\ CallInv(o) /\ o \in InFlight
      /\ row \subseteq Owner /\ faults \in 0..MaxFaults /\ crashes \in 0..MaxCrashes
      /\ raced \in BOOLEAN /\ halfGone \in BOOLEAN
      /\ call[o].main \in SUBSET Record /\ call[o].txt \in SUBSET Marker
  BY <1>1, Working
<1>3. call[o].op = "ensure" /\ ~Owned(o) /\ foreign = {} /\ provider = "cloudflare"
  BY <1>1, <1>2 DEF CallInv, Shape, Refused
<1>4. PICK p \in {"record", "mark"} :
        /\ Goto(o, p) /\ UNCHANGED <<foreign, raced, halfGone>>
        /\ p = "mark" => ensured' = ensured
        /\ p = "record" => ensured' = ensured \cup {o} /\ o \in Values(txt)
  BY DEF Recheck, Ensured, history
<1>5. PICK k \in CallRec : /\ Moves(o, k) /\ k.pc = p /\ k.op = call[o].op
                           /\ k.main = call[o].main /\ k.txt = call[o].txt
  <2>1. Goto(o, p) /\ p \in Pc
    BY <1>4 DEF Pc
  <2> QED
    BY <1>2, <2>1, Jumps
<1>6. /\ UNCHANGED <<foreign, raced, halfGone>>
      /\ \/ ensured' = ensured
         \/ ensured' = ensured \cup {o} /\ p = "record" /\ o \in Values(txt)
  BY <1>4
<1>7. Exclusive => o \notin Values(txt)
  BY <1>1, <1>2 DEF CallInv, Marking, Values
<1>8. call'[o] = k /\ (Owned(o)' <=> Owned(o))
  BY <1>5 DEF Moves, Owned
<1>9. CallInv(o)'
  <2>1. Shape(o)' /\ Refused(o)' /\ StillOwned(o)'
    BY <1>1, <1>3, <1>4, <1>5, <1>6, <1>8 DEF Shape, Refused, StillOwned
  <2>2. Current(o)'
    BY <1>1, <1>2, <1>3, <1>4, <1>5, <1>6, <1>8 DEF CallInv, Current, Sequential
  <2>3. Marking(o)'
    BY <1>1, <1>2, <1>3, <1>4, <1>5, <1>6, <1>8 DEF CallInv, Marking, CloudDNS, Exclusive, Sequential, Values
  <2> QED
    BY <2>1, <2>2, <2>3 DEF CallInv
<1>10. Exclusive' <=> Exclusive
  BY <1>1, <1>6 DEF Exclusive, Sequential
<1> QED
  BY <1>1, <1>2, <1>3, <1>4, <1>5, <1>6, <1>7, <1>9, <1>10, ReadOnly

LEMMA CheckMarkerStep == ASSUME IInv, NEW o \in Owner, CheckMarker(o) PROVE IInv'
<1>1. /\ call[o].pc = "txt" /\ call[o].op = "delete"
      /\ UNCHANGED <<provider, main, txt, row, faults, crashes>>
  BY DEF CheckMarker
<1>2. /\ TypeOK /\ CallInv(o) /\ o \in InFlight
      /\ row \subseteq Owner /\ faults \in 0..MaxFaults /\ crashes \in 0..MaxCrashes
      /\ raced \in BOOLEAN /\ halfGone \in BOOLEAN /\ txt \in SUBSET Marker /\ call[o].main \in SUBSET Record
  BY <1>1, Working
<1>3. CASE Error(o)
  BY <1>1, <1>3, Errors
<1>4. CASE o \in Values(txt) /\ Remembers(o, txt, "main") /\ UNCHANGED history
  <2>1. UNCHANGED <<foreign, ensured, raced, halfGone>>
    BY <1>4 DEF history
  <2>2. "main" \in Pc /\ \E m \in txt : m.val = o
    BY <1>4 DEF Pc, Values
  <2>3. PICK k \in CallRec : /\ Moves(o, k) /\ k.pc = "main" /\ k.op = call[o].op
                             /\ k.main = call[o].main /\ k.txt = txt
    BY <1>2, <1>4, <2>2, Becomes
  <2>4. CallInv(o)'
    <3>1. call'[o] = k /\ foreign = {}
      BY <2>2, <2>3 DEF Moves, IInv, ForeignIsUntouched
    <3>2. Shape(o)' /\ StillOwned(o)'
      BY <1>1, <1>2, <2>1, <2>3, <3>1 DEF CallInv, Shape, StillOwned
    <3>3. Refused(o)' /\ Current(o)' /\ Marking(o)'
      BY <1>1, <2>1, <2>3, <3>1 DEF Refused, Current, Marking
    <3> QED
      BY <3>2, <3>3 DEF CallInv
  <2> QED
    BY <1>1, <1>2, <2>1, <2>2, <2>3, <2>4, ReadOnly
<1> QED
  BY <1>3, <1>4 DEF CheckMarker, Remembers

LEMMA ListDoomedStep == ASSUME IInv, NEW o \in Owner, ListDoomed(o) PROVE IInv'
<1>1. /\ call[o].pc = "main" /\ call[o].op = "delete"
      /\ UNCHANGED <<provider, main, txt, row, faults, crashes, foreign, ensured, raced, halfGone>>
  BY DEF ListDoomed, history
<1>2. /\ TypeOK /\ CallInv(o) /\ o \in InFlight
      /\ row \subseteq Owner /\ faults \in 0..MaxFaults /\ crashes \in 0..MaxCrashes
      /\ raced \in BOOLEAN /\ halfGone \in BOOLEAN /\ main \in SUBSET Record /\ call[o].txt \in SUBSET Marker
  BY <1>1, Working
<1>3. PICK k \in CallRec : /\ Moves(o, k) /\ k.pc = "delete" /\ k.op = call[o].op
                           /\ k.main = main /\ k.txt = call[o].txt
  <2>1. Lists(o, main, "delete") /\ "delete" \in Pc
    BY DEF ListDoomed, Lists, Pc
  <2> QED
    BY <1>2, <2>1, Becomes
<1>4. \E m \in call[o].txt : m.val = o
  BY <1>1, <1>2 DEF TypeOK
<1>5. CallInv(o)'
  <2>1. call'[o] = k /\ foreign = {}
    BY <1>1, <1>2, <1>3 DEF Moves, CallInv, Refused
  <2>2. Shape(o)' /\ StillOwned(o)'
    BY <1>1, <1>2, <1>3, <2>1 DEF CallInv, Shape, StillOwned
  <2>3. Refused(o)' /\ Current(o)' /\ Marking(o)'
    BY <1>1, <1>2, <1>3, <2>1 DEF CallInv, Refused, Current, Marking, Sequential
  <2> QED
    BY <2>2, <2>3 DEF CallInv
<1> QED
  BY <1>1, <1>2, <1>3, <1>4, <1>5, ReadOnly

-----------------------------------------------------------------------------
(* What the requests that write leave at the name. *)
LEMMA ValueSets ==
  /\ \A vals : Values(Set(vals)) = vals
  /\ \A v : Single(Set({v})) /\ IsFiniteSet({v})
  /\ \A vals : (\A v, w \in vals : v = w) => Single(Set(vals))
  /\ \A rs : Single(rs) => \A v, w \in Values(rs) : v = w
  /\ \A rs : Values(rs) = {} <=> rs = {}
<1>1. \A vals : Values(Set(vals)) = vals
  <2> TAKE vals
  <2>1. \A v \in vals : [id |-> 0, val |-> v] \in Set(vals) /\ [id |-> 0, val |-> v].val = v
    BY DEF Set
  <2>2. \A r \in Set(vals) : r.val \in vals
    BY DEF Set
  <2> QED
    BY <2>1, <2>2 DEF Values
<1>2. \A v : Single(Set({v})) /\ IsFiniteSet({v})
  BY FS_Singleton DEF Single, Set
<1>3. \A vals : (\A v, w \in vals : v = w) => Single(Set(vals))
  BY DEF Single, Set
<1>4. \A rs : Single(rs) => \A v, w \in Values(rs) : v = w
  BY DEF Single, Values
<1>5. \A rs : Values(rs) = {} <=> rs = {}
  BY DEF Values
<1> QED
  BY <1>1, <1>2, <1>3, <1>4, <1>5

LEMMA EnsuredMainFacts ==
  ASSUME IInv, NEW o \in Owner, call[o].pc = "write", main' \in EnsuredMain(o)
  PROVE  /\ main' \in SUBSET Record /\ IsFiniteSet(main')
         /\ Sequential => Single(main') /\ Values(main') = {Target}
<1>1. /\ TypeOK /\ Finite /\ CallInv(o) /\ main \in SUBSET Record /\ call[o].main \in SUBSET Record
      /\ IsFiniteSet(main)
      /\ provider \in {"cloudflare", "digitalocean", "route53", "googlecloud"}
  BY Working, Typed DEF IInv, Finite
<1>2. Sequential => call[o].main = main /\ Single(main)
  BY <1>1 DEF CallInv, Current, IInv
<1>3. CASE main' = Add(main, Target) /\ call[o].main = {}
  <2>1. PICK new \in Record : new = [id |-> NewId, val |-> Target]
    BY <1>1, Fresh DEF Record
  <2>2. main' = main \cup {new}
    BY <1>3, <2>1 DEF Add
  <2>3. IsFiniteSet(main')
    BY <1>1, <2>2, FS_AddElement
  <2>4. Sequential => main' = {new}
    BY <1>2, <1>3, <2>2
  <2> QED
    BY <1>1, <2>1, <2>2, <2>3, <2>4 DEF Single, Values
<1>4. ASSUME NEW r \in call[o].main, main' = Edit(main, r.id, Target) PROVE
         /\ main' \in SUBSET Record /\ IsFiniteSet(main')
         /\ Sequential => Single(main') /\ Values(main') = {Target}
  <2>1. IsFiniteSet(main')
    BY <1>1, <1>4, FiniteParts
  <2>2. \A x \in Record : [x EXCEPT !.val = Target] \in Record
    BY DEF Record
  <2>3. main' \in SUBSET Record
    BY <1>1, <1>4, <2>2 DEF Edit
  <2>4. ASSUME Sequential PROVE Single(main') /\ Values(main') = {Target}
    <3>1. main = {r} /\ r \in Record
      BY <1>1, <1>2, <1>4, <2>4 DEF Single
    <3>2. main' = {[r EXCEPT !.val = Target]}
      BY <1>4, <3>1 DEF Edit
    <3>3. [r EXCEPT !.val = Target].val = Target
      BY <3>1 DEF Record
    <3> QED
      BY <3>2, <3>3 DEF Single, Values
  <2> QED
    BY <2>1, <2>3, <2>4
<1>5. CASE main' = Set({Target})
  <2>1. main' \in SUBSET Record
    BY <1>5 DEF Set, Record
  <2>2. IsFiniteSet(main')
    BY <1>5, ValueSets, FiniteParts
  <2> QED
    BY <1>5, <2>1, <2>2, ValueSets
<1>6. CASE main' = main /\ Values(call[o].main) = {Target}
  BY <1>1, <1>2, <1>6
<1>7. \/ main' = Add(main, Target) /\ call[o].main = {}
      \/ \E r \in call[o].main : main' = Edit(main, r.id, Target)
      \/ main' = Set({Target})
      \/ main' = main /\ Values(call[o].main) = {Target}
  <2>1. CASE provider \in PerRecord
    BY <2>1 DEF EnsuredMain
  <2>2. CASE provider = "route53"
    BY <2>2 DEF EnsuredMain, PerRecord
  <2>3. CASE provider = "googlecloud"
    BY <2>3 DEF EnsuredMain, PerRecord
  <2> QED
    BY <1>1, <2>1, <2>2, <2>3 DEF PerRecord
<1> QED
  BY <1>3, <1>4, <1>5, <1>6, <1>7

(* A step that writes the records and leaves the markers alone. *)
LEMMA MainChanges ==
  ASSUME IInv, NEW o \in Owner, call[o].pc # "idle", foreign = {}, NEW k \in CallRec, Moves(o, k),
         UNCHANGED <<provider, txt, row, crashes, foreign, raced>>,
         main' \in SUBSET Record, IsFiniteSet(main'), Sequential => Single(main'),
         k.main \in SUBSET call[o].main, k.txt \in {{}, call[o].txt},
         faults' = faults \/ Fault, halfGone' \in BOOLEAN, halfGone => halfGone',
         k.op = "delete" /\ k.pc \in {"main", "delete", "unmark"} => \E m \in k.txt : m.val = o,
         CallInv(o)', ensured' \subseteq ensured \cup {o},
         provider = "cloudflare" /\ o \in ensured' => o \in Values(txt),
         CloudDNS => (o \in ensured' => o \in Values(txt)) /\ (ensured' # {} => main' # {}),
         EnsuredIsExclusive',
         Exclusive' /\ txt # {} => main' # {} \/ k.pc \in {"delete", "unmark"}
  PROVE  IInv'
<1>1. /\ TypeOK /\ Finite /\ CallInv(o) /\ o \in InFlight /\ row \subseteq Owner
      /\ raced \in BOOLEAN /\ txt \in SUBSET Marker /\ ensured \subseteq Owner
      /\ faults' \in 0..MaxFaults /\ crashes' \in 0..MaxCrashes
  BY Working, Counted DEF TypeOK
<1>2. IsFiniteSet(k.main) /\ IsFiniteSet(k.txt) /\ IsFiniteSet(txt)
  <2>1. IsFiniteSet(call[o].main) /\ IsFiniteSet(call[o].txt) /\ IsFiniteSet(txt) /\ IsFiniteSet({})
    BY <1>1, FS_EmptySet DEF Finite
  <2> QED
    BY <2>1, FS_Subset
<1>3. ForeignIsUntouched'
  BY DEF ForeignIsUntouched
<1>4. IdsOK'
  <2>1. \A m \in MarkersKnown' : m \in MarkersKnown
    BY DEF MarkersKnown, Moves
  <2> QED
    BY <2>1 DEF IInv, IdsOK
<1>5. (Sequential' <=> Sequential) /\ (CloudDNS' <=> CloudDNS) /\ (Exclusive' => Exclusive)
      /\ Values(txt)' = Values(txt)
  BY DEF Sequential, CloudDNS, Exclusive, Values
<1>6. MarkersAreKept'
  <2>1. provider = "cloudflare" \/ CloudDNS => ensured \subseteq Values(txt)
    BY DEF IInv, MarkersAreKept, CloudDNS, Sequential
  <2>2. provider = "cloudflare" \/ CloudDNS => ensured' \subseteq Values(txt)
    BY <2>1
  <2> QED
    BY <1>5, <2>2 DEF MarkersAreKept, CloudDNS, Sequential
<1>7. CloudDNSOK'
  BY <1>5 DEF IInv, CloudDNSOK
<1>8. ExclusiveOK'
  <2> SUFFICES ASSUME Exclusive'
               PROVE  /\ Single(txt)
                      /\ txt # {} => main' # {} \/ \E p \in Owner : call'[p].pc \in {"delete", "unmark"}
    BY DEF ExclusiveOK, Single
  <2>1. Single(txt)
    BY <1>5 DEF IInv, ExclusiveOK
  <2> QED
    BY <2>1 DEF Moves
<1>9. Sequential' => Single(main')
  BY <1>5
<1>10. ensured' \subseteq Owner /\ row' \subseteq Owner /\ raced' \in BOOLEAN /\ (raced => raced') /\ txt' = txt
       /\ Values(txt') = Values(txt)
  BY <1>1 DEF Values
<1> QED
  BY <1>1, <1>2, <1>3, <1>4, <1>6, <1>7, <1>8, <1>9, <1>10, Assemble

LEMMA WriteMainStep == ASSUME IInv, NEW o \in Owner, WriteMain(o) PROVE IInv'
<1>1. call[o].pc = "write" /\ UNCHANGED <<provider, txt, row, crashes>>
  BY DEF WriteMain
<1>2. /\ TypeOK /\ Finite /\ CallInv(o) /\ o \in InFlight /\ halfGone \in BOOLEAN
      /\ call[o].main \in SUBSET Record /\ call[o].txt \in SUBSET Marker
  BY <1>1, Working
<1>3. CASE Error(o) /\ UNCHANGED <<main, faults>>
  BY <1>1, <1>3, Errors
<1>4. CASE /\ ~Unmanaged(o) /\ main' \in EnsuredMain(o)
           /\ \/ /\ IF Owned(o) THEN Ensured(o)
                    ELSE /\ Goto(o, IF provider = "cloudflare" THEN "recheck" ELSE "mark")
                         /\ UNCHANGED history
                 /\ UNCHANGED faults
              \/ Fault /\ Error(o)
  <2>1. foreign = {} /\ call[o].op = "ensure" /\ (~Owned(o) => call[o].main = {})
    BY <1>1, <1>2, <1>4, ValueSets DEF CallInv, Refused, Shape, Unmanaged, Owned
  <2>2. /\ main' \in SUBSET Record /\ IsFiniteSet(main')
        /\ Sequential => Single(main') /\ Values(main') = {Target} /\ main' # {}
    BY <1>1, <1>4, EnsuredMainFacts, ValueSets
  <2>3. (provider = "cloudflare" \/ Sequential) /\ Owned(o) => o \in Values(txt)
    BY <1>1, <1>2, <2>1 DEF CallInv, StillOwned, Current, Owned
  <2>4. Sequential /\ ~Owned(o) => main = {}
    BY <1>1, <1>2, <2>1 DEF CallInv, Current
  <2>5. PICK k \in CallRec :
          /\ Moves(o, k) /\ UNCHANGED <<foreign, raced, halfGone>> /\ (faults' = faults \/ Fault)
          /\ k.op = "ensure" /\ k.main \in SUBSET call[o].main /\ k.txt \in {{}, call[o].txt}
          /\ \/ k.pc = "record" /\ Owned(o) /\ ensured' = ensured \cup {o}
             \/ /\ k.pc \in {"recheck", "mark"} /\ k.txt = call[o].txt /\ ~Owned(o) /\ ensured' = ensured
                /\ k.pc = "recheck" => provider = "cloudflare"
             \/ k.pc = "idle" /\ k = NoCall /\ ensured' = ensured
    <3>1. CASE Owned(o) /\ Ensured(o) /\ UNCHANGED faults
      <4>1. /\ Goto(o, "record") /\ "record" \in Pc
            /\ ensured' = ensured \cup {o} /\ UNCHANGED <<foreign, raced, halfGone>>
        BY <3>1 DEF Ensured, Pc
      <4>2. PICK k \in CallRec : /\ Moves(o, k) /\ k.pc = "record" /\ k.op = call[o].op
                                 /\ k.main = call[o].main /\ k.txt = call[o].txt
        BY <1>2, <4>1, Jumps
      <4> QED
        BY <2>1, <3>1, <4>1, <4>2
    <3>2. CASE /\ ~Owned(o) /\ Goto(o, IF provider = "cloudflare" THEN "recheck" ELSE "mark")
               /\ UNCHANGED history /\ UNCHANGED faults
      <4>1. PICK p \in {"recheck", "mark"} : Goto(o, p) /\ (p = "recheck" => provider = "cloudflare")
        BY <3>2
      <4>2. PICK k \in CallRec : /\ Moves(o, k) /\ k.pc = p /\ k.op = call[o].op
                                 /\ k.main = call[o].main /\ k.txt = call[o].txt
        <5>1. p \in Pc
          BY <4>1 DEF Pc
        <5> QED
          BY <1>2, <4>1, <5>1, Jumps
      <4>3. UNCHANGED <<foreign, ensured, raced, halfGone>>
        BY <3>2 DEF history
      <4> QED
        BY <2>1, <3>2, <4>1, <4>2, <4>3
    <3>3. CASE Fault /\ Error(o)
      <4>1. Moves(o, NoCall) /\ NoCall \in CallRec
        BY <1>2, <3>3, Ends DEF Error
      <4>2. UNCHANGED <<foreign, ensured, raced>> /\ halfGone' = halfGone
        BY <1>1, <1>2, <3>3 DEF Error
      <4> QED
        BY <3>3, <4>1, <4>2, NoCallRec
    <3> QED
      BY <1>4, <3>1, <3>2, <3>3
  <2>6. Exclusive /\ ~Owned(o) => txt = {}
    <3>1. \A p \in Owner : Sequential => call[p].pc \notin {"delete", "unmark"}
      BY <1>1, <1>2 DEF IInv, OneCall, InFlight
    <3> QED
      BY <2>4, <3>1 DEF IInv, ExclusiveOK, Exclusive
  <2>7. CloudDNS /\ ~Owned(o) => ensured = {}
    BY <2>4 DEF IInv, CloudDNSOK, CloudDNS
  <2>8. CallInv(o)'
    <3>1. CASE k = NoCall
      BY <2>5, <3>1, IdleInv DEF Moves
    <3>2. CASE k.pc \in {"record", "recheck", "mark"}
      <4>1. call'[o] = k /\ Values(txt)' = Values(txt) /\ Values(main)' = Values(main')
        BY <1>1, <2>5 DEF Moves, Values
      <4>2. Owned(o)' => Owned(o)
        BY <2>5, <4>1, ValueSets DEF Owned
      <4>3. Shape(o)'
        BY <1>1, <2>5, <3>2, <4>1, <4>2 DEF Shape
      <4>4. Refused(o)'
        BY <2>1, <2>5 DEF Refused
      <4>5. StillOwned(o)'
        BY <1>1, <2>3, <4>1, <4>2 DEF StillOwned
      <4>6. Current(o)'
        BY <1>1, <1>2, <2>5, <3>2, <4>1 DEF CallInv, Current, Sequential
      <4>7. Marking(o)'
        <5>1. (CloudDNS' <=> CloudDNS) /\ (Exclusive' <=> Exclusive) /\ (CloudDNS \/ Exclusive => Sequential)
          BY <1>1, <2>5 DEF CloudDNS, Exclusive, Sequential
        <5>2. k.pc \in {"recheck", "mark"} => ~Owned(o) /\ ensured' = ensured
          BY <2>5
        <5> QED
          BY <1>1, <2>2, <2>6, <2>7, <4>1, <5>1, <5>2 DEF Marking
      <4> QED
        BY <4>3, <4>4, <4>5, <4>6, <4>7 DEF CallInv
    <3> QED
      BY <2>5, <3>1, <3>2
  <2>9. EnsuredIsExclusive'
    <3> SUFFICES ASSUME Exclusive, NEW p \in ensured'
                 PROVE  Values(main') = {Target} /\ Values(txt') = {p}
      BY <1>1, <2>5 DEF EnsuredIsExclusive, Exclusive, Sequential
    <3>1. Values(main') = {Target} /\ Sequential /\ txt' = txt
      BY <1>1, <2>2 DEF Exclusive
    <3>2. CASE p \in ensured
      BY <3>1, <3>2 DEF IInv, EnsuredIsExclusive, Exclusive, Sequential
    <3>3. CASE p = o /\ Owned(o)
      <4>1. o \in Values(txt) /\ Single(txt)
        BY <2>3, <3>1, <3>3 DEF IInv, ExclusiveOK
      <4> QED
        BY <3>1, <3>3, <4>1, ValueSets
    <3> QED
      BY <2>5, <3>2, <3>3
  <2>10. Exclusive' => main' # {}
    BY <2>2, <2>5 DEF Exclusive, Sequential
  <2>11. /\ ensured' \subseteq ensured \cup {o}
         /\ (provider = "cloudflare" \/ Sequential) /\ o \in ensured' => o \in ensured \/ o \in Values(txt)
    BY <2>3, <2>5
  <2>12. (provider = "cloudflare" \/ CloudDNS) /\ o \in ensured' => o \in Values(txt)
    BY <2>11 DEF IInv, MarkersAreKept, CloudDNS, Sequential
  <2>13. CloudDNS => main' # {}
    BY <2>2 DEF CloudDNS
  <2>14. halfGone' \in BOOLEAN /\ (halfGone => halfGone')
    BY <1>2, <2>5
  <2> QED
    BY <1>1, <2>1, <2>2, <2>5, <2>8, <2>9, <2>10, <2>11, <2>12, <2>13, <2>14, MainChanges
<1> QED
  BY <1>3, <1>4 DEF WriteMain

(* The branch that deletes owns the name, and alone if calls did not overlap. *)
LEMMA Deleting ==
  ASSUME IInv, NEW o \in Owner, call[o].pc \in {"delete", "unmark"}
  PROVE  /\ foreign = {} /\ call[o].op = "delete" /\ o \notin ensured
         /\ \E m \in call[o].txt : m.val = o
         /\ Sequential => call[o].txt = txt
         /\ Exclusive => ensured = {}
         /\ CloudDNS => ensured = {}
<1>1. TypeOK /\ CallInv(o)
  BY DEF IInv
<1>2. foreign = {} /\ call[o].op = "delete" /\ o \notin ensured /\ (Sequential => call[o].txt = txt)
  BY <1>1 DEF CallInv, Refused, Shape, Current
<1>3. \E m \in call[o].txt : m.val = o
  BY <1>1, <1>2 DEF TypeOK
<1>4. Sequential => o \in Values(txt)
  BY <1>2, <1>3 DEF Values
<1>5. Exclusive => ensured = {}
  <2> SUFFICES ASSUME Exclusive, NEW p \in ensured PROVE FALSE
    OBVIOUS
  <2>1. Values(txt) = {p}
    BY DEF IInv, EnsuredIsExclusive, Exclusive, Sequential
  <2> QED
    BY <1>2, <1>4, <2>1 DEF Exclusive
<1>6. CloudDNS => ensured = {}
  <2> SUFFICES ASSUME CloudDNS, NEW p \in ensured PROVE FALSE
    OBVIOUS
  <2>1. p \in Values(txt) /\ p \in Owner
    BY <1>1 DEF IInv, MarkersAreKept, CloudDNS, Sequential, TypeOK
  <2>2. p = o
    BY <1>4, <2>1 DEF IInv, CloudDNSOK, CloudDNS
  <2> QED
    BY <1>2, <2>2
<1> QED
  BY <1>2, <1>3, <1>5, <1>6

(* A request of DeleteRecord for the records was answered, or its answer lost. *)
LEMMA MainDeleted ==
  ASSUME IInv, NEW o \in Owner, call[o].pc = "delete",
         UNCHANGED <<provider, txt, row, crashes>>,
         main' \in SUBSET Record, IsFiniteSet(main'), Sequential => Single(main'),
         \/ Fault /\ Error(o)
         \/ /\ UNCHANGED <<faults, foreign, ensured, raced, halfGone>>
            /\ \E k \in CallRec :
                 /\ Moves(o, k) /\ k.pc \in {"delete", "unmark"} /\ k.op = call[o].op
                 /\ k.main \in SUBSET call[o].main /\ k.txt = call[o].txt
                 /\ k.pc = "delete" /\ Sequential => k.main = main'
  PROVE  IInv'
<1>1. /\ foreign = {} /\ call[o].op = "delete" /\ o \notin ensured
      /\ \E m \in call[o].txt : m.val = o
      /\ Sequential => call[o].txt = txt
      /\ Exclusive => ensured = {}
      /\ CloudDNS => ensured = {}
  BY Deleting
<1>2. TypeOK /\ CallInv(o) /\ raced \in BOOLEAN /\ halfGone \in BOOLEAN
  BY Working
<1>3. CASE Fault /\ Error(o)
  <2>1. Moves(o, NoCall) /\ NoCall \in CallRec /\ call'[o] = NoCall
    BY <1>2, <1>3, Ends DEF Error
  <2>2. UNCHANGED <<foreign, ensured, raced>> /\ halfGone' = TRUE
    BY <1>2, <1>3 DEF Error
  <2>3. CallInv(o)'
    BY <2>1, IdleInv
  <2>4. EnsuredIsExclusive' /\ ~Exclusive'
    BY <2>2 DEF EnsuredIsExclusive, Exclusive
  <2>5. PICK k \in CallRec : Moves(o, k) /\ k.main = {} /\ k.txt = {} /\ k.op = "ensure"
    BY <2>1, NoCallRec
  <2>6. halfGone' \in BOOLEAN /\ (halfGone => halfGone')
    BY <2>2
  <2> QED
    BY <1>1, <1>3, <2>2, <2>3, <2>4, <2>5, <2>6, MainChanges
<1>4. ASSUME UNCHANGED <<faults, foreign, ensured, raced, halfGone>>, NEW k \in CallRec,
             Moves(o, k), k.pc \in {"delete", "unmark"}, k.op = call[o].op,
             k.main \in SUBSET call[o].main, k.txt = call[o].txt,
             k.pc = "delete" /\ Sequential => k.main = main'
      PROVE  IInv'
  <2>1. EnsuredIsExclusive'
    BY <1>1, <1>4 DEF EnsuredIsExclusive, Exclusive, Sequential
  <2>2. CallInv(o)'
    <3>1. call'[o] = k
      BY <1>4 DEF Moves
    <3>2. Shape(o)' /\ StillOwned(o)' /\ Refused(o)'
      BY <1>1, <1>4, <3>1 DEF Shape, StillOwned, Refused
    <3>3. Current(o)' /\ Marking(o)'
      BY <1>1, <1>4, <3>1 DEF Current, Marking, Sequential
    <3> QED
      BY <3>2, <3>3 DEF CallInv
  <2>3. halfGone' \in BOOLEAN /\ (halfGone => halfGone')
    BY <1>2, <1>4
  <2> QED
    BY <1>1, <1>4, <2>1, <2>2, <2>3, MainChanges
<1> QED
  BY <1>3, <1>4

LEMMA DeleteEachStep == ASSUME IInv, NEW o \in Owner, DeleteEach(o) PROVE IInv'
<1>1. call[o].pc = "delete" /\ UNCHANGED <<provider, txt, row, crashes>>
  BY DEF DeleteEach
<1>2. /\ TypeOK /\ Finite /\ CallInv(o) /\ main \in SUBSET Record /\ IsFiniteSet(main)
      /\ call[o].main \in SUBSET Record /\ call[o].txt \in SUBSET Marker
      /\ Sequential => call[o].main = main /\ Single(main)
  BY <1>1, Working DEF Finite, CallInv, Current, IInv
<1>3. CASE Goto(o, "unmark") /\ UNCHANGED <<main, faults, history>>
  <2>1. UNCHANGED <<faults, foreign, ensured, raced, halfGone>> /\ Goto(o, "unmark") /\ "unmark" \in Pc
    BY <1>3 DEF history, Pc
  <2>2. PICK k \in CallRec : /\ Moves(o, k) /\ k.pc = "unmark" /\ k.op = call[o].op
                             /\ k.main = call[o].main /\ k.txt = call[o].txt
    BY <1>2, <2>1, Jumps
  <2> QED
    BY <1>1, <1>2, <1>3, <2>1, <2>2, MainDeleted
<1>4. CASE Error(o) /\ UNCHANGED <<main, faults>>
  BY <1>1, <1>4, Errors
<1>5. ASSUME NEW r \in Doomed(o), Present(main, r.id), main' = {x \in main : x.id # r.id},
             \/ call' = [call EXCEPT ![o].main = @ \ {r}] /\ UNCHANGED <<faults, history>>
             \/ Fault /\ Error(o)
      PROVE  IInv'
  <2>1. main' \in SUBSET main /\ r \in call[o].main
    BY <1>5 DEF Doomed
  <2>2. IsFiniteSet(main') /\ main' \in SUBSET Record
    BY <1>2, <2>1, FS_Subset
  <2>3. Sequential => main' = {} /\ call[o].main \ {r} = {} /\ Single(main')
    BY <1>2, <1>5, <2>1 DEF Single
  <2>4. CASE Fault /\ Error(o)
    BY <1>1, <2>2, <2>3, <2>4, MainDeleted
  <2>5. CASE call' = [call EXCEPT ![o].main = @ \ {r}] /\ UNCHANGED <<faults, history>>
    <3>1. PICK M \in SUBSET Record : M = call[o].main \ {r}
      BY <1>2
    <3>2. Drops(o, M) /\ "delete" \in Pc /\ UNCHANGED <<faults, foreign, ensured, raced, halfGone>>
      BY <1>2, <2>5, <3>1, Typed DEF Drops, history, Pc
    <3>3. PICK k \in CallRec : /\ Moves(o, k) /\ k.pc = "delete" /\ k.op = call[o].op
                               /\ k.main = M /\ k.txt = call[o].txt
      BY <1>1, <1>2, <3>2, Becomes
    <3> QED
      BY <1>1, <2>2, <2>3, <3>1, <3>2, <3>3, MainDeleted
  <2> QED
    BY <1>5, <2>4, <2>5
<1> QED
  BY <1>3, <1>4, <1>5 DEF DeleteEach

LEMMA DeleteSetStep == ASSUME IInv, NEW o \in Owner, DeleteSet(o) PROVE IInv'
<1>1. call[o].pc = "delete" /\ provider \notin PerRecord /\ UNCHANGED <<provider, txt, row, crashes>>
  BY DEF DeleteSet
<1>2. /\ TypeOK /\ main \in SUBSET Record /\ IsFiniteSet(main)
      /\ call[o].main \in SUBSET Record /\ IsFiniteSet(call[o].main)
      /\ Sequential => call[o].main = main /\ Single(main)
      /\ provider \in {"route53", "googlecloud"}
  BY <1>1, Working, Typed DEF Finite, CallInv, Current, IInv, PerRecord
<1>3. CASE Error(o) /\ UNCHANGED <<main, faults>>
  BY <1>1, <1>3, Errors
<1>4. CASE /\ main' \in Shrunk(o)
           /\ \/ Goto(o, "unmark") /\ UNCHANGED <<faults, history>>
              \/ Fault /\ Error(o)
  <2> DEFINE rest == Values(call[o].main) \ {Target}
  <2>1. main' \in {{}, main, Set(rest)}
    <3>1. CASE provider = "route53"
      BY <3>1, <1>4 DEF Shrunk
    <3>2. CASE provider = "googlecloud"
      BY <3>2, <1>4 DEF Shrunk
    <3> QED
      BY <1>2, <3>1, <3>2
  <2>2. Set(rest) \in SUBSET Record /\ IsFiniteSet(Set(rest)) /\ (Sequential => Single(Set(rest)))
    <3>1. rest \subseteq {Target, "other"} /\ rest \subseteq Values(call[o].main)
      BY <1>2 DEF Values, Record
    <3>2. Set(rest) \in SUBSET Record
      BY <3>1 DEF Set, Record
    <3>3. IsFiniteSet(rest)
      BY <1>2, <3>1, FiniteParts, FS_Subset
    <3>4. Sequential => \A v, w \in rest : v = w
      BY <1>2, <3>1, ValueSets
    <3> HIDE DEF rest
    <3> QED
      BY <3>2, <3>3, <3>4, FiniteParts, ValueSets
  <2>3. IsFiniteSet({}) /\ Single({})
    BY FS_EmptySet DEF Single
  <2>4. main' \in SUBSET Record /\ IsFiniteSet(main') /\ (Sequential => Single(main'))
    <3> HIDE DEF rest
    <3> QED
      BY <1>2, <2>1, <2>2, <2>3
  <2>5. CASE Fault /\ Error(o)
    BY <1>1, <2>4, <2>5, MainDeleted
  <2>6. CASE Goto(o, "unmark") /\ UNCHANGED <<faults, history>>
    <3>1. UNCHANGED <<faults, foreign, ensured, raced, halfGone>> /\ Goto(o, "unmark") /\ "unmark" \in Pc
      BY <2>6 DEF history, Pc
    <3>2. PICK k \in CallRec : /\ Moves(o, k) /\ k.pc = "unmark" /\ k.op = call[o].op
                               /\ k.main = call[o].main /\ k.txt = call[o].txt
      BY <1>2, <3>1, Jumps
    <3> QED
      BY <1>1, <2>4, <3>1, <3>2, MainDeleted
  <2> QED
    BY <1>4, <2>5, <2>6
<1> QED
  BY <1>3, <1>4 DEF DeleteSet

-----------------------------------------------------------------------------
(* A marker that is quoted again is nobody's. *)
LEMMA RequoteFacts ==
  ASSUME NEW vals \in SUBSET (Owner \cup Requoted)
  PROVE  requote(vals) \in SUBSET Requoted /\ requote(vals) \cap Owner = {}
<1>1. \A v \in Owner : <<v, "requoted">> \in Requoted
  BY DEF Requoted
<1>2. requote(vals) \in SUBSET Requoted
  BY <1>1 DEF requote
<1> QED
  BY <1>2, DNSAssumption

(* A step that writes the markers and leaves the records alone. *)
LEMMA MarkersChange ==
  ASSUME IInv, NEW o \in Owner, call[o].pc # "idle", foreign = {}, NEW k \in CallRec, Moves(o, k),
         UNCHANGED <<provider, main, row, crashes, foreign, raced>>,
         txt' \in SUBSET Marker, IsFiniteSet(txt'),
         k.main \in {{}, call[o].main}, k.txt \in {{}, call[o].txt},
         faults' = faults \/ Fault, halfGone' \in BOOLEAN, halfGone => halfGone',
         k.op = "delete" /\ k.pc \in {"main", "delete", "unmark"} => \E m \in k.txt : m.val = o,
         CallInv(o)', ensured' \subseteq ensured \cup {o},
         provider = "cloudflare" => \A p \in Owner : p # o /\ p \in Values(txt) => p \in Values(txt'),
         (provider = "cloudflare" \/ CloudDNS) /\ o \in ensured' => o \in Values(txt'),
         provider = "cloudflare" =>
           \A m \in txt' : m \in txt \/ \A n \in MarkersKnown : n.id # m.id,
         provider = "cloudflare" => \A m, n \in txt' : m.id = n.id => m = n,
         CloudDNS => /\ ensured' \subseteq {o} /\ Values(txt') \cap Owner \subseteq {o}
                     /\ ensured' # {} => main # {},
         EnsuredIsExclusive',
         Exclusive' => Single(txt') /\ (txt' # {} => main # {})
  PROVE  IInv'
<1>1. /\ TypeOK /\ Finite /\ CallInv(o) /\ o \in InFlight /\ row \subseteq Owner
      /\ raced \in BOOLEAN /\ main \in SUBSET Record /\ ensured \subseteq Owner
      /\ faults' \in 0..MaxFaults /\ crashes' \in 0..MaxCrashes
  BY Working, Counted DEF TypeOK
<1>2. IsFiniteSet(k.main) /\ IsFiniteSet(k.txt) /\ IsFiniteSet(main)
  BY <1>1, FS_EmptySet DEF Finite
<1>3. ForeignIsUntouched'
  BY DEF ForeignIsUntouched
<1>4. IdsOK'
  <2> SUFFICES ASSUME provider = "cloudflare", NEW m \in MarkersKnown', NEW n \in MarkersKnown', m.id = n.id
               PROVE  m = n
    BY DEF IdsOK
  <2>1. txt \subseteq MarkersKnown
    BY DEF MarkersKnown
  <2>2. \A x \in MarkersKnown' : x \in txt' \/ x \in MarkersKnown
    BY DEF MarkersKnown, Moves
  <2>3. \A x \in txt' : x \in MarkersKnown \/ \A y \in MarkersKnown : y.id # x.id
    BY <2>1
  <2>4. \A x, y \in MarkersKnown : x.id = y.id => x = y
    BY DEF IInv, IdsOK
  <2> QED
    BY <2>2, <2>3, <2>4
<1>5. (Sequential' <=> Sequential) /\ (CloudDNS' <=> CloudDNS) /\ (Exclusive' => Exclusive)
      /\ Values(txt)' = Values(txt')
  BY DEF Sequential, CloudDNS, Exclusive, Values
<1>6. MarkersAreKept'
  <2>1. provider = "cloudflare" => ensured \subseteq Values(txt)
    BY DEF IInv, MarkersAreKept
  <2>2. provider = "cloudflare" \/ CloudDNS => ensured' \subseteq Values(txt')
    BY <1>1, <2>1
  <2> QED
    BY <1>5, <2>2 DEF MarkersAreKept, CloudDNS, Sequential
<1>7. CloudDNSOK'
  <2>1. CloudDNS => \A p, q \in Owner : p \in Values(txt') /\ q \in Values(txt') => p = q
    OBVIOUS
  <2> QED
    BY <1>5, <2>1 DEF CloudDNSOK
<1>8. ExclusiveOK'
  BY DEF ExclusiveOK, Single
<1>9. Sequential' => Single(main')
  BY <1>5 DEF IInv
<1>10. ensured' \subseteq Owner /\ row' \subseteq Owner /\ raced' \in BOOLEAN /\ (raced => raced') /\ main' = main
  BY <1>1
<1> QED
  BY <1>1, <1>2, <1>3, <1>4, <1>6, <1>7, <1>8, <1>9, <1>10, Assemble

LEMMA MarkedFacts ==
  ASSUME IInv, NEW o \in Owner, call[o].pc = "mark", txt' \in Marked(o)
  PROVE  /\ txt' \in SUBSET Marker /\ IsFiniteSet(txt') /\ o \in Values(txt')
         /\ provider = "cloudflare" =>
              /\ txt \in SUBSET txt'
              /\ \A m \in txt' : m \in txt \/ \A n \in MarkersKnown : n.id # m.id
              /\ \A m, n \in txt' : m.id = n.id => m = n
         /\ CloudDNS => Values(txt') \cap Owner \subseteq {o}
         /\ Exclusive => Values(txt') = {o} /\ Single(txt')
<1>1. /\ TypeOK /\ Finite /\ CallInv(o) /\ txt \in SUBSET Marker /\ call[o].txt \in SUBSET Marker
      /\ IsFiniteSet(txt) /\ IsFiniteSet(call[o].txt)
      /\ provider \in {"cloudflare", "digitalocean", "route53", "googlecloud"}
  BY Working, Typed DEF Finite
<1>2. Exclusive => txt = {} /\ call[o].txt = {}
  BY <1>1 DEF CallInv, Marking, Current, Exclusive
<1>3. Values(txt) \in SUBSET (Owner \cup Requoted) /\ Values(call[o].txt) \in SUBSET (Owner \cup Requoted)
  BY <1>1 DEF Values, Marker
<1>4. \A vals \in SUBSET (Owner \cup Requoted) : Set(vals) \in SUBSET Marker
  BY DEF Set, Marker
<1>5. CASE provider \in PerRecord
  <2>1. PICK new \in Marker : new = [id |-> NewId, val |-> o]
    BY <1>1, Fresh DEF Marker
  <2>2. txt' = txt \cup {new}
    BY <1>5, <2>1 DEF Marked, Add, PerRecord
  <2>3. IsFiniteSet(txt')
    BY <1>1, <2>2, FS_AddElement
  <2>4. \A n \in MarkersKnown : n.id # new.id
    BY <1>1, <2>1, Fresh DEF MarkersKnown
  <2>5. txt \subseteq MarkersKnown
    BY DEF MarkersKnown
  <2>6. \A m, n \in txt : provider = "cloudflare" /\ m.id = n.id => m = n
    BY <2>5 DEF IInv, IdsOK
  <2>7. o \in Values(txt')
    BY <2>1, <2>2 DEF Values
  <2>8. ~CloudDNS
    BY <1>5 DEF CloudDNS, PerRecord
  <2>9. Exclusive => Values(txt') = {o} /\ Single(txt')
    BY <1>2, <2>1, <2>2 DEF Values, Single
  <2> QED
    BY <1>1, <2>1, <2>2, <2>3, <2>4, <2>5, <2>6, <2>7, <2>8, <2>9
<1>6. CASE provider = "route53"
  <2>1. PICK vals \in SUBSET (Owner \cup Requoted) : vals = Values(call[o].txt) \cup {o}
    BY <1>3
  <2>2. txt' = Set(vals)
    BY <1>6, <2>1 DEF Marked, PerRecord
  <2>3. IsFiniteSet(vals)
    BY <1>1, <2>1, FiniteParts, FS_AddElement
  <2>4. Exclusive => vals = {o}
    BY <1>2, <2>1, ValueSets
  <2>5. provider # "cloudflare" /\ ~CloudDNS
    BY <1>6 DEF CloudDNS
  <2> QED
    BY <1>4, <2>1, <2>2, <2>3, <2>4, <2>5, FiniteParts, ValueSets
<1>7. CASE provider = "googlecloud"
  <2>1. requote(Values(txt)) \in SUBSET Requoted /\ requote(Values(txt)) \cap Owner = {}
    BY <1>3, RequoteFacts
  <2>2. PICK vals \in SUBSET (Owner \cup Requoted) : vals = requote(Values(txt)) \cup {o}
    BY <2>1
  <2>3. txt' = Set(vals)
    BY <1>7, <2>2 DEF Marked, PerRecord
  <2>4. IsFiniteSet(vals)
    BY <1>1, <2>2, FiniteParts, FS_AddElement
  <2>5. Exclusive => vals = {o}
    <3>1. txt = {} => Values(txt) = {}
      BY ValueSets
    <3>2. requote({}) = {}
      BY DEF requote
    <3> QED
      BY <1>2, <2>2, <3>1, <3>2
  <2>6. provider # "cloudflare" /\ vals \cap Owner \subseteq {o}
    BY <1>7, <2>1, <2>2
  <2> QED
    BY <1>4, <2>2, <2>3, <2>4, <2>5, <2>6, FiniteParts, ValueSets
<1> QED
  BY <1>1, <1>5, <1>6, <1>7 DEF PerRecord

LEMMA MarkStep == ASSUME IInv, NEW o \in Owner, Mark(o) PROVE IInv'
<1>1. call[o].pc = "mark" /\ UNCHANGED <<provider, main, row, crashes>>
  BY DEF Mark
<1>2. TypeOK /\ CallInv(o) /\ halfGone \in BOOLEAN
  BY <1>1, Working
<1>3. CASE Error(o) /\ UNCHANGED <<txt, faults>>
  BY <1>1, <1>3, Errors
<1>4. CASE /\ txt' \in Marked(o)
           /\ \/ Ensured(o) /\ UNCHANGED faults
              \/ Fault /\ Error(o)
  <2>1. foreign = {} /\ call[o].op = "ensure" /\ ~Owned(o)
    BY <1>1, <1>2 DEF CallInv, Refused, Shape
  <2>2. /\ txt' \in SUBSET Marker /\ IsFiniteSet(txt') /\ o \in Values(txt')
        /\ provider = "cloudflare" =>
             /\ txt \in SUBSET txt'
             /\ \A m \in txt' : m \in txt \/ \A n \in MarkersKnown : n.id # m.id
             /\ \A m, n \in txt' : m.id = n.id => m = n
        /\ CloudDNS => Values(txt') \cap Owner \subseteq {o}
        /\ Exclusive => Values(txt') = {o} /\ Single(txt')
    BY <1>1, <1>4, MarkedFacts
  <2>3. /\ CloudDNS => ensured = {} /\ main # {}
        /\ Exclusive => ensured = {} /\ main # {} /\ Values(main) = {Target}
    <3>1. (CloudDNS => ensured = {} /\ main # {}) /\ (Exclusive => txt = {} /\ Values(main) = {Target})
      BY <1>1, <1>2 DEF CallInv, Marking
    <3>2. ASSUME Exclusive, NEW p \in ensured PROVE FALSE
      <4>1. Values(txt) = {p} /\ txt = {}
        BY <3>1, <3>2 DEF IInv, EnsuredIsExclusive, Exclusive, Sequential
      <4> QED
        BY <4>1, ValueSets
    <3> QED
      BY <3>1, <3>2, ValueSets
  <2>4. PICK k \in CallRec :
          /\ Moves(o, k) /\ UNCHANGED <<foreign, raced, halfGone>> /\ (faults' = faults \/ Fault)
          /\ k.op = "ensure" /\ k.main \in {{}, call[o].main} /\ k.txt \in {{}, call[o].txt}
          /\ k.pc \in {"record", "idle"} /\ (k.pc = "idle" => k = NoCall)
          /\ ensured' \in {ensured, ensured \cup {o}}
    <3>1. CASE Ensured(o) /\ UNCHANGED faults
      <4>1. /\ Goto(o, "record") /\ "record" \in Pc
            /\ ensured' = ensured \cup {o} /\ UNCHANGED <<foreign, raced, halfGone>>
        BY <3>1 DEF Ensured, Pc
      <4>2. PICK k \in CallRec : /\ Moves(o, k) /\ k.pc = "record" /\ k.op = call[o].op
                                 /\ k.main = call[o].main /\ k.txt = call[o].txt
        BY <1>2, <4>1, Jumps
      <4> QED
        BY <2>1, <3>1, <4>1, <4>2
    <3>2. CASE Fault /\ Error(o)
      <4>1. Moves(o, NoCall) /\ NoCall \in CallRec
        BY <1>2, <3>2, Ends DEF Error
      <4>2. UNCHANGED <<foreign, ensured, raced>> /\ halfGone' = halfGone
        BY <1>1, <1>2, <3>2 DEF Error
      <4> QED
        BY <3>2, <4>1, <4>2, NoCallRec
    <3> QED
      BY <1>4, <3>1, <3>2
  <2>5. CallInv(o)'
    <3>1. CASE k = NoCall
      BY <2>4, <3>1, IdleInv DEF Moves
    <3>2. CASE k.pc = "record"
      <4>1. call'[o] = k
        BY <2>4 DEF Moves
      <4>2. ~Owned(o)'
        BY <2>1, <2>4, <4>1, ValueSets DEF Owned
      <4>3. Shape(o)' /\ Refused(o)' /\ StillOwned(o)'
        BY <2>1, <2>4, <3>2, <4>1, <4>2 DEF Shape, Refused, StillOwned
      <4>4. Current(o)' /\ Marking(o)'
        BY <2>4, <3>2, <4>1 DEF Current, Marking
      <4> QED
        BY <4>3, <4>4 DEF CallInv
    <3> QED
      BY <2>4, <3>1, <3>2
  <2>6. (Exclusive' <=> Exclusive) /\ ensured' \subseteq ensured \cup {o}
    BY <1>1, <2>4 DEF Exclusive, Sequential
  <2>7. EnsuredIsExclusive'
    <3>1. ASSUME Exclusive, NEW p \in ensured' PROVE Values(main') = {Target} /\ Values(txt') = {p}
      BY <1>1, <2>2, <2>3, <2>6, <3>1
    <3> QED
      BY <2>6, <3>1 DEF EnsuredIsExclusive, Exclusive, Sequential
  <2>8. provider = "cloudflare" => \A p \in Owner : p # o /\ p \in Values(txt) => p \in Values(txt')
    BY <2>2 DEF Values
  <2>9. CloudDNS => ensured' \subseteq {o} /\ main # {}
    BY <2>3, <2>6
  <2>10. Exclusive' => Single(txt') /\ main # {}
    BY <2>2, <2>3, <2>6
  <2>11. halfGone' \in BOOLEAN /\ (halfGone => halfGone')
    BY <1>2, <2>4
  <2> QED
    <3>1. UNCHANGED <<provider, main, row, crashes, foreign, raced>> /\ call[o].pc # "idle"
      BY <1>1, <2>4
    <3>2. k.op # "delete"
      BY <2>4
    <3> QED
      BY <2>1, <2>2, <2>4, <2>5, <2>6, <2>7, <2>8, <2>9, <2>10, <2>11, <3>1, <3>2, MarkersChange
<1> QED
  BY <1>3, <1>4 DEF Mark

LEMMA UnmarkedFacts ==
  ASSUME IInv, NEW o \in Owner, call[o].pc = "unmark", txt' \in Unmarked(o)
  PROVE  /\ txt' \in SUBSET Marker /\ IsFiniteSet(txt')
         /\ provider = "cloudflare" =>
              /\ txt' \in SUBSET txt
              /\ \A p \in Owner : p # o /\ p \in Values(txt) => p \in Values(txt')
         /\ CloudDNS => Values(txt') \cap Owner = {}
         /\ Exclusive => txt' = {}
<1>1. /\ TypeOK /\ Finite /\ CallInv(o) /\ txt \in SUBSET Marker /\ call[o].txt \in SUBSET Marker
      /\ IsFiniteSet(txt) /\ IsFiniteSet(call[o].txt)
      /\ provider \in {"cloudflare", "digitalocean", "route53", "googlecloud"}
  BY Working, Typed DEF Finite
<1>2. /\ \E m \in call[o].txt : m.val = o
      /\ Sequential => call[o].txt = txt
  BY Deleting
<1>3. Exclusive => Single(txt) /\ call[o].txt = txt /\ Single(call[o].txt)
  BY <1>2 DEF IInv, ExclusiveOK, Exclusive
<1>4. PICK rest \in SUBSET (Owner \cup Requoted) : rest = Values(call[o].txt) \ {o}
  BY <1>1 DEF Values, Marker
<1>5. Exclusive => rest = {}
  <2>1. o \in Values(call[o].txt)
    BY <1>2 DEF Values
  <2> QED
    BY <1>3, <1>4, <2>1, ValueSets
<1>6. IsFiniteSet(rest)
  BY <1>1, <1>4, FiniteParts, FS_Subset
<1>7. \A vals \in SUBSET (Owner \cup Requoted) : Set(vals) \in SUBSET Marker
  BY DEF Set, Marker
<1>8. CASE provider \in PerRecord
  <2>1. PICK m \in call[o].txt : m.val = o /\ Present(txt, m.id) /\ txt' = {x \in txt : x.id # m.id}
    BY <1>8 DEF Unmarked, PerRecord
  <2>2. txt' \in SUBSET txt
    BY <2>1
  <2>3. IsFiniteSet(txt') /\ txt' \in SUBSET Marker
    BY <1>1, <2>2, FS_Subset
  <2>4. ASSUME provider = "cloudflare", NEW p \in Owner, p # o, p \in Values(txt) PROVE p \in Values(txt')
    <3>1. PICK n \in txt : n.val = p
      BY <2>4 DEF Values
    <3>2. n \in MarkersKnown /\ m \in MarkersKnown
      BY <2>1 DEF MarkersKnown
    <3>3. n.id # m.id
      BY <2>1, <2>4, <3>1, <3>2 DEF IInv, IdsOK
    <3> QED
      BY <2>1, <3>1, <3>3 DEF Values
  <2>5. ~CloudDNS
    BY <1>8 DEF CloudDNS, PerRecord
  <2>6. Exclusive => txt' = {}
    BY <1>3, <2>1 DEF Single
  <2> QED
    BY <2>2, <2>3, <2>4, <2>5, <2>6
<1>9. CASE provider = "route53"
  <2>1. txt' = Set(rest) \/ txt' = {}
    BY <1>4, <1>9 DEF Unmarked, PerRecord
  <2>2. Exclusive => txt' = {}
    BY <1>5, <2>1 DEF Set
  <2>3. provider # "cloudflare" /\ ~CloudDNS /\ IsFiniteSet({})
    BY <1>9, FS_EmptySet DEF CloudDNS
  <2> QED
    BY <1>4, <1>6, <1>7, <2>1, <2>2, <2>3, FiniteParts
<1>10. CASE provider = "googlecloud"
  <2>1. requote(rest) \in SUBSET Requoted /\ requote(rest) \cap Owner = {} /\ IsFiniteSet(requote(rest))
    BY <1>4, <1>6, RequoteFacts, FiniteParts
  <2>2. PICK vals \in SUBSET (Owner \cup Requoted) : vals = requote(rest)
    BY <2>1
  <2>3. txt' = Set(vals)
    BY <1>4, <1>10, <2>2 DEF Unmarked, PerRecord
  <2>4. Exclusive => txt' = {}
    BY <1>5, <2>2, <2>3 DEF Set, requote
  <2>5. provider # "cloudflare" /\ vals \cap Owner = {}
    BY <1>10, <2>1, <2>2
  <2> QED
    BY <1>7, <2>1, <2>2, <2>3, <2>4, <2>5, FiniteParts, ValueSets
<1> QED
  BY <1>1, <1>8, <1>9, <1>10 DEF PerRecord

LEMMA UnmarkStep == ASSUME IInv, NEW o \in Owner, Unmark(o) PROVE IInv'
<1>1. call[o].pc = "unmark" /\ UNCHANGED <<provider, main, row, crashes>>
  BY DEF Unmark
<1>2. TypeOK /\ CallInv(o) /\ halfGone \in BOOLEAN
  BY <1>1, Working
<1>3. CASE Error(o) /\ UNCHANGED <<txt, faults>>
  BY <1>1, <1>3, Errors
<1>4. CASE /\ txt' \in Unmarked(o)
           /\ \/ Goto(o, "forget") /\ UNCHANGED <<faults, history>>
              \/ Fault /\ Error(o)
  <2>1. /\ foreign = {} /\ call[o].op = "delete" /\ o \notin ensured
        /\ Exclusive => ensured = {}
        /\ CloudDNS => ensured = {}
    BY <1>1, Deleting
  <2>2. /\ txt' \in SUBSET Marker /\ IsFiniteSet(txt')
        /\ provider = "cloudflare" =>
             /\ txt' \in SUBSET txt
             /\ \A p \in Owner : p # o /\ p \in Values(txt) => p \in Values(txt')
        /\ CloudDNS => Values(txt') \cap Owner = {}
        /\ Exclusive => txt' = {}
    BY <1>1, <1>4, UnmarkedFacts
  <2>3. PICK k \in CallRec :
          /\ Moves(o, k) /\ UNCHANGED <<foreign, ensured, raced>> /\ (faults' = faults \/ Fault)
          /\ k.main \in {{}, call[o].main} /\ k.txt \in {{}, call[o].txt}
          /\ k.pc \in {"forget", "idle"} /\ (k.pc = "idle" => k = NoCall)
          /\ k.pc = "forget" => k.op = "delete"
          /\ halfGone' = halfGone \/ halfGone' = TRUE
    <3>1. CASE Goto(o, "forget") /\ UNCHANGED <<faults, history>>
      <4>1. Goto(o, "forget") /\ "forget" \in Pc /\ UNCHANGED <<faults, foreign, ensured, raced, halfGone>>
        BY <3>1 DEF history, Pc
      <4>2. PICK k \in CallRec : /\ Moves(o, k) /\ k.pc = "forget" /\ k.op = call[o].op
                                 /\ k.main = call[o].main /\ k.txt = call[o].txt
        BY <1>2, <4>1, Jumps
      <4> QED
        BY <2>1, <4>1, <4>2
    <3>2. CASE Fault /\ Error(o)
      <4>1. Moves(o, NoCall) /\ NoCall \in CallRec
        BY <1>2, <3>2, Ends DEF Error
      <4>2. UNCHANGED <<foreign, ensured, raced>> /\ halfGone' = TRUE
        BY <1>1, <1>2, <3>2 DEF Error
      <4> QED
        BY <3>2, <4>1, <4>2, NoCallRec
    <3> QED
      BY <1>4, <3>1, <3>2
  <2>4. CallInv(o)'
    <3>1. CASE k = NoCall
      BY <2>3, <3>1, IdleInv DEF Moves
    <3>2. CASE k.pc = "forget"
      <4>1. call'[o] = k
        BY <2>3 DEF Moves
      <4>2. Shape(o)' /\ Refused(o)' /\ StillOwned(o)'
        BY <2>1, <2>3, <3>2, <4>1 DEF Shape, Refused, StillOwned
      <4>3. Current(o)' /\ Marking(o)'
        BY <2>3, <3>2, <4>1 DEF Current, Marking
      <4> QED
        BY <4>2, <4>3 DEF CallInv
    <3> QED
      BY <2>3, <3>1, <3>2
  <2>5. halfGone' \in BOOLEAN /\ (halfGone => halfGone')
    <3>1. halfGone' = halfGone \/ halfGone' = TRUE
      BY <2>3
    <3> QED
      BY <1>2, <3>1
  <2>6. Exclusive' => Exclusive
    BY <1>1, <2>3, <2>5 DEF Exclusive, Sequential
  <2>7. EnsuredIsExclusive'
    BY <2>1, <2>3, <2>6 DEF EnsuredIsExclusive, Exclusive, Sequential
  <2>8. provider = "cloudflare" => \A m, n \in txt' : m.id = n.id => m = n
    <3>1. txt \subseteq MarkersKnown
      BY DEF MarkersKnown
    <3> QED
      BY <2>2, <3>1 DEF IInv, IdsOK
  <2>9. Exclusive' => Single(txt') /\ txt' = {}
    BY <2>2, <2>6 DEF Single
  <2>10. UNCHANGED <<provider, main, row, crashes, foreign, raced>> /\ call[o].pc # "idle"
         /\ k.pc \notin {"main", "delete", "unmark"} /\ o \notin ensured' /\ ensured' = ensured
    BY <1>1, <2>1, <2>3
  <2>11. provider = "cloudflare" => \A m \in txt' : m \in txt \/ \A n \in MarkersKnown : n.id # m.id
    BY <2>2
  <2>12. CloudDNS => /\ ensured' \subseteq {o} /\ Values(txt') \cap Owner \subseteq {o}
                     /\ ensured' # {} => main # {}
    BY <2>1, <2>2, <2>3
  <2> QED
    BY <2>1, <2>2, <2>3, <2>4, <2>5, <2>7, <2>8, <2>9, <2>10, <2>11, <2>12, MarkersChange
<1> QED
  BY <1>3, <1>4 DEF Unmark

-----------------------------------------------------------------------------
(* Steps after which no call is under way. *)
LEMMA AllIdle ==
  ASSUME IInv, call' = [o \in Owner |-> NoCall],
         UNCHANGED <<provider, txt, row, faults, ensured, raced>>,
         main' \in SUBSET Record, foreign' \in SUBSET Record, IsFiniteSet(main'),
         crashes' \in 0..MaxCrashes, halfGone' \in BOOLEAN, halfGone => halfGone',
         ForeignIsUntouched', Sequential => Single(main'),
         CloudDNS => (ensured # {} => main' # {}), EnsuredIsExclusive',
         Exclusive' => (txt # {} => main' # {})
  PROVE  IInv'
<1>1. TypeOK /\ Finite /\ raced \in BOOLEAN /\ faults \in 0..MaxFaults
  BY Typed, Counted DEF IInv
<1>2. \A o \in Owner : call'[o] = NoCall
  OBVIOUS
<1>3. call' \in [Owner -> CallRec] /\ InFlight' = {}
  BY <1>2, NoCallRec DEF InFlight
<1>4. TypeOK'
  <2>1. \A o \in Owner : call'[o].op # "delete"
    BY <1>2, NoCallRec
  <2>2. raced' \in BOOLEAN /\ halfGone' \in BOOLEAN
    BY <1>1
  <2> QED
    BY <1>1, <1>3, <2>1, <2>2 DEF TypeOK, CallRec
<1>5. Finite'
  BY <1>1, <1>2, NoCallRec DEF Finite
<1>6. \A o \in Owner : CallInv(o)'
  BY <1>2, IdleInv
<1>7. MarkersKnown' = txt
  BY <1>2, NoCallRec DEF MarkersKnown
<1>8. IdsOK' /\ OneCall'
  BY <1>3, <1>7 DEF IInv, IdsOK, MarkersKnown, OneCall
<1>9. (Sequential' <=> Sequential) /\ (CloudDNS' <=> CloudDNS) /\ (Exclusive' => Exclusive)
      /\ Values(txt)' = Values(txt)
  BY DEF Sequential, CloudDNS, Exclusive, Values
<1>10. MarkersAreKept' /\ CloudDNSOK'
  BY <1>9 DEF IInv, MarkersAreKept, CloudDNSOK, Sequential
<1>11. ExclusiveOK'
  <2>1. Exclusive' => Single(txt)
    BY <1>9 DEF IInv, ExclusiveOK
  <2> QED
    BY <2>1 DEF ExclusiveOK, Single
<1>12. Sequential' => Single(main)'
  BY <1>9 DEF Single
<1> QED
  BY <1>4, <1>5, <1>6, <1>8, <1>10, <1>11, <1>12 DEF IInv

LEMMA CrashStep == ASSUME IInv, Crash PROVE IInv'
<1>1. /\ UNCHANGED <<provider, main, txt, row, faults, foreign, ensured, raced>>
      /\ call' = [o \in Owner |-> NoCall]
  BY DEF Crash
<1>2. /\ TypeOK /\ Finite /\ main \in SUBSET Record /\ foreign \in SUBSET Record /\ IsFiniteSet(main)
      /\ halfGone \in BOOLEAN /\ crashes \in 0..MaxCrashes /\ MaxCrashes \in Nat
  BY Typed, Counted, DNSAssumption DEF IInv, TypeOK, Finite
<1>3. crashes' \in 0..MaxCrashes
  BY <1>2 DEF Crash
<1>4. halfGone' = (halfGone \/ \E o \in Owner : call[o].pc \in {"delete", "unmark"})
  BY DEF Crash
<1>5. halfGone' \in BOOLEAN /\ (halfGone => halfGone')
  BY <1>2, <1>4
<1>6. \A o \in Owner : call[o].pc \in {"delete", "unmark"} => halfGone'
  BY <1>4
<1>7. ForeignIsUntouched'
  BY <1>1 DEF IInv, ForeignIsUntouched
<1>8. EnsuredIsExclusive'
  BY <1>1, <1>5 DEF IInv, EnsuredIsExclusive, Values
<1>9. Exclusive' => (txt # {} => main' # {})
  BY <1>1, <1>5, <1>6 DEF IInv, ExclusiveOK, Exclusive, Sequential
<1>10. CloudDNS => (ensured # {} => main' # {})
  BY <1>1 DEF IInv, CloudDNSOK
<1>11. Sequential => Single(main')
  BY <1>1 DEF IInv
<1> QED
  BY <1>1, <1>2, <1>3, <1>5, <1>7, <1>8, <1>9, <1>10, <1>11, AllIdle

LEMMA OperatorSteps == ASSUME IInv, OperatorAdds \/ OperatorRemoves PROVE IInv'
<1>1. /\ TypeOK /\ Finite /\ main \in SUBSET Record /\ IsFiniteSet(main)
      /\ halfGone \in BOOLEAN /\ crashes \in 0..MaxCrashes
      /\ call \in [Owner -> CallRec]
  BY Typed, Counted DEF IInv, TypeOK, Finite
<1>2. /\ InFlight = {}
      /\ UNCHANGED <<provider, txt, row, call, faults, crashes, ensured, raced, halfGone>>
  BY DEF OperatorAdds, OperatorRemoves
<1>3. txt = {}
  BY DEF OperatorAdds, OperatorRemoves, IInv, ForeignIsUntouched
<1>4. call' = [o \in Owner |-> NoCall]
  <2>1. \A o \in Owner : call[o] = NoCall
    BY <1>2 DEF IInv, CallInv, Shape, InFlight
  <2> QED
    BY <1>1, <1>2, <2>1
<1>5. (Exclusive => ensured = {}) /\ (CloudDNS => ensured = {})
  <2>1. Values(txt) = {}
    BY <1>3, ValueSets
  <2>2. ASSUME Exclusive, NEW p \in ensured PROVE FALSE
    BY <2>1, <2>2 DEF IInv, EnsuredIsExclusive, Exclusive, Sequential
  <2>3. CloudDNS => ensured = {}
    BY <2>1 DEF IInv, MarkersAreKept, CloudDNS, Sequential
  <2> QED
    BY <2>2, <2>3
<1>6. main' \in SUBSET Record /\ IsFiniteSet(main') /\ Single(main')
  <2>1. CASE OperatorRemoves
    <3>1. main' = {}
      BY <2>1 DEF OperatorRemoves, IInv, ForeignIsUntouched
    <3> QED
      BY <3>1, FS_EmptySet DEF Single
  <2>2. ASSUME NEW v \in {Target, "other"}, main = {}, main' = Add(main, v)
        PROVE  main' \in SUBSET Record /\ IsFiniteSet(main') /\ Single(main')
    <3>1. PICK new \in Record : new = [id |-> NewId, val |-> v]
      BY <1>1, Fresh DEF Record
    <3>2. main' = {new}
      BY <2>2, <3>1 DEF Add
    <3> QED
      BY <3>1, <3>2, FS_Singleton DEF Single
  <2>3. ASSUME NEW v \in {Target, "other"}, main' = Set({v})
        PROVE  main' \in SUBSET Record /\ IsFiniteSet(main') /\ Single(main')
    <3>1. main' \in SUBSET Record
      BY <2>3 DEF Set, Record
    <3> QED
      BY <2>3, <3>1, ValueSets, FiniteParts
  <2>4. CASE OperatorAdds
    BY <2>2, <2>3, <2>4 DEF OperatorAdds
  <2> QED
    BY <2>1, <2>4
<1>7. ForeignIsUntouched' /\ foreign' \in SUBSET Record
  BY <1>2, <1>3, <1>6 DEF OperatorAdds, OperatorRemoves, ForeignIsUntouched
<1>8. EnsuredIsExclusive'
  BY <1>2, <1>5 DEF EnsuredIsExclusive, Exclusive, Sequential
<1>9. crashes' \in 0..MaxCrashes /\ halfGone' \in BOOLEAN /\ (halfGone => halfGone')
  BY <1>1, <1>2
<1> QED
  BY <1>2, <1>3, <1>4, <1>5, <1>6, <1>7, <1>8, <1>9, AllIdle

LEMMA Stutter == ASSUME IInv, UNCHANGED vars PROVE IInv'
<1> USE DEF vars
<1>1. TypeOK'
  BY DEF IInv, TypeOK
<1>2. Finite'
  BY DEF IInv, Finite
<1>3. ASSUME NEW o \in Owner PROVE CallInv(o)'
  <2>1. CallInv(o)
    BY DEF IInv
  <2> QED
    BY <2>1 DEF CallInv, Shape, Refused, StillOwned, Current, Marking, Owned, Values, Sequential,
                CloudDNS, Exclusive
<1>4. ForeignIsUntouched' /\ IdsOK' /\ OneCall' /\ (Sequential => Single(main))'
  BY DEF IInv, ForeignIsUntouched, IdsOK, MarkersKnown, OneCall, InFlight, Sequential, Single
<1>5. MarkersAreKept' /\ CloudDNSOK' /\ EnsuredIsExclusive' /\ ExclusiveOK'
  BY DEF IInv, MarkersAreKept, CloudDNSOK, EnsuredIsExclusive, ExclusiveOK, Values, Single, Sequential,
         CloudDNS, Exclusive
<1> QED
  BY <1>1, <1>2, <1>3, <1>4, <1>5 DEF IInv

LEMMA StepIInv == IInv /\ [Next]_vars => IInv'
<1> SUFFICES ASSUME IInv, [Next]_vars PROVE IInv'
  OBVIOUS
<1>1. ASSUME NEW o \in Owner, EnsureRecord(o) PROVE IInv'
  BY <1>1, StartSteps, ListMainStep, ListMarkersStep, WriteMainStep, RecheckStep, MarkStep, RowSteps
     DEF EnsureRecord
<1>2. ASSUME NEW o \in Owner, DeleteRecord(o) PROVE IInv'
  BY <1>2, StartSteps, CheckMarkerStep, ListDoomedStep, DeleteEachStep, DeleteSetStep, UnmarkStep, RowSteps
     DEF DeleteRecord
<1> QED
  BY <1>1, <1>2, FailStep, CrashStep, OperatorSteps, Stutter DEF Next

-----------------------------------------------------------------------------
(* The strengthened invariant holds: no call of EnsureRecord or DeleteRecord, *)
(* failed, cut or overlapping with another, leads out of it.                  *)
THEOREM Invariance == Spec => []IInv
  BY InitIInv, StepIInv, PTL DEF Spec

(* Every variable keeps its type, and a DeleteRecord is past its check only   *)
(* with the branch's own marker among those it listed.                        *)
THEOREM TypeCorrect == Spec => []TypeOK
<1>1. IInv => TypeOK
  BY DEF IInv
<1> QED
  BY <1>1, Invariance, PTL

(* README: "Ramify never touches a DNS record it doesn't own".  However many  *)
(* branches call at once, and whatever fails or restarts, EnsureRecord and    *)
(* DeleteRecord of all four providers leave a name the operator holds alone.  *)
THEOREM OperatorKeepsTheName == Spec => []ForeignIsUntouched
<1>1. IInv => ForeignIsUntouched
  BY DEF IInv
<1> QED
  BY <1>1, Invariance, PTL

(* EnsureRecord's retries after lost answers and restarts create no second A  *)
(* record, as long as no two branches called at the same time.                *)
THEOREM Idempotent == Spec => []NoDuplicates
<1>1. IInv => NoDuplicates
  <2> SUFFICES ASSUME IInv, ~raced PROVE Cardinality(main) <= 1
    BY DEF NoDuplicates
  <2>1. Single(main)
    BY DEF IInv, Sequential
  <2>2. CASE main = {}
    BY <2>2, FS_EmptySet
  <2>3. ASSUME NEW r \in main PROVE Cardinality(main) <= 1
    <3>1. main = {r}
      BY <2>1, <2>3 DEF Single
    <3>2. Cardinality({r}) = 1
      BY FS_Singleton
    <3> QED
      BY <3>1, <3>2
  <2> QED
    BY <2>2, <2>3
<1> QED
  BY <1>1, Invariance, PTL

(* The marker that DeleteRecord will ask for stays: on Cloudflare whatever    *)
(* the other branches do, on Cloud DNS as long as calls do not overlap.       *)
THEOREM MarkersStay == Spec => []MarkersAreKept
<1>1. IInv => MarkersAreKept
  BY DEF IInv
<1> QED
  BY <1>1, Invariance, PTL

(* A branch whose EnsureRecord succeeded is the only one marked and the name  *)
(* points at the deploy host, unless calls overlapped or a DeleteRecord was   *)
(* cut between the record and its marker (DigitalOcean excepted).             *)
THEOREM OneOwner == Spec => []EnsuredIsExclusive
<1>1. IInv => EnsuredIsExclusive
  BY DEF IInv
<1> QED
  BY <1>1, Invariance, PTL
=============================================================================
