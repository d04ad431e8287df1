---------------------------- MODULE DNSOwnership ----------------------------
(***************************************************************************)
(* The DNS records of ONE host name under EnsureRecord and DeleteRecord of  *)
(* the four DNS providers, one action per API call.  Subdomains are made    *)
(* from the branch name alone and are not unique in the store, so branches  *)
(* of several projects (Owner) can want the name; they hold different       *)
(* branch mutexes and meet only here.  An operator may hold the name too.   *)
(*                                                                          *)
(* Cloudflare and DigitalOcean keep single records with ids; Route 53 and   *)
(* Cloud DNS keep one set of values per name and type, written here as      *)
(* records with id 0.  How the services answer is external: a stale id is   *)
(* refused, a Cloud DNS change is refused unless the set it deletes is the  *)
(* current one, a Route 53 DELETE unless it names the whole set.            *)
(* The TXT records of ACME challenges are at other names and not modelled.  *)
(***************************************************************************)
EXTENDS Naturals, FiniteSets

CONSTANTS
  Owner,        \* project/branch pairs that share the name; also their ownership tags
  Providers,    \* the DNS providers of this instance
  MaxFaults,    \* bound on failing calls
  MaxCrashes    \* bound on daemon crashes

PerRecord == {"cloudflare", "digitalocean"}

(* A marker whose quotes were quoted again, once or more: nobody's tag. *)
Requoted == Owner \X {"requoted"}

ASSUME DNSAssumption ==
  /\ Providers \subseteq PerRecord \cup {"route53", "googlecloud"}
  /\ MaxFaults \in Nat /\ MaxCrashes \in Nat
  /\ IsFiniteSet(Owner) /\ Owner \cap Requoted = {}

VARIABLES
  provider,   \* which provider the daemon is configured with
  main,       \* the A records at the name
  txt,        \* the TXT ownership markers at the name
  row,        \* the owners that have a dns_records row
  call,       \* the EnsureRecord or DeleteRecord of each owner
  faults, crashes,
  foreign,    \* history: the records the operator put at the name
  ensured,    \* history: owners whose last EnsureRecord succeeded, no DeleteRecord since
  raced,      \* history: two calls on the name overlapped
  halfGone    \* history: a DeleteRecord failed or died once it had begun to delete

vars == <<provider, main, txt, row, call, faults, crashes, foreign, ensured, raced, halfGone>>
history == <<foreign, ensured, raced, halfGone>>

(* dns_target: every environment points at the one deploy host. *)
Target == "target"
Record == [id : Nat, val : {Target, "other"}]
Marker == [id : Nat, val : Owner \cup Requoted]
Pc == {"idle", "main", "txt", "write", "recheck", "mark", "record", "delete", "unmark", "forget"}
NoCall == [pc |-> "idle", op |-> "ensure", main |-> {}, txt |-> {}]

TypeOK ==
  /\ provider \in Providers
  /\ main \subseteq Record /\ foreign \subseteq Record
  /\ txt \subseteq Marker
  /\ row \subseteq Owner /\ ensured \subseteq Owner
  /\ call \in [Owner -> [pc : Pc, op : {"ensure", "delete"},
                         main : SUBSET Record, txt : SUBSET Marker]]
  /\ faults \in 0..MaxFaults /\ crashes \in 0..MaxCrashes
  /\ raced \in BOOLEAN /\ halfGone \in BOOLEAN
  /\ \A o \in Owner : call[o].op = "delete" /\ call[o].pc \in {"main", "delete", "unmark"} =>
       \E m \in call[o].txt : m.val = o

Init ==
  /\ provider \in Providers
  /\ main = {} /\ txt = {} /\ row = {} /\ foreign = {} /\ ensured = {}
  /\ call = [o \in Owner |-> NoCall]
  /\ faults = 0 /\ crashes = 0
  /\ raced = FALSE /\ halfGone = FALSE

-----------------------------------------------------------------------------
Values(rs) == {r.val : r \in rs}
Set(vals) == {[id |-> 0, val |-> v] : v \in vals}

(* Cloud DNS markers that are written back as they were read get vals' quotes *)
(* on top of their own, which untxt does not undo.                            *)
requote(vals) == {IF v \in Owner THEN <<v, "requoted">> ELSE v : v \in vals}
Present(rs, id) == \E r \in rs : r.id = id
InFlight == {o \in Owner : call[o].pc # "idle"}

(* An id the provider has not handed out to anybody who still remembers it. *)
Known == UNION ({main, txt} \cup {call[o].main : o \in Owner} \cup {call[o].txt : o \in Owner})
NewId == CHOOSE i \in 1..(Cardinality(Known) + 1) : ~Present(Known, i)
Add(rs, v) == rs \cup {[id |-> NewId, val |-> v]}
Edit(rs, id, v) == {IF r.id = id THEN [r EXCEPT !.val = v] ELSE r : r \in rs}

Goto(o, p) == call' = [call EXCEPT ![o].pc = p]

(* The call is over; its caller sees an error. *)
Error(o) ==
  /\ call' = [call EXCEPT ![o] = NoCall]
  /\ halfGone' = (halfGone \/ call[o].pc \in {"delete", "unmark"})
  /\ UNCHANGED <<foreign, ensured, raced>>

(* ... or it succeeded: attemptApply goes on to the dns_records row. *)
Ensured(o) ==
  /\ Goto(o, "record")
  /\ ensured' = ensured \cup {o}
  /\ UNCHANGED <<foreign, raced, halfGone>>

Fault == faults < MaxFaults /\ faults' = faults + 1

(* A request of the daemon fails and had no effect. *)
Fail(o) ==
  /\ call[o].pc # "idle"
  /\ Fault
  /\ Error(o)
  /\ UNCHANGED <<provider, main, txt, row, crashes>>

-----------------------------------------------------------------------------
(* EnsureRecord *)

Start(o, op, p) ==
  /\ call[o].pc = "idle"
  /\ call' = [call EXCEPT ![o] = [NoCall EXCEPT !.op = op, !.pc = p]]
  /\ raced' = (raced \/ InFlight # {})
  /\ UNCHANGED <<provider, main, txt, row, faults, crashes, foreign, halfGone>>

StartEnsure(o) ==
  /\ Start(o, "ensure", IF provider = "cloudflare" THEN "txt" ELSE "main")
  /\ UNCHANGED ensured

(* DigitalOcean is done when a record already has the value, whoever owns it. *)
ListMain(o) ==
  /\ call[o].pc = "main" /\ call[o].op = "ensure"
  /\ IF provider = "digitalocean" /\ Target \in Values(main)
     THEN Ensured(o)
     ELSE /\ call' = [call EXCEPT ![o].main = main,
                                  ![o].pc = IF provider = "cloudflare" THEN "write" ELSE "txt"]
          /\ UNCHANGED history
  /\ UNCHANGED <<provider, main, txt, row, faults, crashes>>

ListMarkers(o) ==
  /\ call[o].pc = "txt" /\ call[o].op = "ensure"
  /\ call' = [call EXCEPT ![o].txt = txt,
                          ![o].pc = IF provider = "cloudflare" THEN "main" ELSE "write"]
  /\ UNCHANGED <<provider, main, txt, row, faults, crashes, history>>

Owned(o) == o \in Values(call[o].txt)

(* Mutant: a name that holds somebody's record is not refused. *)
MutUnmanaged(o) == FALSE

(* ErrUnmanagedRecord *)
Unmanaged(o) ==
  \/ call[o].main # {} /\ ~Owned(o)
  \/ provider = "cloudflare" /\ Cardinality(call[o].main) > 1

(* Mutant: the record is created whether or not one was listed. *)
MutEnsuredMain(o) == {Add(main, Target)}

(* The A records after the write; none of these when the provider refuses it. *)
EnsuredMain(o) ==
  LET seen == call[o].main IN
  CASE provider \in PerRecord ->
         IF seen = {} THEN {Add(main, Target)}
         ELSE {Edit(main, r.id, Target) : r \in {r \in seen : Present(main, r.id)}}
    [] provider = "route53" -> {Set({Target})}
    [] provider = "googlecloud" ->
         IF Values(seen) = {Target} THEN {main}
         ELSE IF main = seen THEN {Set({Target})} ELSE {}

WriteMain(o) ==
  /\ call[o].pc = "write"
  /\ \/ /\ \/ Unmanaged(o)
           \/ ~Unmanaged(o) /\ EnsuredMain(o) = {}
        /\ Error(o)
        /\ UNCHANGED <<main, faults>>
     \/ /\ ~Unmanaged(o)
        /\ main' \in EnsuredMain(o)
        /\ \/ /\ IF Owned(o) THEN Ensured(o)
                 ELSE /\ Goto(o, IF provider = "cloudflare" THEN "recheck" ELSE "mark")
                      /\ UNCHANGED history
              /\ UNCHANGED faults
           \/ Fault /\ Error(o)      \* the answer is lost
  /\ UNCHANGED <<provider, txt, row, crashes>>

(* ensureSingleRecord lists the markers once more. *)
Recheck(o) ==
  /\ call[o].pc = "recheck"
  /\ IF o \in Values(txt) THEN Ensured(o) ELSE Goto(o, "mark") /\ UNCHANGED history
  /\ UNCHANGED <<provider, main, txt, row, faults, crashes>>

(* Mutant: a TXT record that is there already is updated in place. *)
MutMarked(o) ==
  CASE provider \in PerRecord /\ txt # {} -> {Edit(txt, r.id, o) : r \in txt}
    [] provider \in PerRecord /\ txt = {} -> {Add(txt, o)}
    [] OTHER -> {Set(Values(call[o].txt) \cup {o})}

Marked(o) ==
  CASE provider \in PerRecord    -> {Add(txt, o)}
    [] provider = "route53"      -> {Set(Values(call[o].txt) \cup {o})}
    [] provider = "googlecloud"  -> IF txt = call[o].txt THEN {Set(requote(Values(txt)) \cup {o})} ELSE {}

Mark(o) ==
  /\ call[o].pc = "mark"
  /\ \/ Marked(o) = {} /\ Error(o) /\ UNCHANGED <<txt, faults>>
     \/ /\ txt' \in Marked(o)
        /\ \/ Ensured(o) /\ UNCHANGED faults
           \/ Fault /\ Error(o)
  /\ UNCHANGED <<provider, main, row, crashes>>

(* attemptApply: the certificate is had and recordDNSRow keeps the first row. *)
RecordRow(o) ==
  /\ call[o].pc = "record"
  /\ row' = row \cup {o}
  /\ call' = [call EXCEPT ![o] = NoCall]
  /\ UNCHANGED <<provider, main, txt, faults, crashes, history>>

-----------------------------------------------------------------------------
(* DeleteRecord; doDestroy calls it for the rows of the environment. *)

StartDelete(o) ==
  /\ o \in row
  /\ Start(o, "delete", "txt")
  /\ ensured' = ensured \ {o}

(* Mutant: deleting does not ask whose name it is. *)
MutCheckMarker(o) ==
  /\ call[o].pc = "txt" /\ call[o].op = "delete"
  /\ call' = [call EXCEPT ![o].txt = txt, ![o].pc = "main"]
  /\ UNCHANGED <<provider, main, txt, row, faults, crashes, history>>

(* ErrOwnershipMismatch *)
CheckMarker(o) ==
  /\ call[o].pc = "txt" /\ call[o].op = "delete"
  /\ IF o \in Values(txt)
     THEN call' = [call EXCEPT ![o].txt = txt, ![o].pc = "main"] /\ UNCHANGED history
     ELSE Error(o)
  /\ UNCHANGED <<provider, main, txt, row, faults, crashes>>

ListDoomed(o) ==
  /\ call[o].pc = "main" /\ call[o].op = "delete"
  /\ call' = [call EXCEPT ![o].main = main, ![o].pc = "delete"]
  /\ UNCHANGED <<provider, main, txt, row, faults, crashes, history>>

Doomed(o) == {r \in call[o].main : r.val = Target}

(* Cloudflare and DigitalOcean delete the records one by one. *)
DeleteEach(o) ==
  /\ call[o].pc = "delete" /\ provider \in PerRecord
  /\ \/ Doomed(o) = {} /\ Goto(o, "unmark") /\ UNCHANGED <<main, faults, history>>
     \/ \E r \in Doomed(o) :
          \/ ~Present(main, r.id) /\ Error(o) /\ UNCHANGED <<main, faults>>
          \/ /\ Present(main, r.id)
             /\ main' = {x \in main : x.id # r.id}
             /\ \/ /\ call' = [call EXCEPT ![o].main = @ \ {r}]
                   /\ UNCHANGED <<faults, history>>
                \/ Fault /\ Error(o)
  /\ UNCHANGED <<provider, txt, row, crashes>>

(* The A set after the change, none when it is refused.  A refused DELETE of  *)
(* Route 53 counts as done; an empty change of Cloud DNS may go either way.   *)
Shrunk(o) ==
  LET seen == call[o].main
      rest == Values(seen) \ {Target} IN
  CASE provider = "route53" ->
         IF rest # {} THEN {Set(rest)} ELSE {IF Values(main) = {Target} THEN {} ELSE main}
    [] provider = "googlecloud" ->
         IF seen = {} THEN {main} ELSE IF main = seen THEN {Set(rest)} ELSE {}

DeleteSet(o) ==
  /\ call[o].pc = "delete" /\ provider \notin PerRecord
  /\ \/ /\ \/ Shrunk(o) = {}
           \/ provider = "googlecloud" /\ call[o].main = {}
        /\ Error(o)
        /\ UNCHANGED <<main, faults>>
     \/ /\ main' \in Shrunk(o)
        /\ \/ Goto(o, "unmark") /\ UNCHANGED <<faults, history>>
           \/ Fault /\ Error(o)
  /\ UNCHANGED <<provider, txt, row, crashes>>

(* The markers after the last request, none when it is refused. *)
Unmarked(o) ==
  LET rest == Values(call[o].txt) \ {o} IN
  CASE provider \in PerRecord ->
         {{x \in txt : x.id # m.id} :
            m \in {m \in call[o].txt : m.val = o /\ Present(txt, m.id)}}
    [] provider = "route53" ->
         IF rest # {} THEN {Set(rest)} ELSE IF Values(txt) = {o} THEN {{}} ELSE {}
    [] provider = "googlecloud" -> IF txt = call[o].txt THEN {Set(requote(rest))} ELSE {}

Unmark(o) ==
  /\ call[o].pc = "unmark"
  /\ \/ Unmarked(o) = {} /\ Error(o) /\ UNCHANGED <<txt, faults>>
     \/ /\ txt' \in Unmarked(o)
        /\ \/ Goto(o, "forget") /\ UNCHANGED <<faults, history>>
           \/ Fault /\ Error(o)
  /\ UNCHANGED <<provider, main, row, crashes>>

(* doDestroy drops the dns_records row. *)
ForgetRow(o) ==
  /\ call[o].pc = "forget"
  /\ row' = row \ {o}
  /\ call' = [call EXCEPT ![o] = NoCall]
  /\ UNCHANGED <<provider, main, txt, faults, crashes, history>>

-----------------------------------------------------------------------------
(* The daemon dies; requests already sent have had their effect. *)
Crash ==
  /\ crashes < MaxCrashes
  /\ crashes' = crashes + 1
  /\ call' = [o \in Owner |-> NoCall]
  /\ halfGone' = (halfGone \/ \E o \in Owner : call[o].pc \in {"delete", "unmark"})
  /\ UNCHANGED <<provider, main, txt, row, faults, foreign, ensured, raced>>

(* The operator edits the zone while Ramify has no request on the name, and *)
(* adds records only where there are none and no markers: one that is added *)
(* beside a marker which a cut DeleteRecord left is not covered.            *)
OperatorAdds ==
  /\ InFlight = {} /\ main = {} /\ txt = {}
  /\ \E v \in {Target, "other"} :
       main' = IF provider \in PerRecord THEN Add(main, v) ELSE Set({v})
  /\ foreign' = main'
  /\ UNCHANGED <<provider, txt, row, call, faults, crashes, ensured, raced, halfGone>>

OperatorRemoves ==
  /\ InFlight = {} /\ foreign # {}
  /\ main' = main \ foreign
  /\ foreign' = {}
  /\ UNCHANGED <<provider, txt, row, call, faults, crashes, ensured, raced, halfGone>>

EnsureRecord(o) ==
  StartEnsure(o) \/ ListMain(o) \/ ListMarkers(o) \/ WriteMain(o) \/ Recheck(o) \/ Mark(o)
  \/ RecordRow(o)

DeleteRecord(o) ==
  StartDelete(o) \/ CheckMarker(o) \/ ListDoomed(o) \/ DeleteEach(o) \/ DeleteSet(o)
  \/ Unmark(o) \/ ForgetRow(o)

Next ==
  \/ \E o \in Owner : EnsureRecord(o) \/ DeleteRecord(o) \/ Fail(o)
  \/ Crash
  \/ OperatorAdds
  \/ OperatorRemoves

Spec == Init /\ [][Next]_vars

-----------------------------------------------------------------------------
(* README: "Ramify never touches a DNS record it doesn't own".  A name the    *)
(* operator holds keeps exactly the operator's records and gets no marker,    *)
(* whatever several branches, failures and restarts do to it.                 *)
ForeignIsUntouched == foreign # {} => main = foreign /\ txt = {}

(* "EnsureRecord must be idempotent and must not create a duplicate record":  *)
(* lost answers, restarts and retries never leave two A records at the name,  *)
(* as long as two branches did not call at the same time.                     *)
NoDuplicates == ~raced => Cardinality(main) <= 1

(* The marker of a branch whose EnsureRecord succeeded stays, so that its     *)
(* DeleteRecord will not be refused: on Cloudflare even when calls of other   *)
(* branches, cut or whole, overlap with it, on Cloud DNS when they are cut    *)
(* but do not overlap (the marker of another branch is quoted again there).   *)
MarkersAreKept ==
  (provider = "cloudflare" \/ (provider = "googlecloud" /\ ~raced)) =>
    ensured \subseteq Values(txt)

(* Two branches never both own the name: one that succeeded is the only one   *)
(* marked, and the name points at the deploy host.  Overlapping calls, and a  *)
(* DeleteRecord cut between the record and its marker, void this; so does     *)
(* DigitalOcean, which does not ask for the marker.                           *)
EnsuredIsExclusive ==
  provider # "digitalocean" /\ ~raced /\ ~halfGone =>
    \A o \in ensured : Values(main) = {Target} /\ Values(txt) = {o}
=============================================================================
