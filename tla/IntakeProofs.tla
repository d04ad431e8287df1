---------------------------- MODULE IntakeProofs ----------------------------
(***************************************************************************)
(* The intake for any branches, policies and bounds.  What a webhook may    *)
(* put up is decided by what its payload says, so the invariant is about    *)
(* the payloads under way: a host tells the truth about the state of the    *)
(* request when it sends them, and every parser keeps that truth.  DInv     *)
(* carries QuietMatchesDocs: it is about the last webhook of each branch.   *)
(***************************************************************************)
EXTENDS Intake, SequenceTheorems, WellFoundedInduction, TLAPS

Actions == {"opened", "reopened", "synchronize", "closed", "open", "reopen", "update",
            "close", "merge", "edit", "commit"}
States == {"none", "open", "closed", "merged"}
Change == [branch : Branches, after : {"commit", "zero", "tag", "absent"}]
PushPayload == [type : {"push"}, changes : Seq(Change) \ {<<>>}]
RequestPayload == [type : {"pr"}, action : Actions, branch : Branches,
                   state : States \ {"none"}, labelled : BOOLEAN]

(* What the configured host sends.  GitHub names an action that deploys only *)
(* for a request that is open; the other parsers look at the state.          *)
Sendable ==
  PushPayload \cup
  {wp \in RequestPayload : host = "github" /\ wp.action \in {"opened", "reopened", "synchronize"}
                             => wp.state = "open"}

Up == [up : {TRUE}, pr : BOOLEAN, open : BOOLEAN, labelled : BOOLEAN]

IInv ==
  /\ TypeOK
  /\ host \in {"github", "gitlab", "bitbucket"}
  /\ sent \in Seq(Sendable)
  /\ ClosedNeverDeploys
  /\ GateIsAbsolute

LEMMA InitIInv == Init => IInv
<1> SUFFICES ASSUME Init PROVE IInv
  OBVIOUS
<1>1. \A b \in Branches : env[b] = Down /\ ~env[b].up
  BY DEF Init, Down
<1>2. sent \in Seq(Sendable) /\ Len(sent) = 0
  BY EmptySeq DEF Init
<1>3. TypeOK
  <2>1. env \in [Branches -> {Down} \cup Up] /\ pr \in [Branches -> {"none", "open", "closed", "merged"}]
    BY DEF Init
  <2>2. moves \in 0..MaxMoves /\ Len(sent) <= MaxSent
    BY <1>2, IntakeAssumption DEF Init
  <2>3. disorder \in BOOLEAN
    BY DEF Init
  <2> QED
    BY <2>1, <2>2, <2>3 DEF Init, TypeOK, Up
<1>4. ClosedNeverDeploys /\ GateIsAbsolute
  BY <1>1 DEF ClosedNeverDeploys, GateIsAbsolute
<1>5. host \in {"github", "gitlab", "bitbucket"}
  BY IntakeAssumption DEF Init
<1> QED
  BY <1>2, <1>3, <1>4, <1>5 DEF IInv

(* The event a payload becomes: one that deploys a request says that the     *)
(* request is open, and where there are labels it knows them.                *)
Handled(ev) ==
  /\ ev.kind \in {"branch_pushed", "pr_synchronized", "pr_closed", "branch_deleted"}
  /\ ev.branch \in Branches
  /\ ev.pr \in BOOLEAN /\ ev.open \in BOOLEAN /\ ev.truth \in BOOLEAN
  /\ ev.kind = "branch_pushed" => ~ev.pr
  /\ ev.kind = "pr_synchronized" =>
       /\ ev.pr /\ ev.open
       /\ host # "bitbucket" => ev.labelsKnown /\ (ev.labels <=> ev.truth)

LEMMA LeastNumber ==
  ASSUME NEW T \in SUBSET Nat, T # {}
  PROVE  \E i \in T : \A j \in T : i <= j
<1> DEFINE R == {ss \in Nat \X Nat : ss[1] < ss[2]}
<1>1. OpToRel(<, Nat) = R
  BY DEF OpToRel
<1>2. IsWellFoundedOn(R, Nat)
  BY <1>1, NatLessThanWellFounded
<1>3. \E i \in T : \A j \in T : ~(<<j, i>> \in R)
  <2> HIDE DEF R
  <2> QED
    BY <1>2, WFMin
<1>4. PICK i \in T : \A j \in T : ~(<<j, i>> \in R)
  BY <1>3
<1>5. ASSUME NEW j \in T PROVE i <= j
  <2>1. i \in Nat /\ j \in Nat /\ ~(j < i)
    BY <1>4
  <2> QED
    BY <2>1
<1> QED
  BY <1>4, <1>5

LEMMA RefHandled ==
  ASSUME NEW b \in Branches, NEW kind \in {"branch_pushed", "branch_deleted"}
  PROVE  Handled(RefEvent(kind, b))
  BY DEF Handled, RefEvent

LEMMA RequestHandled ==
  ASSUME NEW wp \in RequestPayload, NEW known \in BOOLEAN, NEW kind \in {"pr_synchronized", "pr_closed"},
         kind = "pr_synchronized" => wp.state = "open" /\ (host # "bitbucket" => known)
  PROVE  Handled(PREvent(kind, wp, known))
  BY DEF Handled, PREvent, RequestPayload

LEMMA RequestParsed ==
  ASSUME IInv, NEW wp \in Sendable, wp.type = "pr"
  PROVE  ParseWebhook(wp) = Unhandled \/ Handled(ParseWebhook(wp))
<1>1. wp \in RequestPayload /\ wp.state \in {"open", "closed", "merged"}
      /\ (host = "github" /\ wp.action \in {"opened", "reopened", "synchronize"} => wp.state = "open")
  BY DEF Sendable, PushPayload, RequestPayload, States
<1>2. CASE host = "github"
  <2>1. ParseWebhook(wp) = GitHubPullRequest(wp)
    BY <1>2 DEF ParseWebhook, GitHubPayload
  <2>2. CASE wp.action \in {"opened", "reopened", "synchronize"}
    BY <1>1, <1>2, <2>1, <2>2, RequestHandled DEF GitHubPullRequest
  <2>3. CASE wp.action = "closed"
    BY <1>1, <2>1, <2>3, RequestHandled DEF GitHubPullRequest
  <2>4. CASE wp.action \notin {"opened", "reopened", "synchronize", "closed"}
    BY <2>1, <2>4 DEF GitHubPullRequest
  <2> QED
    BY <2>2, <2>3, <2>4
<1>3. CASE host = "gitlab"
  <2>1. ParseWebhook(wp) = GitLabMergeRequest(wp)
    BY <1>3 DEF ParseWebhook, GitLabPayload
  <2>2. CASE wp.state \in {"merged", "closed"} \/ wp.action \in {"close", "merge"}
    BY <1>1, <2>1, <2>2, RequestHandled DEF GitLabMergeRequest
  <2>3. CASE ~(wp.state \in {"merged", "closed"} \/ wp.action \in {"close", "merge"})
    BY <1>1, <1>3, <2>1, <2>3, RequestHandled DEF GitLabMergeRequest
  <2> QED
    BY <2>2, <2>3
<1>4. CASE host = "bitbucket"
  <2>1. ParseWebhook(wp) = BitbucketPullRequest(wp)
    BY <1>4 DEF ParseWebhook, BitbucketPayload
  <2> QED
    BY <1>1, <1>4, <2>1, RequestHandled DEF BitbucketPullRequest
<1> QED
  BY <1>2, <1>3, <1>4 DEF IInv

LEMMA PushParsed ==
  ASSUME IInv, NEW wp \in Sendable, wp.type # "pr"
  PROVE  ParseWebhook(wp) = Unhandled \/ Handled(ParseWebhook(wp))
<1>1. wp \in PushPayload
  BY DEF Sendable, RequestPayload
<1>2. PICK changes \in Seq(Change) : changes = wp.changes /\ changes # <<>>
  BY <1>1 DEF PushPayload
<1>3. Len(changes) \in Nat \ {0} /\ DOMAIN changes = 1..Len(changes)
      /\ \A i \in DOMAIN changes : changes[i] \in Change
  BY <1>2, EmptySeq, LenProperties, ElementOfSeq
<1>4. changes[1] \in Change /\ \A i \in DOMAIN changes : changes[i].branch \in Branches
  BY <1>3 DEF Change
<1>5. CASE host = "github"
  <2>1. ParseWebhook(wp) = GitHubRef(changes[1])
    BY <1>2, <1>5 DEF ParseWebhook, GitHubPayload
  <2> QED
    BY <1>4, <2>1, RefHandled DEF GitHubRef, Change
<1>6. CASE host = "gitlab"
  <2>1. ParseWebhook(wp) = GitLabPush(changes[1])
    BY <1>2, <1>6 DEF ParseWebhook, GitLabPayload
  <2> QED
    BY <1>4, <2>1, RefHandled DEF GitLabPush, Change
<1>7. CASE host = "bitbucket"
  <2>1. ParseWebhook(wp) = BitbucketPush(changes)
    BY <1>2, <1>7 DEF ParseWebhook, BitbucketPayload
  <2> DEFINE named == {i \in DOMAIN changes : changes[i].after \in {"commit", "zero"}}
  <2>2. CASE named = {}
    BY <2>1, <2>2 DEF BitbucketPush
  <2>3. CASE named # {}
    <3>1. \E i \in named : \A j \in named : i <= j
      <4>1. named \in SUBSET Nat
        BY <1>3
      <4> HIDE DEF named
      <4> QED
        BY <2>3, <4>1, LeastNumber
    <3>2. PICK first \in named : first = CHOOSE i \in named : \A j \in named : i <= j
      BY <3>1
    <3> QED
      BY <1>4, <2>1, <2>3, <3>2, RefHandled DEF BitbucketPush
  <2> QED
    BY <2>2, <2>3
<1> QED
  BY <1>5, <1>6, <1>7 DEF IInv

(* What the processing of a payload does to the environments. *)
LEMMA Processed ==
  ASSUME IInv, NEW wp \in Sendable, ProcessWebhookEvent(ParseWebhook(wp)), UNCHANGED <<host, policy>>
  PROVE  /\ env' \in [Branches -> {Down} \cup Up]
         /\ ClosedNeverDeploys' /\ GateIsAbsolute'
<1> DEFINE ev == ParseWebhook(wp)
<1>1. ev = Unhandled \/ Handled(ev)
  BY RequestParsed, PushParsed
<1>2. env \in [Branches -> {Down} \cup Up] /\ ClosedNeverDeploys /\ GateIsAbsolute /\ ~Down.up
  BY DEF IInv, TypeOK, Up, Down
<1> HIDE DEF ev
<1>3. CASE env' = env
  BY <1>2, <1>3 DEF ClosedNeverDeploys, GateIsAbsolute
<1>4. CASE Handled(ev) /\ env' = [env EXCEPT ![ev.branch] = Down]
  <2>1. \A b \in Branches : env'[b] = env[b] \/ env'[b] = Down
    BY <1>2, <1>4
  <2>2. env' \in [Branches -> {Down} \cup Up]
    BY <1>2, <1>4
  <2> QED
    BY <1>2, <2>1, <2>2 DEF ClosedNeverDeploys, GateIsAbsolute
<1>5. CASE /\ Handled(ev) /\ ev.kind \in {"branch_pushed", "pr_synchronized"} /\ Decide(ev)
           /\ env' = [env EXCEPT ![ev.branch] = [up |-> TRUE, pr |-> ev.pr, open |-> ev.open,
                                                 labelled |-> ev.truth]]
  <2> DEFINE set == [up |-> TRUE, pr |-> ev.pr, open |-> ev.open, labelled |-> ev.truth]
  <2>0. set \in Up
    BY <1>5 DEF Up, Handled
  <2>1. PICK new \in Up : /\ env' = [env EXCEPT ![ev.branch] = new]
                          /\ new.pr = ev.pr /\ new.open = ev.open /\ new.labelled = ev.truth
    <3> WITNESS set \in Up
    <3> QED
      BY <1>5
  <2>2. /\ env' \in [Branches -> {Down} \cup Up] /\ env'[ev.branch] = new
        /\ \A b \in Branches : b # ev.branch => env'[b] = env[b]
    BY <1>2, <1>5, <2>1 DEF Handled
  <2>3. new.pr => new.open
    BY <1>5, <2>1 DEF Handled
  <2>4. policy.prOnly /\ policy.labels /\ host # "bitbucket" => new.pr /\ new.labelled
    BY <1>5, <2>1 DEF Handled, Decide
  <2> QED
    BY <1>2, <2>2, <2>3, <2>4 DEF ClosedNeverDeploys, GateIsAbsolute
<1>6. ProcessWebhookEvent(ev)
  BY DEF ev
<1>7. CASE ev = Unhandled
  BY <1>3, <1>6, <1>7 DEF ProcessWebhookEvent, Unhandled
<1>8. CASE Handled(ev)
  <2>1. CASE ev.kind \in {"branch_pushed", "pr_synchronized"}
    BY <1>3, <1>5, <1>6, <1>8, <2>1 DEF ProcessWebhookEvent
  <2>2. CASE ev.kind \in {"pr_closed", "branch_deleted"}
    BY <1>4, <1>6, <1>8, <2>2 DEF ProcessWebhookEvent
  <2> QED
    BY <1>8, <2>1, <2>2 DEF Handled
<1> QED
  BY <1>1, <1>7, <1>8

LEMMA DeliverStep == ASSUME IInv, Deliver PROVE IInv'
<1>1. PICK i \in DOMAIN sent :
        /\ ProcessWebhookEvent(ParseWebhook(sent[i]))
        /\ sent' = SubSeq(sent, 1, i - 1) \o SubSeq(sent, i + 1, Len(sent))
        /\ disorder' = (disorder \/ i > 1)
        /\ UNCHANGED <<host, policy, refs, pr, labelled, moves, want, astray>>
  BY DEF Deliver
<1>2. sent \in Seq(Sendable) /\ Len(sent) \in Nat /\ i \in 1..Len(sent)
      /\ \A j \in 1..Len(sent) : sent[j] \in Sendable
  BY LenProperties, ElementOfSeq DEF IInv
<1>3. Sendable' = Sendable
  BY <1>1 DEF Sendable
<1>4. /\ SubSeq(sent, 1, i - 1) \in Seq(Sendable) /\ Len(SubSeq(sent, 1, i - 1)) = i - 1
      /\ SubSeq(sent, i + 1, Len(sent)) \in Seq(Sendable)
      /\ Len(SubSeq(sent, i + 1, Len(sent))) = Len(sent) - i
  BY <1>2, SubSeqProperties
<1>5. sent' \in Seq(Sendable) /\ Len(sent') = (i - 1) + (Len(sent) - i)
  BY <1>1, <1>4, ConcatProperties
<1>6. Len(sent') <= MaxSent /\ moves' \in 0..MaxMoves
  BY <1>1, <1>2, <1>5, IntakeAssumption DEF IInv, TypeOK
<1>7. env' \in [Branches -> {Down} \cup Up] /\ ClosedNeverDeploys' /\ GateIsAbsolute'
  BY <1>1, <1>2, Processed
<1>8. disorder' \in BOOLEAN
  BY <1>1
<1>9. TypeOK'
  BY <1>1, <1>6, <1>7, <1>8 DEF IInv, TypeOK, Up
<1> QED
  BY <1>1, <1>3, <1>5, <1>7, <1>9 DEF IInv

LEMMA SingletonSeq == ASSUME NEW S, NEW x \in S PROVE <<x>> \in Seq(S) /\ <<x>> # <<>> /\ Len(<<x>>) = 1
  OBVIOUS

(* A host sends an action that deploys only for an open request. *)
LEMMA RequestSendable ==
  ASSUME NEW what \in {"open", "reopen", "commit", "edit", "close", "merge"}, NEW b \in Branches,
         NEW state \in {"open", "closed", "merged"}, NEW label \in BOOLEAN,
         what \in {"open", "reopen", "commit"} => state = "open"
  PROVE  <<PRPayload(what, b, state, label)>> \in Seq(Sendable)
<1>1. Action(what) \in Actions
      /\ (host = "github" /\ Action(what) \in {"opened", "reopened", "synchronize"}
            => what \in {"open", "reopen", "commit"})
  BY DEF Action, Actions
<1>2. PRPayload(what, b, state, label) \in Sendable
  BY <1>1 DEF PRPayload, Sendable, RequestPayload, States
<1> QED
  BY <1>2, SingletonSeq

LEMMA PushSendable ==
  ASSUME NEW changes \in Seq(Change), changes # <<>>
  PROVE  PushPayloads(changes) \in Seq(Sendable)
<1>1. \A cs \in Seq(Change) : cs # <<>> => [type |-> "push", changes |-> cs] \in Sendable
  BY DEF Sendable, PushPayload
<1>2. CASE host = "bitbucket"
  <2>1. PushPayloads(changes) = << [type |-> "push", changes |-> changes] >>
    BY <1>2 DEF PushPayloads
  <2> QED
    BY <1>1, <2>1, SingletonSeq
<1>3. CASE host # "bitbucket"
  <2>1. PICK n \in Nat : DOMAIN changes = 1..n /\ \A i \in 1..n : changes[i] \in Change
    BY LenProperties, ElementOfSeq
  <2>2. \A i \in 1..n : <<changes[i]>> \in Seq(Change) /\ <<changes[i]>> # <<>>
    BY <2>1, SingletonSeq
  <2>3. PushPayloads(changes) = [i \in 1..n |-> [type |-> "push", changes |-> <<changes[i]>>]]
    BY <1>3, <2>1 DEF PushPayloads
  <2>4. PushPayloads(changes) \in [1..n -> Sendable]
    BY <1>1, <2>2, <2>3
  <2> QED
    BY <2>4, SeqDef
<1> QED
  BY <1>2, <1>3

LEMMA OneChange ==
  ASSUME NEW b \in Branches, NEW after \in {"commit", "zero", "tag", "absent"}
  PROVE  PushPayloads(<< [branch |-> b, after |-> after] >>) \in Seq(Sendable)
<1>1. [branch |-> b, after |-> after] \in Change
  BY DEF Change
<1>2. << [branch |-> b, after |-> after] >> \in Seq(Change) /\ << [branch |-> b, after |-> after] >> # <<>>
  BY <1>1, SingletonSeq
<1> QED
  BY <1>2, PushSendable

(* Something happens in the repository, and the host sends payloads. *)
LEMMA Moved ==
  ASSUME IInv, Move, NEW payloads \in Seq(Sendable), Send(payloads),
         pr' \in [Branches -> {"none", "open", "closed", "merged"}],
         refs' \subseteq Branches, labelled' \subseteq Branches, want' \subseteq Branches,
         astray' \subseteq Branches
  PROVE  IInv'
<1>1. UNCHANGED <<host, policy, env, disorder>> /\ moves' \in 0..MaxMoves
  BY IntakeAssumption DEF Move, IInv, TypeOK
<1>2. Sendable' = Sendable
  BY <1>1 DEF Sendable
<1>3. sent \in Seq(Sendable) /\ sent' = sent \o payloads /\ Len(sent) + Len(payloads) <= MaxSent
  BY DEF IInv, Send
<1>4. sent' \in Seq(Sendable) /\ Len(sent') = Len(sent) + Len(payloads)
  BY <1>3, ConcatProperties
<1>5. TypeOK'
  BY <1>1, <1>3, <1>4 DEF IInv, TypeOK
<1>6. ClosedNeverDeploys' /\ GateIsAbsolute'
  BY <1>1 DEF IInv, ClosedNeverDeploys, GateIsAbsolute
<1> QED
  BY <1>1, <1>2, <1>4, <1>5, <1>6 DEF IInv

(* A push of one branch or two, and what the requests of those report. *)
LEMMA PushTyped ==
  ASSUME NEW changes \in Pushes
  PROVE  /\ changes \in Seq(Change) /\ changes # <<>> /\ Len(changes) \in {1, 2}
         /\ DOMAIN changes = 1..Len(changes)
         /\ \A i \in 1..Len(changes) : changes[i] \in Update
         /\ Len(changes) = 2 => changes[1].branch # changes[2].branch
<1>1. Update \subseteq Change
  BY DEF Update, Change
<1>2. CASE \E c \in Update : changes = <<c>>
  BY <1>1, <1>2
<1>3. CASE changes \in Update \X Update /\ changes[1].branch # changes[2].branch
  <2>1. PICK c \in Update, d \in Update : changes = <<c, d>>
    BY <1>3
  <2> QED
    BY <1>1, <1>3, <2>1
<1> QED
  BY <1>2, <1>3 DEF Pushes

LEMMA ToldSendable == ASSUME NEW c \in Update PROVE Told(c) \in Seq(Sendable)
<1>1. c.branch \in Branches /\ (c.branch \in labelled) \in BOOLEAN
  BY DEF Update
<1>2. <<PRPayload("close", c.branch, "closed", c.branch \in labelled)>> \in Seq(Sendable)
  BY <1>1, RequestSendable
<1>3. <<PRPayload("commit", c.branch, "open", c.branch \in labelled)>> \in Seq(Sendable)
  BY <1>1, RequestSendable
<1> QED
  BY <1>2, <1>3, EmptySeq DEF Told

(* All that a push makes the host send. *)
PushSends(changes) ==
  PushPayloads(changes) \o Told(changes[1]) \o IF Len(changes) = 2 THEN Told(changes[2]) ELSE <<>>

LEMMA PushSendsTyped ==
  ASSUME NEW changes \in Pushes
  PROVE  /\ PushSends(changes) \in Seq(Sendable)
         /\ Range(PushSends(changes)) =
              Range(PushPayloads(changes)) \cup Range(Told(changes[1]))
                \cup (IF Len(changes) = 2 THEN Range(Told(changes[2])) ELSE {})
<1> DEFINE second == IF Len(changes) = 2 THEN Told(changes[2]) ELSE <<>>
           both == PushPayloads(changes) \o Told(changes[1])
<1>1. changes[1] \in Update /\ (Len(changes) = 2 => changes[2] \in Update)
  BY PushTyped
<1>2. PushPayloads(changes) \in Seq(Sendable) /\ Told(changes[1]) \in Seq(Sendable)
  BY <1>1, PushTyped, PushSendable, ToldSendable
<1>3. /\ second \in Seq(Sendable)
      /\ Range(second) = IF Len(changes) = 2 THEN Range(Told(changes[2])) ELSE {}
  BY <1>1, ToldSendable, EmptySeq DEF Range
<1>4. PushSends(changes) = both \o second
  BY DEF PushSends
<1> HIDE DEF second
<1>5. both \in Seq(Sendable) /\ Range(both) = Range(PushPayloads(changes)) \cup Range(Told(changes[1]))
  BY <1>2, ConcatProperties, RangeConcatenation
<1> HIDE DEF both
<1>6. both \o second \in Seq(Sendable) /\ Range(both \o second) = Range(both) \cup Range(second)
  BY <1>3, <1>5, ConcatProperties, RangeConcatenation
<1> QED
  BY <1>3, <1>4, <1>5, <1>6

(* What a push does, branch by branch. *)
LEMMA PushDoes ==
  ASSUME IInv, NEW changes \in Pushes, Push(changes)
  PROVE  /\ Move /\ Send(PushSends(changes)) /\ labelled' = labelled
         /\ refs' \subseteq Branches /\ want' \subseteq Branches /\ astray' \subseteq Branches
         /\ pr' \in [Branches -> {"none", "open", "closed", "merged"}]
         /\ \A i \in 1..Len(changes) :
              LET c == changes[i]
              IN  /\ c.after = "zero" => c.branch \notin want'
                  /\ c.after = "commit" =>
                       (c.branch \in want' <=> c.branch \in want \/ CommitPromised(c.branch))
                  /\ c.after = "commit" => pr'[c.branch] = pr[c.branch]
         /\ \A x \in Branches : (\A i \in 1..Len(changes) : x # changes[i].branch) =>
              /\ x \in want' <=> x \in want
              /\ x \in astray' <=> x \in astray
              /\ pr'[x] = pr[x]
         /\ Behind(changes) \subseteq astray'
<1> DEFINE Having(after) == {changes[i].branch : i \in {k \in DOMAIN changes :
                                                         changes[k].after = after}}
           gone == Having("zero")
           new == Having("commit")
<1>1. /\ Move /\ Send(PushSends(changes)) /\ labelled' = labelled
      /\ refs' = (refs \cup new) \ gone
      /\ pr' = [b \in Branches |-> IF b \in gone /\ pr[b] = "open" THEN "closed" ELSE pr[b]]
      /\ want' = (want \ gone) \cup {b \in new : CommitPromised(b)}
      /\ astray' = (astray \ (gone \cup new)) \cup Behind(changes)
  BY DEF Push, PushSends
<1>2. /\ DOMAIN changes = 1..Len(changes) /\ Len(changes) \in {1, 2}
      /\ Len(changes) = 2 => changes[1].branch # changes[2].branch
      /\ \A i \in 1..Len(changes) :
           changes[i].branch \in Branches /\ changes[i].after \in {"commit", "zero"}
  BY PushTyped DEF Update
<1>3. \A i, j \in 1..Len(changes) : changes[i].branch = changes[j].branch => i = j
  BY <1>2
<1>4. /\ \A x : x \in gone <=> \E i \in 1..Len(changes) : changes[i].after = "zero" /\ x = changes[i].branch
      /\ \A x : x \in new <=> \E i \in 1..Len(changes) : changes[i].after = "commit" /\ x = changes[i].branch
  BY <1>2
<1> HIDE DEF gone, new
<1>5. gone \subseteq Branches /\ new \subseteq Branches /\ gone \cap new = {}
  BY <1>2, <1>3, <1>4
<1>6. /\ refs' \subseteq Branches /\ want' \subseteq Branches /\ astray' \subseteq Branches
      /\ pr' \in [Branches -> {"none", "open", "closed", "merged"}]
  BY <1>1, <1>5 DEF IInv, TypeOK, Behind
<1>7. ASSUME NEW i \in 1..Len(changes)
      PROVE  LET c == changes[i]
             IN  /\ c.after = "zero" => c.branch \notin want'
                 /\ c.after = "commit" =>
                      (c.branch \in want' <=> c.branch \in want \/ CommitPromised(c.branch))
                 /\ c.after = "commit" => pr'[c.branch] = pr[c.branch]
  <2>1. changes[i].after = "zero" => changes[i].branch \in gone /\ changes[i].branch \notin new
    BY <1>4, <1>5
  <2>2. changes[i].after = "commit" => changes[i].branch \in new /\ changes[i].branch \notin gone
    BY <1>4, <1>5
  <2> QED
    BY <1>1, <1>2, <2>1, <2>2
<1>8. ASSUME NEW x \in Branches, \A i \in 1..Len(changes) : x # changes[i].branch
      PROVE  /\ x \in want' <=> x \in want
             /\ x \in astray' <=> x \in astray
             /\ pr'[x] = pr[x]
  <2>1. x \notin gone /\ x \notin new
    BY <1>4, <1>8
  <2>2. x \notin Behind(changes)
    BY <1>2, <1>8 DEF Behind
  <2> QED
    BY <1>1, <2>1, <2>2
<1> QED
  BY <1>1, <1>6, <1>7, <1>8

LEMMA PushStep == ASSUME IInv, NEW changes \in Pushes, Push(changes) PROVE IInv'
<1>1. PICK payloads \in Seq(Sendable) : payloads = PushSends(changes)
  BY PushSendsTyped
<1>2. /\ Move /\ Send(payloads) /\ labelled' = labelled
      /\ refs' \subseteq Branches /\ want' \subseteq Branches /\ astray' \subseteq Branches
      /\ pr' \in [Branches -> {"none", "open", "closed", "merged"}]
  BY <1>1, PushDoes
<1> QED
  BY <1>2, Moved DEF IInv, TypeOK

LEMMA CommitWithTagStep == ASSUME IInv, NEW b \in Branches, CommitWithTag(b) PROVE IInv'
<1> DEFINE changes == << [branch |-> b, after |-> "tag"], [branch |-> b, after |-> "commit"] >>
<1>1. [branch |-> b, after |-> "tag"] \in Change /\ [branch |-> b, after |-> "commit"] \in Change
  BY DEF Change
<1>2. changes \in Seq(Change) /\ changes # <<>>
  <2>1. changes \in Seq(Change) /\ Len(changes) = 2
    BY <1>1
  <2> QED
    BY <2>1, EmptySeq
<1>3. PICK payloads \in Seq(Sendable) : payloads = PushPayloads(changes)
  <2> HIDE DEF changes
  <2> QED
    BY <1>2, PushSendable
<1>4. Move /\ Send(PushPayloads(changes)) /\ UNCHANGED <<refs, pr, labelled>>
      /\ want' \in {want \cup {b}, want} /\ astray' = astray \ {b}
  BY DEF CommitWithTag
<1>5. Send(payloads)
  <2> HIDE DEF changes
  <2> QED
    BY <1>3, <1>4
<1> QED
  BY <1>4, <1>5, Moved DEF IInv, TypeOK

LEMMA OddPushStep == ASSUME IInv, NEW b \in Branches, OddPush(b) PROVE IInv'
<1>1. PICK payloads \in Seq(Sendable) : payloads = PushPayloads(<< [branch |-> b, after |-> "absent"] >>)
  BY OneChange
<1>2. Move /\ Send(payloads) /\ UNCHANGED <<refs, pr, labelled, want>> /\ astray' \in {astray \cup {b}, astray}
  BY <1>1 DEF OddPush
<1> QED
  BY <1>2, Moved DEF IInv, TypeOK

LEMMA ProposeStep == ASSUME IInv, NEW b \in Branches, Propose(b) PROVE IInv'
<1>1. PICK l \in IF host = "bitbucket" THEN {FALSE} ELSE {(b \in labelled), TRUE} :
         /\ labelled' = IF l THEN labelled \cup {b} ELSE labelled
         /\ Send(<<PRPayload(IF pr[b] = "none" THEN "open" ELSE "reopen", b, "open", l)>>)
         /\ want' = IF Promised(b, TRUE, l) THEN want \cup {b} ELSE want
  BY DEF Propose
<1>2. l \in BOOLEAN
  <2>1. (b \in labelled) \in BOOLEAN /\ TRUE \in BOOLEAN /\ FALSE \in BOOLEAN
    OBVIOUS
  <2>2. \A x \in {(b \in labelled), TRUE} : x \in BOOLEAN
    BY <2>1, Zenon
  <2> QED
    BY <2>1, <2>2, Zenon
<1>3. PICK what \in {"open", "reopen"} : what = IF pr[b] = "none" THEN "open" ELSE "reopen"
  OBVIOUS
<1>4. <<PRPayload(what, b, "open", l)>> \in Seq(Sendable)
  BY <1>2, RequestSendable
<1>5. PICK payloads \in Seq(Sendable) : payloads = <<PRPayload(what, b, "open", l)>>
  BY <1>4
<1>6. Send(payloads)
  BY <1>1, <1>3, <1>5
<1>7. Move /\ UNCHANGED <<refs, astray>> /\ pr' = [pr EXCEPT ![b] = "open"]
  BY DEF Propose
<1>8. /\ pr' \in [Branches -> {"none", "open", "closed", "merged"}] /\ labelled' \subseteq Branches
      /\ want' \subseteq Branches /\ refs' \subseteq Branches /\ astray' \subseteq Branches
  BY <1>1, <1>7 DEF IInv, TypeOK
<1> QED
  BY <1>6, <1>7, <1>8, Moved

LEMMA ConcludeStep ==
  ASSUME IInv, NEW b \in Branches, NEW how \in {"close", "merge"}, Conclude(b, how) PROVE IInv'
<1>1. PICK s \in {"closed", "merged"} : pr' = [pr EXCEPT ![b] = s] /\ pr'[b] = s
  BY DEF Conclude, IInv, TypeOK
<1>2. (b \in labelled) \in BOOLEAN
  OBVIOUS
<1>3. <<PRPayload(how, b, s, b \in labelled)>> \in Seq(Sendable)
  BY <1>2, RequestSendable
<1>4. PICK payloads \in Seq(Sendable) : payloads = <<PRPayload(how, b, s, b \in labelled)>>
  BY <1>3
<1>5. Move /\ Send(payloads) /\ UNCHANGED <<refs, labelled>> /\ want' = want \ {b} /\ astray' = astray \ {b}
  BY <1>1, <1>4 DEF Conclude
<1>6. /\ pr' \in [Branches -> {"none", "open", "closed", "merged"}] /\ labelled' \subseteq Branches
      /\ want' \subseteq Branches /\ refs' \subseteq Branches /\ astray' \subseteq Branches
  BY <1>1, <1>5 DEF IInv, TypeOK
<1> QED
  BY <1>5, <1>6, Moved

LEMMA EditStep == ASSUME IInv, NEW b \in Branches, Edit(b) PROVE IInv'
<1>1. PICK l \in IF host = "bitbucket" THEN {FALSE} ELSE BOOLEAN :
         /\ labelled' = IF l THEN labelled \cup {b} ELSE labelled \ {b}
         /\ Send(<<PRPayload("edit", b, pr[b], l)>>)
         /\ want' \in {want, want \ {b}, want \cup {b}}
  BY DEF Edit
<1>2. PICK s \in {"open", "closed", "merged"} : pr[b] = s
  BY DEF Edit, IInv, TypeOK
<1>3. l \in BOOLEAN
  BY <1>1
<1>4. <<PRPayload("edit", b, s, l)>> \in Seq(Sendable)
  BY <1>3, RequestSendable
<1>5. PICK payloads \in Seq(Sendable) : payloads = <<PRPayload("edit", b, s, l)>>
  BY <1>4
<1>6. Move /\ Send(payloads) /\ UNCHANGED <<refs, pr, astray>>
  BY <1>1, <1>2, <1>5 DEF Edit
<1>7. /\ pr' \in [Branches -> {"none", "open", "closed", "merged"}] /\ labelled' \subseteq Branches
      /\ want' \subseteq Branches /\ refs' \subseteq Branches /\ astray' \subseteq Branches
  BY <1>1, <1>6 DEF IInv, TypeOK
<1> QED
  BY <1>6, <1>7, Moved

LEMMA StepIInv == IInv /\ [Next]_vars => IInv'
<1> SUFFICES ASSUME IInv, [Next]_vars PROVE IInv'
  OBVIOUS
<1>1. CASE UNCHANGED vars
  BY <1>1 DEF vars, IInv, TypeOK, ClosedNeverDeploys, GateIsAbsolute, Sendable
<1>2. ASSUME NEW b \in Branches,
             \/ CommitWithTag(b) \/ OddPush(b) \/ Propose(b) \/ Edit(b)
             \/ \E how \in {"close", "merge"} : Conclude(b, how)
      PROVE  IInv'
  BY <1>2, CommitWithTagStep, OddPushStep, ProposeStep, EditStep, ConcludeStep
<1> QED
  BY <1>1, <1>2, DeliverStep, PushStep DEF Next

(* The inductive invariant holds for any branches, policies and bounds. *)
THEOREM Invariance == Spec => []IInv
  BY InitIInv, StepIInv, PTL DEF Spec

(* The types of the intake's state. *)
THEOREM TypeCorrect == Spec => []TypeOK
<1>1. IInv => TypeOK
  BY DEF IInv
<1> QED
  BY <1>1, Invariance, PTL

(* Whatever the order of delivery, no webhook of a request that was closed    *)
(* or merged when it was sent puts an environment up: all three parsers look  *)
(* at the state, or at an action only an open request has.                    *)
THEOREM ClosedStaysDown == Spec => []ClosedNeverDeploys
<1>1. IInv => ClosedNeverDeploys
  BY DEF IInv
<1> QED
  BY <1>1, Invariance, PTL

(* pr_only and required_labels together admit only requests that carried the  *)
(* label, whatever the patterns, the branches and the order of delivery.      *)
THEOREM LabelGate == Spec => []GateIsAbsolute
<1>1. IInv => GateIsAbsolute
  BY DEF IInv
<1> QED
  BY <1>1, Invariance, PTL

-----------------------------------------------------------------------------
(* Once all is processed in order, environments are as documented.  Of the   *)
(* webhooks under way about a branch the last one decides, so the invariant  *)
(* says of each branch that the last webhook that will change it leaves it   *)
(* as promised, and that it is as promised when there is none.               *)

Raises(wp, b) ==
  LET ev == ParseWebhook(wp)
  IN  ev.kind \in {"branch_pushed", "pr_synchronized"} /\ ev.branch = b /\ Decide(ev)

Lowers(wp, b) ==
  LET ev == ParseWebhook(wp)
  IN  ev.kind \in {"pr_closed", "branch_deleted"} /\ ev.branch = b

Touches(wp, b) == Raises(wp, b) \/ Lowers(wp, b)

Heeded(b) ==
  /\ \A i \in DOMAIN sent :
       Touches(sent[i], b) /\ (\A j \in DOMAIN sent : j > i => ~Touches(sent[j], b))
         => (Raises(sent[i], b) <=> b \in want)
  /\ (\A i \in DOMAIN sent : ~Touches(sent[i], b)) => (env[b].up <=> b \in want)

Plain == \A pattern \in policy.deny \cup policy.allow : Documented(pattern)

(* What a push that is not read as documented gets wrong is an environment a *)
(* later push would put right: one that pushes are promised.                 *)
DInv ==
  /\ policy \in Policies
  /\ host = "bitbucket" =>
       \A b \in want : Promised(b, FALSE, FALSE) \/ (pr[b] = "open" /\ Promised(b, TRUE, TRUE))
  /\ ~disorder /\ Plain =>
       \A b \in Branches : Heeded(b) \/ (b \in astray /\ Promised(b, FALSE, FALSE))

(* Cuts of one segment each. *)
LEMMA CountsUp ==
  ASSUME NEW m \in Nat, NEW cut, cut[0] = 0, \A i \in 1..m : cut[i] = cut[i - 1] + 1
  PROVE  \A i \in 0..m : cut[i] = i
<1> DEFINE T == {i \in 0..m : cut[i] # i}
<1>1. SUFFICES ASSUME T # {} PROVE FALSE
  OBVIOUS
<1>2. PICK i \in T : \A j \in T : i <= j
  <2>1. T \in SUBSET Nat
    OBVIOUS
  <2> HIDE DEF T
  <2> QED
    BY <1>1, <2>1, LeastNumber
<1>3. i \in 0..m /\ i # 0 /\ cut[i] # i
  BY <1>2
<1>4. i - 1 \in 0..m /\ i - 1 \notin T
  BY <1>2, <1>3
<1>5. cut[i - 1] = i - 1 /\ cut[i] = cut[i - 1] + 1
  BY <1>3, <1>4
<1> QED
  BY <1>3, <1>5

(* StartsWith, element by element. *)
LEMMA PrefixesAgree ==
  ASSUME NEW p \in Seq(STRING), NEW b \in Seq(STRING), NEW m \in Nat, m <= Len(p), m <= Len(b)
  PROVE  StartsWith(b, SubSeq(p, 1, m)) <=> \A i \in 1..m : p[i] = b[i]
<1>1. Len(p) \in Nat /\ Len(b) \in Nat /\ (\A i \in 1..m : p[i] \in STRING) /\ \A i \in 1..m : b[i] \in STRING
  BY LenProperties, ElementOfSeq
<1>2. /\ SubSeq(p, 1, m) \in Seq(STRING) /\ Len(SubSeq(p, 1, m)) = m
      /\ \A i \in 1..m : SubSeq(p, 1, m)[i] = p[i]
  BY <1>1, SubSeqProperties
<1>3. /\ SubSeq(b, 1, m) \in Seq(STRING) /\ Len(SubSeq(b, 1, m)) = m
      /\ \A i \in 1..m : SubSeq(b, 1, m)[i] = b[i]
  BY <1>1, SubSeqProperties
<1>4. StartsWith(b, SubSeq(p, 1, m)) <=> SubSeq(b, 1, m) = SubSeq(p, 1, m)
  BY <1>1, <1>2 DEF StartsWith
<1>5. ASSUME \A i \in 1..m : p[i] = b[i] PROVE SubSeq(b, 1, m) = SubSeq(p, 1, m)
  BY <1>2, <1>3, <1>5, SeqEqual
<1> QED
  BY <1>2, <1>3, <1>4, <1>5

(* For patterns and names of any length: what policy.matches accepts (a test  *)
(* on the prefix for a trailing "/**", path.Match otherwise) is what the      *)
(* documented reading accepts, provided the pattern is a documented one.      *)
THEOREM GlobMatches ==
  ASSUME NEW pattern \in Seq(STRING), pattern # <<>>, Documented(pattern),
         NEW b \in Seq(STRING), b # <<>>
  PROVE  Glob(pattern, b) <=> matches(pattern, b)
<1>0. PICK n \in Nat \ {0} : n = Len(pattern)
  BY EmptySeq, LenProperties
<1>1. /\ DOMAIN pattern = 1..n /\ Len(b) \in Nat \ {0} /\ DOMAIN b = 1..Len(b) /\ n - 1 \in Nat
  BY <1>0, EmptySeq, LenProperties
<1>2. \A i \in 1..n : /\ pattern[i] # Broken
                      /\ pattern[n] = "**" /\ i < n => pattern[i] \notin Wild
                      /\ pattern[i] = "**" => i = n
  BY <1>0, <1>1 DEF Documented
<1>3. CASE pattern[n] = "**"
  <2>1. ASSUME Glob(pattern, b) PROVE matches(pattern, b)
    <3>1. PICK cut \in [0..n -> 0..Len(b)] :
            /\ cut[0] = 0 /\ cut[n] = Len(b)
            /\ \A i \in 1..n : IF pattern[i] = "**" THEN cut[i] > cut[i - 1]
                               ELSE cut[i] = cut[i - 1] + 1 /\ pattern[i] \in {"*", b[cut[i]]}
      BY <1>0, <2>1 DEF Glob
    <3>2. ASSUME NEW i \in 1..(n - 1) PROVE cut[i] = cut[i - 1] + 1 /\ pattern[i] = b[cut[i]]
      <4>1. i \in 1..n /\ i < n
        OBVIOUS
      <4>2. pattern[i] \notin {"*", "**"}
        BY <1>2, <1>3, <4>1 DEF Wild
      <4> QED
        BY <3>1, <4>1, <4>2
    <3>4. \A i \in 0..(n - 1) : cut[i] = i
      BY <1>1, <3>1, <3>2, CountsUp
    <3>5. n <= Len(b) /\ \A i \in 1..(n - 1) : pattern[i] = b[i]
      <4>1. cut[n] > cut[n - 1] /\ cut[n - 1] = n - 1 /\ cut[n] = Len(b)
        BY <1>1, <1>3, <3>1, <3>4
      <4>2. n <= Len(b)
        BY <1>1, <4>1
      <4> QED
        BY <3>2, <3>4, <4>2
    <3>6. StartsWith(b, SubSeq(pattern, 1, n - 1))
      <4>1. n - 1 <= Len(pattern) /\ n - 1 <= Len(b)
        BY <1>0, <1>1, <3>5
      <4> QED
        BY <1>1, <3>5, <4>1, PrefixesAgree
    <3> QED
      BY <1>0, <1>3, <3>5, <3>6 DEF matches
  <2>2. ASSUME matches(pattern, b) PROVE Glob(pattern, b)
    <3>1. n <= Len(b) /\ \A i \in 1..(n - 1) : pattern[i] = b[i]
      <4>1. CASE n = 1
        BY <1>1, <4>1
      <4>2. CASE n # 1
        <5>1. n <= Len(b) /\ StartsWith(b, SubSeq(pattern, 1, n - 1))
          BY <1>0, <1>3, <2>2, <4>2 DEF matches
        <5>2. n - 1 <= Len(pattern) /\ n - 1 <= Len(b)
          BY <1>0, <1>1, <5>1
        <5> QED
          BY <1>1, <5>1, <5>2, PrefixesAgree
      <4> QED
        BY <4>1, <4>2
    <3> DEFINE cut == [i \in 0..n |-> IF i = n THEN Len(b) ELSE i]
    <3>2. cut \in [0..n -> 0..Len(b)] /\ cut[0] = 0 /\ cut[n] = Len(b)
      BY <1>1, <3>1
    <3>3. ASSUME NEW i \in 1..n
          PROVE  IF pattern[i] = "**" THEN cut[i] > cut[i - 1]
                 ELSE cut[i] = cut[i - 1] + 1 /\ pattern[i] \in {"*", b[cut[i]]}
      <4>1. CASE i = n
        <5>1. i \in 0..n /\ i - 1 \in 0..n /\ i - 1 # n /\ i - 1 = n - 1
          BY <4>1
        <5>2. cut[i] = Len(b) /\ cut[i - 1] = n - 1
          BY <4>1, <5>1
        <5> HIDE DEF cut
        <5>3. cut[i] > cut[i - 1]
          BY <1>1, <3>1, <5>2
        <5> QED
          BY <1>3, <4>1, <5>3
      <4>2. CASE i # n
        <5>0. i \in 1..(n - 1) /\ i \in 0..n /\ i - 1 \in 0..n /\ i - 1 # n
          BY <4>2
        <5>1. cut[i] = i /\ cut[i - 1] = i - 1
          BY <4>2, <5>0
        <5>2. pattern[i] # "**" /\ pattern[i] = b[i]
          BY <1>2, <3>1, <4>2, <5>0
        <5> HIDE DEF cut
        <5> QED
          BY <5>0, <5>1, <5>2
      <4> QED
        BY <4>1, <4>2
    <3> HIDE DEF cut
    <3> QED
      BY <1>0, <3>2, <3>3 DEF Glob
  <2> QED
    BY <2>1, <2>2
<1>4. CASE pattern[n] # "**"
  <2>0. \A i \in 1..n : pattern[i] # "**"
    BY <1>2, <1>4
  <2>1. ASSUME Glob(pattern, b) PROVE matches(pattern, b)
    <3>1. PICK cut \in [0..n -> 0..Len(b)] :
            /\ cut[0] = 0 /\ cut[n] = Len(b)
            /\ \A i \in 1..n : IF pattern[i] = "**" THEN cut[i] > cut[i - 1]
                               ELSE cut[i] = cut[i - 1] + 1 /\ pattern[i] \in {"*", b[cut[i]]}
      BY <1>0, <2>1 DEF Glob
    <3>2. \A i \in 1..n : cut[i] = cut[i - 1] + 1 /\ pattern[i] \in {"*", b[cut[i]]}
      BY <2>0, <3>1
    <3>3. \A i \in 0..n : cut[i] = i
      BY <1>1, <3>1, <3>2, CountsUp
    <3>4. Len(b) = n
      BY <3>1, <3>3
    <3>5. ASSUME NEW i \in 1..n PROVE pattern[i] \in Wild \/ b[i] = pattern[i]
      <4>1. cut[i] = i
        BY <3>3
      <4> QED
        BY <3>2, <4>1 DEF Wild
    <3> QED
      BY <1>0, <1>1, <1>2, <1>4, <3>4, <3>5 DEF matches
  <2>2. ASSUME matches(pattern, b) PROVE Glob(pattern, b)
    <3>1. Len(b) = n /\ \A i \in 1..n : pattern[i] \in Wild \/ b[i] = pattern[i]
      BY <1>0, <1>1, <1>4, <2>2 DEF matches
    <3> DEFINE cut == [i \in 0..n |-> i]
    <3>2. cut \in [0..n -> 0..Len(b)] /\ cut[0] = 0 /\ cut[n] = Len(b)
      BY <1>1, <3>1
    <3>3. ASSUME NEW i \in 1..n PROVE cut[i] = cut[i - 1] + 1 /\ pattern[i] \in {"*", b[cut[i]]}
      <4>1. cut[i] = i /\ cut[i - 1] = i - 1
        BY <1>1
      <4> QED
        BY <2>0, <3>1, <4>1 DEF Wild
    <3> HIDE DEF cut
    <3> QED
      BY <1>0, <2>0, <3>2, <3>3 DEF Glob
  <2> QED
    BY <2>1, <2>2
<1> QED
  BY <1>3, <1>4

(* The filter keeps what is promised, for a push and for a request. *)
LEMMA PatternsAsPromised ==
  ASSUME policy \in Policies, Plain, NEW b \in Branches
  PROVE  /\ ~matchesAny(policy.deny, b) <=> \A pattern \in policy.deny : ~Glob(pattern, b)
         /\ matchesAny(policy.allow, b) <=> \E pattern \in policy.allow : Glob(pattern, b)
<1>1. b \in Seq(STRING) /\ b # <<>>
  BY IntakeAssumption
<1>2. \A pattern \in policy.deny \cup policy.allow : pattern \in Seq(STRING) /\ pattern # <<>>
  BY IntakeAssumption
<1>3. \A pattern \in policy.deny \cup policy.allow : Glob(pattern, b) <=> matches(pattern, b)
  BY <1>1, <1>2, GlobMatches DEF Plain
<1> QED
  BY <1>3 DEF matchesAny

LEMMA PushAsPromised ==
  ASSUME policy \in Policies, Plain, NEW b \in Branches, NEW kind
  PROVE  Decide(RefEvent(kind, b)) <=> Promised(b, FALSE, FALSE)
<1> DEFINE ev == RefEvent(kind, b)
<1>1. ~ev.pr /\ ev.branch = b /\ ~ev.labelsKnown
  BY DEF RefEvent
<1> HIDE DEF ev
<1>2. Decide(ev) <=> Promised(b, FALSE, FALSE)
  BY <1>1, PatternsAsPromised DEF Decide, Promised
<1> QED
  BY <1>2 DEF ev

LEMMA RequestAsPromised ==
  ASSUME policy \in Policies, Plain, NEW wp \in RequestPayload, NEW kind, NEW known \in BOOLEAN,
         known <=> host # "bitbucket"
  PROVE  Decide(PREvent(kind, wp, known)) <=> Promised(wp.branch, TRUE, wp.labelled)
<1> DEFINE ev == PREvent(kind, wp, known)
<1>1. wp.branch \in Branches /\ wp.labelled \in BOOLEAN
  BY DEF RequestPayload
<1>2. ev.pr /\ ev.branch = wp.branch /\ (ev.labelsKnown <=> host # "bitbucket")
      /\ (ev.labelsKnown => (ev.labels <=> wp.labelled))
  BY <1>1 DEF PREvent
<1> HIDE DEF ev
<1>3. Decide(ev) <=> Promised(wp.branch, TRUE, wp.labelled)
  BY <1>1, <1>2, PatternsAsPromised DEF Decide, Promised
<1> QED
  BY <1>3 DEF ev

(* What each event does to a branch once it is processed. *)
LEMMA UnhandledTouchesNone ==
  ASSUME NEW wp, ParseWebhook(wp) = Unhandled, NEW x PROVE ~Touches(wp, x)
  BY DEF Touches, Raises, Lowers, Unhandled

LEMMA PushRaises ==
  ASSUME policy \in Policies, Plain, NEW wp, NEW b \in Branches, NEW x,
         ParseWebhook(wp) = RefEvent("branch_pushed", b)
  PROVE  ~Lowers(wp, x) /\ (Raises(wp, x) <=> x = b /\ Promised(b, FALSE, FALSE))
<1>1. RefEvent("branch_pushed", b).kind = "branch_pushed" /\ RefEvent("branch_pushed", b).branch = b
  BY DEF RefEvent
<1>2. Decide(RefEvent("branch_pushed", b)) <=> Promised(b, FALSE, FALSE)
  BY PushAsPromised
<1> QED
  BY <1>1, <1>2 DEF Lowers, Raises

LEMMA DeletionLowers ==
  ASSUME NEW wp, NEW b, NEW x, ParseWebhook(wp) = RefEvent("branch_deleted", b)
  PROVE  ~Raises(wp, x) /\ (Lowers(wp, x) <=> x = b)
  BY DEF Raises, Lowers, RefEvent

LEMMA RequestRaises ==
  ASSUME policy \in Policies, Plain, NEW wp \in RequestPayload, NEW known \in BOOLEAN, NEW x,
         ParseWebhook(wp) = PREvent("pr_synchronized", wp, known), known <=> host # "bitbucket"
  PROVE  ~Lowers(wp, x) /\ (Raises(wp, x) <=> x = wp.branch /\ Promised(wp.branch, TRUE, wp.labelled))
<1> DEFINE ev == PREvent("pr_synchronized", wp, known)
<1>1. ev.kind = "pr_synchronized" /\ ev.branch = wp.branch
  BY DEF PREvent
<1>2. Decide(ev) <=> Promised(wp.branch, TRUE, wp.labelled)
  BY RequestAsPromised
<1>3. ParseWebhook(wp) = ev
  OBVIOUS
<1> HIDE DEF ev
<1> QED
  BY <1>1, <1>2, <1>3 DEF Lowers, Raises

LEMMA ClosingLowers ==
  ASSUME NEW wp, NEW known, NEW x, ParseWebhook(wp) = PREvent("pr_closed", wp, known)
  PROVE  ~Raises(wp, x) /\ (Lowers(wp, x) <=> x = wp.branch)
  BY DEF Raises, Lowers, PREvent

(* What a host's payload about a request does. *)
LEMMA OpenTells ==
  ASSUME host \in {"github", "gitlab", "bitbucket"}, policy \in Policies, Plain,
         NEW b \in Branches, NEW label \in BOOLEAN, NEW what \in {"open", "reopen", "commit", "edit"},
         what = "edit" => host # "github", NEW x
  PROVE  /\ ~Lowers(PRPayload(what, b, "open", label), x)
         /\ Raises(PRPayload(what, b, "open", label), x) <=> x = b /\ Promised(b, TRUE, label)
<1> DEFINE wp == PRPayload(what, b, "open", label)
<1>1. Action(what) \in Actions
      /\ (host = "github" => Action(what) \in {"opened", "reopened", "synchronize"})
      /\ (host = "gitlab" => Action(what) \in {"open", "reopen", "update"})
  BY DEF Action, Actions
<1>2. wp \in RequestPayload /\ wp.type = "pr" /\ wp.action = Action(what) /\ wp.branch = b
      /\ wp.state = "open" /\ wp.labelled = label
  BY <1>1 DEF PRPayload, RequestPayload, States
<1> HIDE DEF wp
<1>3. CASE host = "github"
  <2>1. ParseWebhook(wp) = PREvent("pr_synchronized", wp, TRUE)
    BY <1>1, <1>2, <1>3 DEF ParseWebhook, GitHubPayload, GitHubPullRequest
  <2> QED
    BY <1>2, <1>3, <2>1, RequestRaises DEF wp
<1>4. CASE host = "gitlab"
  <2>1. ParseWebhook(wp) = PREvent("pr_synchronized", wp, TRUE)
    BY <1>1, <1>2, <1>4 DEF ParseWebhook, GitLabPayload, GitLabMergeRequest
  <2> QED
    BY <1>2, <1>4, <2>1, RequestRaises DEF wp
<1>5. CASE host = "bitbucket"
  <2>1. ParseWebhook(wp) = PREvent("pr_synchronized", wp, FALSE)
    BY <1>1, <1>2, <1>5 DEF ParseWebhook, BitbucketPayload, BitbucketPullRequest
  <2> QED
    BY <1>2, <1>5, <2>1, RequestRaises DEF wp
<1> QED
  BY <1>3, <1>4, <1>5

LEMMA ClosedTells ==
  ASSUME host \in {"github", "gitlab", "bitbucket"}, NEW b \in Branches, NEW label \in BOOLEAN,
         NEW what \in {"close", "merge", "edit"}, NEW state \in {"closed", "merged"},
         what = "edit" => host # "github", NEW x
  PROVE  /\ ~Raises(PRPayload(what, b, state, label), x)
         /\ Lowers(PRPayload(what, b, state, label), x) <=> x = b
<1> DEFINE wp == PRPayload(what, b, state, label)
<1>1. host = "github" => Action(what) = "closed"
  BY DEF Action
<1>2. wp.type = "pr" /\ wp.action = Action(what) /\ wp.branch = b /\ wp.state = state
  BY DEF PRPayload
<1> HIDE DEF wp
<1>3. \E known : ParseWebhook(wp) = PREvent("pr_closed", wp, known)
  <2>1. CASE host = "github"
    BY <1>1, <1>2, <2>1 DEF ParseWebhook, GitHubPayload, GitHubPullRequest
  <2>2. CASE host = "gitlab"
    BY <1>2, <2>2 DEF ParseWebhook, GitLabPayload, GitLabMergeRequest
  <2>3. CASE host = "bitbucket"
    BY <1>2, <2>3 DEF ParseWebhook, BitbucketPayload, BitbucketPullRequest
  <2> QED
    BY <2>1, <2>2, <2>3
<1> QED
  BY <1>2, <1>3, ClosingLowers DEF wp

LEMMA EditUnheard ==
  ASSUME host = "github", NEW b, NEW state, NEW label, NEW x
  PROVE  ~Touches(PRPayload("edit", b, state, label), x)
<1> DEFINE wp == PRPayload("edit", b, state, label)
<1>1. wp.type = "pr" /\ wp.action = "edit"
  BY DEF PRPayload, Action
<1> HIDE DEF wp
<1>2. ParseWebhook(wp) = Unhandled
  BY <1>1 DEF ParseWebhook, GitHubPayload, GitHubPullRequest
<1> QED
  BY <1>2, UnhandledTouchesNone DEF wp

(* What a host's payload about a push does: its first change that names a     *)
(* branch is the event.                                                       *)
PushOf(changes) == [type |-> "push", changes |-> changes]

LEMMA PushTells ==
  ASSUME host \in {"github", "gitlab", "bitbucket"}, NEW changes \in Seq(Change), NEW k \in 1..Len(changes),
         host # "bitbucket" => k = 1, changes[k].after \in {"commit", "zero"},
         \A j \in 1..Len(changes) : j < k => changes[j].after \notin {"commit", "zero"}
  PROVE  ParseWebhook(PushOf(changes)) =
           RefEvent(IF changes[k].after = "zero" THEN "branch_deleted" ELSE "branch_pushed",
                    changes[k].branch)
<1> DEFINE wp == PushOf(changes)
<1>1. wp.type = "push" /\ wp.changes = changes
  BY DEF PushOf
<1> HIDE DEF wp
<1>2. CASE host = "github"
  BY <1>1, <1>2 DEF ParseWebhook, GitHubPayload, GitHubRef, wp
<1>3. CASE host = "gitlab"
  BY <1>1, <1>3 DEF ParseWebhook, GitLabPayload, GitLabPush, wp
<1>4. CASE host = "bitbucket"
  <2> DEFINE named == {i \in DOMAIN changes : changes[i].after \in {"commit", "zero"}}
  <2>1. DOMAIN changes = 1..Len(changes) /\ Len(changes) \in Nat
    BY LenProperties
  <2>2. k \in named /\ \A j \in named : k <= j
    BY <2>1
  <2>3. \A i \in named : (\A j \in named : i <= j) => i = k
    BY <2>1, <2>2
  <2>4. (CHOOSE i \in named : \A j \in named : i <= j) = k
    <3> HIDE DEF named
    <3> QED
      BY <2>2, <2>3
  <2>5. ParseWebhook(wp) = BitbucketPush(changes)
    BY <1>1, <1>4 DEF ParseWebhook, BitbucketPayload
  <2> QED
    BY <2>2, <2>4, <2>5 DEF BitbucketPush, wp
<1> QED
  BY <1>2, <1>3, <1>4

LEMMA OneSeq == ASSUME NEW c \in Change PROVE <<c>> \in Seq(Change) /\ Len(<<c>>) = 1 /\ <<c>>[1] = c
  OBVIOUS

LEMMA CommitTells ==
  ASSUME host \in {"github", "gitlab", "bitbucket"}, policy \in Policies, Plain,
         NEW b \in Branches, NEW x
  PROVE  LET wp == PushOf(<< [branch |-> b, after |-> "commit"] >>)
         IN  ~Lowers(wp, x) /\ (Raises(wp, x) <=> x = b /\ Promised(b, FALSE, FALSE))
<1> DEFINE c == [branch |-> b, after |-> "commit"]
<1>1. c \in Change /\ c.after = "commit" /\ c.branch = b
  BY DEF Change
<1> HIDE DEF c
<1>2. ParseWebhook(PushOf(<<c>>)) = RefEvent("branch_pushed", b)
  <2>1. <<c>> \in Seq(Change) /\ 1 \in 1..Len(<<c>>) /\ <<c>>[1] = c
    BY <1>1, OneSeq
  <2>2. \A j \in 1..Len(<<c>>) : ~(j < 1)
    BY <1>1, OneSeq
  <2> QED
    BY <1>1, <2>1, <2>2, PushTells
<1> QED
  BY <1>2, PushRaises DEF c

LEMMA ZeroTells ==
  ASSUME host \in {"github", "gitlab", "bitbucket"}, NEW changes \in Seq(Change), changes # <<>>,
         changes[1].after = "zero", NEW x
  PROVE  ~Raises(PushOf(changes), x) /\ (Lowers(PushOf(changes), x) <=> x = changes[1].branch)
<1>1. 1 \in 1..Len(changes) /\ \A j \in 1..Len(changes) : ~(j < 1)
  BY EmptySeq, LenProperties
<1>2. ParseWebhook(PushOf(changes)) = RefEvent("branch_deleted", changes[1].branch)
  BY <1>1, PushTells
<1> QED
  BY <1>2, DeletionLowers

LEMMA AbsentTells ==
  ASSUME host \in {"github", "gitlab", "bitbucket"}, policy \in Policies, Plain,
         NEW b \in Branches, NEW x
  PROVE  LET wp == PushOf(<< [branch |-> b, after |-> "absent"] >>)
         IN  ~Lowers(wp, x) /\ (Raises(wp, x) <=> host = "github" /\ x = b /\ Promised(b, FALSE, FALSE))
<1> DEFINE c == [branch |-> b, after |-> "absent"]
           wp == PushOf(<<c>>)
<1>1. c \in Change /\ c.after = "absent" /\ c.branch = b
  BY DEF Change
<1> HIDE DEF c
<1>2. wp.type = "push" /\ wp.changes = <<c>> /\ <<c>>[1] = c /\ DOMAIN <<c>> = {1}
  BY DEF PushOf
<1> HIDE DEF wp
<1>3. CASE host = "github"
  <2>1. ParseWebhook(wp) = RefEvent("branch_pushed", b)
    BY <1>1, <1>2, <1>3 DEF ParseWebhook, GitHubPayload, GitHubRef
  <2> QED
    BY <1>3, <2>1, PushRaises DEF wp, c
<1>4. CASE host = "gitlab"
  <2>1. ParseWebhook(wp) = Unhandled
    BY <1>1, <1>2, <1>4 DEF ParseWebhook, GitLabPayload, GitLabPush
  <2> QED
    BY <1>4, <2>1, UnhandledTouchesNone DEF wp, c, Touches
<1>5. CASE host = "bitbucket"
  <2>1. {i \in DOMAIN <<c>> : <<c>>[i].after \in {"commit", "zero"}} = {}
    BY <1>1, <1>2
  <2>2. ParseWebhook(wp) = Unhandled
    BY <1>2, <1>5, <2>1 DEF ParseWebhook, BitbucketPayload, BitbucketPush
  <2> QED
    BY <1>5, <2>2, UnhandledTouchesNone DEF wp, c, Touches
<1> QED
  BY <1>3, <1>4, <1>5

LEMMA TagUnheard ==
  ASSUME host \in {"github", "gitlab"}, NEW b, NEW x
  PROVE  ~Touches(PushOf(<< [branch |-> b, after |-> "tag"] >>), x)
<1> DEFINE c == [branch |-> b, after |-> "tag"]
           wp == PushOf(<<c>>)
<1>1. c.after = "tag" /\ wp.type = "push" /\ wp.changes = <<c>> /\ <<c>>[1] = c
  BY DEF PushOf
<1> HIDE DEF c, wp
<1>2. ParseWebhook(wp) = Unhandled
  BY <1>1 DEF ParseWebhook, GitHubPayload, GitHubRef, GitLabPayload, GitLabPush
<1> QED
  BY <1>2, UnhandledTouchesNone DEF wp, c

(* The webhooks of a push. *)
LEMMA PushRange ==
  ASSUME NEW changes \in Seq(Change)
  PROVE  Range(PushPayloads(changes)) =
           IF host = "bitbucket" THEN {PushOf(changes)}
           ELSE {PushOf(<<changes[i]>>) : i \in 1..Len(changes)}
<1>1. CASE host = "bitbucket"
  <2>1. PushPayloads(changes) = <<PushOf(changes)>>
    BY <1>1 DEF PushPayloads, PushOf
  <2> QED
    BY <1>1, <2>1 DEF Range
<1>2. CASE host # "bitbucket"
  <2>1. PushPayloads(changes) = [i \in 1..Len(changes) |-> PushOf(<<changes[i]>>)]
    BY <1>2, LenProperties DEF PushPayloads, PushOf
  <2> QED
    BY <1>2, <2>1 DEF Range
<1> QED
  BY <1>1, <1>2

LEMMA OnePushRange ==
  ASSUME NEW b \in Branches, NEW after \in {"commit", "zero", "tag", "absent"}
  PROVE  Range(PushPayloads(<< [branch |-> b, after |-> after] >>)) =
           {PushOf(<< [branch |-> b, after |-> after] >>)}
<1> DEFINE c == [branch |-> b, after |-> after]
<1>1. c \in Change
  BY DEF Change
<1> HIDE DEF c
<1>2. <<c>> \in Seq(Change) /\ Len(<<c>>) = 1 /\ <<c>>[1] = c
  BY <1>1, OneSeq
<1>3. {PushOf(<< <<c>>[i] >>) : i \in 1..Len(<<c>>)} = {PushOf(<<c>>)}
  BY <1>2
<1> QED
  BY <1>2, <1>3, PushRange DEF c

(* The reading of a webhook depends on host and policy alone, which stay. *)
LEMMA SameReading ==
  ASSUME UNCHANGED <<host, policy>>
  PROVE  /\ \A wp, b : Raises(wp, b)' <=> Raises(wp, b)
         /\ \A wp, b : Lowers(wp, b)' <=> Lowers(wp, b)
         /\ \A wp, b : Touches(wp, b)' <=> Touches(wp, b)
         /\ Plain' <=> Plain
         /\ \A b : Promised(b, FALSE, FALSE)' <=> Promised(b, FALSE, FALSE)
         /\ \A b : Promised(b, TRUE, TRUE)' <=> Promised(b, TRUE, TRUE)
<1>1. \A wp, b : Raises(wp, b)' <=> Raises(wp, b)
  BY DEF Raises, Decide, ParseWebhook, GitHubPayload, GitLabPayload, BitbucketPayload
<1>2. \A wp, b : Lowers(wp, b)' <=> Lowers(wp, b)
  BY DEF Lowers, ParseWebhook, GitHubPayload, GitLabPayload, BitbucketPayload
<1>3. Plain' <=> Plain
  BY DEF Plain
<1>4. (\A b : Promised(b, FALSE, FALSE)' <=> Promised(b, FALSE, FALSE))
      /\ \A b : Promised(b, TRUE, TRUE)' <=> Promised(b, TRUE, TRUE)
  BY DEF Promised
<1> QED
  BY <1>1, <1>2, <1>3, <1>4 DEF Touches

LEMMA HeededNext ==
  ASSUME UNCHANGED <<host, policy>>, NEW b,
         \A i \in DOMAIN sent' :
           Touches(sent'[i], b) /\ (\A j \in DOMAIN sent' : j > i => ~Touches(sent'[j], b))
             => (Raises(sent'[i], b) <=> b \in want'),
         (\A i \in DOMAIN sent' : ~Touches(sent'[i], b)) => (env'[b].up <=> b \in want')
  PROVE  Heeded(b)'
<1>1. \A i : (Raises(sent[i], b)' <=> Raises(sent'[i], b)) /\ (Touches(sent[i], b)' <=> Touches(sent'[i], b))
  BY DEF Touches, Raises, Lowers, Decide, ParseWebhook, GitHubPayload, GitLabPayload, BitbucketPayload
<1> QED
  BY <1>1 DEF Heeded

(* A move in the repository keeps branch b as promised if each webhook it     *)
(* sends about b says so, and if it sends none when it changes nothing.       *)
LEMMA HeededAfterMove ==
  ASSUME IInv, UNCHANGED <<host, policy, env>>, NEW payloads \in Seq(Sendable), sent' = sent \o payloads,
         NEW b, \A wp \in Range(payloads) : Touches(wp, b) => (Raises(wp, b) <=> b \in want'),
         \/ \E wp \in Range(payloads) : Touches(wp, b)
         \/ Heeded(b) /\ (b \in want' <=> b \in want)
  PROVE  Heeded(b)'
<1> DEFINE n == Len(sent)
           m == Len(payloads)
<1>1. sent \in Seq(Sendable) /\ n \in Nat /\ m \in Nat /\ DOMAIN sent = 1..n /\ DOMAIN payloads = 1..m
  BY LenProperties DEF IInv
<1>2. /\ sent' \in Seq(Sendable) /\ Len(sent') = n + m /\ DOMAIN sent' = 1..(n + m)
      /\ \A i \in 1..(n + m) : sent'[i] = IF i <= n THEN sent[i] ELSE payloads[i - n]
  BY <1>1, ConcatProperties, LenProperties
<1>3. \A i \in 1..m : payloads[i] \in Range(payloads)
  BY <1>1 DEF Range
<1>4. \A wp \in Range(payloads) : \E i \in 1..m : wp = payloads[i]
  BY <1>1 DEF Range
<1> HIDE DEF n, m
<1>5. \A i \in 1..n : i \in 1..(n + m) /\ sent'[i] = sent[i]
  BY <1>1, <1>2
<1>6. \A i \in 1..m : n + i \in 1..(n + m) /\ sent'[n + i] = payloads[i]
  BY <1>1, <1>2
<1>7. ASSUME NEW i \in 1..(n + m), i > n, Touches(sent'[i], b) PROVE Raises(sent'[i], b) <=> b \in want'
  <2>1. i - n \in 1..m /\ sent'[i] = payloads[i - n]
    BY <1>1, <1>2, <1>7
  <2> QED
    BY <1>3, <1>7, <2>1
<1>8. CASE \E wp \in Range(payloads) : Touches(wp, b)
  <2>1. PICK k \in 1..m : Touches(sent'[n + k], b)
    BY <1>4, <1>6, <1>8
  <2>2. n + k \in 1..(n + m) /\ n + k > n
    BY <1>1
  <2>3. ASSUME NEW i \in 1..(n + m), Touches(sent'[i], b),
               \A j \in 1..(n + m) : j > i => ~Touches(sent'[j], b)
        PROVE  Raises(sent'[i], b) <=> b \in want'
    <3>1. ~(n + k > i)
      BY <2>1, <2>2, <2>3
    <3>2. i > n
      BY <1>1, <2>2, <3>1
    <3> QED
      BY <1>7, <2>3, <3>2
  <2> QED
    BY <1>2, <2>1, <2>2, <2>3, HeededNext
<1>9. CASE ~(\E wp \in Range(payloads) : Touches(wp, b))
  <2>1. \A i \in 1..m : ~Touches(payloads[i], b)
    BY <1>3, <1>9
  <2>2. ASSUME NEW i \in 1..(n + m), Touches(sent'[i], b) PROVE i \in 1..n
    <3>1. CASE i > n
      <4>1. i - n \in 1..m /\ sent'[i] = payloads[i - n]
        BY <1>1, <1>2, <3>1
      <4> QED
        BY <2>1, <2>2, <4>1
    <3> QED
      BY <1>1, <3>1
  <2>3. Heeded(b) /\ (b \in want' <=> b \in want) /\ env' = env
    BY <1>9
  <2>4. ASSUME NEW i \in 1..(n + m), Touches(sent'[i], b),
               \A j \in 1..(n + m) : j > i => ~Touches(sent'[j], b)
        PROVE  Raises(sent'[i], b) <=> b \in want'
    <3>1. i \in 1..n /\ sent'[i] = sent[i]
      BY <1>5, <2>2, <2>4
    <3>2. \A j \in 1..n : j > i => ~Touches(sent[j], b)
      BY <1>5, <2>4
    <3> QED
      BY <1>1, <2>3, <2>4, <3>1, <3>2 DEF Heeded
  <2>5. ASSUME \A i \in 1..(n + m) : ~Touches(sent'[i], b) PROVE env'[b].up <=> b \in want'
    <3>1. \A i \in 1..n : ~Touches(sent[i], b)
      BY <1>5, <2>5
    <3> QED
      BY <1>1, <2>3, <3>1 DEF Heeded
  <2> QED
    BY <1>2, <2>4, <2>5, HeededNext
<1> QED
  BY <1>8, <1>9

LEMMA MovedAsPromised ==
  ASSUME IInv, DInv, Move, NEW payloads \in Seq(Sendable), Send(payloads),
         host = "bitbucket" =>
           \A b \in want' : Promised(b, FALSE, FALSE) \/ (pr'[b] = "open" /\ Promised(b, TRUE, TRUE)),
         Plain => \A b \in Branches :
           \/ b \in astray' /\ Promised(b, FALSE, FALSE)
           \/ /\ \A wp \in Range(payloads) : Touches(wp, b) => (Raises(wp, b) <=> b \in want')
              /\ \/ \E wp \in Range(payloads) : Touches(wp, b)
                 \/ /\ b \in want' <=> b \in want
                    /\ b \in astray /\ Promised(b, FALSE, FALSE) => b \in astray'
  PROVE  DInv'
<1>1. UNCHANGED <<host, policy, env, disorder>> /\ sent' = sent \o payloads
  BY DEF Move, Send
<1>2. /\ Plain' <=> Plain
      /\ \A b : Promised(b, FALSE, FALSE)' <=> Promised(b, FALSE, FALSE)
      /\ \A b : Promised(b, TRUE, TRUE)' <=> Promised(b, TRUE, TRUE)
  BY <1>1, SameReading
<1>3. ASSUME ~disorder', Plain', NEW b \in Branches
      PROVE  Heeded(b)' \/ (b \in astray' /\ Promised(b, FALSE, FALSE)')
  <2>1. Plain /\ ~disorder
    BY <1>1, <1>2, <1>3
  <2>2. Heeded(b) \/ (b \in astray /\ Promised(b, FALSE, FALSE))
    BY <2>1 DEF DInv
  <2>3. CASE b \in astray' /\ Promised(b, FALSE, FALSE)
    BY <1>2, <2>3
  <2>4. CASE ~(b \in astray' /\ Promised(b, FALSE, FALSE))
    <3>1. /\ \A wp \in Range(payloads) : Touches(wp, b) => (Raises(wp, b) <=> b \in want')
          /\ \/ \E wp \in Range(payloads) : Touches(wp, b)
             \/ Heeded(b) /\ (b \in want' <=> b \in want)
      BY <2>1, <2>2, <2>4
    <3> QED
      BY <1>1, <3>1, HeededAfterMove
  <2> QED
    BY <2>3, <2>4
<1> QED
  BY <1>1, <1>2, <1>3 DEF DInv

(* Processing a webhook puts up or down exactly the branches it is said to. *)
LEMMA ProcessedAsRead ==
  ASSUME IInv, NEW wp \in Sendable, ProcessWebhookEvent(ParseWebhook(wp)), NEW b \in Branches
  PROVE  IF Touches(wp, b) THEN env'[b].up <=> Raises(wp, b) ELSE env'[b] = env[b]
<1> DEFINE ev == ParseWebhook(wp)
<1>1. ev = Unhandled \/ Handled(ev)
  BY RequestParsed, PushParsed
<1>2. env \in [Branches -> {Down} \cup Up] /\ ~Down.up
  BY DEF IInv, TypeOK, Up, Down
<1>3. ProcessWebhookEvent(ev)
  OBVIOUS
<1>4. /\ Raises(wp, b) <=> ev.kind \in {"branch_pushed", "pr_synchronized"} /\ ev.branch = b /\ Decide(ev)
      /\ Lowers(wp, b) <=> ev.kind \in {"pr_closed", "branch_deleted"} /\ ev.branch = b
  BY DEF Raises, Lowers
<1> HIDE DEF ev
<1>5. CASE ev = Unhandled
  BY <1>3, <1>4, <1>5 DEF ProcessWebhookEvent, Unhandled, Touches
<1>6. CASE Handled(ev) /\ ev.kind \in {"branch_pushed", "pr_synchronized"}
  <2>1. ~Lowers(wp, b) /\ ev.branch \in Branches
    BY <1>4, <1>6 DEF Handled
  <2>2. CASE Decide(ev)
    <3> DEFINE new == [up |-> TRUE, pr |-> ev.pr, open |-> ev.open, labelled |-> ev.truth]
    <3>1. env' = [env EXCEPT ![ev.branch] = new] /\ new.up
      BY <1>3, <1>6, <2>2 DEF ProcessWebhookEvent
    <3> HIDE DEF new
    <3>2. env'[b] = IF b = ev.branch THEN new ELSE env[b]
      BY <1>2, <3>1
    <3> QED
      BY <1>4, <1>6, <2>1, <2>2, <3>1, <3>2 DEF Touches
  <2>3. CASE ~Decide(ev)
    <3>1. env' = env
      BY <1>3, <1>6, <2>3 DEF ProcessWebhookEvent
    <3> QED
      BY <1>4, <2>1, <2>3, <3>1 DEF Touches
  <2> QED
    BY <2>2, <2>3
<1>7. CASE Handled(ev) /\ ev.kind \in {"pr_closed", "branch_deleted"}
  <2>1. env' = [env EXCEPT ![ev.branch] = Down] /\ ~Raises(wp, b) /\ ev.branch \in Branches
    BY <1>3, <1>4, <1>7 DEF ProcessWebhookEvent, Handled
  <2>2. env'[b] = IF b = ev.branch THEN Down ELSE env[b]
    BY <1>2, <2>1
  <2> QED
    BY <1>2, <1>4, <1>7, <2>1, <2>2 DEF Touches
<1> QED
  BY <1>1, <1>5, <1>6, <1>7 DEF Handled

LEMMA DeliverAsPromised == ASSUME IInv, DInv, Deliver PROVE DInv'
<1>1. PICK i \in DOMAIN sent :
        /\ ProcessWebhookEvent(ParseWebhook(sent[i]))
        /\ sent' = SubSeq(sent, 1, i - 1) \o SubSeq(sent, i + 1, Len(sent))
        /\ disorder' = (disorder \/ i > 1)
        /\ UNCHANGED <<host, policy, refs, pr, labelled, moves, want, astray>>
  BY DEF Deliver
<1> DEFINE n == Len(sent)
<1>2. sent \in Seq(Sendable) /\ n \in Nat /\ DOMAIN sent = 1..n /\ i \in 1..n
      /\ \A j \in 1..n : sent[j] \in Sendable
  BY <1>1, LenProperties, ElementOfSeq DEF IInv
<1>3. /\ Plain' <=> Plain
      /\ \A b : Promised(b, FALSE, FALSE)' <=> Promised(b, FALSE, FALSE)
      /\ \A b : Promised(b, TRUE, TRUE)' <=> Promised(b, TRUE, TRUE)
  BY <1>1, SameReading
<1>4. ASSUME ~disorder', Plain', NEW b \in Branches, Heeded(b) PROVE Heeded(b)'
  <2>1. i = 1
    <3>1. ~(i > 1)
      BY <1>1, <1>4, Zenon
    <3> QED
      BY <1>2, <3>1
  <2>2. DOMAIN sent' = 1..(n - 1) /\ \A j \in 1..(n - 1) : sent'[j] = sent[j + 1]
    <3>1. SubSeq(sent, 1, 0) \in Seq(Sendable) /\ Len(SubSeq(sent, 1, 0)) = 0
      BY SubSeqProperties
    <3>2. /\ SubSeq(sent, 2, n) \in Seq(Sendable) /\ Len(SubSeq(sent, 2, n)) = n - 1
          /\ \A j \in 1..(n - 1) : SubSeq(sent, 2, n)[j] = sent[j + 1]
      BY <1>2, SubSeqProperties
    <3>3. sent' = SubSeq(sent, 1, 0) \o SubSeq(sent, 2, n)
      BY <1>1, <2>1
    <3>4. /\ sent' \in Seq(Sendable) /\ Len(sent') = n - 1
          /\ \A j \in 1..(n - 1) : sent'[j] = SubSeq(sent, 2, n)[j]
      BY <1>2, <3>1, <3>2, <3>3, ConcatProperties
    <3> QED
      BY <3>2, <3>4, LenProperties
  <2>3. IF Touches(sent[1], b) THEN env'[b].up <=> Raises(sent[1], b) ELSE env'[b] = env[b]
    BY <1>1, <1>2, <2>1, ProcessedAsRead
  <2>4. want' = want /\ UNCHANGED <<host, policy>>
    BY <1>1
  <2> HIDE DEF n
  <2>5. ASSUME NEW k \in 1..(n - 1), Touches(sent'[k], b),
               \A j \in 1..(n - 1) : j > k => ~Touches(sent'[j], b)
        PROVE  Raises(sent'[k], b) <=> b \in want'
    <3>1. k + 1 \in 1..n /\ sent'[k] = sent[k + 1]
      BY <1>2, <2>2
    <3>2. ASSUME NEW j \in 1..n, j > k + 1 PROVE ~Touches(sent[j], b)
      <4>1. j - 1 \in 1..(n - 1) /\ j - 1 > k /\ (j - 1) + 1 = j
        BY <1>2, <3>2
      <4> QED
        BY <2>2, <2>5, <4>1
    <3> QED
      BY <1>2, <1>4, <2>4, <2>5, <3>1, <3>2 DEF Heeded
  <2>6. ASSUME \A j \in 1..(n - 1) : ~Touches(sent'[j], b) PROVE env'[b].up <=> b \in want'
    <3>1. ASSUME NEW j \in 1..n, j > 1 PROVE ~Touches(sent[j], b)
      <4>1. j - 1 \in 1..(n - 1) /\ (j - 1) + 1 = j
        BY <1>2, <3>1
      <4> QED
        BY <2>2, <2>6, <4>1
    <3>2. CASE Touches(sent[1], b)
      BY <1>2, <1>4, <2>1, <2>3, <2>4, <3>1, <3>2 DEF Heeded
    <3>3. CASE ~Touches(sent[1], b)
      <4>1. \A j \in 1..n : ~Touches(sent[j], b)
        BY <1>2, <3>1, <3>3
      <4> QED
        BY <1>2, <1>4, <2>3, <2>4, <3>3, <4>1 DEF Heeded
    <3> QED
      BY <3>2, <3>3
  <2> QED
    BY <2>2, <2>4, <2>5, <2>6, HeededNext
<1>5. ~disorder' => ~disorder
  BY <1>1
<1> QED
  BY <1>1, <1>3, <1>4, <1>5 DEF DInv

(* The moves of the repository, one by one. *)
LEMMA RequestRange ==
  ASSUME NEW what, NEW b, NEW state, NEW label
  PROVE  Range(<<PRPayload(what, b, state, label)>>) = {PRPayload(what, b, state, label)}
  BY DEF Range

LEMMA NoneRange == Range(<<>>) = {}
  BY DEF Range

(* On Bitbucket there are no labels to ask for. *)
LEMMA BitbucketPromise ==
  ASSUME host = "bitbucket", NEW b, NEW label, Promised(b, TRUE, label) PROVE Promised(b, TRUE, TRUE)
  BY DEF Promised

(* A webhook about change c deploys the branch of a commit that is promised   *)
(* an environment, tears down a deleted one, and touches no other branch.     *)
About(wp, c) ==
  \A x : Touches(wp, x) => /\ x = c.branch
                           /\ Raises(wp, x) <=> c.after = "commit"
                           /\ c.after = "commit" => CommitPromised(x)

LEMMA PushAbout ==
  ASSUME host \in {"github", "gitlab", "bitbucket"}, policy \in Policies, Plain,
         NEW changes \in Seq(Change), changes # <<>>, changes[1] \in Update
  PROVE  /\ About(PushOf(changes), changes[1])
         /\ changes[1].after = "zero" \/ Promised(changes[1].branch, FALSE, FALSE)
              => Touches(PushOf(changes), changes[1].branch)
<1> DEFINE c == changes[1]
           wp == PushOf(changes)
<1>1. c.branch \in Branches /\ c.after \in {"commit", "zero"}
  BY DEF Update
<1>2. CASE c.after = "zero"
  <2>1. \A x : ~Raises(wp, x) /\ (Lowers(wp, x) <=> x = c.branch)
    BY <1>2, ZeroTells
  <2> HIDE DEF wp, c
  <2>2. About(wp, c) /\ Touches(wp, c.branch)
    BY <1>2, <2>1 DEF About, Touches
  <2> QED
    BY <2>2 DEF wp, c
<1>3. CASE c.after = "commit"
  <2>1. 1 \in 1..Len(changes) /\ \A j \in 1..Len(changes) : ~(j < 1)
    BY EmptySeq, LenProperties
  <2>2. ParseWebhook(wp) = RefEvent("branch_pushed", c.branch)
    BY <1>3, <2>1, PushTells
  <2>3. \A x : ~Lowers(wp, x) /\ (Raises(wp, x) <=> x = c.branch /\ Promised(c.branch, FALSE, FALSE))
    BY <1>1, <2>2, PushRaises
  <2> HIDE DEF wp, c
  <2>4. About(wp, c)
    BY <1>3, <2>3 DEF About, Touches, CommitPromised
  <2>5. Promised(c.branch, FALSE, FALSE) => Touches(wp, c.branch)
    BY <2>3 DEF Touches
  <2> QED
    BY <1>3, <2>4, <2>5 DEF wp, c
<1> QED
  BY <1>1, <1>2, <1>3

LEMMA ToldAbout ==
  ASSUME host \in {"github", "gitlab", "bitbucket"}, policy \in Policies, Plain, NEW c \in Update
  PROVE  /\ \A wp \in Range(Told(c)) : About(wp, c)
         /\ pr[c.branch] = "open"
              /\ (c.after = "zero" \/ Promised(c.branch, TRUE, c.branch \in labelled))
              => \E wp \in Range(Told(c)) : Touches(wp, c.branch)
<1> DEFINE lab == c.branch \in labelled
           closing == PRPayload("close", c.branch, "closed", lab)
           updating == PRPayload("commit", c.branch, "open", lab)
<1>1. c.branch \in Branches /\ c.after \in {"commit", "zero"} /\ lab \in BOOLEAN
  BY DEF Update
<1>2. CASE pr[c.branch] # "open"
  <2>1. Range(Told(c)) = {}
    BY <1>2, NoneRange DEF Told
  <2> QED
    BY <1>2, <2>1
<1>3. CASE pr[c.branch] = "open" /\ c.after = "zero"
  <2>1. Range(Told(c)) = {closing}
    BY <1>3, RequestRange DEF Told
  <2>2. \A x : ~Raises(closing, x) /\ (Lowers(closing, x) <=> x = c.branch)
    BY <1>1, ClosedTells
  <2> HIDE DEF closing
  <2>3. About(closing, c) /\ Touches(closing, c.branch)
    BY <1>3, <2>2 DEF About, Touches
  <2> QED
    BY <2>1, <2>3
<1>4. CASE pr[c.branch] = "open" /\ c.after = "commit"
  <2>1. Range(Told(c)) = {updating}
    BY <1>4, RequestRange DEF Told
  <2>2. \A x : ~Lowers(updating, x) /\ (Raises(updating, x) <=> x = c.branch /\ Promised(c.branch, TRUE, lab))
    <3>1. PICK b \in Branches, l \in BOOLEAN : b = c.branch /\ l = lab
      BY <1>1
    <3>2. \A x : /\ ~Lowers(PRPayload("commit", b, "open", l), x)
                 /\ Raises(PRPayload("commit", b, "open", l), x) <=> x = b /\ Promised(b, TRUE, l)
      BY OpenTells
    <3> QED
      BY <3>1, <3>2
  <2>3. Promised(c.branch, TRUE, lab) => CommitPromised(c.branch)
    BY <1>4 DEF CommitPromised
  <2> HIDE DEF updating, lab
  <2>4. About(updating, c) /\ (Promised(c.branch, TRUE, lab) => Touches(updating, c.branch))
    BY <1>4, <2>2, <2>3 DEF About, Touches
  <2> QED
    BY <1>4, <2>1, <2>4 DEF lab
<1> QED
  BY <1>1, <1>2, <1>3, <1>4

(* What a push makes the host send is about its changes, and every change is  *)
(* reported that concerns an environment, but for what comes behind.          *)
LEMMA PushReported ==
  ASSUME host \in {"github", "gitlab", "bitbucket"}, policy \in Policies, Plain, NEW changes \in Pushes
  PROVE  /\ \A wp \in Range(PushSends(changes)) : \E i \in 1..Len(changes) : About(wp, changes[i])
         /\ \A i \in 1..Len(changes) :
              \/ changes[i].branch \in Behind(changes)
              \/ changes[i].after = "commit" /\ ~CommitPromised(changes[i].branch)
              \/ \E wp \in Range(PushSends(changes)) : Touches(wp, changes[i].branch)
<1> DEFINE all == Range(PushSends(changes))
<1>1. /\ changes \in Seq(Change) /\ changes # <<>> /\ Len(changes) \in {1, 2}
      /\ \A i \in 1..Len(changes) : changes[i] \in Update
  BY PushTyped
<1>2. 1 \in 1..Len(changes) /\ (Len(changes) = 2 => 2 \in 1..Len(changes))
      /\ \A i \in 1..Len(changes) : i = 1 \/ (i = 2 /\ Len(changes) = 2)
  BY <1>1
<1>3. all = Range(PushPayloads(changes)) \cup Range(Told(changes[1]))
              \cup (IF Len(changes) = 2 THEN Range(Told(changes[2])) ELSE {})
  BY PushSendsTyped
<1>4. Range(PushPayloads(changes)) =
        IF host = "bitbucket" THEN {PushOf(changes)}
        ELSE {PushOf(<<changes[i]>>) : i \in 1..Len(changes)}
  BY <1>1, PushRange
<1>5. ASSUME NEW i \in 1..Len(changes)
      PROVE  /\ About(PushOf(<<changes[i]>>), changes[i])
             /\ changes[i].after = "zero" \/ Promised(changes[i].branch, FALSE, FALSE)
                  => Touches(PushOf(<<changes[i]>>), changes[i].branch)
  <2> DEFINE c == changes[i]
  <2>1. c \in Change /\ c \in Update
    BY <1>1, ElementOfSeq
  <2> HIDE DEF c
  <2>2. <<c>> \in Seq(Change) /\ <<c>> # <<>> /\ <<c>>[1] = c
    BY <2>1, OneSeq, EmptySeq
  <2>3. /\ About(PushOf(<<c>>), c)
        /\ c.after = "zero" \/ Promised(c.branch, FALSE, FALSE) => Touches(PushOf(<<c>>), c.branch)
    BY <2>1, <2>2, PushAbout
  <2> QED
    BY <2>3 DEF c
<1>6. /\ About(PushOf(changes), changes[1])
      /\ changes[1].after = "zero" \/ Promised(changes[1].branch, FALSE, FALSE)
           => Touches(PushOf(changes), changes[1].branch)
  BY <1>1, <1>2, PushAbout
<1>7. ASSUME NEW i \in 1..Len(changes)
      PROVE  /\ \A wp \in Range(Told(changes[i])) : About(wp, changes[i])
             /\ pr[changes[i].branch] = "open"
                  /\ (changes[i].after = "zero"
                        \/ Promised(changes[i].branch, TRUE, changes[i].branch \in labelled))
                  => \E wp \in Range(Told(changes[i])) : Touches(wp, changes[i].branch)
             /\ Range(Told(changes[i])) \subseteq all
  <2>1. changes[i] \in Update
    BY <1>1
  <2>2. Range(Told(changes[i])) \subseteq all
    BY <1>2, <1>3
  <2> HIDE DEF all
  <2> QED
    BY <2>1, <2>2, ToldAbout
<1> HIDE DEF all
<1>8. ASSUME NEW wp \in all PROVE \E i \in 1..Len(changes) : About(wp, changes[i])
  <2>1. CASE wp \in Range(PushPayloads(changes))
    <3>1. CASE host = "bitbucket"
      BY <1>2, <1>4, <1>6, <2>1, <3>1
    <3>2. CASE host # "bitbucket"
      BY <1>4, <1>5, <2>1, <3>2
    <3> QED
      BY <3>1, <3>2
  <2>2. CASE wp \in Range(Told(changes[1]))
    BY <1>2, <1>7, <2>2
  <2>3. CASE Len(changes) = 2 /\ wp \in Range(Told(changes[2]))
    BY <1>2, <1>7, <2>3
  <2> QED
    BY <1>3, <2>1, <2>2, <2>3
<1>9. ASSUME NEW i \in 1..Len(changes), changes[i].branch \notin Behind(changes),
             changes[i].after = "zero" \/ CommitPromised(changes[i].branch)
      PROVE  \E wp \in all : Touches(wp, changes[i].branch)
  <2> DEFINE b == changes[i].branch
             lab == b \in labelled
  <2>1. b \in Branches
    BY <1>1 DEF Update
  <2>2. CASE host # "bitbucket"
    <3>1. PushOf(<<changes[i]>>) \in all
      BY <1>3, <1>4, <2>2
    <3>2. CASE changes[i].after = "zero" \/ Promised(b, FALSE, FALSE)
      BY <1>5, <3>1, <3>2
    <3>3. CASE pr[b] = "open" /\ Promised(b, TRUE, lab)
      BY <1>7, <3>3
    <3> QED
      BY <1>9, <3>2, <3>3 DEF CommitPromised
  <2>3. CASE host = "bitbucket" /\ i = 1
    <3>1. PushOf(changes) \in all
      BY <1>3, <1>4, <2>3
    <3>2. CASE changes[i].after = "zero" \/ Promised(b, FALSE, FALSE)
      BY <1>6, <2>3, <3>1, <3>2
    <3>3. CASE pr[b] = "open" /\ Promised(b, TRUE, lab)
      BY <1>7, <3>3
    <3> QED
      BY <1>9, <3>2, <3>3 DEF CommitPromised
  <2>4. CASE host = "bitbucket" /\ i = 2 /\ Len(changes) = 2
    <3>1. pr[b] = "open"
      BY <1>9, <2>1, <2>4 DEF Behind
    <3>2. CommitPromised(b) => Promised(b, TRUE, lab)
      BY <2>4 DEF CommitPromised, Promised
    <3> QED
      BY <1>7, <1>9, <3>1, <3>2
  <2> QED
    BY <1>2, <2>2, <2>3, <2>4
<1>10. \A i \in 1..Len(changes) : changes[i].after \in {"commit", "zero"}
  BY <1>1 DEF Update
<1> QED
  BY <1>8, <1>9, <1>10 DEF all

LEMMA PushedAsPromised == ASSUME IInv, DInv, NEW changes \in Pushes, Push(changes) PROVE DInv'
<1>0. host \in {"github", "gitlab", "bitbucket"} /\ policy \in Policies /\ want \subseteq Branches
  BY DEF IInv, DInv, TypeOK
<1>1. PICK payloads \in Seq(Sendable) : payloads = PushSends(changes)
  BY PushSendsTyped
<1>2. Move /\ Send(payloads) /\ want' \subseteq Branches /\ Behind(changes) \subseteq astray'
  BY <1>1, PushDoes
<1>3. ASSUME NEW i \in 1..Len(changes)
      PROVE  LET c == changes[i]
             IN  /\ c.after \in {"commit", "zero"}
                 /\ c.after = "zero" => c.branch \notin want'
                 /\ c.after = "commit" =>
                      (c.branch \in want' <=> c.branch \in want \/ CommitPromised(c.branch))
                 /\ c.after = "commit" => pr'[c.branch] = pr[c.branch]
  BY PushDoes, PushTyped DEF Update
<1>4. ASSUME NEW x \in Branches, \A i \in 1..Len(changes) : x # changes[i].branch
      PROVE  (x \in want' <=> x \in want) /\ (x \in astray' <=> x \in astray) /\ pr'[x] = pr[x]
  BY <1>4, PushDoes
<1>5. ASSUME Plain, NEW x \in Branches
      PROVE  \/ x \in astray' /\ Promised(x, FALSE, FALSE)
             \/ /\ \A p \in Range(payloads) : Touches(p, x) => (Raises(p, x) <=> x \in want')
                /\ \/ \E p \in Range(payloads) : Touches(p, x)
                   \/ /\ x \in want' <=> x \in want
                      /\ x \in astray /\ Promised(x, FALSE, FALSE) => x \in astray'
  <2>1. /\ \A p \in Range(payloads) : \E i \in 1..Len(changes) : About(p, changes[i])
        /\ \A i \in 1..Len(changes) :
             \/ changes[i].branch \in Behind(changes)
             \/ changes[i].after = "commit" /\ ~CommitPromised(changes[i].branch)
             \/ \E p \in Range(payloads) : Touches(p, changes[i].branch)
    BY <1>0, <1>1, <1>5, PushReported
  <2>2. ASSUME NEW p \in Range(payloads), Touches(p, x)
        PROVE  (Raises(p, x) <=> x \in want') /\ \E i \in 1..Len(changes) : x = changes[i].branch
    <3>1. PICK i \in 1..Len(changes) : About(p, changes[i])
      BY <2>1
    <3>2. /\ x = changes[i].branch /\ (Raises(p, x) <=> changes[i].after = "commit")
          /\ changes[i].after = "commit" => CommitPromised(x)
      BY <2>2, <3>1 DEF About
    <3>3. x \in want' <=> changes[i].after = "commit"
      BY <1>3, <3>2
    <3> QED
      BY <3>2, <3>3
  <2>3. CASE \A i \in 1..Len(changes) : x # changes[i].branch
    BY <1>4, <2>2, <2>3
  <2>4. CASE \E p \in Range(payloads) : Touches(p, x)
    BY <2>2, <2>4
  <2>5. ASSUME NEW i \in 1..Len(changes), x = changes[i].branch,
               ~(\E p \in Range(payloads) : Touches(p, x))
        PROVE  \/ x \in astray' /\ Promised(x, FALSE, FALSE)
               \/ /\ x \in want' <=> x \in want
                  /\ x \in astray /\ Promised(x, FALSE, FALSE) => x \in astray'
    <3>1. CASE x \in Behind(changes)
      <4>1. x \in astray' /\ host = "bitbucket" /\ pr[x] # "open"
        BY <1>2, <3>1 DEF Behind
      <4>2. CASE ~Promised(x, FALSE, FALSE)
        <5>1. x \notin want /\ ~CommitPromised(x)
          BY <4>1, <4>2 DEF DInv, CommitPromised
        <5> QED
          BY <1>3, <2>5, <4>1, <5>1
      <4> QED
        BY <4>1, <4>2
    <3>2. CASE changes[i].after = "commit" /\ ~CommitPromised(x)
      <4>1. ~Promised(x, FALSE, FALSE)
        BY <3>2 DEF CommitPromised
      <4> QED
        BY <1>3, <2>5, <3>2, <4>1
    <3> QED
      BY <2>1, <2>5, <3>1, <3>2
  <2> QED
    BY <2>2, <2>3, <2>4, <2>5
<1>6. ASSUME host = "bitbucket", NEW x \in want'
      PROVE  Promised(x, FALSE, FALSE) \/ (pr'[x] = "open" /\ Promised(x, TRUE, TRUE))
  <2>1. x \in want => Promised(x, FALSE, FALSE) \/ (pr[x] = "open" /\ Promised(x, TRUE, TRUE))
    BY <1>6 DEF DInv
  <2>2. CASE \A i \in 1..Len(changes) : x # changes[i].branch
    BY <1>2, <1>4, <2>1, <2>2
  <2>3. ASSUME NEW i \in 1..Len(changes), x = changes[i].branch
        PROVE  Promised(x, FALSE, FALSE) \/ (pr'[x] = "open" /\ Promised(x, TRUE, TRUE))
    <3>1. changes[i].after = "commit" /\ pr'[x] = pr[x] /\ (x \in want \/ CommitPromised(x))
      BY <1>3, <1>6, <2>3
    <3>2. CommitPromised(x) => Promised(x, FALSE, FALSE) \/ (pr[x] = "open" /\ Promised(x, TRUE, TRUE))
      BY <1>6, BitbucketPromise DEF CommitPromised
    <3> QED
      BY <2>1, <3>1, <3>2
  <2> QED
    BY <2>2, <2>3
<1> QED
  BY <1>2, <1>5, <1>6, MovedAsPromised

LEMMA CommitWithTagAsPromised == ASSUME IInv, DInv, NEW b \in Branches, CommitWithTag(b) PROVE DInv'
<1> DEFINE tag == [branch |-> b, after |-> "tag"]
           commit == [branch |-> b, after |-> "commit"]
           changes == <<tag, commit>>
<1>0. host \in {"github", "gitlab", "bitbucket"} /\ policy \in Policies
  BY DEF IInv, DInv
<1>1. /\ tag \in Change /\ commit \in Change /\ tag.after = "tag" /\ commit.after = "commit"
      /\ commit.branch = b
  BY DEF Change
<1>2. /\ Move /\ Send(PushPayloads(changes)) /\ pr' = pr /\ astray' = astray \ {b}
      /\ want' = IF Promised(b, FALSE, FALSE) THEN want \cup {b} ELSE want
  BY DEF CommitWithTag
<1>3. Plain => \A x : /\ ~Lowers(PushOf(<<commit>>), x)
                      /\ Raises(PushOf(<<commit>>), x) <=> x = b /\ Promised(b, FALSE, FALSE)
  BY <1>0, CommitTells
<1>4. host # "bitbucket" => \A x : ~Touches(PushOf(<<tag>>), x)
  BY <1>0, TagUnheard
<1> HIDE DEF tag, commit
<1>5. changes \in Seq(Change) /\ changes # <<>> /\ Len(changes) = 2 /\ changes[1] = tag /\ changes[2] = commit
  BY <1>1
<1> HIDE DEF changes
<1>6. host = "bitbucket" /\ Plain =>
        \A x : /\ ~Lowers(PushOf(changes), x)
               /\ Raises(PushOf(changes), x) <=> x = b /\ Promised(b, FALSE, FALSE)
  <2> SUFFICES ASSUME host = "bitbucket", Plain, NEW x
               PROVE  /\ ~Lowers(PushOf(changes), x)
                      /\ Raises(PushOf(changes), x) <=> x = b /\ Promised(b, FALSE, FALSE)
    OBVIOUS
  <2>1. 2 \in 1..Len(changes) /\ changes[2].after \in {"commit", "zero"} /\ changes[2].after # "zero"
        /\ \A j \in 1..Len(changes) : j < 2 => changes[j].after \notin {"commit", "zero"}
    BY <1>1, <1>5
  <2>2. ParseWebhook(PushOf(changes)) = RefEvent("branch_pushed", b)
    BY <1>1, <1>5, <2>1, PushTells
  <2> QED
    BY <1>0, <2>2, PushRaises
<1>7. PICK payloads \in Seq(Sendable) : payloads = PushPayloads(changes)
  BY <1>5, PushSendable
<1>8. Range(payloads) = IF host = "bitbucket" THEN {PushOf(changes)} ELSE {PushOf(<<tag>>), PushOf(<<commit>>)}
  <2>1. {PushOf(<<changes[i]>>) : i \in 1..Len(changes)} = {PushOf(<<tag>>), PushOf(<<commit>>)}
    <3>1. 1..Len(changes) = {1, 2}
      BY <1>5
    <3> QED
      BY <1>5, <3>1
  <2> QED
    BY <1>5, <1>7, <2>1, PushRange
<1>9. ASSUME Plain, NEW x \in Branches
      PROVE  \/ x \in astray' /\ Promised(x, FALSE, FALSE)
             \/ /\ \A p \in Range(payloads) : Touches(p, x) => (Raises(p, x) <=> x \in want')
                /\ \/ \E p \in Range(payloads) : Touches(p, x)
                   \/ /\ x \in want' <=> x \in want
                      /\ x \in astray /\ Promised(x, FALSE, FALSE) => x \in astray'
  <2>1. PICK wp \in Range(payloads) :
          /\ ~Lowers(wp, x) /\ (Raises(wp, x) <=> x = b /\ Promised(b, FALSE, FALSE))
          /\ \A p \in Range(payloads) : p # wp => ~Touches(p, x)
    BY <1>3, <1>4, <1>6, <1>8, <1>9
  <2>2. CASE x = b /\ Promised(b, FALSE, FALSE)
    BY <1>2, <2>1, <2>2 DEF Touches
  <2>3. CASE ~(x = b /\ Promised(b, FALSE, FALSE))
    <3>1. \A p \in Range(payloads) : ~Touches(p, x)
      BY <2>1, <2>3 DEF Touches
    <3>2. x \in want' <=> x \in want
      BY <1>2, <2>3
    <3>3. x \in astray /\ Promised(x, FALSE, FALSE) => x \in astray'
      BY <1>2, <2>3
    <3> QED
      BY <3>1, <3>2, <3>3
  <2> QED
    BY <2>2, <2>3
<1>10. host = "bitbucket" =>
         \A x \in want' : Promised(x, FALSE, FALSE) \/ (pr'[x] = "open" /\ Promised(x, TRUE, TRUE))
  BY <1>2 DEF DInv
<1> QED
  BY <1>2, <1>7, <1>9, <1>10, MovedAsPromised

(* A move that sends one webhook, which deploys branch b if P holds, tears it *)
(* down, or is not handled.                                                   *)
LEMMA OneRaised ==
  ASSUME IInv, DInv, Move, NEW b \in Branches, NEW P \in BOOLEAN, NEW wp,
         NEW payloads \in Seq(Sendable), Send(payloads), Range(payloads) = {wp},
         Plain => \A x : ~Lowers(wp, x) /\ (Raises(wp, x) <=> x = b /\ P),
         want' = IF P THEN want \cup {b} ELSE want, astray' = astray,
         host = "bitbucket" =>
           \A x \in want' : Promised(x, FALSE, FALSE) \/ (pr'[x] = "open" /\ Promised(x, TRUE, TRUE))
  PROVE  DInv'
<1>1. ASSUME Plain, NEW x \in Branches
      PROVE  /\ \A p \in Range(payloads) : Touches(p, x) => (Raises(p, x) <=> x \in want')
             /\ \/ \E p \in Range(payloads) : Touches(p, x)
                \/ x \in want' <=> x \in want
  BY <1>1 DEF Touches
<1> QED
  BY <1>1, MovedAsPromised

LEMMA OneLowered ==
  ASSUME IInv, DInv, Move, NEW b \in Branches, NEW wp,
         NEW payloads \in Seq(Sendable), Send(payloads), Range(payloads) = {wp},
         \A x : ~Raises(wp, x) /\ (Lowers(wp, x) <=> x = b),
         want' = want \ {b}, astray \subseteq astray' \cup {b},
         \A x \in Branches : x # b => pr'[x] = pr[x]
  PROVE  DInv'
<1>1. ASSUME Plain, NEW x \in Branches
      PROVE  /\ \A p \in Range(payloads) : Touches(p, x) => (Raises(p, x) <=> x \in want')
             /\ \/ \E p \in Range(payloads) : Touches(p, x)
                \/ (x \in want' <=> x \in want) /\ (x \in astray => x \in astray')
  BY <1>1 DEF Touches
<1>2. want \subseteq Branches
  BY DEF IInv, TypeOK
<1>3. host = "bitbucket" =>
        \A x \in want' : Promised(x, FALSE, FALSE) \/ (pr'[x] = "open" /\ Promised(x, TRUE, TRUE))
  BY <1>2 DEF DInv
<1> QED
  BY <1>1, <1>3, MovedAsPromised

LEMMA OddPushAsPromised == ASSUME IInv, DInv, NEW b \in Branches, OddPush(b) PROVE DInv'
<1> DEFINE wp == PushOf(<< [branch |-> b, after |-> "absent"] >>)
<1>1. PICK payloads \in Seq(Sendable) :
        payloads = PushPayloads(<< [branch |-> b, after |-> "absent"] >>) /\ Range(payloads) = {wp}
  BY OneChange, OnePushRange
<1>2. /\ Move /\ Send(payloads) /\ UNCHANGED <<pr, want>>
      /\ astray' = IF host = "github" THEN astray \cup {b} ELSE astray
  BY <1>1 DEF OddPush
<1>3. Plain => \A x : /\ ~Lowers(wp, x)
                      /\ Raises(wp, x) <=> host = "github" /\ x = b /\ Promised(b, FALSE, FALSE)
  BY AbsentTells DEF IInv, DInv
<1> HIDE DEF wp
<1>4. ASSUME Plain, NEW x \in Branches
      PROVE  \/ x \in astray' /\ Promised(x, FALSE, FALSE)
             \/ /\ \A p \in Range(payloads) : Touches(p, x) => (Raises(p, x) <=> x \in want')
                /\ \/ \E p \in Range(payloads) : Touches(p, x)
                   \/ /\ x \in want' <=> x \in want
                      /\ x \in astray /\ Promised(x, FALSE, FALSE) => x \in astray'
  <2>1. CASE host = "github" /\ x = b /\ Promised(b, FALSE, FALSE)
    BY <1>2, <2>1
  <2>2. CASE ~(host = "github" /\ x = b /\ Promised(b, FALSE, FALSE))
    <3>1. ~Touches(wp, x)
      BY <1>3, <1>4, <2>2 DEF Touches
    <3> QED
      BY <1>1, <1>2, <3>1
  <2> QED
    BY <2>1, <2>2
<1>5. host = "bitbucket" =>
        \A x \in want' : Promised(x, FALSE, FALSE) \/ (pr'[x] = "open" /\ Promised(x, TRUE, TRUE))
  BY <1>2 DEF DInv
<1> QED
  BY <1>1, <1>2, <1>4, <1>5, MovedAsPromised

LEMMA ProposeLabel ==
  ASSUME NEW b \in Branches, Propose(b)
  PROVE  \E l \in BOOLEAN :
           /\ Send(<<PRPayload(IF pr[b] = "none" THEN "open" ELSE "reopen", b, "open", l)>>)
           /\ want' = IF Promised(b, TRUE, l) THEN want \cup {b} ELSE want
<1>1. PICK l \in IF host = "bitbucket" THEN {FALSE} ELSE {(b \in labelled), TRUE} :
         /\ labelled' = IF l THEN labelled \cup {b} ELSE labelled
         /\ Send(<<PRPayload(IF pr[b] = "none" THEN "open" ELSE "reopen", b, "open", l)>>)
         /\ want' = IF Promised(b, TRUE, l) THEN want \cup {b} ELSE want
  BY DEF Propose
<1>2. l \in BOOLEAN
  <2>1. (b \in labelled) \in BOOLEAN /\ TRUE \in BOOLEAN /\ FALSE \in BOOLEAN
    OBVIOUS
  <2>2. \A x \in {(b \in labelled), TRUE} : x \in BOOLEAN
    BY <2>1, Zenon
  <2> QED
    BY <2>1, <2>2, Zenon
<1> QED
  BY <1>1, <1>2, Zenon

LEMMA ProposeAsPromised == ASSUME IInv, DInv, NEW b \in Branches, Propose(b) PROVE DInv'
<1>1. PICK l \in BOOLEAN :
        /\ Send(<<PRPayload(IF pr[b] = "none" THEN "open" ELSE "reopen", b, "open", l)>>)
        /\ want' = IF Promised(b, TRUE, l) THEN want \cup {b} ELSE want
  BY ProposeLabel
<1>2. PICK what \in {"open", "reopen"} : what = IF pr[b] = "none" THEN "open" ELSE "reopen"
  OBVIOUS
<1> DEFINE wp == PRPayload(what, b, "open", l)
           P == Promised(b, TRUE, l)
<1>3. <<wp>> \in Seq(Sendable) /\ Range(<<wp>>) = {wp}
  BY RequestSendable, RequestRange
<1>4. P \in BOOLEAN
  BY DEF Promised
<1>5. Plain => \A x : ~Lowers(wp, x) /\ (Raises(wp, x) <=> x = b /\ P)
  <2>1. host \in {"github", "gitlab", "bitbucket"} /\ policy \in Policies
    BY DEF IInv, DInv
  <2>2. CASE what = "open"
    BY <1>4, <2>1, <2>2, OpenTells
  <2>3. CASE what = "reopen"
    BY <1>4, <2>1, <2>3, OpenTells
  <2> QED
    BY <2>2, <2>3
<1>6. /\ Move /\ Send(<<wp>>) /\ astray' = astray /\ pr' = [pr EXCEPT ![b] = "open"]
      /\ want' = IF P THEN want \cup {b} ELSE want
  BY <1>1, <1>2 DEF Propose
<1>7. pr'[b] = "open" /\ (\A x \in Branches : x # b => pr'[x] = pr[x]) /\ want \subseteq Branches
  BY <1>6 DEF IInv, TypeOK
<1>8. host = "bitbucket" => (P => Promised(b, TRUE, TRUE))
  BY BitbucketPromise
<1> HIDE DEF wp, P
<1>9. host = "bitbucket" =>
         \A x \in want' : Promised(x, FALSE, FALSE) \/ (pr'[x] = "open" /\ Promised(x, TRUE, TRUE))
  BY <1>6, <1>7, <1>8 DEF DInv
<1> QED
  BY <1>3, <1>5, <1>4, <1>6, <1>9, OneRaised

LEMMA ConcludeAsPromised ==
  ASSUME IInv, DInv, NEW b \in Branches, NEW how \in {"close", "merge"}, Conclude(b, how) PROVE DInv'
<1>1. PICK s \in {"closed", "merged"} : pr' = [pr EXCEPT ![b] = s] /\ pr'[b] = s
  BY DEF Conclude, IInv, TypeOK
<1> DEFINE wp == PRPayload(how, b, s, b \in labelled)
<1>2. <<wp>> \in Seq(Sendable) /\ Range(<<wp>>) = {wp} /\ \A x : ~Raises(wp, x) /\ (Lowers(wp, x) <=> x = b)
  <2>1. (b \in labelled) \in BOOLEAN /\ host \in {"github", "gitlab", "bitbucket"}
    BY DEF IInv
  <2>2. how \in {"open", "reopen", "commit", "edit", "close", "merge"} /\ how \in {"close", "merge", "edit"}
        /\ how \notin {"open", "reopen", "commit", "edit"} /\ s \in {"open", "closed", "merged"}
    OBVIOUS
  <2>3. <<wp>> \in Seq(Sendable)
    BY <2>1, <2>2, RequestSendable
  <2>4. \A x : ~Raises(wp, x) /\ (Lowers(wp, x) <=> x = b)
    BY <2>1, <2>2, ClosedTells
  <2> QED
    BY <2>3, <2>4, RequestRange
<1>3. Move /\ Send(<<wp>>) /\ astray' = astray \ {b} /\ want' = want \ {b}
  BY <1>1 DEF Conclude
<1>4. \A x \in Branches : x # b => pr'[x] = pr[x]
  BY <1>1 DEF IInv, TypeOK
<1> HIDE DEF wp
<1> QED
  BY <1>2, <1>3, <1>4, OneLowered

LEMMA EditAsPromised == ASSUME IInv, DInv, NEW b \in Branches, Edit(b) PROVE DInv'
<1>1. PICK l \in IF host = "bitbucket" THEN {FALSE} ELSE BOOLEAN :
         /\ Send(<<PRPayload("edit", b, pr[b], l)>>)
         /\ want' = CASE host = "github" -> want
                      [] host # "github" /\ pr[b] # "open" -> want \ {b}
                      [] OTHER -> IF Promised(b, TRUE, l) THEN want \cup {b} ELSE want
  BY DEF Edit
<1>2. PICK s \in {"open", "closed", "merged"} : pr[b] = s
  BY DEF Edit, IInv, TypeOK
<1> DEFINE wp == PRPayload("edit", b, s, l)
           P == Promised(b, TRUE, l)
<1>3. l \in BOOLEAN /\ P \in BOOLEAN /\ host \in {"github", "gitlab", "bitbucket"}
  BY <1>1 DEF IInv, Promised
<1>4. <<wp>> \in Seq(Sendable) /\ Range(<<wp>>) = {wp}
  BY <1>3, RequestSendable, RequestRange
<1>5. Move /\ Send(<<wp>>) /\ UNCHANGED <<pr, astray>>
  BY <1>1, <1>2 DEF Edit
<1>6. CASE host = "github"
  <2>1. \A x : ~Touches(wp, x)
    BY <1>6, EditUnheard
  <2>2. want' = want
    BY <1>1, <1>6
  <2> HIDE DEF wp
  <2> QED
    BY <1>4, <1>5, <1>6, <2>1, <2>2, MovedAsPromised
<1>7. CASE host # "github" /\ s # "open"
  <2>1. \A x : ~Raises(wp, x) /\ (Lowers(wp, x) <=> x = b)
    BY <1>3, <1>7, ClosedTells
  <2>2. want' = want \ {b}
    BY <1>1, <1>2, <1>7
  <2> HIDE DEF wp
  <2> QED
    BY <1>4, <1>5, <2>1, <2>2, OneLowered
<1>8. CASE host # "github" /\ s = "open"
  <2>1. Plain => \A x : ~Lowers(wp, x) /\ (Raises(wp, x) <=> x = b /\ P)
    BY <1>3, <1>8, OpenTells DEF DInv
  <2>2. want' = IF P THEN want \cup {b} ELSE want
    BY <1>1, <1>2, <1>8
  <2>3. host = "bitbucket" => (P => Promised(b, TRUE, TRUE))
    BY BitbucketPromise
  <2> HIDE DEF wp, P
  <2>4. host = "bitbucket" =>
          \A x \in want' : Promised(x, FALSE, FALSE) \/ (pr'[x] = "open" /\ Promised(x, TRUE, TRUE))
    BY <1>2, <1>5, <1>8, <2>2, <2>3 DEF DInv
  <2> QED
    BY <1>3, <1>4, <1>5, <2>1, <2>2, <2>4, OneRaised
<1> QED
  BY <1>6, <1>7, <1>8

LEMMA StepDInv == IInv /\ DInv /\ [Next]_vars => DInv'
<1> SUFFICES ASSUME IInv, DInv, [Next]_vars PROVE DInv'
  OBVIOUS
<1>1. CASE UNCHANGED vars
  <2>1. UNCHANGED <<host, policy>> /\ UNCHANGED <<sent, want, env, pr, astray, disorder>>
    BY <1>1 DEF vars
  <2>2. ASSUME NEW b, Heeded(b) PROVE Heeded(b)'
    BY <2>1, <2>2, HeededNext DEF Heeded
  <2>3. /\ Plain' <=> Plain
        /\ \A b : Promised(b, FALSE, FALSE)' <=> Promised(b, FALSE, FALSE)
        /\ \A b : Promised(b, TRUE, TRUE)' <=> Promised(b, TRUE, TRUE)
    BY <2>1, SameReading
  <2> QED
    BY <2>1, <2>2, <2>3 DEF DInv
<1>2. ASSUME NEW b \in Branches,
             \/ CommitWithTag(b) \/ OddPush(b) \/ Propose(b) \/ Edit(b)
             \/ \E how \in {"close", "merge"} : Conclude(b, how)
      PROVE  DInv'
  BY <1>2, CommitWithTagAsPromised, OddPushAsPromised, ProposeAsPromised,
     EditAsPromised, ConcludeAsPromised
<1> QED
  BY <1>1, <1>2, DeliverAsPromised, PushedAsPromised DEF Next

LEMMA InitDInv == Init => DInv
<1> SUFFICES ASSUME Init PROVE DInv
  OBVIOUS
<1>1. \A b \in Branches : ~env[b].up
  BY DEF Init, Down
<1>2. sent = <<>> /\ want = {} /\ astray = {} /\ policy \in Policies
  BY DEF Init
<1>3. DOMAIN sent = {}
  BY <1>2
<1> QED
  BY <1>1, <1>2, <1>3 DEF DInv, Heeded

(* For any branches, filters and number of webhooks under way, and all three  *)
(* hosts: once the webhooks have been processed in the order they were sent,  *)
(* the environments that are up are those the documentation promises, but     *)
(* for branches whose last push is one of the two the parsers do not read as  *)
(* documented (QuietMatchesDocs names them).                                  *)
THEOREM DocumentationHolds == Spec => []QuietMatchesDocs
<1>1. IInv /\ DInv => QuietMatchesDocs
  <2> SUFFICES ASSUME DInv, sent = <<>>, ~disorder, Plain, NEW b \in Branches \ astray
               PROVE  env[b].up <=> b \in want
    BY DEF QuietMatchesDocs, Plain
  <2>1. Heeded(b)
    BY DEF DInv
  <2>2. DOMAIN sent = {}
    OBVIOUS
  <2> QED
    BY <2>1, <2>2 DEF Heeded
<1>2. Init => IInv /\ DInv
  BY InitIInv, InitDInv
<1>3. IInv /\ DInv /\ [Next]_vars => (IInv /\ DInv)'
  BY StepIInv, StepDInv
<1> QED
  BY <1>1, <1>2, <1>3, PTL DEF Spec
=============================================================================
