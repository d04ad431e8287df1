------------------------------- MODULE Intake -------------------------------
(***************************************************************************)
(* What becomes of a git host's webhooks: the payload is mapped to an      *)
(* event (ParseWebhook of the GitHub, GitLab and Bitbucket providers), the *)
(* policy decides (policy.Decide), and the environment of the branch goes  *)
(* up or down (ProcessWebhookEvent; how it does is module Reconciler).     *)
(*                                                                         *)
(* The host is external: a repository whose branches are pushed, deleted   *)
(* and proposed in one pull request each.  Its payloads wait in "sent" and *)
(* are processed in any order, as the inbox may.  A branch name is the     *)
(* sequence of its segments between slashes, and so is a pattern.          *)
(***************************************************************************)
EXTENDS Naturals, Sequences

CONSTANTS Hosts,      \* of "github", "gitlab", "bitbucket"
          Branches,   \* branch names
          Policies,   \* filter settings, one of which is in force
          MaxMoves,   \* bound on what happens in the repository
          MaxSent     \* bound on the webhooks under way

\* Names and patterns, cut at their slashes, have a segment at least.
ASSUME IntakeAssumption ==
    /\ Hosts \subseteq {"github", "gitlab", "bitbucket"}
    /\ MaxMoves \in Nat /\ MaxSent \in Nat
    /\ \A b \in Branches : b \in Seq(STRING) /\ b # <<>>
    /\ \A p \in Policies :
         /\ p.prOnly \in BOOLEAN /\ p.labels \in BOOLEAN
         /\ \A pattern \in p.deny \cup p.allow : pattern \in Seq(STRING) /\ pattern # <<>>

VARIABLES
    host, policy,
    refs,       \* the branches that exist at the host
    pr,         \* state of each branch's pull request: none, open, closed, merged
    labelled,   \* branches whose pull request carries a required label
    sent,       \* webhooks not processed yet, oldest first
    env,        \* the event that last put the branch's environment up, or Down
    moves,
    disorder,   \* a webhook was processed before an older one
    want,       \* the branches that the documentation says have an environment
    astray      \* branches with a push that is not read as documented, until
                \* a later change to the branch puts that right

vars == <<host, policy, refs, pr, labelled, sent, env, moves, disorder, want, astray>>

Down == [up |-> FALSE]
Unhandled == [kind |-> "unhandled"]

-----------------------------------------------------------------------------
(* The payload of each host, mapped to an event *)

\* A pull request payload carries its action, the state of the request, its
\* branch and whether it carries a required label.
PREvent(kind, wp, known) ==
    [kind |-> kind, branch |-> wp.branch, pr |-> TRUE,
     labels |-> known /\ wp.labelled, labelsKnown |-> known, open |-> wp.state = "open",
     truth |-> wp.labelled]

RefEvent(kind, b) ==
    [kind |-> kind, branch |-> b, pr |-> FALSE, labels |-> FALSE,
     labelsKnown |-> FALSE, open |-> FALSE, truth |-> FALSE]

\* A ref change is a commit on a branch, a deletion (after is all zeroes), a
\* tag, or carries no commit at all.
GitHubPullRequest(wp) ==
    CASE wp.action \in {"opened", "reopened", "synchronize"} ->
           PREvent("pr_synchronized", wp, TRUE)
      [] wp.action = "closed" -> PREvent("pr_closed", wp, TRUE)
      [] OTHER -> Unhandled

GitHubRef(c) ==
    CASE c.after = "tag" -> Unhandled
      [] c.after = "zero" -> RefEvent("branch_deleted", c.branch)
      [] OTHER -> RefEvent("branch_pushed", c.branch)

\* The action is looked at before the state.
MutMergeRequest(wp) ==
    CASE wp.action \in {"open", "reopen", "update"} ->
           PREvent("pr_synchronized", wp, TRUE)
      [] wp.state \in {"merged", "closed"} \/ wp.action \in {"close", "merge"} ->
           PREvent("pr_closed", wp, FALSE)
      [] OTHER -> Unhandled

\* GitLab reports "update" for a request that is already merged or closed.
GitLabMergeRequest(wp) ==
    IF wp.state \in {"merged", "closed"} \/ wp.action \in {"close", "merge"}
      THEN PREvent("pr_closed", wp, FALSE)
      ELSE IF wp.action \in {"open", "reopen", "update"}
             THEN PREvent("pr_synchronized", wp, TRUE)
             ELSE Unhandled

GitLabPush(c) ==
    CASE c.after \in {"tag", "absent"} -> Unhandled
      [] c.after = "zero" -> RefEvent("branch_deleted", c.branch)
      [] OTHER -> RefEvent("branch_pushed", c.branch)

\* Bitbucket has no labels, and its state alone decides.
BitbucketPullRequest(wp) ==
    CASE wp.state \in {"closed", "merged"} -> PREvent("pr_closed", wp, FALSE)
      [] wp.state = "open" -> PREvent("pr_synchronized", wp, FALSE)
      [] OTHER -> Unhandled

\* Anything but a branch first in the push ends the search.
MutBitbucketPush(changes) ==
    LET c == changes[1]
    IN  CASE c.after \in {"tag", "absent"} -> Unhandled
          [] c.after = "zero" -> RefEvent("branch_deleted", c.branch)
          [] OTHER -> RefEvent("branch_pushed", c.branch)

\* One delivery carries all changes of a push; the first that names a branch
\* is the event, the others are dropped.
BitbucketPush(changes) ==
    LET named == {i \in DOMAIN changes : changes[i].after \in {"commit", "zero"}}
    IN  IF named = {} THEN Unhandled
        ELSE LET c == changes[CHOOSE i \in named : \A j \in named : i <= j]
             IN  RefEvent(IF c.after = "zero" THEN "branch_deleted"
                                              ELSE "branch_pushed", c.branch)

\* A payload with a pull request is read as one, any other as a push.
GitHubPayload(wp) ==
    IF wp.type = "pr" THEN GitHubPullRequest(wp) ELSE GitHubRef(wp.changes[1])

GitLabPayload(wp) ==
    IF wp.type = "pr" THEN GitLabMergeRequest(wp) ELSE GitLabPush(wp.changes[1])

BitbucketPayload(wp) ==
    IF wp.type = "pr" THEN BitbucketPullRequest(wp) ELSE BitbucketPush(wp.changes)

\* The signature is that of the host.
ParseWebhook(wp) ==
    CASE host = "github" -> GitHubPayload(wp)
      [] host = "gitlab" -> GitLabPayload(wp)
      [] host = "bitbucket" -> BitbucketPayload(wp)

-----------------------------------------------------------------------------
(* The admission policy *)

StartsWith(b, prefix) ==
    Len(b) >= Len(prefix) /\ SubSeq(b, 1, Len(prefix)) = prefix

Wild == {"*", "**"}   \* path.Match reads "**" as it reads "*"
Broken == "["         \* a segment path.Match cannot parse

\* A trailing "/**" is a test on the literal text before it, "**" alone matches
\* everything, and anything else is path.Match, whose error is no match.
matches(pattern, b) ==
    LET n == Len(pattern)
    IN  IF pattern[n] = "**"
          THEN n = 1 \/ (Len(b) >= n /\ StartsWith(b, SubSeq(pattern, 1, n - 1)))
          ELSE /\ \A i \in DOMAIN pattern : pattern[i] # Broken
               /\ Len(b) = n
               /\ \A i \in DOMAIN pattern : pattern[i] \in Wild \/ b[i] = pattern[i]

matchesAny(patterns, b) == \E pattern \in patterns : matches(pattern, b)

\* The label rule is forgotten.
MutDecide(ev) ==
    /\ ~(policy.prOnly /\ ~ev.pr)
    /\ ~matchesAny(policy.deny, ev.branch)
    /\ policy.allow = {} \/ matchesAny(policy.allow, ev.branch)

Decide(ev) ==
    /\ ~(policy.prOnly /\ ~ev.pr)
    /\ ~matchesAny(policy.deny, ev.branch)
    /\ policy.allow = {} \/ matchesAny(policy.allow, ev.branch)
    /\ (policy.labels /\ ev.labelsKnown) => ev.labels

-----------------------------------------------------------------------------
(* The repository (external) *)

Init ==
    /\ host \in Hosts /\ policy \in Policies
    /\ refs = {} /\ labelled = {} /\ want = {} /\ astray = {}
    /\ pr = [b \in Branches |-> "none"]
    /\ sent = <<>>
    /\ env = [b \in Branches |-> Down]
    /\ moves = 0
    /\ disorder = FALSE

\* What the host writes in the action field.
Action(what) ==
    CASE host = "github" /\ what \in {"open"} -> "opened"
      [] host = "github" /\ what = "reopen" -> "reopened"
      [] host = "github" /\ what = "commit" -> "synchronize"
      [] host = "github" /\ what \in {"close", "merge"} -> "closed"
      [] host # "github" /\ what \in {"commit", "edit"} -> "update"
      [] OTHER -> what

PRPayload(what, b, state, label) ==
    [type |-> "pr", action |-> Action(what), branch |-> b, state |-> state,
     labelled |-> label]

\* Bitbucket batches the changes of a push, the others send one webhook each.
PushPayloads(changes) ==
    IF host = "bitbucket"
      THEN << [type |-> "push", changes |-> changes] >>
      ELSE [i \in DOMAIN changes |-> [type |-> "push", changes |-> <<changes[i]>>]]

\* What the documentation promises for the webhook: the rules of the filter
\* block, with labels checked wherever the host reports them.
\* Glob cuts the branch name into one piece per segment of the pattern: "**"
\* takes one segment or more, "*" any one, a literal its own.
Glob(pattern, b) ==
    \E cut \in [0..Len(pattern) -> 0..Len(b)] :
        /\ cut[0] = 0 /\ cut[Len(pattern)] = Len(b)
        /\ \A i \in 1..Len(pattern) :
             IF pattern[i] = "**" THEN cut[i] > cut[i - 1]
             ELSE cut[i] = cut[i - 1] + 1 /\ pattern[i] \in {"*", b[cut[i]]}

Promised(b, isPR, label) ==
    /\ policy.prOnly => isPR
    /\ \A pattern \in policy.deny : ~Glob(pattern, b)
    /\ policy.allow = {} \/ \E pattern \in policy.allow : Glob(pattern, b)
    /\ (policy.labels /\ isPR /\ host # "bitbucket") => label

Move ==
    /\ moves < MaxMoves
    /\ moves' = moves + 1
    /\ UNCHANGED <<host, policy, env, disorder>>

Send(payloads) ==
    /\ Len(sent) + Len(payloads) <= MaxSent
    /\ sent' = sent \o payloads

\* A commit on the branch is promised an environment: by the push, or by the
\* update of the open request.
CommitPromised(b) ==
    \/ Promised(b, FALSE, FALSE)
    \/ pr[b] = "open" /\ Promised(b, TRUE, b \in labelled)

\* What the open request of a branch reports of a change to the branch: it is
\* updated by a commit, and closed when the branch is deleted.
Told(c) ==
    IF pr[c.branch] # "open" THEN <<>>
    ELSE << IF c.after = "zero"
            THEN PRPayload("close", c.branch, "closed", c.branch \in labelled)
            ELSE PRPayload("commit", c.branch, "open", c.branch \in labelled) >>

\* A push changes one branch or two: each gets a commit or is deleted.
Update == [branch : Branches, after : {"commit", "zero"}]
Pushes ==
    {<<c>> : c \in Update}
      \cup {changes \in Update \X Update : changes[1].branch # changes[2].branch}

\* What Bitbucket reports behind another branch, and in no request either, is
\* lost on the daemon.
Behind(changes) ==
    {b \in Branches : /\ host = "bitbucket" /\ Len(changes) = 2
                      /\ b = changes[2].branch /\ pr[b] # "open"}

Push(changes) ==
    LET Having(after) == {changes[i].branch : i \in {k \in DOMAIN changes :
                                                       changes[k].after = after}}
        gone == Having("zero")
        new == Having("commit")
    IN  /\ Move
        /\ gone \subseteq refs
        /\ refs' = (refs \cup new) \ gone
        /\ pr' = [b \in Branches |-> IF b \in gone /\ pr[b] = "open"
                                     THEN "closed" ELSE pr[b]]
        /\ Send(PushPayloads(changes)
                \o Told(changes[1])
                \o IF Len(changes) = 2 THEN Told(changes[2]) ELSE <<>>)
        /\ want' = (want \ gone) \cup {b \in new : CommitPromised(b)}
        /\ astray' = (astray \ (gone \cup new)) \cup Behind(changes)
        /\ UNCHANGED labelled

\* A tag is pushed together with a commit on the branch.
CommitWithTag(b) ==
    /\ Move
    /\ b \in refs /\ pr[b] # "open"
    /\ Send(PushPayloads(<< [branch |-> b, after |-> "tag"],
                            [branch |-> b, after |-> "commit"] >>))
    /\ want' = IF Promised(b, FALSE, FALSE) THEN want \cup {b} ELSE want
    /\ astray' = astray \ {b}
    /\ UNCHANGED <<refs, pr, labelled>>

\* A push webhook without a commit: documented as ignored, and GitHub's is
\* read as a push all the same.
OddPush(b) ==
    /\ Move
    /\ b \in refs /\ pr[b] # "open"
    /\ Send(PushPayloads(<< [branch |-> b, after |-> "absent"] >>))
    /\ astray' = IF host = "github" THEN astray \cup {b} ELSE astray
    /\ UNCHANGED <<refs, pr, labelled, want>>

\* A request is opened or reopened, with or without a label from the start.
Propose(b) ==
    /\ Move
    /\ b \in refs /\ pr[b] \in {"none", "closed"}
    /\ pr' = [pr EXCEPT ![b] = "open"]
    /\ \E l \in IF host = "bitbucket" THEN {FALSE} ELSE {(b \in labelled), TRUE} :
         /\ labelled' = IF l THEN labelled \cup {b} ELSE labelled
         /\ Send(<<PRPayload(IF pr[b] = "none" THEN "open" ELSE "reopen", b, "open", l)>>)
         /\ want' = IF Promised(b, TRUE, l) THEN want \cup {b} ELSE want
    /\ UNCHANGED <<refs, astray>>

Conclude(b, how) ==
    /\ Move
    /\ pr[b] = "open"
    /\ pr' = [pr EXCEPT ![b] = IF how = "merge" THEN "merged" ELSE "closed"]
    /\ Send(<<PRPayload(how, b, pr'[b], b \in labelled)>>)
    /\ want' = want \ {b}
    /\ astray' = astray \ {b}
    /\ UNCHANGED <<refs, labelled>>

\* The request is edited: its title, or its labels where there are any.
Edit(b) ==
    /\ Move
    /\ pr[b] # "none"
    /\ host = "bitbucket" => pr[b] = "open"
    /\ \E l \in IF host = "bitbucket" THEN {FALSE} ELSE BOOLEAN :
         /\ labelled' = IF l THEN labelled \cup {b} ELSE labelled \ {b}
         /\ Send(<<PRPayload("edit", b, pr[b], l)>>)
         /\ want' = CASE host = "github" -> want   \* documented as not handled
                      [] host # "github" /\ pr[b] # "open" -> want \ {b}
                      [] OTHER -> IF Promised(b, TRUE, l) THEN want \cup {b} ELSE want
    /\ UNCHANGED <<refs, pr, astray>>

-----------------------------------------------------------------------------
(* The daemon *)

\* A teardown forgets the branch.
MutProcess(ev) ==
    env' = CASE ev.kind \in {"branch_pushed", "pr_synchronized"} ->
                  IF Decide(ev)
                    THEN [env EXCEPT ![ev.branch] =
                            [up |-> TRUE, pr |-> ev.pr, open |-> ev.open,
                             labelled |-> ev.truth]]
                    ELSE env
             [] ev.kind \in {"pr_closed", "branch_deleted"} ->
                  [b \in Branches \ {ev.branch} |-> env[b]]
             [] OTHER -> env

\* Close and delete events tear down whatever the policy says.
ProcessWebhookEvent(ev) ==
    env' = CASE ev.kind \in {"branch_pushed", "pr_synchronized"} ->
                  IF Decide(ev)
                    THEN [env EXCEPT ![ev.branch] =
                            [up |-> TRUE, pr |-> ev.pr, open |-> ev.open,
                             labelled |-> ev.truth]]
                    ELSE env
             [] ev.kind \in {"pr_closed", "branch_deleted"} ->
                  [env EXCEPT ![ev.branch] = Down]
             [] OTHER -> env

\* The delivery of one webhook, in whatever order the inbox hands them out.
Deliver ==
    \E i \in DOMAIN sent :
        /\ ProcessWebhookEvent(ParseWebhook(sent[i]))
        /\ sent' = SubSeq(sent, 1, i - 1) \o SubSeq(sent, i + 1, Len(sent))
        /\ disorder' = (disorder \/ i > 1)
        /\ UNCHANGED <<host, policy, refs, pr, labelled, moves, want, astray>>

Next ==
    \/ Deliver
    \/ \E b \in Branches :
         \/ CommitWithTag(b) \/ OddPush(b) \/ Propose(b) \/ Edit(b)
         \/ \E how \in {"close", "merge"} : Conclude(b, how)
    \/ \E changes \in Pushes : Push(changes)

Spec == Init /\ [][Next]_vars

-----------------------------------------------------------------------------
(* Properties *)

TypeOK ==
    /\ refs \subseteq Branches /\ labelled \subseteq Branches
    /\ want \subseteq Branches /\ astray \subseteq Branches
    /\ pr \in [Branches -> {"none", "open", "closed", "merged"}]
    /\ env \in [Branches -> {Down} \cup [up : {TRUE}, pr : BOOLEAN,
                                         open : BOOLEAN, labelled : BOOLEAN]]
    /\ moves \in 0..MaxMoves /\ Len(sent) <= MaxSent
    /\ disorder \in BOOLEAN

\* No webhook about a request that was merged or closed when the host sent it
\* puts the environment up again, in whatever order webhooks are processed
\* (state before action in GitLab's parseMergeRequestPayload).
ClosedNeverDeploys ==
    \A b \in Branches : env[b].up /\ env[b].pr => env[b].open

\* With pr_only and required_labels together the label gate is absolute where
\* the host has labels: an environment is up only for a request that carried
\* the label when the webhook was sent; a bare push cannot get round it
\* (Decide; docs/operations.md: pair it with pr_only if you need it absolute).
GateIsAbsolute ==
    (policy.prOnly /\ policy.labels /\ host # "bitbucket") =>
        \A b \in Branches : env[b].up => env[b].pr /\ env[b].labelled

\* The patterns for which matches follows the documented convention: nothing
\* malformed, "**" only at the end and nothing but literals before it.
Documented(pattern) ==
    \A i \in DOMAIN pattern :
        /\ pattern[i] # Broken
        /\ pattern[Len(pattern)] = "**" /\ i < Len(pattern) => pattern[i] \notin Wild
        /\ pattern[i] = "**" => i = Len(pattern)

\* Once all webhooks are processed, in the order sent, the branches with an
\* environment are those the documentation promises one for: closing and
\* deleting always tear down, the filter decides the rest, patterns included
\* (ParseWebhook of the three providers, policy.Decide, ProcessWebhookEvent).
\* Two pushes are not read as docs/providers.md and SKILL.md say, and exempt
\* their branch until a later change to it is seen: on Bitbucket the second
\* branch of a push, whose commit or deletion parsePushPayload drops unless a
\* request reports it, and on GitHub a push without a commit, which
\* parseRefPayload deploys.
QuietMatchesDocs ==
    (/\ sent = <<>> /\ ~disorder
     /\ \A pattern \in policy.deny \cup policy.allow : Documented(pattern)) =>
        \A b \in Branches \ astray : env[b].up <=> b \in want
=============================================================================
