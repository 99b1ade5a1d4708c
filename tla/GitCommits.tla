------------------------------- MODULE GitCommits -------------------------------
(***************************************************************************)
(* git_commit: a preview is two equal inspections of the repository, each of *)
(* several git commands; the commit inspects a third time, compares, stages  *)
(* when everything is committed, runs `git commit`, and reads HEAD again.    *)
(* Meanwhile other programs edit, stage and commit.                          *)
(*                                                                           *)
(* A file's content is a number that grows with every edit, 0 for no file;   *)
(* the digest of a file is its content.  A scope is the set of its files.    *)
(* Nobody moves HEAD back.  `git commit` itself is atomic.                   *)
(***************************************************************************)
EXTENDS Integers, Sequences, FiniteSets

CONSTANTS
    GitPaths, Committers,
    GitStarts,      \* repositories: born, or without a commit
    GitPlans        \* what each call asks for, how much others do, how much fails

ASSUME GitAssumption ==
    /\ \A plan \in GitPlans :
         /\ plan.outside \in Nat /\ plan.faults \in Nat
         /\ \A c \in Committers : /\ plan.jobs[c].how \in {"none", "preview", "commit", "execute"}
                                   /\ plan.jobs[c].scope \subseteq GitPaths
    /\ \A s \in GitStarts : \A p \in GitPaths : s.work[p] \in Nat

VARIABLES
    repo,       \* commits: a sequence of [parent, by, tree]; head: the last one or 0; index; work
    commits,    \* Committers -> a call of git_commit
    gitLog      \* how much others may still do, how much may fail

gitVars == <<repo, commits, gitLog>>

Unmerged == -1
Nothing == [p \in GitPaths |-> 0]
NotRead == "not read"

-----------------------------------------------------------------------------
(* What git answers. *)

HeadTree(r) == IF r.head = 0 THEN Nothing ELSE r.commits[r.head].tree
ParentOfHead == IF repo.head = 0 THEN 0 ELSE repo.commits[repo.head].parent
ChangedBy(n) ==
    LET parent == repo.commits[n].parent
        before == IF parent = 0 THEN Nothing ELSE repo.commits[parent].tree
    IN  {p \in GitPaths : repo.commits[n].tree[p] # before[p]}

InScope(job, p) == job.all \/ p \in job.scope

\* The digest covers the selected files only.
WorktreeDigest(r, job, view) ==
    [p \in {q \in view.unstaged \cup view.untracked : InScope(job, q)} |-> r.work[p]]

\* One command of an inspection.
GitAnswer(r, job, view, what) ==
    CASE what = "head" -> r.head
      [] what = "index" -> r.index
      [] what = "staged" -> {p \in GitPaths : r.index[p] # HeadTree(r)[p]}
      [] what = "unstaged" -> {p \in GitPaths : r.index[p] # 0 /\ r.index[p] # r.work[p]}
      [] what = "untracked" -> {p \in GitPaths : r.index[p] = 0 /\ r.work[p] # 0}
      [] what = "digest" -> WorktreeDigest(r, job, view)

ReadOrder == <<"head", "index", "staged", "unstaged", "untracked", "digest">>
NoView == [what \in {ReadOrder[i] : i \in 1..6} |-> NotRead]

\* The whole of it at one moment.
ViewOf(r, job) ==
    LET listed == [what \in DOMAIN NoView |->
                      IF what = "digest" THEN NotRead ELSE GitAnswer(r, job, NoView, what)]
    IN  [listed EXCEPT !.digest = WorktreeDigest(r, job, listed)]

UnmergedPaths(view) == {p \in GitPaths : view.index[p] = Unmerged}

MutMixedAllowed(job, view) ==
    /\ UnmergedPaths(view) = {}
    /\ ~job.all => view.staged \subseteq job.scope /\ view.untracked \cap job.scope = {}
ValidatePreview(job, view) ==
    /\ UnmergedPaths(view) = {}
    /\ ~job.all =>
         /\ view.staged \subseteq job.scope
         /\ view.staged \cap view.unstaged = {}
         /\ view.untracked \cap job.scope = {}

-----------------------------------------------------------------------------
(* A call.  History: seen, what the repository was while the call previewed; *)
(* real, its preview is one of those; moved, HEAD or the index had changed   *)
(* again when it was accepted; raced, somebody else touched the repository   *)
(* since the recheck began; flawed, a command after the commit was stopped.  *)

NoJob == [how |-> "none", all |-> FALSE, scope |-> {}]
NoCommitCall ==
    [job |-> NoJob, pc |-> "idle", round |-> 0, at |-> 1, now |-> NoView, first |-> NoView,
     preview |-> NoView, snapshot |-> Nothing, hash |-> 0, pathsOf |-> 0,
     raced |-> FALSE, flawed |-> FALSE, seen |-> {}, real |-> TRUE, moved |-> FALSE]

GitInit ==
    /\ repo \in {[commits |-> IF s.born THEN <<[parent |-> 0, by |-> "none", tree |-> s.tree]>> ELSE <<>>,
                  head |-> IF s.born THEN 1 ELSE 0, index |-> s.index, work |-> s.work] : s \in GitStarts}
    /\ \E plan \in GitPlans :
         /\ commits = [c \in Committers |-> [NoCommitCall EXCEPT !.job = plan.jobs[c]]]
         /\ gitLog = [outside |-> plan.outside, faults |-> plan.faults]

GitEnded == {"refused", "previewed", "committed", "failed", "hookInterrupted", "unverified", "error"}
\* What a call that ended no longer needs is dropped.
CallEndsAs(call, pc) == [call EXCEPT !.pc = pc, !.now = NoView, !.first = NoView, !.seen = {}, !.at = 1]
\* A call that made no commit and was not asked to say more.
CallRefused(call) == [NoCommitCall EXCEPT !.job = call.job, !.pc = "refused"]

\* c goes on, and the others are told that the repository is not what it was.
RepoTold(call) == [call EXCEPT !.raced = TRUE, !.seen = IF @ = {} THEN {} ELSE @ \cup {ViewOf(repo', call.job)}]
Touches(c, call) == commits' = [d \in Committers |-> IF d = c THEN call ELSE RepoTold(commits[d])]
TouchedByOther ==
    /\ gitLog.outside > 0 /\ gitLog' = [gitLog EXCEPT !.outside = @ - 1]
    /\ commits' = [d \in Committers |-> RepoTold(commits[d])]
CommitGoes(c, call) == commits' = [commits EXCEPT ![c] = call]
GitFault == gitLog.faults > 0 /\ gitLog' = [gitLog EXCEPT !.faults = @ - 1]

BeginRound(call, n) == [call EXCEPT !.pc = "read", !.round = n, !.at = 1, !.now = NoView, !.raced = FALSE]

\* A preview-only call, a call that previews for itself, and one with the preview of an earlier
\* call, which is refused for another scope.
BeginCommit(c) ==
    /\ commits[c].pc = "idle" /\ commits[c].job.how # "none"
    /\ LET call == commits[c]
       IN  IF call.job.how # "execute"
           THEN CommitGoes(c, [BeginRound(call, 1) EXCEPT !.seen = {ViewOf(repo, call.job)}])
           ELSE \E d \in Committers :
                  /\ commits[d].pc = "previewed"
                  /\ CommitGoes(c,
                       IF commits[d].job.all = call.job.all /\ commits[d].job.scope = call.job.scope
                       THEN BeginRound([call EXCEPT !.preview = commits[d].preview], 3)
                       ELSE CallRefused(call))
    /\ UNCHANGED <<repo, gitLog>>

WithAnswer(call) ==
    LET what == ReadOrder[call.at]
    IN  [call EXCEPT !.now[what] = GitAnswer(repo, call.job, call.now, what), !.at = @ + 1]

InspectStep(c) ==
    /\ commits[c].pc = "read" /\ commits[c].at < Len(ReadOrder)
    /\ CommitGoes(c, WithAnswer(commits[c]))
    /\ UNCHANGED <<repo, gitLog>>

FirstInspected(c) ==
    /\ commits[c].pc = "read" /\ commits[c].at = Len(ReadOrder) /\ commits[c].round = 1
    /\ LET call == WithAnswer(commits[c])
       IN  CommitGoes(c, BeginRound([call EXCEPT !.first = call.now], 2))
    /\ UNCHANGED <<repo, gitLog>>

\* The preview is the call's result, or what it commits from.
PreviewAccepted(call) ==
    LET kept == [call EXCEPT !.preview = call.first, !.first = NoView, !.seen = {},
                             !.real = call.first \in call.seen,
                             !.moved = repo.index # call.first.index \/ repo.head # call.first.head]
    IN  IF call.job.how = "preview" THEN CallEndsAs(kept, "previewed") ELSE BeginRound(kept, 3)
MutOneInspection(call) ==
    IF ~ValidatePreview(call.job, call.now) THEN CallRefused(call)
    ELSE PreviewAccepted(call)
PreviewOf(call) ==
    IF call.now # call.first \/ ~ValidatePreview(call.job, call.now) THEN CallRefused(call)
    ELSE PreviewAccepted(call)
SecondInspected(c) ==
    /\ commits[c].pc = "read" /\ commits[c].at = Len(ReadOrder) /\ commits[c].round = 2
    /\ CommitGoes(c, PreviewOf(WithAnswer(commits[c])))
    /\ UNCHANGED <<repo, gitLog>>

MutNoRecheck(call) ==
    IF ~ValidatePreview(call.job, call.now) THEN CallRefused(call)
    ELSE [call EXCEPT !.pc = IF call.job.all THEN "capture" ELSE "commit", !.now = NoView, !.at = 1]
MutHeadAndIndexOnly(call) ==
    IF call.now # [call.preview EXCEPT !.digest = call.now.digest] THEN CallRefused(call)
    ELSE [call EXCEPT !.pc = IF call.job.all THEN "capture" ELSE "commit", !.now = NoView, !.at = 1]
Rechecked(call) ==
    IF call.now # call.preview \/ ~ValidatePreview(call.job, call.now) THEN CallRefused(call)
    ELSE [call EXCEPT !.pc = IF call.job.all THEN "capture" ELSE "commit", !.now = NoView, !.at = 1]
Recheck(c) ==
    /\ commits[c].pc = "read" /\ commits[c].at = Len(ReadOrder) /\ commits[c].round = 3
    /\ CommitGoes(c, Rechecked(WithAnswer(commits[c])))
    /\ UNCHANGED <<repo, gitLog>>

\* A command of an inspection that is cancelled, times out or fails ends the call; so does one
\* that looks for the index.
InspectionFails(c) ==
    /\ commits[c].pc \in {"read", "capture"}
    /\ GitFault
    /\ CommitGoes(c, CallRefused(commits[c]))
    /\ UNCHANGED repo

CaptureIndex(c) ==
    /\ commits[c].pc = "capture"
    /\ CommitGoes(c, [commits[c] EXCEPT !.pc = "stage", !.snapshot = repo.index])
    /\ UNCHANGED <<repo, gitLog>>

StageAll(c) ==
    /\ commits[c].pc = "stage"
    /\ repo' = [repo EXCEPT !.index = repo.work]
    /\ Touches(c, [commits[c] EXCEPT !.pc = "commit"])
    /\ UNCHANGED gitLog

\* `git add` failed or was stopped, before or after it wrote the index.
StagingFails(c) ==
    /\ commits[c].pc = "stage"
    /\ GitFault
    /\ repo' \in {repo, [repo EXCEPT !.index = repo.work]}
    /\ Touches(c, [commits[c] EXCEPT !.pc = "restore"])

-----------------------------------------------------------------------------
(* `git commit`, and what follows it. *)

\* The tree it would commit: the index, or HEAD with the tracked files of the scope.
TreeFor(job) ==
    IF job.all THEN repo.index
    ELSE [p \in GitPaths |-> IF p \in job.scope /\ repo.index[p] # 0 THEN repo.work[p] ELSE HeadTree(repo)[p]]
WithCommit(c, tree, index) ==
    [repo EXCEPT !.commits = Append(@, [parent |-> repo.head, by |-> c, tree |-> tree]),
                 !.head = Len(repo.commits) + 1, !.index = index]
IndexAfter(job) ==
    IF job.all THEN repo.index
    ELSE [p \in GitPaths |-> IF p \in job.scope THEN TreeFor(job)[p] ELSE repo.index[p]]

\* The work tree's files a pre-commit hook adds to the commit.
Hooked(tree, added) == [p \in GitPaths |-> IF p \in added THEN repo.work[p] ELSE tree[p]]

CanCommit(job) ==
    /\ \A p \in GitPaths : repo.index[p] # Unmerged
    /\ \E p \in GitPaths : TreeFor(job)[p] # HeadTree(repo)[p]
    /\ ~job.all => \A p \in job.scope : repo.index[p] # 0 \/ HeadTree(repo)[p] # 0

\* The commit is made; its exit status says so unless a later hook was stopped.
CommitMade(c) ==
    /\ commits[c].pc = "commit" /\ CanCommit(commits[c].job)
    /\ \E added \in {{}} \cup {{p} : p \in GitPaths}, told \in BOOLEAN :
         /\ IF added = {} /\ told THEN UNCHANGED gitLog ELSE GitFault
         /\ repo' = WithCommit(c, Hooked(TreeFor(commits[c].job), added), IndexAfter(commits[c].job))
         /\ Touches(c, [commits[c] EXCEPT !.pc = IF told THEN "hash" ELSE "observe",
                                          !.raced = @ \/ added # {}])

\* There is nothing to commit, a path is not merged, or a hook or a stop ends it.
CommitFails(c) ==
    /\ commits[c].pc = "commit"
    /\ IF CanCommit(commits[c].job) THEN GitFault ELSE UNCHANGED gitLog
    /\ CommitGoes(c, [commits[c] EXCEPT !.pc = "observe"])
    /\ UNCHANGED repo

\* HEAD is read without the call's cancellation, and tells whether there is a commit.
MutNothingObserved(call) ==
    IF call.job.all THEN [call EXCEPT !.pc = "restore"] ELSE CallEndsAs(call, "failed")
AfterFailedCommit(call) ==
    IF repo.head # call.preview.head THEN [CallEndsAs(call, "hookInterrupted") EXCEPT !.hash = repo.head]
    ELSE IF call.job.all THEN [call EXCEPT !.pc = "restore"]
    ELSE CallEndsAs(call, "failed")
Observe(c) ==
    /\ commits[c].pc = "observe"
    /\ CommitGoes(c, AfterFailedCommit(commits[c]))
    /\ UNCHANGED <<repo, gitLog>>

\* The whole index file is written as it was.
MutIndexStays(call) == repo.index
IndexRestored(call) == call.snapshot
Restore(c) ==
    /\ commits[c].pc = "restore"
    /\ repo' = [repo EXCEPT !.index = IndexRestored(commits[c])]
    /\ Touches(c, CallEndsAs(commits[c], "failed"))
    /\ UNCHANGED gitLog

ReadHash(c) ==
    /\ commits[c].pc = "hash"
    /\ CommitGoes(c, IF repo.head = 0 THEN CallEndsAs(commits[c], "unverified")
                   ELSE [commits[c] EXCEPT !.pc = "parent", !.hash = repo.head])
    /\ UNCHANGED <<repo, gitLog>>

MutParentUnchecked(call, parent) == [call EXCEPT !.pc = "paths"]
ParentVerified(call, parent) ==
    IF parent # call.preview.head THEN CallEndsAs(call, "unverified") ELSE [call EXCEPT !.pc = "paths"]
VerifyParent(c) ==
    /\ commits[c].pc = "parent"
    /\ CommitGoes(c, ParentVerified(commits[c], ParentOfHead))
    /\ UNCHANGED <<repo, gitLog>>

MutPathsUnchecked(call) == [CallEndsAs(call, "committed") EXCEPT !.pathsOf = repo.head]
PathsVerified(call) ==
    IF \A p \in ChangedBy(repo.head) : InScope(call.job, p)
    THEN [CallEndsAs(call, "committed") EXCEPT !.pathsOf = repo.head]
    ELSE CallEndsAs(call, "unverified")
VerifyCommittedPaths(c) ==
    /\ commits[c].pc = "paths"
    /\ CommitGoes(c, PathsVerified(commits[c]))
    /\ UNCHANGED <<repo, gitLog>>

\* One of these reads is stopped, or the index cannot be written.  A parent that was not read
\* counts as none.
CheckFails(c) ==
    /\ commits[c].pc \in {"observe", "restore", "hash", "parent", "paths"}
    /\ GitFault
    /\ LET call == [commits[c] EXCEPT !.flawed = TRUE]
       IN  CommitGoes(c, IF call.pc = "parent" THEN ParentVerified(call, 0) ELSE CallEndsAs(call, "error"))
    /\ UNCHANGED repo

-----------------------------------------------------------------------------
(* Everyone else. *)

GitContents == {repo.work[p] : p \in GitPaths} \cup {repo.index[p] : p \in GitPaths}
FreshContent == 1 + (CHOOSE n \in GitContents : \A m \in GitContents : m <= n)

EditOutside(p) ==
    /\ repo' = [repo EXCEPT !.work[p] = FreshContent]
    /\ TouchedByOther

StageOutside(p) ==
    /\ repo.index[p] # repo.work[p]
    /\ repo' = [repo EXCEPT !.index[p] = repo.work[p]]
    /\ TouchedByOther

MergeOutside(p) ==
    /\ repo.index[p] \notin {0, Unmerged}
    /\ repo' = [repo EXCEPT !.index[p] = Unmerged, !.work[p] = FreshContent]
    /\ TouchedByOther

CommitOutside ==
    /\ CanCommit([NoJob EXCEPT !.all = TRUE])
    /\ repo' = WithCommit("other", repo.index, repo.index)
    /\ TouchedByOther

Outside == CommitOutside \/ \E p \in GitPaths : EditOutside(p) \/ StageOutside(p) \/ MergeOutside(p)

GitNext ==
    \/ \E c \in Committers :
         \/ BeginCommit(c) \/ InspectStep(c) \/ FirstInspected(c) \/ SecondInspected(c)
         \/ Recheck(c) \/ InspectionFails(c) \/ CaptureIndex(c) \/ StageAll(c) \/ StagingFails(c)
         \/ CommitMade(c) \/ CommitFails(c) \/ Observe(c) \/ Restore(c) \/ ReadHash(c)
         \/ VerifyParent(c) \/ VerifyCommittedPaths(c) \/ CheckFails(c)
    \/ Outside

-----------------------------------------------------------------------------
GitTypes ==
    /\ repo.head = Len(repo.commits)
    /\ \A p \in GitPaths : repo.index[p] \in Nat \cup {Unmerged} /\ repo.work[p] \in Nat
    /\ \A c \in Committers :
         /\ commits[c].pc \in GitEnded \cup {"idle", "read", "capture", "stage", "commit", "observe",
                                          "restore", "hash", "parent", "paths"}
         /\ commits[c].round \in 0..3 /\ commits[c].at \in 1..6

CommittedBy(c) == {n \in 1..repo.head : repo.commits[n].by = c}
\* What a preview says the commit will hold.
Previewed(call) ==
    LET v == call.preview
        before == IF v.head = 0 THEN Nothing ELSE repo.commits[v.head].tree
    IN  [p \in GitPaths |-> IF p \in DOMAIN v.digest THEN v.digest[p]
                            ELSE IF InScope(call.job, p) THEN v.index[p] ELSE before[p]]

\* A preview that is given to the agent, or committed from, shows the repository as it was at one
\* moment, although it was read by twelve commands while others worked; unless HEAD or the index
\* changed once more after they were read for the second time.
PreviewIsReal ==
    \A c \in Committers : commits[c].real \/ commits[c].moved

\* A commit that is reported is the call's own, follows the HEAD of its preview, and holds paths
\* of its scope only; if no command was stopped, and no commit came between its last two checks.
CommittedIsOwn ==
    \A c \in Committers :
        LET call == commits[c]
        IN  call.pc = "committed" =>
              /\ ~call.flawed => repo.commits[call.hash].by = c
                                 /\ repo.commits[call.hash].parent = call.preview.head
              /\ call.pathsOf = call.hash => \A p \in ChangedBy(call.hash) : InScope(call.job, p)

\* A commit that is reported holds, when nobody touched the repository after the last inspection
\* began, exactly what the preview showed, however much changed between the two; and a selected
\* path that was staged is committed as it was staged.
CommittedAsPreviewed ==
    \A c \in Committers :
        LET call == commits[c]
            tree == repo.commits[call.hash].tree
        IN  call.pc = "committed" /\ ~call.raced =>
              /\ tree = Previewed(call)
              /\ ~call.job.all => \A p \in call.job.scope \cap call.preview.staged :
                                     tree[p] = call.preview.index[p]

\* A commit of everything that came to nothing leaves the index as the preview showed it.
IndexKept ==
    \A c \in Committers :
        LET call == commits[c]
        IN  call.pc = "failed" /\ call.job.all /\ ~call.raced => repo.index = call.preview.index

\* A call that says it committed nothing did not; one that says a hook was interrupted after the
\* commit names its own, when nobody else committed.
FailuresAreTrue ==
    \A c \in Committers :
        LET call == commits[c]
        IN  /\ call.pc \in {"refused", "previewed", "failed"} => CommittedBy(c) = {}
            /\ call.pc = "hookInterrupted" /\ ~call.raced => call.hash \in CommittedBy(c)

CommitsSafe == PreviewIsReal /\ CommittedIsOwn /\ CommittedAsPreviewed /\ IndexKept /\ FailuresAreTrue
=============================================================================
