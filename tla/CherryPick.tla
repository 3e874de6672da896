----------------------------- MODULE CherryPick -----------------------------
(***************************************************************************)
(* The upstream cherry-pick workflow: a run started by hand turns every    *)
(* upstream commit that the fork does not have into a branch and a pull    *)
(* request. The only memory between runs is what GitHub shows. The         *)
(* workflow's concurrency group lets one run work at a time; maintainers   *)
(* merge and close pull requests whenever they like.                       *)
(*                                                                         *)
(* Labels, texts and the draft mark of a conflicted pick are left out.     *)
(***************************************************************************)
EXTENDS Naturals, Sequences

CONSTANTS
  Commits,   \* the upstream commits after the bootstrap commit
  Upstream,  \* their order
  Merges,    \* those with more than one parent
  Empty,     \* those whose change the base branch already has
  Blank,     \* those whose pick conflicts and leaves nothing to stage
  Faults     \* what may go wrong, among FaultKinds

(***************************************************************************)
(* "push", "create", "delete": the call fails, whether or not GitHub has   *)
(*   executed it.                                                          *)
(* "lsremote": the branch list cannot be read.                             *)
(* "search": the search API fails.                                         *)
(* "lag": the search index does not have the pull request yet.             *)
(* "git": a git command fails whose status the script does not look at.    *)
(* "crash": the runner is lost, or a command fails that set -e looks at.   *)
(*                                                                         *)
(* A commit is Blank, for instance, if it deletes a file that the fork has *)
(* changed: git add -u resolves the conflict with the fork's own version.  *)
(***************************************************************************)
FaultKinds == {"push", "create", "delete", "lsremote", "search", "lag", "git", "crash"}

ASSUME CherryPickAssumption ==
  /\ Upstream \in Seq(Commits)
  /\ Merges \cup Empty \cup Blank \subseteq Commits
  /\ Faults \subseteq FaultKinds

VARIABLES
  base,    \* the picked commits that the base branch names in its log
  branch,  \* the commits whose branch exists on the remote
  pr,      \* the latest pull request that names each commit
  at,      \* where the run stands
  dry,     \* whether it is a dry run
  seen,    \* base as the run fetched it
  todo,    \* the candidates of the run, the current one first
  misled   \* history: whether the run passed a commit over because git failed

github == <<base, branch, pr>>
run == <<at, dry, seen, todo, misled>>
vars == <<base, branch, pr, at, dry, seen, todo, misled>>

TypeOK ==
  /\ base \subseteq Commits
  /\ branch \subseteq Commits
  /\ pr \in [Commits -> {"none", "open", "merged", "closed"}]
  /\ at \in {"idle", "commit", "search", "orphan", "pick", "push", "create"}
  /\ dry \in BOOLEAN
  /\ seen \subseteq Commits
  /\ todo \in Seq(Commits)
  /\ misled \in BOOLEAN

Init ==
  /\ base = {}
  /\ branch = {}
  /\ pr = [c \in Commits |-> "none"]
  /\ at = "idle"
  /\ dry = FALSE
  /\ seen = {}
  /\ todo = <<>>
  /\ misled = FALSE

-----------------------------------------------------------------------------
(***************************************************************************)
(* GitHub and the maintainers.                                             *)
(***************************************************************************)

\* Deleting the head branch of an open pull request closes it.
DeleteBranch(c) ==
  /\ branch' = branch \ {c}
  /\ pr' = [pr EXCEPT ![c] = IF @ = "open" THEN "closed" ELSE @]

\* A squash merge leaves the commit's marker in the log; the branch may stay.
Merge(c) ==
  /\ pr[c] = "open"
  /\ pr' = [pr EXCEPT ![c] = "merged"]
  /\ base' = base \cup {c}
  /\ branch' \in {branch, branch \ {c}}
  /\ UNCHANGED run

Close(c) ==
  /\ pr[c] = "open"
  /\ pr' = [pr EXCEPT ![c] = "closed"]
  /\ branch' \in {branch, branch \ {c}}
  /\ UNCHANGED base /\ UNCHANGED run

-----------------------------------------------------------------------------
(***************************************************************************)
(* The run.                                                                *)
(***************************************************************************)
Goto(step) == at' = step /\ UNCHANGED <<dry, seen, todo, misled>>

NextCommit == at' = "commit" /\ todo' = Tail(todo) /\ UNCHANGED <<dry, seen, misled>>

\* A failure of git is taken for a reason to go on to the next commit.
PassOver ==
  /\ "git" \in Faults
  /\ at' = "commit"
  /\ todo' = Tail(todo)
  /\ misled' = TRUE
  /\ UNCHANGED <<dry, seen>>

\* set -e, or the end of main.
Exit == at' = "idle" /\ todo' = <<>> /\ UNCHANGED <<dry, seen, misled>>

\* What the loop reads from git cherry. It comes through a process substitution,
\* whose status nobody sees: if git fails the list is empty, or too short.
Candidates ==
  IF "git" \in Faults THEN {SubSeq(Upstream, 1, n) : n \in 0..Len(Upstream)} ELSE {Upstream}

\* Fetch, and go through the upstream commits in their order.
Dispatch ==
  /\ at = "idle"
  /\ at' = "commit"
  /\ dry' \in BOOLEAN
  /\ seen' = base
  /\ todo' \in Candidates
  /\ misled' = (todo' # Upstream)
  /\ UNCHANGED github

Finish ==
  /\ at = "commit"
  /\ todo = <<>>
  /\ Exit
  /\ UNCHANGED github

\* A commit without a single parent; a git show that fails prints no parent.
SkipMerge(c) ==
  /\ at = "commit"
  /\ (c \in Merges /\ NextCommit) \/ PassOver
  /\ UNCHANGED github

\* Passed over are the commits that the fetched log names, and those git cherry
\* leaves out, which have an equivalent patch on the base branch: some of the
\* empty ones, and merged picks, which the log names too. A git log that fails
\* names none.
Consider(c) ==
  /\ at = "commit"
  /\ c \notin Merges
  /\ \/ c \in seen \cup Empty /\ NextCommit
     \/ (c \notin seen \/ "git" \in Faults) /\ Goto("search")
  /\ UNCHANGED github

\* Mutants: closed pull requests do not count; only the log is asked.
SearchOpenOnly(c) ==
  IF pr[c] = "open" THEN {"found"} ELSE {"zero"}

SearchNothing(c) == {"zero"}

\* What the search for the commit's marker returns.
SearchResults(c) ==
  (IF pr[c] = "none" THEN {"zero"} ELSE {"found"})
  \cup (IF "lag" \in Faults THEN {"zero"} ELSE {})
  \cup (IF "search" \in Faults THEN {"error"} ELSE {})

\* is_handled runs as the condition of an if, where set -e does not apply: an
\* error leaves a count that is no number, and the test of it is false.
Search(c) ==
  /\ at = "search"
  /\ \E result \in SearchResults(c) :
       IF result = "found" THEN NextCommit ELSE Goto("orphan")
  /\ UNCHANGED github

\* Mutant: a commit whose branch exists is taken as handled.
OrphanIsHandled(c) ==
  /\ at = "orphan"
  /\ IF c \in branch THEN NextCommit ELSE Goto("pick")
  /\ UNCHANGED github

\* Delete the branch of a commit without a pull request. Neither a branch list
\* that cannot be read nor a failed deletion stops the run.
Orphan(c) ==
  /\ at = "orphan"
  /\ \/ c \in branch /\ ~dry /\ DeleteBranch(c)
     \/ /\ c \notin branch \/ dry \/ Faults \cap {"lsremote", "delete"} # {}
        /\ UNCHANGED <<branch, pr>>
  /\ Goto("pick")
  /\ UNCHANGED base

\* Pick onto the fetched base branch, locally. What leaves the index as it was
\* counts as empty, however the pick ended: also a conflict that stages nothing,
\* and a pick that failed before it did anything.
Pick(c) ==
  /\ at = "pick"
  /\ \/ c \in Empty \cup Blank /\ NextCommit
     \/ c \notin Empty \cup Blank /\ Goto("push")
     \/ PassOver
  /\ UNCHANGED github

\* A branch that is still there has another commit: the push is rejected.
Push(c) ==
  /\ at = "push"
  /\ \/ dry /\ NextCommit /\ UNCHANGED branch
     \/ ~dry /\ c \notin branch /\ branch' = branch \cup {c} /\ Goto("create")
     \/ ~dry /\ c \in branch /\ Exit /\ UNCHANGED branch
     \/ ~dry /\ "push" \in Faults /\ Exit /\ branch' \in {branch, branch \cup {c}}
  /\ UNCHANGED <<base, pr>>

\* Mutant: the picks of conflicted commits are pull requests of another kind.
CreateDraft(c) ==
  /\ at = "create"
  /\ pr' = [pr EXCEPT ![c] = "draft"]
  /\ NextCommit
  /\ UNCHANGED <<base, branch>>

Create(c) ==
  /\ at = "create"
  /\ \/ pr' = [pr EXCEPT ![c] = "open"] /\ NextCommit
     \/ "create" \in Faults /\ Exit /\ pr' \in {pr, [pr EXCEPT ![c] = "open"]}
  /\ UNCHANGED <<base, branch>>

Crash ==
  /\ "crash" \in Faults
  /\ at # "idle"
  /\ Exit
  /\ UNCHANGED github

Step(c) == SkipMerge(c) \/ Consider(c) \/ Search(c) \/ Orphan(c) \/ Pick(c) \/ Push(c) \/ Create(c)

Next ==
  \/ Dispatch \/ Finish \/ Crash
  \/ todo # <<>> /\ Step(Head(todo))
  \/ \E c \in Commits : Merge(c) \/ Close(c)

Spec == Init /\ [][Next]_vars

-----------------------------------------------------------------------------
\* upstream-cherry-pick.sh:228-229: "One upstream commit maps to one fork PR."
\* and "If this PR is closed without merge, the workflow will not recreate it."
\* However runs fail in between, no second pull request is opened, as long as the
\* search answers from an index that is up to date; otherwise one may be.
OnePRPerCommit ==
  [][\A c \in Commits : pr'[c] = "open" => pr[c] \in {"none", "open"}]_vars

\* With such a search only maintainers end an open pull request: no run deletes
\* its branch as that of an orphan.
OpenPRsAreLeftAlone ==
  [][\A c \in Commits : pr[c] = "open" /\ pr'[c] # "open" => UNCHANGED run]_vars

Completed == at = "commit" /\ todo = <<>> /\ ~dry

CoveredBut(excepted) ==
  \A i \in DOMAIN Upstream : Upstream[i] \notin excepted => pr[Upstream[i]] # "none"

\* upstream-cherry-pick.sh:75-77: no commit is skipped for ever after a run that
\* pushed and then failed. A run that gets to its end, and was not misled by a git
\* command that failed unseen, has covered every commit whose pick stages a change,
\* whatever earlier runs have left behind.
CompletedRunCoversUpstream ==
  Completed /\ ~misled => CoveredBut(Merges \cup Empty \cup Blank)

\* The same without the two exceptions, as line 228 has it: a run that ends in
\* success leaves no upstream commit with a change of its own without its pull
\* request.
NothingIsSkipped ==
  Completed => CoveredBut(Merges \cup Empty)

-----------------------------------------------------------------------------
\* Beyond the search, a run acts on commits without a pull request only, and the
\* branches it finds there belong to nobody.
ActsOnUnclaimed ==
  at \in {"orphan", "pick", "push", "create"} => todo # <<>> /\ pr[Head(todo)] = "none"
=============================================================================
