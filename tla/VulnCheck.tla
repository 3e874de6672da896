----------------------------- MODULE VulnCheck -----------------------------
(***************************************************************************)
(* The vuln-check job of ci.yml on one pull request, run after run: scan   *)
(* and render (task vuln-report, by VulnReport), keep the sticky comment   *)
(* up to date (vulnerability-comment.sh), enforce the scanner's health     *)
(* (task vuln-report:check). A push cancels the run in progress wherever   *)
(* it is. The comments are all that one run leaves to the next. The tool   *)
(* runs three times over the same files, and comes to the same result.     *)
(***************************************************************************)
EXTENDS VulnReport

CONSTANTS
  MaxPushes,  \* bound: how often the pull request is pushed to
  Faults      \* which calls of GitHub may fail, among FaultKinds

\* "list": the comments cannot be listed. "error", "ambiguous": a call that edits
\* a comment fails without having been executed, or although it was.
FaultKinds == {"list", "error", "ambiguous"}

ASSUME VulnCheckAssumption == MaxPushes \in Nat \ {0} /\ Faults \subseteq FaultKinds

VARIABLES
  head,      \* the commit to check, counted by pushes
  comments,  \* the comments with the marker, oldest first, by the commit they describe
  step,      \* the step of the run in progress, or "none"
  found,     \* whether the script found a comment
  warned,    \* whether a call that edits a comment has failed in this run
  verdict    \* of the last run of head: "none", "success" or "failure"

checkVars == <<vars, head, comments, step, found, warned, verdict>>

CheckTypeOK ==
  /\ TypeOK
  /\ head \in 1..MaxPushes
  /\ comments \in Seq(1..head)
  /\ step \in {"none", "report", "list", "edit", "enforce"}
  /\ found \in BOOLEAN /\ warned \in BOOLEAN
  /\ verdict \in {"none", "success", "failure"}

CheckInit ==
  /\ Init
  /\ head = 1
  /\ comments = <<>>
  /\ step = "report"
  /\ found = FALSE
  /\ warned = FALSE
  /\ verdict = "none"

\* A run starts and forgets all of the former one.
Start(messages) ==
  /\ all' = messages /\ left' = messages
  /\ at' = "decode"
  /\ decoded' = {} /\ findings' = <<>> /\ merged' = <<>>
  /\ broken' = FALSE /\ exitCode' = 0
  /\ step' = "report"
  /\ found' = FALSE
  /\ warned' = FALSE
  /\ verdict' = "none"
  /\ UNCHANGED comments

\* concurrency: cancel-in-progress.
Push ==
  /\ head < MaxPushes
  /\ head' = head + 1
  /\ \E some \in SUBSET RawFindings : Start(Messages \ some)

\* A re-run of the same commit, by hand.
Rerun ==
  /\ step = "none"
  /\ Start(all)
  /\ UNCHANGED head

\* Mutant: a run that fails is shown as skipped.
EndSkipped(result) ==
  /\ step' = "none"
  /\ verdict' = IF result = "failure" THEN "skipped" ELSE result

End(result) ==
  /\ step' = "none"
  /\ verdict' = result

\* task vuln-report: the scanner may break, the tool may not.
Report ==
  /\ step = "report"
  /\ \/ at = "done" /\ step' = "list" /\ UNCHANGED verdict
     \/ at = "failed" /\ End("failure")
  /\ UNCHANGED <<vars, head, comments, found, warned>>

\* Mutant: a list that fails counts as an empty one.
ListOrNone ==
  /\ step = "list"
  /\ found' \in {comments # <<>>} \cup (IF "list" \in Faults THEN {FALSE} ELSE {})
  /\ step' = "edit"
  /\ UNCHANGED <<vars, head, comments, warned, verdict>>

\* comment_ids="$(gh api ...)": under set -e a failure ends the script and, with
\* it, the job.
List ==
  /\ step = "list"
  /\ \/ found' = (comments # <<>>) /\ step' = "edit" /\ UNCHANGED verdict
     \/ "list" \in Faults /\ End("failure") /\ UNCHANGED found
  /\ UNCHANGED <<vars, head, comments, warned>>

FixableCount == Cardinality({k \in DOMAIN merged : Fixable(k)})

\* Mutant: a comment that exists is left as it is.
EditedOnlyCreates ==
  IF FixableCount = 0 THEN (IF found THEN Tail(comments) ELSE comments)
  ELSE IF found THEN comments ELSE Append(comments, head)

\* What DELETE, PATCH or POST make of the comments: only the first that has the
\* marker is deleted or updated.
Edited ==
  IF FixableCount = 0
  THEN IF found THEN Tail(comments) ELSE comments
  ELSE IF found THEN [comments EXCEPT ![1] = head] ELSE Append(comments, head)

\* A call that fails is only warned of.
Edit ==
  /\ step = "edit"
  /\ step' = "enforce"
  /\ \/ comments' = Edited /\ UNCHANGED warned
     \/ /\ FixableCount > 0 \/ found
        /\ \/ "error" \in Faults /\ UNCHANGED comments
           \/ "ambiguous" \in Faults /\ comments' = Edited
        /\ warned' = TRUE
  /\ UNCHANGED <<vars, head, found, verdict>>

\* task vuln-report:check.
Enforce ==
  /\ step = "enforce"
  /\ End(IF ScannerError THEN "failure" ELSE "success")
  /\ UNCHANGED <<vars, head, comments, found, warned>>

CheckNext ==
  \/ step = "report" /\ Next /\ UNCHANGED <<head, comments, step, found, warned, verdict>>
  \/ Push \/ Rerun \/ Report \/ List \/ Edit \/ Enforce

CheckSpec == CheckInit /\ [][CheckNext]_checkVars

-----------------------------------------------------------------------------
\* vulnerability-comment.sh:2: there is a single comment, after any number of
\* runs that were cancelled, could not list the comments, or created one without
\* knowing.
SingleComment == Len(comments) <= 1

\* vulnerability-comment.sh:4-6: after a successful run in which no call failed,
\* the comment describes the commit that was checked, and is there only if that
\* commit has something to fix, in whatever order the scanner said so, whatever
\* it had said in earlier runs and wherever they were cut off.
CommentIsCurrent ==
  verdict = "success" /\ ~warned =>
    comments = IF \E raw \in RawFindings \cap all : Content[raw].fixed # Nil THEN <<head>> ELSE <<>>
=============================================================================
