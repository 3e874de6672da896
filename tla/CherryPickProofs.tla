-------------------------- MODULE CherryPickProofs --------------------------
(***************************************************************************)
(* Whatever fails openly, a run that gets to its end has skipped no commit *)
(* whose pick stages a change. With a search that answers, and answers     *)
(* from an index that is up to date, no commit gets a second pull request. *)
(***************************************************************************)
EXTENDS CherryPick, SequenceTheorems, TLAPS

LEMMA EmptyList == <<>> \in Seq(Commits)
OBVIOUS

LEMMA HeadAndTail ==
  ASSUME TypeOK, todo # <<>>
  PROVE  Head(todo) \in Commits /\ Tail(todo) \in Seq(Commits)
BY DEF TypeOK

LEMMA ListIsTyped == Candidates \subseteq Seq(Commits)
<1>1. Upstream \in Seq(Commits) /\ Len(Upstream) \in Nat
  BY CherryPickAssumption, LenProperties DEF CherryPickAssumption
<1>2. ASSUME NEW n \in 0..Len(Upstream) PROVE SubSeq(Upstream, 1, n) \in Seq(Commits)
  <2>1. \A i \in 1..n : Upstream[i] \in Commits
    BY <1>1, ElementOfSeq
  <2> QED BY <1>1, <2>1, SubSeqProperties
<1> QED BY <1>1, <1>2 DEF Candidates

LEMMA TypeStep == TypeOK /\ [Next]_vars => TypeOK'
<1> SUFFICES ASSUME TypeOK, [Next]_vars PROVE TypeOK'
  OBVIOUS
<1> USE DEF TypeOK
<1>1. CASE Dispatch
  BY <1>1, ListIsTyped DEF Dispatch, github
<1>2. CASE Finish \/ Crash
  BY <1>2, EmptyList DEF Finish, Crash, Exit, github
<1>3. ASSUME todo # <<>>, Step(Head(todo)) PROVE TypeOK'
  <2> DEFINE c == Head(todo)
  <2>1. c \in Commits /\ Tail(todo) \in Seq(Commits)
    BY <1>3, HeadAndTail
  <2> HIDE DEF c
  <2>2. CASE SkipMerge(c) \/ Consider(c) \/ Search(c) \/ Pick(c)
    BY <2>1, <2>2 DEF SkipMerge, Consider, Search, Pick, NextCommit, PassOver, Goto, github
  <2>3. CASE Orphan(c)
    BY <2>1, <2>3 DEF Orphan, DeleteBranch, Goto
  <2>4. CASE Push(c)
    BY <2>1, <2>4, EmptyList DEF Push, NextCommit, Goto, Exit
  <2>5. CASE Create(c)
    BY <2>1, <2>5, EmptyList DEF Create, NextCommit, Exit
  <2> QED BY <1>3, <2>2, <2>3, <2>4, <2>5 DEF Step, c
<1>4. ASSUME NEW c \in Commits, Merge(c) \/ Close(c) PROVE TypeOK'
  BY <1>4 DEF Merge, Close, run
<1>5. CASE UNCHANGED vars
  BY <1>5 DEF vars
<1> QED BY <1>1, <1>2, <1>3, <1>4, <1>5 DEF Next

\* Every variable of the run and of GitHub keeps its type, whatever fails.
THEOREM TypeCorrect == Spec => []TypeOK
<1>1. Init => TypeOK
  BY EmptyList DEF Init, TypeOK
<1> QED BY <1>1, TypeStep, PTL DEF Spec

-----------------------------------------------------------------------------
(***************************************************************************)
(* What a run has covered so far.                                          *)
(***************************************************************************)

Handled == Len(Upstream) - Len(todo)

\* What is left to do is the end of the list.
TodoIsRest ==
  at # "idle" /\ ~misled =>
    /\ Len(todo) <= Len(Upstream)
    /\ \A i \in 1..Len(todo) : todo[i] = Upstream[Handled + i]

Claimed(c) == pr[c] # "none"

\* Those that no pull request is owed.
Excepted == Merges \cup Empty \cup Blank

Covered ==
  at # "idle" /\ ~dry /\ ~misled =>
    \A i \in 1..Handled : Upstream[i] \notin Excepted => Claimed(Upstream[i])

\* What the log names was merged by a pull request.
LogIsClaimed == seen \subseteq base /\ \A c \in base : Claimed(c)

CoverInv == TypeOK /\ TodoIsRest /\ Covered /\ LogIsClaimed

\* No step takes a pull request away from a commit, nor a commit from the log.
LEMMA ClaimsStay ==
  ASSUME TypeOK, [Next]_vars, NEW c \in Commits, Claimed(c)
  PROVE  Claimed(c)'
<1> USE DEF TypeOK, Claimed
<1>1. CASE Dispatch \/ Finish \/ Crash \/ UNCHANGED vars
  BY <1>1 DEF Dispatch, Finish, Crash, github, vars
<1>2. ASSUME NEW k, Step(k) PROVE Claimed(c)'
  <2>1. CASE SkipMerge(k) \/ Consider(k) \/ Search(k) \/ Pick(k) \/ Push(k)
    BY <2>1 DEF SkipMerge, Consider, Search, Pick, Push, github
  <2>2. CASE Orphan(k)
    BY <2>2 DEF Orphan, DeleteBranch
  <2>3. CASE Create(k)
    BY <2>3 DEF Create
  <2> QED BY <1>2, <2>1, <2>2, <2>3 DEF Step
<1>3. ASSUME NEW k \in Commits, Merge(k) \/ Close(k) PROVE Claimed(c)'
  BY <1>3 DEF Merge, Close
<1> QED BY <1>1, <1>2, <1>3 DEF Next

\* A run that is not misled passes over a commit that is none of its business, or
\* that has a pull request by now.
LEMMA PassedOver ==
  ASSUME CoverInv, NEW c \in Commits, Step(c), todo' # todo, at' # "idle", ~dry, ~misled'
  PROVE  c \in Excepted \/ pr'[c] # "none"
<1> USE DEF CoverInv, TypeOK, Claimed, Excepted
<1>1. CASE SkipMerge(c)
  BY <1>1 DEF SkipMerge, PassOver
<1>2. CASE Consider(c)
  BY <1>2 DEF Consider, NextCommit, Goto, github, LogIsClaimed
<1>3. CASE Search(c)
  BY <1>3 DEF Search, SearchResults, NextCommit, Goto, github
<1>4. CASE Orphan(c)
  BY <1>4 DEF Orphan, Goto
<1>5. CASE Pick(c)
  BY <1>5 DEF Pick, NextCommit, PassOver, Goto
<1>6. CASE Push(c)
  BY <1>6 DEF Push, NextCommit, Goto, Exit
<1>7. CASE Create(c)
  BY <1>7 DEF Create, NextCommit, Exit
<1> QED BY <1>1, <1>2, <1>3, <1>4, <1>5, <1>6, <1>7 DEF Step

\* A step of a run stays at its commit, goes on to the next, or ends the run; a
\* run that was misled stays so.
LEMMA Moves ==
  ASSUME TypeOK, NEW c, Step(c)
  PROVE  /\ UNCHANGED <<base, dry, seen>>
         /\ at # "idle"
         /\ misled => misled'
         /\ \/ todo' = todo
            \/ todo' = Tail(todo)
            \/ todo' = <<>> /\ at' = "idle"
<1>1. CASE SkipMerge(c) \/ Consider(c)
  BY <1>1 DEF SkipMerge, Consider, NextCommit, PassOver, Goto, github
<1>2. CASE Search(c) \/ Orphan(c) \/ Pick(c)
  BY <1>2 DEF Search, Orphan, Pick, NextCommit, PassOver, Goto, github
<1>3. CASE Push(c) \/ Create(c)
  BY <1>3 DEF Push, Create, NextCommit, Goto, Exit
<1> QED BY <1>1, <1>2, <1>3 DEF Step

\* The commit a run goes on from joins those it has handled.
LEMMA GoesOn ==
  ASSUME TypeOK, TodoIsRest, at # "idle", ~misled, todo # <<>>, todo' = Tail(todo)
  PROVE  /\ Handled' = Handled + 1 /\ Handled \in Nat
         /\ Head(todo) = Upstream[Handled']
         /\ Len(todo') <= Len(Upstream)
         /\ \A i \in 1..Len(todo') : todo'[i] = Upstream[Handled' + i]
<1>1. /\ todo \in Seq(Commits) /\ Upstream \in Seq(Commits)
      /\ Len(Upstream) \in Nat
  BY CherryPickAssumption, LenProperties DEF TypeOK, CherryPickAssumption
<1>2. /\ Len(todo) \in Nat \ {0}
      /\ Len(Tail(todo)) = Len(todo) - 1
      /\ \A i \in 1..Len(Tail(todo)) : Tail(todo)[i] = todo[i + 1]
  BY <1>1, EmptySeq, HeadTailProperties
<1>3. Handled' = Handled + 1 /\ Handled \in Nat
  BY <1>1, <1>2 DEF Handled, TodoIsRest
<1>4. Head(todo) = todo[1]
  BY <1>1
<1>5. Head(todo) = Upstream[Handled']
  BY <1>2, <1>3, <1>4 DEF TodoIsRest
<1>6. ASSUME NEW i \in 1..Len(todo') PROVE todo'[i] = Upstream[Handled' + i]
  <2>1. i + 1 \in 1..Len(todo) /\ todo'[i] = todo[i + 1] /\ Handled + (i + 1) = Handled' + i
    BY <1>2, <1>3
  <2> QED BY <2>1 DEF TodoIsRest
<1>7. Len(todo) <= Len(Upstream)
  BY DEF TodoIsRest
<1>8. Len(todo') <= Len(Upstream)
  BY <1>1, <1>2, <1>7
<1> QED BY <1>3, <1>5, <1>6, <1>8

LEMMA CoverStep == CoverInv /\ [Next]_vars => CoverInv'
<1> SUFFICES ASSUME CoverInv, [Next]_vars PROVE CoverInv'
  OBVIOUS
<1>1. TypeOK' /\ TypeOK
  BY TypeStep DEF CoverInv
<1>2. \A c \in Commits : Claimed(c) => Claimed(c)'
  BY <1>1, ClaimsStay
<1>3. Upstream \in Seq(Commits) /\ Len(Upstream) \in Nat
      /\ \A i \in 1..Len(Upstream) : Upstream[i] \in Commits
  BY CherryPickAssumption, LenProperties, ElementOfSeq DEF CherryPickAssumption
<1>4. CASE Dispatch
  <2>1. base' = base /\ seen' = base /\ (~misled' => todo' = Upstream /\ Handled' = 0)
    <3>1. ~misled' => todo' = Upstream
      BY <1>4, Zenon DEF Dispatch
    <3> QED BY <1>3, <1>4, <3>1 DEF Dispatch, Handled, github
  <2>2. LogIsClaimed'
    BY <1>1, <1>2, <2>1 DEF CoverInv, LogIsClaimed, TypeOK
  <2>3. TodoIsRest'
    BY <1>3, <2>1 DEF TodoIsRest
  <2>4. Covered'
    BY <2>1 DEF Covered
  <2> QED BY <1>1, <2>2, <2>3, <2>4 DEF CoverInv
<1>5. CASE Finish \/ Crash
  BY <1>1, <1>2, <1>5 DEF Finish, Crash, Exit, github, CoverInv, TodoIsRest, Covered, LogIsClaimed, TypeOK
<1>6. ASSUME todo # <<>>, Step(Head(todo)) PROVE CoverInv'
  <2> DEFINE c == Head(todo)
  <2>1. c \in Commits
    BY <1>1, <1>6, HeadAndTail
  <2>2. /\ UNCHANGED <<base, dry, seen>> /\ at # "idle" /\ (misled => misled')
        /\ todo' = todo \/ todo' = Tail(todo) \/ (todo' = <<>> /\ at' = "idle")
    BY <1>1, <1>6, Moves
  <2>3. LogIsClaimed'
    BY <1>1, <1>2, <2>2 DEF CoverInv, LogIsClaimed, TypeOK
  <2>4. CASE at' = "idle" \/ misled'
    BY <1>1, <2>3, <2>4 DEF CoverInv, TodoIsRest, Covered
  <2>5. CASE todo' = todo /\ ~misled'
    <3>1. Handled' = Handled
      BY <2>5 DEF Handled
    <3>2. Len(todo) \in Nat /\ Handled <= Len(Upstream) /\ Handled \in Int
      BY <1>1, <1>3, LenProperties DEF TypeOK, Handled
    <3>3. TodoIsRest'
      BY <2>2, <2>5, <3>1 DEF CoverInv, TodoIsRest
    <3>4. Covered'
      BY <1>2, <1>3, <2>2, <3>1, <3>2 DEF CoverInv, Covered
    <3> QED BY <1>1, <2>3, <3>3, <3>4 DEF CoverInv
  <2>6. CASE todo' = Tail(todo) /\ todo' # todo /\ at' # "idle" /\ ~misled'
    <3>1. /\ Handled' = Handled + 1 /\ Handled \in Nat
          /\ c = Upstream[Handled']
          /\ Len(todo') <= Len(Upstream)
          /\ \A i \in 1..Len(todo') : todo'[i] = Upstream[Handled' + i]
      BY <1>1, <1>6, <2>2, <2>6, GoesOn DEF CoverInv
    <3>2. ~dry => c \in Excepted \/ pr'[c] # "none"
      <4> HIDE DEF c
      <4> QED BY <1>6, <2>1, <2>6, PassedOver DEF c
    <3>3. Handled' \in 1..Len(Upstream)
      <4>1. Len(todo') \in Nat
        BY <1>1, LenProperties DEF TypeOK
      <4> QED BY <1>3, <3>1, <4>1 DEF Handled
    <3>4. Covered'
      <4> SUFFICES ASSUME ~dry, NEW i \in 1..Handled', Upstream[i] \notin Excepted
                   PROVE  Claimed(Upstream[i])'
        BY <2>2 DEF Covered
      <4>1. CASE i = Handled'
        BY <3>1, <3>2, <4>1 DEF Claimed
      <4>2. CASE i # Handled'
        <5>1. i \in 1..Handled /\ i \in 1..Len(Upstream)
          BY <3>1, <3>3, <4>2
        <5>2. Claimed(Upstream[i])
          BY <2>2, <2>6, <5>1 DEF CoverInv, Covered
        <5> QED BY <1>2, <1>3, <5>1, <5>2
      <4> QED BY <4>1, <4>2
    <3> QED BY <1>1, <2>3, <3>1, <3>4 DEF CoverInv, TodoIsRest
  <2> QED BY <2>2, <2>4, <2>5, <2>6
<1>7. ASSUME NEW c \in Commits, Merge(c) \/ Close(c) PROVE CoverInv'
  <2>1. UNCHANGED run /\ base' \subseteq base \cup {c} /\ base \subseteq base' /\ Claimed(c)'
    BY <1>1, <1>7 DEF Merge, Close, run, Claimed, TypeOK
  <2>2. LogIsClaimed'
    BY <1>1, <1>2, <2>1 DEF CoverInv, LogIsClaimed, TypeOK, run
  <2>3. Handled' = Handled /\ Len(todo) \in Nat /\ Handled \in Int /\ Handled <= Len(Upstream)
    BY <1>1, <1>3, <2>1, LenProperties DEF TypeOK, Handled, run
  <2>4. TodoIsRest' /\ Covered'
    BY <1>2, <1>3, <2>1, <2>3 DEF CoverInv, TodoIsRest, Covered, run
  <2> QED BY <1>1, <2>2, <2>4 DEF CoverInv
<1>8. CASE UNCHANGED vars
  BY <1>1, <1>8 DEF vars, CoverInv, TodoIsRest, Covered, LogIsClaimed, Handled, Claimed
<1> QED BY <1>4, <1>5, <1>6, <1>7, <1>8 DEF Next

\* Wherever earlier runs have failed, a run that comes to its end without being
\* misled by git has seen to every upstream commit whose pick stages a change: also
\* to those whose branch was left behind, and also when the search fails or lags.
THEOREM CompletedRunsSkipNothing == Spec => []CompletedRunCoversUpstream
<1>1. Init => CoverInv
  BY EmptyList DEF Init, CoverInv, TypeOK, TodoIsRest, Covered, LogIsClaimed
<1>2. CoverInv => CompletedRunCoversUpstream
  <2>1. Upstream \in Seq(Commits) /\ Len(Upstream) \in Nat /\ DOMAIN Upstream = 1..Len(Upstream)
    BY CherryPickAssumption, LenProperties DEF CherryPickAssumption
  <2>2. todo = <<>> => Handled = Len(Upstream)
    BY <2>1, EmptySeq DEF Handled
  <2> QED BY <2>1, <2>2 DEF CoverInv, Covered, Claimed, Excepted, CompletedRunCoversUpstream,
          Completed, CoveredBut
<1> QED BY <1>1, <1>2, CoverStep, PTL DEF Spec

-----------------------------------------------------------------------------
(***************************************************************************)
(* A reliable search.                                                      *)
(***************************************************************************)

\* The search is reliable.
SearchIsSound == Faults \cap {"search", "lag"} = {}

\* All parts are needed at once: the type of todo makes its head a commit.
Inv == SearchIsSound /\ TypeOK /\ ActsOnUnclaimed

\* A run goes past the search only for a commit that has no pull request.
LEMMA SearchFindsPRs ==
  ASSUME SearchIsSound, NEW c, "zero" \in SearchResults(c) \/ "error" \in SearchResults(c)
  PROVE  pr[c] = "none"
BY DEF SearchIsSound, SearchResults

LEMMA UnclaimedStep == Inv /\ [Next]_vars => ActsOnUnclaimed'
<1> SUFFICES ASSUME Inv, [Next]_vars PROVE ActsOnUnclaimed'
  OBVIOUS
<1> USE DEF Inv, TypeOK, ActsOnUnclaimed
<1>1. CASE Dispatch \/ Finish \/ Crash
  BY <1>1 DEF Dispatch, Finish, Crash, Exit
<1>2. ASSUME todo # <<>>, Step(Head(todo)) PROVE ActsOnUnclaimed'
  <2> DEFINE c == Head(todo)
  <2>1. c \in Commits
    BY <1>2, HeadAndTail
  <2> HIDE DEF c
  <2>2. CASE Search(c)
    <3>1. at' = "orphan" => pr[c] = "none"
      BY <2>2, SearchFindsPRs DEF Search, SearchResults, NextCommit, Goto
    <3> QED BY <1>2, <2>2, <3>1 DEF Search, NextCommit, Goto, github, c
  <2>3. CASE SkipMerge(c) \/ Consider(c)
    BY <1>2, <2>3 DEF SkipMerge, Consider, NextCommit, PassOver, Goto
  <2>4. CASE Pick(c)
    BY <1>2, <2>4 DEF Pick, NextCommit, PassOver, Goto, github
  <2>5. CASE Orphan(c)
    <3>1. pr[c] = "none"
      BY <2>5 DEF Orphan, c
    <3>2. pr' = pr \/ pr' = [pr EXCEPT ![c] = pr[c]]
      BY <2>5, <3>1 DEF Orphan, DeleteBranch
    <3>3. pr'[c] = "none" /\ todo' = todo
      BY <2>1, <2>5, <3>1, <3>2 DEF Orphan, Goto
    <3> QED BY <1>2, <3>3 DEF c
  <2>6. CASE Push(c)
    BY <1>2, <2>6 DEF Push, NextCommit, Goto, Exit, c
  <2>7. CASE Create(c)
    BY <2>7 DEF Create, NextCommit, Exit
  <2> QED BY <1>2, <2>2, <2>3, <2>4, <2>5, <2>6, <2>7 DEF Step, c
<1>3. ASSUME NEW c \in Commits, Merge(c) \/ Close(c) PROVE ActsOnUnclaimed'
  <2>1. pr[c] = "open" /\ UNCHANGED run /\ \A k \in Commits \ {c} : pr'[k] = pr[k]
    BY <1>3 DEF Merge, Close, run
  <2>2. todo # <<>> => Head(todo) \in Commits
    BY HeadAndTail
  <2> QED BY <2>1, <2>2 DEF run
<1>4. CASE UNCHANGED vars
  BY <1>4 DEF vars
<1> QED BY <1>1, <1>2, <1>3, <1>4 DEF Next

LEMMA InvHolds == Spec /\ SearchIsSound => []Inv
<1>1. Init /\ SearchIsSound => Inv
  BY EmptyList DEF Init, Inv, TypeOK, ActsOnUnclaimed
<1>2. Inv /\ [Next]_vars => Inv'
  BY TypeStep, UnclaimedStep DEF Inv, SearchIsSound
<1> QED BY <1>1, <1>2, PTL DEF Spec

\* Past the search a run works on a commit that no pull request names, and
\* that stays so while maintainers merge and close others.
THEOREM RunActsOnUnclaimed == Spec /\ SearchIsSound => []ActsOnUnclaimed
<1>1. Inv => ActsOnUnclaimed
  BY DEF Inv
<1> QED BY <1>1, InvHolds, PTL

\* How a step changes pull requests: only a maintainer changes one that exists.
LEMMA PRStep ==
  ASSUME Inv, [Next]_vars, NEW c \in Commits, pr'[c] # pr[c]
  PROVE  \/ pr[c] = "none" /\ pr'[c] = "open"
         \/ pr[c] = "open" /\ pr'[c] \in {"merged", "closed"} /\ UNCHANGED run
<1> USE DEF Inv, TypeOK, ActsOnUnclaimed
<1>1. CASE Dispatch \/ Finish \/ Crash \/ UNCHANGED vars
  BY <1>1 DEF Dispatch, Finish, Crash, github, vars
<1>2. CASE todo # <<>> /\ Step(Head(todo))
  <2> DEFINE k == Head(todo)
  <2>1. k \in Commits
    BY <1>2, HeadAndTail
  <2>2. CASE Orphan(k)
    <3>1. pr[k] = "none"
      BY <2>2 DEF Orphan
    <3>2. pr' = pr \/ pr' = [pr EXCEPT ![k] = pr[k]]
      BY <2>2, <3>1 DEF Orphan, DeleteBranch
    <3> QED BY <2>1, <3>2
  <2>3. CASE Create(k)
    <3>1. pr[k] = "none" /\ (pr' = pr \/ pr' = [pr EXCEPT ![k] = "open"])
      BY <2>3 DEF Create
    <3> QED BY <2>1, <3>1
  <2>4. CASE SkipMerge(k) \/ Consider(k) \/ Search(k) \/ Pick(k) \/ Push(k)
    BY <2>4 DEF SkipMerge, Consider, Search, Pick, Push, github
  <2> QED BY <1>2, <2>2, <2>3, <2>4 DEF Step
<1>3. ASSUME NEW k \in Commits, Merge(k) \/ Close(k)
      PROVE  pr[c] = "open" /\ pr'[c] \in {"merged", "closed"} /\ UNCHANGED run
  BY <1>3 DEF Merge, Close, run
<1> QED BY <1>1, <1>2, <1>3 DEF Next

\* One upstream commit maps to one pull request, which is not recreated once it
\* is closed.
THEOREM OnePullRequest == Spec /\ SearchIsSound => OnePRPerCommit
<1>1. Inv /\ [Next]_vars => \A c \in Commits : pr'[c] = "open" => pr[c] \in {"none", "open"}
  BY PRStep
<1> QED BY <1>1, InvHolds, PTL DEF Spec, OnePRPerCommit

\* No run ends an open pull request.
THEOREM RunsLeaveOpenPRs == Spec /\ SearchIsSound => OpenPRsAreLeftAlone
<1>1. Inv /\ [Next]_vars =>
        \A c \in Commits : pr[c] = "open" /\ pr'[c] # "open" => UNCHANGED run
  BY PRStep
<1> QED BY <1>1, InvHolds, PTL DEF Spec, OpenPRsAreLeftAlone
=============================================================================
