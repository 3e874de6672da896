-------------------------- MODULE VulnCheckProofs --------------------------
(***************************************************************************)
(* Theorems about the vuln-check job for any scanner output, any number of *)
(* pushes and re-runs, and any faults of GitHub's interface.               *)
(***************************************************************************)
EXTENDS VulnCheck, SequenceTheorems, FiniteSetTheorems, TLAPS

\* From the end of the stream on, output that is missing has left a mark.
CutIsMarked ==
  /\ at = "exit" => left = {} \/ broken \/ exitCode \in {1, Nil}
  /\ at \in {"merge", "done"} => left = {} \/ broken \/ exitCode = 1

\* What the script found is what there is when it edits.
Comments ==
  /\ head \in Nat
  /\ comments \in Seq(Nat)
  /\ Len(comments) <= 1
  /\ step = "edit" /\ found => Len(comments) = 1
  /\ step = "edit" /\ ~found => comments = <<>>

Inv == CutIsMarked /\ Comments

LEMMA InitInv == CheckInit => Inv
<1> SUFFICES ASSUME CheckInit PROVE Inv
  OBVIOUS
<1>1. <<>> \in Seq(Nat) /\ Len(<<>>) = 0
  BY EmptySeq
<1> QED BY <1>1 DEF CheckInit, Init, Inv, CutIsMarked, Comments

LEMMA ToolKeepsMark == ASSUME CutIsMarked, Next PROVE CutIsMarked'
<1>1. CASE EndOfStream
  <2>1. /\ at' = "exit" /\ left' = left
        /\ left = {} \/ broken' \/ exitCode' \in {1, Nil}
    BY <1>1 DEF EndOfStream
  <2> QED BY <2>1 DEF CutIsMarked
<1>2. CASE ReadExitCode
  BY <1>2 DEF ReadExitCode, CutIsMarked
<1>3. CASE Merge
  BY <1>3 DEF Merge, CutIsMarked
<1>4. CASE Summarise
  BY <1>4 DEF Summarise, CutIsMarked
<1>5. ASSUME NEW m \in Messages, Decode(m) PROVE CutIsMarked'
  BY <1>5 DEF Decode, CutIsMarked
<1> QED BY <1>1, <1>2, <1>3, <1>4, <1>5 DEF Next

LEMMA Overwritten ==
  ASSUME NEW s \in Seq(Nat), Len(s) = 1, NEW n \in Nat
  PROVE  [s EXCEPT ![1] = n] \in Seq(Nat) /\ Len([s EXCEPT ![1] = n]) = 1
BY ExceptSeq

LEMMA Single ==
  ASSUME NEW s \in Seq(Nat), Len(s) <= 1, s # <<>>
  PROVE  Len(s) = 1
<1>1. Len(s) \in Nat \ {0}
  BY EmptySeq
<1>2. \A n \in Nat \ {0} : n <= 1 => n = 1
  OBVIOUS
<1> QED BY <1>1, <1>2, Zenon

\* There is at most one comment to edit, and one is added only where there is none.
LEMMA EditedIsSingle ==
  ASSUME Comments, step = "edit"
  PROVE  Edited \in Seq(Nat) /\ Len(Edited) \in {0, 1}
<1>1. comments \in Seq(Nat) /\ head \in Nat
  BY DEF Comments
<1>2. CASE found
  <2>1. Len(comments) = 1
    BY <1>2 DEF Comments
  <2>2. comments # <<>>
    BY <2>1, EmptySeq
  <2>3. Tail(comments) \in Seq(Nat) /\ Len(Tail(comments)) = 0
    BY <1>1, <2>1, <2>2, HeadTailProperties
  <2>4. [comments EXCEPT ![1] = head] \in Seq(Nat) /\ Len([comments EXCEPT ![1] = head]) = 1
    BY <1>1, <2>1, Overwritten, Zenon
  <2>5. Edited \in {Tail(comments), [comments EXCEPT ![1] = head]}
    BY <1>2 DEF Edited
  <2> QED BY <2>3, <2>4, <2>5, Zenon
<1>3. CASE ~found
  <2>1. comments = <<>>
    BY <1>3 DEF Comments
  <2>2. Len(comments) = 0
    BY <2>1, EmptySeq
  <2>3. Append(comments, head) \in Seq(Nat) /\ Len(Append(comments, head)) = 1
    BY <1>1, <2>2, AppendProperties
  <2>4. Edited \in {comments, Append(comments, head)}
    BY <1>3 DEF Edited
  <2> QED BY <1>1, <2>2, <2>3, <2>4, Zenon
<1> QED BY <1>2, <1>3

\* A comment is found if there is one.
LEMMA ListFinds == ASSUME Comments, List PROVE Comments'
<1>1. comments' = comments /\ head' = head
  BY DEF List
<1>2. CASE found' = (comments # <<>>) /\ step' = "edit"
  <2>1. comments \in Seq(Nat) /\ Len(comments) \in Nat /\ Len(comments) <= 1
    BY LenProperties DEF Comments
  <2>2. comments # <<>> => Len(comments) = 1
    BY <2>1, Single
  <2>3. found' => Len(comments) = 1
    BY <1>2, <2>2
  <2>4. ~found' => comments = <<>>
    BY <1>2
  <2> QED BY <1>1, <2>1, <2>3, <2>4 DEF Comments
<1>3. CASE step' = "none"
  BY <1>1, <1>3 DEF Comments
<1> QED BY <1>2, <1>3 DEF List, End

LEMMA InvNext == ASSUME Inv, [CheckNext]_checkVars PROVE Inv'
<1> USE DEF Inv
<1>1. CASE Next /\ UNCHANGED <<head, comments, step, found, warned, verdict>>
  BY <1>1, ToolKeepsMark DEF Comments
<1>2. ASSUME NEW messages, Start(messages), head' \in Nat PROVE Inv'
  BY <1>2 DEF Start, CutIsMarked, Comments
<1>3. CASE Push
  BY <1>2, <1>3 DEF Push, Comments
<1>4. CASE Rerun
  BY <1>2, <1>4 DEF Rerun, Comments
<1>5. CASE Report
  BY <1>5 DEF Report, End, vars, CutIsMarked, Comments
<1>6. CASE List
  <2>1. CutIsMarked'
    BY <1>6 DEF List, vars, CutIsMarked
  <2> QED BY <1>6, <2>1, ListFinds
<1>7. CASE Edit
  <2>1. step = "edit" /\ step' = "enforce" /\ UNCHANGED <<vars, head>>
        /\ comments' \in {comments, Edited}
    BY <1>7 DEF Edit
  <2>2. Edited \in Seq(Nat) /\ Len(Edited) \in {0, 1}
    BY <2>1, EditedIsSingle
  <2>3. comments' \in Seq(Nat) /\ Len(comments') <= 1
    <3>1. CASE comments' = comments
      BY <3>1 DEF Comments
    <3>2. CASE comments' = Edited
      <4>1. \A n \in {0, 1} : n <= 1
        OBVIOUS
      <4> QED BY <2>2, <3>2, <4>1, Zenon
    <3> QED BY <2>1, <3>1, <3>2
  <2> QED BY <2>1, <2>3 DEF vars, CutIsMarked, Comments
<1>8. CASE Enforce
  BY <1>8 DEF Enforce, End, vars, CutIsMarked, Comments
<1>9. CASE UNCHANGED checkVars
  BY <1>9 DEF checkVars, vars, CutIsMarked, Comments
<1> QED BY <1>1, <1>3, <1>4, <1>5, <1>6, <1>7, <1>8, <1>9 DEF CheckNext

LEMMA InvHolds == CheckSpec => []Inv
BY InitInv, InvNext, PTL DEF CheckSpec

-----------------------------------------------------------------------------
\* No output that was cut off, and no exit code that was lost, passes for a result.
THEOREM UsableReportsAreComplete == CheckSpec => []UsableIsComplete
<1>1. Inv => UsableIsComplete
  BY DEF Inv, CutIsMarked, UsableIsComplete, ScannerError
<1> QED BY <1>1, InvHolds, PTL

\* However often runs are cancelled, fail to list the comments or create one
\* without knowing, they leave no second comment.
THEOREM OneComment == CheckSpec => []SingleComment
<1>1. Inv => SingleComment
  BY DEF Inv, Comments, SingleComment
<1> QED BY <1>1, InvHolds, PTL

-----------------------------------------------------------------------------
(***************************************************************************)
(* What was read, what was merged, and what is still to be merged.         *)
(***************************************************************************)

Pending == {findings[i] : i \in 1..Len(findings)}

Processed == Read \ Pending

Stream ==
  /\ left \subseteq all /\ all \subseteq Messages /\ Messages \ RawFindings \subseteq all
  /\ decoded = (all \ left) \cap (Entries \cup {Config})
  /\ findings \in Seq(RawFindings)
  /\ Pending \subseteq Read
  /\ \A i, j \in 1..Len(findings) : findings[i] = findings[j] => i = j
  /\ at \in {"decode", "exit"} => Processed = {}
  /\ at = "done" => findings = <<>>

\* An entry of the report sums up the findings in S.
SumsUp(entry, S) ==
  /\ \E raw \in S : entry.level = Content[raw].level
  /\ \A raw \in S : Content[raw].level <= entry.level
  /\ entry.trace \in IF entry.level = Called THEN S ELSE {Nil}
  /\ entry.fixed = Nil <=> \A raw \in S : Content[raw].fixed = Nil

Of(k) == {raw \in Processed : Key(raw) = k}

Merged ==
  /\ IsFiniteSet(DOMAIN merged)
  /\ DOMAIN merged = {Key(raw) : raw \in Processed}
  /\ \A k \in DOMAIN merged : SumsUp(merged[k], Of(k))

LEMMA Levels ==
  ASSUME NEW raw \in RawFindings
  PROVE  Content[raw].osv \in Entries /\ Content[raw].level \in {0, 1, 2}
BY VulnReportAssumption DEF VulnReportAssumption, Required, Called

LEMMA NothingMerged == DOMAIN <<>> = {} /\ <<>> \in Seq(RawFindings) /\ Len(<<>>) = 0
<1>1. <<>> \in Seq(RawFindings) /\ Len(<<>>) = 0
  BY EmptySeq
<1>2. DOMAIN <<>> = 1..0
  BY <1>1, LenProperties
<1> QED BY <1>1, <1>2

\* The first finding of a pair.
LEMMA DescribeSumsUp ==
  ASSUME NEW raw \in RawFindings
  PROVE  SumsUp(Describe(raw), {raw})
BY Levels DEF SumsUp, Describe

\* A further one: the order in which the two come does not matter.
LEMMA AddSumsUp ==
  ASSUME NEW old, NEW S \in SUBSET RawFindings, SumsUp(old, S), NEW raw \in RawFindings
  PROVE  SumsUp(Add(old, Describe(raw)), S \cup {raw})
<1> DEFINE new == Add(old, Describe(raw))
<1>1. /\ new.level = IF Content[raw].level > old.level THEN Content[raw].level ELSE old.level
      /\ new.fixed = IF old.fixed = Nil THEN Content[raw].fixed ELSE old.fixed
      /\ new.trace = IF Content[raw].level > old.level
                     THEN (IF Content[raw].level = Called THEN raw ELSE Nil) ELSE old.trace
  BY DEF Add, Describe
<1>2. old.level \in {0, 1, 2} /\ Content[raw].level \in {0, 1, 2}
  BY Levels DEF SumsUp
<1> HIDE DEF new
<1>3. \A r \in S : Content[r].level \in {0, 1, 2}
  BY Levels
<1>4. \E r \in S \cup {raw} : new.level = Content[r].level
  BY <1>1 DEF SumsUp
<1>5. \A r \in S \cup {raw} : Content[r].level <= new.level
  BY <1>1, <1>2, <1>3 DEF SumsUp
<1>6. new.trace \in IF new.level = Called THEN S \cup {raw} ELSE {Nil}
  BY <1>1, <1>2 DEF SumsUp
<1>7. new.fixed = Nil <=> \A r \in S \cup {raw} : Content[r].fixed = Nil
  BY <1>1 DEF SumsUp
<1> QED BY <1>4, <1>5, <1>6, <1>7 DEF SumsUp, new

\* A scan starts with nothing read.
LEMMA StartsEmpty ==
  ASSUME NEW messages, messages \subseteq Messages, Messages \ RawFindings \subseteq messages,
         all' = messages, left' = messages, at' = "decode",
         decoded' = {}, findings' = <<>>, merged' = <<>>
  PROVE  Stream' /\ Merged'
<1>1. Pending' = {} /\ Read' = {} /\ Processed' = {}
  BY NothingMerged DEF Pending, Read, Processed
<1>2. Stream'
  BY <1>1, NothingMerged DEF Stream
<1>3. Merged'
  BY <1>1, NothingMerged, FS_EmptySet DEF Merged
<1> QED BY <1>2, <1>3

LEMMA StillEmpty ==
  ASSUME Processed' = {}, merged' = merged, DOMAIN merged = {}
  PROVE  Merged'
BY FS_EmptySet DEF Merged

\* Until the stream has ended nothing is merged.
LEMMA DecodeStep ==
  ASSUME Stream, Merged, NEW m \in Messages, Decode(m)
  PROVE  Stream' /\ Merged'
<1>1. m \in left /\ left' = left \ {m} /\ all' = all /\ at = "decode" /\ at' = "decode"
      /\ merged' = merged
  BY DEF Decode
<1>2. Processed = {} /\ DOMAIN merged = {}
  BY <1>1 DEF Stream, Merged
<1>3. m \notin Read /\ Read' = Read \cup ({m} \cap RawFindings)
  BY <1>1 DEF Read, Stream
<1>4. CASE m \in RawFindings
  <2>1. findings' = Append(findings, m) /\ decoded' = decoded
    BY <1>4 DEF Decode
  <2>2. /\ findings' \in Seq(RawFindings)
        /\ Len(findings) \in Nat /\ Len(findings') = Len(findings) + 1
        /\ \A i \in 1..Len(findings) : findings'[i] = findings[i]
        /\ findings'[Len(findings) + 1] = m
    BY <1>4, <2>1, AppendProperties, LenProperties DEF Stream
  <2>3. Pending' = Pending \cup {m}
    <3>1. \A i \in 1..Len(findings') : findings'[i] \in Pending \cup {m}
      BY <2>2 DEF Pending
    <3>2. \A i \in 1..Len(findings) : findings[i] \in Pending'
      BY <2>2 DEF Pending
    <3>3. m \in Pending'
      BY <2>2 DEF Pending
    <3> QED BY <3>1, <3>2, <3>3 DEF Pending
  <2>4. Processed' = {} /\ Pending' \subseteq Read'
    BY <1>2, <1>3, <1>4, <2>3 DEF Processed, Stream
  <2>5. \A i, j \in 1..Len(findings') : findings'[i] = findings'[j] => i = j
    <3>1. \A i \in 1..Len(findings) : findings[i] # m
      BY <1>3 DEF Stream, Pending
    <3> QED BY <2>2, <3>1 DEF Stream
  <2>6. decoded' = (all' \ left') \cap (Entries \cup {Config})
    BY <1>1, <1>4, <2>1 DEF Stream, RawFindings
  <2> QED BY <1>1, <1>2, <2>2, <2>4, <2>5, <2>6, StillEmpty DEF Stream
<1>5. CASE m \notin RawFindings
  <2>1. findings' = findings /\ decoded' = decoded \cup {m} /\ Read' = Read
    BY <1>3, <1>5 DEF Decode
  <2>2. Pending' = Pending /\ Processed' = Processed
    BY <2>1 DEF Pending, Processed
  <2>3. decoded' = (all' \ left') \cap (Entries \cup {Config})
    BY <1>1, <1>5, <2>1 DEF Stream, RawFindings
  <2> QED BY <1>1, <1>2, <2>1, <2>2, <2>3, StillEmpty DEF Stream
<1> QED BY <1>4, <1>5

\* A step that reads and merges nothing.
LEMMA StillStream ==
  ASSUME Stream, Merged, UNCHANGED <<all, left, decoded, findings, merged>>,
         at' \in {"decode", "exit"} => at \in {"decode", "exit"},
         at' = "done" => findings = <<>>
  PROVE  Stream' /\ Merged'
<1>1. Pending' = Pending /\ Read' = Read /\ Processed' = Processed
  BY DEF Pending, Read, Processed
<1>2. \A raw : Key(raw)' = Key(raw)
  BY DEF Key, Fallback
<1>3. \A k : Of(k)' = Of(k)
  BY <1>1, <1>2 DEF Of
<1>4. Stream'
  BY <1>1 DEF Stream
<1>5. Merged'
  BY <1>1, <1>2, <1>3 DEF Merged
<1> QED BY <1>4, <1>5

\* One finding goes from those that wait to those that are summed up.
LEMMA MergeStep == ASSUME Stream, Merged, Merge PROVE Stream' /\ Merged'
<1> DEFINE raw == Head(findings)
           key == Key(raw)
<1>1. /\ at = "merge" /\ at' = "merge" /\ findings # <<>> /\ findings' = Tail(findings)
      /\ UNCHANGED <<all, left, decoded>>
      /\ merged' = [k \in DOMAIN merged \cup {key} |->
                      IF k # key THEN merged[k]
                      ELSE IF key \in DOMAIN merged THEN Add(merged[key], Describe(raw))
                      ELSE Describe(raw)]
  BY DEF Merge
<1>2. /\ findings \in Seq(RawFindings)
      /\ Len(findings) \in Nat \ {0}
      /\ findings' \in Seq(RawFindings)
      /\ Len(findings') = Len(findings) - 1
      /\ \A i \in 1..Len(findings') : findings'[i] = findings[i + 1]
      /\ raw = findings[1] /\ raw \in RawFindings
  BY <1>1, EmptySeq, HeadTailProperties DEF Stream
<1> HIDE DEF raw, key
<1>3. Pending' = Pending \ {raw} /\ raw \in Pending
  <2>1. raw \in Pending
    BY <1>2 DEF Pending
  <2>2. \A i \in 1..Len(findings') : findings'[i] \in Pending \ {raw}
    <3> SUFFICES ASSUME NEW i \in 1..Len(findings') PROVE findings'[i] \in Pending \ {raw}
      OBVIOUS
    <3>1. i + 1 \in 1..Len(findings) /\ 1 \in 1..Len(findings) /\ i + 1 # 1
      BY <1>2
    <3>2. findings[i + 1] \in Pending /\ findings[i + 1] # findings[1]
      BY <3>1 DEF Pending, Stream
    <3> QED BY <1>2, <3>2
  <2>3. \A i \in 1..Len(findings) : findings[i] # raw => findings[i] \in Pending'
    <3> SUFFICES ASSUME NEW i \in 1..Len(findings), findings[i] # raw PROVE findings[i] \in Pending'
      OBVIOUS
    <3>1. i - 1 \in 1..Len(findings') /\ (i - 1) + 1 = i
      BY <1>2
    <3>2. findings'[i - 1] = findings[i]
      BY <1>2, <3>1
    <3> QED BY <3>1, <3>2 DEF Pending
  <2> QED BY <2>1, <2>2, <2>3 DEF Pending
<1>4. Read' = Read /\ Processed' = Processed \cup {raw} /\ raw \notin Processed
  BY <1>1, <1>3 DEF Read, Processed, Stream
<1>5. Stream'
  <2>1. \A i, j \in 1..Len(findings') : findings'[i] = findings'[j] => i = j
    <3> SUFFICES ASSUME NEW i \in 1..Len(findings'), NEW j \in 1..Len(findings'),
                        findings'[i] = findings'[j]
                 PROVE  i = j
      OBVIOUS
    <3>1. i + 1 \in 1..Len(findings) /\ j + 1 \in 1..Len(findings)
      BY <1>2
    <3>2. i + 1 = j + 1
      BY <1>2, <3>1 DEF Stream
    <3> QED BY <3>2
  <2> QED BY <1>1, <1>2, <1>3, <1>4, <2>1 DEF Stream
<1>6. \A r : Key(r)' = Key(r)
  BY <1>1 DEF Key, Fallback
<1>7. DOMAIN merged' = DOMAIN merged \cup {key}
  BY <1>1
<1>8. DOMAIN merged' = {Key(r) : r \in Processed'} /\ IsFiniteSet(DOMAIN merged')
  BY <1>4, <1>7, FS_AddElement DEF Merged, key
<1>9. ASSUME NEW k \in DOMAIN merged' PROVE SumsUp(merged'[k], {r \in Processed' : Key(r) = k})
  <2>1. CASE k # key
    <3>1. merged'[k] = merged[k] /\ k \in DOMAIN merged
      BY <1>1, <1>7, <2>1
    <3>2. {r \in Processed' : Key(r) = k} = Of(k)
      BY <1>4, <2>1 DEF Of, key
    <3> QED BY <3>1, <3>2 DEF Merged
  <2>2. CASE k = key /\ key \in DOMAIN merged
    <3>1. merged'[k] = Add(merged[key], Describe(raw))
      BY <1>1, <2>2
    <3>2. {r \in Processed' : Key(r) = k} = Of(key) \cup {raw}
      BY <1>4, <2>2 DEF Of, key
    <3>3. Of(key) \in SUBSET RawFindings
      BY DEF Of, Processed, Read
    <3>4. SumsUp(merged[key], Of(key))
      BY <2>2 DEF Merged
    <3> QED BY <1>2, <3>1, <3>2, <3>3, <3>4, AddSumsUp
  <2>3. CASE k = key /\ key \notin DOMAIN merged
    <3>1. merged'[k] = Describe(raw)
      BY <1>1, <1>7, <2>3
    <3>2. {r \in Processed' : Key(r) = k} = {raw}
      BY <1>4, <2>3 DEF Merged, key
    <3> QED BY <1>2, <3>1, <3>2, DescribeSumsUp
  <2> QED BY <2>1, <2>2, <2>3
<1>10. Merged'
  BY <1>6, <1>8, <1>9 DEF Merged, Of
<1> QED BY <1>5, <1>10

LEMMA ToolStep == ASSUME Stream, Merged, Next PROVE Stream' /\ Merged'
<1>1. CASE EndOfStream
  BY <1>1, StillStream DEF EndOfStream
<1>2. CASE ReadExitCode
  BY <1>2, StillStream DEF ReadExitCode
<1>3. CASE Summarise
  BY <1>3, StillStream DEF Summarise
<1> QED BY <1>1, <1>2, <1>3, DecodeStep, MergeStep DEF Next

LEMMA StreamInit == CheckInit => Stream /\ Merged
<1> SUFFICES ASSUME CheckInit PROVE Stream /\ Merged
  OBVIOUS
<1>1. all \subseteq Messages /\ Messages \ RawFindings \subseteq all /\ left = all
  BY DEF CheckInit, Init
<1>2. Pending = {} /\ Read = {} /\ Processed = {}
  BY <1>1, NothingMerged DEF CheckInit, Init, Pending, Read, Processed
<1>3. Stream
  BY <1>1, <1>2, NothingMerged DEF CheckInit, Init, Stream
<1>4. Merged
  BY <1>2, NothingMerged, FS_EmptySet DEF CheckInit, Init, Merged
<1> QED BY <1>3, <1>4

LEMMA StreamNext == ASSUME Stream, Merged, [CheckNext]_checkVars PROVE Stream' /\ Merged'
<1>1. CASE Push \/ Rerun
  <2>1. ASSUME NEW messages, Start(messages), messages \subseteq Messages,
               Messages \ RawFindings \subseteq messages
        PROVE  Stream' /\ Merged'
    BY <2>1, StartsEmpty DEF Start
  <2> QED BY <1>1, <2>1 DEF Push, Rerun, Stream
<1>2. CASE UNCHANGED vars
  BY <1>2, StillStream DEF vars, Stream
<1>3. CASE Next
  BY <1>3, ToolStep
<1> QED BY <1>1, <1>2, <1>3 DEF CheckNext, checkVars, Report, List, Edit, Enforce

LEMMA MergedHolds == CheckSpec => [](Stream /\ Merged)
BY StreamInit, StreamNext, PTL DEF CheckSpec

-----------------------------------------------------------------------------
(***************************************************************************)
(* The report.                                                             *)
(***************************************************************************)

\* The module of a finding is named by its entry, even if that comes last.
LEMMA KeyIsPair ==
  ASSUME Stream, NEW raw \in RawFindings
  PROVE  Key(raw) = <<Content[raw].osv, ModuleOf(raw)>>
<1>1. Content[raw].osv \in Entries /\ Content[raw].osv \in Messages \ RawFindings
  BY Levels, VulnReportAssumption DEF VulnReportAssumption, RawFindings
<1>2. Content[raw].osv \in decoded <=> Content[raw].osv \notin left
  BY <1>1 DEF Stream
<1> QED BY <1>2 DEF Key, Fallback, ModuleOf

LEMMA MaxIs ==
  ASSUME NEW S, NEW m \in S, S \subseteq {0, 1, 2}, \A x \in S : x <= m
  PROVE  Max(S) = m
<1>1. \A x \in S : (\A y \in S : x >= y) => x = m
  OBVIOUS
<1>2. \A y \in S : m >= y
  OBVIOUS
<1> QED BY <1>1, <1>2 DEF Max

LEMMA DoneIsMerged ==
  ASSUME Stream, at = "done"
  PROVE  Processed = Read /\ \A k : Of(k) = {raw \in Read : Key(raw) = k}
<1>1. Pending = {}
  BY NothingMerged DEF Stream, Pending
<1> QED BY <1>1 DEF Processed, Of

\* The order in which the findings came is not to be seen in the report.
THEOREM OrderIsLost == CheckSpec => []MergeIsOrderless
<1>1. ASSUME Stream, Merged PROVE MergeIsOrderless
  <2> SUFFICES ASSUME at = "done"
               PROVE  /\ DOMAIN merged = Pairs
                      /\ \A k \in DOMAIN merged :
                           /\ merged[k].level = Max({Content[raw].level : raw \in Same(k)})
                           /\ merged[k].trace \in IF merged[k].level = Called THEN Same(k) ELSE {Nil}
                           /\ merged[k].fixed = Nil <=> \A raw \in Same(k) : Content[raw].fixed = Nil
    BY DEF MergeIsOrderless
  <2>1. Processed = Read /\ Read \subseteq RawFindings
    BY <1>1, DoneIsMerged DEF Read
  <2>2. \A raw \in Read : Key(raw) = <<Content[raw].osv, ModuleOf(raw)>>
    BY <1>1, <2>1, KeyIsPair
  <2>3. DOMAIN merged = Pairs
    BY <1>1, <2>1, <2>2 DEF Merged, Pairs
  <2>4. ASSUME NEW k \in DOMAIN merged
        PROVE  /\ merged[k].level = Max({Content[raw].level : raw \in Same(k)})
               /\ merged[k].trace \in IF merged[k].level = Called THEN Same(k) ELSE {Nil}
               /\ merged[k].fixed = Nil <=> \A raw \in Same(k) : Content[raw].fixed = Nil
    <3>1. Same(k) = Of(k) /\ Same(k) \subseteq RawFindings
      BY <2>1, <2>2, <2>3 DEF Same, Of, Pairs
    <3>2. SumsUp(merged[k], Same(k))
      BY <1>1, <3>1 DEF Merged
    <3> DEFINE levels == {Content[raw].level : raw \in Same(k)}
    <3>3. levels \subseteq {0, 1, 2} /\ merged[k].level \in levels /\ \A x \in levels : x <= merged[k].level
      BY <3>1, <3>2, Levels DEF SumsUp
    <3> HIDE DEF levels
    <3>4. merged[k].level = Max(levels)
      BY <3>3, MaxIs
    <3> QED BY <3>2, <3>4 DEF SumsUp, levels
  <2> QED BY <2>3, <2>4
<1> QED BY <1>1, MergedHolds, PTL

\* What comes before the deeper of two entries comes before the other.
LEMMA DeeperFirst ==
  ASSUME Merged, NEW mode, NEW shown \in Rows(mode), NEW cut \in Shown(mode) \ Rows(mode)
  PROVE  merged[shown].level >= merged[cut].level
<1> DEFINE above(k) == {l \in Shown(mode) : Before(l, k)}
<1>1. Shown(mode) \subseteq DOMAIN merged /\ shown \in Shown(mode)
  BY DEF Shown, Rows
<1>2. \A k \in Shown(mode) : merged[k].level \in {0, 1, 2}
  BY <1>1, Levels DEF Merged, SumsUp, Of, Processed, Read
<1>3. \A k : IsFiniteSet(above(k)) /\ Cardinality(above(k)) \in Nat
  BY <1>1, FS_Subset, FS_CardinalityType DEF Merged
<1>4. MaxRows \in Int
  BY VulnReportAssumption DEF VulnReportAssumption
<1>5. Cardinality(above(shown)) < Cardinality(above(cut))
  BY <1>3, <1>4 DEF Rows
<1>6. ASSUME merged[shown].level < merged[cut].level PROVE FALSE
  <2>1. above(cut) \subseteq above(shown)
    BY <1>1, <1>2, <1>6 DEF Before
  <2>2. Cardinality(above(cut)) <= Cardinality(above(shown))
    BY <1>3, <2>1, FS_Subset
  <2> QED BY <1>3, <1>5, <2>2
<1> QED BY <1>1, <1>2, <1>6

\* No comment says less than the scanner, or shows the lesser risk.
THEOREM NothingWorseIsHidden == CheckSpec => []CommentHidesNothingWorse
<1>1. ASSUME Stream, Merged, Inv PROVE CommentHidesNothingWorse
  <2> SUFFICES ASSUME at = "done", NEW mode \in {"full", "fixable"}
               PROVE  /\ Headline(mode) = "nothing" => RawFindings \cap all = {}
                      /\ Headline(mode) = "nothing fixable" =>
                           \A raw \in RawFindings \cap all : Content[raw].fixed = Nil
                      /\ \A shown \in Rows(mode), cut \in Shown(mode) \ Rows(mode) :
                           merged[shown].level >= merged[cut].level
    BY DEF CommentHidesNothingWorse
  <2>1. ~ScannerError => left = {}
    BY <1>1 DEF Inv, CutIsMarked, ScannerError
  <2>2. ~ScannerError => Read = RawFindings \cap all
    BY <2>1 DEF Read
  <2>3. /\ DOMAIN merged = {Key(raw) : raw \in Read}
        /\ \A raw \in Read : merged[Key(raw)].fixed = Nil => Content[raw].fixed = Nil
    BY <1>1, DoneIsMerged DEF Merged, SumsUp
  <2>4. Headline(mode) = "nothing" => ~ScannerError /\ DOMAIN merged = {}
    BY DEF Headline
  <2>5. Headline(mode) = "nothing fixable" => ~ScannerError /\ Shown("fixable") = {}
    BY DEF Headline
  <2>6. Shown("fixable") = {} => \A k \in DOMAIN merged : merged[k].fixed = Nil
    BY DEF Shown, Fixable
  <2> QED BY <1>1, <2>2, <2>3, <2>4, <2>5, <2>6, DeeperFirst
<1> QED BY <1>1, MergedHolds, InvHolds, PTL

-----------------------------------------------------------------------------
(***************************************************************************)
(* The comment.                                                            *)
(***************************************************************************)

\* The comments as they should be after a scan.
Due == IF \E k \in DOMAIN merged : Fixable(k) THEN <<head>> ELSE <<>>

\* From the edit on, the comments are due unless a call has failed, until the next
\* run starts.
Current ==
  /\ step \in {"list", "edit", "enforce"} => at = "done"
  /\ step = "enforce" /\ ~warned => comments = Due
  /\ verdict = "success" => step = "none" /\ at = "done" /\ ~ScannerError
  /\ verdict = "success" /\ ~warned => comments = Due

LEMMA CountsFixable ==
  ASSUME Merged
  PROVE  FixableCount = 0 <=> \A k \in DOMAIN merged : ~Fixable(k)
<1> DEFINE fixable == {k \in DOMAIN merged : Fixable(k)}
<1>1. IsFiniteSet(fixable)
  BY FS_Subset DEF Merged
<1>2. Cardinality(fixable) = 0 <=> fixable = {}
  BY <1>1, FS_EmptySet
<1> QED BY <1>2 DEF FixableCount

LEMMA OneEntry ==
  ASSUME NEW s \in Seq(Nat), NEW n \in Nat
  PROVE  /\ Len(s) = 1 => Tail(s) = <<>> /\ [s EXCEPT ![1] = n] = <<n>>
         /\ Append(<<>>, n) = <<n>>
<1>1. ASSUME Len(s) = 1 PROVE Tail(s) = <<>>
  <2>1. Len(<<>>) # 1
    BY NothingMerged
  <2>2. s # <<>>
    BY <1>1, <2>1, Zenon
  <2>3. Tail(s) \in Seq(Nat) /\ Len(Tail(s)) = 0
    BY <1>1, <2>2, HeadTailProperties
  <2> QED BY <2>3, EmptySeq
<1>2. ASSUME Len(s) = 1 PROVE [s EXCEPT ![1] = n] = <<n>>
  BY <1>2
<1>3. Append(<<>>, n) = <<n>>
  OBVIOUS
<1> QED BY <1>1, <1>2, <1>3

\* An edit that is carried out leaves the comments as they should be.
LEMMA EditedIsDue ==
  ASSUME Comments, Merged, step = "edit"
  PROVE  Edited = Due
<1>1. comments \in Seq(Nat) /\ head \in Nat
  BY DEF Comments
<1>2. found => Tail(comments) = <<>> /\ [comments EXCEPT ![1] = head] = <<head>>
  BY <1>1, OneEntry DEF Comments
<1>3. ~found => comments = <<>> /\ Append(comments, head) = <<head>>
  BY <1>1, OneEntry DEF Comments
<1>4. CASE FixableCount = 0
  <2>1. Due = <<>>
    BY <1>4, CountsFixable DEF Due
  <2> QED BY <1>2, <1>3, <1>4, <2>1 DEF Edited
<1>5. CASE FixableCount # 0
  <2>1. Due = <<head>>
    BY <1>5, CountsFixable DEF Due
  <2> QED BY <1>2, <1>3, <1>5, <2>1 DEF Edited
<1> QED BY <1>4, <1>5

LEMMA CurrentInit == CheckInit => Current
BY DEF CheckInit, Init, Current

LEMMA CurrentNext ==
  ASSUME Comments, Merged, Current, [CheckNext]_checkVars
  PROVE  Current'
<1>1. CASE step = "report" /\ Next /\ UNCHANGED <<head, comments, step, found, warned, verdict>>
  <2>1. step' = "report" /\ verdict' # "success"
    BY <1>1 DEF Current
  <2> QED BY <2>1 DEF Current
<1>2. CASE Push \/ Rerun
  BY <1>2 DEF Push, Rerun, Start, Current
<1>3. ASSUME UNCHANGED vars PROVE (ScannerError' <=> ScannerError) /\ (UNCHANGED head => Due' = Due)
  BY <1>3 DEF vars, ScannerError, Due, Fixable
<1>4. CASE Report
  BY <1>3, <1>4 DEF Report, End, vars, Current
<1>5. CASE List
  BY <1>3, <1>5 DEF List, End, vars, Current
<1>6. CASE Edit
  <2>1. step = "edit" /\ step' = "enforce" /\ at' = "done" /\ verdict' # "success"
    BY <1>6 DEF Edit, vars, Current
  <2>2. ~warned' => comments' = Due'
    BY <1>3, <1>6, <2>1, EditedIsDue DEF Edit
  <2> QED BY <2>1, <2>2 DEF Current
<1>7. CASE Enforce
  BY <1>3, <1>7 DEF Enforce, End, vars, Current
<1>8. CASE UNCHANGED checkVars
  BY <1>3, <1>8 DEF checkVars, vars, Current
<1> QED BY <1>1, <1>2, <1>4, <1>5, <1>6, <1>7, <1>8 DEF CheckNext

LEMMA CurrentHolds == CheckSpec => []Current
BY CurrentInit, CurrentNext, InvHolds, MergedHolds, PTL DEF CheckSpec, Inv

\* After a run that succeeds without a warning there is a comment exactly if the
\* commit has something to fix, and it describes that commit.
THEOREM CommentsFollow == CheckSpec => []CommentIsCurrent
<1>1. ASSUME Stream, Merged, Inv, Current PROVE CommentIsCurrent
  <2> SUFFICES ASSUME verdict = "success", ~warned
               PROVE  comments = IF \E raw \in RawFindings \cap all : Content[raw].fixed # Nil
                                 THEN <<head>> ELSE <<>>
    BY DEF CommentIsCurrent
  <2>1. comments = Due /\ at = "done" /\ ~ScannerError
    BY <1>1 DEF Current
  <2>2. left = {}
    BY <1>1, <2>1 DEF Inv, CutIsMarked, ScannerError
  <2>3. Processed = RawFindings \cap all
    BY <1>1, <2>1, <2>2, DoneIsMerged DEF Read
  <2>4. /\ DOMAIN merged = {Key(raw) : raw \in Processed}
        /\ \A k \in DOMAIN merged :
             merged[k].fixed = Nil <=> \A raw \in Processed : Key(raw) = k => Content[raw].fixed = Nil
    BY <1>1 DEF Merged, SumsUp, Of
  <2>5. (\E k \in DOMAIN merged : Fixable(k)) <=> \E raw \in Processed : Content[raw].fixed # Nil
    BY <2>4 DEF Fixable
  <2> QED BY <2>1, <2>3, <2>5 DEF Due
<1> QED BY <1>1, MergedHolds, InvHolds, CurrentHolds, PTL

-----------------------------------------------------------------------------
(***************************************************************************)
(* Type correctness. The messages and findings are in Stream, the levels   *)
(* of the report in Merged.                                                *)
(***************************************************************************)

Scalars ==
  /\ at \in {"decode", "exit", "merge", "done", "failed"}
  /\ broken \in BOOLEAN
  /\ exitCode \in {0, 1, 3, Nil}
  /\ head \in 1..MaxPushes
  /\ comments \in Seq(1..head)
  /\ step \in {"none", "report", "list", "edit", "enforce"}
  /\ found \in BOOLEAN /\ warned \in BOOLEAN
  /\ verdict \in {"none", "success", "failure"}

LEMMA EditedType ==
  ASSUME comments \in Seq(1..head), head \in Nat \ {0}, Comments, step = "edit"
  PROVE  Edited \in Seq(1..head)
<1>1. head \in 1..head
  OBVIOUS
<1>2. found => comments # <<>> /\ 1 \in 1..Len(comments)
  BY NothingMerged DEF Comments
<1>3. found => Tail(comments) \in Seq(1..head)
  BY <1>2, HeadTailProperties
<1>4. found => [comments EXCEPT ![1] = head] \in Seq(1..head)
  BY <1>1, <1>2, ExceptSeq
<1>5. Append(comments, head) \in Seq(1..head)
  BY <1>1, AppendProperties
<1> QED BY <1>3, <1>4, <1>5 DEF Edited

LEMMA ScalarsInit == CheckInit => Scalars
<1> SUFFICES ASSUME CheckInit PROVE Scalars
  OBVIOUS
<1>1. head \in 1..MaxPushes
  BY VulnCheckAssumption DEF CheckInit, VulnCheckAssumption
<1>2. comments \in Seq(1..head)
  BY EmptySeq DEF CheckInit
<1> QED BY <1>1, <1>2 DEF CheckInit, Init, Scalars

LEMMA ScalarsNext ==
  ASSUME Scalars, Comments, [CheckNext]_checkVars
  PROVE  Scalars'
<1> USE DEF Scalars
<1>1. ASSUME Next, UNCHANGED <<head, comments, step, found, warned, verdict>> PROVE Scalars'
  <2>1. CASE EndOfStream
    BY <1>1, <2>1 DEF EndOfStream
  <2>2. CASE ReadExitCode \/ Merge \/ Summarise \/ \E m \in Messages : Decode(m)
    BY <1>1, <2>2 DEF ReadExitCode, Merge, Summarise, Decode
  <2> QED BY <1>1, <2>1, <2>2 DEF Next
<1>2. CASE Push
  <2>1. head \in 1..head' /\ 1..head \subseteq 1..head' /\ head' \in 1..MaxPushes
    BY <1>2, VulnCheckAssumption DEF Push, VulnCheckAssumption
  <2>2. comments' \in Seq(1..head')
    BY <1>2, <2>1, SeqMonotonic DEF Push, Start
  <2> QED BY <1>2, <2>1, <2>2 DEF Push, Start
<1>3. CASE Rerun
  BY <1>3 DEF Rerun, Start
<1>4. CASE Report
  BY <1>4 DEF Report, End, vars
<1>5. CASE List
  <2>1. found' \in BOOLEAN
    BY <1>5 DEF List
  <2> QED BY <1>5, <2>1 DEF List, End, vars
<1>6. CASE Edit
  <2>1. head \in Nat \ {0} /\ step = "edit" /\ UNCHANGED <<vars, head, found, verdict>>
        /\ step' = "enforce" /\ comments' \in {comments, Edited}
    BY <1>6, VulnCheckAssumption DEF Edit, VulnCheckAssumption
  <2>2. comments' \in Seq(1..head')
    BY <2>1, EditedType
  <2>3. warned' \in BOOLEAN
    BY <1>6 DEF Edit
  <2> QED BY <2>1, <2>2, <2>3 DEF vars
<1>7. CASE Enforce
  BY <1>7 DEF Enforce, End, vars
<1>8. CASE UNCHANGED checkVars
  BY <1>8 DEF checkVars, vars
<1> QED BY <1>1, <1>2, <1>3, <1>4, <1>5, <1>6, <1>7, <1>8 DEF CheckNext

LEMMA ScalarsHold == CheckSpec => []Scalars
BY ScalarsInit, ScalarsNext, InvHolds, PTL DEF CheckSpec, Inv

\* The variables keep their types.
THEOREM TypeCorrect == CheckSpec => []CheckTypeOK
<1>1. ASSUME Stream, Merged, Scalars PROVE CheckTypeOK
  <2>1. \A k \in DOMAIN merged : merged[k].level \in Required..Called
    <3>1. \A k : Of(k) \subseteq RawFindings
      BY DEF Of, Processed, Read
    <3> QED BY <1>1, <3>1, Levels DEF Merged, SumsUp, Required, Called
  <2> QED BY <1>1, <2>1 DEF CheckTypeOK, TypeOK, Stream, Scalars
<1> QED BY <1>1, MergedHolds, ScalarsHold, PTL
=============================================================================
