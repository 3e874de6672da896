----------------------------- MODULE VulnReport -----------------------------
(***************************************************************************)
(* tools/govulncheck-report: read the message stream of a scanner, merge   *)
(* its findings, say whether the result can be relied on and render it.    *)
(* The scanner may emit its messages in any order and may be killed        *)
(* between two of them, or within one. What it emitted and its exit code   *)
(* lie in files when the tool reads them; emitting a message and decoding  *)
(* it are one step. Versions and texts are left out; a fix is one whatever *)
(* its version.                                                            *)
(***************************************************************************)
EXTENDS Integers, Sequences, FiniteSets, FiniteSetsExt

CONSTANTS
  Messages,    \* what the scanner may have to say
  Config,      \* the message that describes the scanner
  Entries,     \* the messages that describe a vulnerability (OSV)
  Content,     \* for each other message, what it found
  FallbackOf,  \* the first package each entry names as affected
  Rank,        \* the order of the names of vulnerabilities and modules
  MaxRows,     \* the rows that a table may have, 0 or less for no limit
  Nil          \* an empty string: no module, no fix, no trace; no exit code

\* Levels of reachability: required, imported, called.
Required == 0
Called == 2

RawFindings == Messages \ (Entries \cup {Config})

ASSUME VulnReportAssumption ==
  /\ Config \in Messages
  /\ Entries \subseteq Messages
  /\ MaxRows \in Int
  /\ \A f \in RawFindings : Content[f].osv \in Entries /\ Content[f].level \in Required..Called

VARIABLES
  all,       \* what the scanner has to say in this scan
  left,      \* messages not yet emitted
  at,        \* "decode", "exit", "merge", "done" or, without a report, "failed"
  decoded,   \* config and entries that were read
  findings,  \* findings that were read, in order
  broken,    \* whether the decoder met an error
  exitCode,  \* in its file: 0, 3 for vulnerabilities, 1 for any other, or unreadable
  merged     \* the findings by (vulnerability, module)

vars == <<all, left, at, decoded, findings, broken, exitCode, merged>>

TypeOK ==
  /\ left \subseteq all /\ all \subseteq Messages
  /\ at \in {"decode", "exit", "merge", "done", "failed"}
  /\ decoded \subseteq Entries \cup {Config}
  /\ findings \in Seq(RawFindings)
  /\ broken \in BOOLEAN
  /\ exitCode \in {0, 1, 3, Nil}
  /\ \A k \in DOMAIN merged : merged[k].level \in Required..Called

Init ==
  /\ \E some \in SUBSET RawFindings : all = Messages \ some
  /\ left = all
  /\ at = "decode"
  /\ decoded = {}
  /\ findings = <<>>
  /\ broken = FALSE
  /\ exitCode = 0
  /\ merged = <<>>

-----------------------------------------------------------------------------
\* The decoder reads a message.
Decode(m) ==
  /\ at = "decode"
  /\ m \in left
  /\ left' = left \ {m}
  /\ IF m \in RawFindings
     THEN findings' = Append(findings, m) /\ UNCHANGED decoded
     ELSE decoded' = decoded \cup {m} /\ UNCHANGED findings
  /\ UNCHANGED <<all, at, broken, exitCode, merged>>

\* The stream ends: after everything, with the exit code of a result, or early,
\* at the end of a message or within one, with that of a failure. The file with
\* the exit code may be missing or garbled.
EndOfStream ==
  /\ at = "decode"
  /\ at' = "exit"
  /\ \E code \in {0, 1, 3} :
       /\ exitCode' \in {code, Nil}
       /\ \/ left = {} /\ broken' = FALSE /\ code # 1 /\ (code = 3 => findings # <<>>)
          \/ broken' = FALSE /\ code = 1
          \/ left # {} /\ broken' = TRUE /\ code = 1
  /\ UNCHANGED <<all, left, decoded, findings, merged>>

\* Mutant: an exit code that cannot be read counts as none recorded.
ReadExitCodeLeniently ==
  /\ at = "exit"
  /\ at' = "merge"
  /\ exitCode' = IF exitCode = Nil THEN 0 ELSE exitCode
  /\ UNCHANGED <<all, left, decoded, findings, broken, merged>>

\* run stops before it writes anything when the exit code cannot be read.
ReadExitCode ==
  /\ at = "exit"
  /\ at' = IF exitCode = Nil THEN "failed" ELSE "merge"
  /\ UNCHANGED <<all, left, decoded, findings, broken, exitCode, merged>>

\* fallbackModule of an entry, or of the zero entry when it was not read.
Fallback(osv) == IF osv \in decoded THEN FallbackOf[osv] ELSE "unknown"

\* The vulnerable frame of a finding names its module, and its trace if a symbol
\* is called.
Key(raw) ==
  LET vuln == Content[raw]
  IN  <<vuln.osv, IF vuln.module = Nil THEN Fallback(vuln.osv) ELSE vuln.module>>

Describe(raw) ==
  LET vuln == Content[raw]
  IN  [level |-> vuln.level,
       fixed |-> vuln.fixed,
       trace |-> IF vuln.level = Called THEN raw ELSE Nil]

\* Mutant: the level is raised without the trace.
AddWithoutTrace(old, new) ==
  [level |-> IF new.level > old.level THEN new.level ELSE old.level,
   fixed |-> IF old.fixed = Nil THEN new.fixed ELSE old.fixed,
   trace |-> old.trace]

\* A further finding of the same pair.
Add(old, new) ==
  [level |-> IF new.level > old.level THEN new.level ELSE old.level,
   fixed |-> IF old.fixed = Nil THEN new.fixed ELSE old.fixed,
   trace |-> IF new.level > old.level THEN new.trace ELSE old.trace]

Merge ==
  /\ at = "merge"
  /\ findings # <<>>
  /\ LET raw == Head(findings)
         key == Key(raw)
     IN  merged' = [k \in DOMAIN merged \cup {key} |->
                      IF k # key THEN merged[k]
                      ELSE IF key \in DOMAIN merged THEN Add(merged[key], Describe(raw))
                      ELSE Describe(raw)]
  /\ findings' = Tail(findings)
  /\ UNCHANGED <<all, left, at, decoded, broken, exitCode>>

Summarise ==
  /\ at = "merge"
  /\ findings = <<>>
  /\ at' = "done"
  /\ UNCHANGED <<all, left, decoded, findings, broken, exitCode, merged>>

ScannerError ==
  \/ broken
  \/ Config \notin decoded
  \/ exitCode \notin {0, 3}
  \/ exitCode = 3 /\ DOMAIN merged = {}

-----------------------------------------------------------------------------
(***************************************************************************)
(* The report and the comment.                                             *)
(***************************************************************************)

\* By identifier and module.
BeforeByName(k, l) ==
  \/ Rank[k[1]] < Rank[l[1]]
  \/ k[1] = l[1] /\ Rank[k[2]] < Rank[l[2]]

\* Most actionable first, then by name.
Before(k, l) ==
  \/ merged[k].level > merged[l].level
  \/ merged[k].level = merged[l].level /\ BeforeByName(k, l)

Fixable(k) == merged[k].fixed # Nil

Shown(mode) == IF mode = "fixable" THEN {k \in DOMAIN merged : Fixable(k)} ELSE DOMAIN merged

\* The first rows of the sorted list.
Rows(mode) ==
  {k \in Shown(mode) :
     MaxRows <= 0 \/ Cardinality({l \in Shown(mode) : Before(l, k)}) < MaxRows}

\* Mutant: an empty list is reported before a failure of the scanner.
HeadlineEmptyFirst(mode) ==
  CASE Shown(mode) = {} /\ DOMAIN merged # {} -> "nothing fixable"
    [] Shown(mode) = {} /\ DOMAIN merged = {} -> "nothing"
    [] Shown(mode) # {} /\ ScannerError -> "unusable"
    [] OTHER -> "list"

Headline(mode) ==
  CASE ScannerError -> "unusable"
    [] ~ScannerError /\ Shown(mode) = {} /\ mode = "fixable" /\ DOMAIN merged # {} -> "nothing fixable"
    [] ~ScannerError /\ Shown(mode) = {} /\ DOMAIN merged = {} -> "nothing"
    [] OTHER -> "list"

-----------------------------------------------------------------------------
Next == EndOfStream \/ ReadExitCode \/ Merge \/ Summarise \/ \E m \in Messages : Decode(m)

Spec == Init /\ [][Next]_vars

-----------------------------------------------------------------------------
\* The findings that were read, and those of one vulnerability in one module.
Read == RawFindings \cap (all \ left)

ModuleOf(raw) ==
  CASE Content[raw].module # Nil -> Content[raw].module
    [] Content[raw].module = Nil /\ Content[raw].osv \notin left -> FallbackOf[Content[raw].osv]
    [] OTHER -> "unknown"

Pairs == {<<Content[raw].osv, ModuleOf(raw)>> : raw \in Read}

Same(pair) == {raw \in Read : Content[raw].osv = pair[1] /\ ModuleOf(raw) = pair[2]}

\* report.go:12-14: for every pair that was reported the deepest level is kept,
\* with a trace exactly if that is a call, and a fix that any of its findings
\* names is not lost, in whatever order the findings came and although the entry
\* that names the module came last.
MergeIsOrderless ==
  at = "done" =>
    /\ DOMAIN merged = Pairs
    /\ \A k \in DOMAIN merged :
         /\ merged[k].level = Max({Content[raw].level : raw \in Same(k)})
         /\ merged[k].trace \in IF merged[k].level = Called THEN Same(k) ELSE {Nil}
         /\ merged[k].fixed = Nil <=> \A raw \in Same(k) : Content[raw].fixed = Nil

\* A report without a scanner error has everything the scanner has to say: no
\* output that ends early, even between two messages, passes for a result, and
\* no exit code that was lost passes for success (main.go:102).
UsableIsComplete == at = "done" /\ ~ScannerError => left = {}

\* What a reader is told is no better than what the scanner has to say: a report
\* that says there is nothing, or nothing to fix, says so of all of it, and what a
\* full table has no row for is never easier to reach than what it shows.
CommentHidesNothingWorse ==
  at = "done" => \A mode \in {"full", "fixable"} :
    /\ Headline(mode) = "nothing" => RawFindings \cap all = {}
    /\ Headline(mode) = "nothing fixable" =>
         \A raw \in RawFindings \cap all : Content[raw].fixed = Nil
    /\ \A shown \in Rows(mode), cut \in Shown(mode) \ Rows(mode) :
         merged[shown].level >= merged[cut].level
=============================================================================
