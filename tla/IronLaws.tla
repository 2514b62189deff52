------------------------------- MODULE IronLaws -------------------------------
(***************************************************************************)
(* How violations of the iron laws are kept: the monitor the supervisor    *)
(* calls (watcher/src/services/iron-law-monitor.ts), which follows files   *)
(* and tool calls and saves what it finds, and the parser of log lines     *)
(* (watcher/src/monitors/iron-law-log-parser.ts), which counts violations  *)
(* by law.  A path is a source file and which of its three it is.          *)
(***************************************************************************)
EXTENDS Naturals, Sequences, SequencesExt, FiniteSets

CONSTANTS
  File, Law,
  MaxRecent,  \* tool calls that are kept (100)
  MaxRecords, \* violations that are kept (100)
  MaxSteps    \* bound on what happens

VARIABLES
  subject,                     \* "monitor" or "parser"
  branch, feature, progress,   \* the project: its branch, an active feature, its PROGRESS.md
  pending, recent, violations, \* the monitor
  disk,                        \* the state file, {} where there is none
  found,                       \* history: what the last check found, {} before it
  order,                       \* history: what of each file was written last, and if a test was
  forgotten,                   \* history: sources that waited when the process ended, and would yet
  counts, task,                \* the parser: violations by law, and the task of the last line
  lines,                       \* history: its lines
  steps

project == <<branch, feature, progress>>
monitor == <<pending, recent, violations, disk, found>>
parser == <<counts, task, lines>>
written == <<order, forgotten>>
vars == <<subject, project, monitor, written, parser, steps>>

Kind == {"source", "test", "spec"}
NoTask == "none"

Init ==
  /\ subject \in {"monitor", "parser"}
  /\ branch = "main" /\ feature = FALSE /\ progress = FALSE
  /\ pending = {} /\ recent = <<>> /\ violations = <<>> /\ disk = {} /\ found = {}
  /\ order = [f \in File |-> "none"] /\ forgotten = {}
  /\ counts = [l \in Law |-> 0] /\ task = NoTask /\ lines = <<>>
  /\ steps = 0

Newest(s, n) == SubSeq(s, IF Len(s) > n THEN Len(s) - n + 1 ELSE 1, Len(s))

-----------------------------------------------------------------------------
(* What the monitor follows.                                               *)

\* trackFileChange: a source that is created waits for a test, whatever came first.
TrackFileChange(f, kind, action) ==
  /\ pending' = IF action # "created" THEN pending
                ELSE IF kind = "source" THEN pending \cup {f} ELSE pending \ {f}
  /\ order' = IF action # "created" THEN order
              ELSE [order EXCEPT ![f] = IF kind = "source" THEN "untested" ELSE "tested"]
  /\ forgotten' = IF action # "created" THEN forgotten ELSE forgotten \ {f}
  /\ UNCHANGED <<project, recent, violations, disk, found>>

\* Mutant: the test is looked for by the source's own path.
TrackToolCallAny(tool, f, kind) ==
  LET calls == Append(recent, [tool |-> tool, file |-> f, kind |-> kind])
      tested == \E i \in DOMAIN calls : calls[i].tool = "Write" /\ calls[i].file = f
  IN /\ recent' = Newest(calls, MaxRecent)
     /\ pending' = IF tool # "Write" THEN pending
                   ELSE IF kind # "source" THEN pending \ {f}
                   ELSE IF tested THEN pending ELSE pending \cup {f}
     /\ order' = IF tool # "Write" THEN order
                 ELSE [order EXCEPT ![f] = IF kind # "source" THEN "tested"
                                           ELSE IF @ \in {"tested", "both"} THEN "both" ELSE "untested"]
     /\ forgotten'
          = IF tool # "Write" \/ (kind = "source" /\ tested) THEN forgotten ELSE forgotten \ {f}
     /\ UNCHANGED <<project, violations, disk, found>>

\* trackToolCall: a source that is written waits, unless its .test. file, not its
\* .spec. file, is one of the last that were written.
TrackToolCall(tool, f, kind) ==
  LET calls == Append(recent, [tool |-> tool, file |-> f, kind |-> kind])
      tested == \E i \in DOMAIN calls :
                  calls[i].tool = "Write" /\ calls[i].file = f /\ calls[i].kind = "test"
  IN /\ recent' = Newest(calls, MaxRecent)
     /\ pending' = IF tool # "Write" THEN pending
                   ELSE IF kind # "source" THEN pending \ {f}
                   ELSE IF tested THEN pending ELSE pending \cup {f}
     /\ order' = IF tool # "Write" THEN order
                 ELSE [order EXCEPT ![f] = IF kind # "source" THEN "tested"
                                           ELSE IF @ \in {"tested", "both"} THEN "both" ELSE "untested"]
     /\ forgotten'
          = IF tool # "Write" \/ (kind = "source" /\ tested) THEN forgotten ELSE forgotten \ {f}
     /\ UNCHANGED <<project, violations, disk, found>>

\* The branch is switched, git cannot be asked, a feature is set, its file written.
Project ==
  /\ \/ branch' \in {"main", "feature", "unknown"} \ {branch} /\ UNCHANGED <<feature, progress>>
     \/ feature' = TRUE /\ UNCHANGED <<branch, progress>>
     \/ progress' = TRUE /\ UNCHANGED <<branch, feature>>
  /\ UNCHANGED <<monitor, written>>

-----------------------------------------------------------------------------
(* A check.                                                                *)

\* What is found, by type: a violation of the tests for each source that waits is one
\* of the type.
CheckTdd == pending # {}
Found ==
  {type \in {"branch", "tdd", "docs"} :
     /\ type = "branch" => branch = "main"
     /\ type = "tdd" => CheckTdd
     /\ type = "docs" => feature /\ ~progress}

NewViolation(type) == [type |-> type, open |-> TRUE]
OpenTypes(s) == {s[i].type : i \in {k \in DOMAIN s : s[k].open}}
Resolved(records, now) ==
  [i \in DOMAIN records |-> [records[i] EXCEPT !.open = @ /\ records[i].type \in now]]
New(type, types) == IF type \in types THEN <<NewViolation(type)>> ELSE <<>>

\* Mutant: what is found is recorded at every check.
UpdateAgain(records, now) ==
  Newest(Resolved(records, now) \o New("branch", now) \o New("tdd", now) \o New("docs", now), MaxRecords)

\* updateViolationState, in the order of check: a violation is recorded where none of
\* its type is open, and the oldest records are dropped, whether open or not.
UpdateViolationState(records, now) ==
  LET kept == Resolved(records, now)
      new == now \ OpenTypes(kept)
  IN Newest(kept \o New("branch", new) \o New("tdd", new) \o New("docs", new), MaxRecords)

\* check, which saves; a write that fails is passed over.
RunCheck(saves) ==
  /\ violations' = UpdateViolationState(violations, Found)
  /\ found' = {Found}
  /\ disk' = IF saves THEN {[violations |-> violations', recent |-> recent]} ELSE disk
  /\ UNCHANGED <<project, pending, recent, written>>

\* The process ends and another loads the state; what was pending is not in it.
Restart ==
  /\ \E state \in IF disk = {} THEN {[violations |-> <<>>, recent |-> <<>>]} ELSE disk :
       violations' = state.violations /\ recent' = state.recent
  /\ pending' = {} /\ found' = {} /\ feature' = FALSE
  /\ forgotten' = forgotten \cup pending
  /\ UNCHANGED <<branch, progress, disk, order>>

-----------------------------------------------------------------------------
(* The parser.                                                             *)

\* createInterventionTask, after recordViolation.
InterventionTask(count) == IF count = 1 THEN NoTask ELSE IF count = 2 THEN "low" ELSE "high"

\* Mutant: a pass forgets no violation.
PassKeeps(l) == counts' = counts /\ task' = NoTask

RecordPass(l) == counts' = [counts EXCEPT ![l] = 0] /\ task' = NoTask

RecordViolation(l) ==
  /\ counts' = [counts EXCEPT ![l] = @ + 1]
  /\ task' = InterventionTask(counts[l] + 1)

LogLine(l, passed) ==
  /\ IF passed THEN RecordPass(l) ELSE RecordViolation(l)
  /\ lines' = Append(lines, [law |-> l, passed |-> passed])

Reset == counts' = [l \in Law |-> 0] /\ task' = NoTask /\ lines' = <<>>

Next ==
  /\ steps < MaxSteps /\ steps' = steps + 1 /\ UNCHANGED subject
  /\ \/ /\ subject = "monitor"
        /\ \/ \E f \in File, kind \in Kind :
                \/ \E action \in {"created", "modified"} : TrackFileChange(f, kind, action)
                \/ \E tool \in {"Write", "Edit"} : TrackToolCall(tool, f, kind)
           \/ Project \/ Restart \/ \E saves \in BOOLEAN : RunCheck(saves)
        /\ UNCHANGED parser
     \/ /\ subject = "parser"
        /\ Reset \/ \E l \in Law, passed \in BOOLEAN : LogLine(l, passed)
        /\ UNCHANGED <<project, monitor, written>>

Spec == Init /\ [][Next]_vars

-----------------------------------------------------------------------------
(* Properties.                                                             *)

\* The violations of a law since it last passed.
Since(l) ==
  {i \in DOMAIN lines :
     lines[i].law = l /\ \A j \in i..Len(lines) : lines[j].law = l => ~lines[j].passed}

\* Over restarts, a source written before any test is pending until a test is written,
\* but for those that waited when a process ended, which are forgotten until they are
\* written once more with no test remembered; one whose test was written after it is not
\* pending.  No two violations of a type are open; a check leaves open only types it has
\* found, and all of them unless records may have been dropped.  A law's task escalates
\* with its violations since it last passed.
LawsAreFollowed ==
  /\ \A f \in File :
       /\ order[f] = "untested" => f \in pending \cup forgotten
       /\ order[f] = "tested" => f \notin pending \cup forgotten
  /\ \A i, j \in DOMAIN violations :
       violations[i].open /\ violations[j].open /\ violations[i].type = violations[j].type => i = j
  /\ \A types \in found :
       /\ OpenTypes(violations) \subseteq types
       /\ Len(violations) < MaxRecords => types \subseteq OpenTypes(violations)
  /\ \A l \in Law :
       lines # <<>> /\ Last(lines).law = l =>
         (task = "high" <=> Cardinality(Since(l)) > 2) /\ (task = "low" <=> Cardinality(Since(l)) = 2)
=============================================================================
