--------------------------- MODULE WorkflowStateFile ---------------------------
(***************************************************************************)
(* workflow-state.json and the processes that change it: every method of   *)
(* WorkflowStateService (watcher/src/services/workflow-state.ts) reads the *)
(* file, changes the copy and writes the whole copy back, with its version *)
(* incremented.  A hook is a script that runs the command line tool        *)
(* update-workflow-state.js several times, one method each; hooks of one   *)
(* prompt run in parallel, and oss-log.sh runs some in the background.     *)
(* The daemon's heartbeat does the same without touching the version.      *)
(*                                                                         *)
(* writeFileSync truncates the file before it writes the text.  A text is  *)
(* a record of the fields the properties tell apart: the version, whether  *)
(* the text has a chainState at all, and the fields.                       *)
(***************************************************************************)
EXTENDS Naturals, Sequences, FiniteSets

CONSTANTS
  Job,         \* scripts
  Script,      \* Script[j]: the commands of j, each [field, value]
  Heartbeats,  \* jobs that are ticks of the daemon
  Follows,     \* Follows[j]: jobs started before j starts
  Field,       \* fields of the state
  FieldValue,  \* their values
  Unset,       \* the value of a field that is not there
  MaxKills     \* bound on the hooks killed by their timeouts

ASSUME ConstantsAssumption ==
  /\ Heartbeats \subseteq Job
  /\ IsFiniteSet(Job)
  /\ Script \in [Job -> Seq([field : Field, value : FieldValue])]
  /\ \A j \in Job : Len(Script[j]) > 0 /\ Follows[j] \subseteq Job
  /\ Unset \in FieldValue
  /\ MaxKills \in Nat

VARIABLES
  kind,   \* "absent", "torn" (no JSON) or "json"
  text,   \* the JSON text
  pc,     \* what each job does next
  next,   \* the next command of the job's script
  copy,   \* the state the job has in memory
  threw,  \* history: commands that threw for want of a chainState
  kills,
  past,   \* history: the states written so far, and the one before any
  due,    \* history: the value that the last change of each field gave it
  missed, \* history: fields changed since the job read the file, or torn out of its sight
  undone, \* history: fields overwritten by a job that had missed their change
  apart   \* history: whether each job started after those before it ended

vars == <<kind, text, pc, next, copy, threw, kills, past, due, missed, undone, apart>>

NoFields == [f \in Field |-> Unset]

\* getDefaultState; the daemon starts from an empty object instead.
Default == [version |-> 0, chain |-> TRUE, fields |-> NoFields]
EmptyObject == [version |-> 0, chain |-> FALSE, fields |-> NoFields]

\* setActiveStep assigns into chainState; clearing the step does not.
NeedsChain(c) == c.field = "activeStep" /\ c.value # Unset

Assignment(j) == Script[j][next[j]]
Started(j) == pc[j] # "off"
Ended(j) == pc[j] = "ended"

\* What the versioned store knows of a text.
Stored(t) == [version |-> t.version, fields |-> t.fields]

Init ==
  /\ kind = "absent"
  /\ text = Default
  /\ pc = [j \in Job |-> "off"]
  /\ next = [j \in Job |-> 1]
  /\ copy = [j \in Job |-> Default]
  /\ threw = FALSE
  /\ kills = 0
  /\ past = {Stored(Default)}
  /\ due = NoFields
  /\ missed = [j \in Job |-> {}]
  /\ undone = {}
  /\ apart = TRUE

\* The job goes on with its next command.
Advances(j) ==
  IF next[j] < Len(Script[j])
  THEN pc' = [pc EXCEPT ![j] = "read"] /\ next' = [next EXCEPT ![j] = @ + 1]
  ELSE pc' = [pc EXCEPT ![j] = "ended"] /\ UNCHANGED next

\* A hook, or a command run in the background, starts whether or not others run.
Start(j) ==
  /\ pc[j] = "off" /\ \A i \in Follows[j] : Started(i)
  /\ pc' = [pc EXCEPT ![j] = "read"]
  /\ apart' = (apart /\ \A i \in Job : Started(i) => Ended(i))
  /\ UNCHANGED <<kind, text, next, copy, threw, kills, past, due, missed, undone>>

\* Mutant: what cannot be parsed is read as an empty object.
LoadEmpty(j) == IF kind = "json" THEN text ELSE EmptyObject

\* getState, or the read of updateHeartbeat: what is not JSON gives defaults.
Load(j) ==
  IF kind = "json" THEN text
  ELSE IF j \in Heartbeats THEN EmptyObject ELSE Default

\* Mutant: a script reads the state for its first command only.
ReadOnce(j) ==
  LET state == IF next[j] = 1 THEN Load(j) ELSE [copy[j] EXCEPT !.version = @ + 1]
  IN /\ pc[j] = "read"
     /\ copy' = [copy EXCEPT ![j] = state]
     /\ missed' = [missed EXCEPT ![j] = IF kind = "torn" THEN Field ELSE {}]
     /\ pc' = [pc EXCEPT ![j] = "truncate"]
     /\ UNCHANGED <<kind, text, next, threw, kills, past, due, undone, apart>>

\* The file is read; a command that changes chainState throws without one.
Read(j) ==
  LET state == Load(j)
  IN /\ pc[j] = "read"
     /\ IF NeedsChain(Assignment(j)) /\ ~state.chain
        THEN Advances(j) /\ threw' = TRUE /\ UNCHANGED <<copy, missed>>
        ELSE /\ copy' = [copy EXCEPT ![j] = state]
             /\ missed' = [missed EXCEPT ![j] = IF kind = "torn" THEN Field ELSE {}]
             /\ pc' = [pc EXCEPT ![j] = "truncate"]
             /\ UNCHANGED <<next, threw>>
     /\ UNCHANGED <<kind, text, kills, past, due, undone, apart>>

\* Mutant: a command that finds the file empty waits for the other writer.
TruncateRetries(j) ==
  /\ pc[j] = "truncate"
  /\ kind' = "torn"
  /\ pc' = [pc EXCEPT ![j] = IF kind = "torn" THEN "read" ELSE "write"]
  /\ UNCHANGED <<text, next, copy, threw, kills, past, due, missed, undone, apart>>

\* writeFileSync opens the file, which empties it.
Truncate(j) ==
  /\ pc[j] = "truncate"
  /\ kind' = "torn"
  /\ pc' = [pc EXCEPT ![j] = "write"]
  /\ UNCHANGED <<text, next, copy, threw, kills, past, due, missed, undone, apart>>

\* Mutant: only the field set is written, not the rest of the state.
ChangedAlone(j) ==
  LET c == Assignment(j)
  IN [copy[j] EXCEPT !.version = @ + 1,
                     !.fields = [f \in Field |-> IF f = c.field THEN c.value ELSE Unset]]

\* The copy with the command applied to it, as writeState stores it.
Changed(j) ==
  LET c == Assignment(j)
  IN [copy[j] EXCEPT !.version = IF j \in Heartbeats THEN @ ELSE @ + 1,
                     !.fields[c.field] = c.value]

\* History: the write of j changes one field for whoever read before it, and takes
\* back what j has missed.
Noted(j) ==
  LET c == Assignment(j)
  IN /\ past' = past \cup {Stored(Changed(j))}
     /\ due' = [due EXCEPT ![c.field] = c.value]
     /\ missed' = [i \in Job |-> missed[i] \cup IF i = j THEN {} ELSE {c.field}]
     /\ undone' = (undone \cup missed[j]) \ {c.field}

\* The text is written; where another command wrote since the truncation, the
\* longer of the two may show through.
Write(j) ==
  /\ pc[j] = "write"
  /\ kind' \in IF kind = "torn" THEN {"json"} ELSE {"json", "torn"}
  /\ text' = Changed(j)
  /\ Advances(j)
  /\ Noted(j)
  /\ UNCHANGED <<copy, threw, kills, apart>>

\* A hook runs into its timeout and is killed with the command it is running.
Kill(j) ==
  /\ pc[j] \in {"truncate", "write"} /\ kills < MaxKills
  /\ kills' = kills + 1
  /\ pc' = [pc EXCEPT ![j] = "ended"]
  /\ UNCHANGED <<kind, text, next, copy, threw, past, due, missed, undone, apart>>

Step(j) == Start(j) \/ Read(j) \/ Truncate(j) \/ Write(j)

\* The jobs are over; a job that never starts would be a deadlock.
Done == (\A j \in Job : Ended(j)) /\ UNCHANGED vars

Next ==
  \/ \E j \in Job : Step(j) \/ Kill(j)
  \/ Done

Spec == Init /\ [][Next]_vars
FairSpec == Spec /\ \A j \in Job : WF_vars(Step(j))

-----------------------------------------------------------------------------
(* Properties.                                                             *)

\* A change of the state is undone only by a command that read the file before the
\* change was written, or that found it half written: every other field of the text
\* has the value it was given last, whatever overlaps and whoever is killed.  Hooks
\* that start one after the other and are not killed undo nothing.
NoChangeUndone ==
  /\ kind = "json" => \A f \in Field \ undone : text.fields[f] = due[f]
  /\ apart /\ kills = 0 => undone = {}

\* "Returns current state (or defaults if file corrupted)": whatever was read or
\* killed, no command ever finds a state without a chainState, so the hooks of
\* the next workflow command can still set its step.
ChainSurvives == ~threw /\ (kind = "json" => text.chain)

\* The file implements a store in which every change applies to one whole state, the
\* last one or an earlier one: no text mixes two states.
Store == INSTANCE VersionedStore WITH version <- text.version, fields <- text.fields
ImplementsStore == Store!Spec

\* Every hook ends.
HooksEnd == \A j \in Job : <>Ended(j)
=============================================================================
