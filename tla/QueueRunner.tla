----------------------------- MODULE QueueRunner -----------------------------
(***************************************************************************)
(* The batch runner (scripts/queue-runner.sh).  Cron starts it, also while *)
(* an earlier run goes on.  A run takes the items that are ideated, one by *)
(* one, makes a branch for each, plans, builds and ships it with Claude    *)
(* Code, and writes what becomes of it to tracking.json: read, changed,    *)
(* and written under a lock that is a directory.  process_item is called   *)
(* in a condition, where bash ignores set -e: a command that fails does    *)
(* not end it.                                                             *)
(***************************************************************************)
EXTENDS Naturals, FiniteSets, FiniteSetsExt

CONSTANTS
  Runner,     \* runs of the script
  LastItem,   \* items, numbered in the order of their creation
  MaxRetries, \* attempts of retry_build (2)
  MaxShared   \* bound on the items of runs that overlap

Item == 1..LastItem
Torn == <<"torn">>    \* the file while it is truncated

VARIABLES
  tracking,  \* tracking.json: the status of each item
  temp,      \* tracking.json.tmp, {} when there is none
  lock,      \* the lock directory: who made it, and whether its time is in it; {} without
  branches,  \* items with a branch
  run,       \* each run: the step, its items, the copy it read, the write under way
  workers,   \* history: for each item, the runs that worked on it
  built,     \* history: items whose build was reported to succeed
  overlap,   \* history: a run started while another one went on
  stolen,    \* history: a run removed the lock of one that went on
  givenUp    \* history: a write was given up because of a lock

files == <<tracking, temp, lock>>
history == <<workers, built, overlap, stolen, givenUp>>
vars == <<files, branches, run, history>>

Unborn == [step |-> "off", left |-> {}, copy |-> Torn, to |-> "none", then |-> "none", tries |-> 0]

Init ==
  /\ tracking \in [Item -> {"queued", "ideated"}] /\ temp = {} /\ lock = {}
  /\ branches = {}
  /\ run = [r \in Runner |-> Unborn]
  /\ workers = [i \in Item |-> {}] /\ built = {}
  /\ overlap = FALSE /\ stolen = FALSE /\ givenUp = FALSE

Live(r) == run[r].step \notin {"off", "ended", "dead"}
At(r, step) == run[r].step = step
Current(r) == Min(run[r].left)

Goto(r, step) == run' = [run EXCEPT ![r].step = step]

-----------------------------------------------------------------------------
(* The lock and the file.                                                  *)

\* A change of the current item begins: to its status, or to a field that nothing
\* here depends on; the run goes on with `then`, whether it could be written or not.
Update(r, to, then) == run' = [run EXCEPT ![r].step = "read", ![r].to = to, ![r].then = then]

\* read_tracking, and jq: a torn file makes an empty text.
Read(r) ==
  /\ At(r, "read")
  /\ run' = [run EXCEPT ![r].step = "lock", ![r].copy =
               IF tracking = Torn \/ run[r].to = "same" THEN tracking
               ELSE [tracking EXCEPT ![Current(r)] = run[r].to]]
  /\ UNCHANGED <<files, branches, history>>

Made(r) == lock' = {[by |-> r, timed |-> FALSE]}

\* Where the time cannot be read, because it is not there yet or the lock is gone, it
\* counts as the year 1970; that of a run that goes on is taken to be 10 seconds old at most.
LooksStale == lock = {} \/ \E l \in lock : ~l.timed \/ ~Live(l.by)

\* acquire_lock: mkdir succeeds or not;
MakeLock(r) ==
  /\ At(r, "lock")
  /\ IF lock = {} THEN Made(r) /\ Goto(r, "time") ELSE UNCHANGED lock /\ Goto(r, "held")
  /\ UNCHANGED <<tracking, temp, branches, history>>

\* a stale lock is removed, whoever has made one since, and made again;
RemoveStale(r) ==
  /\ At(r, "held") /\ LooksStale /\ Goto(r, "remove")
  /\ UNCHANGED <<files, branches, history>>

RemoveLock(r) ==
  /\ At(r, "remove")
  /\ lock' = {} /\ Goto(r, "again")
  /\ stolen' = (stolen \/ \E l \in lock : Live(l.by))
  /\ UNCHANGED <<tracking, temp, branches, workers, built, overlap, givenUp>>

MakeAgain(r) ==
  /\ At(r, "again") /\ lock = {} /\ Made(r) /\ Goto(r, "time")
  /\ UNCHANGED <<tracking, temp, branches, history>>

\* where the lock is another's, the write is given up.
GiveUp(r) ==
  /\ \/ At(r, "held") /\ \E l \in lock : l.timed
     \/ At(r, "again") /\ lock # {}
  /\ Goto(r, run[r].then) /\ givenUp' = TRUE
  /\ UNCHANGED <<files, branches, workers, built, overlap, stolen>>

\* The time goes into whatever lock is there; without one this fails, and acquire_lock with it.
WriteTime(r) ==
  /\ At(r, "time") /\ UNCHANGED <<tracking, temp, branches, workers, built, overlap, stolen>>
  /\ lock' = {[l EXCEPT !.timed = TRUE] : l \in lock}
  /\ IF lock = {} THEN Goto(r, run[r].then) /\ givenUp' = TRUE ELSE Goto(r, "truncate") /\ UNCHANGED givenUp

\* Mutant: there is no temporary file.
TruncateInPlace(r) ==
  /\ At(r, "truncate") /\ temp' = {Torn} /\ tracking' = Torn /\ Goto(r, "write")
  /\ UNCHANGED <<lock, branches, history>>

\* write_tracking: the temporary file is truncated,
Truncate(r) ==
  /\ At(r, "truncate") /\ temp' = {Torn} /\ Goto(r, "write")
  /\ UNCHANGED <<tracking, lock, branches, history>>

\* written,
Write(r) ==
  /\ At(r, "write") /\ temp' = {run[r].copy} /\ Goto(r, "move")
  /\ UNCHANGED <<tracking, lock, branches, history>>

\* moved over tracking.json, where it still is there,
Move(r) ==
  /\ At(r, "move")
  /\ tracking' = IF temp = {} THEN tracking ELSE CHOOSE t \in temp : TRUE
  /\ temp' = {} /\ Goto(r, "release")
  /\ UNCHANGED <<lock, branches, history>>

\* and release_lock removes whatever lock there is.
Release(r) ==
  /\ At(r, "release") /\ lock' = {} /\ Goto(r, run[r].then)
  /\ stolen' = (stolen \/ \E l \in lock : l.by # r /\ Live(l.by))
  /\ UNCHANGED <<tracking, temp, branches, workers, built, overlap, givenUp>>

WriteTracking(r) ==
  \/ Read(r) \/ MakeLock(r) \/ RemoveStale(r) \/ RemoveLock(r) \/ MakeAgain(r) \/ GiveUp(r) \/ WriteTime(r)
  \/ Truncate(r) \/ Write(r) \/ Move(r) \/ Release(r)

-----------------------------------------------------------------------------
(* The items.                                                              *)

\* get_ideated_items; in a torn file there are none.
Ideated == IF tracking = Torn THEN {} ELSE {i \in Item : tracking[i] = "ideated"}

\* The items that have been through ideation.
Ready == {i \in Item : tracking[i] # "queued"}

\* main and drain_loop; runs overlap on MaxShared items at most.
Start(r) ==
  /\ At(r, "off")
  /\ (\E q \in Runner : Live(q)) => tracking = Torn \/ Cardinality(Ready) <= MaxShared
  /\ run' = [run EXCEPT ![r].left = Ideated, ![r].step = IF Ideated = {} THEN "ended" ELSE "branch"]
  /\ overlap' = (overlap \/ \E q \in Runner : Live(q))
  /\ UNCHANGED <<files, branches, workers, built, stolen, givenUp>>

\* Mutant: a branch that is there is taken over.
BranchAnyway(r) ==
  /\ At(r, "branch")
  /\ branches' = branches \cup {Current(r)}
  /\ workers' = [workers EXCEPT ![Current(r)] = @ \cup {r}]
  /\ Update(r, "planning", "plan")
  /\ UNCHANGED <<files, built, overlap, stolen, givenUp>>

\* process_item makes a branch, which fails where there is one, and may fail anyway.
Branch(r) ==
  /\ At(r, "branch")
  /\ \/ /\ Current(r) \notin branches /\ branches' = branches \cup {Current(r)}
        /\ workers' = [workers EXCEPT ![Current(r)] = @ \cup {r}]
        /\ Update(r, "planning", "plan")
     \/ Update(r, "failed", "next") /\ UNCHANGED <<branches, workers>>
  /\ UNCHANGED <<files, built, overlap, stolen, givenUp>>

\* run_phase for plan and ship: however it exits, the session and the duration are
\* written; one write stands for both.
Phase(r, phase, then) ==
  /\ At(r, phase) /\ Update(r, "same", then)
  /\ UNCHANGED <<files, branches, history>>

SetStatus(r, step, status, then) ==
  /\ At(r, step) /\ Update(r, status, then)
  /\ UNCHANGED <<files, branches, history>>

\* retry_build counts an attempt, and gives up after the last.
RetryBuild(r) ==
  /\ At(r, "build")
  /\ IF run[r].tries < MaxRetries
     THEN run' = [run EXCEPT ![r].tries = @ + 1, ![r].step = "attempt"]
     ELSE Update(r, "failed", "note")
  /\ UNCHANGED <<files, branches, history>>

\* Mutant: the result of the build is not looked at.
BuildIgnored(r) ==
  /\ At(r, "attempt") /\ Update(r, "same", "built")
  /\ UNCHANGED <<files, branches, history>>

\* run_phase of one attempt: it exits with the failure of a session that could not be
\* resumed, also where the fresh one after it succeeds; a session that failed is written
\* too, where it told its id.
Build(r) ==
  /\ At(r, "attempt")
  /\ \/ Update(r, "same", "built") /\ built' = built \cup {Current(r)}
     \/ (Update(r, "same", "build") \/ Goto(r, "build")) /\ built' = built
  /\ UNCHANGED <<files, branches, workers, overlap, stolen, givenUp>>

\* resolve_conflicts: a failure is final, with the mark for human review or without.
ResolveConflicts(r) ==
  /\ At(r, "built")
  /\ Update(r, "shipping", "ship") \/ Update(r, "failed", "note") \/ Update(r, "failed", "next")
  /\ UNCHANGED <<files, branches, history>>

\* Mutant: the loop ends with the first item.
NextItemNone(r) ==
  /\ At(r, "next") /\ run' = [run EXCEPT ![r] = [Unborn EXCEPT !.step = "ended"]]
  /\ UNCHANGED <<files, branches, history>>

\* drain_loop goes on with the next item, whatever became of this one.
NextItem(r) ==
  /\ At(r, "next")
  /\ LET left == run[r].left \ {Current(r)}
     IN run' = [run EXCEPT ![r] = [Unborn EXCEPT !.left = left, !.step = IF left = {} THEN "ended" ELSE "branch"]]
  /\ UNCHANGED <<files, branches, history>>

ProcessItem(r) ==
  \/ Branch(r)
  \/ Phase(r, "plan", "planned") \/ SetStatus(r, "planned", "building", "build")
  \/ RetryBuild(r) \/ Build(r) \/ ResolveConflicts(r)
  \/ Phase(r, "ship", "shipped") \/ SetStatus(r, "shipped", "completed", "note")
  \/ SetStatus(r, "note", "same", "next")   \* update_retries, the review, update_history_averages
  \/ NextItem(r)

Kill(r) ==
  /\ Live(r) /\ run' = [run EXCEPT ![r] = [Unborn EXCEPT !.step = "dead"]]
  /\ UNCHANGED <<files, branches, history>>

Next == \E r \in Runner : Start(r) \/ ProcessItem(r) \/ WriteTracking(r) \/ Kill(r)

Spec == Init /\ [][Next]_vars

-----------------------------------------------------------------------------
(* Properties.                                                             *)

\* Runs that overlap share the items, and their writes undo one another; yet no two
\* of them ever work on the same item.
OneRunPerItem == \A i \in Item : Cardinality(workers[i]) <= 1

\* The file is whole whoever is killed at whichever step, unless a run takes the lock
\* of another one, which it does where that one has not written the time yet.
FileWhole == ~stolen => tracking # Torn

\* Where runs do not overlap and no write is given up: an item is completed only if it
\* was built; once a run has ended no item is left ideated, and none that it worked on
\* is left between two states; what was not ideated is left alone.
OutcomeTold ==
  ~overlap /\ ~givenUp =>
    \A i \in Item :
      /\ tracking[i] = "completed" => i \in built
      /\ \A r \in workers[i] : At(r, "ended") => tracking[i] \in {"completed", "failed"}
      /\ (\E r \in Runner : At(r, "ended")) => tracking[i] # "ideated"
      /\ tracking[i] = "queued" => workers[i] = {}
=============================================================================
