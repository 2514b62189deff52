---------------------------- MODULE PRTaskExecutor ----------------------------
(***************************************************************************)
(* A task of the pull request monitor is carried out on a branch of its own*)
(* in the user's repository (watcher/src/agents/pr-task-executor.ts):      *)
(* branch and changes are saved, the comment is answered by a commit, and  *)
(* branch and changes are restored.  Every step is a git or npm command    *)
(* that may fail.  The order of the steps is that of the class and of its  *)
(* tests: nothing in the repository drives it yet.                         *)
(***************************************************************************)
EXTENDS Naturals, Sequences, SequencesExt

CONSTANTS
  MaxRetries,  \* attempts of executeWithRetry (2)
  MaxFailures, \* bound on commands that fail
  MaxTask      \* bound on tasks

Detached == ""                            \* what branch --show-current says then
Home == {"main", "feature", Detached}     \* where the user may be
PRBranch == {"pr", "main"}
UserChange == {"edit", "new"}             \* of a tracked file, and a file git does not know
FileChange == UserChange \cup {"fix"}

VARIABLES
  at, tree, staged,    \* the branch checked out, uncommitted changes, those in the index
  stash,               \* git's stack
  committed, pushed,   \* the changes in the commits of each branch, here and on GitHub
  branch, stashed,     \* context: originalBranch, stashCreated
  step, target,        \* the command that is next, and the branch of the pull request
  attempt, escalated,
  found,               \* history: branch, tree and stack as the task found them
  failures, failed,    \* history: a command failed since then
  tasks

git == <<at, tree, staged, stash, committed, pushed>>
context == <<branch, stashed>>
retry == <<attempt, escalated>>
bounds == <<failures, failed>>
vars == <<git, context, step, target, retry, found, bounds, tasks>>

Init ==
  /\ at \in Home /\ tree = {} /\ staged = {} /\ stash = <<>>
  /\ committed = [b \in Home \cup PRBranch |-> {}] /\ pushed = committed
  /\ branch = Detached /\ stashed = FALSE
  /\ step = "idle" /\ target = "pr" /\ attempt = 1 /\ escalated = FALSE
  /\ found = [at |-> at, tree |-> tree, stash |-> stash]
  /\ failures = 0 /\ failed = FALSE /\ tasks = 0

-----------------------------------------------------------------------------
(* The user, between tasks.                                                *)

Edit(c) ==
  /\ step = "idle" /\ c \in UserChange \ tree /\ (\A i \in DOMAIN stash : c \notin stash[i])
  /\ ~\E b \in DOMAIN committed : c \in committed[b]
  /\ tree' = tree \cup {c}
  /\ found' = [at |-> at, tree |-> tree', stash |-> stash]
  /\ UNCHANGED <<at, staged, stash, committed, pushed, context, step, target, retry, bounds, tasks>>

-----------------------------------------------------------------------------
(* A task.                                                                 *)

Goto(s) == step' = s /\ UNCHANGED <<target, retry, bounds, found, tasks>>

Fail(s) ==
  /\ failures < MaxFailures /\ failures' = failures + 1 /\ failed' = TRUE
  /\ step' = s /\ UNCHANGED <<target, found, tasks>>

Take(b) ==
  /\ step = "idle" /\ tasks < MaxTask /\ tasks' = tasks + 1
  /\ target' = b /\ step' = "save" /\ attempt' = 1
  /\ found' = [at |-> at, tree |-> tree, stash |-> stash] /\ failed' = FALSE
  /\ UNCHANGED <<git, context, escalated, failures>>

\* What git stash push takes: not the files git does not know; where there is
\* nothing to take it succeeds all the same.
Stashable == tree \ {"new"}

\* Mutant: the changes stay in the tree.
SaveContextDirty ==
  /\ step = "save"
  /\ branch' = at /\ stashed' = FALSE
  /\ Goto("checkout") /\ UNCHANGED git

\* saveContext: the branch, then the stash where there is any change.
SaveContext ==
  /\ step = "save" /\ branch' = at /\ stashed' = (tree # {})
  /\ stash' = IF Stashable = {} THEN stash ELSE Append(stash, Stashable)
  /\ tree' = tree \ Stashable /\ staged' = {}
  /\ Goto("checkout") /\ UNCHANGED <<at, committed, pushed>>

\* A command of saveContext fails, with the branch already overwritten or not.
SaveFails ==
  /\ step = "save" /\ branch' \in {branch, at} /\ UNCHANGED stashed
  /\ Fail("restore") /\ UNCHANGED <<git, retry>>

\* checkoutBranch fetches a branch that is unknown here.
Checkout ==
  /\ step = "checkout" /\ at' = target
  /\ Goto("pull") /\ UNCHANGED <<tree, staged, stash, committed, pushed, context>>

PullLatest ==
  /\ step = "pull" /\ committed' = [committed EXCEPT ![target] = @ \cup pushed[target]]
  /\ Goto("work") /\ UNCHANGED <<at, tree, staged, stash, pushed, context>>

\* An agent edits the files.
Work ==
  /\ step = "work" /\ tree' = tree \cup {"fix"}
  /\ Goto("gates") /\ UNCHANGED <<at, staged, stash, committed, pushed, context>>

\* validateQualityGates, within executeWithRetry.
GatesPass == step = "gates" /\ Goto("stage") /\ UNCHANGED <<git, context>>

ExecuteWithRetry(permanent) ==
  /\ step \in {"work", "gates"}
  /\ IF permanent \/ attempt = MaxRetries
     THEN Fail("restore") /\ escalated' = (escalated \/ ~permanent) /\ UNCHANGED attempt
     ELSE Fail("work") /\ attempt' = attempt + 1 /\ UNCHANGED escalated
  /\ UNCHANGED <<git, context>>

StageChanges ==
  /\ step = "stage" /\ staged' = tree
  /\ Goto("commit") /\ UNCHANGED <<at, tree, stash, committed, pushed, context>>

CreateCommit ==
  /\ step = "commit" /\ staged # {}
  /\ committed' = [committed EXCEPT ![at] = @ \cup staged]
  /\ tree' = tree \ staged /\ staged' = {}
  /\ Goto("push") /\ UNCHANGED <<at, stash, pushed, context>>

\* pushToBranch throws for main.
PushToBranch ==
  /\ step = "push"
  /\ IF target = "main" THEN pushed' = pushed ELSE pushed' = [pushed EXCEPT ![target] = committed[target]]
  /\ Goto("restore") /\ UNCHANGED <<at, tree, staged, stash, committed, context>>

StepFails ==
  /\ step \in {"checkout", "pull", "stage", "commit", "push"}
  /\ Fail("restore") /\ UNCHANGED <<git, context, retry>>

\* Mutant: a stash is never popped.
RestoreContextOnly ==
  /\ step = "restore"
  /\ at' = IF branch = Detached THEN at ELSE branch
  /\ branch' = Detached /\ stashed' = FALSE
  /\ Goto("idle") /\ UNCHANGED <<tree, staged, stash, committed, pushed>>

\* restoreContext; from a detached head nothing is restored.
RestoreContext ==
  /\ step = "restore"
  /\ IF branch = Detached THEN UNCHANGED <<git, context>>
     ELSE /\ stashed => stash # <<>>
          /\ at' = branch
          /\ IF stashed THEN tree' = tree \cup Last(stash) /\ stash' = Front(stash)
             ELSE UNCHANGED <<tree, stash>>
          /\ branch' = Detached /\ stashed' = FALSE
          /\ UNCHANGED <<staged, committed, pushed>>
  /\ Goto("idle")

\* The checkout or the pop fails: the context is kept.  There may be no stash to pop.
RestoreFails ==
  /\ step = "restore" /\ branch # Detached
  /\ at' \in IF stashed THEN {at, branch} ELSE {at}
  /\ IF stashed /\ stash = <<>>
     THEN step' = "idle" /\ failed' = TRUE /\ UNCHANGED <<failures, target, found, tasks>>
     ELSE Fail("idle")
  /\ UNCHANGED <<tree, staged, stash, committed, pushed, context, retry>>

Next ==
  \/ \E c \in UserChange : Edit(c)
  \/ \E b \in PRBranch : Take(b)
  \/ SaveContext \/ SaveFails \/ Checkout \/ PullLatest \/ Work \/ GatesPass
  \/ \E permanent \in BOOLEAN : ExecuteWithRetry(permanent)
  \/ StageChanges \/ CreateCommit \/ PushToBranch \/ StepFails \/ RestoreContext \/ RestoreFails

Spec == Init /\ [][Next]_vars

-----------------------------------------------------------------------------
(* Properties.                                                             *)

Somewhere(c) == c \in tree \/ \E i \in DOMAIN stash : c \in stash[i]

\* What the user has changed in tracked files is never committed with a fix and
\* never lost, whichever command fails; a task of which no command failed leaves
\* branch, changes and stack as it found them, where there is a branch, and no
\* file that git does not know.
WorkPreserved ==
  /\ \A b \in DOMAIN committed : "edit" \notin committed[b]
  /\ "edit" \in found.tree => Somewhere("edit")
  /\ step = "idle" /\ ~failed /\ found.at # Detached /\ "new" \notin found.tree /\ branch = Detached =>
       at = found.at /\ tree = found.tree /\ stash = found.stash

\* "context preservation": a task of which no command failed, on a branch, leaves the user's
\* changes as it found them.
ContextPreserved == step = "idle" /\ ~failed /\ found.at # Detached => tree = found.tree
=============================================================================
