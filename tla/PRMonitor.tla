------------------------------- MODULE PRMonitor -------------------------------
(***************************************************************************)
(* The pull request monitor of the watcher: the agent that polls GitHub    *)
(* for change requests (watcher/src/agents/pr-monitor.ts), the comments it *)
(* remembers (pr-monitor-state.ts), the registry that runs it on a timer   *)
(* (registry.ts) and the session hooks that start and stop it              *)
(* (integration/watcher-agents.ts), and the commands of the user (cli.ts).  *)
(*                                                                         *)
(* A poll is an async callback of a timer: it awaits the comments, then    *)
(* for every change request it does not know yet it awaits a reply on      *)
(* GitHub, queues a task and remembers the comment.  Between two awaits    *)
(* other polls, starts and stops may run.  What is remembered is saved     *)
(* when the agent is stopped, the queue never is.  A poll is taken to last *)
(* less than an interval, so a timer's poll ends before its next tick.     *)
(***************************************************************************)
EXTENDS Naturals, Sequences, FiniteSets

CONSTANTS
  Comment,      \* change requests, numbered as GitHub lists them
  MaxTimers,    \* bound on the intervals a process sets
  MaxQueue,     \* MAX_QUEUE_SIZE (100)
  MaxFailures,  \* bound on calls to GitHub that fail
  MaxExits      \* bound on the ends of the process

ASSUME ConstantsAssumption ==
  /\ IsFiniteSet(Comment) /\ Comment \subseteq Nat \ {0}
  /\ MaxTimers \in Nat
  /\ MaxQueue \in Nat \ {0}
  /\ MaxFailures \in Nat /\ MaxExits \in Nat

Timer == 1..MaxTimers

VARIABLES
  posted,     \* change requests on GitHub
  acks,       \* replies to each of them on GitHub
  timers,     \* intervals the process has set, numbered in that order
  live,       \* those that still tick
  ready,      \* the integration is initialized
  enabled,    \* the agent is enabled in the configuration
  session,    \* a session is open
  handle,     \* runtime.interval, 0 when null
  errors,     \* runtime.errorCount
  pc,         \* the poll of each timer: "idle", "fetch" or "reply"
  batch,      \* comments it has still to look at
  current,    \* the comment it is replying to
  known,      \* processedCommentIds
  queue,      \* queuedTasks
  saved,      \* comments in pr-monitor-state.json; NoFile before it is written
  queued,     \* history: tasks made for each comment
  failures, exits,
  losses,     \* history: process ends that lost something remembered, or a reply
  doubled     \* history: an interval was set while another ticked

poll == <<pc, batch, current>>
bounds == <<failures, exits, losses>>
config == <<ready, enabled, session>>
vars == <<posted, acks, timers, live, handle, config, doubled, errors, poll, known,
          queue, saved, queued, bounds>>

NoFile == {0}
Running == handle # 0
Least(S) == CHOOSE c \in S : \A d \in S : c <= d

Init ==
  /\ posted = {}
  /\ acks = [c \in Comment |-> 0] /\ queued = [c \in Comment |-> 0]
  /\ timers = 0 /\ live = {} /\ handle = 0
  /\ ready = FALSE /\ enabled = FALSE /\ session = FALSE /\ doubled = FALSE
  /\ errors = 0
  /\ pc = [t \in Timer |-> "idle"]
  /\ batch = [t \in Timer |-> {}]
  /\ current = [t \in Timer |-> 0]
  /\ known = {} /\ queue = <<>>
  /\ saved = NoFile
  /\ failures = 0 /\ exits = 0 /\ losses = 0

\* A reviewer asks for a change.
Post(c) ==
  /\ c \notin posted
  /\ posted' = posted \cup {c}
  /\ UNCHANGED <<acks, timers, live, handle, config, doubled, errors, poll, known,
                 queue, saved, queued, bounds>>

-----------------------------------------------------------------------------
(* Starting and stopping.                                                  *)

\* Mutant: what is saved is not read back.
LoadedNothing == known

\* load: the file is added to what is in memory; without a file all is forgotten.
Loaded == IF saved = NoFile THEN {} ELSE known \cup saved

\* startAgent, n times in a row: each loads the state and sets an interval, and
\* only the handle of the last one is kept.  A handler is awaited before the next
\* one; a poll that goes on during the load has nothing the load could undo.
Starts(n) ==
  /\ timers + n \in Timer
  /\ known' = Loaded
  /\ timers' = timers + n
  /\ live' = live \cup (timers + 1)..(timers + n)
  /\ handle' = timers + n
  /\ doubled' = (doubled \/ Cardinality(live') > 1)

\* onSessionStart: the first one of a process initializes the integration, which
\* loads the state and starts an enabled agent; then it starts the agent (again).
SessionStart ==
  /\ ~session
  /\ session' = TRUE /\ ready' = TRUE
  /\ IF enabled THEN Starts(IF ready THEN 1 ELSE 2)
     ELSE /\ known' = IF ready THEN known ELSE Loaded
          /\ UNCHANGED <<timers, live, handle, doubled>>
  /\ UNCHANGED <<posted, acks, enabled, errors, poll, queue, saved, queued, bounds>>

\* The user enables the agent in a session, running or not.
Enable ==
  /\ session
  /\ enabled' = TRUE
  /\ Starts(1)
  /\ UNCHANGED <<posted, acks, ready, session, errors, poll, queue, saved, queued, bounds>>

\* Mutant: the interval goes on.
StopsLazily ==
  /\ handle' = 0
  /\ saved' = known
  /\ UNCHANGED live

\* stopAgent: the interval whose handle was kept is cleared, the state saved.
Stops ==
  /\ live' = live \ {handle}
  /\ handle' = 0
  /\ saved' = known

\* onSessionEnd stops the agent if it runs.
SessionEnd ==
  /\ session
  /\ session' = FALSE
  /\ IF Running THEN Stops ELSE UNCHANGED <<live, handle, saved>>
  /\ UNCHANGED <<posted, acks, timers, ready, enabled, doubled, errors, poll, known,
                 queue, queued, bounds>>

\* The user disables the agent in a session, running or not.
Disable ==
  /\ session
  /\ enabled' = FALSE
  /\ Stops
  /\ UNCHANGED <<posted, acks, timers, ready, session, doubled, errors, poll, known,
                 queue, queued, bounds>>

\* The process ends.  A reply under way may have reached GitHub.
Exit ==
  \E A \in SUBSET {t \in Timer : pc[t] = "reply"} :
    /\ ready /\ exits < MaxExits
    /\ exits' = exits + 1
    /\ losses' = losses + (IF known \subseteq saved /\ A = {} THEN 0 ELSE 1)
    /\ acks' = [c \in Comment |-> acks[c] + Cardinality({t \in A : current[t] = c})]
    /\ timers' = 0 /\ live' = {} /\ handle' = 0 /\ errors' = 0
    /\ ready' = FALSE /\ session' = FALSE
    /\ pc' = [t \in Timer |-> "idle"]
    /\ batch' = [t \in Timer |-> {}]
    /\ current' = [t \in Timer |-> 0]
    /\ known' = {} /\ queue' = <<>>
    /\ UNCHANGED <<posted, enabled, doubled, saved, queued, failures>>

-----------------------------------------------------------------------------
(* A poll.                                                                 *)

Tick(t) ==
  /\ t \in live /\ pc[t] = "idle"
  /\ \A u \in Timer \ live : pc[u] = "idle"
  /\ pc' = [pc EXCEPT ![t] = "fetch"]
  /\ UNCHANGED <<posted, acks, timers, live, handle, config, doubled, errors, batch,
                 current, known, queue, saved, queued, bounds>>

\* Mutant: the first comment that is known ends the loop.
GoesOnUntilKnown(t, rest, remembered) ==
  LET next == Least(rest)
  IN IF rest = {} \/ next \in remembered
     THEN /\ pc' = [pc EXCEPT ![t] = "idle"]
          /\ batch' = [batch EXCEPT ![t] = {}]
          /\ current' = [current EXCEPT ![t] = 0]
          /\ errors' = 0
     ELSE /\ pc' = [pc EXCEPT ![t] = "reply"]
          /\ current' = [current EXCEPT ![t] = next]
          /\ batch' = [batch EXCEPT ![t] = rest \ {next}]
          /\ UNCHANGED errors

\* The loop goes on with the comments of rest: those remembered are skipped, the
\* next one is replied to, and after the last one the poll has succeeded.
GoesOn(t, rest, remembered) ==
  LET new == rest \ remembered
      next == Least(new)
  IN IF new = {}
     THEN /\ pc' = [pc EXCEPT ![t] = "idle"]
          /\ batch' = [batch EXCEPT ![t] = {}]
          /\ current' = [current EXCEPT ![t] = 0]
          /\ errors' = 0
     ELSE /\ pc' = [pc EXCEPT ![t] = "reply"]
          /\ current' = [current EXCEPT ![t] = next]
          /\ batch' = [batch EXCEPT ![t] = {c \in new : c > next}]
          /\ UNCHANGED errors

Fetched(t) ==
  /\ pc[t] = "fetch"
  /\ GoesOn(t, posted, known)
  /\ UNCHANGED <<posted, acks, timers, live, handle, config, doubled, known, queue,
                 saved, queued, bounds>>

\* The queue with a task for c, the oldest one evicted when it is full.
Added(c) == Append(IF Len(queue) >= MaxQueue THEN Tail(queue) ELSE queue, c)

\* Mutant: the comment is not remembered.
RepliedForgets(t) ==
  LET c == current[t]
  IN /\ pc[t] = "reply"
     /\ acks' = [acks EXCEPT ![c] = @ + 1]
     /\ queue' = Added(c)
     /\ queued' = [queued EXCEPT ![c] = @ + 1]
     /\ GoesOn(t, batch[t], known)
     /\ UNCHANGED <<posted, timers, live, handle, config, doubled, known, saved, bounds>>

\* processChangeRequest after the reply, and the loop that follows.
Replied(t) ==
  LET c == current[t]
  IN /\ pc[t] = "reply"
     /\ acks' = [acks EXCEPT ![c] = @ + 1]
     /\ queue' = Added(c)
     /\ queued' = [queued EXCEPT ![c] = @ + 1]
     /\ known' = known \cup {c}
     /\ GoesOn(t, batch[t], known')
     /\ UNCHANGED <<posted, timers, live, handle, config, doubled, saved, bounds>>

\* A call to GitHub throws and the poll rejects; a reply may be there all the same.
Fails(t) ==
  /\ pc[t] # "idle" /\ failures < MaxFailures
  /\ failures' = failures + 1
  /\ errors' = errors + 1
  /\ pc' = [pc EXCEPT ![t] = "idle"]
  /\ batch' = [batch EXCEPT ![t] = {}]
  /\ current' = [current EXCEPT ![t] = 0]
  /\ \/ UNCHANGED acks
     \/ pc[t] = "reply" /\ acks' = [acks EXCEPT ![current[t]] = @ + 1]
  /\ UNCHANGED <<posted, timers, live, handle, config, doubled, known, queue, saved,
                 queued, exits, losses>>

\* dequeueTask.
Dequeue ==
  /\ queue # <<>>
  /\ queue' = Tail(queue)
  /\ UNCHANGED <<posted, acks, timers, live, handle, config, doubled, errors, poll,
                 known, saved, queued, bounds>>

Next ==
  \/ \E c \in Comment : Post(c)
  \/ SessionStart \/ SessionEnd \/ Enable \/ Disable \/ Exit
  \/ \E t \in Timer : Tick(t) \/ Fetched(t) \/ Replied(t) \/ Fails(t)
  \/ Dequeue

Spec == Init /\ [][Next]_vars

\* Timers tick and GitHub answers.
FairSpec ==
  Spec /\ \A t \in Timer : WF_vars(Tick(t)) /\ WF_vars(Fetched(t) \/ Replied(t))

-----------------------------------------------------------------------------
(* Properties.                                                             *)

\* Every variable keeps its type.
TypeOK ==
  /\ posted \subseteq Comment /\ known \subseteq Comment
  /\ acks \in [Comment -> Nat] /\ queued \in [Comment -> Nat]
  /\ timers \in 0..MaxTimers /\ live \subseteq 1..timers
  /\ handle \in live \cup {0}
  /\ ready \in BOOLEAN /\ enabled \in BOOLEAN /\ session \in BOOLEAN
  /\ doubled \in BOOLEAN
  /\ errors \in Nat
  /\ pc \in [Timer -> {"idle", "fetch", "reply"}]
  /\ batch \in [Timer -> SUBSET posted]
  /\ current \in [Timer -> posted \cup {0}]
  /\ \A t \in Timer : pc[t] = "reply" => current[t] # 0
  /\ queue \in Seq(Comment) /\ Len(queue) <= MaxQueue
  /\ saved = NoFile \/ saved \subseteq Comment
  /\ failures \in 0..MaxFailures /\ exits \in 0..MaxExits /\ losses \in 0..exits

\* Processed comments are tracked over stops and restarts: a comment is handled
\* again only if a process ended before it saved what it remembered, or if an
\* interval was set while another one ticked.
HandledOnce == \A c \in Comment : queued[c] > 1 => losses > 0 \/ doubled

\* A reviewer is told once that the comment is being addressed; again only for a
\* call that failed, a process that was lost, or a second interval.
AckedOnce == \A c \in Comment : doubled \/ acks[c] <= 1 + losses + failures

\* An agent that is stopped starts no further poll, unless an interval was set
\* while another one ticked.
StoppedIsQuiet ==
  [][\A t \in Timer : pc[t] = "idle" /\ pc'[t] = "fetch" => Running \/ doubled]_vars

\* Every change request gets a task while the agent runs, whatever failed before,
\* and whatever other comment the poll met first.
RequestIsQueued ==
  \A c \in Comment : c \in posted ~> queued[c] > 0 \/ ~Running

\* "Processed comments are tracked to avoid duplicate handling"
\* (watcher/test/agents/pr-monitor-state.test.ts:6), where nothing fails or ends.
HandledOnceWhileRunning ==
  losses = 0 /\ failures = 0 => \A c \in Comment : queued[c] <= 1
=============================================================================
