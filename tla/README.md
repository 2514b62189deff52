# Verification of the one-shot-ship plugin

The plugin surrounds a Claude Code session with shell hooks, command line tools,
a watcher process, a daemon, agents, a proxy for other models and a batch
runner. They work on the same few files of a user, mostly without locks, in
processes that start together, overlap and are killed by their timeouts. This
directory holds TLA+ models of the parts whose correctness depends on that, TLC
runs that check them on small instances, and TLAPS proofs of the most important
results for every value of the constants.

Paths below are relative to the root of the repository. `PROJECT.json` maps
every definition to the lines it translates, every property to the run that
checks it and to a mutant of the code that breaks it, and every hazard to the
properties that would catch it.

## 1. Inventory

### Components, their state and operations

| Component | Source | State | Operations |
|---|---|---|---|
| Queue manager | `watcher/src/queue/manager.ts` | array of tasks, `queue.json`, `queue-expired.json`, `queue-failed.json` | addTask (sort, drop what is over the limit, archive, persist), updateTask, removeTask, moveToFailed, clear, getNextTask, initialize |
| Health check of a session | `watcher/src/cli/health-check.ts` | its own queue manager | load, run the tests, queue the failure |
| Drain script | `watcher/src/drain-queue.ts`, `hooks/oss-precommand.sh` | its own queue manager | load, mark executing, print, mark completed |
| Batch queue runner | `scripts/queue-runner.sh` | `tracking.json`, a lock directory, branches | take an item, plan, build, resolve conflicts, ship, retry |
| Workflow state service and tool | `watcher/src/services/workflow-state.ts`, `cli/update-workflow-state.ts` | `workflow-state.json` | some thirty setters, each read, change, write back |
| Workflow hooks, status line | `hooks/oss-notify.sh`, `oss-precommand.sh`, `oss-log.sh`, `oss-session-*.sh`, `oss-statusline.sh` | none of their own | sequences of calls of the state tool; the line reads the state |
| Workflow engine | `watcher/src/engine/`, `api/workflow-config.ts`, `cli/chain-trigger.ts` | configuration cached in a process | fetch, print a chain, run its steps, conditions, agents |
| Prompt decryption | `packages/cli-decrypt/src/` | credentials, old cache, `update-state.json` | fetch, decrypt, check against the signed manifest, print |
| Watcher, daemon | `watcher/src/index.ts`, `daemon/src/daemon.ts`, `cli.ts` | `watcher.pid`, `daemon.pid`, launchd's plist, heartbeat | start, stop, tick |
| Daemon services and monitors | `daemon/src/` | last check, listed processes, killed ones | check, list, kill, raise issues |
| Supervisor, log reader, logger | `watcher/src/supervisor/`, `watcher/src/logger/` | `workflow.log`, position in it, entries, marks | append, tail, analyse, intervene, save |
| Analyzer, interventions | `watcher/src/analyzer/`, `watcher/src/intervention/` | none | functions of the entries and the time |
| Iron law monitor, log parser | `watcher/src/services/iron-law-monitor.ts`, `monitors/iron-law-log-parser.ts` | tool calls, violations, `iron-law-state.json` | record, check, resolve |
| Log, test, git monitors, rules | `watcher/src/monitors/`, `detectors/` | windows of lines and runs | analyse, queue a task |
| PR monitor, agent registry | `watcher/src/agents/pr-monitor.ts`, `pr-monitor-state.ts`, `registry.ts`, `integration/watcher-agents.ts` | known comments, task queue, intervals, `pr-monitor-state.json` | poll, start, stop, sessions, enable, disable |
| PR task executor | `watcher/src/agents/pr-task-executor.ts` | saved branch and stash | save, check out, commit, push, restore, retry |
| Webhook receiver | `watcher/src/services/webhook-receiver.ts`, `config/webhook-config.ts` | secret, window of the rate limit | enable, disable, receive |
| Model proxy | `watcher/src/services/model-proxy.ts`, `proxy-router.ts`, `cli/start-proxy.ts`, `agent-offload.ts`, `oss-launch.ts` | port, pid file, configuration | start, route, answer, offload |
| Streams and formats of providers | `watcher/src/services/stream-transformer.ts`, `api-transformer.ts`, `gemini-transformer.ts`, `handlers/` | buffer of a stream | translate requests, answers, events |
| Model router, registry, settings | `watcher/src/services/model-router.ts`, `settings.ts`, `cli/models.ts`, `config/model-config.ts` | `config.json`, `settings.json`, caches of them | resolve, set, clear, test, load, save |
| Telegram | `hooks/oss-ask-telegram*.sh`, `sse-telegram-listener.sh`, `watcher/src/services/telegram.ts`, `cli/telegram-*.ts` | question and answer files, listener, last update | ask, listen, answer, wait for a button |
| Health checks, specification monitor and reconciler, notifications, learning, metrics, onboarding, benchmarks, debugging assistant, prompts | see `PROJECT.json` | lists and counters of one process, or nothing | not modelled, see section 7 |

### How they interact

    monitors, webhook, supervisor --addTask--> QueueManager of the watcher --+
    health check of the session   --addTask--> its own QueueManager ---------+--> .oss/queue.json
    pre-command hook (drain)      --update---> its own QueueManager ---------+

    hooks --update-workflow-state.js, one process per call--+
    daemon tick (heartbeat), state manager ------------------+--> workflow-state.json --> status line
    supervisor (its own copy, another shape) ----------------+

    hooks, agents --> workflow.log --> log reader --> supervisor --> queue
    session hooks, user commands --> agent registry --interval--> PR monitor --> GitHub
    commands --> oss-decrypt --> API (prompts, manifest);  commands --> engine --> API (chains)
    session, agents --> model proxy --> provider;  /oss:models, settings --> config.json, settings.json
    questions --> Telegram hooks <--> API <--> chat;  cron --> queue-runner.sh --> claude, git

Nothing locks `queue.json`, `workflow-state.json`, `config.json` or the pid files:
a process works on the copy it loaded and writes the whole copy back. `queue.json`
is replaced by a rename, `workflow-state.json` is truncated and rewritten in place.
`tracking.json` of the batch runner has a lock.

### What is hard, and what correct means

- **Queue manager.** Every method is async; a call that awaits lets the others
  run, and each resumes with locals computed before. Correct: the limit holds,
  what is dropped matters least, nothing accepted is lost whichever write throws
  or wherever the process dies, memory and file agree at rest.
- **Processes around the queue.** Each overwrites what others wrote since its
  load. Correct: no task is marked completed that was not shown, a task is shown
  once, in order of importance, and eventually; a reported failure is kept.
- **Batch runner.** cron starts runs that overlap, phases fail, runs are killed.
  Correct: one run works on an item, the file says what became of it.
- **Workflow state.** Hooks overlap, hit their timeouts between truncation and
  write, and meet the heartbeat; several scripts make sequences of setter calls
  whose combined effect a line of text shows, each call hiding its failure. Correct:
  no change undone but by a command that read before it was written, no text put
  together from two states, no state without the chain, the line shows the command
  that runs, then its result.
- **Workflow engine.** The configuration is fetched past an await, steps fail.
  Correct: one configuration in a process, steps in order, none after a failure
  that stops the chain.
- **Prompt decryption.** The server publishes, signs, rotates and revokes between
  any two steps of a command. Correct: what is printed is what was signed.
- **Watcher and daemon.** Pid files are checked, then written. Correct: one
  instance runs, and it can be found and stopped.
- **Daemon services.** `ps` shows a clock time without a date, or a date without a
  time; pids are used again; the interval of the checks does not wait for a check.
  Correct: only what ran too long is killed, for what its pid was listed for.
- **Supervisor.** Entries are handled while earlier handlers await. Correct: each
  issue is queued once, no failure is missed, finished work raises none.
- **Iron laws, monitors.** Windows and buffers drop their oldest entry, and what was
  pending is not saved. Correct: what is reported or pending follows what was done
  and is still remembered.
- **PR monitor.** Polls overlap starts and stops, memory is saved at a stop only,
  GitHub fails. Correct: a comment gets one task and one reply, a stopped agent is
  quiet, every request gets its task in the end.
- **PR task executor.** Any git or npm command fails. Correct: the user's branch
  and changes come back and are never part of a fix.
- **Webhook.** Requests end after the receiver was replaced, the configuration is
  unreadable at times. Correct: only what is signed queues, the secret stays.
- **Model proxy and formats.** Proxies race for a port, a mapping changes, chunks
  split events anywhere, tool calls and results share messages. Correct: answers
  from a mapped model, events whole and in order, no text lost.
- **Settings.** Copies, caches and unreadable files. Correct: what was saved is
  there, what is answered was configured.
- **Telegram.** A listener outlives its question, a question is dismissed, the one
  report of an answer fails, the hook ends before it. Correct: an answer is told, of
  its own question, or is one of those the code is known to give up; a press reaches
  who waits for it.

`PROJECT.json` gives each hazard at its line.

## 2. Modules

| Module | Models | Lines up with the code as follows |
|---|---|---|
| `TaskQueue` | one `QueueManager` | `queue`, `queueFile`, `expired`, `failed` are the array and its files; `pc`, `arg`, `dropping`, `victim` the locals of a call at its await. One action per stretch of code between two awaits; the sort, the archive write and the persist belong to the action. |
| `QueueFile` | `persist` and `initialize` on the file system | inodes, open descriptors, truncation, write, rename, by any number of processes on the one temporary file; a killed writer leaves it there. |
| `AtomicRegister` | what that file promises | a save that overlaps no other replaces the value at once, those that overlap may leave anything; whoever reads gets one instant. `QueueFile` implements it. |
| `QueueProcesses` | health checks and drain hooks around one `queue.json` | `mem[p]` is the copy a process loaded; one action between two file accesses. |
| `QueueRunner` | overlapping runs of `queue-runner.sh` | `run[r]` is the step of a run, the items it has read and the write it is at; an update of `tracking.json` is lock, read, temporary file, rename, unlock; a retry counts the attempt, then builds, and a build whose session failed goes on to a fresh one. |
| `WorkflowStateFile` | `workflow-state.json` and the processes that change it | a job runs its script of commands; each command reads, truncates, writes. The daemon's tick starts from `{}`, the hooks from the defaults. `due` and `undone` are history: the value each field was given last, and the fields whose change a command has undone. |
| `VersionedStore` | what the service promises | every text is one of the states there have been with one field set, and the version counted up from that state; `WorkflowStateFile` implements it however its jobs overlap and are killed. |
| `WorkflowState` | the setters, the hooks that call them, the status line | `state` is the JSON state, `script` the calls the hook has still to make, each of which may fail (`\|\| true`), `Line` what `compute_workflow` shows. |
| `WorkflowEngine` | configuration, the two executors, agents | `pending` are the fetches under way; a step runs, fails, is warned about or skipped in one action. |
| `DecryptCLI` | commands that decrypt, and the server they ask | `cmd[p]` is what a command holds between two requests or file accesses. |
| `ProcessLifecycle` | watcher and daemon on their pid files | `stage[p]`: one action per file access or system call of start and stop. |
| `DaemonServices` | process list, killer, scheduler, daemon's monitors | ages are read back from what `ps` shows, a clock time, a date or a duration; `signals` remembers who was hit, of what listing; `timer`, `healthChecks` are the interval and the checks under way, as many as overlap. |
| `Supervisor`, `WorkflowAnalyzer` | logger, reader, supervisor; detectors and interventions | `job[j]` is a handler or check at its `addTask`; the detectors are operators on the entries. |
| `IronLaws` | monitor and log parser | `pending`, `recent`, `violations` are its lists, `disk` what it saved; `order` is what was done to each file, over restarts, and `forgotten` what was pending at one. |
| `Monitors` | log, test and git monitors, rules | `logBuffer`, `testHistory` are the windows, `tasks` what an operation queues. |
| `PRMonitor` | the agent under session hooks and user commands | `timers`, `live`, `handle` are the intervals, `pc`, `batch`, `current` a poll at its await, `known`, `saved`, `queue` its memory, its file and its tasks. |
| `PRTaskExecutor` | a task in the user's repository | `tree`, `staged`, `stash`, `committed` are git's; one action per command, which may fail. |
| `Webhook` | receiver, its configuration, the watcher's handler | `bodies` are the requests that were let through and are still being read; `accepted[t]` counts those let through up to time `t`. |
| `ModelProxy` | proxies, router, agents, the session | `stage` and `kind` of each proxy, who has the port, whom the pid file names: binding the port and writing the file are two steps. |
| `Streams` | stream transformer; the events of one response | `buffer` is the text kept between two chunks, `fed` the events whole, some with `[DONE]` in their text, `sent` what went to the client. |
| `MessageFormats` | requests and answers of OpenAI, Ollama, Gemini | `conv` is the client's conversation, `sent` its translation, with the ids each format carries beside the calls and results. |
| `ModelSettings` | `/oss:models`, router, executor, settings service | `command[c]` is the copy a command works on, `read` the two configurations of the one `ModelConfig` that all resolutions share, `cache` and `pending` the router's, `copy[s]` a service's. |
| `Telegram` | questions with their hooks and listener; waits for a button | files of `~/.oss/pending`, the listener and its reader loop as two processes, the report of an answer as one background call that may fail, questions dismissed, updates and acknowledgements. |
| `MCTaskQueue`, `MCWorkflowStateFile` | instances | adds, and every operation with faults, side by side; what each hook runs, and which follow one another. |
| `MCQueueProcesses`, `MCSession`, `MCWatcher`, `MCRemote` | instances side by side | see below. |
| `TaskQueueProofs`, `PRMonitorProofs`, `WorkflowStateFileProofs` | theorems | extend the component itself, so they hold for every instance of it. |
| `QueueProofs`, `SessionProofs`, `WatcherProofs`, `RemoteProofs`, `MessageProofs` | theorems | extend `MCQueueProcesses`, `MCSession`, `MCWatcher`, and the last two `MCRemote`: the theorems are about the composed specification the runs check, for all values of its constants. |

**Instances side by side.** Most components share no state that these
specifications follow. A run that asks about several of them chooses at its start
which `part` of the system a behaviour is about; the other parts keep one initial
state (`Idle` names it) and all their variables are unchanged. So the states of
the parts are added and not multiplied, no part is given less than its own
specification, and a property of one part says nothing about the behaviours of
another. Properties that need the fairness of one part are stated for its
behaviours (`part = "drain" => ...`). The `MC` modules fix no value: each number,
set and script of an instance is a CONSTANT the configuration gives, with a named
`ASSUME` where a proof needs one, so that a theorem about the bundle is about every
such instance.

**Components that do interact** are composed by assumption. `QueueFile` shows that
a load and a persist of `queue.json` are atomic where saves do not overlap, and
`TaskQueue` and `QueueProcesses` take them so; `TaskQueue` shows what interleaved calls do in
a process, and `QueueProcesses` has one call in flight in each; `Supervisor`,
`Monitors` and `Webhook` queue a task in one step. `WorkflowStateFile` shows what
overlapping and killed hooks do to the file and that hooks in turn undo nothing, and
`WorkflowState` takes hooks one after another, with calls that fail. `ModelProxy` is who
answers, `MessageFormats` what is sent and `Streams` how it comes back.

### What the abstraction leaves out

Data is kept as far as a property can tell it apart. A task is its number, in
order of creation, which stands for its id and date; priorities keep their order,
texts are gone. `WorkflowStateFile` keeps the version, whether there is a chain,
and five of the fields, each set by different scripts. `WorkflowState` leaves out
progress, messages, agents, queue summary and health, on which nothing shown
depends, and `resetTddCycle` and `workflowComplete`, which no hook calls. A comment
is a number in GitHub's order; the words that make one a change request, the agent
chosen and the 30 days after which it is forgotten are out, and a poll lasts less
than an interval, so that only polls of two intervals overlap. A line of output is
the set of patterns it matches; an entry of the workflow log is its event with
what the detectors compare. A prompt is its version, credentials are the number of
their issue, and what is encrypted for one is not decrypted with another. In
`ModelProxy` a request is answered by Claude, by a model or not; prices and lists
of the registry and the migration of the audio settings are out of
`ModelSettings`. Durations and averages of the batch runner are writes that change no status.

Failures are modelled where a property depends on what the code does about them:
the calls of the state tool (`|| true`), the commands of the batch runner and of
the PR tasks, the calls to GitHub, the one report of a terminal answer, writes of
the queue and the supervisor, requests of commands and of the engine. Not modelled
are a signal that cannot be sent, a `ps` that lists nothing, a start refused because
its own pid was that of a dead predecessor (`index.ts:246`), full disks outside the
queue and the supervisor's save, and failures of `git` beyond the commands a script
names. What a user does in the working tree while a PR task is at work is not
modelled either (`PRTaskExecutor` lets him edit between tasks), and nothing in the
repository runs a task's steps in a row: the driver that does, and that restores
after a failure, is assumed from the methods and their tests. The handlers of a
session (`onSessionStart`, `enable`, ...) are awaited one after the other.

## 3. Runs

| Run | Instance | Shows |
|---|---|---|
| `task_queue` | *adds:* 3 calls, 4 tasks, limit 2, two priorities; *faults:* 2 calls of all operations, 2 tasks, limit 1, failing writes, 1 crash | Overlapping adds: the limit holds when no call is dropping, nothing stays unsaved, what is given up is the least important, every add resolves, a dropped task leaves `queue.json`. With faults: no accepted task is lost. |
| `queue_processes` | *overlap:* 2 health checks, 1 drain, 3 tasks, 1 kill; *drain:* 1 session's hooks, 4 tasks, 1 kill; *batch:* 2 runs, 2 items | What is called completed was shown; one session prints each task once, the most important first, and all of them; the batch runner works on an item in one run at a time and tells what became of it. |
| `session` | *hooks:* three that overlap as they like, two of them killed anywhere; *chain:* 4 commands, 2 phases, 2 calls failed or hooks killed; *engine:* every chain of 2 steps, 2 callers; *prompts:* 2 processes, 4 commands, 1 prompt | Only who read before a change was written, or a half-written file, undoes it, and hooks in turn undo nothing; the versioned store is implemented; hooks end; line, recommendation and chain agree with the command that runs or ended, whatever call fails; steps run in order from one configuration; what is printed is what was signed. |
| `watcher` | *file:* 2 writers, 1 reader, 3 inodes, crashes; *lifecycle:* 3 processes; *services:* a day of 8 ticks and 2 more, an interval of 1 and of 3, checks of 2; *monitors:* buffers of 3; *laws:* 2 files, window of 2, 2 records, restarts; *supervisor:* 2 entries of a build, a restart, a failing write; *analysis:* every log of 4 entries out of 8 | A load is a complete text unless saves overlapped, and the file is a register; who runs is in the pid file; only what is hung is killed, or what is dated as hung, and checks start an interval apart; what is reported is still in the buffers; pending and open laws follow what was done over restarts; every failure is queued, each issue once; time makes an issue of a complete command only from a phase or an agent left open. |
| `remote` | *monitor:* 2 comments, 2 intervals, queue of 1, 1 failure, 1 exit; *task:* 2 tasks, 2 failures; *webhook:* window of 2 ticks; *proxy:* 2 proxies, 1 agent; *streams:* 3 events, 2 pings; *messages:* 3 providers, 4 calls; *models:* 2 commands, 2 services; *telegram:* 2 questions, 2 waiters | One task and one reply for a comment, quiet when stopped, every request queued; the user's work preserved; only signed reviews queue; answers from the mapped model; each event once, as what it becomes, in order; calls answered in order, by their ids where the format has them; keys and settings kept; answers reach their question or are of those given up. |
| `queue_lost_report` | 1 health check, 1 drain | *Violated:* a failure reported as queued is lost. |
| `state_heartbeat` | one hook and the daemon's tick | *Violated:* a state without a chain stays behind. |
| `pr_monitor_sessions` | 1 comment | *Violated:* an agent started while it runs has two intervals, and one comment gets two tasks. |
| `supervisor_silence` | the supervisor alone, no faults | *Violated:* a build that falls silent is never reported. |
| `model_precedence` | 1 command, 1 service, 2 changes | *Violated:* the user's mapping comes before the project's. |
| `chain_blocking` | chains of 2 steps | *Violated:* the failure of a blocking command does not stop the chain. |
| `task_context` | 1 task, no failure | *Violated:* a file git does not know is committed with the fix. |

### Why the bounds are enough

- The adds of `task_queue` need a third call that overflows while two others drop, and a task
  more than the calls, so that one call drops what another added; priorities
  matter only as higher or lower. Its faults multiply operations by failures
  and crashes, so they have the smallest queue that overflows.
- `QueueProcesses`: two reports and a drain are the least that lose each other's
  tasks by stale copies; four tasks of three priorities leave two of the same
  priority to order. `QueueRunner`: two runs and two items let one run take, wait
  for or give up what the other has; `MaxRetries` is the script's, and the items
  of overlapping runs are limited by `MaxShared`.
- `QueueFile`: two writers overlap on the temporary file, and what one leaves in the
  inode the other renamed is met by the reader and by the next save. Three inodes: one
  for each of the two names and one that a process holds open without a name; a save
  that finds none free waits for one.
- `WorkflowStateFile`: three hooks, of which one reads before another writes and
  undoes it while a third reads the half-written file; the scripts set a field that
  another sets differently, and one that only it sets. `WorkflowState`: `build` and
  `ship` of the main chain, one command outside it and one of the design, two of the
  loop's phases; two faults are the least that make a completion miss both calls that
  recommend. `WorkflowEngine`: of two steps the first
  can fail, be skipped or be blocking for the second; the limit of printed
  commands is lowered to two to be exceeded. `DecryptCLI`: two versions, two
  issues of credentials and four commands, of which two see one change after a
  third was killed or overlapped.
- `ProcessLifecycle`: a third process meets what two left behind.
  `DaemonServices`: the day is longer than both timeouts, and the clock passes
  midnight; one interval is shorter than a check, so that checks overlap, and one
  longer. One pid is the least that changes hands. `Monitors`, `IronLaws`: one more
  event than the buffer holds. `Supervisor`: two entries and a timed check let two
  handlers and a check interleave, before and after a restart. The analysis: four
  entries are a start, what is left open or not of a phase or an agent, and the end,
  and the time after it exceeds every threshold of the detectors.
- `PRMonitor`: two intervals are what one process may overlay, or one before and
  one after a restart; with a queue of one the second task already evicts.
  `PRTaskExecutor`: two failures make one of a task and one of its clean-up; two
  tasks, one that finds what the other left. `Webhook`: two windows, two secrets.
  `ModelProxy`: two proxies that race for the port. `Streams`: an event cut
  between two others. `MessageFormats`: a message with several calls, answered in
  one or several messages. `ModelSettings`, `Telegram`: two of each actor.

Every counter of a fault is a constant (`MaxCrashes`, `MaxKills`, `MaxFailures`,
`MaxFaults`, `MaxExits`), so that faults end and liveness can be asked about; the
other `Max` and `Last` constants bound what is created. `CHECK_DEADLOCK FALSE`
stands where the system stops once everything bounded has happened. `session` and
`state_heartbeat` keep the check; the parts of `session` that come to an end have
`Stop`, so there it is the hooks and the commands that cannot get stuck. `watcher`
takes the inodes for symmetric: no property names one, and no liveness is asked of
the part that uses them.

### Fairness

- `TaskQueue`: a call in flight resumes, for its promise settles (the file writes
  are synchronous), and a crashed watcher is started again by the next session.
  No fairness for new calls.
- `QueueProcesses`: a drain hook is run for every command and takes its steps; a
  health check need not end.
- `WorkflowStateFile`: a hook goes on until it ends or is killed.
- `Supervisor`: the reader's interval polls, and the queue answers `addTask`.
- `PRMonitor`: an interval ticks, and GitHub answers or the call fails; failures
  are bounded. Nobody has to start the agent: `RequestIsQueued` is excused when it
  does not run.

## 4. Proofs

Every property the passing runs check, liveness apart, is also a theorem for all
values of the constants.

| Theorem | Under | Argument |
|---|---|---|
| `TaskQueueProofs!TypeCorrect` | | `TypeInv`: with the types, a call in flight is about a task. |
| `TaskQueueProofs!NothingIsUnsaved` | writes succeed | inductive as it stands: a step that changes the queue without saving it leaves a call that will. |
| `TaskQueueProofs!AcceptedTasksAreKept` | | `KeptInv` follows a task before its call resolves: remembered in memory until archived, a victim archived before it is filtered out, in the file or archived when the call is about to resolve. |
| `TaskQueueProofs!QueueIsCapped` | writes succeed, no crash | `CapInv`: the tasks held that no call is dropping never exceed the limit, by the cardinality of what each call chose. |
| `TaskQueueProofs!LeastImportantAreDropped` | writes succeed, only adds, crashes allowed | `DropInv`: whatever is being dropped comes before all the rest, so two calls that overflow together choose from the same end. |
| `QueueProofs!CompletedIsShown` | | `IInv`: the claim about the file holds of every copy too, for a copy becomes the file. |
| `QueueProofs!SessionPrints` | no health check, one hook at a time | `SessionInv`: the hook has the file in memory and the most important pending task in hand; what is pending was not printed. |
| `QueueProofs!ItemsTracked` | | `WholeInv`: unless a lock was taken from a run that goes on, one run writes and the file and its copies are whole. `BranchInv`: the branch of an item is made once. `OutcomeInv`: while nothing overlaps or is given up, the items before the one at hand have an outcome and those after it are queued; the one at hand is the least of what is left. |
| `WorkflowStateFileProofs!ChainIsKept` | no heartbeat | `ChainInv`: the text, and the copy of every job, has a chain. |
| `WorkflowStateFileProofs!ImplementsTheStore` | | `StoreInv`: the text, and the copy of every job between its read and its write, is a state there has been. |
| `WorkflowStateFileProofs!ChangesAreKept` | | `DueInv`: a field not undone holds the value it was given last, in the text and in every copy that is not marked to miss a change; `AloneInv`: hooks in turn, none killed, are never marked. |
| `SessionProofs!RecommendationFollows` | | `ScriptInv`: what a hook has left to call is an end of its script. `ArrowInv`: a start clears what was called last, a completion calls its command last and recommends twice; which of these calls are left, or were lost by the last of them, when "last" and "next" disagree. |
| `SessionProofs!LineIsRight`, `StepsFollow` | no fault; one, or any number, for the active steps | `WorkInv` and `StepInv`: each field the line or the chain shows has its value, or the call that sets it is left. |
| `SessionProofs!ChainRunsInOrder` | | `ConfigInv`: while fetches do not overlap, the cache and every answer are one configuration. `RunInv`: what ran is a sorted list of due steps up to the next one, what failed ended the chain or was warned about. |
| `SessionProofs!ListedIsPrinted` | a prompt exists | `HeldIsListed`: after its check a command holds the version the manifest had, or none was to be had. `NoticeInv`: signatures never pass the manifest, and what was noticed is covered by the signatures or by the one command that is about to write them. |
| `WatcherProofs!LoadsAreComplete`, `FileIsRegister` | | `FileInv`: an inode that no overlapping saves had in hand is complete once it has the name or is being read, and is written no more; before that it is the one writer's own. |
| `WatcherProofs!RunnerListed` | | `OneAtATime`: where starts do not overlap, the process that runs is the only one and keeps every start from getting past its check. |
| `WatcherProofs!ServicesAreOnTime` | | `KillerInv`: whoever waits for SIGKILL was found hung and has not become younger, which is linear arithmetic on days, minutes and births; who was listed is still there or has been followed by a younger one. `SchedulerInv`: checks under way and the timer are an interval apart, and no check lasts longer than its time. |
| `WatcherProofs!MonitorsReportWhatIs` | a loop is more than one line | `MonitorsInv`: each buffer is the end of what was seen, so a window that is counted lies in both. |
| `WatcherProofs!LawsFollowed` | something is remembered | `CallsInv`: a test in the window, or in the file, was written, and what waits for its test is pending or was forgotten by the end of a process. `RecordsInv`: a type is open once, and only if the last check found it. `CountsInv`: the counter of a law is the cardinality of its violations since it passed. |
| `WatcherProofs!IssuesQueued` | | `JobInv`: what a job queues is marked and no other job has it in hand. `MarkInv`: what is marked has its task, gets it, or belongs to a write that failed. `SavedInv`: between two entries the file holds the state. |
| `WatcherProofs!QuietOnceFinished` | | `AnalysisSettles`: of a finished log, the detectors that read the clock find the same at every later time, but for the phase and the agents left open. |
| `PRMonitorProofs!TypeCorrect` | | with a lemma on the least element of a set of numbers. |
| `PRMonitorProofs!CommentsAreHandledOnce`, `StoppedAgentIsQuiet` | | `OnceInv` says where a comment with a task is remembered, `SavedInv` that no start forgets it, `OneInv` that one poll replies at a time, to a comment that is not remembered. |
| `PRMonitorProofs!RepliesAreBounded` | | `AckInv`: the replies to a comment are counted by its tasks, the calls that failed and the process that was lost between reply and mark. |
| `RemoteProofs!UserKeepsTheWork` | | `CleanInv`: the user's edit is in no index and no commit; `KeptInv`: it is in the tree or in a stash; `TrackInv` says what the repository looks like at each step of an undisturbed task. |
| `RemoteProofs!ReviewsAreChecked` | | `RateInv`: the counter holds what came in since the window began, and the time as long as a window that ends there had no more than the limit; any such time meets two windows at most. `SecretInv`: there is a secret wherever a configuration could be read. |
| `RemoteProofs!AnswersAreMapped` | no agent is named like the session | `ListenInv`: one proxy listens, and without a race one is at work. `AnswerInv`: whoever is at work was asked for by some client, so that the proxies of one kind are of the client's kind; a router has the mapping while it stays. |
| `RemoteProofs!SettingsAreKept` | | `KeysInv`: a command that saves alone has the stored keys. `RouterInv`: what is cached, or held by the configuration that all resolutions share, was read since the invalidation, whichever of them read it. `ServiceInv`. |
| `RemoteProofs!AnswersReachTheirQuestion` | | `TellInv`: while nothing outlived its question, the id file and the answer file belong to the question that is present, and an answer given by hand is told, on its way, or one that was given up. `UpdateInv`: what comes after a batch has a higher number. `PressInv`: the press under a message waited for alone is kept from when it is sent. |
| `MessageProofs!EventsComeInOrder` | | `EventInv`: the buffer never holds `[DONE]`, in a text or alone, nor a whole event, so what comes out is caused by a piece of the new chunk, which is of the last event; of that event some number of pieces has gone through, and without a bad cut the buffer holds exactly those. `ClientInv`: before the end only the beginning and pings are sent; the response counts its blocks and ends it. |
| `MessageProofs!MessagesAreKept` | | `ConvInv`: the translated conversation makes the calls up to the last number, and answers all but those of the last message, when that is the assistant's. It is kept because a translation is `Faithful`: it makes the calls of its message, answers what the message answers and holds its text, and gives calls and results the same ids where it gives any; a request is the translations one after the other. |

The assumptions on the constants are the `ASSUME`s of the modules, which TLC
evaluates in the runs, and the conditions of the second column. A condition is
there where the theorem fails without it: with failing writes an addTask rejects
and leaves memory ahead of the file; after a crash the file may be over the limit;
moveToFailed and removeTask give up tasks of any importance; the heartbeat writes a
state without a chain; two hooks print a task twice. The others (saves, starts,
fetches or commands that overlap, races, changed mappings, what was lost, killed or
undone) are part of the property itself, as history variables that TLC and the proofs
share: they name which behaviours the promise excepts, and the property says what
holds of all the rest.

A theorem about a bundle of section 2 begins with `PartSteps`: an initial state of
the system is one of the part, and a step of the system is a step of the part or
leaves its variables alone. After it a proof is about one component. Where an
argument calls for induction over a number (the least priority, the first item
left, the last hook of a field), the proofs take the least element of a set of
natural numbers instead (`WFMin`). The lemmas about `FlattenSeq` are found that
way as well: what it makes of a sequence is followed index by index, and a first
index at which a claim about it failed would have one before it at which it holds;
so `FlattenSeq` of two sequences that are joined is the join of what it makes of
each.

**Model-checked only.**

- Liveness, which needs fairness and ENABLED: `AddResolves`, `DroppedLeavesFile`,
  `BacklogIsPrinted`, `EveryHookEnds`, `RequestIsQueued`, `FailureIsQueued`.

## 5. Where the code and its documents disagree

Shown by a run:

- `queue_lost_report`: the health check loads the queue before `npm test`; a hook
  that loaded it before the report saves its old copy over it
  (`drain-queue.ts:45`, against `hooks/oss-session-start.sh:235`).
- `state_heartbeat`: the daemon takes `{}` for a state it cannot parse and writes
  it back; `setActiveStep` then throws (`daemon.ts:132`, against
  `workflow-state.ts:141`).
- `pr_monitor_sessions`: the first session start starts an enabled agent twice
  (`watcher-agents.ts:66`), and a user may enable one that runs (`agents/cli.ts:101`):
  the second interval hides the first (`registry.ts:109`, against
  `pr-monitor-state.test.ts:6`).
- `supervisor_silence`: entries are analysed only when a new one arrives, so
  silence is never found (`watcher-supervisor.ts:429`, against
  `watcher/README.md:203`).
- `chain_blocking`: the executor stops at a result that is blocking, and a command
  that failed never says so (`workflow-chain-executor.ts:234`, against
  `commands/oss-custom.md:120`).
- `model_precedence`: `getMergedConfig` puts the project's mapping over the user's, as
  its own header says (`model-config.ts:4`, `:123-125`); the router's header
  (`model-router.ts:4`), `commands/models.md:207-213` and the design's D2 put the
  user's first.
- `task_context`: the stash leaves files git does not know, and `git add .` takes
  them (`pr-task-executor.ts:217`, against `:28`).

Met without a run of its own: `workflow-state.ts:47` says the version is "Incremented on every state
change". It is counted up from the copy a command has read, so commands that overlap
give one version to two states, and the heartbeat counts none; `VersionedStore` says
so.

## 6. Met while modelling

Behaviours the models have, which no document denies; properties are stated where
they do not apply.

- **Queue.** After a crash between archive and persist the file may hold more than
  its limit until the next add (`manager.ts:366`). Two processes that persist at
  once use the same `queue.json.tmp` (`manager.ts:399`): the file may then hold part
  of a text, and every load throws until the next save. A hook killed between marking a task and
  printing it leaves it executing for ever.
- **Batch runner.** `process_item` runs in a condition, so `set -e` is off in it: a
  ship that failed still ends in "completed" (`queue-runner.sh:371`). `run_phase`
  returns the failure of the resumed session though the fresh one succeeded
  (`:146`), and its log lines become part of the plan's session id. The lock may be
  taken before its time is written (`:22`); `tracking.json` is read outside it, so
  updates are lost. Overlapping runs share one working tree; a killed run leaves
  its item planning or building; `resolve_conflicts` aborts a clean merge.
- **Workflow state.** A command that reads a half-written file starts from the defaults
  and undoes every change before it; one that was overtaken undoes those it did not
  read. One setter that fails where the hook completes a command leaves the others: the
  line shows a result of two commands. Hooks in parallel write one version twice, and the background
  updates of an agent's start and end may be swapped (`oss-log.sh:371`).
  `setActiveStep` with a name that is no chain step resets the whole chain.
  `oss-workflow-auto.sh` is called by no hook.
- **PR monitor.** Its queue is in memory only: after a restart comments are known
  and their tasks gone. A comment that can never be replied to stops every poll
  before those after it; the acknowledgement contains a word that makes a comment
  a change request.
- **Pid files.** Two watchers that start together both find no file
  (`index.ts:59`); a watcher that was refused removes the file of the one that runs
  when it is stopped (`:202`).
- **Webhook.** The window of the rate limit is fixed, so twice the limit may come
  through in a window's time.
- **Model proxy.** An agent takes any proxy on the port (`agent-offload.ts:202`):
  `AnsweredAsMapped` is about proxies of one kind.
- **Streams and formats.** The transformer looks for `[DONE]` in all it has buffered, so
  a text that holds it ends the message and is lost (`stream-transformer.ts:94`,
  `api-transformer.ts:350`); so are the text beside a role and all but the first call
  of a delta. Gemini is sent a `functionResponse` named by the id of the call while its
  `functionCall` has only the function's name (`gemini-transformer.ts:171-190`), and
  Ollama a tool message without id or name (`ollama-handler.ts:170-181`): which call a
  result belongs to is told by order alone. An event is lost where a chunk is cut within `data:` or
  holds parts of two events (`stream-transformer.ts:90`): `EventsInOrder` says then
  only that nothing comes out of order. What a user says beside the results of tools
  does not reach a model of OpenRouter (`api-transformer.ts`), and `MessagesKept`
  leaves it out.
- **Settings.** `/oss:models` takes an unreadable `config.json` for an empty one and
  writes it back, and a settings service saves a copy older than the file; both
  lose what others saved, and `SettingsKept` is stated without them.
- **Hung processes.** Linux shows a process that was started before midnight by its date;
  it is taken for a day old, and killed however young (`process-monitor.ts:105`). One
  that got the pid of another since the list was made is hit in its place. Health checks
  overlap where one lasts longer than the interval (`health-check-scheduler.ts:112`).
- **Finished workflows.** A command that is complete with its phase open is reported as
  stuck in it later (`workflow-analyzer.ts:351`).
- **Iron laws.** What is pending is in memory only: a restart forgets that a source has
  no test (`iron-law-monitor.ts:64`).
- **Telegram.** A signal ends the listener and its exit trap runs, while the loop
  that reads events goes on; an answer file left behind leaves the next answer of
  the terminal untold. The report of an answer is one call in the background whose
  failure nobody sees (`oss-ask-telegram-answered.sh:106-117`); without configuration,
  key, answers or a first answer the hook clears its files and tells nothing (52-63,
  90-101), and a `jq` that fails ends it before either (57, 88). A question that is
  dismissed stays open in the chat, its listener and files stay. `AnswersAreKept` names
  all of these (`untold`, `left`).

**Met while proving.** Attempts at a proof that failed, and what they showed:

- *Recommendation.* An arrow between two workflows does not need hooks that add up:
  what a start or a completion clears and sets makes it right again, so `NextFollowsLast`
  excepts only what the last of them itself failed to call, for any number of faults.
- *Active steps.* `build` starts the loop and leaves steps of the design as they
  are (`workflow-state.ts:166`), so that one of them may be active beside a phase:
  `ChainFollowsStep` bounds the two groups separately. `api-design` and
  `data-model` start under their own names (`oss-notify.sh:274`), which are no
  steps, and the chain is reset to pending by a setter whose comment says that it
  marks previous steps as done.
- *Iron laws.* The list of violations is cut to the newest ones, open or not, so
  that with few records an open violation drops out of it and is found again as a
  new one: what is open is what was found only while the list is not full.
- *Decryption.* A change is noticed twice when a command that was overlapped or
  killed leaves older signatures behind. That takes four commands, and the run has
  them.
- *Router.* A resolution keeps its user's configuration in the object all share
  (`model-config.ts:70`), and another replaces it before the first has merged. A merge
  that outlives an invalidation caches what was read before it: a resolution follows
  from the configurations since the invalidation only where none is caught in between.
- *Webhook.* That at most twice the limit comes through in a window's time does
  not follow from the current window alone; the invariant needs what came in during
  the time before it.

## 7. Not modelled

- *Health checks, notifications:* they read, grade or print; no state outlives a
  call.
- *Session hooks that keep no state of the system:* shell glue. Their calls of the
  state tool are actions of `WorkflowState`.
- *Learning, metrics, cost, events, onboarding:* counters and lists one process
  appends to and reads back; nothing else depends on them.
- *Specification monitor and reconciler, debugging assistant:* parsing and
  classification of text, whose data would be the whole model.
- *Benchmarks:* sequential calls of models and a report, for the plugin's
  developers.
- *Commands, agents and skills:* prompts in Markdown that a language model follows.

Parts left out of modelled components are named in `PROJECT.json` and in section 2:
setters on which nothing shown depends, the words that make a comment a change
request, prices of models, a log line read in two halves, processes refused because
their own pid was reused, polls longer than their interval and comments older than 30
days.
