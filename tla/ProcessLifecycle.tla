--------------------------- MODULE ProcessLifecycle ---------------------------
(***************************************************************************)
(* Starting and stopping the watcher (watcher/src/index.ts) and the daemon *)
(* (daemon/src/daemon.ts and cli.ts).  Every process that is started reads *)
(* the pid file, gives up if the process it names is alive, removes a      *)
(* stale file and writes its own pid; between two file accesses of one     *)
(* process any step of another may fall.  Process p has pid p; once dead,  *)
(* its pid may go to a process that is none of these.                      *)
(***************************************************************************)
EXTENDS Naturals, FiniteSets

CONSTANT LastProcess   \* a natural number, bound on the processes started
Process == 1..LastProcess
Truncated == 0              \* the content of a pid file just truncated: not a number

VARIABLES
  kind,      \* "watcher" or "daemon": the two have files of their own
  pidFile,   \* the content of the pid file, {} when there is none
  stage,     \* where each process is
  port,      \* the process that listens on the webhook port, {} when none does
  webhooks,  \* the webhook is configured
  plist,     \* launchd keeps the daemon alive
  foreign,   \* pids of dead processes that others have now
  overlap,   \* history: two processes were between check and written pid at once
  stray      \* history: a watcher that was refused, or failed, was stopped

vars == <<kind, pidFile, stage, port, webhooks, plist, foreign, overlap, stray>>

Starting == {"check", "clean", "unlink", "truncate", "write"}
Alive(p) == stage[p] \notin {"new", "dead"} \/ p \in foreign
In(steps) == {p \in Process : stage[p] \in steps}

Init ==
  /\ kind \in {"watcher", "daemon"} /\ webhooks \in BOOLEAN /\ plist = FALSE
  /\ pidFile = {} /\ port = {} /\ foreign = {}
  /\ stage = [p \in Process |-> "new"]
  /\ overlap = FALSE /\ stray = FALSE

\* isAnotherWatcherRunning and isDaemonRunning: the file names a live process,
\* whatever process that is.
NamesLive(f) == \E p \in f \ {Truncated} : Alive(p)

Goto(p, s) == stage' = [stage EXCEPT ![p] = s]
Keep == UNCHANGED <<kind, webhooks, foreign, overlap, stray>>

-----------------------------------------------------------------------------
(* Starting.                                                               *)

\* start is called, or launchd starts the daemon because it is not running.
Launch(p) ==
  /\ stage[p] = "new" /\ \A q \in Process : q < p => stage[q] # "new"
  /\ Goto(p, "check")
  /\ overlap' = (overlap \/ In(Starting) # {})
  /\ UNCHANGED <<kind, pidFile, port, webhooks, plist, foreign, stray>>

\* The first look at the pid file.
StartCheck(p) ==
  /\ stage[p] = "check"
  /\ Goto(p, IF NamesLive(pidFile) THEN "refused"
             ELSE IF kind = "watcher" THEN "clean"
             ELSE IF pidFile = {} THEN "truncate" ELSE "unlink")
  /\ UNCHANGED <<pidFile, port, plist>> /\ Keep

\* cleanupStalePidFile looks again, and leaves the file of a live process alone.
Clean(p) ==
  /\ stage[p] = "clean"
  /\ Goto(p, IF pidFile = {} \/ NamesLive(pidFile) THEN "truncate" ELSE "unlink")
  /\ UNCHANGED <<pidFile, port, plist>> /\ Keep

\* The stale file is removed; where another process has done so, the watcher's
\* start throws; the daemon goes on.
Unlink(p) ==
  /\ stage[p] = "unlink"
  /\ Goto(p, IF pidFile = {} /\ kind = "watcher" THEN "failed" ELSE "truncate")
  /\ pidFile' = {}
  /\ UNCHANGED <<port, plist>> /\ Keep

\* writeFile empties the file before it writes the pid.
Truncate(p) ==
  /\ stage[p] = "truncate"
  /\ pidFile' = {Truncated} /\ Goto(p, "write")
  /\ UNCHANGED <<port, plist>> /\ Keep

Write(p) ==
  /\ stage[p] = "write"
  /\ pidFile' = {p}
  /\ Goto(p, IF kind = "watcher" /\ webhooks THEN "listen" ELSE "running")
  /\ UNCHANGED <<port, plist>> /\ Keep

\* initializeWebhookReceiver: a port in use leaves the watcher without receiver.
Listen(p) ==
  /\ stage[p] = "listen"
  /\ port' = IF port = {} THEN {p} ELSE port
  /\ Goto(p, "running")
  /\ UNCHANGED <<pidFile, plist>> /\ Keep

-----------------------------------------------------------------------------
(* Stopping.                                                               *)

\* Mutant: stop does not ask whether this process is the one that runs.
StopAnyway(p) ==
  /\ stage[p] \in {"running", "refused", "failed"}
  /\ Goto(p, "remove")
  /\ port' = port \ {p}
  /\ stray' = (stray \/ (kind = "watcher" /\ stage[p] # "running"))
  /\ UNCHANGED <<kind, pidFile, webhooks, plist, foreign, overlap>>

\* stop: the watcher only asks that it has not been stopped, the daemon that it runs.
Stop(p) ==
  /\ stage[p] \in {"running"} \cup IF kind = "watcher" THEN {"refused", "failed"} ELSE {}
  /\ Goto(p, "remove")
  /\ port' = port \ {p}
  /\ stray' = (stray \/ stage[p] # "running")
  /\ UNCHANGED <<kind, pidFile, webhooks, plist, foreign, overlap>>

\* The pid file goes, whoever wrote it, or has gone already.
Remove(p) ==
  /\ stage[p] = "remove"
  /\ pidFile' = {} /\ Goto(p, "stopped")
  /\ UNCHANGED <<port, plist>> /\ Keep

\* The process exits or is killed.
Die(p) ==
  /\ stage[p] \notin {"new", "dead"}
  /\ Goto(p, "dead")
  /\ port' = port \ {p}
  /\ UNCHANGED <<pidFile, plist>> /\ Keep

\* The system gives the pid of a dead process to another, which ends at last: to
\* one of anybody's, or to the very one that starts, which then refuses itself.
Reuse(p) ==
  /\ stage[p] = "dead"
  /\ foreign' = IF p \in foreign THEN foreign \ {p} ELSE foreign \cup {p}
  /\ UNCHANGED <<kind, pidFile, stage, port, webhooks, plist, overlap, stray>>

-----------------------------------------------------------------------------
(* oss-daemon: `start` is Launch.  `stop` runs in a process of its own,    *)
(* whose daemon does not run, and so changes nothing; `status`, `help` and *)
(* `version` show something; `install` and `uninstall` write and remove    *)
(* the property list.                                                      *)

Install == kind = "daemon" /\ plist' = TRUE

\* uninstall unloads the service, which ends the daemon launchd runs.
Uninstall ==
  /\ kind = "daemon" /\ plist
  /\ plist' = FALSE
  /\ stage' = [p \in Process |-> IF stage[p] = "running" THEN "dead" ELSE stage[p]]

Command ==
  /\ (Install /\ UNCHANGED stage) \/ Uninstall
  /\ UNCHANGED <<pidFile, port>> /\ Keep

Next ==
  \/ \E p \in Process :
       \/ Launch(p) \/ StartCheck(p) \/ Clean(p) \/ Unlink(p) \/ Truncate(p) \/ Write(p) \/ Listen(p)
       \/ Stop(p) \/ Remove(p) \/ Die(p) \/ Reuse(p)
  \/ Command

Spec == Init /\ [][Next]_vars

-----------------------------------------------------------------------------
(* Properties.                                                             *)

\* Where starts do not overlap, and no watcher is stopped that was refused, at
\* most one process runs and the pid file names it, whatever was killed before.
RunnerIsListed ==
  ~overlap /\ ~stray => \A p \in In({"listen", "running"}) :
                           pidFile = {p} /\ In({"listen", "running"}) = {p}
=============================================================================
