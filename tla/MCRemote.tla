-------------------------------- MODULE MCRemote --------------------------------
(***************************************************************************)
(* What works for pull requests and what stands between Claude Code and    *)
(* the models, for TLC.  The parts share no state that these               *)
(* specifications follow, so each behaviour is one of a single part: `part`*)
(* is chosen at the start, and the others keep an initial state.           *)
(* PRMonitor is extended, the others are instantiated beside it.           *)
(***************************************************************************)
EXTENDS PRMonitor

CONSTANTS
  Part,                                               \* the parts a run is about
  MaxRetries, MaxCommandFailures, MaxTask,            \* "task"
  Window, MaxRequest, LastTick, MaxSecret,            \* "webhook"
  Agent, Model, LastProxy,                            \* "proxy"
  Source, MaxEvent, MaxPing,                          \* "streams"
  Provider, MaxMessage, MaxCall,                      \* "messages"
  Command, Service, MaxChange,                        \* "models"
  LastQuestion, Waiter, MaxUpdate, MaxSettings        \* "telegram"

VARIABLE part

VARIABLES at, tree, staged, stash, committed, pushed, branch, stashed, step, target, attempt,
          escalated, found, commandFailures, failed, tasks
Task == INSTANCE PRTaskExecutor
  WITH MaxFailures <- MaxCommandFailures, failures <- commandFailures

VARIABLES clock, running, windowStart, requestCount, bodies, accepted, queuedBy, configFile, secrets,
          unreadable
Reviews == INSTANCE Webhook
  WITH MaxTime <- LastTick, queued <- queuedBy, spoilt <- unreadable, config <- configFile

ASSUME RateAssumption ==
  Window \in Nat \ {0} /\ MaxRequest \in Nat /\ LastTick \in Nat /\ MaxSecret \in Nat

VARIABLES conf, changed, stage, kind, loaded, port, pidFile, raced, kinds, client, asked, answer
Proxies == INSTANCE ModelProxy

\* No agent is the session, or the main loop, which sends no marker of an agent.
ASSUME ProxyAssumption ==
  Proxies!Router \notin Model /\ Agent \cap {Proxies!Session, "main"} = {}

VARIABLES stream, sent, timer, ended, input, fed, buffer, completed, out, spoilt
Events == INSTANCE Streams

VARIABLES provider, conv, calls, request, stop
Messages == INSTANCE MessageFormats
  WITH sent <- request

VARIABLES subject, user, project, command, cache, merged, pending, read, since, caught, resolved,
          given, lost, settings, copy, wanted, stale, changes
Models == INSTANCE ModelSettings
  WITH loaded <- merged, answer <- resolved

VARIABLES side, telegram, toggles, hook, screen, idFile, listenerFile, answerFile, listener, reader,
          api, reports, byHand, untold, left, updates, lastUpdate, wait, pressed, failedWaits,
          together
Chat == INSTANCE Telegram
  WITH MaxChange <- MaxSettings, settings <- telegram, changes <- toggles, pidFile <- listenerFile, failed <- failedWaits

ASSUME ChatAssumption == LastQuestion \in Nat

taskVars == <<at, tree, staged, stash, committed, pushed, branch, stashed, step, target, attempt,
              escalated, found, commandFailures, failed, tasks>>
reviewVars == <<clock, running, windowStart, requestCount, bodies, accepted, queuedBy, configFile,
                secrets, unreadable>>
proxyVars == <<conf, changed, stage, kind, loaded, port, pidFile, raced, kinds, client, asked, answer>>
eventVars == <<stream, sent, timer, ended, input, fed, buffer, completed, out, spoilt>>
messageVars == <<provider, conv, calls, request, stop>>
modelVars == <<subject, user, project, command, cache, merged, pending, read, since, caught,
               resolved, given, lost, settings, copy, wanted, stale, changes>>
chatVars == <<side, telegram, toggles, hook, screen, idFile, listenerFile, answerFile, listener,
              reader, api, reports, byHand, untold, left, updates, lastUpdate, wait, pressed,
              failedWaits, together>>
allVars == <<part, vars, taskVars, reviewVars, proxyVars, eventVars, messageVars, modelVars, chatVars>>

\* The state that a part keeps in the behaviours of another one.
Idle ==
  /\ part # "task" => at = CHOOSE b \in Task!Home : TRUE
  /\ part # "webhook" => configFile = {}
  /\ part # "proxy" => conf = CHOOSE c \in [agents : Proxies!Mapping, fallback : BOOLEAN] : TRUE
  /\ part # "streams" => stream = "client"
  /\ part # "messages" => provider = "openai"
  /\ part # "models" => subject = "commands"
  /\ part # "telegram" => side = "waits" /\ ~telegram.ready /\ ~telegram.on

SystemInit ==
  /\ part \in Part
  /\ Init /\ Task!Init /\ Reviews!Init /\ Proxies!Init /\ Events!Init /\ Messages!Init /\ Models!Init
  /\ Chat!Init
  /\ Idle

SystemNext ==
  /\ \/ part = "monitor" /\ Next
     \/ part = "task" /\ Task!Next
     \/ part = "webhook" /\ Reviews!Next
     \/ part = "proxy" /\ Proxies!Next
     \/ part = "streams" /\ Events!Next
     \/ part = "messages" /\ Messages!Next
     \/ part = "models" /\ Models!Next
     \/ part = "telegram" /\ Chat!Next
  /\ part = "monitor" \/ UNCHANGED vars
  /\ part = "task" \/ UNCHANGED taskVars
  /\ part = "webhook" \/ UNCHANGED reviewVars
  /\ part = "proxy" \/ UNCHANGED proxyVars
  /\ part = "streams" \/ UNCHANGED eventVars
  /\ part = "messages" \/ UNCHANGED messageVars
  /\ part = "models" \/ UNCHANGED modelVars
  /\ part = "telegram" \/ UNCHANGED chatVars
  /\ UNCHANGED part

\* Intervals tick and calls to GitHub end, as in PRMonitor.
SystemSpec ==
  /\ SystemInit /\ [][SystemNext]_allVars
  /\ \A t \in Timer : WF_vars(Tick(t)) /\ WF_vars(Fetched(t) \/ Replied(t))

--------------------------------------------------------------------------------
(* Properties.                                                                  *)

\* What the user has changed in tracked files is neither committed with a fix nor
\* lost, and a task of which no command failed leaves things as it found them.
WorkPreserved == Task!WorkPreserved

\* At most twice the limit of requests comes through in a window's time; GitHub's
\* secret stays the receiver's, and only requests signed with it queue tasks.
ReviewsAreSigned == Reviews!BurstBounded /\ Reviews!SecretKept

\* An answer comes from the model that is mapped or from Claude, and the proxy that
\* listens is named in the pid file.
AnsweredAsMapped == Proxies!AnsweredAsMapped /\ Proxies!ListenerIsNamed

\* The events come out whole and in order, and make one message for the client.
EventsInOrder == Events!InOrderWhole /\ Events!OneMessage

\* In every translated request the calls are answered in order and no text is lost.
MessagesKept == Messages!CallsAnswered /\ Messages!TextKept

\* A resolution follows from the configs since the cache was invalidated, and keys and
\* settings that were saved are there.
SettingsKept == Models!ResolvedSince /\ Models!KeysKept /\ Models!SettingsKept

\* An answer given in the terminal is told to the API once, of its own question, unless
\* the hook has nothing to tell or its call fails; and a button pressed in the chat
\* reaches the command that waits for it.
AnswersAreKept == Chat!AnswersAreTold /\ Chat!PressIsKept
================================================================================
