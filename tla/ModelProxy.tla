----------------------------- MODULE ModelProxy -----------------------------
(***************************************************************************)
(* The model proxies and who they answer: proxies started by hand or by a  *)
(* client (cli/start-proxy.ts), their server (services/model-proxy.ts,     *)
(* proxy-router.ts, agent-route-resolver.ts), agents that offload their    *)
(* work (cli/agent-model-check.ts, cli/agent-offload.ts) and the session   *)
(* that oss-launch starts (cli/oss-launch.ts).  All of them use one port,  *)
(* and take whatever answers there for the proxy they need.                *)
(***************************************************************************)
EXTENDS Naturals, FiniteSets

CONSTANTS
  Agent, Model,  \* agents and local models
  LastProxy      \* bound on the proxies started

Proxy == 1..LastProxy
Router == "router"
Mapping == [Agent -> Model \cup {"claude", "none"}]

VARIABLES
  conf,     \* config.json: the mapping of the agents and whether to fall back
  changed,  \* history: conf was changed while a proxy or client was at work
  stage,    \* of each proxy
  kind,     \* its model, or Router
  loaded,   \* the config a router has loaded, {} before
  port,     \* the proxy that listens, {} when none does
  pidFile,  \* the proxy named in proxy.pid
  raced,    \* history: a proxy was started while another one was there
  kinds,    \* history: the kinds of the proxies that were started or asked for
  client,   \* each agent that offloads, and the session: a stage and a model
  asked,    \* requests under way: who asks whom, for whom
  answer    \* what a client was just answered, {} in other states

proxies == <<stage, kind, loaded, port, pidFile, raced>>
vars == <<conf, changed, proxies, kinds, client, asked, answer>>

Session == "session"
Client == Agent \cup {Session}
Idle == [stage |-> "idle", model |-> "none"]
HasAgents == \E a \in Agent : conf.agents[a] # "none"

Init ==
  /\ conf \in [agents : Mapping, fallback : BOOLEAN] /\ changed = FALSE
  /\ stage = [p \in Proxy |-> "new"] /\ kind = [p \in Proxy |-> "none"]
  /\ loaded = [p \in Proxy |-> {}]
  /\ port = {} /\ pidFile = {} /\ raced = FALSE /\ kinds = {}
  /\ client = [c \in Client |-> Idle] /\ asked = {} /\ answer = {}

-----------------------------------------------------------------------------
(* start-proxy.                                                            *)

Fresh(p) == stage[p] = "new" /\ \A q \in Proxy : q < p => stage[q] # "new"

\* A process is started; startProxyBackground names it in the pid file at once.
Spawn(p, k, background) ==
  /\ Fresh(p)
  /\ stage' = [stage EXCEPT ![p] = "binding"] /\ kind' = [kind EXCEPT ![p] = k]
  /\ pidFile' = IF background THEN {p} ELSE pidFile
  /\ raced' = (raced \/ \E q \in Proxy : stage[q] \in {"binding", "bound", "up", "closing"})
  /\ kinds' = kinds \cup {k}
  /\ UNCHANGED <<loaded, port>>

\* main: by hand, in the foreground or not.
Main(p) ==
  /\ \E k \in Model \cup {Router}, background \in BOOLEAN : Spawn(p, k, background)
  /\ UNCHANGED <<conf, changed, client, asked>>

Listen(p) == port = {} /\ port' = {p}

\* startProxy, startRouterProxy: a port in use ends the process.  One that is bound
\* is found by whoever probes the port, before the process is named in the pid file.
Bind(p) ==
  /\ stage[p] = "binding"
  /\ IF port # {}
     THEN stage' = [stage EXCEPT ![p] = "dead"] /\ UNCHANGED <<loaded, port>>
     ELSE /\ stage' = [stage EXCEPT ![p] = "bound"]
          /\ loaded' = [loaded EXCEPT ![p] = IF kind[p] = Router THEN {conf} ELSE {}]
          /\ Listen(p)
  /\ UNCHANGED <<conf, changed, kind, kinds, pidFile, raced, client, asked>>

\* main then handles signals, and writes the pid file.
Name(p) ==
  /\ stage[p] = "bound"
  /\ stage' = [stage EXCEPT ![p] = "up"] /\ pidFile' = {p}
  /\ UNCHANGED <<conf, changed, kind, kinds, loaded, port, raced, client, asked>>

\* Mutant: the pid file goes first.
ShutdownLate(p) ==
  /\ stage[p] = "up"
  /\ stage' = [stage EXCEPT ![p] = "closing"]
  /\ asked' = {r \in asked : r.at # p}
  /\ pidFile' = {}
  /\ UNCHANGED <<conf, changed, kind, kinds, loaded, port, raced, client>>

\* SIGTERM: shutdown destroys the connections and closes the server,
Shutdown(p) ==
  /\ stage[p] = "up"
  /\ stage' = [stage EXCEPT ![p] = "closing"]
  /\ asked' = {r \in asked : r.at # p}
  /\ port' = {}
  /\ UNCHANGED <<conf, changed, kind, kinds, loaded, pidFile, raced, client>>

\* and the handler of the signal then removes the pid file, whoever is named in it.
Cleanup(p) ==
  /\ stage[p] = "closing"
  /\ stage' = [stage EXCEPT ![p] = "dead"]
  /\ port' = port \ {p} /\ pidFile' = {}
  /\ UNCHANGED <<conf, changed, kind, kinds, loaded, raced, client, asked>>

\* The process dies, by a signal before it handles any or by an error.
Crash(p) ==
  /\ stage[p] \in {"binding", "bound", "up", "closing"}
  /\ stage' = [stage EXCEPT ![p] = "dead"]
  /\ port' = port \ {p} /\ asked' = {r \in asked : r.at # p}
  /\ UNCHANGED <<conf, changed, kind, kinds, loaded, pidFile, raced, client>>

-----------------------------------------------------------------------------
(* ModelProxy: answers.                                                    *)

\* Mutant: an agent without a marker is taken for any that is mapped.
RouteAny(c, who) ==
  LET mapped == {c.agents[a] : a \in Agent} \cap Model
  IN IF mapped = {} THEN "claude" ELSE CHOOSE m \in mapped : TRUE

\* resolveRoute: the mapping of the agent whose marker the request carries.
Route(c, who) ==
  IF who \in Agent /\ c.agents[who] \in Model THEN c.agents[who] ELSE "claude"

\* routeMessages: falls back, and passes through what it has no model for.
RouteMessages(c, r) ==
  LET m == Route(c, r.who)
  IN IF m = "claude" THEN {IF r.key THEN "claude" ELSE "error", "error"}
     ELSE {m, "error"} \cup IF c.fallback /\ r.key THEN {"claude"} ELSE {}

\* handleMessagesRequest: a proxy of one model answers with it, whatever is asked for.
ModelMessages(p) == {kind[p], "error"}

\* handleRouterMessages, with the config loaded at the start.
RouterMessages(p, r) == UNION {RouteMessages(c, r) : c \in loaded[p]}

\* handleRequest, for POST /v1/messages.
Answers(p, r) == IF kind[p] = Router THEN RouterMessages(p, r) ELSE ModelMessages(p)

Enter(c, result) == [client EXCEPT ![c].stage = result]

\* A client asks for `who`; an offloaded agent carries no marker and no key.
Ask(c, who) ==
  /\ client[c].stage = "run" /\ ~\E r \in asked : r.client = c
  /\ IF port = {}
     THEN /\ client' = IF c = Session THEN client ELSE Enter(c, "fallback")
          /\ UNCHANGED asked
     ELSE /\ asked' = asked \cup {[client |-> c, who |-> IF c = Session THEN who ELSE "main",
                                   key |-> c = Session, at |-> CHOOSE p \in port : TRUE]}
          /\ client' = IF c = Session THEN client ELSE Enter(c, "asked")
  /\ UNCHANGED <<conf, changed, proxies, kinds>>

\* The mapping that the answer of r is due to.
Wanted(r) ==
  IF r.client # Session THEN client[r.client].model
  ELSE IF r.who \in {a \in Agent : conf.agents[a] \in Model} THEN conf.agents[r.who] ELSE "claude"

\* classifyResult: without output, or with an error, the agent falls back.
Answer(r, got) ==
  /\ r \in asked /\ stage[r.at] = "up" /\ got \in Answers(r.at, r)
  /\ asked' = asked \ {r}
  /\ client' = IF r.client = Session THEN client
               ELSE Enter(r.client, IF got = "error" THEN "fallback" ELSE "done")
  /\ answer' = {[want |-> Wanted(r), got |-> got]}
  /\ UNCHANGED <<conf, changed, proxies, kinds>>

\* The connection of an offloaded agent is cut with its proxy.
Lost(c) ==
  /\ client[c].stage = "asked" /\ ~\E r \in asked : r.client = c
  /\ client' = Enter(c, "fallback")
  /\ UNCHANGED <<conf, changed, proxies, kinds, asked>>

-----------------------------------------------------------------------------
(* Clients: an agent that offloads in a plain session, and oss-launch.     *)

Begin(c, local, model) ==
  /\ client[c].stage = "idle"
  /\ client' = [client EXCEPT ![c] = [stage |-> IF local THEN "probe" ELSE "native", model |-> model]]
  /\ kinds' = IF local THEN kinds \cup {model} ELSE kinds
  /\ UNCHANGED <<conf, changed, proxies, asked>>

\* checkAgentModel, and oss-launch.
BeginAgent(a) == Begin(a, conf.agents[a] \in Model, conf.agents[a])
BeginSession == Begin(Session, HasAgents, Router)

\* isProxyReachable and healthCheck ask whether anything answers; where nothing
\* does, a proxy is started, by oss-launch in the background.
Probe(c) ==
  /\ client[c].stage = "probe"
  /\ IF port # {}
     THEN client' = Enter(c, "run") /\ UNCHANGED <<proxies, kinds>>
     ELSE /\ client' = Enter(c, "wait")
          /\ \E p \in Proxy : Spawn(p, client[c].model, c = Session)
  /\ UNCHANGED <<conf, changed, asked>>

Poll(c) ==
  /\ client[c].stage = "wait" /\ port # {}
  /\ client' = Enter(c, "run")
  /\ UNCHANGED <<conf, changed, proxies, kinds, asked>>

\* The attempts are used up: the agent falls back, the launcher fails.
GiveUp(c) ==
  /\ client[c].stage = "wait" /\ port = {}
  /\ client' = Enter(c, IF c = Session THEN "failed" ELSE "fallback")
  /\ UNCHANGED <<conf, changed, proxies, kinds, asked>>

\* The agent or the session has ended, and another begins.
Again(c) ==
  /\ client[c].stage \notin {"idle", "asked", "probe", "wait"} /\ ~\E r \in asked : r.client = c
  /\ client' = [client EXCEPT ![c] = Idle]
  /\ UNCHANGED <<conf, changed, proxies, kinds, asked>>

\* /oss:models set, once.
SetModel(a, m) ==
  /\ conf.agents[a] # m /\ ~changed
  /\ conf' = [conf EXCEPT !.agents[a] = m] /\ changed' = TRUE
  /\ UNCHANGED <<proxies, kinds, client, asked>>

Others ==
  \/ \E p \in Proxy : Main(p) \/ Bind(p) \/ Name(p) \/ Shutdown(p) \/ Cleanup(p) \/ Crash(p)
  \/ \E c \in Client :
       \/ Probe(c) \/ Poll(c) \/ GiveUp(c) \/ Lost(c) \/ Again(c)
       \/ \E who \in Agent \cup {"main"} : (c = Session \/ who = c) /\ Ask(c, who)
  \/ BeginSession
  \/ \E a \in Agent : BeginAgent(a) \/ \E m \in Model \cup {"claude"} : SetModel(a, m)

Next ==
  \/ Others /\ answer' = {}
  \/ \E r \in asked : \E got \in Model \cup {"claude", "error"} : Answer(r, got)

Spec == Init /\ [][Next]_vars

-----------------------------------------------------------------------------
(* Properties.                                                             *)

\* Where every proxy and every client is of one kind, and the mapping has not
\* changed, an answer comes from the model that is mapped or from Claude, whoever
\* died, failed or took the port in between.
AnsweredAsMapped ==
  ~changed /\ Cardinality(kinds) <= 1 =>
    \A a \in answer : a.got \in {a.want, "claude", "error"}

\* Where proxies are started one after the other, the one that listens is named in the
\* pid file, which is how it is stopped, from when it was named until it listens no more.
ListenerIsNamed == ~raced => \A p \in port : stage[p] # "bound" => p \in pidFile
=============================================================================
