------------------------------- MODULE Webhook -------------------------------
(***************************************************************************)
(* The webhook receiver of the watcher (services/webhook-receiver.ts), its *)
(* configuration (config/webhook-config.ts) and the handler the watcher    *)
(* registers (initializeWebhookReceiver of index.ts).                      *)
(***************************************************************************)
EXTENDS Integers

CONSTANTS
  Window,     \* rateLimitWindowMs, in ticks
  MaxRequest, \* rateLimitMax
  MaxTime,    \* bound on the clock
  MaxSecret   \* bound on the secrets generated

VARIABLES
  clock,
  running, windowStart, requestCount, \* of the receiver; running holds its secret
  bodies,    \* requests let through whose body is still coming, by their secret
  accepted,  \* history: the requests let through from the start until each time
  queued,    \* history: the secrets of the requests that queued a task, each with
             \* the secret of the receiver then
  config,    \* config.json: {} not there or no JSON, else one record
  secrets,   \* secrets generated so far
  spoilt     \* history: config.json was unreadable when it was changed

receiver == <<running, windowStart, requestCount, bodies, accepted, queued>>
vars == <<clock, receiver, config, secrets, spoilt>>

NoSecret == 0
NoRequests == [t \in 0..MaxTime |-> 0]
OneMore == [t \in 0..MaxTime |-> IF t >= clock THEN accepted[t] + 1 ELSE accepted[t]]

Init ==
  /\ clock = 0 /\ running = {} /\ windowStart = 0 /\ requestCount = 0
  /\ bodies = {} /\ accepted = NoRequests /\ queued = {}
  /\ config \in {{}, {[enabled |-> FALSE, secret |-> NoSecret, others |-> TRUE]}}
  /\ secrets = 0 /\ spoilt = FALSE

Others == UNCHANGED <<config, secrets, spoilt>>

-----------------------------------------------------------------------------
(* WebhookConfig.                                                          *)

\* Mutant: every enable generates a secret.
EnableAnew ==
  /\ secrets < MaxSecret
  /\ secrets' = secrets + 1
  /\ config' = {[enabled |-> TRUE, secret |-> secrets + 1, others |-> \E c \in config : c.others]}
  /\ spoilt' = (spoilt \/ (config = {} /\ secrets > 0))
  /\ UNCHANGED <<clock, receiver>>

\* enable keeps the secret and what else the file holds, if it can be read.
Enable ==
  LET old == {c.secret : c \in config} \ {NoSecret}
  IN /\ secrets < MaxSecret
     /\ secrets' = IF old = {} THEN secrets + 1 ELSE secrets
     /\ config' = {[enabled |-> TRUE, secret |-> IF old = {} THEN secrets + 1 ELSE CHOOSE s \in old : TRUE,
                    others |-> \E c \in config : c.others]}
     /\ spoilt' = (spoilt \/ (config = {} /\ secrets > 0))
     /\ UNCHANGED <<clock, receiver>>

\* disable keeps them too, and does nothing where no webhook was configured.
Disable ==
  /\ \E c \in config : c.secret # NoSecret
  /\ config' = {[c EXCEPT !.enabled = FALSE] : c \in config}
  /\ UNCHANGED <<clock, receiver, secrets, spoilt>>

\* Another program truncates config.json, or dies before it has written it.
Spoil == config # {} /\ config' = {} /\ UNCHANGED <<clock, receiver, secrets, spoilt>>

-----------------------------------------------------------------------------
(* WebhookReceiver.                                                        *)

\* isConfigured; start begins a window.
Start ==
  /\ running = {}
  /\ \E c \in config : c.enabled /\ c.secret # NoSecret /\ running' = {c.secret}
  /\ windowStart' = clock /\ requestCount' = 0
  /\ accepted' = NoRequests /\ bodies' = {}
  /\ UNCHANGED <<clock, queued>> /\ Others

\* stop waits for the requests under way, and after five seconds ends them.
Stop ==
  /\ running # {}
  /\ running' = {} /\ bodies' = {}
  /\ UNCHANGED <<clock, windowStart, requestCount, accepted, queued>> /\ Others

\* Mutant: a window that ends is replaced by an older one.
RequestLate(s) ==
  LET new == clock - windowStart >= Window
      count == IF new THEN 0 ELSE requestCount
  IN /\ running # {}
     /\ windowStart' = IF new THEN windowStart + 1 ELSE windowStart
     /\ IF count >= MaxRequest
        THEN requestCount' = count /\ UNCHANGED <<accepted, bodies>>
        ELSE /\ requestCount' = count + 1
             /\ accepted' = OneMore
             /\ bodies' = bodies \cup {s}
     /\ UNCHANGED <<clock, running, queued>> /\ Others

\* checkRateLimit and the start of handleWebhook, for a request signed with s.
Request(s) ==
  LET new == clock - windowStart >= Window
      count == IF new THEN 0 ELSE requestCount
  IN /\ running # {}
     /\ windowStart' = IF new THEN clock ELSE windowStart
     /\ IF count >= MaxRequest
        THEN requestCount' = count /\ UNCHANGED <<accepted, bodies>>
        ELSE /\ requestCount' = count + 1
             /\ accepted' = OneMore
             /\ bodies' = bodies \cup {s}
     /\ UNCHANGED <<clock, running, queued>> /\ Others

\* Mutant: the signature is not looked at.
EndUnsigned(s, review) ==
  /\ running # {} /\ s \in bodies
  /\ queued' = IF review = "changes_requested" THEN queued \cup ({s} \X running) ELSE queued
  /\ bodies' = bodies \ {s}
  /\ UNCHANGED <<clock, running, windowStart, requestCount, accepted>> /\ Others

\* The body is complete: validateSignature, and the handler, which queues a task
\* for a review that requests changes; a body too large or broken ends here too.
End(s, review) ==
  /\ running # {} /\ s \in bodies
  /\ queued' = IF s \in running /\ review = "changes_requested" THEN queued \cup ({s} \X running) ELSE queued
  /\ bodies' = bodies \ {s}
  /\ UNCHANGED <<clock, running, windowStart, requestCount, accepted>> /\ Others

Tick == clock < MaxTime /\ clock' = clock + 1 /\ UNCHANGED receiver /\ Others

Next ==
  \/ Enable \/ Disable \/ Spoil \/ Start \/ Stop \/ Tick
  \/ \E s \in 0..MaxSecret :
       Request(s) \/ \E review \in {"changes_requested", "approved", "broken"} : End(s, review)

Spec == Init /\ [][Next]_vars

-----------------------------------------------------------------------------
(* Properties.                                                             *)

\* The comment of checkRateLimit: the counter resets at window boundaries, so up
\* to twice the limit may come through across one, and no more than that in any
\* stretch of time as long as a window.
BurstBounded ==
  LET before(t) == IF t = 0 THEN 0 ELSE accepted[t - 1]
  IN \A t, u \in 0..MaxTime : t <= u /\ u < t + Window => accepted[u] - before(t) <= 2 * MaxRequest

\* The secret GitHub holds stays the receiver's one through every enable and
\* disable, unless config.json could not be read when it was enabled: an older
\* secret is accepted by no receiver started later. Every task queued came from a
\* request signed with the secret of the receiver that was running.
SecretKept ==
  /\ secrets > 1 => spoilt
  /\ \A q \in queued : q[1] = q[2]
=============================================================================
