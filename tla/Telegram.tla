------------------------------- MODULE Telegram -------------------------------
(***************************************************************************)
(* Answers from Telegram.  Two ways, each a behaviour of its own:          *)
(*  - "questions": before Claude asks, a hook sends the question to the    *)
(*    API and leaves a listener behind, which types what Telegram answers  *)
(*    into the terminal; the hook after the answer tells the API and       *)
(*    clears ~/.oss/pending (hooks/oss-ask-telegram.sh,                    *)
(*    oss-ask-telegram-answered.sh, sse-telegram-listener.sh);             *)
(*  - "waits": telegram-notify --wait polls the bot for the button pressed *)
(*    under its message (cli/telegram-notify.ts, services/telegram.ts).    *)
(* Both depend on settings.json (cli/telegram-setup.ts, -toggle.ts).       *)
(***************************************************************************)
EXTENDS Integers, FiniteSets

CONSTANTS
  LastQuestion, \* bound on the questions asked
  Waiter,       \* messages that are waited for
  MaxUpdate,    \* bound on what happens in the chat
  MaxChange     \* bound on the changes of the settings

Question == 1..LastQuestion

VARIABLES
  side,      \* which of the two a behaviour is about
  settings,  \* the part of settings.json on Telegram
  changes,   \* how often it was changed
  hook,      \* the hook that runs: its step and its question
  screen,    \* the question the terminal shows, {} when none
  idFile,    \* current-question-id, {} when there is none
  pidFile,   \* sse-listener.pid: the listener, by its question
  answerFile,\* telegram-answer.json: the question that was answered
  listener,  \* the main process of each listener
  reader,    \* the loop of each listener, a process of its own
  api,       \* what the API knows of each question
  reports,   \* answers on their way to the API: its question, the one answered
  byHand,    \* history: questions answered in the terminal while Telegram was on
  untold,    \* history: those of them whose answer was not told, or the call failed
  left,      \* history: questions of which something outlived their end
  updates,   \* what the bot's server holds: its number, the message pressed
  lastUpdate,\* the highest number so far
  wait,      \* each waiter: its stage, lastUpdateId and the batch it works on
  pressed,   \* history: the messages with a press
  failed,    \* history: waiters that failed with a press since they had read it
  together   \* history: two messages were waited for at a time

files == <<idFile, pidFile, answerFile>>
listeners == <<listener, reader>>
questions == <<hook, screen, files, listeners, api, reports, byHand, untold, left>>
waits == <<updates, lastUpdate, wait, pressed, failed, together>>
vars == <<side, settings, changes, questions, waits>>

NoHook == [step |-> "none", q |-> 0]
New == [stage |-> "new", last |-> 0, batch |-> {}]

Init ==
  /\ side \in {"questions", "waits"}
  /\ settings \in [ready : BOOLEAN, on : BOOLEAN] /\ changes = 0
  /\ hook = NoHook /\ screen = {} /\ idFile = {} /\ pidFile = {} /\ answerFile = {}
  /\ listener = [q \in Question |-> "none"] /\ reader = [q \in Question |-> "none"]
  /\ api = [q \in Question |-> "none"] /\ reports = {} /\ byHand = {} /\ untold = {} /\ left = {}
  /\ updates = {} /\ lastUpdate = 0 /\ wait = [w \in Waiter |-> New]
  /\ pressed = {} /\ failed = {} /\ together = FALSE

-----------------------------------------------------------------------------
(* Settings.                                                               *)

\* setupTelegram, when the token and the chat are found: it switches off, too.
SetupTelegram == settings' = [ready |-> TRUE, on |-> FALSE]

\* "on" needs a token and a chat, "off" nothing.
ToggleTelegram ==
  \/ settings.ready /\ settings' = [settings EXCEPT !.on = TRUE]
  \/ settings' = [settings EXCEPT !.on = FALSE]

Configure ==
  /\ changes < MaxChange /\ changes' = changes + 1
  /\ SetupTelegram \/ ToggleTelegram
  /\ settings' # settings
  /\ UNCHANGED <<side, questions, waits>>

-----------------------------------------------------------------------------
(* oss-ask-telegram.sh: steps of the hook before a question.               *)

Goto(step) == hook' = [hook EXCEPT !.step = step]
Shows == hook' = NoHook /\ screen' = {hook.q}

\* Claude asks the next question.  The hook passes it over when Telegram is off, there is
\* no key or no question in its input, or jq fails.
Ask ==
  /\ hook = NoHook /\ screen = {}
  /\ \E q \in Question :
       /\ \A p \in Question : p < q <=> api[p] # "none"
       /\ \E step \in {"skip"} \cup IF settings.on THEN {"store"} ELSE {} :
            hook' = [step |-> step, q |-> q]
  /\ UNCHANGED <<screen, files, listeners, api, reports, byHand, untold, left>>

\* The API never hears of the question; the id of one that was dismissed stays.
Skip ==
  /\ hook.step = "skip" /\ Shows
  /\ api' = [api EXCEPT ![hook.q] = "unknown"]
  /\ left' = left \cup idFile
  /\ UNCHANGED <<files, listeners, reports, byHand, untold>>

Store ==
  /\ hook.step = "store" /\ Goto("send")
  /\ idFile' = {hook.q}
  \* The listener of an earlier question is killed.
  /\ listener' = [q \in Question |-> IF q \in pidFile /\ listener[q] = "runs" THEN "killed" ELSE listener[q]]
  /\ pidFile' = {}
  /\ UNCHANGED <<screen, answerFile, reader, api, reports, byHand, untold, left>>

\* The API takes the question, and the hook may not hear of it; a listener is
\* started when it does.
Send ==
  /\ hook.step = "send"
  /\ \E state \in {"open", "unknown"}, heard \in BOOLEAN :
       /\ heard => state = "open"
       /\ api' = [api EXCEPT ![hook.q] = state]
       /\ IF heard
          THEN /\ Goto("name") /\ UNCHANGED screen
               /\ listener' = [listener EXCEPT ![hook.q] = "runs"]
               /\ reader' = [reader EXCEPT ![hook.q] = "reads"]
          ELSE Shows /\ UNCHANGED listeners
  /\ UNCHANGED <<files, reports, byHand, untold, left>>

NameListener ==
  /\ hook.step = "name" /\ Shows
  /\ pidFile' = {hook.q}
  /\ UNCHANGED <<idFile, answerFile, listeners, api, reports, byHand, untold, left>>

-----------------------------------------------------------------------------
(* sse-telegram-listener.sh.  A signal ends its main process only: the     *)
(* loop that reads the events is a process of its own and goes on.         *)

\* The API announces the answer of a question, whoever gave it.
Receive(q) ==
  /\ reader[q] = "reads" /\ api[q] \in {"telegram", "terminal"}
  /\ reader' = [reader EXCEPT ![q] = "writes"]
  /\ UNCHANGED <<hook, screen, files, listener, api, reports, byHand, untold, left>>

\* processAnswer writes the file,
WriteAnswer(q) ==
  /\ reader[q] = "writes"
  /\ reader' = [reader EXCEPT ![q] = "types"]
  /\ answerFile' = {q}
  /\ left' = IF q \in screen \cup {hook.q} THEN left ELSE left \cup {q}
  /\ UNCHANGED <<hook, screen, idFile, pidFile, listener, api, reports, byHand, untold>>

\* and types the answer: whatever question the terminal shows then is answered.
Inject(q) ==
  /\ reader[q] = "types"
  /\ reader' = [reader EXCEPT ![q] = "ended"]
  /\ IF screen = {} THEN UNCHANGED <<hook, screen>>
     ELSE hook' = [step |-> "answered", q |-> CHOOSE p \in screen : TRUE] /\ screen' = {}
  /\ UNCHANGED <<files, listener, api, reports, byHand, untold, left>>

\* The connection times out, or ends.
Close(q) ==
  /\ reader[q] = "reads"
  /\ reader' = [reader EXCEPT ![q] = "ended"]
  /\ UNCHANGED <<hook, screen, files, listener, api, reports, byHand, untold, left>>

\* The trap of the main process removes the pid file, whoever is named in it: when
\* the loop and the connection have ended, or after a signal.
Cleanup(q) ==
  /\ listener[q] = "killed" \/ (listener[q] = "runs" /\ reader[q] = "ended")
  /\ listener' = [listener EXCEPT ![q] = "ended"]
  /\ pidFile' = {}
  /\ UNCHANGED <<hook, screen, idFile, answerFile, reader, api, reports, byHand, untold, left>>

\* The user answers in the chat.
AnswerInChat(q) ==
  /\ api[q] = "open"
  /\ api' = [api EXCEPT ![q] = "telegram"]
  /\ UNCHANGED <<hook, screen, files, listeners, reports, byHand, untold, left>>

-----------------------------------------------------------------------------
(* oss-ask-telegram-answered.sh: the hook after an answer.                 *)

\* The user answers in the terminal.
AnswerInTerminal ==
  /\ screen # {} /\ screen' = {}
  /\ hook' = [step |-> "answered", q |-> CHOOSE q \in screen : TRUE]
  /\ UNCHANGED <<files, listeners, api, reports, byHand, untold, left>>

\* The user dismisses the question: no hook runs, and the listener and the files stay.
Dismiss ==
  /\ screen # {} /\ screen' = {}
  /\ left' = left \cup answerFile
  /\ UNCHANGED <<hook, files, listeners, api, reports, byHand, untold>>

\* Mutant: the answer of Telegram stays.
CleanupKeepsAnswer ==
  /\ listener' = [q \in Question |-> IF q \in pidFile /\ listener[q] = "runs" THEN "killed" ELSE listener[q]]
  /\ pidFile' = {} /\ idFile' = {} /\ UNCHANGED answerFile

CleanupPending ==
  /\ listener' = [q \in Question |-> IF q \in pidFile /\ listener[q] = "runs" THEN "killed" ELSE listener[q]]
  /\ pidFile' = {} /\ idFile' = {} /\ answerFile' = {}

Answered ==
  /\ hook.step = "answered" /\ hook' = NoHook
  /\ UNCHANGED <<screen, reader, api>>
  /\ \/ ~settings.on
        /\ left' = left \cup {hook.q}
        /\ UNCHANGED <<reports, byHand, untold, files, listener>>
     \/ /\ settings.on /\ byHand' = byHand \cup {hook.q}
        /\ \/ /\ reports' = IF answerFile = {} THEN reports \cup (idFile \X {hook.q}) ELSE reports
              /\ CleanupPending /\ UNCHANGED <<untold, left>>
           \* No key, or no answer in its input.
           \/ /\ untold' = untold \cup {hook.q}
              /\ CleanupPending /\ UNCHANGED <<reports, left>>
           \* jq fails, and the hook ends there.
           \/ /\ untold' = untold \cup {hook.q} /\ left' = left \cup {hook.q}
              /\ UNCHANGED <<reports, files, listener>>

\* The API hears the terminal's answer, and takes the first one it hears; or the call
\* fails, which nobody notices.
Report(r) ==
  /\ r \in reports
  /\ reports' = reports \ {r}
  /\ \/ /\ api' = [api EXCEPT ![r[1]] = IF @ = "open" THEN "terminal" ELSE @]
        /\ UNCHANGED untold
     \/ untold' = untold \cup {r[2]} /\ UNCHANGED api
  /\ UNCHANGED <<hook, screen, files, listeners, byHand, left>>

-----------------------------------------------------------------------------
(* telegram-notify --wait.                                                 *)

Busy(w) == wait[w].stage \in {"polls", "works"}
IsOn == settings.ready /\ settings.on
Ends(w, stage) == wait' = [wait EXCEPT ![w].stage = stage]

\* A message with buttons; without a token or switched off it is not sent.
SendMessage(w) ==
  /\ wait[w].stage = "new"
  /\ Ends(w, IF IsOn THEN "sent" ELSE "over")
  /\ together' = (together \/ \E v \in Waiter : IsOn /\ (Busy(v) \/ wait[v].stage = "sent"))
  /\ UNCHANGED <<updates, lastUpdate, pressed, failed>>

\* The settings are read again when the wait begins.
WaitForCallback(w) ==
  /\ wait[w].stage = "sent"
  /\ Ends(w, IF IsOn THEN "polls" ELSE "over")
  /\ UNCHANGED <<updates, lastUpdate, pressed, failed, together>>

\* A button is pressed under a message that has them, or something else is written.
Happen(m) ==
  /\ lastUpdate < MaxUpdate /\ lastUpdate' = lastUpdate + 1
  /\ m \in Waiter => wait[m].stage \notin {"new", "over"}
  /\ updates' = updates \cup {[id |-> lastUpdate + 1, of |-> m]}
  /\ pressed' = pressed \cup ({m} \cap Waiter) /\ failed' = failed \ {m}
  /\ UNCHANGED <<wait, together>>

\* Mutant: one more is passed over than was seen.
PollPastNext(w) ==
  /\ wait[w].stage = "polls"
  /\ updates' = {u \in updates : u.id >= wait[w].last + 2}
  /\ wait' = [wait EXCEPT ![w].batch = updates', ![w].stage = "works"]
  /\ UNCHANGED <<lastUpdate, pressed, failed, together>>

\* getUpdates with offset lastUpdateId + 1, which the server takes for the word
\* that all before it is done with.
Poll(w) ==
  /\ wait[w].stage = "polls"
  /\ updates' = {u \in updates : u.id >= wait[w].last + 1}
  /\ wait' = [wait EXCEPT ![w].batch = updates', ![w].stage = "works"]
  /\ UNCHANGED <<lastUpdate, pressed, failed, together>>

\* The batch up to the first press of its own, which is acknowledged and returned;
\* a call of these that fails is ignored, and lastUpdateId is past the press.
Work(w) ==
  LET b == wait[w].batch
      own == {u.id : u \in {v \in b : v.of = w}}
      first == CHOOSE i \in own : \A j \in own : i <= j
      highest(ids) == CHOOSE i \in ids : \A j \in ids : j <= i
      seen == {wait[w].last} \cup {u.id : u \in {v \in b : own = {} \/ v.id <= first}}
  IN /\ wait[w].stage = "works"
     /\ \E ok \in BOOLEAN :
          /\ own = {} => ok
          /\ wait' = [wait EXCEPT ![w] = [stage |-> IF own # {} /\ ok THEN "done" ELSE "polls",
                                          last |-> highest(seen), batch |-> {}]]
          /\ failed' = IF ok THEN failed ELSE failed \cup {w}
     /\ UNCHANGED <<updates, lastUpdate, pressed, together>>

\* timeoutMs has passed, or the process is killed.
GiveUp(w) == Busy(w) /\ Ends(w, "over") /\ UNCHANGED <<updates, lastUpdate, pressed, failed, together>>

-----------------------------------------------------------------------------
Next ==
  \/ Configure
  \/ /\ side = "questions"
     /\ \/ Ask \/ Skip \/ Store \/ Send \/ NameListener \/ AnswerInTerminal \/ Dismiss \/ Answered
        \/ \E q \in Question :
             Receive(q) \/ WriteAnswer(q) \/ Inject(q) \/ Close(q) \/ Cleanup(q) \/ AnswerInChat(q)
        \/ \E r \in reports : Report(r)
     /\ UNCHANGED <<side, settings, changes, waits>>
  \/ /\ side = "waits"
     /\ \/ \E w \in Waiter : SendMessage(w) \/ WaitForCallback(w) \/ Poll(w) \/ Work(w) \/ GiveUp(w)
        \/ \E m \in Waiter \cup {"chat"} : Happen(m)
     /\ UNCHANGED <<side, settings, changes, questions>>

Spec == Init /\ [][Next]_vars

-----------------------------------------------------------------------------
(* Properties.                                                             *)

\* oss-ask-telegram-answered.sh: a question answered in the terminal that is still open
\* in the chat is one whose answer is on its way, or whose hook had nothing to tell it
\* with, or whose one call failed; and each answer is told of its own question.  Where a
\* listener, a dismissed question or a hook that ended early has left something of an
\* earlier question behind, neither need hold.
AnswersAreTold ==
  left = {} =>
    /\ \A q \in byHand \ untold : api[q] = "open" => \E r \in reports : r[1] = q
    /\ \A r \in reports : r[1] = r[2]

\* Where one message is waited for at a time, a press under its message is on the server, in
\* the batch it works on, or was lost to a call that failed after it was read.
PressIsKept ==
  ~together =>
    \A w \in pressed : Busy(w) =>
      \/ w \in failed
      \/ \E u \in updates \cup wait[w].batch : u.of = w /\ u.id > wait[w].last
=============================================================================
