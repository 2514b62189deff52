---------------------------- MODULE MessageFormats ----------------------------
(***************************************************************************)
(* A conversation with tools through the model proxy, translated to and    *)
(* from the format of a provider: api-transformer.ts with                  *)
(* handlers/openrouter-handler.ts, handlers/ollama-handler.ts and          *)
(* gemini-transformer.ts.  The client keeps the conversation in the format *)
(* of Anthropic and sends all of it every time.                            *)
(***************************************************************************)
EXTENDS Integers, SequencesExt

CONSTANTS Provider, MaxMessage, MaxCall

VARIABLES
  provider, \* to whom the proxy translates
  conv,     \* the conversation of the client: messages of blocks
  calls,    \* tool calls made so far, which number them
  sent,     \* the last translated request, <<>> when an answer was the last
  stop      \* the stop reason of the last answer, or "error"
vars == <<provider, conv, calls, sent, stop>>

Text == [type |-> "text", call |-> 0]
Use(n) == [type |-> "tool_use", call |-> n]
Result(n) == [type |-> "tool_result", call |-> n]
OfType(blocks, type) ==
  FlattenSeq([i \in 1..Len(blocks) |-> IF blocks[i].type = type THEN <<blocks[i]>> ELSE <<>>])

\* A message: its texts, the calls it makes and those it answers, by their place in
\* the conversation, and the ids that go out with them.  OpenAI's format has an id in
\* both; Ollama's calls and results have none; Gemini's call has its function's name
\* only, and what its result has for a name is the id of the call.
Message(role, text, uses, answers) ==
  [role |-> role, text |-> text, uses |-> uses, answers |-> answers,
   callIds |-> IF provider = "openai" THEN uses ELSE <<>>,
   resultIds |-> IF provider = "ollama" THEN <<>> ELSE answers]
Calls(blocks) == [i \in 1..Len(blocks) |-> blocks[i].call]

Init ==
  /\ provider \in Provider /\ conv = <<>> /\ calls = 0 /\ sent = <<>> /\ stop = "end_turn"

-----------------------------------------------------------------------------
(* Requests.                                                               *)

Texts(m) == OfType(m.blocks, "text")

\* Mutant: results are sent last to first.
ToolMessagesReversed(m) ==
  LET results == Calls(OfType(m.blocks, "tool_result"))
  IN [i \in 1..Len(results) |-> Message("tool", <<>>, <<>>, <<results[Len(results) + 1 - i]>>)]

\* A message per result.
ToolMessages(m) ==
  LET results == Calls(OfType(m.blocks, "tool_result"))
  IN [i \in 1..Len(results) |-> Message("tool", <<>>, <<>>, <<results[i]>>)]

\* transformMessageToOpenAI: where there are results, the rest is dropped.
ToOpenAI(m) ==
  IF ToolMessages(m) # <<>> THEN ToolMessages(m)
  ELSE <<Message(m.role, Texts(m), Calls(OfType(m.blocks, "tool_use")), <<>>)>>

\* transformToOllama: calls of the assistant, or results and then the text.
ToOllama(m) ==
  LET uses == Calls(OfType(m.blocks, "tool_use"))
  IN IF m.role = "assistant" /\ uses # <<>> THEN <<Message("assistant", Texts(m), uses, <<>>)>>
     ELSE IF ToolMessages(m) # <<>>
     THEN ToolMessages(m) \o IF Texts(m) # <<>> THEN <<Message(m.role, Texts(m), <<>>, <<>>)>> ELSE <<>>
     ELSE <<Message(m.role, Texts(m), <<>>, <<>>)>>

\* transformMessageToGemini: part by part.
ToGemini(m) ==
  <<Message(IF m.role = "assistant" THEN "model" ELSE "user", Texts(m),
            Calls(OfType(m.blocks, "tool_use")), Calls(OfType(m.blocks, "tool_result")))>>

Translate(m) ==
  CASE provider = "openai" -> ToOpenAI(m) [] provider = "ollama" -> ToOllama(m) [] OTHER -> ToGemini(m)
Request(c) == FlattenSeq([i \in 1..Len(c) |-> Translate(c[i])])

-----------------------------------------------------------------------------
(* Responses.                                                              *)

\* Mutant: text hides the calls.
ContentTextOnly(text, n) ==
  IF text THEN <<Text>> ELSE [i \in 1..n |-> Use(calls + i)]

\* transformFromOpenAI, transformFromOllama, transformFromGemini: the text, then
\* the calls; only Ollama's answer is never empty.
Content(text, n) ==
  LET given == (IF text THEN <<Text>> ELSE <<>>) \o [i \in 1..n |-> Use(calls + i)]
  IN IF given = <<>> /\ provider = "ollama" THEN <<Text>> ELSE given

\* The stop reason: of OpenAI and Gemini by their finish reason.
StopReason(n, finish) ==
  IF provider = "ollama" THEN IF n > 0 THEN "tool_use" ELSE "end_turn"
  ELSE CASE finish = "length" -> "max_tokens"
         [] finish = "tool_calls" -> IF provider = "openai" THEN "tool_use" ELSE "end_turn"
         [] OTHER -> "end_turn"

\* What the client makes of an answer: it adds it to the conversation.  Arguments
\* that are no JSON are an error with OpenAI, and no arguments with Ollama.
Answer(text, n, broken) ==
  /\ sent # <<>> /\ Len(conv) < MaxMessage /\ calls + n <= MaxCall
  /\ sent' = <<>>
  /\ IF broken /\ n > 0 /\ provider = "openai"
     THEN stop' = "error" /\ UNCHANGED <<conv, calls>>
     ELSE /\ \E finish \in IF n > 0 THEN {"tool_calls"} ELSE {"stop", "length"} :
               stop' = StopReason(n, finish)
          /\ conv' = Append(conv, [role |-> "assistant", blocks |-> Content(text, n)])
          /\ calls' = calls + n
  /\ UNCHANGED provider

\* The provider cannot be reached, or answers with a status of 400 or more.
Refuse ==
  /\ sent # <<>> /\ sent' = <<>> /\ stop' = "error" /\ UNCHANGED <<provider, conv, calls>>

\* The client: the results of the last message's calls, with or without a text.
Say(text) ==
  LET last == IF conv = <<>> THEN <<>> ELSE OfType(Last(conv).blocks, "tool_use")
      results == [i \in 1..Len(last) |-> Result(last[i].call)]
      blocks == results \o IF text \/ results = <<>> THEN <<Text>> ELSE <<>>
      next == IF conv # <<>> /\ Last(conv).role = "user" THEN conv
              ELSE Append(conv, [role |-> "user", blocks |-> blocks])
  IN /\ sent = <<>> /\ Len(next) <= MaxMessage
     /\ conv' = next /\ sent' = Request(next)
     /\ UNCHANGED <<provider, calls, stop>>

Next ==
  \/ \E text \in BOOLEAN :
       Say(text) \/ \E n \in 0..2, broken \in BOOLEAN : Answer(text, n, broken)
  \/ Refuse

Spec == Init /\ [][Next]_vars

-----------------------------------------------------------------------------
(* Properties.                                                             *)

\* In every request the calls are answered once each and in their order, after
\* the message that makes them, whatever was refused and sent again before.  To a
\* model of OpenRouter each result also names its call by the id the call was sent
\* with; to one of Ollama or Gemini nothing but that order tells which call a result
\* belongs to.
CallsAnswered ==
  LET uses == FlattenSeq([i \in 1..Len(sent) |-> sent[i].uses])
      answers == FlattenSeq([i \in 1..Len(sent) |-> sent[i].answers])
      named(i, j, k) == k \in ToSet(sent[i].resultIds) /\ k \in ToSet(sent[j].callIds)
  IN sent # <<>> =>
       /\ uses = [n \in 1..calls |-> n] /\ answers = uses
       /\ \A i \in 1..Len(sent) : \A k \in ToSet(sent[i].answers) :
            \E j \in 1..(i - 1) :
              k \in ToSet(sent[j].uses) /\ (provider = "openai" => named(i, j, k))

\* No text of the conversation is lost on the way, but for what a user says
\* beside the results of tools to a model of OpenRouter.
TextKept ==
  LET kept(m) == IF provider = "openai" /\ OfType(m.blocks, "tool_result") # <<>> THEN <<>>
                 ELSE Texts(m)
  IN sent # <<>> => FlattenSeq([i \in 1..Len(sent) |-> sent[i].text])
                      = FlattenSeq([i \in 1..Len(conv) |-> kept(conv[i])])
=============================================================================
