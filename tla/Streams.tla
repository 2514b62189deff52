------------------------------- MODULE Streams -------------------------------
(***************************************************************************)
(* The two streams of the model proxy: the events it sends to the client   *)
(* (streamSseResponse and emitResolvedSse of model-proxy.ts), and the      *)
(* transformer of a provider's events (stream-transformer.ts, and          *)
(* transformStreamChunk of api-transformer.ts), fed by pieces of them.     *)
(***************************************************************************)
EXTENDS Integers, SequencesExt

CONSTANTS
  Source,    \* "openai" or "gemini"
  MaxEvent,  \* events of the provider
  MaxPing    \* bound on the pings

VARIABLES
  stream,    \* which of the streams moves
  sent,      \* events sent to the client
  timer,     \* the ping timer is on
  ended,     \* the response has been ended
  input,     \* what the provider has still to send
  fed,       \* history: the events it has begun to send, each with what becomes of it
  buffer, completed, out, \* of the transformer; out is what it has returned
  spoilt     \* history: a piece began or ended within `data`, or held parts of two events

server == <<sent, timer, ended>>
transformer == <<input, fed, buffer, completed, out, spoilt>>
vars == <<stream, server, transformer>>

-----------------------------------------------------------------------------
(* The provider.  An event is the line `data: {...}`, in pieces that the   *)
(* network may cut: "da", "ta:", the "left" and the "right" half of its    *)
(* JSON, and the blank line "nn".  The end of the message is an event      *)
(* without JSON, the mark [DONE]; the same may stand in a text, and makes  *)
(* the half with it a piece that holds the mark.                           *)

Delta == {[role |-> FALSE, text |-> "words", calls |-> 0], [role |-> TRUE, text |-> "words", calls |-> 0],
          [role |-> FALSE, text |-> "[DONE]", calls |-> 0],
          [role |-> FALSE, text |-> "none", calls |-> 2],
          [role |-> FALSE, text |-> "none", calls |-> 0]}
Done == {[role |-> FALSE, text |-> "[DONE]", calls |-> -1]}
HoldsMark(d) == d.text = "[DONE]"
Pieces(d) ==
  <<[part |-> "da", of |-> {}], [part |-> "ta:", of |-> {}]>>
    \o (IF d \in Done THEN <<[part |-> "[DONE]", of |-> {}]>>
        ELSE <<[part |-> "left", of |-> {d}],
               [part |-> IF HoldsMark(d) THEN "[DONE]" ELSE "right", of |-> {d}]>>)
    \o <<[part |-> "nn", of |-> {}]>>

\* transformOpenAIChunk and transformGeminiChunk: the first that applies, and the
\* first only of the tool calls.
Transformed(d) ==
  CASE Source = "openai" /\ d.role -> <<"message_start">>
    [] d.text # "none" -> <<"text_delta">>
    [] d.calls > 0 -> <<"input_json_delta">>
    [] OTHER -> <<>>

-----------------------------------------------------------------------------
(* StreamTransformer.                                                      *)

Init ==
  /\ stream \in {"client", "chunks", "batches"}
  /\ sent = <<>> /\ timer = FALSE /\ ended = FALSE
  /\ input = <<>> /\ fed = <<>> /\ buffer = <<>> /\ completed = FALSE /\ out = <<>>
  /\ spoilt = FALSE

\* buffer.trim.
Trim(s) ==
  LET first == {i \in 1..Len(s) : s[i].part # "nn"}
  IN IF first = {} THEN <<>>
     ELSE SubSeq(s, CHOOSE i \in first : \A j \in first : i <= j,
                    CHOOSE i \in first : \A j \in first : j <= i)
Parts(s) == [i \in 1..Len(s) |-> s[i].part]

\* Mutant: what cannot be parsed yet is dropped.
ProcessHasty(given) ==
  LET b == Trim(given)
      p == Parts(b)
  IN IF \E i \in 1..Len(p) : p[i] = "[DONE]"
     THEN [buffer |-> <<>>, completed |-> TRUE, out |-> <<"message_stop">>]
     ELSE IF p = <<"da", "ta:", "left", "right">> /\ b[3].of = b[4].of
     THEN [buffer |-> <<>>, completed |-> FALSE, out |-> Transformed(CHOOSE d \in b[3].of : TRUE)]
     ELSE [buffer |-> <<>>, completed |-> FALSE, out |-> <<>>]

\* processBuffer, on what is buffered: [DONE] anywhere, in a text too, ends the message
\* and drops the rest; what does not begin with `data` is dropped; what is no JSON yet
\* waits for the rest.
Process(given) ==
  LET b == Trim(given)
      p == Parts(b)
      begins == Len(p) > 1 /\ p[1] = "da" /\ p[2] = "ta:"
  IN IF \E i \in 1..Len(p) : p[i] = "[DONE]"
     THEN [buffer |-> <<>>, completed |-> TRUE, out |-> <<"message_stop">>]
     ELSE IF p = <<"da", "ta:", "left", "right">> /\ b[3].of = b[4].of
     THEN [buffer |-> <<>>, completed |-> FALSE, out |-> Transformed(CHOOSE d \in b[3].of : TRUE)]
     ELSE [buffer |-> IF begins THEN given ELSE <<>>, completed |-> FALSE, out |-> <<>>]

DoneSent == ToSet(fed) \cap Done # {}

\* The provider goes on, or has sent its last event.
Emit(d) ==
  /\ input = <<>> /\ Len(fed) < MaxEvent /\ d \in Delta \cup Done /\ ~DoneSent
  /\ input' = Pieces(d) /\ fed' = Append(fed, d)
  /\ UNCHANGED <<buffer, completed, out, spoilt>>

\* A chunk ends well where an event does, or within its JSON.
Cut(s) == s = <<>> \/ s[1].part \in {"da", "left", "right", "nn", "[DONE]"}

\* transform, with a chunk of n pieces, of one event.
Transform(n) ==
  /\ n <= Len(input)
  /\ LET r == Process(buffer \o SubSeq(input, 1, n))
         rest == SubSeq(input, n + 1, Len(input))
     IN /\ buffer' = r.buffer /\ out' = out \o r.out
        /\ completed' = (completed \/ r.completed)
        /\ input' = rest
        /\ spoilt' = (spoilt \/ ~Cut(rest))
  /\ UNCHANGED fed

\* transform, with the end of an event and the whole of the next.
TransformTwo(d) ==
  /\ input # <<>> /\ Len(fed) < MaxEvent /\ d \in Delta \cup Done /\ ~DoneSent
  /\ LET r == Process(buffer \o input \o Pieces(d))
     IN buffer' = r.buffer /\ out' = out \o r.out /\ completed' = (completed \/ r.completed)
  /\ fed' = Append(fed, d) /\ input' = <<>> /\ spoilt' = TRUE

\* transformBatch: events apart, and nothing left in the buffer between them.
TransformBatch(n, more) ==
  /\ n <= Len(input) /\ (more # {} => n = Len(input) /\ Len(fed) < MaxEvent /\ ~DoneSent)
  /\ LET r == Process(buffer \o SubSeq(input, 1, n))
         next == IF more = {} THEN [buffer |-> <<>>, completed |-> FALSE, out |-> <<>>]
                 ELSE Process(Pieces(CHOOSE d \in more : TRUE))
         rest == SubSeq(input, n + 1, Len(input))
     IN /\ buffer' = <<>> /\ out' = out \o r.out \o next.out
        /\ completed' = (completed \/ r.completed \/ next.completed)
        /\ input' = rest
        /\ spoilt' = (spoilt \/ Parts(rest) \notin {<<>>, <<"nn">>})
  /\ fed' = IF more = {} THEN fed ELSE Append(fed, CHOOSE d \in more : TRUE)

Reset ==
  /\ input = <<>>
  /\ buffer' = <<>> /\ completed' = FALSE
  /\ fed' = <<>> /\ out' = <<>> /\ spoilt' = FALSE /\ UNCHANGED input

-----------------------------------------------------------------------------
(* ModelProxy: the events of one response.                                 *)

\* emitResponseBlocks: a response without blocks is one of empty text.
Blocks(content) ==
  LET blocks == IF content = <<>> THEN 1 ELSE Len(content)
      event(i) == <<"start", "delta", "stop">>[((i - 1) % 3) + 1]
  IN [i \in 1..3 * blocks |-> [event |-> event(i), index |-> {(i - 1) \div 3}]]
     \o <<[event |-> "message_delta", index |-> {}], [event |-> "message_stop", index |-> {}]>>
Event(e) == <<[event |-> e, index |-> {}]>>
Content == {<<>>} \cup [1..1 -> {"text", "tool_use"}] \cup [1..2 -> {"text", "tool_use"}]

\* streamSseResponse opens the message before the model answers.
Open == sent = <<>> /\ ~ended /\ sent' = Event("message_start") /\ timer' = TRUE /\ UNCHANGED ended

Ping ==
  /\ timer /\ Len(sent) <= MaxPing
  /\ sent' = sent \o Event("ping")
  /\ UNCHANGED <<timer, ended>>

\* Mutant: the timer goes on when the model has failed.
FailPinging ==
  /\ sent # <<>> /\ ~ended
  /\ sent' = sent \o Event("error") /\ ended' = TRUE /\ UNCHANGED timer

\* The model has failed: 200 is sent already, so that the failure is an event.
Fail ==
  /\ sent # <<>> /\ ~ended
  /\ timer' = FALSE /\ sent' = sent \o Event("error") /\ ended' = TRUE

Respond(content) ==
  /\ sent # <<>> /\ ~ended
  /\ timer' = FALSE /\ sent' = sent \o Blocks(content) /\ ended' = TRUE

\* emitResolvedSse, of the router, which has the answer already.
EmitResolved(content) ==
  /\ sent = <<>> /\ ~ended
  /\ sent' = Event("message_start") \o Blocks(content) /\ ended' = TRUE /\ UNCHANGED timer

Next ==
  \/ /\ stream = "client"
     /\ Open \/ Ping \/ Fail \/ \E content \in Content : Respond(content) \/ EmitResolved(content)
     /\ UNCHANGED <<stream, transformer>>
  \/ /\ stream \in {"chunks", "batches"}
     /\ Reset \/ \E d \in Delta \cup Done : Emit(d)
     /\ UNCHANGED <<stream, server>>
  \/ /\ stream = "chunks"
     /\ (\E n \in 1..5 : Transform(n)) \/ \E d \in Delta \cup Done : TransformTwo(d)
     /\ UNCHANGED <<stream, server>>
  \/ /\ stream = "batches"
     /\ \E n \in 1..5 : \E more \in {{}} \cup {{d} : d \in Delta \cup Done} : TransformBatch(n, more)
     /\ UNCHANGED <<stream, server>>

Spec == Init /\ [][Next]_vars

-----------------------------------------------------------------------------
(* Properties.                                                             *)

\* What an event becomes, one event at the most: the end of the message, if it holds
\* the mark, else its role, its text or its first tool call.  The rest of it is lost.
Outcome(d) == IF HoldsMark(d) THEN <<"message_stop">> ELSE Transformed(d)

\* Whatever the network cuts, each event comes out as what it becomes once at the most,
\* in the order of the provider, and nothing else does: no end of the message unless a
\* mark was sent.  Where no chunk is cut within `data` nor joins two events, none is missing.
InOrderWhole ==
  \E from \in [1..Len(out) -> 1..Len(fed)] :
     /\ \A i, j \in 1..Len(out) : i < j => from[i] < from[j]
     /\ \A i \in 1..Len(out) : Outcome(fed[from[i]]) = <<out[i]>>
     /\ ~spoilt /\ input = <<>> =>
          \A k \in 1..Len(fed) : Outcome(fed[k]) = <<>> \/ \E i \in 1..Len(out) : from[i] = k

\* The client sees one message: begun first, with its blocks one after the other
\* and counted, and ended once, with nothing after its end, not even a ping.
OneMessage ==
  LET last == {"message_stop", "error"}
      index(i) == CHOOSE n \in sent[i].index : TRUE
      starts == {i \in 1..Len(sent) : sent[i].event = "start"}
  IN sent # <<>> =>
       /\ sent[1].event = "message_start"
       /\ \A i \in 1..Len(sent) : sent[i].event \in last <=> ended /\ i = Len(sent)
       /\ \A i \in starts : /\ index(i) = Cardinality({j \in starts : j < i})
                            /\ sent[i + 1] = [event |-> "delta", index |-> sent[i].index]
                            /\ sent[i + 2] = [event |-> "stop", index |-> sent[i].index]
=============================================================================
