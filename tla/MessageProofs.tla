------------------------------ MODULE MessageProofs ------------------------------
(***************************************************************************)
(* What passes through the model proxy, for any events, conversations and  *)
(* answers: the events that are streamed, and the messages that are        *)
(* translated.                                                             *)
(***************************************************************************)
EXTENDS MCRemote, SequenceTheorems, FiniteSetTheorems, TLAPS

\* Each part starts and moves as its own specification says, or not at all.
LEMMA PartSteps ==
  /\ SystemInit => Events!Init /\ Messages!Init
  /\ [SystemNext]_allVars => [Events!Next]_eventVars /\ [Messages!Next]_messageVars
<1>1. UNCHANGED allVars => UNCHANGED eventVars /\ UNCHANGED messageVars
  BY DEF allVars
<1>2. SystemNext => [Events!Next]_eventVars /\ [Messages!Next]_messageVars
  BY DEF SystemNext
<1> QED BY <1>1, <1>2 DEF SystemInit

-----------------------------------------------------------------------------
(* What the client is told: one message.                                   *)

LEMMA JoinedOne ==
  ASSUME NEW S, NEW s \in Seq(S), NEW x \in S
  PROVE  /\ s \o <<x>> \in Seq(S) /\ Len(s \o <<x>>) = Len(s) + 1 /\ s \o <<x>> # <<>>
         /\ \A i \in 1..Len(s) : (s \o <<x>>)[i] = s[i]
         /\ (s \o <<x>>)[Len(s) + 1] = x
OBVIOUS

LEMMA JoinedTwo ==
  ASSUME NEW S, NEW s \in Seq(S), NEW x \in S, NEW y \in S
  PROVE  /\ s \o <<x, y>> \in Seq(S) /\ Len(s \o <<x, y>>) = Len(s) + 2
         /\ \A i \in 1..Len(s) : (s \o <<x, y>>)[i] = s[i]
         /\ (s \o <<x, y>>)[Len(s) + 1] = x /\ (s \o <<x, y>>)[Len(s) + 2] = y
OBVIOUS

SentEvent ==
  {"message_start", "start", "delta", "stop", "message_delta", "message_stop", "ping", "error"}
Sending == [event : SentEvent, index : SUBSET Nat]

\* Until the response is ended it is the begin of a message, and pings.
Begun(s) ==
  /\ s[1].event = "message_start"
  /\ \A i \in 1..Len(s) : s[i].event \in {"message_start", "ping"}

ClientInv ==
  /\ sent \in Seq(Sending)
  /\ sent = <<>> => ~ended
  /\ sent = <<>> \/ ended => timer = FALSE
  /\ sent # <<>> /\ ~ended => Begun(sent)
  /\ Events!OneMessage

LEMMA EventIsSending ==
  ASSUME NEW e \in SentEvent
  PROVE  \E x \in Sending : x.event = e /\ Events!Event(e) = <<x>>
<1> DEFINE x == [event |-> e, index |-> {}]
<1>1. x \in Sending /\ x.event = e
  BY DEF Sending
<1>2. Events!Event(e) = <<x>>
  BY DEF Events!Event
<1> QED BY <1>1, <1>2

\* The events of one block or two.
ToldOf(b, n) ==
  /\ b \in Seq(Sending) /\ Len(b) = 3 * n + 2
  /\ b[1] = [event |-> "start", index |-> {0}] /\ b[2] = [event |-> "delta", index |-> {0}]
  /\ b[3] = [event |-> "stop", index |-> {0}]
  /\ n = 2 => /\ b[4] = [event |-> "start", index |-> {1}]
              /\ b[5] = [event |-> "delta", index |-> {1}]
              /\ b[6] = [event |-> "stop", index |-> {1}]
  /\ b[3 * n + 1].event = "message_delta" /\ b[3 * n + 2].event = "message_stop"

LEMMA BlocksAreTold ==
  ASSUME NEW content \in Events!Content
  PROVE  \E n \in 1..2 : ToldOf(Events!Blocks(content), n)
<1> DEFINE n == IF content = <<>> THEN 1 ELSE Len(content)
           event(i) == <<"start", "delta", "stop">>[((i - 1) % 3) + 1]
           f == [i \in 1..3 * n |-> [event |-> event(i), index |-> {(i - 1) \div 3}]]
<1>1. n \in 1..2
  BY DEF Events!Content
<1>2. Events!Blocks(content) = f \o <<[event |-> "message_delta", index |-> {}],
                                  [event |-> "message_stop", index |-> {}]>>
  BY DEF Events!Blocks
<1> HIDE DEF n
<1>4. /\ event(1) = "start" /\ event(2) = "delta" /\ event(3) = "stop"
      /\ event(4) = "start" /\ event(5) = "delta" /\ event(6) = "stop"
  OBVIOUS
<1>5. /\ (1 - 1) \div 3 = 0 /\ (2 - 1) \div 3 = 0 /\ (3 - 1) \div 3 = 0
      /\ (4 - 1) \div 3 = 1 /\ (5 - 1) \div 3 = 1 /\ (6 - 1) \div 3 = 1
  OBVIOUS
<1>3. \A i \in 1..6 : event(i) \in SentEvent /\ {(i - 1) \div 3} \in SUBSET Nat
  <2> SUFFICES ASSUME NEW i \in 1..6 PROVE event(i) \in SentEvent /\ {(i - 1) \div 3} \in SUBSET Nat
    OBVIOUS
  <2>1. i \in {1, 2, 3, 4, 5, 6} OBVIOUS
  <2>2. (i - 1) \div 3 \in {0, 1} BY <1>5, <2>1
  <2> HIDE DEF event
  <2>3. event(i) \in {"start", "delta", "stop"} BY <1>4, <2>1
  <2> QED BY <2>2, <2>3 DEF SentEvent
<1> HIDE DEF event
<1>6. f \in Seq(Sending) /\ Len(f) = 3 * n
  <2>1. \A i \in 1..3 * n : [event |-> event(i), index |-> {(i - 1) \div 3}] \in Sending
    BY <1>1, <1>3 DEF Sending
  <2>2. 3 * n \in Nat BY <1>1
  <2> QED BY <2>1, <2>2
<1> DEFINE x == [event |-> "message_delta", index |-> {}]
           y == [event |-> "message_stop", index |-> {}]
<1>7. x \in Sending /\ y \in Sending /\ x.event = "message_delta" /\ y.event = "message_stop"
  BY DEF Sending, SentEvent
<1>8. /\ f[1] = [event |-> "start", index |-> {0}] /\ f[2] = [event |-> "delta", index |-> {0}]
      /\ f[3] = [event |-> "stop", index |-> {0}]
  <2>1. 1 \in 1..3 * n /\ 2 \in 1..3 * n /\ 3 \in 1..3 * n BY <1>1
  <2> QED BY <1>4, <1>5, <2>1
<1>9. n = 2 => /\ f[4] = [event |-> "start", index |-> {1}]
               /\ f[5] = [event |-> "delta", index |-> {1}]
               /\ f[6] = [event |-> "stop", index |-> {1}]
  <2>1. n = 2 => 4 \in 1..3 * n /\ 5 \in 1..3 * n /\ 6 \in 1..3 * n BY <1>1
  <2> QED BY <1>4, <1>5, <2>1
<1> HIDE DEF f, x, y
<1>10. /\ f \o <<x, y>> \in Seq(Sending) /\ Len(f \o <<x, y>>) = 3 * n + 2
       /\ \A i \in 1..3 * n : (f \o <<x, y>>)[i] = f[i]
       /\ (f \o <<x, y>>)[3 * n + 1] = x /\ (f \o <<x, y>>)[3 * n + 2] = y
  BY <1>6, <1>7, JoinedTwo
<1> DEFINE t == f \o <<x, y>>
<1>11. ToldOf(t, n)
  <2> HIDE DEF t
  <2>1. /\ 1 \in 1..3 * n /\ 2 \in 1..3 * n /\ 3 \in 1..3 * n
        /\ n = 2 => 4 \in 1..3 * n /\ 5 \in 1..3 * n /\ 6 \in 1..3 * n
    BY <1>1
  <2>2. /\ t \in Seq(Sending) /\ Len(t) = 3 * n + 2
        /\ \A i \in 1..3 * n : t[i] = f[i]
        /\ t[3 * n + 1] = x /\ t[3 * n + 2] = y
    BY <1>10 DEF t
  <2> QED BY <1>7, <1>8, <1>9, <2>1, <2>2 DEF ToldOf
<1> QED BY <1>1, <1>2, <1>11 DEF x, y

\* One message, of a sequence s of events.
Whole(s, over) ==
  LET starts == {i \in 1..Len(s) : s[i].event = "start"}
      index(i) == CHOOSE n \in s[i].index : TRUE
  IN /\ s[1].event = "message_start"
     /\ \A i \in 1..Len(s) : s[i].event \in {"message_stop", "error"} <=> over /\ i = Len(s)
     /\ \A i \in starts : /\ index(i) = Events!Cardinality({j \in starts : j < i})
                          /\ s[i + 1] = [event |-> "delta", index |-> s[i].index]
                          /\ s[i + 2] = [event |-> "stop", index |-> s[i].index]

LEMMA CountedAlike == \A S : Events!Cardinality(S) = Cardinality(S)
BY DEF Events!Cardinality, Cardinality

LEMMA WholeIsOne == ASSUME sent # <<>> PROVE Events!OneMessage <=> Whole(sent, ended)
BY DEF Events!OneMessage, Whole

LEMMA BegunIsWhole == ASSUME NEW s \in Seq(Sending), s # <<>>, Begun(s) PROVE Whole(s, FALSE)
BY DEF Begun, Whole

\* The model's failure.
LEMMA ErrorIsWhole ==
  ASSUME NEW s \in Seq(Sending), s # <<>>, Begun(s)
  PROVE  s \o Events!Event("error") \in Seq(Sending) /\ Whole(s \o Events!Event("error"), TRUE)
<1> DEFINE t == s \o Events!Event("error")
<1>1. /\ t \in Seq(Sending) /\ Len(t) = Len(s) + 1 /\ Len(s) \in Nat \ {0}
      /\ \A i \in 1..Len(s) : t[i] = s[i]
      /\ t[Len(s) + 1].event = "error"
  <2>1. PICK x \in Sending : x.event = "error" /\ Events!Event("error") = <<x>>
    BY EventIsSending DEF SentEvent
  <2>2. Len(s) \in Nat \ {0} OBVIOUS
  <2>3. t = s \o <<x>> BY <2>1
  <2> HIDE DEF t
  <2> QED BY <2>1, <2>2, <2>3, JoinedOne
<1> HIDE DEF t
<1>2. \A i \in 1..Len(t) : t[i].event # "start" /\ (t[i].event \in {"message_stop", "error"} <=> i = Len(t))
  BY <1>1 DEF Begun
<1>3. t[1].event = "message_start"
  BY <1>1 DEF Begun
<1> QED BY <1>1, <1>2, <1>3 DEF Whole, t

LEMMA BlocksAreWhole ==
  ASSUME NEW s \in Seq(Sending), s # <<>>, Begun(s), NEW content \in Events!Content
  PROVE  /\ s \o Events!Blocks(content) \in Seq(Sending) /\ s \o Events!Blocks(content) # <<>>
         /\ Whole(s \o Events!Blocks(content), TRUE)
<1> DEFINE b == Events!Blocks(content)
           t == s \o b
           k == Len(s)
           starts == {i \in 1..Len(t) : t[i].event = "start"}
<1>1. PICK n \in 1..2 : ToldOf(b, n)
  BY BlocksAreTold
<1> HIDE DEF b
<1>2. k \in Nat \ {0} /\ n \in {1, 2} /\ b \in Seq(Sending) /\ Len(b) = 3 * n + 2
  BY <1>1 DEF ToldOf
<1>3. /\ t \in Seq(Sending) /\ Len(t) = k + Len(b)
      /\ \A i \in 1..k : t[i] = s[i]
      /\ \A i \in 1..Len(b) : t[k + i] = b[i]
  BY <1>2
<1> HIDE DEF t
<1>4. /\ t[k + 1] = [event |-> "start", index |-> {0}]
      /\ t[k + 2] = [event |-> "delta", index |-> {0}]
      /\ t[k + 3] = [event |-> "stop", index |-> {0}]
      /\ n = 1 => t[k + 4].event = "message_delta" /\ t[k + 5].event = "message_stop"
      /\ n = 2 => /\ t[k + 4] = [event |-> "start", index |-> {1}]
                  /\ t[k + 5] = [event |-> "delta", index |-> {1}]
                  /\ t[k + 6] = [event |-> "stop", index |-> {1}]
                  /\ t[k + 7].event = "message_delta" /\ t[k + 8].event = "message_stop"
  <2>1. n = 1 => Len(b) = 5 /\ 3 * n + 1 = 4 /\ 3 * n + 2 = 5 BY <1>2
  <2>2. n = 2 => Len(b) = 8 /\ 3 * n + 1 = 7 /\ 3 * n + 2 = 8 BY <1>2
  <2>3. /\ 1 \in 1..Len(b) /\ 2 \in 1..Len(b) /\ 3 \in 1..Len(b) /\ 4 \in 1..Len(b) /\ 5 \in 1..Len(b)
        /\ n = 2 => 6 \in 1..Len(b) /\ 7 \in 1..Len(b) /\ 8 \in 1..Len(b)
    BY <1>2, <2>1, <2>2
  <2>4. /\ t[k + 1] = b[1] /\ t[k + 2] = b[2] /\ t[k + 3] = b[3] /\ t[k + 4] = b[4] /\ t[k + 5] = b[5]
        /\ n = 2 => t[k + 6] = b[6] /\ t[k + 7] = b[7] /\ t[k + 8] = b[8]
    BY <1>3, <2>3
  <2> QED BY <1>1, <2>1, <2>2, <2>4 DEF ToldOf
<1>5. \A i \in 1..k : t[i].event \in {"message_start", "ping"}
  BY <1>2, <1>3 DEF Begun
<1>6. t[1].event = "message_start"
  BY <1>2, <1>3, SMTT(30) DEF Begun
<1> HIDE DEF k
<1>7. /\ t[k + 1].event = "start" /\ t[k + 2].event = "delta" /\ t[k + 3].event = "stop"
      /\ n = 1 => t[k + 4].event = "message_delta" /\ t[k + 5].event = "message_stop"
      /\ n = 2 => /\ t[k + 4].event = "start" /\ t[k + 5].event = "delta" /\ t[k + 6].event = "stop"
                  /\ t[k + 7].event = "message_delta" /\ t[k + 8].event = "message_stop"
  BY <1>4
<1>8. /\ starts = IF n = 1 THEN {k + 1} ELSE {k + 1, k + 4}
      /\ \A i \in 1..Len(t) : t[i].event \in {"message_stop", "error"} <=> i = Len(t)
  <2>1. CASE n = 1
    <3>1. Len(t) = k + 5 BY <1>2, <1>3, <2>1
    <3>2. ASSUME NEW i \in 1..k + 5
          PROVE  (t[i].event = "start" <=> i = k + 1)
                 /\ (t[i].event \in {"message_stop", "error"} <=> i = k + 5)
      <4>1. i \in 1..k \/ i = k + 1 \/ i = k + 2 \/ i = k + 3 \/ i = k + 4 \/ i = k + 5 BY <1>2
      <4>2. CASE i \in 1..k
        <5>1. t[i].event \in {"message_start", "ping"} BY <1>5, <4>2
        <5>2. i # k + 1 /\ i # k + 5 BY <1>2, <4>2
        <5> QED BY <5>1, <5>2
      <4>3. CASE i = k + 1 BY <1>2, <1>7, <4>3
      <4>4. CASE i = k + 2 BY <1>2, <1>7, <4>4
      <4>5. CASE i = k + 3 BY <1>2, <1>7, <4>5
      <4>6. CASE i = k + 4 BY <1>2, <1>7, <2>1, <4>6
      <4>7. CASE i = k + 5 BY <1>2, <1>7, <2>1, <4>7
      <4> QED BY <4>1, <4>2, <4>3, <4>4, <4>5, <4>6, <4>7
    <3>3. k + 1 \in 1..k + 5 BY <1>2
    <3>4. starts = {k + 1} BY <3>1, <3>2, <3>3
    <3> QED BY <2>1, <3>1, <3>2, <3>4
  <2>2. CASE n = 2
    <3>1. Len(t) = k + 8 BY <1>2, <1>3, <2>2
    <3>2. ASSUME NEW i \in 1..k + 8
          PROVE  (t[i].event = "start" <=> i = k + 1 \/ i = k + 4)
                 /\ (t[i].event \in {"message_stop", "error"} <=> i = k + 8)
      <4>1. \/ i \in 1..k \/ i = k + 1 \/ i = k + 2 \/ i = k + 3 \/ i = k + 4 \/ i = k + 5
            \/ i = k + 6 \/ i = k + 7 \/ i = k + 8
        BY <1>2
      <4>2. CASE i \in 1..k
        <5>1. t[i].event \in {"message_start", "ping"} BY <1>5, <4>2
        <5>2. i # k + 1 /\ i # k + 4 /\ i # k + 8 BY <1>2, <4>2
        <5> QED BY <5>1, <5>2
      <4>3. CASE i = k + 1 BY <1>2, <1>7, <4>3
      <4>4. CASE i = k + 2 BY <1>2, <1>7, <4>4
      <4>5. CASE i = k + 3 BY <1>2, <1>7, <4>5
      <4>6. CASE i = k + 4 BY <1>2, <1>7, <2>2, <4>6
      <4>7. CASE i = k + 5 BY <1>2, <1>7, <2>2, <4>7
      <4>8. CASE i = k + 6 BY <1>2, <1>7, <2>2, <4>8
      <4>9. CASE i = k + 7 BY <1>2, <1>7, <2>2, <4>9
      <4>10. CASE i = k + 8 BY <1>2, <1>7, <2>2, <4>10
      <4> QED BY <4>1, <4>2, <4>3, <4>4, <4>5, <4>6, <4>7, <4>8, <4>9, <4>10
    <3>3. k + 1 \in 1..k + 8 /\ k + 4 \in 1..k + 8 BY <1>2
    <3>4. starts = {k + 1, k + 4} BY <3>1, <3>2, <3>3
    <3> QED BY <2>2, <3>1, <3>2, <3>4
  <2> QED BY <1>2, <2>1, <2>2
<1> HIDE DEF starts
<1>9. ASSUME NEW i \in starts
      PROVE  /\ (CHOOSE m \in t[i].index : TRUE) = Events!Cardinality({j \in starts : j < i})
             /\ t[i + 1] = [event |-> "delta", index |-> t[i].index]
             /\ t[i + 2] = [event |-> "stop", index |-> t[i].index]
  <2>1. CASE i = k + 1
    <3>1. {j \in starts : j < i} = {} BY <1>2, <1>8, <2>1
    <3>2. Events!Cardinality({j \in starts : j < i}) = 0 BY <3>1, CountedAlike, FS_EmptySet
    <3>3. t[i].index = {0} BY <1>4, <2>1
    <3>4. (CHOOSE m \in {0} : TRUE) = 0 OBVIOUS
    <3>5. i + 1 = k + 2 /\ i + 2 = k + 3 BY <1>2, <2>1
    <3>6. (CHOOSE m \in t[i].index : TRUE) = 0 BY <3>3, <3>4
    <3> QED BY <1>4, <3>2, <3>3, <3>5, <3>6
  <2>2. CASE i = k + 4 /\ n = 2
    <3>1. {j \in starts : j < i} = {k + 1} BY <1>2, <1>8, <2>2
    <3>2. Events!Cardinality({j \in starts : j < i}) = 1 BY <3>1, CountedAlike, FS_Singleton
    <3>3. t[i].index = {1} BY <1>4, <2>2
    <3>4. (CHOOSE m \in {1} : TRUE) = 1 OBVIOUS
    <3>5. i + 1 = k + 5 /\ i + 2 = k + 6 BY <1>2, <2>2
    <3>6. (CHOOSE m \in t[i].index : TRUE) = 1 BY <3>3, <3>4
    <3> QED BY <1>4, <2>2, <3>2, <3>3, <3>5, <3>6
  <2> QED BY <1>2, <1>8, <2>1, <2>2
<1>10. Whole(t, TRUE)
  BY <1>6, <1>8, <1>9 DEF Whole, starts
<1>11. t # <<>> BY <1>2, <1>3
<1> QED BY <1>3, <1>10, <1>11 DEF t, b

LEMMA OneBegun ==
  LET s == Events!Event("message_start") IN s \in Seq(Sending) /\ s # <<>> /\ Begun(s)
<1>1. PICK x \in Sending : x.event = "message_start" /\ Events!Event("message_start") = <<x>>
  BY EventIsSending DEF SentEvent
<1>2. <<x>> \in Seq(Sending) /\ <<x>> # <<>> /\ <<x>>[1] = x /\ \A i \in 1..Len(<<x>>) : i = 1
  OBVIOUS
<1>3. Begun(<<x>>)
  BY <1>1, <1>2 DEF Begun
<1> QED BY <1>1, <1>2, <1>3

LEMMA ClientInit == Events!Init => ClientInv
BY DEF Events!Init, ClientInv, Events!OneMessage

LEMMA ClientStep == ClientInv /\ [Events!Next]_eventVars => ClientInv'
<1> SUFFICES ASSUME ClientInv, [Events!Next]_eventVars PROVE ClientInv' OBVIOUS
<1>1. CASE UNCHANGED Events!server
  BY <1>1 DEF ClientInv, Events!server, Events!OneMessage
<1>2. CASE Events!Open
  <2>1. sent' \in Seq(Sending) /\ sent' # <<>> /\ Begun(sent') /\ ~ended'
    BY <1>2, OneBegun DEF Events!Open
  <2>2. Whole(sent', FALSE) BY <2>1, BegunIsWhole
  <2>3. Events!OneMessage' BY <2>1, <2>2 DEF Events!OneMessage, Whole
  <2> QED BY <2>1, <2>3 DEF ClientInv
<1>3. CASE Events!Ping
  <2>1. sent # <<>> /\ ~ended /\ Begun(sent) /\ sent \in Seq(Sending)
    BY <1>3 DEF Events!Ping, ClientInv
  <2>2. /\ sent' \in Seq(Sending) /\ sent' # <<>> /\ Len(sent') = Len(sent) + 1 /\ Len(sent) \in Nat \ {0}
        /\ \A i \in 1..Len(sent) : sent'[i] = sent[i]
        /\ sent'[Len(sent) + 1].event = "ping"
    <3>1. PICK x \in Sending : x.event = "ping" /\ Events!Event("ping") = <<x>>
      BY EventIsSending DEF SentEvent
    <3>2. sent' = sent \o <<x>> BY <1>3, <3>1 DEF Events!Ping
    <3>3. Len(sent) \in Nat \ {0} BY <2>1
    <3> QED BY <2>1, <3>1, <3>2, <3>3, JoinedOne
  <2>3. Begun(sent') /\ ~ended' BY <1>3, <2>1, <2>2 DEF Begun, Events!Ping
  <2>4. Whole(sent', FALSE) BY <2>2, <2>3, BegunIsWhole
  <2>5. Events!OneMessage' BY <2>3, <2>4 DEF Events!OneMessage, Whole
  <2> QED BY <2>2, <2>3, <2>5 DEF ClientInv
<1>4. CASE Events!Fail
  <2>1. sent # <<>> /\ ~ended /\ Begun(sent) /\ sent \in Seq(Sending)
    BY <1>4 DEF Events!Fail, ClientInv
  <2>2. sent' \in Seq(Sending) /\ Whole(sent', TRUE) /\ ended' /\ timer' = FALSE
    BY <1>4, <2>1, ErrorIsWhole DEF Events!Fail
  <2>3. sent' # <<>> BY <1>4, <2>1 DEF Events!Fail, Events!Event
  <2>4. Events!OneMessage' BY <2>2 DEF Events!OneMessage, Whole
  <2> QED BY <2>2, <2>3, <2>4 DEF ClientInv
<1>5. ASSUME NEW content \in Events!Content, Events!Respond(content) PROVE ClientInv'
  <2>1. sent # <<>> /\ ~ended /\ Begun(sent) /\ sent \in Seq(Sending)
    BY <1>5 DEF Events!Respond, ClientInv
  <2>2. sent' \in Seq(Sending) /\ Whole(sent', TRUE) /\ ended' /\ timer' = FALSE
    BY <1>5, <2>1, BlocksAreWhole DEF Events!Respond
  <2>3. sent' # <<>> BY <1>5, <2>1, BlocksAreWhole DEF Events!Respond
  <2>4. Events!OneMessage' BY <2>2 DEF Events!OneMessage, Whole
  <2> QED BY <2>2, <2>3, <2>4 DEF ClientInv
<1>6. ASSUME NEW content \in Events!Content, Events!EmitResolved(content) PROVE ClientInv'
  <2>1. sent = <<>> /\ timer = FALSE BY <1>6 DEF Events!EmitResolved, ClientInv
  <2>2. /\ Events!Event("message_start") \in Seq(Sending) /\ Events!Event("message_start") # <<>>
        /\ Begun(Events!Event("message_start"))
    BY OneBegun
  <2>3. sent' \in Seq(Sending) /\ sent' # <<>> /\ Whole(sent', TRUE) /\ ended' /\ timer' = FALSE
    BY <1>6, <2>1, <2>2, BlocksAreWhole DEF Events!EmitResolved
  <2>4. Events!OneMessage' BY <2>3 DEF Events!OneMessage, Whole
  <2> QED BY <2>3, <2>4 DEF ClientInv
<1> QED BY <1>1, <1>2, <1>3, <1>4, <1>5, <1>6 DEF Events!Next, eventVars, Events!server, Events!transformer

-----------------------------------------------------------------------------
(* The transformer: the pieces of an event, and what is left of them by trim. *)

PartName == {"da", "ta:", "[DONE]", "left", "right", "nn"}
Piece == [part : PartName, of : SUBSET (Events!Delta \cup Events!Done)]

\* The piece with which an event is whole.
Key(d) == IF d \in Events!Done THEN 3 ELSE 4

LEMMA PieceIs ==
  ASSUME NEW x \in PartName, NEW e \in SUBSET (Events!Delta \cup Events!Done)
  PROVE  \E p \in Piece : p = [part |-> x, of |-> e] /\ p.part = x /\ p.of = e
<1> DEFINE p == [part |-> x, of |-> e]
<1>1. p \in Piece /\ p.part = x /\ p.of = e
  BY DEF Piece
<1>2. p = [part |-> x, of |-> e]
  OBVIOUS
<1> HIDE DEF p
<1> QED BY <1>1, <1>2

LEMMA PiecesOf ==
  ASSUME NEW d \in Events!Delta \cup Events!Done
  PROVE  /\ Events!Pieces(d) \in Seq(Piece) /\ Len(Events!Pieces(d)) = Key(d) + 1
         /\ Events!Pieces(d)[1].part = "da" /\ Events!Pieces(d)[2].part = "ta:"
         /\ d \in Events!Done => Events!Pieces(d)[3].part = "[DONE]" /\ Events!Pieces(d)[4].part = "nn"
         /\ d \notin Events!Done => /\ Events!Pieces(d)[3].part = "left"
              /\ Events!Pieces(d)[4].part = (IF Events!HoldsMark(d) THEN "[DONE]" ELSE "right")
                             /\ Events!Pieces(d)[5].part = "nn"
                             /\ Events!Pieces(d)[3].of = {d} /\ Events!Pieces(d)[4].of = {d}
<1>0. /\ "da" \in PartName /\ "ta:" \in PartName /\ "[DONE]" \in PartName /\ "left" \in PartName
      /\ "right" \in PartName /\ "nn" \in PartName
      /\ {} \in SUBSET (Events!Delta \cup Events!Done) /\ {d} \in SUBSET (Events!Delta \cup Events!Done)
  BY DEF PartName
<1>1. PICK a \in Piece : a = [part |-> "da", of |-> {}] /\ a.part = "da" /\ a.of = {}
  BY <1>0, PieceIs
<1>2. PICK b \in Piece : b = [part |-> "ta:", of |-> {}] /\ b.part = "ta:" /\ b.of = {}
  BY <1>0, PieceIs
<1>3. PICK n \in Piece : n = [part |-> "nn", of |-> {}] /\ n.part = "nn" /\ n.of = {}
  BY <1>0, PieceIs
<1>4. <<a, b>> \in Seq(Piece) /\ Len(<<a, b>>) = 2 /\ <<a, b>>[1] = a /\ <<a, b>>[2] = b
  OBVIOUS
<1>5. CASE d \in Events!Done
  <2>1. PICK e \in Piece : e = [part |-> "[DONE]", of |-> {}] /\ e.part = "[DONE]" /\ e.of = {}
    BY <1>0, PieceIs
  <2>2. Events!Pieces(d) = <<a, b>> \o <<e>> \o <<n>>
    BY <1>1, <1>2, <1>3, <1>5, <2>1 DEF Events!Pieces
  <2>3. /\ <<a, b>> \o <<e>> \in Seq(Piece) /\ Len(<<a, b>> \o <<e>>) = 3
        /\ (<<a, b>> \o <<e>>)[1] = a /\ (<<a, b>> \o <<e>>)[2] = b /\ (<<a, b>> \o <<e>>)[3] = e
    BY <1>4, JoinedOne
  <2>4. /\ Events!Pieces(d) \in Seq(Piece) /\ Len(Events!Pieces(d)) = 4
        /\ Events!Pieces(d)[1] = a /\ Events!Pieces(d)[2] = b /\ Events!Pieces(d)[3] = e
             /\ Events!Pieces(d)[4] = n
    BY <2>2, <2>3, JoinedOne
  <2> QED BY <1>1, <1>2, <1>3, <1>5, <2>1, <2>4 DEF Key
<1>6. CASE d \notin Events!Done
  <2>1. PICK e \in Piece : e = [part |-> "left", of |-> {d}] /\ e.part = "left" /\ e.of = {d}
    BY <1>0, PieceIs
  <2> DEFINE x == IF Events!HoldsMark(d) THEN "[DONE]" ELSE "right"
  <2>2. PICK f \in Piece : f = [part |-> x, of |-> {d}] /\ f.part = x /\ f.of = {d}
    <3>1. x \in PartName BY <1>0
    <3> HIDE DEF x
    <3> QED BY <1>0, <3>1, PieceIs
  <2>3. Events!Pieces(d) = <<a, b>> \o <<e, f>> \o <<n>>
    BY <1>1, <1>2, <1>3, <1>6, <2>1, <2>2 DEF Events!Pieces
  <2>4. /\ <<a, b>> \o <<e, f>> \in Seq(Piece) /\ Len(<<a, b>> \o <<e, f>>) = 4
        /\ (<<a, b>> \o <<e, f>>)[1] = a /\ (<<a, b>> \o <<e, f>>)[2] = b
        /\ (<<a, b>> \o <<e, f>>)[3] = e /\ (<<a, b>> \o <<e, f>>)[4] = f
    BY <1>4, JoinedTwo
  <2>5. /\ Events!Pieces(d) \in Seq(Piece) /\ Len(Events!Pieces(d)) = 5
        /\ Events!Pieces(d)[1] = a /\ Events!Pieces(d)[2] = b /\ Events!Pieces(d)[3] = e
             /\ Events!Pieces(d)[4] = f
        /\ Events!Pieces(d)[5] = n
    BY <2>3, <2>4, JoinedOne
  <2>6. Key(d) + 1 = 5 BY <1>6 DEF Key
  <2> QED BY <1>1, <1>2, <1>3, <1>6, <2>1, <2>2, <2>5, <2>6
<1> QED BY <1>5, <1>6

\* A stretch of an event's pieces.
LEMMA SliceIs ==
  ASSUME NEW s \in Seq(Piece), NEW a \in 1..Len(s) + 1, NEW b \in 0..Len(s), a <= b + 1
  PROVE  /\ SubSeq(s, a, b) \in Seq(Piece) /\ Len(SubSeq(s, a, b)) = b - a + 1
         /\ \A i \in 1..b - a + 1 : SubSeq(s, a, b)[i] = s[a + i - 1]
<1>1. \A i \in a..b : s[i] \in Piece OBVIOUS
<1> QED BY <1>1, SubSeqProperties

\* What is counted has a first and a last.
LEMMA Lowest == ASSUME NEW S \in SUBSET Nat, S # {} PROVE \E c \in S : \A d \in S : c <= d
<1>1. \E c \in S : \A d \in S : ~(<<d, c>> \in OpToRel(<, Nat)) BY NatLessThanWellFounded, WFMin
<1>2. \E c \in S : \A d \in S : ~(d < c) BY <1>1, Zenon DEF OpToRel
<1> QED BY <1>2

LEMMA Bounds ==
  ASSUME NEW n \in Nat, NEW S \in SUBSET (1..n), S # {}
  PROVE  /\ \E i \in S : \A j \in S : i <= j
         /\ \E i \in S : \A j \in S : j <= i
<1>1. S \in SUBSET Nat
  OBVIOUS
<1>2. \E i \in S : \A j \in S : i <= j
  BY <1>1, Lowest
<1> DEFINE Below == {n - i : i \in S}
<1>3. Below \in SUBSET Nat /\ Below # {}
  <2>1. \A i \in S : n - i \in Nat OBVIOUS
  <2>2. \A b \in Below : b \in Nat BY <2>1
  <2> QED BY <2>2
<1>4. PICK b \in Below : \A c \in Below : b <= c
  <2> HIDE DEF Below
  <2> QED BY <1>3, Lowest
<1>5. PICK i \in S : b = n - i OBVIOUS
<1>6. \A j \in S : n - i <= n - j BY <1>4, <1>5
<1>7. \A j \in S : j <= i
  <2> HIDE DEF Below
  <2> QED BY <1>6
<1> QED BY <1>2, <1>7

\* What is left by trim: a stretch that begins and ends with something.
LEMMA TrimIs ==
  ASSUME NEW s \in Seq(Piece), NEW k \in 1..Len(s), s[k].part # "nn"
  PROVE  \E f, l \in 1..Len(s) :
           /\ f <= k /\ k <= l /\ s[f].part # "nn" /\ s[l].part # "nn"
           /\ \A i \in 1..Len(s) : s[i].part # "nn" => f <= i /\ i <= l
           /\ Events!Trim(s) = SubSeq(s, f, l)
<1> DEFINE first == {i \in 1..Len(s) : s[i].part # "nn"}
           f == CHOOSE i \in first : \A j \in first : i <= j
           l == CHOOSE i \in first : \A j \in first : j <= i
<1>1. first \in SUBSET (1..Len(s)) /\ first # {} /\ Len(s) \in Nat
  OBVIOUS
<1>2. f \in first /\ \A j \in first : f <= j
  BY <1>1, Bounds
<1>3. l \in first /\ \A j \in first : j <= l
  BY <1>1, Bounds
<1>4. Events!Trim(s) = SubSeq(s, f, l)
  BY <1>1 DEF Events!Trim
<1> HIDE DEF f, l
<1> QED BY <1>2, <1>3, <1>4

LEMMA TrimOf ==
  ASSUME NEW s \in Seq(Piece), NEW f \in 1..Len(s), NEW l \in 1..Len(s), f <= l,
         s[f].part # "nn", s[l].part # "nn",
         \A i \in 1..Len(s) : s[i].part # "nn" => f <= i /\ i <= l
  PROVE  Events!Trim(s) = SubSeq(s, f, l)
<1>1. PICK g, m \in 1..Len(s) :
           /\ g <= f /\ f <= m /\ s[g].part # "nn" /\ s[m].part # "nn"
           /\ \A i \in 1..Len(s) : s[i].part # "nn" => g <= i /\ i <= m
           /\ Events!Trim(s) = SubSeq(s, g, m)
  BY TrimIs
<1>2. g = f /\ m = l BY <1>1
<1> QED BY <1>1, <1>2

LEMMA TrimNothing ==
  ASSUME NEW s \in Seq(Piece), \A i \in 1..Len(s) : s[i].part = "nn"
  PROVE  Events!Trim(s) = <<>>
BY DEF Events!Trim

LEMMA JoinIs ==
  ASSUME NEW S, NEW s \in Seq(S), NEW t \in Seq(S)
  PROVE  /\ s \o t \in Seq(S) /\ Len(s \o t) = Len(s) + Len(t)
         /\ \A i \in 1..Len(s) : (s \o t)[i] = s[i]
         /\ \A i \in 1..Len(s) + Len(t) : i > Len(s) => i - Len(s) \in 1..Len(t)
              /\ (s \o t)[i] = t[i - Len(s)]
OBVIOUS

\* The blank line after an event changes nothing.
LEMMA TrimTail ==
  ASSUME NEW s \in Seq(Piece), NEW t \in Seq(Piece), \A i \in 1..Len(t) : t[i].part = "nn"
  PROVE  Events!Trim(s \o t) = Events!Trim(s)
<1> DEFINE u == s \o t
<1>1. /\ u \in Seq(Piece) /\ Len(u) = Len(s) + Len(t)
      /\ \A i \in 1..Len(s) : u[i] = s[i]
      /\ \A i \in 1..Len(u) : i > Len(s) => u[i].part = "nn"
  BY JoinIs
<1>2. Len(s) \in Nat /\ Len(t) \in Nat
  OBVIOUS
<1> HIDE DEF u
<1>3. CASE \A i \in 1..Len(s) : s[i].part = "nn"
  <2>1. \A i \in 1..Len(u) : u[i].part = "nn" BY <1>1, <1>2, <1>3
  <2> QED BY <1>1, <1>3, <2>1, TrimNothing DEF u
<1>4. ASSUME NEW k \in 1..Len(s), s[k].part # "nn" PROVE Events!Trim(u) = Events!Trim(s)
  <2>1. PICK f, l \in 1..Len(s) :
           /\ f <= k /\ k <= l /\ s[f].part # "nn" /\ s[l].part # "nn"
           /\ \A i \in 1..Len(s) : s[i].part # "nn" => f <= i /\ i <= l
           /\ Events!Trim(s) = SubSeq(s, f, l)
    BY <1>4, TrimIs
  <2>2. /\ f \in 1..Len(u) /\ l \in 1..Len(u) /\ f <= l /\ u[f].part # "nn" /\ u[l].part # "nn"
        /\ \A i \in 1..Len(u) : u[i].part # "nn" => f <= i /\ i <= l
    <3>1. f \in 1..Len(u) /\ l \in 1..Len(u) /\ f <= l BY <1>1, <1>2, <2>1
    <3>2. u[f] = s[f] /\ u[l] = s[l] BY <1>1
    <3>3. ASSUME NEW i \in 1..Len(u), u[i].part # "nn" PROVE f <= i /\ i <= l
      <4>1. i \in 1..Len(s) BY <1>1, <1>2, <3>3
      <4> QED BY <1>1, <2>1, <3>3, <4>1
    <3> QED BY <2>1, <3>1, <3>2, <3>3
  <2>3. Events!Trim(u) = SubSeq(u, f, l) BY <1>1, <2>2, TrimOf
  <2>4. SubSeq(u, f, l) = SubSeq(s, f, l)
    <3>1. /\ SubSeq(u, f, l) \in Seq(Piece) /\ Len(SubSeq(u, f, l)) = l - f + 1
          /\ \A i \in 1..l - f + 1 : SubSeq(u, f, l)[i] = u[f + i - 1]
      BY <1>1, <2>2, SliceIs, SMTT(30)
    <3>2. /\ SubSeq(s, f, l) \in Seq(Piece) /\ Len(SubSeq(s, f, l)) = l - f + 1
          /\ \A i \in 1..l - f + 1 : SubSeq(s, f, l)[i] = s[f + i - 1]
      BY <2>1, SliceIs, SMTT(30)
    <3>3. \A i \in 1..l - f + 1 : f + i - 1 \in 1..Len(s) BY <2>1
    <3>4. \A i \in 1..l - f + 1 : u[f + i - 1] = s[f + i - 1] BY <1>1, <3>3
    <3> QED BY <3>1, <3>2, <3>4, SeqEqual
  <2> QED BY <2>1, <2>3, <2>4
<1> QED BY <1>3, <1>4 DEF u

-----------------------------------------------------------------------------
(* What processBuffer makes of what it is given.                           *)

HasDone(s) == \E i \in 1..Len(s) : s[i].part = "[DONE]"
HasWhole(s) ==
  LET b == Events!Trim(s)
  IN /\ Len(b) = 4 /\ b[1].part = "da" /\ b[2].part = "ta:" /\ b[3].part = "left" /\ b[4].part = "right"
     /\ b[3].of = b[4].of
Begins(s) == Len(Events!Trim(s)) > 1 /\ Events!Trim(s)[1].part = "da" /\ Events!Trim(s)[2].part = "ta:"

\* What is left by trim is a stretch, and holds all that is no blank line.
LEMMA TrimmedIs ==
  ASSUME NEW s \in Seq(Piece)
  PROVE  /\ Events!Trim(s) \in Seq(Piece)
         /\ HasDone(Events!Trim(s)) <=> HasDone(s)
<1>1. CASE \A i \in 1..Len(s) : s[i].part = "nn"
  <2>1. Events!Trim(s) = <<>> BY <1>1, TrimNothing
  <2>2. ~HasDone(s) BY <1>1 DEF HasDone
  <2>3. <<>> \in Seq(Piece) /\ ~HasDone(<<>>) BY DEF HasDone
  <2> QED BY <2>1, <2>2, <2>3
<1>2. ASSUME NEW k \in 1..Len(s), s[k].part # "nn"
      PROVE  Events!Trim(s) \in Seq(Piece) /\ (HasDone(Events!Trim(s)) <=> HasDone(s))
  <2>1. PICK f, l \in 1..Len(s) :
           /\ f <= k /\ k <= l /\ s[f].part # "nn" /\ s[l].part # "nn"
           /\ \A i \in 1..Len(s) : s[i].part # "nn" => f <= i /\ i <= l
           /\ Events!Trim(s) = SubSeq(s, f, l)
    BY <1>2, TrimIs
  <2>2. /\ Events!Trim(s) \in Seq(Piece) /\ Len(Events!Trim(s)) = l - f + 1
        /\ \A i \in 1..l - f + 1 : Events!Trim(s)[i] = s[f + i - 1]
    BY <2>1, SliceIs
  <2>3. HasDone(Events!Trim(s)) => HasDone(s)
    <3>1. \A i \in 1..l - f + 1 : f + i - 1 \in 1..Len(s) BY <2>1, SMTT(30)
    <3> QED BY <2>2, <3>1 DEF HasDone
  <2>4. HasDone(s) => HasDone(Events!Trim(s))
    <3>1. SUFFICES ASSUME NEW i \in 1..Len(s), s[i].part = "[DONE]" PROVE HasDone(Events!Trim(s))
      BY DEF HasDone
    <3>2. f <= i /\ i <= l BY <2>1, <3>1
    <3>3. i - f + 1 \in 1..l - f + 1 /\ f + (i - f + 1) - 1 = i BY <2>1, <3>2
    <3>4. Events!Trim(s)[i - f + 1].part = "[DONE]" BY <2>2, <3>1, <3>3
    <3> QED BY <2>2, <3>3, <3>4 DEF HasDone
  <2> QED BY <2>2, <2>3, <2>4
<1> QED BY <1>1, <1>2

LEMMA FourOf ==
  ASSUME NEW a, NEW b, NEW c, NEW d
  PROVE  /\ Len(<<a, b, c, d>>) = 4 /\ <<a, b, c, d>>[1] = a /\ <<a, b, c, d>>[2] = b
         /\ <<a, b, c, d>>[3] = c /\ <<a, b, c, d>>[4] = d
OBVIOUS

LEMMA PartsAre ==
  ASSUME NEW b \in Seq(Piece), NEW x, NEW y, NEW z, NEW w
  PROVE  Events!Parts(b) = <<x, y, z, w>> <=>
           Len(b) = 4 /\ b[1].part = x /\ b[2].part = y /\ b[3].part = z /\ b[4].part = w
<1>1. Events!Parts(b) = [i \in 1..Len(b) |-> b[i].part] /\ Len(b) \in Nat
  BY DEF Events!Parts
<1>2. Len(Events!Parts(b)) = Len(b) /\ \A i \in 1..Len(b) : Events!Parts(b)[i] = b[i].part
  BY <1>1
<1>3. ASSUME Events!Parts(b) = <<x, y, z, w>>
      PROVE  Len(b) = 4 /\ b[1].part = x /\ b[2].part = y /\ b[3].part = z /\ b[4].part = w
  <2>1. Len(b) = 4 BY <1>2, <1>3, FourOf
  <2>2. /\ Events!Parts(b)[1] = b[1].part /\ Events!Parts(b)[2] = b[2].part
             /\ Events!Parts(b)[3] = b[3].part
        /\ Events!Parts(b)[4] = b[4].part
    BY <1>2, <2>1
  <2> QED BY <1>3, <2>1, <2>2, FourOf
<1>4. ASSUME Len(b) = 4, b[1].part = x, b[2].part = y, b[3].part = z, b[4].part = w
      PROVE  Events!Parts(b) = <<x, y, z, w>>
  <2>1. Events!Parts(b) = [i \in 1..4 |-> b[i].part] BY <1>1, <1>4
  <2>2. <<x, y, z, w>> = [i \in 1..4 |-> b[i].part] BY <1>4
  <2> QED BY <2>1, <2>2
<1> QED BY <1>3, <1>4

LEMMA ProcessIs ==
  ASSUME NEW s \in Seq(Piece)
  PROVE  /\ HasDone(s) => Events!Process(s) = [buffer |-> <<>>, completed |-> TRUE,
              out |-> <<"message_stop">>]
         /\ ~HasDone(s) /\ HasWhole(s) =>
              Events!Process(s) = [buffer |-> <<>>, completed |-> FALSE,
                            out |-> Events!Transformed(CHOOSE d \in Events!Trim(s)[3].of : TRUE)]
         /\ ~HasDone(s) /\ ~HasWhole(s) =>
              Events!Process(s) = [buffer |-> IF Begins(s) THEN s ELSE <<>>, completed |-> FALSE,
                out |-> <<>>]
<1> DEFINE b == Events!Trim(s)
           p == Events!Parts(b)
<1>1. b \in Seq(Piece) /\ (HasDone(b) <=> HasDone(s))
  BY TrimmedIs
<1>2. p = [i \in 1..Len(b) |-> b[i].part]
  BY DEF Events!Parts
<1>3. Len(p) = Len(b) /\ \A i \in 1..Len(b) : p[i] = b[i].part
  BY <1>1, <1>2
<1>4. (\E i \in 1..Len(p) : p[i] = "[DONE]") <=> HasDone(s)
  BY <1>1, <1>3 DEF HasDone
<1>5. (p = <<"da", "ta:", "left", "right">> /\ b[3].of = b[4].of) <=> HasWhole(s)
  <2>1. p = <<"da", "ta:", "left", "right">> <=>
          Len(b) = 4 /\ b[1].part = "da" /\ b[2].part = "ta:" /\ b[3].part = "left" /\ b[4].part = "right"
    <3> HIDE DEF b
    <3>1. b \in Seq(Piece) BY <1>1
    <3> HIDE DEF p
    <3>2. Events!Parts(b) = <<"da", "ta:", "left", "right">> <=>
          Len(b) = 4 /\ b[1].part = "da" /\ b[2].part = "ta:" /\ b[3].part = "left" /\ b[4].part = "right"
      <4>1. \A x, y, z, w : Events!Parts(b) = <<x, y, z, w>> <=>
              Len(b) = 4 /\ b[1].part = x /\ b[2].part = y /\ b[3].part = z /\ b[4].part = w
        BY <3>1, PartsAre
      <4>2. \A y, z, w : Events!Parts(b) = <<"da", y, z, w>> <=>
              Len(b) = 4 /\ b[1].part = "da" /\ b[2].part = y /\ b[3].part = z /\ b[4].part = w
        BY <4>1, Zenon
      <4> QED BY <4>2, Zenon
    <3> QED BY <3>2 DEF p
  <2> QED BY <2>1 DEF HasWhole
<1>6. (Len(p) > 1 /\ p[1] = "da" /\ p[2] = "ta:") <=> Begins(s)
  BY <1>1, <1>3 DEF Begins
<1> QED BY <1>4, <1>5, <1>6 DEF Events!Process

LEMMA EmptyHasNothing == <<>> \in Seq(Piece) /\ ~HasDone(<<>>) /\ ~HasWhole(<<>>)
<1>1. <<>> \in Seq(Piece) /\ ~HasDone(<<>>) /\ Len(<<>>) = 0 /\ \A i \in 1..Len(<<>>) : FALSE
  BY DEF HasDone
<1>2. Events!Trim(<<>>) = <<>>
  BY <1>1 DEF Events!Trim
<1>3. Len(<<>>) # 4
  OBVIOUS
<1> QED BY <1>1, <1>2, <1>3 DEF HasWhole

\* An event that is whole ends with its second half.
LEMMA WholeEnds ==
  ASSUME NEW s \in Seq(Piece), HasWhole(s)
  PROVE  \E l \in 1..Len(s) : /\ s[l].part = "right" /\ Events!Trim(s)[3].of = s[l].of
                            /\ \A i \in 1..Len(s) : i > l => s[i].part = "nn"
<1>1. PICK k \in 1..Len(s) : s[k].part # "nn"
  <2>1. SUFFICES ASSUME \A k \in 1..Len(s) : s[k].part = "nn" PROVE FALSE OBVIOUS
  <2>2. Events!Trim(s) = <<>> BY <2>1, TrimNothing
  <2>3. Len(<<>>) # 4 OBVIOUS
  <2> QED BY <2>2, <2>3 DEF HasWhole
<1>2. PICK f, l \in 1..Len(s) :
         /\ f <= k /\ k <= l /\ s[f].part # "nn" /\ s[l].part # "nn"
         /\ \A i \in 1..Len(s) : s[i].part # "nn" => f <= i /\ i <= l
         /\ Events!Trim(s) = SubSeq(s, f, l)
  BY <1>1, TrimIs
<1> DEFINE b == Events!Trim(s)
<1>3. b \in Seq(Piece) /\ Len(b) = l - f + 1 /\ \A i \in 1..l - f + 1 : b[i] = s[f + i - 1]
  BY <1>2, SliceIs
<1>5. Len(b) = 4 /\ b[4].part = "right" /\ b[3].of = b[4].of
  BY DEF HasWhole
<1> HIDE DEF b
<1>6. l - f + 1 = 4 /\ 4 \in 1..4 /\ f + 4 - 1 = l
  <2>1. l - f + 1 = 4 BY <1>3, <1>5
  <2>2. f \in Int /\ l \in Int OBVIOUS
  <2> QED BY <2>1, <2>2
<1>7. b[4] = s[l]
  BY <1>3, <1>6
<1>8. \A i \in 1..Len(s) : i > l => s[i].part = "nn"
  BY <1>2
<1> QED BY <1>5, <1>7, <1>8 DEF b

\* What is new in the buffer is what makes an event come out.
LEMMA ProcessTells ==
  ASSUME NEW s \in Seq(Piece), NEW t \in Seq(Piece), ~HasDone(s), ~HasWhole(s)
  PROVE  LET r == Events!Process(s \o t)
         IN /\ r.buffer \in Seq(Piece) /\ ~HasDone(r.buffer) /\ ~HasWhole(r.buffer)
            /\ \/ r.out = <<>>
               \/ HasDone(t) /\ r.out = <<"message_stop">>
               \/ \E l \in 1..Len(t) : /\ t[l].part = "right"
                    /\ r.out = Events!Transformed(CHOOSE d \in t[l].of : TRUE)
                                     /\ \A i \in 1..Len(t) : i > l => t[i].part = "nn"
<1> DEFINE u == s \o t
           r == Events!Process(u)
<1>1. /\ u \in Seq(Piece) /\ Len(u) = Len(s) + Len(t)
      /\ \A i \in 1..Len(s) : u[i] = s[i]
      /\ \A i \in 1..Len(s) + Len(t) : i > Len(s) => i - Len(s) \in 1..Len(t) /\ u[i] = t[i - Len(s)]
  BY JoinIs
<1>2. Len(s) \in Nat /\ Len(t) \in Nat
  OBVIOUS
<1>3. HasWhole(u) => \E i \in 1..Len(t) : t[i].part # "nn"
  BY TrimTail DEF HasWhole
<1> HIDE DEF u
<1>4. CASE HasDone(u)
  <2>3. r = [buffer |-> <<>>, completed |-> TRUE, out |-> <<"message_stop">>]
    BY <1>1, <1>4, ProcessIs
  <2>1. r.buffer = <<>> /\ r.out = <<"message_stop">> BY <2>3
  <2>2. HasDone(t)
    <3>1. PICK i \in 1..Len(u) : u[i].part = "[DONE]" BY <1>4 DEF HasDone
    <3>2. i \notin 1..Len(s) BY <1>1, <3>1 DEF HasDone
    <3>3. i - Len(s) \in 1..Len(t) /\ u[i] = t[i - Len(s)] BY <1>1, <1>2, <3>2
    <3> QED BY <3>1, <3>3 DEF HasDone
  <2> QED BY <2>1, <2>2, EmptyHasNothing DEF u
<1>5. CASE ~HasDone(u) /\ HasWhole(u)
  <2>9. r = [buffer |-> <<>>, completed |-> FALSE,
          out |-> Events!Transformed(CHOOSE d \in Events!Trim(u)[3].of : TRUE)]
    BY <1>1, <1>5, ProcessIs
  <2>1. r.buffer = <<>> /\ r.out = Events!Transformed(CHOOSE d \in Events!Trim(u)[3].of : TRUE)
    BY <2>9
  <2>2. PICK m \in 1..Len(u) : /\ u[m].part = "right" /\ Events!Trim(u)[3].of = u[m].of
                               /\ \A i \in 1..Len(u) : i > m => u[i].part = "nn"
    BY <1>1, <1>5, WholeEnds
  <2>3. PICK k \in 1..Len(t) : t[k].part # "nn" BY <1>3, <1>5
  <2>4. \A i \in 1..Len(t) : Len(s) + i \in 1..Len(u) /\ Len(s) + i > Len(s) /\ u[Len(s) + i] = t[i]
    <3> SUFFICES ASSUME NEW i \in 1..Len(t)
                 PROVE  Len(s) + i \in 1..Len(u) /\ Len(s) + i > Len(s) /\ u[Len(s) + i] = t[i]
      OBVIOUS
    <3>1. Len(s) + i \in 1..Len(u) /\ Len(s) + i > Len(s) /\ (Len(s) + i) - Len(s) = i
      BY <1>1, <1>2
    <3> QED BY <1>1, <3>1
  <2>5. Len(s) + k <= m
    <3>1. ~(Len(s) + k > m) BY <2>2, <2>3, <2>4
    <3> QED BY <1>1, <1>2, <3>1
  <2>6. m - Len(s) \in 1..Len(t) /\ u[m] = t[m - Len(s)] BY <1>1, <1>2, <2>5
  <2>7. \A i \in 1..Len(t) : i > m - Len(s) => t[i].part = "nn"
    <3> SUFFICES ASSUME NEW i \in 1..Len(t), i > m - Len(s) PROVE t[i].part = "nn" OBVIOUS
    <3>1. Len(s) + i > m BY <1>1, <1>2
    <3> QED BY <2>2, <2>4, <3>1
  <2>8. t[m - Len(s)].part = "right" /\ r.out = Events!Transformed(CHOOSE d \in t[m - Len(s)].of : TRUE)
    BY <2>1, <2>2, <2>6
  <2> QED BY <2>1, <2>6, <2>7, <2>8, EmptyHasNothing DEF u
<1>6. CASE ~HasDone(u) /\ ~HasWhole(u)
  <2>1. r = [buffer |-> IF Begins(u) THEN u ELSE <<>>, completed |-> FALSE, out |-> <<>>]
    BY <1>1, <1>6, ProcessIs
  <2>2. r.buffer \in {u, <<>>} /\ r.out = <<>> BY <2>1
  <2> QED BY <1>1, <1>6, <2>2, EmptyHasNothing DEF u
<1> QED BY <1>4, <1>5, <1>6

-----------------------------------------------------------------------------
(* The pieces of an event, and stretches of them.                          *)

LEMMA DoneHoldsMark == ASSUME NEW d \in Events!Done PROVE Events!HoldsMark(d)
BY DEF Events!Done, Events!HoldsMark

LEMMA PieceAt ==
  ASSUME NEW d \in Events!Delta \cup Events!Done, NEW i \in 1..Key(d) + 1
  PROVE  /\ Events!Pieces(d)[i] \in Piece
         /\ Events!Pieces(d)[i].part = "[DONE]" <=> Events!HoldsMark(d) /\ i = Key(d)
         /\ Events!Pieces(d)[i].part = "right" <=> ~Events!HoldsMark(d) /\ i = Key(d)
         /\ Events!Pieces(d)[i].part = "right" => Events!Pieces(d)[i].of = {d}
         /\ Events!Pieces(d)[i].part = "nn" <=> i = Key(d) + 1
<1>1. Events!Pieces(d)[i] \in Piece
  <2>1. Events!Pieces(d) \in Seq(Piece) /\ Len(Events!Pieces(d)) = Key(d) + 1 BY PiecesOf
  <2> QED BY <2>1
<1> DEFINE p == Events!Pieces(d)[i].part
<1>2. CASE d \in Events!Done
  <2>1. Key(d) = 3 BY <1>2 DEF Key
  <2>2. (i = 1 /\ p = "da") \/ (i = 2 /\ p = "ta:") \/ (i = 3 /\ p = "[DONE]") \/ (i = 4 /\ p = "nn")
    <3>1. i \in {1, 2, 3, 4} BY <2>1
    <3>2. /\ Events!Pieces(d)[1].part = "da" /\ Events!Pieces(d)[2].part = "ta:"
               /\ Events!Pieces(d)[3].part = "[DONE]"
          /\ Events!Pieces(d)[4].part = "nn"
      BY <1>2, PiecesOf
    <3> QED BY <3>1, <3>2
  <2> HIDE DEF p
  <2>3. /\ p = "[DONE]" <=> i = 3
        /\ p # "right"
        /\ p = "nn" <=> i = 4
    <3>1. CASE i = 1 /\ p = "da" BY <3>1
    <3>2. CASE i = 2 /\ p = "ta:" BY <3>2
    <3>3. CASE i = 3 /\ p = "[DONE]" BY <3>3
    <3>4. CASE i = 4 /\ p = "nn" BY <3>4
    <3> QED BY <2>2, <3>1, <3>2, <3>3, <3>4
  <2>5. Events!HoldsMark(d)
    BY <1>2, DoneHoldsMark
  <2>4. /\ p = "[DONE]" <=> Events!HoldsMark(d) /\ i = Key(d)
        /\ p = "right" <=> ~Events!HoldsMark(d) /\ i = Key(d)
        /\ p = "nn" <=> i = Key(d) + 1
    BY <1>2, <2>1, <2>3, <2>5
  <2> QED BY <1>1, <2>3, <2>4 DEF p
<1>3. CASE d \notin Events!Done
  <2>1. Key(d) = 4 BY <1>3 DEF Key
  <2>2. \/ (i = 1 /\ p = "da") \/ (i = 2 /\ p = "ta:") \/ (i = 3 /\ p = "left")
        \/ (i = 4 /\ p = (IF Events!HoldsMark(d) THEN "[DONE]" ELSE "right")) \/ (i = 5 /\ p = "nn")
    <3>1. i \in {1, 2, 3, 4, 5} BY <2>1
    <3>2. /\ Events!Pieces(d)[1].part = "da" /\ Events!Pieces(d)[2].part = "ta:"
               /\ Events!Pieces(d)[3].part = "left"
          /\ Events!Pieces(d)[4].part = (IF Events!HoldsMark(d) THEN "[DONE]" ELSE "right")
          /\ Events!Pieces(d)[5].part = "nn"
      BY <1>3, PiecesOf
    <3> QED BY <3>1, <3>2
  <2>4. Events!Pieces(d)[4].of = {d} BY <1>3, PiecesOf
  <2> HIDE DEF p
  <2>3. /\ p = "[DONE]" <=> Events!HoldsMark(d) /\ i = 4
        /\ p = "right" <=> ~Events!HoldsMark(d) /\ i = 4
        /\ p = "nn" <=> i = 5
    <3>1. CASE i = 1 /\ p = "da" BY <3>1
    <3>2. CASE i = 2 /\ p = "ta:" BY <3>2
    <3>3. CASE i = 3 /\ p = "left" BY <3>3
    <3>4. CASE i = 4 /\ p = (IF Events!HoldsMark(d) THEN "[DONE]" ELSE "right") BY <3>4
    <3>5. CASE i = 5 /\ p = "nn" BY <3>5
    <3> QED BY <2>2, <3>1, <3>2, <3>3, <3>4, <3>5
  <2>5. /\ p = "[DONE]" <=> Events!HoldsMark(d) /\ i = Key(d)
        /\ p = "right" <=> ~Events!HoldsMark(d) /\ i = Key(d)
        /\ p = "nn" <=> i = Key(d) + 1
    BY <1>3, <2>1, <2>3
  <2>6. p = "right" => Events!Pieces(d)[i].of = {d}
    BY <2>3, <2>4
  <2> QED BY <1>1, <2>5, <2>6 DEF p
<1> QED BY <1>2, <1>3

LEMMA SliceFrom ==
  ASSUME NEW s \in Seq(Piece), NEW c \in 0..Len(s), NEW n \in 0..Len(s) - c
  PROVE  /\ SubSeq(s, c + 1, c + n) \in Seq(Piece) /\ Len(SubSeq(s, c + 1, c + n)) = n
         /\ \A i \in 1..n : SubSeq(s, c + 1, c + n)[i] = s[c + i]
<1>1. c + 1 \in 1..Len(s) + 1 /\ c + n \in 0..Len(s) /\ c + 1 <= (c + n) + 1
  OBVIOUS
<1>2. /\ SubSeq(s, c + 1, c + n) \in Seq(Piece) /\ Len(SubSeq(s, c + 1, c + n)) = (c + n) - (c + 1) + 1
      /\ \A i \in 1..(c + n) - (c + 1) + 1 : SubSeq(s, c + 1, c + n)[i] = s[(c + 1) + i - 1]
  BY <1>1, SliceIs
<1>3. (c + n) - (c + 1) + 1 = n /\ \A i \in 1..n : (c + 1) + i - 1 = c + i
  OBVIOUS
<1> QED BY <1>2, <1>3

LEMMA SliceFirst ==
  ASSUME NEW s \in Seq(Piece), NEW n \in 0..Len(s)
  PROVE  /\ SubSeq(s, 1, n) \in Seq(Piece) /\ Len(SubSeq(s, 1, n)) = n
         /\ \A i \in 1..n : SubSeq(s, 1, n)[i] = s[i]
<1>1. 0 \in 0..Len(s) /\ n \in 0..Len(s) - 0 /\ 0 + 1 = 1 /\ 0 + n = n /\ \A i \in 1..n : 0 + i = i
  OBVIOUS
<1>2. /\ SubSeq(s, 0 + 1, 0 + n) \in Seq(Piece) /\ Len(SubSeq(s, 0 + 1, 0 + n)) = n
      /\ \A i \in 1..n : SubSeq(s, 0 + 1, 0 + n)[i] = s[0 + i]
  BY <1>1, SliceFrom
<1> QED BY <1>1, <1>2

LEMMA SliceLast ==
  ASSUME NEW s \in Seq(Piece), NEW c \in 0..Len(s)
  PROVE  /\ SubSeq(s, c + 1, Len(s)) \in Seq(Piece) /\ Len(SubSeq(s, c + 1, Len(s))) = Len(s) - c
         /\ \A i \in 1..Len(s) - c : SubSeq(s, c + 1, Len(s))[i] = s[c + i]
<1>1. Len(s) - c \in 0..Len(s) - c /\ c + (Len(s) - c) = Len(s)
  OBVIOUS
<1> DEFINE n == Len(s) - c
<1>2. /\ SubSeq(s, c + 1, c + n) \in Seq(Piece) /\ Len(SubSeq(s, c + 1, c + n)) = n
      /\ \A i \in 1..n : SubSeq(s, c + 1, c + n)[i] = s[c + i]
  BY <1>1, SliceFrom
<1> QED BY <1>1, <1>2

LEMMA SliceOfSlice ==
  ASSUME NEW s \in Seq(Piece), NEW c \in 0..Len(s), NEW n \in 0..Len(s) - c
  PROVE  LET rest == SubSeq(s, c + 1, Len(s))
         IN /\ SubSeq(rest, 1, n) = SubSeq(s, c + 1, c + n)
            /\ SubSeq(rest, n + 1, Len(rest)) = SubSeq(s, c + n + 1, Len(s))
<1> DEFINE rest == SubSeq(s, c + 1, Len(s))
           b == SubSeq(s, c + 1, c + n)
           e == SubSeq(s, (c + n) + 1, Len(s))
<1>1. rest \in Seq(Piece) /\ Len(rest) = Len(s) - c /\ \A i \in 1..Len(s) - c : rest[i] = s[c + i]
  BY SliceLast
<1>2. b \in Seq(Piece) /\ Len(b) = n /\ \A i \in 1..n : b[i] = s[c + i]
  BY SliceFrom
<1>3. c + n \in 0..Len(s) /\ Len(s) \in Nat /\ n \in 0..Len(s) - c
  OBVIOUS
<1>4. /\ e \in Seq(Piece) /\ Len(e) = Len(s) - (c + n)
      /\ \A i \in 1..Len(s) - (c + n) : e[i] = s[(c + n) + i]
  BY <1>3, SliceLast
<1> HIDE DEF rest, b, e
<1>5. SubSeq(rest, 1, n) = b
  <2>1. /\ SubSeq(rest, 1, n) \in Seq(Piece) /\ Len(SubSeq(rest, 1, n)) = n
        /\ \A i \in 1..n : SubSeq(rest, 1, n)[i] = rest[i]
    BY <1>1, <1>3, SliceFirst
  <2>2. \A i \in 1..n : i \in 1..Len(s) - c BY <1>3
  <2> DEFINE x == SubSeq(rest, 1, n)
  <2>3. \A i \in 1..n : x[i] = b[i] BY <1>1, <1>2, <2>1, <2>2
  <2>4. x \in Seq(Piece) /\ Len(x) = Len(b) BY <1>2, <2>1
  <2> HIDE DEF x
  <2>5. x = b BY <1>2, <2>3, <2>4, SeqEqual
  <2> QED BY <2>5 DEF x
<1>6. SubSeq(rest, n + 1, Len(rest)) = e
  <2> DEFINE last == SubSeq(rest, n + 1, Len(rest))
  <2>1. last \in Seq(Piece) /\ Len(last) = Len(rest) - n
          /\ \A i \in 1..Len(rest) - n : last[i] = rest[n + i]
    <3>1. n \in 0..Len(rest) BY <1>1, <1>3
    <3> QED BY <1>1, <3>1, SliceLast
  <2> HIDE DEF last
  <2>2. Len(rest) - n = Len(e) BY <1>1, <1>3, <1>4
  <2>3. \A i \in 1..Len(e) : n + i \in 1..Len(s) - c /\ c + (n + i) = (c + n) + i BY <1>3, <1>4
  <2>4. \A i \in 1..Len(e) : last[i] = e[i] BY <1>1, <1>4, <2>1, <2>2, <2>3
  <2>5. last = e BY <1>4, <2>1, <2>2, <2>4, SeqEqual
  <2> QED BY <2>5 DEF last
<1> QED BY <1>5, <1>6 DEF rest, b, e

LEMMA SlicesJoin ==
  ASSUME NEW s \in Seq(Piece), NEW c \in 0..Len(s), NEW n \in 0..Len(s) - c
  PROVE  SubSeq(s, 1, c) \o SubSeq(s, c + 1, c + n) = SubSeq(s, 1, c + n)
<1> DEFINE a == SubSeq(s, 1, c)
           b == SubSeq(s, c + 1, c + n)
           u == SubSeq(s, 1, c + n)
<1>1. a \in Seq(Piece) /\ Len(a) = c /\ \A i \in 1..c : a[i] = s[i]
  BY SliceFirst
<1>2. b \in Seq(Piece) /\ Len(b) = n /\ \A i \in 1..n : b[i] = s[c + i]
  BY SliceFrom
<1>3. c + n \in 0..Len(s) /\ c \in Nat /\ n \in Nat
  OBVIOUS
<1>4. u \in Seq(Piece) /\ Len(u) = c + n /\ \A i \in 1..c + n : u[i] = s[i]
  BY <1>3, SliceFirst
<1> HIDE DEF a, b, u
<1> DEFINE t == a \o b
<1>5. /\ t \in Seq(Piece) /\ Len(t) = Len(a) + Len(b)
      /\ \A i \in 1..Len(a) : t[i] = a[i]
      /\ \A i \in 1..Len(a) + Len(b) : i > Len(a) => i - Len(a) \in 1..Len(b) /\ t[i] = b[i - Len(a)]
  BY <1>1, <1>2, JoinIs, ZenonT(30)
<1> HIDE DEF t
<1>6. ASSUME NEW i \in 1..c + n PROVE t[i] = u[i]
  <2>1. CASE i <= c
    <3>1. i \in 1..c BY <1>3, <2>1
    <3> QED BY <1>1, <1>4, <1>5, <3>1
  <2>2. CASE i > c
    <3>1. i - c \in 1..n /\ t[i] = b[i - c] BY <1>1, <1>2, <1>5, <2>2
    <3>2. c + (i - c) = i BY <1>3
    <3> QED BY <1>2, <1>4, <3>1, <3>2
  <2>3. i <= c \/ i > c BY <1>3
  <2> QED BY <2>1, <2>2, <2>3
<1>7. t = u
  BY <1>1, <1>2, <1>4, <1>5, <1>6, SeqEqual
<1> QED BY <1>7 DEF a, b, u, t

-----------------------------------------------------------------------------
(* A chunk of an event, and the end of one with the next.                  *)

\* A stretch of an event makes that event come out, and only if it ends it.
LEMMA SliceTells ==
  ASSUME NEW s \in Seq(Piece), ~HasDone(s), ~HasWhole(s),
         NEW d \in Events!Delta \cup Events!Done, NEW c \in 0..Key(d) + 1, NEW n \in 0..Key(d) + 1 - c
  PROVE  LET r == Events!Process(s \o SubSeq(Events!Pieces(d), c + 1, c + n))
         IN r.out = <<>> \/ (c < Key(d) /\ Key(d) <= c + n /\ r.out = Events!Outcome(d))
<1> DEFINE t == SubSeq(Events!Pieces(d), c + 1, c + n)
           r == Events!Process(s \o t)
<1>1. t \in Seq(Piece) /\ Len(t) = n /\ \A i \in 1..n : t[i] = Events!Pieces(d)[c + i]
  <2>1. Events!Pieces(d) \in Seq(Piece) /\ Len(Events!Pieces(d)) = Key(d) + 1 /\ Key(d) \in Nat
    BY PiecesOf DEF Key
  <2>2. c \in 0..Len(Events!Pieces(d)) /\ n \in 0..Len(Events!Pieces(d)) - c BY <2>1
  <2> QED BY <2>1, <2>2, SliceFrom
<1>2. Key(d) \in Nat /\ n \in Nat /\ c \in Nat /\ \A i \in 1..n : c + i \in 1..Key(d) + 1
  BY DEF Key
<1> HIDE DEF t
<1>3. \/ r.out = <<>>
      \/ HasDone(t) /\ r.out = <<"message_stop">>
      \/ \E l \in 1..Len(t) : t[l].part = "right" /\ r.out = Events!Transformed(CHOOSE e \in t[l].of : TRUE)
  BY <1>1, ProcessTells, ZenonT(30)
<1> HIDE DEF r
<1>4. CASE HasDone(t) /\ r.out = <<"message_stop">>
  <2>1. PICK i \in 1..n : t[i].part = "[DONE]" BY <1>1, <1>4 DEF HasDone
  <2>2. Events!HoldsMark(d) /\ c + i = Key(d) BY <1>1, <1>2, <2>1, PieceAt
  <2>3. c < Key(d) /\ Key(d) <= c + n BY <1>2, <2>2
  <2> QED BY <1>4, <2>2, <2>3 DEF Events!Outcome, r, t
<1>5. ASSUME NEW l \in 1..Len(t), t[l].part = "right",
               r.out = Events!Transformed(CHOOSE e \in t[l].of : TRUE)
      PROVE  c < Key(d) /\ Key(d) <= c + n /\ r.out = Events!Outcome(d)
  <2>1. l \in 1..n /\ t[l] = Events!Pieces(d)[c + l] BY <1>1
  <2>2. ~Events!HoldsMark(d) /\ c + l = Key(d) /\ t[l].of = {d} BY <1>2, <1>5, <2>1, PieceAt
  <2>3. c < Key(d) /\ Key(d) <= c + n BY <1>2, <2>1, <2>2, SMTT(30)
  <2>4. (CHOOSE e \in {d} : TRUE) = d OBVIOUS
  <2>5. r.out = Events!Transformed(d) BY <1>5, <2>2, <2>4
  <2> QED BY <2>2, <2>3, <2>5 DEF Events!Outcome
<1> QED BY <1>3, <1>4, <1>5 DEF r, t

\* The end of an event and the whole of the next make the next come out, or the first for
\* its mark, if any.
LEMMA TwoTell ==
  ASSUME NEW s \in Seq(Piece), ~HasDone(s), ~HasWhole(s),
         NEW d \in Events!Delta, NEW c \in 0..Key(d) + 1, NEW e \in Events!Delta \cup Events!Done
  PROVE  LET r == Events!Process(s \o SubSeq(Events!Pieces(d), c + 1, Key(d) + 1) \o Events!Pieces(e))
         IN r.out = <<>> \/ r.out = Events!Outcome(e) \/ (c < Key(d) /\ r.out = Events!Outcome(d))
<1> DEFINE b == SubSeq(Events!Pieces(d), c + 1, Key(d) + 1)
           p == Events!Pieces(e)
           t == b \o p
           r == Events!Process(s \o t)
<1>0. /\ Key(d) \in Nat /\ c \in Nat /\ Key(e) \in Nat
      /\ \A i \in 1..Key(d) + 1 - c : c + i \in 1..Key(d) + 1
  BY DEF Key
<1>1. b \in Seq(Piece) /\ Len(b) = Key(d) + 1 - c
        /\ \A i \in 1..Key(d) + 1 - c : b[i] = Events!Pieces(d)[c + i]
  <2>1. Events!Pieces(d) \in Seq(Piece) /\ Len(Events!Pieces(d)) = Key(d) + 1 /\ Key(d) \in Nat
    BY PiecesOf DEF Key
  <2>2. c \in 0..Len(Events!Pieces(d)) BY <2>1
  <2> DEFINE x == SubSeq(Events!Pieces(d), c + 1, Len(Events!Pieces(d)))
  <2>3. x \in Seq(Piece) /\ Len(x) = Len(Events!Pieces(d)) - c
          /\ \A i \in 1..Len(Events!Pieces(d)) - c : x[i] = Events!Pieces(d)[c + i]
    BY <2>1, <2>2, SliceLast
  <2>4. x = b BY <2>1
  <2> HIDE DEF x, b
  <2> QED BY <2>1, <2>3, <2>4
<1>2. p \in Seq(Piece) /\ Len(p) = Key(e) + 1 /\ p[1].part = "da"
  BY PiecesOf
<1> HIDE DEF b, p
<1>3. Events!Process(s \o b \o p) = r
  <2>1. s \in Seq(Piece) /\ b \in Seq(Piece) /\ p \in Seq(Piece) BY <1>1, <1>2
  <2>2. \A x, y, z \in Seq(Piece) : (x \o y) \o z = x \o (y \o z) BY ConcatAssociative
  <2>3. (s \o b) \o p = s \o (b \o p) BY <2>1, <2>2, Zenon
  <2> QED BY <2>3
<1>4. /\ t \in Seq(Piece) /\ Len(t) = Len(b) + Len(p)
      /\ \A i \in 1..Len(b) : t[i] = b[i]
      /\ \A i \in 1..Len(b) + Len(p) : i > Len(b) => i - Len(b) \in 1..Len(p) /\ t[i] = p[i - Len(b)]
  BY <1>1, <1>2, JoinIs
<1> HIDE DEF t
<1>5. \/ r.out = <<>>
      \/ HasDone(t) /\ r.out = <<"message_stop">>
      \/ \E l \in 1..Len(t) : /\ t[l].part = "right"
           /\ r.out = Events!Transformed(CHOOSE x \in t[l].of : TRUE)
                            /\ \A i \in 1..Len(t) : i > l => t[i].part = "nn"
  BY <1>4, ProcessTells
<1> HIDE DEF r
<1>6. ASSUME HasDone(t), r.out = <<"message_stop">>
      PROVE  r.out = Events!Outcome(e) \/ (c < Key(d) /\ r.out = Events!Outcome(d))
  <2>1. PICK i \in 1..Len(t) : t[i].part = "[DONE]" BY <1>6 DEF HasDone
  <2>2. CASE i \in 1..Len(b)
    <3>1. i \in Nat \ {0} BY <2>2
    <3>2. t[i] = Events!Pieces(d)[c + i] /\ c + i \in 1..Key(d) + 1 BY <1>0, <1>1, <1>4, <2>2
    <3>3. Events!HoldsMark(d) /\ c + i = Key(d) BY <2>1, <3>2, PieceAt
    <3>4. c < Key(d) BY <1>0, <3>1, <3>3
    <3> QED BY <1>6, <3>3, <3>4 DEF Events!Outcome
  <2>3. CASE i \notin 1..Len(b)
    <3>1. Len(b) \in Nat /\ Len(t) = Len(b) + Len(p) BY <1>0, <1>1, <1>4
    <3>2. i > Len(b) BY <2>3, <3>1
    <3>3. i - Len(b) \in 1..Len(p) /\ t[i] = p[i - Len(b)] BY <1>4, <3>1, <3>2
    <3>4. Events!HoldsMark(e) BY <1>2, <2>1, <3>3, PieceAt DEF p
    <3> QED BY <1>6, <3>4 DEF Events!Outcome
  <2> QED BY <2>2, <2>3
<1>7. ASSUME NEW l \in 1..Len(t), t[l].part = "right",
               r.out = Events!Transformed(CHOOSE x \in t[l].of : TRUE),
             \A i \in 1..Len(t) : i > l => t[i].part = "nn"
      PROVE  r.out = Events!Outcome(e)
  <2>1. l > Len(b)
    <3>1. Len(b) + 1 \in 1..Len(t) /\ Len(b) + 1 > Len(b) /\ (Len(b) + 1) - Len(b) = 1
      <4>1. Len(b) \in Nat /\ Len(p) \in Nat \ {0} BY <1>0, <1>1, <1>2
      <4>2. Len(t) = Len(b) + Len(p) BY <1>4
      <4> HIDE DEF t
      <4> QED BY <4>1, <4>2
    <3>2. t[Len(b) + 1] = p[1] BY <1>4, <3>1
    <3>3. ~(Len(b) + 1 > l) BY <1>2, <1>7, <3>1, <3>2
    <3> QED BY <1>0, <1>1, <3>3
  <2>2. l - Len(b) \in 1..Key(e) + 1 /\ t[l] = p[l - Len(b)] BY <1>2, <1>4, <2>1
  <2>3. ~Events!HoldsMark(e) /\ t[l].of = {e} BY <1>7, <2>2, PieceAt DEF p
  <2>4. (CHOOSE x \in {e} : TRUE) = e OBVIOUS
  <2>5. r.out = Events!Transformed(e) BY <1>7, <2>3, <2>4
  <2> QED BY <2>3, <2>5 DEF Events!Outcome
<1>8. r.out = <<>> \/ r.out = Events!Outcome(e) \/ (c < Key(d) /\ r.out = Events!Outcome(d))
  BY <1>5, <1>6, <1>7
<1> QED BY <1>3, <1>8 DEF b, p

\* The begin of an event: it waits, or it is whole and comes out.
LEMMA PrefixProcess ==
  ASSUME NEW d \in Events!Delta \cup Events!Done, NEW m \in 1..Key(d) + 1
  PROVE  LET s == SubSeq(Events!Pieces(d), 1, m)
         IN /\ m < Key(d) => Events!Process(s).out = <<>> /\ (m > 1 => Events!Process(s).buffer = s)
            /\ m >= Key(d) => Events!Process(s).out = Events!Outcome(d) /\ Events!Process(s).buffer = <<>>
<1> DEFINE s == SubSeq(Events!Pieces(d), 1, m)
<1>1. Events!Pieces(d) \in Seq(Piece) /\ Len(Events!Pieces(d)) = Key(d) + 1 /\ Key(d) \in {3, 4}
  BY PiecesOf DEF Key
<1>2. s \in Seq(Piece) /\ Len(s) = m /\ \A i \in 1..m : s[i] = Events!Pieces(d)[i]
  BY <1>1, SliceFirst
<1> DEFINE l == IF m < Key(d) THEN m ELSE Key(d)
<1>3. l \in 1..m /\ l \in 1..Key(d) /\ 1 \in 1..m
  BY <1>1
<1> HIDE DEF s
<1>4. Events!Trim(s) = SubSeq(s, 1, l)
  <2>1. \A i \in 1..m : i \in 1..Key(d) + 1 BY <1>1
  <2>2. s[1].part # "nn" /\ s[l].part # "nn" BY <1>1, <1>2, <1>3, <2>1, PieceAt
  <2>3. \A i \in 1..m : s[i].part # "nn" => 1 <= i /\ i <= l BY <1>1, <1>2, <2>1, PieceAt
  <2> HIDE DEF l
  <2> QED BY <1>2, <1>3, <2>2, <2>3, TrimOf
<1>5. Len(Events!Trim(s)) = l /\ \A i \in 1..l : Events!Trim(s)[i] = Events!Pieces(d)[i]
  <2> HIDE DEF l
  <2>1. l \in 0..Len(s) BY <1>2, <1>3
  <2> QED BY <1>2, <1>3, <1>4, <2>1, SliceFirst
<1>6. HasDone(s) <=> Events!HoldsMark(d) /\ m >= Key(d)
  <2>1. \A i \in 1..m : i \in 1..Key(d) + 1 BY <1>1
  <2>2. \A i \in 1..m : s[i].part = "[DONE]" <=> Events!HoldsMark(d) /\ i = Key(d)
    BY <1>2, <2>1, PieceAt
  <2> QED BY <1>1, <1>2, <2>2 DEF HasDone
<1>7. CASE m < Key(d)
  <2>1. l = m /\ l # 4 BY <1>1, <1>7
  <2>2. ~HasDone(s) /\ ~HasWhole(s) BY <1>1, <1>5, <1>6, <1>7, <2>1 DEF HasWhole
  <2>3. m > 1 => Begins(s)
    <3>1. SUFFICES ASSUME m > 1 PROVE Begins(s) OBVIOUS
    <3>2. Events!Trim(s)[1] = Events!Pieces(d)[1] /\ Events!Trim(s)[2] = Events!Pieces(d)[2]
      BY <1>5, <2>1, <3>1
    <3> QED BY <1>5, <2>1, <3>1, <3>2, PiecesOf DEF Begins
  <2>4. Events!Process(s) = [buffer |-> IF Begins(s) THEN s ELSE <<>>, completed |-> FALSE, out |-> <<>>]
    BY <1>2, <2>2, ProcessIs
  <2>5. Events!Process(s).out = <<>> /\ (m > 1 => Events!Process(s).buffer = s) BY <2>3, <2>4
  <2> QED BY <1>1, <1>7, <2>5 DEF s
<1>8. CASE m >= Key(d) /\ Events!HoldsMark(d)
  <2>1. Events!Process(s) = [buffer |-> <<>>, completed |-> TRUE, out |-> <<"message_stop">>]
    BY <1>2, <1>6, <1>8, ProcessIs
  <2>2. Events!Process(s).out = Events!Outcome(d) /\ Events!Process(s).buffer = <<>>
    BY <1>8, <2>1 DEF Events!Outcome
  <2> QED BY <1>1, <1>8, <2>2 DEF s
<1>9. CASE m >= Key(d) /\ ~Events!HoldsMark(d)
  <2>8. d \notin Events!Done BY <1>9, DoneHoldsMark
  <2>1. l = 4 BY <1>9, <2>8 DEF Key
  <2>2. /\ Events!Trim(s)[1] = Events!Pieces(d)[1] /\ Events!Trim(s)[2] = Events!Pieces(d)[2]
             /\ Events!Trim(s)[3] = Events!Pieces(d)[3]
        /\ Events!Trim(s)[4] = Events!Pieces(d)[4]
    BY <1>5, <2>1
  <2>3. HasWhole(s) /\ ~HasDone(s) /\ Events!Trim(s)[3].of = {d}
    BY <1>5, <1>6, <1>9, <2>1, <2>2, <2>8, PiecesOf, ZenonT(30) DEF HasWhole
  <2>4. Events!Process(s) = [buffer |-> <<>>, completed |-> FALSE,
                      out |-> Events!Transformed(CHOOSE x \in Events!Trim(s)[3].of : TRUE)]
    BY <1>2, <2>3, ProcessIs
  <2>5. (CHOOSE x \in {d} : TRUE) = d OBVIOUS
  <2>6. Events!Process(s).out = Events!Transformed(d) /\ Events!Process(s).buffer = <<>>
    BY <2>3, <2>4, <2>5
  <2>7. Events!Process(s).out = Events!Outcome(d) BY <1>9, <2>6 DEF Events!Outcome
  <2> QED BY <1>1, <1>9, <2>6, <2>7 DEF s
<1> QED BY <1>1, <1>7, <1>8, <1>9

\* A blank line alone.
LEMMA BlankProcess ==
  ASSUME NEW t \in Seq(Piece), \A i \in 1..Len(t) : t[i].part = "nn"
  PROVE  Events!Process(t).out = <<>> /\ Events!Process(t).buffer = <<>>
<1>1. Events!Trim(t) = <<>>
  BY TrimNothing
<1>2. Len(<<>>) = 0
  OBVIOUS
<1>3. ~HasDone(t) /\ ~HasWhole(t) /\ ~Begins(t)
  BY <1>1, <1>2 DEF HasDone, HasWhole, Begins
<1>4. Events!Process(t) = [buffer |-> <<>>, completed |-> FALSE, out |-> <<>>]
  BY <1>3, ProcessIs
<1> QED BY <1>4

-----------------------------------------------------------------------------
(* What has come out, of the first n events that have come in.             *)

OutEvent == {"message_start", "text_delta", "input_json_delta", "message_stop"}

Told(o, f, n, whole) ==
  \E from \in [1..Len(o) -> 1..n] :
     /\ \A i, j \in 1..Len(o) : i < j => from[i] < from[j]
     /\ \A i \in 1..Len(o) : Events!Outcome(f[from[i]]) = <<o[i]>>
     /\ whole => \A k \in 1..n : Events!Outcome(f[k]) = <<>> \/ \E i \in 1..Len(o) : from[i] = k

LEMMA OutcomeIs ==
  ASSUME NEW d \in Events!Delta \cup Events!Done
  PROVE  Events!Outcome(d) = <<>> \/ \E x \in OutEvent : Events!Outcome(d) = <<x>>
BY DEF Events!Outcome, Events!Transformed, OutEvent

LEMMA ToldNone == ASSUME NEW f, NEW w PROVE Told(<<>>, f, 0, w)
<1> DEFINE from == [i \in 1..0 |-> i]
<1>1. from \in [1..Len(<<>>) -> 1..0] /\ \A i \in 1..Len(<<>>) : FALSE /\ 1..0 = {}
  OBVIOUS
<1> QED BY <1>1 DEF Told

LEMMA ToldLess ==
  ASSUME NEW o, NEW f, NEW n, NEW w, NEW v, v => w, Told(o, f, n, w)
  PROVE  Told(o, f, n, v)
BY DEF Told

LEMMA ToldMore ==
  ASSUME NEW o \in Seq(OutEvent), NEW f \in Seq(Events!Delta \cup Events!Done), NEW n \in 0..Len(f), NEW w,
         NEW e \in Events!Delta \cup Events!Done, Told(o, f, n, w)
  PROVE  Told(o, Append(f, e), n, w)
<1> DEFINE g == Append(f, e)
<1>1. \A k \in 1..n : g[k] = f[k]
  OBVIOUS
<1> HIDE DEF g
<1>2. PICK from \in [1..Len(o) -> 1..n] :
         /\ \A i, j \in 1..Len(o) : i < j => from[i] < from[j]
         /\ \A i \in 1..Len(o) : Events!Outcome(f[from[i]]) = <<o[i]>>
         /\ w => \A k \in 1..n : Events!Outcome(f[k]) = <<>> \/ \E i \in 1..Len(o) : from[i] = k
  BY DEF Told
<1>3. \A i \in 1..Len(o) : g[from[i]] = f[from[i]]
  BY <1>1, <1>2
<1>4. Told(o, g, n, w)
  <2>1. \A i \in 1..Len(o) : Events!Outcome(g[from[i]]) = <<o[i]>> BY <1>2, <1>3
  <2>2. w => \A k \in 1..n : Events!Outcome(g[k]) = <<>> \/ \E i \in 1..Len(o) : from[i] = k
    BY <1>1, <1>2
  <2> QED BY <1>2, <2>1, <2>2 DEF Told
<1> QED BY <1>4 DEF g

\* The next event comes out, or comes to nothing.
LEMMA ToldNext ==
  ASSUME NEW o \in Seq(OutEvent), NEW f \in Seq(Events!Delta \cup Events!Done), NEW n \in Nat,
           n + 1 <= Len(f),
         NEW w, NEW v, v => w, Told(o, f, n, w), NEW x, x = Events!Outcome(f[n + 1]) \/ (x = <<>> /\ ~v)
  PROVE  o \o x \in Seq(OutEvent) /\ Told(o \o x, f, n + 1, v)
<1>1. PICK from \in [1..Len(o) -> 1..n] :
         /\ \A i, j \in 1..Len(o) : i < j => from[i] < from[j]
         /\ \A i \in 1..Len(o) : Events!Outcome(f[from[i]]) = <<o[i]>>
         /\ w => \A k \in 1..n : Events!Outcome(f[k]) = <<>> \/ \E i \in 1..Len(o) : from[i] = k
  BY DEF Told
<1>2. Len(o) \in Nat /\ \A k \in 1..n + 1 : k \in 1..n \/ k = n + 1
  OBVIOUS
<1>3. CASE x = <<>>
  <2>1. o \o x = o BY <1>3
  <2>2. from \in [1..Len(o) -> 1..n + 1]
    <3>1. \A i \in 1..Len(o) : from[i] \in 1..n + 1 BY <1>1
    <3> QED BY <1>1, <3>1
  <2>3. v => Events!Outcome(f[n + 1]) = <<>> BY <1>3
  <2>4. v => \A k \in 1..n + 1 : Events!Outcome(f[k]) = <<>> \/ \E i \in 1..Len(o) : from[i] = k
    BY <1>1, <1>2, <2>3
  <2>5. Told(o, f, n + 1, v) BY <1>1, <2>2, <2>4 DEF Told
  <2> QED BY <2>1, <2>5
<1>4. CASE x # <<>>
  <2>1. PICK y \in OutEvent : x = <<y>> /\ Events!Outcome(f[n + 1]) = <<y>>
    <3>1. f[n + 1] \in Events!Delta \cup Events!Done /\ x = Events!Outcome(f[n + 1]) BY <1>4
    <3> QED BY <1>4, <3>1, OutcomeIs
  <2> DEFINE p == o \o <<y>>
             to == [i \in 1..Len(o) + 1 |-> IF i <= Len(o) THEN from[i] ELSE n + 1]
  <2>2. /\ p \in Seq(OutEvent) /\ Len(p) = Len(o) + 1
        /\ \A i \in 1..Len(o) : p[i] = o[i]
        /\ p[Len(o) + 1] = y
    BY JoinedOne
  <2> HIDE DEF p
  <2>3. \A i \in 1..Len(p) : i \in 1..Len(o) \/ i = Len(o) + 1 BY <1>2, <2>2
  <2>4. /\ \A i \in 1..Len(o) : to[i] = from[i] /\ to[i] \in 1..n
        /\ to[Len(o) + 1] = n + 1
        /\ to \in [1..Len(p) -> 1..n + 1]
    <3>1. \A i \in 1..Len(o) : to[i] = from[i] /\ to[i] \in 1..n BY <1>1, <1>2
    <3>2. to[Len(o) + 1] = n + 1 BY <1>2
    <3>3. \A i \in 1..Len(p) : to[i] \in 1..n + 1 
      <4>1. \A i \in 1..n : i \in 1..n + 1 BY <1>2
      <4>2. n + 1 \in 1..n + 1 OBVIOUS
      <4> HIDE DEF to
      <4> QED BY <2>3, <3>1, <3>2, <4>1, <4>2
    <3>4. to = [i \in 1..Len(p) |-> to[i]] BY <2>2
    <3> HIDE DEF to
    <3> QED BY <3>1, <3>2, <3>3, <3>4
  <2> HIDE DEF to
  <2>5. ASSUME NEW i \in 1..Len(p), NEW j \in 1..Len(p), i < j PROVE to[i] < to[j]
    <3>1. i \in 1..Len(o) BY <1>2, <2>2, <2>5
    <3>2. CASE j \in 1..Len(o) BY <1>1, <2>4, <2>5, <3>1, <3>2
    <3>3. CASE j = Len(o) + 1 BY <2>4, <3>1, <3>3
    <3> QED BY <2>3, <3>2, <3>3
  <2>6. ASSUME NEW i \in 1..Len(p) PROVE Events!Outcome(f[to[i]]) = <<p[i]>>
    <3>1. CASE i \in 1..Len(o) BY <1>1, <2>2, <2>4, <3>1
    <3>2. CASE i = Len(o) + 1 BY <2>1, <2>2, <2>4, <3>2
    <3> QED BY <2>3, <3>1, <3>2
  <2>7. ASSUME v, NEW k \in 1..n + 1 PROVE Events!Outcome(f[k]) = <<>> \/ \E i \in 1..Len(p) : to[i] = k
    <3>1. CASE k \in 1..n
      <4>1. \A i \in 1..Len(o) : i \in 1..Len(p) BY <1>2, <2>2
      <4> QED BY <1>1, <2>4, <2>7, <3>1, <4>1
    <3>2. CASE k = n + 1
      <4>1. Len(o) + 1 \in 1..Len(p) BY <1>2, <2>2
      <4> QED BY <2>4, <3>2, <4>1
    <3> QED BY <1>2, <3>1, <3>2
  <2>8. Told(p, f, n + 1, v) BY <2>4, <2>5, <2>6, <2>7 DEF Told
  <2> QED BY <2>1, <2>2, <2>8 DEF p
<1> QED BY <1>3, <1>4

-----------------------------------------------------------------------------
(* The invariant of the transformer.                                       *)

\* The last event d, of which c pieces have gone through.
Through(d, c) ==
  /\ input = SubSeq(Events!Pieces(d), c + 1, Key(d) + 1)
  /\ Told(out, fed, IF c < Key(d) THEN Len(fed) - 1 ELSE Len(fed), ~spoilt)
  /\ ~spoilt => buffer = IF c < Key(d) THEN SubSeq(Events!Pieces(d), 1, c) ELSE <<>>

EventInv ==
  /\ fed \in Seq(Events!Delta \cup Events!Done) /\ out \in Seq(OutEvent) /\ spoilt \in BOOLEAN
  /\ buffer \in Seq(Piece) /\ ~HasDone(buffer) /\ ~HasWhole(buffer)
  /\ fed = <<>> => input = <<>> /\ buffer = <<>> /\ out = <<>>
  /\ fed # <<>> => LET d == fed[Len(fed)] IN \E c \in 0..Key(d) + 1 : Through(d, c)

LEMMA EventInit == Events!Init => EventInv
<1> SUFFICES ASSUME Events!Init PROVE EventInv
  OBVIOUS
<1>1. input = <<>> /\ fed = <<>> /\ buffer = <<>> /\ out = <<>> /\ spoilt = FALSE
  BY DEF Events!Init
<1>2. fed \in Seq(Events!Delta \cup Events!Done) /\ out \in Seq(OutEvent) /\ spoilt \in BOOLEAN
  <2>1. <<>> \in Seq(Events!Delta \cup Events!Done) /\ <<>> \in Seq(OutEvent) OBVIOUS
  <2>2. FALSE \in BOOLEAN OBVIOUS
  <2> QED BY <1>1, <2>1, <2>2, Zenon
<1> QED BY <1>1, <1>2, EmptyHasNothing DEF EventInv

\* A chunk of the event under way: what the transformer makes of it.
LEMMA ChunkTells ==
  ASSUME EventInv, NEW d \in Events!Delta \cup Events!Done, fed # <<>>, d = fed[Len(fed)],
         NEW c \in 0..Key(d) + 1, Through(d, c), NEW n \in 1..Key(d) + 1 - c
  PROVE  LET r == Events!Process(buffer \o SubSeq(input, 1, n))
         IN /\ r.buffer \in Seq(Piece) /\ ~HasDone(r.buffer) /\ ~HasWhole(r.buffer)
            /\ SubSeq(input, n + 1, Len(input)) = SubSeq(Events!Pieces(d), c + n + 1, Key(d) + 1)
            /\ ~spoilt => /\ c + n < Key(d) /\ c + n > 1 => r.buffer = SubSeq(Events!Pieces(d), 1, c + n)
                          /\ c + n >= Key(d) => r.buffer = <<>>
            /\ out \o r.out \in Seq(OutEvent)
            /\ Told(out \o r.out, fed, IF c + n < Key(d) THEN Len(fed) - 1 ELSE Len(fed), ~spoilt)
<1> DEFINE p == Events!Pieces(d)
           t == SubSeq(p, c + 1, c + n)
           r == Events!Process(buffer \o t)
<1>1. p \in Seq(Piece) /\ Len(p) = Key(d) + 1 /\ Key(d) \in {3, 4}
  BY PiecesOf DEF Key
<1>2. c \in 0..Len(p) /\ n \in 0..Len(p) - c /\ n \in 0..Key(d) + 1 - c /\ c + n \in 1..Key(d) + 1
  BY <1>1
<1>3. input = SubSeq(p, c + 1, Len(p))
  BY <1>1 DEF Through
<1>4. SubSeq(input, 1, n) = t /\ SubSeq(input, n + 1, Len(input)) = SubSeq(p, c + n + 1, Len(p))
  BY <1>1, <1>2, <1>3, SliceOfSlice
<1>5. t \in Seq(Piece) /\ Len(t) = n /\ \A i \in 1..n : t[i] = p[c + i]
  BY <1>1, <1>2, SliceFrom
<1>6. buffer \in Seq(Piece) /\ ~HasDone(buffer) /\ ~HasWhole(buffer)
  BY DEF EventInv
<1>7. r.buffer \in Seq(Piece) /\ ~HasDone(r.buffer) /\ ~HasWhole(r.buffer)
  <2> HIDE DEF t
  <2> QED BY <1>5, <1>6, ProcessTells
<1>8. r.out = <<>> \/ (c < Key(d) /\ Key(d) <= c + n /\ r.out = Events!Outcome(d))
  BY <1>2, <1>6, SliceTells
<1>9. ASSUME ~spoilt
      PROVE  /\ c < Key(d) /\ c + n >= Key(d) => r.out = Events!Outcome(d)
             /\ c + n < Key(d) /\ c + n > 1 => r.buffer = SubSeq(p, 1, c + n)
             /\ c + n >= Key(d) => r.buffer = <<>>
  <2>1. CASE c < Key(d)
    <3>1. buffer \o t = SubSeq(p, 1, c + n)
      <4>1. buffer = SubSeq(p, 1, c) BY <1>9, <2>1 DEF Through
      <4> QED BY <1>1, <1>2, <4>1, SlicesJoin
    <3> QED BY <1>1, <1>2, <3>1, PrefixProcess
  <2>2. CASE c >= Key(d)
    <3>1. buffer = <<>> BY <1>1, <1>9, <2>2 DEF Through
    <3>2. buffer \o t = t BY <1>5, <3>1
    <3>3. \A i \in 1..n : c + i = Key(d) + 1 /\ c + i \in 1..Key(d) + 1 BY <1>1, <2>2
    <3>4. \A i \in 1..Len(t) : t[i].part = "nn" BY <1>5, <3>3, PieceAt
    <3>5. r.buffer = <<>> BY <1>5, <3>2, <3>4, BlankProcess
    <3> QED BY <1>1, <1>2, <2>2, <3>5
  <2> QED BY <1>1, <2>1, <2>2
<1> HIDE DEF r
<1>10. /\ out \in Seq(OutEvent) /\ fed \in Seq(Events!Delta \cup Events!Done) /\ Len(fed) \in Nat \ {0}
  BY DEF EventInv
<1>11. /\ out \o r.out \in Seq(OutEvent)
       /\ Told(out \o r.out, fed, IF c + n < Key(d) THEN Len(fed) - 1 ELSE Len(fed), ~spoilt)
  <2>1. CASE c + n < Key(d) \/ c >= Key(d)
    <3>1. r.out = <<>> /\ (c < Key(d) <=> c + n < Key(d)) BY <1>1, <1>2, <1>8, <2>1
    <3>2. out \o r.out = out BY <1>10, <3>1
    <3> QED BY <1>10, <3>1, <3>2 DEF Through
  <2>2. CASE c < Key(d) /\ Key(d) <= c + n
    <3>1. Told(out, fed, Len(fed) - 1, ~spoilt) BY <2>2 DEF Through
    <3>2. r.out = Events!Outcome(fed[(Len(fed) - 1) + 1]) \/ (r.out = <<>> /\ ~~spoilt)
      BY <1>1, <1>2, <1>8, <1>9, <1>10, <2>2
    <3>3. Len(fed) - 1 \in Nat /\ (Len(fed) - 1) + 1 = Len(fed) BY <1>10
    <3>4. out \o r.out \in Seq(OutEvent) /\ Told(out \o r.out, fed, (Len(fed) - 1) + 1, ~spoilt)
      <4>1. (Len(fed) - 1) + 1 <= Len(fed) /\ (~spoilt => ~spoilt) BY <1>10
      <4> QED BY <1>10, <3>1, <3>2, <3>3, <4>1, ToldNext, Zenon
    <3> QED BY <1>1, <1>2, <2>2, <3>3, <3>4
  <2> QED BY <1>1, <1>2, <2>1, <2>2
<1> QED BY <1>1, <1>4, <1>7, <1>9, <1>11 DEF r

LEMMA EmitStep ==
  ASSUME EventInv, NEW d \in Events!Delta \cup Events!Done, Events!Emit(d)
  PROVE  EventInv'
<1>1. fed \in Seq(Events!Delta \cup Events!Done) /\ input = <<>> /\ input' = Events!Pieces(d)
        /\ fed' = Append(fed, d)
  BY DEF EventInv, Events!Emit
<1>2. /\ fed' \in Seq(Events!Delta \cup Events!Done) /\ fed' # <<>> /\ Len(fed') = Len(fed) + 1
      /\ fed'[Len(fed')] = d /\ Len(fed') - 1 = Len(fed)
  BY <1>1
<1>3. Events!Pieces(d) \in Seq(Piece) /\ Len(Events!Pieces(d)) = Key(d) + 1 /\ Key(d) \in {3, 4}
  BY PiecesOf DEF Key
<1>4. input' = SubSeq(Events!Pieces(d), 0 + 1, Key(d) + 1) /\ SubSeq(Events!Pieces(d), 1, 0) = <<>>
  BY <1>1, <1>3
<1>5. Told(out, fed, Len(fed), ~spoilt) /\ (~spoilt => buffer = <<>>)
  <2>1. CASE fed = <<>>
    BY <2>1, ToldNone DEF EventInv
  <2>2. CASE fed # <<>>
    <3> DEFINE e == fed[Len(fed)]
    <3>1. e \in Events!Delta \cup Events!Done BY <1>1, <2>2
    <3>2. PICK c \in 0..Key(e) + 1 : Through(e, c) BY <2>2 DEF EventInv
    <3>3. c = Key(e) + 1 /\ Key(e) \in Nat
      <4>1. Events!Pieces(e) \in Seq(Piece) /\ Len(Events!Pieces(e)) = Key(e) + 1 /\ Key(e) \in Nat
        BY <3>1, PiecesOf DEF Key
      <4>2. c \in 0..Len(Events!Pieces(e)) BY <4>1
      <4>3. Len(SubSeq(Events!Pieces(e), c + 1, Len(Events!Pieces(e)))) = Len(Events!Pieces(e)) - c
        BY <4>1, <4>2, SliceLast
      <4>4. Len(input) = 0 BY <1>1
      <4>5. Len(Events!Pieces(e)) - c = 0 BY <3>2, <4>1, <4>3, <4>4 DEF Through
      <4> QED BY <4>1, <4>5
    <3> HIDE DEF e
    <3> QED BY <3>2, <3>3 DEF Through
  <2> QED BY <2>1, <2>2
<1>6. Told(out, fed', Len(fed') - 1, ~spoilt)
  <2>1. out \in Seq(OutEvent) /\ Len(fed) \in 0..Len(fed) BY <1>1 DEF EventInv
  <2>2. Told(out, Append(fed, d), Len(fed), ~spoilt) BY <1>1, <1>5, <2>1, ToldMore, Zenon
  <2> QED BY <1>1, <1>2, <2>2
<1>7. UNCHANGED <<buffer, out, spoilt>>
  BY DEF Events!Emit
<1>8. Through(d, 0)'
  <2>1. 0 < Key(d) BY <1>3
  <2>2. Told(out, fed, IF 0 < Key(d) THEN Len(fed) - 1 ELSE Len(fed), ~spoilt)'
    BY <1>6, <1>7, <2>1
  <2>3. (~spoilt => buffer = IF 0 < Key(d) THEN SubSeq(Events!Pieces(d), 1, 0) ELSE <<>>)'
    BY <1>4, <1>5, <1>7, <2>1
  <2> QED BY <1>4, <2>2, <2>3 DEF Through
<1> QED BY <1>2, <1>3, <1>7, <1>8 DEF EventInv

\* The event under way, when there is input.
LEMMA UnderWay ==
  ASSUME EventInv, NEW n \in 1..5, n <= Len(input)
  PROVE  /\ fed # <<>> /\ Len(fed) \in Nat \ {0} /\ fed[Len(fed)] \in Events!Delta \cup Events!Done
         /\ \E c \in 0..Key(fed[Len(fed)]) + 1 :
              /\ Through(fed[Len(fed)], c) /\ n \in 1..Key(fed[Len(fed)]) + 1 - c
              /\ Len(input) = Key(fed[Len(fed)]) + 1 - c
<1>1. fed # <<>>
  <2>1. SUFFICES ASSUME fed = <<>> PROVE FALSE OBVIOUS
  <2>2. Len(input) = 0 BY <2>1 DEF EventInv
  <2> QED BY <2>2
<1>2. Len(fed) \in Nat \ {0} /\ fed[Len(fed)] \in Events!Delta \cup Events!Done
  BY <1>1 DEF EventInv
<1> DEFINE d == fed[Len(fed)]
<1>3. PICK c \in 0..Key(d) + 1 : Through(d, c)
  BY <1>1 DEF EventInv
<1>4. Events!Pieces(d) \in Seq(Piece) /\ Len(Events!Pieces(d)) = Key(d) + 1 /\ Key(d) \in Nat
  BY <1>2, PiecesOf DEF Key
<1> HIDE DEF d
<1>5. Len(input) = Key(d) + 1 - c
  <2>1. c \in 0..Len(Events!Pieces(d)) BY <1>4
  <2>2. Len(SubSeq(Events!Pieces(d), c + 1, Len(Events!Pieces(d)))) = Len(Events!Pieces(d)) - c
    BY <1>4, <2>1, SliceLast
  <2>3. input = SubSeq(Events!Pieces(d), c + 1, Len(Events!Pieces(d))) BY <1>3, <1>4 DEF Through
  <2> QED BY <1>4, <2>2, <2>3
<1>6. n \in 1..Key(d) + 1 - c
  BY <1>5
<1> QED BY <1>1, <1>2, <1>3, <1>5, <1>6 DEF d

LEMMA TransformStep ==
  ASSUME EventInv, NEW n \in 1..5, Events!Transform(n), UNCHANGED stream
  PROVE  EventInv'
<1> DEFINE d == fed[Len(fed)]
           r == Events!Process(buffer \o SubSeq(input, 1, n))
           rest == SubSeq(input, n + 1, Len(input))
<1>1. fed # <<>> /\ d \in Events!Delta \cup Events!Done /\ n <= Len(input)
  BY UnderWay DEF Events!Transform
<1>2. PICK c \in 0..Key(d) + 1 : Through(d, c) /\ n \in 1..Key(d) + 1 - c
  BY UnderWay DEF Events!Transform
<1>3. /\ r.buffer \in Seq(Piece) /\ ~HasDone(r.buffer) /\ ~HasWhole(r.buffer)
      /\ rest = SubSeq(Events!Pieces(d), c + n + 1, Key(d) + 1)
      /\ ~spoilt => /\ c + n < Key(d) /\ c + n > 1 => r.buffer = SubSeq(Events!Pieces(d), 1, c + n)
                    /\ c + n >= Key(d) => r.buffer = <<>>
      /\ out \o r.out \in Seq(OutEvent)
      /\ Told(out \o r.out, fed, IF c + n < Key(d) THEN Len(fed) - 1 ELSE Len(fed), ~spoilt)
  BY <1>1, <1>2, ChunkTells
<1>4. /\ buffer' = r.buffer /\ out' = out \o r.out /\ input' = rest /\ fed' = fed
      /\ spoilt' = (spoilt \/ ~Events!Cut(rest))
  BY DEF Events!Transform
<1>5. Events!Pieces(d) \in Seq(Piece) /\ Len(Events!Pieces(d)) = Key(d) + 1 /\ Key(d) \in {3, 4}
  BY <1>1, PiecesOf DEF Key
<1> DEFINE m == c + n
<1>6. m \in 1..Key(d) + 1
  BY <1>2, <1>5
<1>7. m = 1 => ~Events!Cut(rest)
  <2>1. SUFFICES ASSUME m = 1 PROVE ~Events!Cut(rest) OBVIOUS
  <2>2. 1 \in 0..Len(Events!Pieces(d)) /\ 1 \in 1..Len(Events!Pieces(d)) - 1 BY <1>5
  <2>3. rest = SubSeq(Events!Pieces(d), 1 + 1, Len(Events!Pieces(d))) BY <1>3, <1>5, <2>1
  <2> HIDE DEF rest, d, m
  <2>4. Len(rest) = Len(Events!Pieces(d)) - 1 /\ rest[1] = Events!Pieces(d)[2]
    BY <1>5, <2>2, <2>3, SliceLast
  <2>5. rest # <<>> BY <1>5, <2>4
  <2>6. rest[1].part = "ta:" BY <1>1, <2>4, PiecesOf DEF d
  <2> QED BY <2>5, <2>6 DEF Events!Cut
<1>8. Told(out', fed', IF m < Key(d) THEN Len(fed') - 1 ELSE Len(fed'), ~spoilt')
  <2>1. ~spoilt' => ~spoilt BY <1>4
  <2> QED BY <1>3, <1>4, <2>1, ToldLess, Zenon
<1>9. ~spoilt' => buffer' = IF m < Key(d) THEN SubSeq(Events!Pieces(d), 1, m) ELSE <<>>
  <2>1. SUFFICES ASSUME ~spoilt' PROVE buffer' = IF m < Key(d) THEN SubSeq(Events!Pieces(d), 1, m) ELSE <<>>
    OBVIOUS
  <2>2. ~spoilt /\ m # 1 BY <1>4, <1>7, <2>1
  <2>3. CASE m < Key(d)
    <3>1. m > 1 BY <1>6, <2>2
    <3> QED BY <1>3, <1>4, <2>2, <2>3, <3>1
  <2>4. CASE m >= Key(d)
    <3>1. ~(m < Key(d)) BY <1>5, <1>6, <2>4
    <3> QED BY <1>3, <1>4, <2>2, <2>4, <3>1
  <2> QED BY <1>5, <1>6, <2>3, <2>4
<1>10. Through(d, m)'
  BY <1>3, <1>4, <1>8, <1>9 DEF Through
<1>11. spoilt' \in BOOLEAN
  BY <1>4
<1> QED BY <1>1, <1>3, <1>4, <1>6, <1>10, <1>11 DEF EventInv

\* What is left of an event of which everything has gone through.
LEMMA NothingIsLeft ==
  ASSUME NEW d \in Events!Delta \cup Events!Done
  PROVE  /\ SubSeq(Events!Pieces(d), (Key(d) + 1) + 1, Key(d) + 1) = <<>>
         /\ SubSeq(Events!Pieces(d), 1, Key(d) + 1) = Events!Pieces(d)
         /\ Key(d) \in Nat /\ ~(Key(d) + 1 < Key(d)) /\ Key(d) + 1 \in 1..Key(d) + 1
         /\ Key(d) + 1 \in 0..Key(d) + 1 /\ Key(d) + 1 >= Key(d)
<1>1. Events!Pieces(d) \in Seq(Piece) /\ Len(Events!Pieces(d)) = Key(d) + 1 /\ Key(d) \in Nat
  BY PiecesOf DEF Key
<1>2. Key(d) + 1 \in 0..Len(Events!Pieces(d))
  BY <1>1
<1> DEFINE x == SubSeq(Events!Pieces(d), (Key(d) + 1) + 1, Len(Events!Pieces(d)))
<1>3. x \in Seq(Piece) /\ Len(x) = Len(Events!Pieces(d)) - (Key(d) + 1)
  BY <1>1, <1>2, SliceLast
<1>4. x = <<>>
  <2> HIDE DEF x
  <2>1. Len(x) = 0 BY <1>1, <1>3
  <2> QED BY <1>3, <2>1
<1>5. SubSeq(Events!Pieces(d), 1, Len(Events!Pieces(d))) = Events!Pieces(d)
  BY <1>1
<1> QED BY <1>1, <1>4, <1>5

\* The last is whole when another comes.
LEMMA NextComes ==
  ASSUME EventInv, fed # <<>>, NEW o \in Seq(OutEvent), NEW w, NEW v, v => w,
         Told(o, fed, Len(fed), w), NEW e \in Events!Delta \cup Events!Done,
         NEW x, x = Events!Outcome(e) \/ (x = <<>> /\ ~v)
  PROVE  /\ o \o x \in Seq(OutEvent) /\ Told(o \o x, Append(fed, e), Len(fed) + 1, v)
         /\ Append(fed, e) \in Seq(Events!Delta \cup Events!Done) /\ Append(fed, e) # <<>>
         /\ Len(Append(fed, e)) = Len(fed) + 1
         /\ Append(fed, e)[Len(fed) + 1] = e
<1> DEFINE f == Append(fed, e)
<1>1. fed \in Seq(Events!Delta \cup Events!Done)
  BY DEF EventInv
<1>2. /\ f \in Seq(Events!Delta \cup Events!Done) /\ f # <<>> /\ Len(f) = Len(fed) + 1
           /\ f[Len(fed) + 1] = e
      /\ Len(fed) \in Nat
  BY <1>1
<1>3. Told(o, f, Len(fed), w)
  <2>1. Len(fed) \in 0..Len(fed) BY <1>2
  <2> QED BY <1>1, <2>1, ToldMore, Zenon
<1> HIDE DEF f
<1>4. o \o x \in Seq(OutEvent) /\ Told(o \o x, f, Len(fed) + 1, v)
  <2>1. Len(fed) + 1 <= Len(f) BY <1>2
  <2>2. x = Events!Outcome(f[Len(fed) + 1]) \/ (x = <<>> /\ ~v) BY <1>2
  <2> QED BY <1>2, <1>3, <2>1, <2>2, ToldNext, Zenon
<1> QED BY <1>2, <1>4 DEF f

LEMMA TransformTwoStep ==
  ASSUME EventInv, NEW e \in Events!Delta \cup Events!Done, Events!TransformTwo(e), UNCHANGED stream
  PROVE  EventInv'
<1> DEFINE d == fed[Len(fed)]
           r == Events!Process(buffer \o input \o Events!Pieces(e))
<1>1. /\ input # <<>> /\ fed # <<>> /\ ~Events!DoneSent
      /\ buffer' = r.buffer /\ out' = out \o r.out /\ input' = <<>> /\ fed' = Append(fed, e)
      /\ spoilt' = TRUE
  BY DEF Events!TransformTwo, EventInv
<1>2. fed \in Seq(Events!Delta \cup Events!Done) /\ Len(fed) \in Nat \ {0} /\ d \in Events!Delta
  <2>1. fed \in Seq(Events!Delta \cup Events!Done) BY DEF EventInv
  <2>2. Len(fed) \in Nat \ {0} /\ Len(fed) \in DOMAIN fed /\ d \in Events!Delta \cup Events!Done
    BY <1>1, <2>1
  <2>3. d \in Events!ToSet(fed) BY <2>2 DEF Events!ToSet
  <2>4. d \notin Events!Done BY <1>1, <2>3 DEF Events!DoneSent
  <2> QED BY <2>1, <2>2, <2>4
<1>3. PICK c \in 0..Key(d) + 1 : Through(d, c)
  BY <1>1 DEF EventInv
<1>4. buffer \in Seq(Piece) /\ ~HasDone(buffer) /\ ~HasWhole(buffer) /\ out \in Seq(OutEvent)
  BY DEF EventInv
<1>5. Key(d) \in Nat
  BY DEF Key
<1>6. r.buffer \in Seq(Piece) /\ ~HasDone(r.buffer) /\ ~HasWhole(r.buffer)
  <2>1. input \in Seq(Piece)
    <3>1. Events!Pieces(d) \in Seq(Piece) /\ Len(Events!Pieces(d)) = Key(d) + 1
            /\ c \in 0..Len(Events!Pieces(d))
      BY <1>2, <1>5, PiecesOf
    <3>2. SubSeq(Events!Pieces(d), c + 1, Len(Events!Pieces(d))) \in Seq(Piece) BY <3>1, SliceLast
    <3> QED BY <1>3, <3>1, <3>2 DEF Through
  <2>2. Events!Pieces(e) \in Seq(Piece) BY PiecesOf
  <2>3. (buffer \o input) \o Events!Pieces(e) = buffer \o (input \o Events!Pieces(e))
    <3>1. ASSUME NEW s \in Seq(Piece), NEW t \in Seq(Piece), NEW u \in Seq(Piece)
          PROVE  (s \o t) \o u = s \o (t \o u)
      BY ConcatAssociative
    <3>2. buffer \in Seq(Piece) BY <1>4
    <3> QED BY <2>1, <2>2, <3>1, <3>2
  <2>4. input \o Events!Pieces(e) \in Seq(Piece) BY <2>1, <2>2
  <2> QED BY <1>4, <2>3, <2>4, ProcessTells, ZenonT(30)
<1>7. r.out = <<>> \/ r.out = Events!Outcome(e) \/ (c < Key(d) /\ r.out = Events!Outcome(d))
  <2>1. input = SubSeq(Events!Pieces(d), c + 1, Key(d) + 1) BY <1>3 DEF Through
  <2> HIDE DEF d
  <2> QED BY <1>2, <1>4, <2>1, TwoTell
<1>8. Told(out, fed, Len(fed), FALSE)
  <2>1. CASE c < Key(d)
    <3>1. Told(out, fed, Len(fed) - 1, ~spoilt) BY <1>3, <2>1 DEF Through
    <3>2. Len(fed) - 1 \in Nat /\ (Len(fed) - 1) + 1 = Len(fed) /\ (Len(fed) - 1) + 1 <= Len(fed)
      BY <1>2
    <3>3. FALSE => ~spoilt OBVIOUS
    <3>4. <<>> = Events!Outcome(fed[(Len(fed) - 1) + 1]) \/ (<<>> = <<>> /\ ~FALSE) OBVIOUS
    <3>5. Told(out \o <<>>, fed, (Len(fed) - 1) + 1, FALSE)
      BY <1>2, <1>4, <3>1, <3>2, <3>3, <3>4, ToldNext, Zenon
    <3>6. out \o <<>> = out BY <1>4
    <3> QED BY <3>2, <3>5, <3>6
  <2>2. CASE ~(c < Key(d))
    <3>1. Told(out, fed, Len(fed), ~spoilt) BY <1>3, <2>2 DEF Through
    <3> QED BY <3>1, ToldLess, Zenon
  <2> QED BY <2>1, <2>2
<1> HIDE DEF r
<1>9. /\ out \o r.out \in Seq(OutEvent) /\ Told(out \o r.out, Append(fed, e), Len(fed) + 1, FALSE)
      /\ Append(fed, e) \in Seq(Events!Delta \cup Events!Done) /\ Append(fed, e) # <<>>
      /\ Len(Append(fed, e)) = Len(fed) + 1 /\ Append(fed, e)[Len(fed) + 1] = e
  <2>1. CASE r.out = <<>> \/ r.out = Events!Outcome(e)
    <3>1. r.out = Events!Outcome(e) \/ (r.out = <<>> /\ ~FALSE) BY <2>1
    <3> QED BY <1>1, <1>4, <1>8, <3>1, NextComes, Zenon
  <2>2. CASE c < Key(d) /\ r.out = Events!Outcome(d)
    <3>1. Told(out, fed, Len(fed) - 1, ~spoilt) BY <1>3, <2>2 DEF Through
    <3>2. Len(fed) - 1 \in Nat /\ (Len(fed) - 1) + 1 = Len(fed) /\ (Len(fed) - 1) + 1 <= Len(fed)
      BY <1>2
    <3>3. r.out = Events!Outcome(fed[(Len(fed) - 1) + 1]) \/ (r.out = <<>> /\ ~FALSE)
      BY <2>2, <3>2
    <3> DEFINE o == out \o r.out
    <3>4. o \in Seq(OutEvent) /\ Told(o, fed, (Len(fed) - 1) + 1, FALSE)
      <4>1. FALSE => ~spoilt OBVIOUS
      <4> QED BY <1>2, <1>4, <3>1, <3>2, <3>3, <4>1, ToldNext, Zenon
    <3>5. Told(o, fed, Len(fed), FALSE) BY <3>2, <3>4
    <3> HIDE DEF o
    <3>6. /\ o \o <<>> \in Seq(OutEvent) /\ Told(o \o <<>>, Append(fed, e), Len(fed) + 1, FALSE)
          /\ Append(fed, e) \in Seq(Events!Delta \cup Events!Done) /\ Append(fed, e) # <<>>
          /\ Len(Append(fed, e)) = Len(fed) + 1 /\ Append(fed, e)[Len(fed) + 1] = e
      <4>1. <<>> = Events!Outcome(e) \/ (<<>> = <<>> /\ ~FALSE) OBVIOUS
      <4> QED BY <1>1, <3>4, <3>5, <4>1, NextComes, Zenon
    <3>7. o \o <<>> = o BY <3>4
    <3> QED BY <3>4, <3>6, <3>7 DEF o
  <2> QED BY <1>7, <2>1, <2>2
<1>10. Through(e, Key(e) + 1)'
  <2>1. Told(out, fed, IF Key(e) + 1 < Key(e) THEN Len(fed) - 1 ELSE Len(fed), FALSE)'
    BY <1>1, <1>9, NothingIsLeft
  <2>2. (~spoilt) ' = FALSE BY <1>1
  <2>3. Told(out, fed, IF Key(e) + 1 < Key(e) THEN Len(fed) - 1 ELSE Len(fed), ~spoilt)'
    BY <2>1, <2>2
  <2> QED BY <1>1, <2>2, <2>3, NothingIsLeft DEF Through
<1> QED BY <1>1, <1>6, <1>9, <1>10, NothingIsLeft DEF EventInv

LEMMA TransformBatchStep ==
  ASSUME EventInv, NEW n \in 1..5, NEW more \in {{}} \cup {{x} : x \in Events!Delta \cup Events!Done},
         Events!TransformBatch(n, more), UNCHANGED stream
  PROVE  EventInv'
<1> DEFINE d == fed[Len(fed)]
           r == Events!Process(buffer \o SubSeq(input, 1, n))
           rest == SubSeq(input, n + 1, Len(input))
<1>1. fed # <<>> /\ d \in Events!Delta \cup Events!Done /\ n <= Len(input) /\ Len(fed) \in Nat \ {0}
  BY UnderWay DEF Events!TransformBatch
<1>2. PICK c \in 0..Key(d) + 1 : /\ Through(d, c) /\ n \in 1..Key(d) + 1 - c
                                 /\ Len(input) = Key(d) + 1 - c
  BY UnderWay DEF Events!TransformBatch
<1> DEFINE m == c + n
<1>3. /\ rest = SubSeq(Events!Pieces(d), m + 1, Key(d) + 1)
      /\ out \o r.out \in Seq(OutEvent)
      /\ Told(out \o r.out, fed, IF m < Key(d) THEN Len(fed) - 1 ELSE Len(fed), ~spoilt)
  BY <1>1, <1>2, ChunkTells
<1>4. buffer' = <<>> /\ input' = rest /\ spoilt' = (spoilt \/ Events!Parts(rest) \notin {<<>>, <<"nn">>})
  BY DEF Events!TransformBatch
<1>5. Events!Pieces(d) \in Seq(Piece) /\ Len(Events!Pieces(d)) = Key(d) + 1 /\ Key(d) \in {3, 4}
  BY <1>1, PiecesOf DEF Key
<1>6. m \in 1..Key(d) + 1 /\ m \in 0..Key(d) + 1
  BY <1>2, <1>5
<1>7. (~spoilt' => ~spoilt) /\ spoilt' \in BOOLEAN
  BY <1>4
<1> HIDE DEF r
<1>8. CASE more = {}
  <2>1. out' = out \o r.out /\ fed' = fed
    <3>1. out' = out \o r.out \o <<>> /\ fed' = fed BY <1>8 DEF Events!TransformBatch, r
    <3> QED BY <1>3, <3>1
  <2>2. m < Key(d) => spoilt'
    <3>1. SUFFICES ASSUME m < Key(d) PROVE Events!Parts(rest) \notin {<<>>, <<"nn">>} BY <1>4
    <3>2. m \in 0..Len(Events!Pieces(d)) /\ rest = SubSeq(Events!Pieces(d), m + 1, Len(Events!Pieces(d)))
      BY <1>3, <1>5, <1>6
    <3> HIDE DEF rest, m, d
    <3>3. rest \in Seq(Piece) /\ Len(rest) = Len(Events!Pieces(d)) - m BY <1>5, <3>2, SliceLast
    <3>4. Len(rest) > 1 BY <1>5, <1>6, <3>1, <3>3
    <3>5. Events!Parts(rest) = [i \in 1..Len(rest) |-> rest[i].part] BY DEF Events!Parts
    <3>6. Len(Events!Parts(rest)) = Len(rest) BY <3>3, <3>5
    <3>7. \A x : Len(<<>>) = 0 /\ Len(<<x>>) = 1 OBVIOUS
    <3>8. Len(Events!Parts(rest)) # Len(<<>>) /\ Len(Events!Parts(rest)) # Len(<<"nn">>)
      BY <3>4, <3>6, <3>7
    <3> QED BY <3>8, Zenon
  <2>3. Told(out', fed', IF m < Key(d) THEN Len(fed') - 1 ELSE Len(fed'), ~spoilt')
    BY <1>3, <1>7, <2>1, ToldLess, Zenon
  <2>4. ~spoilt' => buffer' = IF m < Key(d) THEN SubSeq(Events!Pieces(d), 1, m) ELSE <<>>
    BY <1>4, <2>2
  <2>5. Through(d, m)' BY <1>3, <1>4, <2>1, <2>3, <2>4 DEF Through
  <2> QED BY <1>1, <1>3, <1>4, <1>6, <1>7, <2>1, <2>5, EmptyHasNothing DEF EventInv
<1>9. ASSUME NEW e \in Events!Delta \cup Events!Done, more = {e} PROVE EventInv'
  <2>1. (CHOOSE x \in more : TRUE) = e /\ more # {} BY <1>9
  <2>2. out' = out \o r.out \o Events!Process(Events!Pieces(e)).out /\ fed' = Append(fed, e)
          /\ n = Len(input)
    BY <2>1 DEF Events!TransformBatch, r
  <2>3. m = Key(d) + 1 /\ rest = <<>>
    <3>1. m = Key(d) + 1 BY <1>2, <1>5, <2>2
    <3> QED BY <1>1, <1>3, <3>1, NothingIsLeft
  <2>4. Events!Process(Events!Pieces(e)).out = Events!Outcome(e) BY NothingIsLeft, PrefixProcess
  <2>5. Told(out \o r.out, fed, Len(fed), ~spoilt) BY <1>3, <1>5, <2>3
  <2>6. /\ (out \o r.out) \o Events!Outcome(e) \in Seq(OutEvent)
        /\ Told((out \o r.out) \o Events!Outcome(e), Append(fed, e), Len(fed) + 1, ~spoilt)
        /\ Append(fed, e) \in Seq(Events!Delta \cup Events!Done) /\ Append(fed, e) # <<>>
        /\ Len(Append(fed, e)) = Len(fed) + 1 /\ Append(fed, e)[Len(fed) + 1] = e
    <3>1. ~spoilt => ~spoilt OBVIOUS
    <3> QED BY <1>1, <1>3, <2>5, <3>1, NextComes, Zenon
  <2>7. Through(e, Key(e) + 1)'
    <3>1. Told(out', fed', Len(fed'), ~spoilt') BY <1>7, <2>2, <2>4, <2>6, ToldLess, Zenon
    <3>2. input' = SubSeq(Events!Pieces(e), (Key(e) + 1) + 1, Key(e) + 1)
      BY <1>4, <2>3, NothingIsLeft
    <3>3. Told(out, fed, IF Key(e) + 1 < Key(e) THEN Len(fed) - 1 ELSE Len(fed), ~spoilt)'
      BY <3>1, NothingIsLeft
    <3> QED BY <1>4, <3>2, <3>3, NothingIsLeft DEF Through
  <2> QED BY <1>4, <1>7, <2>2, <2>4, <2>6, <2>7, NothingIsLeft, EmptyHasNothing DEF EventInv
<1> QED BY <1>8, <1>9

LEMMA ResetStep == ASSUME EventInv, Events!Reset PROVE EventInv'
<1>1. /\ input' = <<>> /\ fed' = <<>> /\ buffer' = <<>> /\ out' = <<>> /\ spoilt' = FALSE
  BY DEF Events!Reset
<1>2. <<>> \in Seq(Events!Delta \cup Events!Done) /\ <<>> \in Seq(OutEvent)
  OBVIOUS
<1>3. fed' \in Seq(Events!Delta \cup Events!Done) /\ out' \in Seq(OutEvent) /\ spoilt' \in BOOLEAN
  BY <1>1, <1>2
<1> QED BY <1>1, <1>3, EmptyHasNothing DEF EventInv

LEMMA EventStep == EventInv /\ [Events!Next]_eventVars => EventInv'
<1> SUFFICES ASSUME EventInv, [Events!Next]_eventVars PROVE EventInv'
  OBVIOUS
<1>1. CASE UNCHANGED Events!transformer
  BY <1>1 DEF Events!transformer, EventInv, Through
<1>2. CASE Events!Reset
  BY <1>2, ResetStep
<1>3. ASSUME NEW d \in Events!Delta \cup Events!Done, Events!Emit(d) PROVE EventInv'
  BY <1>3, EmitStep
<1>4. ASSUME NEW n \in 1..5, Events!Transform(n), UNCHANGED stream PROVE EventInv'
  BY <1>4, TransformStep
<1>5. ASSUME NEW d \in Events!Delta \cup Events!Done, Events!TransformTwo(d), UNCHANGED stream
               PROVE EventInv'
  BY <1>5, TransformTwoStep
<1>6. ASSUME NEW n \in 1..5, NEW more \in {{}} \cup {{d} : d \in Events!Delta \cup Events!Done},
             Events!TransformBatch(n, more), UNCHANGED stream
      PROVE  EventInv'
  BY <1>6, TransformBatchStep
<1> QED BY <1>1, <1>2, <1>3, <1>4, <1>5, <1>6 DEF Events!Next, eventVars, Events!transformer

LEMMA EventsAreInOrder == EventInv => Events!InOrderWhole
<1> SUFFICES ASSUME EventInv PROVE Events!InOrderWhole
  OBVIOUS
<1>1. CASE fed = <<>>
  <2>1. out = <<>> /\ Told(<<>>, fed, 0, TRUE) BY <1>1, ToldNone DEF EventInv
  <2>2. Len(fed) = 0 BY <1>1
  <2>3. Told(out, fed, Len(fed), TRUE) BY <2>1, <2>2
  <2> QED BY <2>3 DEF Told, Events!InOrderWhole
<1>2. CASE fed # <<>>
  <2> DEFINE d == fed[Len(fed)]
             n(c) == IF c < Key(d) THEN Len(fed) - 1 ELSE Len(fed)
  <2>1. Len(fed) \in Nat \ {0} /\ d \in Events!Delta \cup Events!Done BY <1>2 DEF EventInv
  <2>2. PICK c \in 0..Key(d) + 1 : Through(d, c) BY <1>2 DEF EventInv
  <2>3. input = <<>> => c = Key(d) + 1
    <3>1. Events!Pieces(d) \in Seq(Piece) /\ Len(Events!Pieces(d)) = Key(d) + 1 /\ Key(d) \in Nat
      BY <2>1, PiecesOf DEF Key
    <3>2. c \in 0..Len(Events!Pieces(d)) BY <3>1
    <3>3. Len(SubSeq(Events!Pieces(d), c + 1, Len(Events!Pieces(d)))) = Len(Events!Pieces(d)) - c
      BY <3>1, <3>2, SliceLast
    <3>4. Len(input) = Key(d) + 1 - c BY <2>2, <3>1, <3>3 DEF Through
    <3>5. Len(<<>>) = 0 OBVIOUS
    <3> QED BY <3>1, <3>4, <3>5
  <2>4. PICK from \in [1..Len(out) -> 1..n(c)] :
           /\ \A i, j \in 1..Len(out) : i < j => from[i] < from[j]
           /\ \A i \in 1..Len(out) : Events!Outcome(fed[from[i]]) = <<out[i]>>
           /\ ~spoilt => \A k \in 1..n(c) : Events!Outcome(fed[k]) = <<>>
                \/ \E i \in 1..Len(out) : from[i] = k
    BY <2>2 DEF Through, Told
  <2>5. from \in [1..Len(out) -> 1..Len(fed)]
    <3>1. n(c) \in Nat /\ n(c) <= Len(fed) BY <2>1
    <3> HIDE DEF n
    <3>2. \A i \in 1..Len(out) : from[i] \in 1..Len(fed) BY <2>1, <2>4, <3>1
    <3> QED BY <2>4, <3>2
  <2>6. input = <<>> => n(c) = Len(fed) BY <2>1, <2>3 DEF Key
  <2> HIDE DEF n
  <2> QED BY <2>4, <2>5, <2>6 DEF Events!InOrderWhole
<1> QED BY <1>1, <1>2

\* What the proxy sends is one message, begun and ended once, with its blocks counted, and
\* what the transformer returns is what the events of the provider become, in their order
\* and once each, with [DONE] taken for the end wherever it stands; none is missing when no
\* chunk is cut within `data` nor joins two events (services/model-proxy.ts,
\* services/stream-transformer.ts).
THEOREM EventsComeInOrder == SystemSpec => []EventsInOrder
<1>1. SystemInit => EventInv /\ ClientInv BY PartSteps, EventInit, ClientInit
<1>2. EventInv /\ ClientInv /\ [SystemNext]_allVars => EventInv' /\ ClientInv'
  BY PartSteps, EventStep, ClientStep
<1>3. EventInv /\ ClientInv => EventsInOrder
  BY EventsAreInOrder DEF EventsInOrder, ClientInv
<1> QED BY <1>1, <1>2, <1>3, PTL DEF SystemSpec

-----------------------------------------------------------------------------
(* Sequences joined into one, as FlattenSeq does.  What it makes is found  *)
(* step by step; what fails of it would fail first somewhere.               *)

\* What the first n sequences make, one after the other, for every n.
Joined(g, s, n) == g = [i \in 0..n |-> IF i = 0 THEN <<>> ELSE g[i - 1] \o s[i]]

LEMMA JoinedStep ==
  ASSUME NEW s, NEW n \in Nat \ {0}, NEW g, Joined(g, s, n - 1)
  PROVE  \E h : Joined(h, s, n)
<1> DEFINE h == [i \in 0..n |-> IF i = n THEN g[n - 1] \o s[n] ELSE g[i]]
<1>1. \A i \in 0..n - 1 : g[i] = IF i = 0 THEN <<>> ELSE g[i - 1] \o s[i]
  BY DEF Joined
<1>2. ASSUME NEW i \in 0..n PROVE h[i] = IF i = 0 THEN <<>> ELSE h[i - 1] \o s[i]
  <2>1. CASE i = n BY <2>1
  <2>2. CASE i # n
    <3>1. i \in 0..n - 1 /\ h[i] = g[i] BY <2>2
    <3>2. i # 0 => i - 1 \in 0..n /\ i - 1 # n /\ h[i - 1] = g[i - 1] BY <3>1
    <3> HIDE DEF h
    <3> QED BY <1>1, <3>1, <3>2
  <2> QED BY <2>1, <2>2
<1>3. h = [i \in 0..n |-> h[i]]
  OBVIOUS
<1> HIDE DEF h
<1>4. h = [i \in 0..n |-> IF i = 0 THEN <<>> ELSE h[i - 1] \o s[i]]
  BY <1>2, <1>3
<1> QED BY <1>4 DEF Joined

LEMMA JoinedExists == ASSUME NEW s, NEW n \in Nat PROVE \E g : Joined(g, s, n)
<1> DEFINE Bad == {k \in Nat : ~\E g : Joined(g, s, k)}
<1> SUFFICES ASSUME Bad # {} PROVE FALSE
  OBVIOUS
<1>1. PICK k \in Bad : \A j \in Bad : k <= j
  BY Lowest
<1>2. k = 0 => FALSE
  <2> SUFFICES ASSUME k = 0 PROVE FALSE OBVIOUS
  <2> DEFINE g == [i \in 0..0 |-> <<>>]
  <2>1. g = [i \in 0..0 |-> IF i = 0 THEN <<>> ELSE g[i - 1] \o s[i]] OBVIOUS
  <2> HIDE DEF g
  <2>2. Joined(g, s, 0) BY <2>1 DEF Joined
  <2> QED BY <1>1, <2>2
<1>3. k # 0 => FALSE
  <2> SUFFICES ASSUME k # 0 PROVE FALSE OBVIOUS
  <2>1. k - 1 \in Nat /\ ~(k <= k - 1) BY <1>1
  <2>2. \E g : Joined(g, s, k - 1) BY <1>1, <2>1
  <2> QED BY <1>1, <2>2, JoinedStep
<1> QED BY <1>2, <1>3

\* Two that begin alike, as long as they do.
LEMMA JoinedAlike ==
  ASSUME NEW s, NEW t, NEW g, NEW h, NEW n \in Nat, NEW m \in Nat, NEW k \in Nat,
         Joined(g, s, n), Joined(h, t, m), k <= n, k <= m, \A i \in 1..k : s[i] = t[i]
  PROVE  g[k] = h[k]
<1> DEFINE Bad == {i \in 0..k : g[i] # h[i]}
<1> SUFFICES ASSUME Bad # {} PROVE FALSE
  OBVIOUS
<1>1. Bad \in SUBSET Nat OBVIOUS
<1>2. PICK i \in Bad : \A j \in Bad : i <= j
  <2> HIDE DEF Bad
  <2> QED BY <1>1, Lowest
<1>3. /\ g[i] = IF i = 0 THEN <<>> ELSE g[i - 1] \o s[i]
      /\ h[i] = IF i = 0 THEN <<>> ELSE h[i - 1] \o t[i]
  <2>1. i \in 0..n /\ i \in 0..m OBVIOUS
  <2>2. \A j \in 0..n : g[j] = IF j = 0 THEN <<>> ELSE g[j - 1] \o s[j]
    BY DEF Joined
  <2>3. \A j \in 0..m : h[j] = IF j = 0 THEN <<>> ELSE h[j - 1] \o t[j]
    BY DEF Joined
  <2> QED BY <2>1, <2>2, <2>3
<1>4. i # 0 BY <1>3
<1>5. i - 1 \in 0..k /\ ~(i <= i - 1) /\ i \in 1..k BY <1>4
<1>6. g[i - 1] = h[i - 1] BY <1>2, <1>5
<1> QED BY <1>3, <1>4, <1>5, <1>6

\* FlattenSeq joins all.
LEMMA FlattenIs ==
  ASSUME NEW S, NEW s \in Seq(Seq(S)), NEW g, Joined(g, s, Len(s))
  PROVE  Messages!FlattenSeq(s) = g[Len(s)]
<1> DEFINE n == Len(s)
<1>1. n \in Nat /\ (\A i \in 1..n : s[i] \in Seq(S)) /\ (n = 0 => s = <<>>)
  OBVIOUS
<1>2. Messages!FlattenSeq(s) = IF n = 0 THEN s
                      ELSE (CHOOSE f : f = [i \in 1..n |-> IF i = 1 THEN s[i] ELSE f[i - 1] \o s[i]])[n]
  BY DEF Messages!FlattenSeq
<1>3. Joined(g, s, n) OBVIOUS
<1> HIDE DEF n
<1>4. \A i \in 0..n : g[i] = IF i = 0 THEN <<>> ELSE g[i - 1] \o s[i]
  BY <1>3 DEF Joined
<1>5. g[0] = <<>> BY <1>1, <1>4
<1>6. ASSUME NEW i \in 1..n PROVE g[i] = IF i = 1 THEN s[i] ELSE g[i - 1] \o s[i]
  <2>1. i \in 0..n /\ i # 0 BY <1>1
  <2>2. g[i] = g[i - 1] \o s[i] BY <1>4, <2>1
  <2>3. s[i] \in Seq(S) BY <1>1
  <2>4. <<>> \o s[i] = s[i] BY <2>3
  <2>5. i = 1 => i - 1 = 0 OBVIOUS
  <2>6. CASE i = 1
    <3>1. g[i - 1] = <<>> BY <1>5, <2>5, <2>6
    <3> QED BY <2>2, <2>4, <2>6, <3>1
  <2> QED BY <2>2, <2>6
<1>7. CASE n = 0
  BY <1>1, <1>2, <1>5, <1>7
<1>8. CASE n # 0
  <2> DEFINE Is(f) == f = [i \in 1..n |-> IF i = 1 THEN s[i] ELSE f[i - 1] \o s[i]]
             flatten == CHOOSE f : Is(f)
             f0 == [i \in 1..n |-> g[i]]
  <2>1. Is(f0)
    <3>1. ASSUME NEW i \in 1..n PROVE f0[i] = IF i = 1 THEN s[i] ELSE f0[i - 1] \o s[i]
      <4>1. f0[i] = g[i] OBVIOUS
      <4>2. i # 1 => i - 1 \in 1..n /\ f0[i - 1] = g[i - 1] BY <1>1
      <4> HIDE DEF f0
      <4> QED BY <1>6, <4>1, <4>2
    <3>2. f0 = [i \in 1..n |-> f0[i]] OBVIOUS
    <3> HIDE DEF f0
    <3> QED BY <3>1, <3>2
  <2>2. Is(flatten)
    <3> HIDE DEF Is, f0
    <3> QED BY <2>1
  <2>3. Messages!FlattenSeq(s) = flatten[n] BY <1>2, <1>8
  <2> HIDE DEF flatten
  <2>4. \A i \in 1..n : flatten[i] = IF i = 1 THEN s[i] ELSE flatten[i - 1] \o s[i]
    BY <2>2
  <2> DEFINE Bad == {i \in 1..n : flatten[i] # g[i]}
  <2>5. Bad # {} => FALSE
    <3> SUFFICES ASSUME Bad # {} PROVE FALSE OBVIOUS
    <3>1. Bad \in SUBSET Nat BY <1>1
    <3>2. PICK i \in Bad : \A j \in Bad : i <= j
      <4> HIDE DEF Bad
      <4> QED BY <3>1, Lowest
    <3>3. i # 1 BY <1>6, <2>4
    <3>4. i - 1 \in 1..n /\ ~(i <= i - 1) BY <1>1, <3>3
    <3>5. flatten[i - 1] = g[i - 1] BY <3>2, <3>4
    <3> QED BY <1>6, <2>4, <3>3, <3>5
  <2>6. n \in 1..n BY <1>1, <1>8
  <2>7. flatten[n] = g[n] BY <2>5, <2>6
  <2> QED BY <2>3, <2>7 DEF n
<1> QED BY <1>7, <1>8 DEF n

LEMMA JoinedIsSeq ==
  ASSUME NEW S, NEW s \in Seq(Seq(S)), NEW g, Joined(g, s, Len(s)), NEW k \in 0..Len(s)
  PROVE  g[k] \in Seq(S)
<1> DEFINE Bad == {i \in 0..Len(s) : g[i] \notin Seq(S)}
<1> SUFFICES ASSUME Bad # {} PROVE FALSE
  OBVIOUS
<1>1. Bad \in SUBSET Nat OBVIOUS
<1>2. PICK i \in Bad : \A j \in Bad : i <= j
  <2> HIDE DEF Bad
  <2> QED BY <1>1, Lowest
<1>3. \A j \in 0..Len(s) : g[j] = IF j = 0 THEN <<>> ELSE g[j - 1] \o s[j]
  BY DEF Joined
<1>4. i # 0
  <2>1. 0 \in 0..Len(s) OBVIOUS
  <2>2. g[0] = <<>> BY <1>3, <2>1
  <2>3. <<>> \in Seq(S) OBVIOUS
  <2> QED BY <2>2, <2>3
<1>5. i - 1 \in 0..Len(s) /\ ~(i <= i - 1) /\ i \in 1..Len(s) BY <1>4
<1>6. g[i - 1] \in Seq(S) BY <1>2, <1>5
<1>7. s[i] \in Seq(S) BY <1>5
<1>8. g[i] = g[i - 1] \o s[i] BY <1>3, <1>4
<1>9. g[i] \in Seq(S) BY <1>6, <1>7, <1>8
<1> QED BY <1>9

LEMMA FlattenType == ASSUME NEW S, NEW s \in Seq(Seq(S)) PROVE Messages!FlattenSeq(s) \in Seq(S)
<1>1. Len(s) \in Nat OBVIOUS
<1>2. PICK g : Joined(g, s, Len(s)) BY <1>1, JoinedExists
<1>3. Len(s) \in 0..Len(s) BY <1>1
<1> QED BY <1>2, <1>3, FlattenIs, JoinedIsSeq

\* Two that are joined, whatever they hold.
LEMMA FlattenBoth ==
  ASSUME NEW S, NEW s \in Seq(Seq(S)), NEW t \in Seq(Seq(S))
  PROVE  Messages!FlattenSeq(s \o t) = Messages!FlattenSeq(s) \o Messages!FlattenSeq(t)
<1> DEFINE u == s \o t
           n == Len(s)
           m == Len(t)
<1>1. /\ u \in Seq(Seq(S)) /\ Len(u) = n + m /\ n \in Nat /\ m \in Nat
      /\ \A i \in 1..n : u[i] = s[i]
      /\ \A i \in 1..m : u[n + i] = t[i]
  OBVIOUS
<1>2. PICK g : Joined(g, s, n) BY <1>1, JoinedExists
<1>3. PICK h : Joined(h, t, m) BY <1>1, JoinedExists
<1>4. PICK f : Joined(f, u, n + m)
  <2> HIDE DEF u, n, m
  <2>1. n + m \in Nat BY <1>1
  <2> QED BY <2>1, JoinedExists
<1> HIDE DEF u
<1>5. f[n] = g[n]
  <2> HIDE DEF n, m
  <2>1. n <= n /\ n <= n + m /\ n + m \in Nat BY <1>1
  <2> QED BY <1>1, <1>2, <1>4, <2>1, JoinedAlike
<1>6. g[n] \in Seq(S) /\ \A i \in 0..m : h[i] \in Seq(S)
  BY <1>1, <1>2, <1>3, JoinedIsSeq
<1> DEFINE Bad == {i \in 0..m : f[n + i] # g[n] \o h[i]}
<1>7. Bad # {} => FALSE
  <2> SUFFICES ASSUME Bad # {} PROVE FALSE OBVIOUS
  <2> HIDE DEF n, m
  <2>0. n \in Nat /\ m \in Nat BY <1>1
  <2>1. Bad \in SUBSET Nat
    <3>1. \A j \in 0..m : j \in Nat BY <2>0
    <3> QED BY <3>1, Zenon
  <2>2. PICK i \in Bad : \A j \in Bad : i <= j
    <3> HIDE DEF Bad
    <3> QED BY <2>1, Lowest
  <2>3. \A j \in 0..m : h[j] = IF j = 0 THEN <<>> ELSE h[j - 1] \o t[j] BY <1>3 DEF Joined
  <2>4. \A j \in 0..n + m : f[j] = IF j = 0 THEN <<>> ELSE f[j - 1] \o u[j] BY <1>4 DEF Joined
  <2>5. i # 0
    <3>1. h[0] = <<>> BY <1>1, <2>3
    <3>2. f[n + 0] = g[n] \o h[0] BY <1>1, <1>5, <1>6, <3>1
    <3> QED BY <3>2
  <2>6. i \in 1..m /\ i - 1 \in 0..m /\ ~(i <= i - 1) /\ n + i \in 0..n + m /\ n + i # 0
        /\ (n + i) - 1 = n + (i - 1)
    BY <1>1, <2>5
  <2>7. f[n + (i - 1)] = g[n] \o h[i - 1] BY <2>2, <2>6
  <2>8. f[n + i] = (g[n] \o h[i - 1]) \o t[i]
    <3>1. f[n + i] = f[(n + i) - 1] \o u[n + i] 
      <4>1. PICK j : j = n + i OBVIOUS
      <4>2. j \in 0..n + m /\ j # 0 BY <2>6, <4>1
      <4>3. f[j] = f[j - 1] \o u[j] BY <2>4, <4>2
      <4> QED BY <4>1, <4>3
    <3>2. u[n + i] = t[i] BY <1>1, <2>6
    <3>3. f[(n + i) - 1] = f[n + (i - 1)] BY <2>6
    <3> QED BY <2>7, <3>1, <3>2, <3>3
  <2>9. h[i] = h[i - 1] \o t[i] BY <2>3, <2>5
  <2>10. t[i] \in Seq(S) /\ h[i - 1] \in Seq(S) BY <1>6, <2>6 DEF m
  <2>11. (g[n] \o h[i - 1]) \o t[i] = g[n] \o (h[i - 1] \o t[i])
    <3>1. g[n] \in Seq(S) BY <1>6
    <3>2. \A a, b, c \in Seq(S) : (a \o b) \o c = a \o (b \o c) BY ConcatAssociative, SMTT(30)
    <3> QED BY <2>10, <3>1, <3>2, Zenon
  <2> QED BY <2>8, <2>9, <2>11
<1>8. f[n + m] = g[n] \o h[m]
  <2>1. m \in 0..m BY <1>1
  <2> QED BY <1>7, <2>1
<1> HIDE DEF n, m
<1>9. Messages!FlattenSeq(u) = f[n + m] BY <1>1, <1>4, FlattenIs
<1>10. Messages!FlattenSeq(s) = g[n] /\ Messages!FlattenSeq(t) = h[m]
  BY <1>2, <1>3, FlattenIs DEF n, m
<1> QED BY <1>8, <1>9, <1>10 DEF u

\* One for each.
LEMMA FlattenSingles ==
  ASSUME NEW S, NEW x \in Seq(S), NEW s \in Seq(Seq(S)), Len(s) = Len(x),
         \A i \in 1..Len(x) : s[i] = <<x[i]>>
  PROVE  Messages!FlattenSeq(s) = x
<1> DEFINE n == Len(x)
           g == [i \in 0..n |-> SubSeq(x, 1, i)]
<1>1. ASSUME NEW i \in 0..n PROVE g[i] = IF i = 0 THEN <<>> ELSE g[i - 1] \o s[i]
  <2>1. CASE i = 0 BY <2>1
  <2>2. CASE i # 0
    <3>1. i \in 1..n /\ i - 1 \in 0..n BY <2>2
    <3>2. g[i] = SubSeq(x, 1, i) /\ g[i - 1] = SubSeq(x, 1, i - 1) /\ s[i] = <<x[i]>> BY <3>1
    <3>3. SubSeq(x, 1, i) = SubSeq(x, 1, i - 1) \o <<x[i]>> BY <3>1
    <3> QED BY <2>2, <3>2, <3>3
  <2> QED BY <2>1, <2>2
<1>2. g = [i \in 0..n |-> g[i]] OBVIOUS
<1>3. n \in 0..n /\ g[n] = SubSeq(x, 1, n) /\ SubSeq(x, 1, n) = x OBVIOUS
<1> HIDE DEF g
<1>4. Joined(g, s, Len(s)) BY <1>1, <1>2 DEF Joined
<1> QED BY <1>3, <1>4, FlattenIs

\* Nothing for each.
LEMMA FlattenNothing ==
  ASSUME NEW S, NEW s \in Seq(Seq(S)), \A i \in 1..Len(s) : s[i] = <<>>
  PROVE  Messages!FlattenSeq(s) = <<>>
<1> DEFINE g == [i \in 0..Len(s) |-> <<>>]
<1>1. Joined(g, s, Len(s))
  <2>1. ASSUME NEW i \in 0..Len(s) PROVE g[i] = IF i = 0 THEN <<>> ELSE g[i - 1] \o s[i]
    <3>1. CASE i = 0 BY <3>1
    <3>2. CASE i # 0
      <4>1. i - 1 \in 0..Len(s) /\ i \in 1..Len(s) BY <3>2
      <4>2. g[i - 1] = <<>> /\ s[i] = <<>> /\ g[i] = <<>> BY <4>1
      <4>3. <<>> \o <<>> = <<>> OBVIOUS
      <4> QED BY <3>2, <4>2, <4>3
    <3> QED BY <3>1, <3>2
  <2>2. g = [i \in 0..Len(s) |-> g[i]] OBVIOUS
  <2> HIDE DEF g
  <2> QED BY <2>1, <2>2 DEF Joined
<1>2. g[Len(s)] = <<>> OBVIOUS
<1> HIDE DEF g
<1> QED BY <1>1, <1>2, FlattenIs

LEMMA FlattenOne == ASSUME NEW S, NEW a \in Seq(S) PROVE Messages!FlattenSeq(<<a>>) = a
<1> DEFINE s == <<a>>
           g == [i \in 0..1 |-> IF i = 0 THEN <<>> ELSE a]
<1>1. s \in Seq(Seq(S)) /\ Len(s) = 1 /\ s[1] = a OBVIOUS
<1> HIDE DEF s
<1>2. g[0] = <<>> /\ g[1] = a OBVIOUS
<1>3. \A i \in 0..1 : g[i] = IF i = 0 THEN <<>> ELSE g[i - 1] \o s[i]
  <2> HIDE DEF g
  <2>1. <<>> \o a = a OBVIOUS
  <2>2. g[1 - 1] = <<>> BY <1>2
  <2>3. g[1] = g[1 - 1] \o s[1] BY <1>1, <1>2, <2>1, <2>2
  <2>4. \A i \in 0..1 : i = 0 \/ i = 1 OBVIOUS
  <2> QED BY <1>2, <2>3, <2>4
<1>4. g = [i \in 0..1 |-> g[i]] OBVIOUS
<1> HIDE DEF g
<1>5. Joined(g, s, 1) BY <1>3, <1>4 DEF Joined
<1>6. Messages!FlattenSeq(s) = g[Len(s)] BY <1>1, <1>5, FlattenIs
<1> QED BY <1>1, <1>2, <1>6 DEF s

LEMMA FlattenAppend ==
  ASSUME NEW S, NEW s \in Seq(Seq(S)), NEW a \in Seq(S)
  PROVE  Messages!FlattenSeq(Append(s, a)) = Messages!FlattenSeq(s) \o a
<1>1. Append(s, a) = s \o <<a>> OBVIOUS
<1>2. <<a>> \in Seq(Seq(S)) OBVIOUS
<1>3. Messages!FlattenSeq(s \o <<a>>) = Messages!FlattenSeq(s) \o Messages!FlattenSeq(<<a>>)
  BY <1>2, FlattenBoth
<1>4. Messages!FlattenSeq(<<a>>) = a BY FlattenOne
<1> QED BY <1>1, <1>3, <1>4

\* Two sequences, one after the other.
Follows(u, a, b) ==
  /\ Len(u) = Len(a) + Len(b)
  /\ \A i \in 1..Len(a) : u[i] = a[i]
  /\ \A i \in 1..Len(b) : u[Len(a) + i] = b[i]

LEMMA BothAre ==
  ASSUME NEW T, NEW u \in Seq(T), NEW a \in Seq(T), NEW b \in Seq(T), Follows(u, a, b)
  PROVE  u = a \o b
<1> USE DEF Follows
<1> DEFINE w == a \o b
<1>1. /\ w \in Seq(T) /\ Len(w) = Len(a) + Len(b) /\ Len(a) \in Nat /\ Len(b) \in Nat
      /\ \A i \in 1..Len(a) : w[i] = a[i]
      /\ \A i \in 1..Len(b) : w[Len(a) + i] = b[i]
  OBVIOUS
<1> HIDE DEF w
<1>2. ASSUME NEW i \in 1..Len(u) PROVE u[i] = w[i]
  <2>1. CASE i \in 1..Len(a) BY <1>1, <2>1
  <2>2. CASE i \notin 1..Len(a)
    <3>1. PICK j \in 1..Len(b) : i = Len(a) + j
      <4>1. i - Len(a) \in 1..Len(b) /\ i = Len(a) + (i - Len(a)) BY <1>1, <2>2
      <4> QED BY <4>1
    <3> QED BY <1>1, <3>1
  <2> QED BY <2>1, <2>2
<1>3. u = w BY <1>1, <1>2, SeqEqual
<1> QED BY <1>3 DEF w

\* What f makes of each.
Makes(f, T, S) == f \in [T -> Seq(S)]
Each(f, v) == [i \in 1..Len(v) |-> f[v[i]]]

LEMMA EachIs ==
  ASSUME NEW S, NEW T, NEW f, Makes(f, T, S), NEW v \in Seq(T)
  PROVE  /\ Each(f, v) \in Seq(Seq(S)) /\ Len(Each(f, v)) = Len(v)
         /\ Messages!FlattenSeq(Each(f, v)) \in Seq(S)
         /\ \A i \in 1..Len(v) : Each(f, v)[i] = f[v[i]]
<1>1. \A i \in 1..Len(v) : f[v[i]] \in Seq(S)
  <2>1. \A i \in 1..Len(v) : v[i] \in T OBVIOUS
  <2> QED BY <2>1 DEF Makes
<1>2. Len(v) \in Nat OBVIOUS
<1>3. Each(f, v) \in Seq(Seq(S)) /\ Len(Each(f, v)) = Len(v)
  BY <1>1, <1>2 DEF Each
<1>4. \A i \in 1..Len(v) : Each(f, v)[i] = f[v[i]] BY DEF Each
<1> QED BY <1>3, <1>4, FlattenType

LEMMA EachBoth ==
  ASSUME NEW S, NEW T, NEW f, Makes(f, T, S), NEW s \in Seq(T), NEW t \in Seq(T)
  PROVE  Messages!FlattenSeq(Each(f, s \o t))
           = Messages!FlattenSeq(Each(f, s)) \o Messages!FlattenSeq(Each(f, t))
<1> DEFINE u == s \o t
           a == Each(f, s)
           b == Each(f, t)
           c == Each(f, u)
<1>1. /\ u \in Seq(T) /\ Len(u) = Len(s) + Len(t) /\ Len(s) \in Nat /\ Len(t) \in Nat
      /\ \A i \in 1..Len(s) : u[i] = s[i]
      /\ \A i \in 1..Len(t) : u[Len(s) + i] = t[i]
  OBVIOUS
<1> HIDE DEF u
<1>2. /\ a \in Seq(Seq(S)) /\ Len(a) = Len(s) /\ \A i \in 1..Len(s) : a[i] = f[s[i]]
      /\ b \in Seq(Seq(S)) /\ Len(b) = Len(t) /\ \A i \in 1..Len(t) : b[i] = f[t[i]]
      /\ c \in Seq(Seq(S)) /\ Len(c) = Len(u) /\ \A i \in 1..Len(u) : c[i] = f[u[i]]
  <2>1. \A v \in Seq(T) : /\ Each(f, v) \in Seq(Seq(S)) /\ Len(Each(f, v)) = Len(v)
                          /\ \A i \in 1..Len(v) : Each(f, v)[i] = f[v[i]]
    BY EachIs
  <2> QED BY <1>1, <2>1
<1> HIDE DEF a, b, c
<1>3. ASSUME NEW i \in 1..Len(a) PROVE c[i] = a[i]
  <2>1. i \in 1..Len(s) /\ i \in 1..Len(u) BY <1>1, <1>2
  <2>2. c[i] = f[u[i]] /\ a[i] = f[s[i]] /\ u[i] = s[i] BY <1>1, <1>2, <2>1
  <2> QED BY <2>2
<1>4. ASSUME NEW i \in 1..Len(b) PROVE c[Len(a) + i] = b[i]
  <2>1. i \in 1..Len(t) /\ Len(a) + i = Len(s) + i /\ Len(s) + i \in 1..Len(u) BY <1>1, <1>2
  <2>2. c[Len(s) + i] = f[u[Len(s) + i]] /\ b[i] = f[t[i]] /\ u[Len(s) + i] = t[i]
    BY <1>1, <1>2, <2>1
  <2> QED BY <2>1, <2>2
<1>5. Follows(c, a, b)
  <2>1. Len(c) = Len(a) + Len(b) BY <1>1, <1>2
  <2> QED BY <1>3, <1>4, <2>1 DEF Follows
<1>6. c = a \o b
  <2>1. a \in Seq(Seq(S)) /\ b \in Seq(Seq(S)) /\ c \in Seq(Seq(S)) BY <1>2
  <2> QED BY <2>1, <1>5, BothAre
<1>7. Messages!FlattenSeq(c) = Messages!FlattenSeq(a) \o Messages!FlattenSeq(b)
  BY <1>2, <1>6, FlattenBoth
<1> QED BY <1>7 DEF a, b, c, u

LEMMA EachOne ==
  ASSUME NEW S, NEW T, NEW f, Makes(f, T, S), NEW x \in T
  PROVE  Messages!FlattenSeq(Each(f, <<x>>)) = f[x]
<1>1. Each(f, <<x>>) = <<f[x]>> BY DEF Each
<1>2. f[x] \in Seq(S) BY DEF Makes
<1> QED BY <1>1, <1>2, FlattenOne

-----------------------------------------------------------------------------
(* Messages.                                                               *)

Block == [type : {"text", "tool_use", "tool_result"}, call : Nat]
Msg == [role : {"user", "assistant"}, blocks : Seq(Block)]
Translated ==
  {x \in [role : {"user", "assistant", "model", "tool"}, text : Seq(Block),
          uses : Seq(Nat), answers : Seq(Nat), callIds : Seq(Nat), resultIds : Seq(Nat)] :
     provider = "openai" => x.callIds = x.uses /\ x.resultIds = x.answers}

Uses(m) == Messages!Calls(Messages!OfType(m.blocks, "tool_use"))
Results(m) == Messages!Calls(Messages!OfType(m.blocks, "tool_result"))
Kept(m) ==
  IF provider = "openai" /\ Messages!OfType(m.blocks, "tool_result") # <<>> THEN <<>>
  ELSE Messages!Texts(m)

\* What a request has of each kind.
UsesOf(s) == Messages!FlattenSeq([i \in 1..Len(s) |-> s[i].uses])
AnswersOf(s) == Messages!FlattenSeq([i \in 1..Len(s) |-> s[i].answers])
TextsOf(s) == Messages!FlattenSeq([i \in 1..Len(s) |-> s[i].text])

\* A block, if it is of a type.
Chosen(type) == [x \in Block |-> IF x.type = type THEN <<x>> ELSE <<>>]

LEMMA ChosenIs ==
  ASSUME NEW type
  PROVE  /\ Makes(Chosen(type), Block, Block)
         /\ \A b \in Seq(Block) : Messages!OfType(b, type)
              = Messages!FlattenSeq(Each(Chosen(type), b))
<1>1. Makes(Chosen(type), Block, Block) BY DEF Chosen, Makes
<1>2. ASSUME NEW b \in Seq(Block)
      PROVE  Each(Chosen(type), b)
               = [i \in 1..Len(b) |-> IF b[i].type = type THEN <<b[i]>> ELSE <<>>]
  <2>1. \A i \in 1..Len(b) : b[i] \in Block OBVIOUS
  <2> QED BY <2>1 DEF Each, Chosen
<1> QED BY <1>1, <1>2 DEF Messages!OfType

LEMMA OfTypeIs ==
  ASSUME NEW b \in Seq(Block), NEW type
  PROVE  Messages!OfType(b, type) \in Seq(Block)
<1>1. Messages!FlattenSeq(Each(Chosen(type), b)) \in Seq(Block) BY ChosenIs, EachIs
<1> QED BY <1>1, ChosenIs

LEMMA OfTypeBoth ==
  ASSUME NEW a \in Seq(Block), NEW b \in Seq(Block), NEW type
  PROVE  Messages!OfType(a \o b, type) = Messages!OfType(a, type) \o Messages!OfType(b, type)
<1>1. a \o b \in Seq(Block) OBVIOUS
<1>2. Messages!FlattenSeq(Each(Chosen(type), a \o b))
        = Messages!FlattenSeq(Each(Chosen(type), a)) \o Messages!FlattenSeq(Each(Chosen(type), b))
  <2>1. Makes(Chosen(type), Block, Block) BY ChosenIs
  <2> QED BY <2>1, EachBoth
<1> QED BY <1>1, <1>2, ChosenIs

LEMMA OfTypeAll ==
  ASSUME NEW b \in Seq(Block), NEW type, \A i \in 1..Len(b) : b[i].type = type
  PROVE  Messages!OfType(b, type) = b
<1>1. /\ Each(Chosen(type), b) \in Seq(Seq(Block)) /\ Len(Each(Chosen(type), b)) = Len(b)
      /\ \A i \in 1..Len(b) : Each(Chosen(type), b)[i] = Chosen(type)[b[i]]
  <2>1. Makes(Chosen(type), Block, Block) BY ChosenIs
  <2> QED BY <2>1, EachIs
<1>2. \A i \in 1..Len(b) : b[i] \in Block OBVIOUS
<1>3. \A i \in 1..Len(b) : Each(Chosen(type), b)[i] = <<b[i]>> BY <1>1, <1>2 DEF Chosen
<1> QED BY <1>1, <1>3, FlattenSingles, ChosenIs

LEMMA OfTypeNone ==
  ASSUME NEW b \in Seq(Block), NEW type, \A i \in 1..Len(b) : b[i].type # type
  PROVE  Messages!OfType(b, type) = <<>>
<1>1. /\ Each(Chosen(type), b) \in Seq(Seq(Block)) /\ Len(Each(Chosen(type), b)) = Len(b)
      /\ \A i \in 1..Len(b) : Each(Chosen(type), b)[i] = Chosen(type)[b[i]]
  <2>1. Makes(Chosen(type), Block, Block) BY ChosenIs
  <2> QED BY <2>1, EachIs
<1>2. \A i \in 1..Len(b) : b[i] \in Block OBVIOUS
<1>3. \A i \in 1..Len(b) : Each(Chosen(type), b)[i] = <<>> BY <1>1, <1>2 DEF Chosen
<1> QED BY <1>1, <1>3, FlattenNothing, ChosenIs

LEMMA CallsIs ==
  ASSUME NEW b \in Seq(Block)
  PROVE  Messages!Calls(b) \in Seq(Nat) /\ Len(Messages!Calls(b)) = Len(b)
<1>1. \A i \in 1..Len(b) : b[i].call \in Nat
  <2>1. \A i \in 1..Len(b) : b[i] \in Block OBVIOUS
  <2> QED BY <2>1 DEF Block
<1>2. Len(b) \in Nat OBVIOUS
<1> QED BY <1>1, <1>2 DEF Messages!Calls

\* A request is the sum of its messages.
LEMMA FieldsAre ==
  /\ Makes([x \in Translated |-> x.uses], Translated, Nat)
  /\ Makes([x \in Translated |-> x.answers], Translated, Nat)
  /\ Makes([x \in Translated |-> x.text], Translated, Block)
  /\ \A s \in Seq(Translated) :
       /\ UsesOf(s) = Messages!FlattenSeq(Each([x \in Translated |-> x.uses], s))
       /\ AnswersOf(s) = Messages!FlattenSeq(Each([x \in Translated |-> x.answers], s))
       /\ TextsOf(s) = Messages!FlattenSeq(Each([x \in Translated |-> x.text], s))
<1>1. \A x \in Translated : x.uses \in Seq(Nat) /\ x.answers \in Seq(Nat) /\ x.text \in Seq(Block)
  BY DEF Translated
<1>2. ASSUME NEW s \in Seq(Translated)
      PROVE  /\ Each([x \in Translated |-> x.uses], s) = [i \in 1..Len(s) |-> s[i].uses]
             /\ Each([x \in Translated |-> x.answers], s) = [i \in 1..Len(s) |-> s[i].answers]
             /\ Each([x \in Translated |-> x.text], s) = [i \in 1..Len(s) |-> s[i].text]
  <2>1. \A i \in 1..Len(s) : s[i] \in Translated OBVIOUS
  <2> QED BY <2>1 DEF Each
<1> QED BY <1>1, <1>2 DEF UsesOf, AnswersOf, TextsOf, Makes

LEMMA OfBoth ==
  ASSUME NEW s \in Seq(Translated), NEW t \in Seq(Translated)
  PROVE  /\ UsesOf(s \o t) = UsesOf(s) \o UsesOf(t)
         /\ AnswersOf(s \o t) = AnswersOf(s) \o AnswersOf(t)
         /\ TextsOf(s \o t) = TextsOf(s) \o TextsOf(t)
         /\ UsesOf(s) \in Seq(Nat) /\ AnswersOf(s) \in Seq(Nat) /\ TextsOf(s) \in Seq(Block)
<1> DEFINE U == [x \in Translated |-> x.uses]
           A == [x \in Translated |-> x.answers]
           X == [x \in Translated |-> x.text]
<1>1. Makes(U, Translated, Nat) /\ Makes(A, Translated, Nat) /\ Makes(X, Translated, Block)
  BY FieldsAre
<1>2. \A v \in Seq(Translated) : /\ UsesOf(v) = Messages!FlattenSeq(Each(U, v))
                                 /\ AnswersOf(v) = Messages!FlattenSeq(Each(A, v))
                                 /\ TextsOf(v) = Messages!FlattenSeq(Each(X, v))
  BY FieldsAre
<1>3. s \o t \in Seq(Translated) OBVIOUS
<1> HIDE DEF U, A, X
<1>4. /\ Messages!FlattenSeq(Each(U, s \o t))
           = Messages!FlattenSeq(Each(U, s)) \o Messages!FlattenSeq(Each(U, t))
      /\ Messages!FlattenSeq(Each(A, s \o t))
           = Messages!FlattenSeq(Each(A, s)) \o Messages!FlattenSeq(Each(A, t))
      /\ Messages!FlattenSeq(Each(X, s \o t))
           = Messages!FlattenSeq(Each(X, s)) \o Messages!FlattenSeq(Each(X, t))
  <2>1. Messages!FlattenSeq(Each(U, s \o t))
          = Messages!FlattenSeq(Each(U, s)) \o Messages!FlattenSeq(Each(U, t)) BY <1>1, EachBoth
  <2>2. Messages!FlattenSeq(Each(A, s \o t))
          = Messages!FlattenSeq(Each(A, s)) \o Messages!FlattenSeq(Each(A, t)) BY <1>1, EachBoth
  <2>3. Messages!FlattenSeq(Each(X, s \o t))
          = Messages!FlattenSeq(Each(X, s)) \o Messages!FlattenSeq(Each(X, t)) BY <1>1, EachBoth
  <2> QED BY <2>1, <2>2, <2>3
<1>5. /\ Messages!FlattenSeq(Each(U, s)) \in Seq(Nat)
      /\ Messages!FlattenSeq(Each(A, s)) \in Seq(Nat)
      /\ Messages!FlattenSeq(Each(X, s)) \in Seq(Block)
  BY <1>1, EachIs
<1> QED BY <1>2, <1>3, <1>4, <1>5

LEMMA OfOne ==
  ASSUME NEW x \in Translated
  PROVE  /\ <<x>> \in Seq(Translated) /\ UsesOf(<<x>>) = x.uses
         /\ AnswersOf(<<x>>) = x.answers /\ TextsOf(<<x>>) = x.text
<1>1. x.uses \in Seq(Nat) /\ x.answers \in Seq(Nat) /\ x.text \in Seq(Block) BY DEF Translated
<1>2. /\ [i \in 1..Len(<<x>>) |-> <<x>>[i].uses] = <<x.uses>>
      /\ [i \in 1..Len(<<x>>) |-> <<x>>[i].answers] = <<x.answers>>
      /\ [i \in 1..Len(<<x>>) |-> <<x>>[i].text] = <<x.text>>
  OBVIOUS
<1>3. UsesOf(<<x>>) = x.uses BY <1>1, <1>2, FlattenOne DEF UsesOf
<1>4. AnswersOf(<<x>>) = x.answers BY <1>1, <1>2, FlattenOne DEF AnswersOf
<1>5. TextsOf(<<x>>) = x.text BY <1>1, <1>2, FlattenOne DEF TextsOf
<1> QED BY <1>3, <1>4, <1>5

-----------------------------------------------------------------------------
(* A message and its translation.                                          *)

\* A user makes no calls, and the assistant answers none.
Proper(m) == IF m.role = "user" THEN Uses(m) = <<>> ELSE Results(m) = <<>>

LEMMA MsgIs ==
  ASSUME NEW m \in Msg
  PROVE  /\ m.blocks \in Seq(Block) /\ m.role \in {"user", "assistant"}
         /\ Messages!Texts(m) \in Seq(Block) /\ Uses(m) \in Seq(Nat) /\ Results(m) \in Seq(Nat)
         /\ Kept(m) \in Seq(Block)
         /\ Messages!OfType(m.blocks, "tool_result") = <<>> <=> Results(m) = <<>>
<1>1. m.blocks \in Seq(Block) /\ m.role \in {"user", "assistant"} BY DEF Msg
<1>2. \A t : Messages!OfType(m.blocks, t) \in Seq(Block) BY <1>1, OfTypeIs
<1>3. Messages!Texts(m) \in Seq(Block) BY <1>2 DEF Messages!Texts
<1>4. Uses(m) \in Seq(Nat) BY <1>2, CallsIs DEF Uses
<1>5. Results(m) \in Seq(Nat) /\ Len(Results(m)) = Len(Messages!OfType(m.blocks, "tool_result"))
  BY <1>2, CallsIs DEF Results
<1>6. Messages!OfType(m.blocks, "tool_result") \in Seq(Block) BY <1>2
<1>7. Messages!OfType(m.blocks, "tool_result") = <<>> <=> Results(m) = <<>>
  BY <1>5, <1>6
<1>8. <<>> \in Seq(Block) OBVIOUS
<1>9. Kept(m) \in Seq(Block) BY <1>3, <1>8 DEF Kept
<1> QED BY <1>1, <1>3, <1>4, <1>5, <1>7, <1>9

LEMMA MessageHas ==
  \A role \in {"user", "assistant", "model", "tool"}, text \in Seq(Block),
     uses \in Seq(Nat), answers \in Seq(Nat) :
    /\ Messages!Message(role, text, uses, answers) \in Translated
    /\ Messages!Message(role, text, uses, answers).text = text
    /\ Messages!Message(role, text, uses, answers).uses = uses
    /\ Messages!Message(role, text, uses, answers).answers = answers
BY DEF Messages!Message, Translated

LEMMA MessageIs ==
  ASSUME NEW role \in {"user", "assistant", "model", "tool"}, NEW text \in Seq(Block),
         NEW uses \in Seq(Nat), NEW answers \in Seq(Nat)
  PROVE  LET x == Messages!Message(role, text, uses, answers)
         IN /\ x \in Translated /\ x.text = text /\ x.uses = uses /\ x.answers = answers
            /\ <<x>> \in Seq(Translated) /\ Len(<<x>>) = 1 /\ <<x>>[1] = x
            /\ UsesOf(<<x>>) = uses /\ AnswersOf(<<x>>) = answers /\ TextsOf(<<x>>) = text
<1> DEFINE x == Messages!Message(role, text, uses, answers)
<1>1. x \in Translated /\ x.text = text /\ x.uses = uses /\ x.answers = answers
  BY MessageHas
<1> HIDE DEF x
<1>2. Len(<<x>>) = 1 /\ <<x>>[1] = x OBVIOUS
<1>3. /\ <<x>> \in Seq(Translated) /\ UsesOf(<<x>>) = x.uses
      /\ AnswersOf(<<x>>) = x.answers /\ TextsOf(<<x>>) = x.text
  BY <1>1, OfOne
<1> QED BY <1>1, <1>2, <1>3 DEF x

LEMMA ToolsAre ==
  ASSUME NEW m \in Msg
  PROVE  LET t == Messages!ToolMessages(m)
         IN /\ t \in Seq(Translated) /\ Len(t) = Len(Results(m))
            /\ \A i \in 1..Len(t) : t[i].answers = <<Results(m)[i]>>
            /\ UsesOf(t) = <<>> /\ TextsOf(t) = <<>> /\ AnswersOf(t) = Results(m)
<1> DEFINE r == Results(m)
           t == Messages!ToolMessages(m)
<1>1. r \in Seq(Nat) BY MsgIs
<1>2. t = [i \in 1..Len(r) |-> Messages!Message("tool", <<>>, <<>>, <<r[i]>>)]
  BY DEF Messages!ToolMessages, Results
<1> HIDE DEF r, t
<1>3. ASSUME NEW i \in 1..Len(r)
      PROVE  t[i] \in Translated /\ t[i].uses = <<>> /\ t[i].text = <<>> /\ t[i].answers = <<r[i]>>
  <2> DEFINE none == <<>>
             one == <<r[i]>>
             x == Messages!Message("tool", none, none, one)
  <2>1. none \in Seq(Block) /\ none \in Seq(Nat) /\ one \in Seq(Nat) BY <1>1
  <2>2. t[i] = x BY <1>2
  <2>3. "tool" \in {"user", "assistant", "model", "tool"} OBVIOUS
  <2> HIDE DEF none, one
  <2>4. x \in Translated /\ x.uses = none /\ x.text = none /\ x.answers = one
    BY <2>1, <2>3, MessageHas
  <2> HIDE DEF x
  <2> QED BY <2>2, <2>4 DEF none, one
<1>4. Len(r) \in Nat BY <1>1
<1>5. t \in Seq(Translated) /\ Len(t) = Len(r) BY <1>2, <1>3, <1>4
<1>6. /\ Makes([x \in Translated |-> x.uses], Translated, Nat)
      /\ Makes([x \in Translated |-> x.answers], Translated, Nat)
      /\ Makes([x \in Translated |-> x.text], Translated, Block)
      /\ UsesOf(t) = Messages!FlattenSeq(Each([x \in Translated |-> x.uses], t))
      /\ AnswersOf(t) = Messages!FlattenSeq(Each([x \in Translated |-> x.answers], t))
      /\ TextsOf(t) = Messages!FlattenSeq(Each([x \in Translated |-> x.text], t))
  BY <1>5, FieldsAre
<1>7. UsesOf(t) = <<>>
  <2> DEFINE s == Each([x \in Translated |-> x.uses], t)
  <2>1. s \in Seq(Seq(Nat)) /\ Len(s) = Len(t) BY <1>5, <1>6, EachIs
  <2>2. \A i \in 1..Len(t) : s[i] = <<>> BY <1>3, <1>5 DEF Each
  <2> HIDE DEF s
  <2>3. Messages!FlattenSeq(s) = <<>> BY <2>1, <2>2, FlattenNothing
  <2> QED BY <1>6, <2>3 DEF s
<1>8. TextsOf(t) = <<>>
  <2> DEFINE s == Each([x \in Translated |-> x.text], t)
  <2>1. s \in Seq(Seq(Block)) /\ Len(s) = Len(t) BY <1>5, <1>6, EachIs
  <2>2. \A i \in 1..Len(t) : s[i] = <<>> BY <1>3, <1>5 DEF Each
  <2> HIDE DEF s
  <2>3. Messages!FlattenSeq(s) = <<>> BY <2>1, <2>2, FlattenNothing
  <2> QED BY <1>6, <2>3 DEF s
<1>9. AnswersOf(t) = r
  <2> DEFINE s == Each([x \in Translated |-> x.answers], t)
  <2>1. s \in Seq(Seq(Nat)) /\ Len(s) = Len(r) BY <1>5, <1>6, EachIs
  <2>2. \A i \in 1..Len(r) : s[i] = <<r[i]>> BY <1>3, <1>5 DEF Each
  <2> HIDE DEF s
  <2>3. Messages!FlattenSeq(s) = r BY <1>1, <2>1, <2>2, FlattenSingles
  <2> QED BY <1>6, <2>3 DEF s
<1> QED BY <1>3, <1>5, <1>7, <1>8, <1>9 DEF r, t

\* What the translation of a message holds is what the message does, but for the text
\* that is left out.
Faithful(t, m) ==
  /\ t \in Seq(Translated)
  /\ UsesOf(t) = Uses(m) /\ AnswersOf(t) = Results(m) /\ TextsOf(t) = Kept(m)
  /\ \A i \in 1..Len(t) : Messages!ToSet(t[i].answers) \subseteq Messages!ToSet(Results(m))
  /\ Uses(m) # <<>> => \E i \in 1..Len(t) : t[i].uses = Uses(m)

LEMMA SingleIsFaithful ==
  ASSUME NEW m \in Msg, NEW role \in {"user", "assistant", "model", "tool"}, NEW uses, NEW answers,
         uses = Uses(m), answers = Results(m), Kept(m) = Messages!Texts(m)
  PROVE  Faithful(<<Messages!Message(role, Messages!Texts(m), uses, answers)>>, m)
<1> DEFINE x == Messages!Message(role, Messages!Texts(m), uses, answers)
<1>1. Messages!Texts(m) \in Seq(Block) /\ uses \in Seq(Nat) /\ answers \in Seq(Nat) BY MsgIs
<1>2. /\ x.uses = Uses(m) /\ x.answers = Results(m)
      /\ <<x>> \in Seq(Translated) /\ Len(<<x>>) = 1 /\ <<x>>[1] = x
      /\ UsesOf(<<x>>) = Uses(m) /\ AnswersOf(<<x>>) = Results(m) /\ TextsOf(<<x>>) = Kept(m)
  BY <1>1, MessageIs
<1> HIDE DEF x
<1>3. \A i \in 1..Len(<<x>>) : Messages!ToSet(<<x>>[i].answers) \subseteq Messages!ToSet(Results(m))
  <2>1. \A i \in 1..Len(<<x>>) : i = 1 BY <1>2
  <2> QED BY <1>2, <2>1
<1>4. \E i \in 1..Len(<<x>>) : <<x>>[i].uses = Uses(m)
  <2>1. 1 \in 1..Len(<<x>>) BY <1>2
  <2> QED BY <1>2, <2>1
<1>5. Faithful(<<x>>, m) BY <1>2, <1>3, <1>4 DEF Faithful
<1> QED BY <1>5 DEF x

LEMMA ToolAnswers ==
  ASSUME NEW m \in Msg, NEW i \in 1..Len(Messages!ToolMessages(m))
  PROVE  Messages!ToSet(Messages!ToolMessages(m)[i].answers) \subseteq Messages!ToSet(Results(m))
<1>1. Messages!ToolMessages(m)[i].answers = <<Results(m)[i]>> /\ i \in 1..Len(Results(m))
  BY ToolsAre
<1>2. Results(m) \in Seq(Nat) BY MsgIs
<1>3. Messages!ToSet(<<Results(m)[i]>>) = {Results(m)[i]} BY DEF Messages!ToSet
<1>4. Results(m)[i] \in Messages!ToSet(Results(m)) BY <1>1, <1>2 DEF Messages!ToSet
<1> QED BY <1>1, <1>3, <1>4

LEMMA ToolsFaithful ==
  ASSUME NEW m \in Msg, Uses(m) = <<>>, Kept(m) = <<>>
  PROVE  Faithful(Messages!ToolMessages(m), m)
BY ToolsAre, ToolAnswers DEF Faithful

LEMMA ToolsAndText ==
  ASSUME NEW m \in Msg, Uses(m) = <<>>, Kept(m) = Messages!Texts(m)
  PROVE  Faithful(
           Messages!ToolMessages(m) \o <<Messages!Message(m.role, Messages!Texts(m), <<>>, <<>>)>>, m)
<1> DEFINE t == Messages!ToolMessages(m)
           x == Messages!Message(m.role, Messages!Texts(m), <<>>, <<>>)
           u == t \o <<x>>
<1>1. /\ t \in Seq(Translated) /\ UsesOf(t) = <<>> /\ TextsOf(t) = <<>> /\ AnswersOf(t) = Results(m)
  BY ToolsAre
<1>2. /\ <<x>> \in Seq(Translated) /\ x.answers = <<>> /\ Len(<<x>>) = 1 /\ <<x>>[1] = x
      /\ UsesOf(<<x>>) = <<>> /\ AnswersOf(<<x>>) = <<>> /\ TextsOf(<<x>>) = Messages!Texts(m)
  <2>1. m.role \in {"user", "assistant", "model", "tool"} /\ Messages!Texts(m) \in Seq(Block)
    BY MsgIs
  <2> DEFINE none == <<>>
             y == Messages!Message(m.role, Messages!Texts(m), none, none)
  <2>2. none \in Seq(Nat) /\ x = y BY DEF x
  <2> HIDE DEF none
  <2>3. y \in Translated /\ y.uses = none /\ y.answers = none /\ y.text = Messages!Texts(m)
    BY <2>1, <2>2, MessageHas
  <2> HIDE DEF x, y
  <2>4. x \in Translated /\ x.uses = <<>> /\ x.answers = <<>> /\ x.text = Messages!Texts(m)
    BY <2>2, <2>3 DEF none
  <2>5. Len(<<x>>) = 1 /\ <<x>>[1] = x OBVIOUS
  <2> QED BY <2>4, <2>5, OfOne
<1> HIDE DEF t, x
<1>3. u \in Seq(Translated) BY <1>1, <1>2
<1>4. UsesOf(u) = Uses(m) /\ AnswersOf(u) = Results(m) /\ TextsOf(u) = Kept(m)
  <2>1. /\ UsesOf(u) = UsesOf(t) \o UsesOf(<<x>>) /\ AnswersOf(u) = AnswersOf(t) \o AnswersOf(<<x>>)
        /\ TextsOf(u) = TextsOf(t) \o TextsOf(<<x>>)
    BY <1>1, <1>2, OfBoth
  <2>2. Results(m) \in Seq(Nat) /\ Messages!Texts(m) \in Seq(Block) BY MsgIs
  <2>3. Results(m) \o <<>> = Results(m) /\ <<>> \o Messages!Texts(m) = Messages!Texts(m)
        /\ <<>> \o <<>> = <<>> BY <2>2
  <2> QED BY <1>1, <1>2, <2>1, <2>3
<1>5. ASSUME NEW i \in 1..Len(u)
      PROVE Messages!ToSet(u[i].answers) \subseteq Messages!ToSet(Results(m))
  <2>1. CASE i \in 1..Len(t)
    <3>1. u[i] = t[i] BY <1>1, <1>2, <2>1
    <3>2. Messages!ToSet(t[i].answers) \subseteq Messages!ToSet(Results(m))
      BY <2>1, ToolAnswers DEF t
    <3> QED BY <3>1, <3>2
  <2>2. CASE i \notin 1..Len(t)
    <3>1. u[i] = x BY <1>1, <1>2, <2>2
    <3>2. Messages!ToSet(<<>>) = {} BY DEF Messages!ToSet
    <3> QED BY <1>2, <3>1, <3>2
  <2> QED BY <2>1, <2>2
<1>6. Faithful(u, m) BY <1>3, <1>4, <1>5 DEF Faithful
<1> QED BY <1>6 DEF t, x

LEMMA TranslateIs == ASSUME NEW m \in Msg, Proper(m) PROVE Faithful(Messages!Translate(m), m)
<1> DEFINE t == Messages!ToolMessages(m)
           r == Messages!OfType(m.blocks, "tool_result")
<1>1. /\ m.role \in {"user", "assistant"} /\ Messages!Texts(m) \in Seq(Block)
      /\ Results(m) \in Seq(Nat)
      /\ r = <<>> <=> Results(m) = <<>>
  BY MsgIs
<1>2. t = <<>> <=> Results(m) = <<>>
  <2>1. t \in Seq(Translated) /\ Len(t) = Len(Results(m)) BY ToolsAre
  <2> QED BY <1>1, <2>1
<1>3. Results(m) # <<>> => m.role = "user" /\ Uses(m) = <<>> BY <1>1 DEF Proper
<1>4. m.role = "user" => Uses(m) = <<>> BY DEF Proper
<1> HIDE DEF t, r
<1>5. CASE provider = "openai"
  <2>1. Messages!Translate(m)
          = IF t # <<>> THEN t ELSE <<Messages!Message(m.role, Messages!Texts(m), Uses(m), <<>>)>>
    BY <1>5 DEF Messages!Translate, Messages!ToOpenAI, Uses, t
  <2>2. Kept(m) = IF r # <<>> THEN <<>> ELSE Messages!Texts(m) BY <1>5 DEF Kept, r
  <2>3. CASE t # <<>>
    <3>1. Uses(m) = <<>> /\ Kept(m) = <<>> BY <1>1, <1>2, <1>3, <2>2, <2>3
    <3> QED BY <2>1, <2>3, <3>1, ToolsFaithful DEF t
  <2>4. CASE t = <<>>
    <3>1. Results(m) = <<>> /\ Kept(m) = Messages!Texts(m) BY <1>1, <1>2, <2>2, <2>4
    <3>2. Faithful(<<Messages!Message(m.role, Messages!Texts(m), Uses(m), <<>>)>>, m)
      BY <1>1, <3>1, SingleIsFaithful
    <3> QED BY <2>1, <2>4, <3>2
  <2> QED BY <2>3, <2>4
<1>6. CASE provider = "ollama"
  <2> DEFINE one == <<Messages!Message("assistant", Messages!Texts(m), Uses(m), <<>>)>>
             said == <<Messages!Message(m.role, Messages!Texts(m), <<>>, <<>>)>>
  <2>1. Messages!Translate(m) = IF m.role = "assistant" /\ Uses(m) # <<>> THEN one
                       ELSE IF t # <<>> THEN t \o IF Messages!Texts(m) # <<>> THEN said ELSE <<>>
                       ELSE said
    BY <1>6 DEF Messages!Translate, Messages!ToOllama, Uses, t
  <2>2. Kept(m) = Messages!Texts(m) BY <1>6 DEF Kept
  <2>3. CASE m.role = "assistant" /\ Uses(m) # <<>>
    <3>1. Results(m) = <<>> BY <1>3, <2>3
    <3>2. Faithful(one, m) BY <2>2, <3>1, SingleIsFaithful
    <3> QED BY <2>1, <2>3, <3>2
  <2>4. CASE ~(m.role = "assistant" /\ Uses(m) # <<>>) /\ t # <<>>
    <3>1. Uses(m) = <<>> BY <1>1, <1>4, <2>4
    <3>2. CASE Messages!Texts(m) # <<>>
      <4>1. Messages!Translate(m) = t \o said BY <2>1, <2>4, <3>2
      <4>2. Faithful(t \o said, m) BY <2>2, <3>1, ToolsAndText DEF t
      <4> QED BY <4>1, <4>2
    <3>3. CASE Messages!Texts(m) = <<>>
      <4>1. Messages!Translate(m) = t \o <<>> BY <2>1, <2>4, <3>3
      <4>2. t \in Seq(Translated) BY ToolsAre DEF t
      <4>3. t \o <<>> = t BY <4>2
      <4>4. Faithful(t, m) BY <2>2, <3>1, <3>3, ToolsFaithful DEF t
      <4> QED BY <4>1, <4>3, <4>4
    <3> QED BY <3>2, <3>3
  <2>5. CASE ~(m.role = "assistant" /\ Uses(m) # <<>>) /\ t = <<>>
    <3>1. Uses(m) = <<>> /\ Results(m) = <<>> BY <1>1, <1>2, <1>4, <2>5
    <3>2. Faithful(said, m) BY <1>1, <2>2, <3>1, SingleIsFaithful
    <3> QED BY <2>1, <2>5, <3>2
  <2> QED BY <2>3, <2>4, <2>5
<1>7. CASE provider \notin {"openai", "ollama"}
  <2> DEFINE role == IF m.role = "assistant" THEN "model" ELSE "user"
  <2>1. Messages!Translate(m) = <<Messages!Message(role, Messages!Texts(m), Uses(m), Results(m))>>
    BY <1>7 DEF Messages!Translate, Messages!ToGemini, Uses, Results
  <2>2. Kept(m) = Messages!Texts(m) BY <1>7 DEF Kept
  <2>3. role \in {"user", "assistant", "model", "tool"} OBVIOUS
  <2> HIDE DEF role
  <2> QED BY <2>1, <2>2, <2>3, SingleIsFaithful
<1> QED BY <1>5, <1>6, <1>7

-----------------------------------------------------------------------------
(* What a request holds when the conversation has grown by a message.      *)

Said(c) == Messages!FlattenSeq([i \in 1..Len(c) |-> Kept(c[i])])

\* The calls of the assistant that nobody has answered yet.
Open(c) == IF c # <<>> /\ c[Len(c)].role = "assistant" THEN Uses(c[Len(c)]) ELSE <<>>

Counted(n) == [k \in 1..n |-> k]
CountedFrom(n, p) == [k \in 1..p |-> n + k]

\* A request in which n calls are made, and all but the open ones answered.
Made(r, n) == \A k \in 1..n : \E j \in 1..Len(r) : k \in Messages!ToSet(r[j].uses)
Before(r) ==
  \A i \in 1..Len(r) : \A k \in Messages!ToSet(r[i].answers) :
    \E j \in 1..(i - 1) : k \in Messages!ToSet(r[j].uses)
Held(r, said, n, open) ==
  /\ r \in Seq(Translated)
  /\ Len(open) \in 0..n /\ open = CountedFrom(n - Len(open), Len(open))
  /\ UsesOf(r) = Counted(n)
  /\ AnswersOf(r) = Counted(n - Len(open))
  /\ TextsOf(r) = said
  /\ Made(r, n) /\ Before(r)

LEMMA CountedIs ==
  ASSUME NEW n \in Nat, NEW p \in Nat
  PROVE  /\ Counted(n) \in Seq(Nat) /\ CountedFrom(n, p) \in Seq(Nat)
         /\ Len(Counted(n)) = n /\ Len(CountedFrom(n, p)) = p
         /\ Counted(n + p) = Counted(n) \o CountedFrom(n, p)
<1>1. /\ Counted(n) \in Seq(Nat) /\ CountedFrom(n, p) \in Seq(Nat) /\ Counted(n + p) \in Seq(Nat)
      /\ Len(Counted(n)) = n /\ Len(CountedFrom(n, p)) = p /\ Len(Counted(n + p)) = n + p
  BY DEF Counted, CountedFrom
<1>2. Follows(Counted(n + p), Counted(n), CountedFrom(n, p))
  <2>1. \A i \in 1..n : Counted(n + p)[i] = Counted(n)[i] BY DEF Counted
  <2>2. \A i \in 1..p : Counted(n + p)[n + i] = CountedFrom(n, p)[i]
    <3>1. ASSUME NEW i \in 1..p PROVE n + i \in 1..n + p OBVIOUS
    <3> QED BY <3>1 DEF Counted, CountedFrom
  <2> QED BY <1>1, <2>1, <2>2 DEF Follows
<1> QED BY <1>1, <1>2, BothAre

LEMMA AfterIs ==
  ASSUME NEW T, NEW s \in Seq(T), NEW t \in Seq(T)
  PROVE  /\ s \o t \in Seq(T) /\ Len(s \o t) = Len(s) + Len(t) /\ Len(s) \in Nat /\ Len(t) \in Nat
         /\ \A i \in 1..Len(s) : (s \o t)[i] = s[i]
         /\ \A j \in 1..Len(t) : (s \o t)[Len(s) + j] = t[j]
         /\ \A i \in 1..Len(s) + Len(t) : i \in 1..Len(s) \/ \E j \in 1..Len(t) : i = Len(s) + j
<1>1. /\ s \o t \in Seq(T) /\ Len(s \o t) = Len(s) + Len(t) /\ Len(s) \in Nat /\ Len(t) \in Nat
      /\ \A i \in 1..Len(s) : (s \o t)[i] = s[i]
      /\ \A j \in 1..Len(t) : (s \o t)[Len(s) + j] = t[j]
  OBVIOUS
<1>2. ASSUME NEW i \in 1..Len(s) + Len(t), i \notin 1..Len(s)
      PROVE \E j \in 1..Len(t) : i = Len(s) + j
  <2>1. i - Len(s) \in 1..Len(t) /\ i = Len(s) + (i - Len(s)) BY <1>1, <1>2
  <2> QED BY <2>1
<1> QED BY <1>1, <1>2

\* What the assistant says, with p calls.
LEMMA HeldAnswer ==
  ASSUME NEW r, NEW said, NEW n \in Nat, Held(r, said, n, <<>>), said \in Seq(Block),
         NEW m \in Msg, NEW t, Faithful(t, m), NEW p \in Nat,
         Results(m) = <<>>, Uses(m) = CountedFrom(n, p)
  PROVE  Held(r \o t, said \o Kept(m), n + p, Uses(m))
<1> DEFINE u == r \o t
<1>0. Len(<<>>) = 0 /\ n - 0 = n OBVIOUS
<1>1. r \in Seq(Translated) /\ t \in Seq(Translated) /\ UsesOf(r) = Counted(n)
      /\ AnswersOf(r) = Counted(n)
  BY <1>0 DEF Held, Faithful
<1>2. /\ u \in Seq(Translated) /\ Len(u) = Len(r) + Len(t) /\ Len(r) \in Nat /\ Len(t) \in Nat
      /\ \A i \in 1..Len(r) : u[i] = r[i]
      /\ \A j \in 1..Len(t) : u[Len(r) + j] = t[j]
      /\ \A i \in 1..Len(u) : i \in 1..Len(r) \/ \E j \in 1..Len(t) : i = Len(r) + j
  BY <1>1, AfterIs
<1>3. UsesOf(u) = UsesOf(r) \o UsesOf(t) /\ AnswersOf(u) = AnswersOf(r) \o AnswersOf(t)
      /\ TextsOf(u) = TextsOf(r) \o TextsOf(t)
  BY <1>1, OfBoth
<1> HIDE DEF u
<1>4. UsesOf(u) = Counted(n + p) BY <1>1, <1>3, CountedIs DEF Faithful
<1>5. Len(Uses(m)) = p /\ (n + p) - p = n BY CountedIs
<1>6. AnswersOf(u) = Counted(n + p - Len(Uses(m)))
  <2>1. AnswersOf(t) = <<>> BY DEF Faithful
  <2>2. Counted(n) \o <<>> = Counted(n)
    <3>1. Counted(n) \in Seq(Nat) BY CountedIs
    <3> QED BY <3>1
  <2> QED BY <1>1, <1>3, <1>5, <2>1, <2>2
<1>7. TextsOf(u) = said \o Kept(m) BY <1>3 DEF Held, Faithful
<1>8. Made(u, n + p)
  <2> SUFFICES ASSUME NEW k \in 1..n + p PROVE \E j \in 1..Len(u) : k \in Messages!ToSet(u[j].uses)
    BY DEF Made
  <2>1. CASE k \in 1..n
    <3>1. PICK j \in 1..Len(r) : k \in Messages!ToSet(r[j].uses) BY <2>1 DEF Held, Made
    <3>2. j \in 1..Len(u) /\ u[j] = r[j] BY <1>2
    <3> QED BY <3>1, <3>2
  <2>2. CASE k \notin 1..n
    <3>1. k - n \in 1..p /\ k = n + (k - n) BY <2>2
    <3>2. Uses(m)[k - n] = k BY <3>1 DEF CountedFrom
    <3>3. k \in Messages!ToSet(Uses(m)) /\ Uses(m) # <<>> BY <1>5, <3>1, <3>2 DEF Messages!ToSet
    <3>4. PICK j \in 1..Len(t) : t[j].uses = Uses(m) BY <3>3 DEF Faithful
    <3>5. Len(r) + j \in 1..Len(u) /\ u[Len(r) + j] = t[j] BY <1>2
    <3> QED BY <3>3, <3>4, <3>5
  <2> QED BY <2>1, <2>2
<1>9. Before(u)
  <2> SUFFICES ASSUME NEW i \in 1..Len(u), NEW k \in Messages!ToSet(u[i].answers)
               PROVE  \E j \in 1..(i - 1) : k \in Messages!ToSet(u[j].uses)
    BY DEF Before
  <2>1. CASE i \in 1..Len(r)
    <3>1. u[i] = r[i] BY <1>2, <2>1
    <3>2. PICK j \in 1..(i - 1) : k \in Messages!ToSet(r[j].uses) BY <2>1, <3>1 DEF Held, Before
    <3>3. j \in 1..Len(r) BY <1>2, <2>1
    <3> QED BY <1>2, <3>2, <3>3
  <2>2. ASSUME NEW j \in 1..Len(t), i = Len(r) + j PROVE FALSE
    <3>1. u[i] = t[j] BY <1>2, <2>2
    <3>2. Messages!ToSet(t[j].answers) \subseteq Messages!ToSet(<<>>) BY DEF Faithful
    <3>3. Messages!ToSet(<<>>) = {} BY DEF Messages!ToSet
    <3> QED BY <3>1, <3>2, <3>3
  <2> QED BY <1>2, <2>1, <2>2
<1>10. Len(Uses(m)) \in 0..n + p /\ Uses(m) = CountedFrom(n + p - Len(Uses(m)), Len(Uses(m)))
  BY <1>5
<1> QED BY <1>2, <1>4, <1>6, <1>7, <1>8, <1>9, <1>10 DEF Held, u

\* What the user says, who answers what is open.
LEMMA HeldSay ==
  ASSUME NEW r, NEW said, NEW n \in Nat, NEW open, Held(r, said, n, open), said \in Seq(Block),
         NEW m \in Msg, NEW t, Faithful(t, m), Results(m) = open, Uses(m) = <<>>
  PROVE  Held(r \o t, said \o Kept(m), n, <<>>)
<1> DEFINE u == r \o t
           p == Len(open)
<1>1. /\ r \in Seq(Translated) /\ t \in Seq(Translated) /\ UsesOf(r) = Counted(n)
      /\ AnswersOf(r) = Counted(n - p) /\ p \in 0..n /\ open = CountedFrom(n - p, p)
  BY DEF Held, Faithful
<1>2. /\ u \in Seq(Translated) /\ Len(u) = Len(r) + Len(t) /\ Len(r) \in Nat /\ Len(t) \in Nat
      /\ \A i \in 1..Len(r) : u[i] = r[i]
      /\ \A j \in 1..Len(t) : u[Len(r) + j] = t[j]
      /\ \A i \in 1..Len(u) : i \in 1..Len(r) \/ \E j \in 1..Len(t) : i = Len(r) + j
  BY <1>1, AfterIs
<1>3. UsesOf(u) = UsesOf(r) \o UsesOf(t) /\ AnswersOf(u) = AnswersOf(r) \o AnswersOf(t)
      /\ TextsOf(u) = TextsOf(r) \o TextsOf(t)
  BY <1>1, OfBoth
<1> HIDE DEF u, p
<1>4. UsesOf(u) = Counted(n)
  <2>1. UsesOf(t) = <<>> BY DEF Faithful
  <2>2. Counted(n) \o <<>> = Counted(n)
    <3>1. Counted(n) \in Seq(Nat) BY CountedIs
    <3> QED BY <3>1
  <2> QED BY <1>1, <1>3, <2>1, <2>2
<1>5. AnswersOf(u) = Counted(n)
  <2>1. n - p \in Nat /\ p \in Nat /\ (n - p) + p = n BY <1>1
  <2>2. Counted((n - p) + p) = Counted(n - p) \o CountedFrom(n - p, p)
    <3> DEFINE q == n - p
    <3>1. q \in Nat /\ p \in Nat BY <2>1
    <3> HIDE DEF q
    <3>2. Counted(q + p) = Counted(q) \o CountedFrom(q, p) BY <3>1, CountedIs
    <3> QED BY <3>2 DEF q
  <2> QED BY <1>1, <1>3, <2>1, <2>2 DEF Faithful
<1>6. TextsOf(u) = said \o Kept(m) BY <1>3 DEF Held, Faithful
<1>7. Made(u, n)
  <2> SUFFICES ASSUME NEW k \in 1..n PROVE \E j \in 1..Len(u) : k \in Messages!ToSet(u[j].uses)
    BY DEF Made
  <2>1. PICK j \in 1..Len(r) : k \in Messages!ToSet(r[j].uses) BY DEF Held, Made
  <2>2. j \in 1..Len(u) /\ u[j] = r[j] BY <1>2
  <2> QED BY <2>1, <2>2
<1>8. Before(u)
  <2> SUFFICES ASSUME NEW i \in 1..Len(u), NEW k \in Messages!ToSet(u[i].answers)
               PROVE  \E j \in 1..(i - 1) : k \in Messages!ToSet(u[j].uses)
    BY DEF Before
  <2>1. CASE i \in 1..Len(r)
    <3>1. u[i] = r[i] BY <1>2, <2>1
    <3>2. PICK j \in 1..(i - 1) : k \in Messages!ToSet(r[j].uses) BY <2>1, <3>1 DEF Held, Before
    <3>3. j \in 1..Len(r) BY <1>2, <2>1
    <3> QED BY <1>2, <3>2, <3>3
  <2>2. ASSUME NEW l \in 1..Len(t), i = Len(r) + l
        PROVE \E j \in 1..(i - 1) : k \in Messages!ToSet(u[j].uses)
    <3>1. u[i] = t[l] BY <1>2, <2>2
    <3>2. k \in Messages!ToSet(open) BY <3>1 DEF Faithful
    <3>3. PICK x \in 1..p : k = open[x] BY <3>2 DEF Messages!ToSet, p
    <3>4. k \in 1..n BY <1>1, <3>3 DEF CountedFrom
    <3>5. PICK j \in 1..Len(r) : k \in Messages!ToSet(r[j].uses) BY <3>4 DEF Held, Made
    <3>6. j \in 1..(i - 1) /\ u[j] = r[j] BY <1>2, <2>2
    <3> QED BY <3>5, <3>6
  <2> QED BY <1>2, <2>1, <2>2
<1>9. Len(<<>>) = 0 /\ 0 \in 0..n /\ n - 0 = n /\ <<>> = CountedFrom(n, 0) BY DEF CountedFrom
<1> QED BY <1>2, <1>4, <1>5, <1>6, <1>7, <1>8, <1>9 DEF Held, u

-----------------------------------------------------------------------------
(* The conversation, its calls and the last request.                       *)

LEMMA ConversationGrows ==
  ASSUME NEW c \in Seq(Msg), \A i \in 1..Len(c) : Proper(c[i]), NEW m \in Msg, Proper(m)
  PROVE  /\ Append(c, m) \in Seq(Msg) /\ \A i \in 1..Len(Append(c, m)) : Proper(Append(c, m)[i])
         /\ Messages!Request(Append(c, m)) = Messages!Request(c) \o Messages!Translate(m)
         /\ Said(Append(c, m)) = Said(c) \o Kept(m) /\ Said(c) \in Seq(Block)
<1> DEFINE d == Append(c, m)
           n == Len(c)
           R(x) == [i \in 1..Len(x) |-> Messages!Translate(x[i])]
           K(x) == [i \in 1..Len(x) |-> Kept(x[i])]
<1>1. /\ d \in Seq(Msg) /\ Len(d) = n + 1 /\ d[n + 1] = m /\ n \in Nat
      /\ \A i \in 1..n : d[i] = c[i] /\ c[i] \in Msg
      /\ \A i \in 1..n + 1 : i \in 1..n \/ i = n + 1
  OBVIOUS
<1> HIDE DEF d, n
<1>2. \A i \in 1..n + 1 : Proper(d[i])
  BY <1>1 DEF n
<1>3. R(c) \in Seq(Seq(Translated)) /\ Messages!Translate(m) \in Seq(Translated)
  <2>1. \A i \in 1..n : Messages!Translate(c[i]) \in Seq(Translated)
    BY <1>1, TranslateIs DEF n, Faithful
  <2>2. Messages!Translate(m) \in Seq(Translated) BY TranslateIs DEF Faithful
  <2> QED BY <1>1, <2>1, <2>2 DEF n
<1>4. K(c) \in Seq(Seq(Block)) /\ Kept(m) \in Seq(Block)
  <2>1. \A i \in 1..n : Kept(c[i]) \in Seq(Block) BY <1>1, MsgIs
  <2>2. Kept(m) \in Seq(Block) BY MsgIs
  <2> QED BY <1>1, <2>1, <2>2 DEF n
<1>5. R(d) = Append(R(c), Messages!Translate(m)) BY <1>1 DEF n
<1>6. K(d) = Append(K(c), Kept(m)) BY <1>1 DEF n
<1>7. Messages!Request(d) = Messages!FlattenSeq(R(d))
      /\ Messages!Request(c) = Messages!FlattenSeq(R(c)) BY DEF Messages!Request
<1>8. Said(d) = Messages!FlattenSeq(K(d)) /\ Said(c) = Messages!FlattenSeq(K(c)) BY DEF Said
<1> HIDE DEF R, K
<1>9. Messages!FlattenSeq(R(d)) = Messages!FlattenSeq(R(c)) \o Messages!Translate(m)
  BY <1>3, <1>5, FlattenAppend
<1>10. Messages!FlattenSeq(K(d)) = Messages!FlattenSeq(K(c)) \o Kept(m)
       /\ Messages!FlattenSeq(K(c)) \in Seq(Block)
  BY <1>4, <1>6, FlattenAppend, FlattenType
<1> QED BY <1>1, <1>2, <1>7, <1>8, <1>9, <1>10 DEF d

\* Blocks of one type.
LEMMA BlocksAre ==
  ASSUME NEW v \in Seq(Nat)
  PROVE  LET use == [i \in 1..Len(v) |-> Messages!Use(v[i])]
             result == [i \in 1..Len(v) |-> Messages!Result(v[i])]
         IN /\ use \in Seq(Block) /\ Messages!OfType(use, "tool_use") = use
            /\ Messages!OfType(use, "tool_result") = <<>> /\ Messages!Calls(use) = v
            /\ result \in Seq(Block) /\ Messages!OfType(result, "tool_result") = result
            /\ Messages!OfType(result, "tool_use") = <<>> /\ Messages!Calls(result) = v
<1> DEFINE use == [i \in 1..Len(v) |-> Messages!Use(v[i])]
           result == [i \in 1..Len(v) |-> Messages!Result(v[i])]
<1>1. \A i \in 1..Len(v) : v[i] \in Nat OBVIOUS
<1>2. use \in Seq(Block) /\ Len(use) = Len(v) /\ \A i \in 1..Len(use) : use[i].type = "tool_use"
      /\ use[i].call = v[i]
  <2>1. \A i \in 1..Len(v) : Messages!Use(v[i]) \in Block BY <1>1 DEF Messages!Use, Block
  <2>2. \A i \in 1..Len(v) : use[i] = Messages!Use(v[i]) OBVIOUS
  <2> QED BY <2>1, <2>2 DEF Messages!Use
<1>3. result \in Seq(Block) /\ Len(result) = Len(v)
      /\ \A i \in 1..Len(result) : result[i].type = "tool_result" /\ result[i].call = v[i]
  <2>1. \A i \in 1..Len(v) : Messages!Result(v[i]) \in Block BY <1>1 DEF Messages!Result, Block
  <2>2. \A i \in 1..Len(v) : result[i] = Messages!Result(v[i]) OBVIOUS
  <2> QED BY <2>1, <2>2 DEF Messages!Result
<1> HIDE DEF use, result
<1>4. Messages!OfType(use, "tool_use") = use /\ Messages!OfType(use, "tool_result") = <<>>
  <2>1. \A i \in 1..Len(use) : use[i].type = "tool_use" /\ use[i].type # "tool_result" BY <1>2
  <2> QED BY <1>2, <2>1, OfTypeAll, OfTypeNone
<1>5. Messages!OfType(result, "tool_result") = result /\ Messages!OfType(result, "tool_use") = <<>>
  <2>1. \A i \in 1..Len(result) : result[i].type = "tool_result" /\ result[i].type # "tool_use"
    BY <1>3
  <2> QED BY <1>3, <2>1, OfTypeAll, OfTypeNone
<1>6. Messages!Calls(use) = v /\ Messages!Calls(result) = v
  <2>1. v = [i \in 1..Len(v) |-> v[i]] OBVIOUS
  <2> QED BY <1>2, <1>3, <2>1 DEF Messages!Calls
<1> QED BY <1>2, <1>3, <1>4, <1>5, <1>6 DEF use, result

LEMMA TextIs ==
  ASSUME NEW a, a = <<>> \/ a = <<Messages!Text>>
  PROVE  a \in Seq(Block) /\ Messages!OfType(a, "tool_use") = <<>>
         /\ Messages!OfType(a, "tool_result") = <<>>
<1>1. Messages!Text \in Block /\ Messages!Text.type = "text" BY DEF Messages!Text, Block
<1>2. a \in Seq(Block) /\ \A i \in 1..Len(a) : a[i] = Messages!Text
  <2>1. CASE a = <<>> BY <2>1
  <2>2. CASE a = <<Messages!Text>> BY <1>1, <2>2
  <2> QED BY <2>1, <2>2
<1>3. \A i \in 1..Len(a) : a[i].type # "tool_use" /\ a[i].type # "tool_result" BY <1>1, <1>2
<1> QED BY <1>2, <1>3, OfTypeNone

LEMMA AnswerIs ==
  ASSUME NEW n \in Nat, calls \in Nat, NEW text \in BOOLEAN
  PROVE  LET m == [role |-> "assistant", blocks |-> Messages!Content(text, n)]
         IN m \in Msg /\ Results(m) = <<>> /\ Uses(m) = CountedFrom(calls, n)
<1> DEFINE m == [role |-> "assistant", blocks |-> Messages!Content(text, n)]
           b == [i \in 1..n |-> Messages!Use(calls + i)]
           v == CountedFrom(calls, n)
<1>1. v \in Seq(Nat) /\ Len(v) = n /\ \A i \in 1..n : v[i] = calls + i BY CountedIs DEF CountedFrom
<1>2. b = [i \in 1..Len(v) |-> Messages!Use(v[i])]
  BY <1>1
<1> HIDE DEF v
<1>3. /\ b \in Seq(Block) /\ Messages!OfType(b, "tool_use") = b
      /\ Messages!OfType(b, "tool_result") = <<>> /\ Messages!Calls(b) = v
  BY <1>1, <1>2, BlocksAre
<1>4. \E a : (a = <<>> \/ a = <<Messages!Text>>) /\ Messages!Content(text, n) = a \o b
  <2> DEFINE first == IF text THEN <<Messages!Text>> ELSE <<>>
  <2>1. Messages!Content(text, n)
          = IF first \o b = <<>> /\ provider = "ollama" THEN <<Messages!Text>> ELSE first \o b
    BY DEF Messages!Content
  <2>2. first = <<>> \/ first = <<Messages!Text>> OBVIOUS
  <2>3. CASE first \o b = <<>>
    <3>1. first \in Seq(Block) BY <2>2, TextIs
    <3>2. b = <<>> BY <1>3, <2>3, <3>1
    <3>3. <<Messages!Text>> \in Seq(Block) BY TextIs
    <3>4. <<Messages!Text>> = <<Messages!Text>> \o b BY <3>2, <3>3
    <3> HIDE DEF b, first
    <3> QED BY <2>1, <2>2, <3>4
  <2>4. CASE first \o b # <<>>
    <3> HIDE DEF b, first
    <3> QED BY <2>1, <2>2, <2>4
  <2> QED BY <2>3, <2>4
<1> HIDE DEF b
<1>5. PICK a : (a = <<>> \/ a = <<Messages!Text>>) /\ Messages!Content(text, n) = a \o b BY <1>4
<1>6. a \in Seq(Block) /\ Messages!OfType(a, "tool_use") = <<>>
      /\ Messages!OfType(a, "tool_result") = <<>>
  BY <1>5, TextIs
<1>7. Messages!OfType(a \o b, "tool_use") = b /\ Messages!OfType(a \o b, "tool_result") = <<>>
  <2>1. Messages!OfType(a \o b, "tool_use") = <<>> \o b
        /\ Messages!OfType(a \o b, "tool_result") = <<>> \o <<>>
    <3>1. \A t : Messages!OfType(a \o b, t) = Messages!OfType(a, t) \o Messages!OfType(b, t)
      BY <1>3, <1>6, OfTypeBoth
    <3> QED BY <1>3, <1>6, <3>1
  <2>2. <<>> \o b = b /\ <<>> \o <<>> = <<>> BY <1>3
  <2> QED BY <2>1, <2>2
<1>8. Messages!Calls(<<>>) = <<>> BY DEF Messages!Calls
<1>9. m.blocks = a \o b /\ m.role = "assistant" /\ a \o b \in Seq(Block) BY <1>3, <1>5, <1>6
<1>10. m \in Msg BY <1>5, <1>9 DEF Msg
<1> QED BY <1>3, <1>7, <1>8, <1>9, <1>10 DEF Uses, Results, v

\* The results of the calls in last, with or without a text.
LEMMA SayIs ==
  ASSUME NEW last \in Seq(Block), NEW a, a = <<>> \/ a = <<Messages!Text>>
  PROVE  LET results == [i \in 1..Len(last) |-> Messages!Result(last[i].call)]
             m == [role |-> "user", blocks |-> results \o a]
         IN m \in Msg /\ Results(m) = Messages!Calls(last) /\ Uses(m) = <<>>
<1> DEFINE b == [i \in 1..Len(last) |-> Messages!Result(last[i].call)]
           v == Messages!Calls(last)
           m == [role |-> "user", blocks |-> b \o a]
<1>1. v \in Seq(Nat) /\ Len(v) = Len(last) BY CallsIs
<1>2. b = [i \in 1..Len(v) |-> Messages!Result(v[i])]
  BY <1>1 DEF Messages!Calls
<1> HIDE DEF v
<1>3. /\ b \in Seq(Block) /\ Messages!OfType(b, "tool_result") = b
      /\ Messages!OfType(b, "tool_use") = <<>> /\ Messages!Calls(b) = v
  BY <1>1, <1>2, BlocksAre
<1> HIDE DEF b
<1>4. a \in Seq(Block) /\ Messages!OfType(a, "tool_use") = <<>>
      /\ Messages!OfType(a, "tool_result") = <<>>
  BY TextIs
<1>5. Messages!OfType(b \o a, "tool_result") = b /\ Messages!OfType(b \o a, "tool_use") = <<>>
  <2>1. Messages!OfType(b \o a, "tool_result") = b \o <<>>
        /\ Messages!OfType(b \o a, "tool_use") = <<>> \o <<>>
    <3>1. \A t : Messages!OfType(b \o a, t) = Messages!OfType(b, t) \o Messages!OfType(a, t)
      BY <1>3, <1>4, OfTypeBoth
    <3> QED BY <1>3, <1>4, <3>1
  <2>2. b \o <<>> = b /\ <<>> \o <<>> = <<>> BY <1>3
  <2> QED BY <2>1, <2>2
<1>6. Messages!Calls(<<>>) = <<>> BY DEF Messages!Calls
<1>7. m.blocks = b \o a /\ m.role = "user" /\ b \o a \in Seq(Block) BY <1>3, <1>4
<1>8. m \in Msg BY <1>7 DEF Msg
<1> QED BY <1>3, <1>5, <1>6, <1>7, <1>8 DEF Uses, Results, v, b

ConvIs(c, n, r) ==
  /\ c \in Seq(Msg) /\ \A i \in 1..Len(c) : Proper(c[i])
  /\ n \in Nat
  /\ Held(Messages!Request(c), Said(c), n, Open(c))
  /\ r # <<>> => r = Messages!Request(c) /\ Open(c) = <<>>
ConvInv == ConvIs(conv, calls, request)

LEMMA ConvStart == ConvIs(<<>>, 0, <<>>)
<1>1. Messages!FlattenSeq(<<>>) = <<>>
  <2>1. <<>> \in Seq(Seq({})) /\ \A i \in 1..Len(<<>>) : <<>>[i] = <<>> OBVIOUS
  <2> QED BY <2>1, FlattenNothing
<1>2. Messages!Request(<<>>) = <<>> BY <1>1 DEF Messages!Request
<1>3. Said(<<>>) = <<>> BY <1>1 DEF Said
<1>4. UsesOf(<<>>) = <<>> /\ AnswersOf(<<>>) = <<>> /\ TextsOf(<<>>) = <<>>
  BY <1>1 DEF UsesOf, AnswersOf, TextsOf
<1>5. Open(<<>>) = <<>> /\ Len(<<>>) = 0 /\ Counted(0) = <<>> /\ CountedFrom(0, 0) = <<>>
  BY DEF Open, Counted, CountedFrom
<1>6. Made(<<>>, 0) /\ Before(<<>>) BY DEF Made, Before
<1>7. Held(<<>>, <<>>, 0, <<>>) BY <1>4, <1>5, <1>6 DEF Held
<1> QED BY <1>2, <1>3, <1>5, <1>7 DEF ConvIs

LEMMA ConvAnswer ==
  ASSUME NEW c, NEW n, NEW r, ConvIs(c, n, r), r # <<>>, NEW p \in Nat,
         NEW m \in Msg, m.role = "assistant", Results(m) = <<>>, Uses(m) = CountedFrom(n, p)
  PROVE  ConvIs(Append(c, m), n + p, <<>>)
<1>1. Proper(m) BY DEF Proper
<1>2. Faithful(Messages!Translate(m), m) BY <1>1, TranslateIs
<1>3. /\ Append(c, m) \in Seq(Msg) /\ \A i \in 1..Len(Append(c, m)) : Proper(Append(c, m)[i])
      /\ Messages!Request(Append(c, m)) = Messages!Request(c) \o Messages!Translate(m)
      /\ Said(Append(c, m)) = Said(c) \o Kept(m) /\ Said(c) \in Seq(Block)
  BY <1>1, ConversationGrows DEF ConvIs
<1>4. Held(Messages!Request(c), Said(c), n, <<>>) /\ n \in Nat /\ c \in Seq(Msg) BY DEF ConvIs
<1>5. Held(Messages!Request(c) \o Messages!Translate(m), Said(c) \o Kept(m), n + p, Uses(m))
  BY <1>2, <1>3, <1>4, HeldAnswer
<1>6. Open(Append(c, m)) = Uses(m)
  <2>1. Append(c, m) # <<>> /\ Append(c, m)[Len(Append(c, m))] = m BY <1>4
  <2> QED BY <2>1 DEF Open
<1>7. n + p \in Nat BY <1>4
<1> QED BY <1>3, <1>5, <1>6, <1>7 DEF ConvIs

LEMMA ConvSay ==
  ASSUME NEW c, NEW n, NEW r, ConvIs(c, n, r),
         NEW m \in Msg, m.role = "user", Results(m) = Open(c), Uses(m) = <<>>
  PROVE  ConvIs(Append(c, m), n, Messages!Request(Append(c, m)))
<1>1. Proper(m) BY DEF Proper
<1>2. Faithful(Messages!Translate(m), m) BY <1>1, TranslateIs
<1>3. /\ Append(c, m) \in Seq(Msg) /\ \A i \in 1..Len(Append(c, m)) : Proper(Append(c, m)[i])
      /\ Messages!Request(Append(c, m)) = Messages!Request(c) \o Messages!Translate(m)
      /\ Said(Append(c, m)) = Said(c) \o Kept(m) /\ Said(c) \in Seq(Block)
  BY <1>1, ConversationGrows DEF ConvIs
<1>4. Held(Messages!Request(c), Said(c), n, Open(c)) /\ n \in Nat /\ c \in Seq(Msg) BY DEF ConvIs
<1>5. Held(Messages!Request(c) \o Messages!Translate(m), Said(c) \o Kept(m), n, <<>>)
  BY <1>2, <1>3, <1>4, HeldSay
<1>6. Open(Append(c, m)) = <<>>
  <2>1. Append(c, m)[Len(Append(c, m))] = m BY <1>4
  <2> QED BY <2>1 DEF Open
<1> QED BY <1>3, <1>4, <1>5, <1>6 DEF ConvIs

\* The provider is one.
LEMMA SameProvider ==
  ASSUME provider' = provider
  PROVE  ConvInv' <=> ConvIs(conv', calls', request')
<1>1. Translated' = Translated BY DEF Translated
<1>2. \A r, said, n, open : Held(r, said, n, open)' <=> Held(r, said, n, open)
  BY <1>1 DEF Held
<1>3. \A m : Messages!Translate(m)' = Messages!Translate(m)
  BY DEF Messages!Translate, Messages!ToOpenAI, Messages!ToOllama, Messages!ToGemini,
         Messages!ToolMessages, Messages!Message
<1> QED BY <1>1, <1>2, <1>3 DEF ConvInv, ConvIs, Messages!Request, Said, Kept

LEMMA AnswerStep ==
  ASSUME NEW text \in BOOLEAN, NEW n \in Nat, NEW broken \in BOOLEAN, ConvInv,
         Messages!Answer(text, n, broken)
  PROVE  ConvInv'
<1>1. provider' = provider /\ request # <<>> /\ request' = <<>> BY DEF Messages!Answer
<1>2. ConvIs(conv, calls, request) BY DEF ConvInv
<1>3. CASE UNCHANGED <<conv, calls>>
  <2>1. ConvIs(conv, calls, <<>>) BY <1>2 DEF ConvIs
  <2> QED BY <1>1, <1>3, <2>1, SameProvider
<1>4. CASE /\ conv' = Append(conv, [role |-> "assistant", blocks |-> Messages!Content(text, n)])
           /\ calls' = calls + n
  <2> DEFINE m == [role |-> "assistant", blocks |-> Messages!Content(text, n)]
  <2>1. calls \in Nat BY <1>2 DEF ConvIs
  <2>2. m \in Msg /\ Results(m) = <<>> /\ Uses(m) = CountedFrom(calls, n) BY <2>1, AnswerIs
  <2>3. m.role = "assistant" OBVIOUS
  <2> HIDE DEF m
  <2>4. ConvIs(Append(conv, m), calls + n, <<>>) BY <1>1, <1>2, <2>2, <2>3, ConvAnswer
  <2> QED BY <1>1, <1>4, <2>4, SameProvider DEF m
<1> QED BY <1>3, <1>4 DEF Messages!Answer

LEMMA RefuseStep == ASSUME ConvInv, Messages!Refuse PROVE ConvInv'
<1>1. ConvIs(conv, calls, <<>>) BY DEF ConvInv, ConvIs
<1> QED BY <1>1, SameProvider DEF Messages!Refuse

LEMMA SayStep == ASSUME NEW text \in BOOLEAN, ConvInv, Messages!Say(text) PROVE ConvInv'
<1> DEFINE last == IF conv = <<>> THEN <<>>
                   ELSE Messages!OfType(Messages!Last(conv).blocks, "tool_use")
           results == [i \in 1..Len(last) |-> Messages!Result(last[i].call)]
           a == IF text \/ results = <<>> THEN <<Messages!Text>> ELSE <<>>
           m == [role |-> "user", blocks |-> results \o a]
<1>1. ConvIs(conv, calls, request) /\ conv \in Seq(Msg) BY DEF ConvInv, ConvIs
<1>2. provider' = provider /\ calls' = calls /\ request' = Messages!Request(conv')
  BY DEF Messages!Say
<1>3. conv # <<>> => Messages!Last(conv) = conv[Len(conv)] /\ conv[Len(conv)] \in Msg
  BY <1>1 DEF Messages!Last
<1>4. CASE conv # <<>> /\ Messages!Last(conv).role = "user"
  <2>1. conv' = conv BY <1>4 DEF Messages!Say
  <2>2. Open(conv) = <<>> BY <1>3, <1>4 DEF Open
  <2>3. ConvIs(conv, calls, Messages!Request(conv)) BY <1>1, <2>2 DEF ConvIs
  <2> QED BY <1>2, <2>1, <2>3, SameProvider
<1>5. CASE ~(conv # <<>> /\ Messages!Last(conv).role = "user")
  <2>1. conv' = Append(conv, m) BY <1>5 DEF Messages!Say
  <2>2. last \in Seq(Block) /\ Messages!Calls(last) = Open(conv)
    <3>1. CASE conv = <<>> BY <3>1 DEF Open, Messages!Calls
    <3>2. CASE conv # <<>>
      <4>1. Messages!Last(conv).role = "assistant" /\ Messages!Last(conv).blocks \in Seq(Block)
        BY <1>3, <1>5, <3>2, MsgIs
      <4>2. last = Messages!OfType(Messages!Last(conv).blocks, "tool_use") BY <3>2
      <4>3. last \in Seq(Block) BY <4>1, <4>2, OfTypeIs
      <4> QED BY <1>3, <3>2, <4>1, <4>2, <4>3 DEF Open, Uses
    <3> QED BY <3>1, <3>2
  <2>3. a = <<>> \/ a = <<Messages!Text>> OBVIOUS
  <2> HIDE DEF last, a
  <2>4. m \in Msg /\ Results(m) = Open(conv) /\ Uses(m) = <<>> BY <2>2, <2>3, SayIs
  <2>5. m.role = "user" OBVIOUS
  <2> HIDE DEF m
  <2>6. ConvIs(Append(conv, m), calls, Messages!Request(Append(conv, m)))
    BY <1>1, <2>4, <2>5, ConvSay
  <2>7. ConvIs(conv', calls', request') BY <1>2, <2>1, <2>6
  <2> QED BY <1>2, <2>7, SameProvider
<1> QED BY <1>4, <1>5

LEMMA ConvInit == Messages!Init => ConvInv
BY ConvStart DEF Messages!Init, ConvInv

LEMMA ConvStep == ConvInv /\ [Messages!Next]_messageVars => ConvInv'
<1> SUFFICES ASSUME ConvInv, [Messages!Next]_messageVars PROVE ConvInv'
  OBVIOUS
<1>1. CASE Messages!Next
  <2>1. ASSUME NEW text \in BOOLEAN, Messages!Say(text) PROVE ConvInv' BY <2>1, SayStep
  <2>2. ASSUME NEW text \in BOOLEAN, NEW n \in 0..2, NEW broken \in BOOLEAN,
               Messages!Answer(text, n, broken)
        PROVE  ConvInv'
    BY <2>2, AnswerStep
  <2>3. CASE Messages!Refuse BY <2>3, RefuseStep
  <2> QED BY <1>1, <2>1, <2>2, <2>3 DEF Messages!Next
<1>2. CASE UNCHANGED messageVars
  <2>1. ConvIs(conv, calls, request) BY DEF ConvInv
  <2> QED BY <1>2, <2>1, SameProvider DEF messageVars
<1> QED BY <1>1, <1>2

LEMMA ConvIsKept == ConvInv => MessagesKept
<1> SUFFICES ASSUME ConvInv, request # <<>> PROVE Messages!CallsAnswered /\ Messages!TextKept
  BY DEF MessagesKept, Messages!CallsAnswered, Messages!TextKept
<1>1. Len(<<>>) = 0 OBVIOUS
<1>2. Held(request, Said(conv), calls, <<>>) /\ calls \in Nat BY DEF ConvInv, ConvIs
<1>3. UsesOf(request) = Counted(calls) /\ AnswersOf(request) = Counted(calls)
      /\ TextsOf(request) = Said(conv)
      /\ Before(request)
  <2>1. calls - 0 = calls BY <1>2
  <2> QED BY <1>1, <1>2, <2>1 DEF Held
<1>4. Messages!CallsAnswered
  <2>1. \A i \in 1..Len(request) : provider = "openai" =>
          request[i].callIds = request[i].uses /\ request[i].resultIds = request[i].answers
    BY <1>2 DEF Held, Translated
  <2>2. \A i \in 1..Len(request) : \A j \in 1..(i - 1) : j \in 1..Len(request)
    BY <1>2 DEF Held
  <2> QED BY <1>3, <2>1, <2>2 DEF Messages!CallsAnswered, UsesOf, AnswersOf, Before, Counted
<1>5. Messages!TextKept BY <1>3 DEF Messages!TextKept, TextsOf, Said, Kept
<1> QED BY <1>4, <1>5

\* In every translated request the calls are answered once each and in order, after
\* the message that makes them, to a model of OpenRouter with the id of the call, and no
\* text of the conversation is lost but what a user says beside the results of tools to
\* a model of OpenRouter: for any conversation, any answers and refusals, and every
\* provider.
THEOREM MessagesAreKept == SystemSpec => []MessagesKept
<1>1. SystemInit => ConvInv BY PartSteps, ConvInit
<1>2. ConvInv /\ [SystemNext]_allVars => ConvInv' BY PartSteps, ConvStep
<1>3. ConvInv => MessagesKept BY ConvIsKept
<1> QED BY <1>1, <1>2, <1>3, PTL DEF SystemSpec
=============================================================================
