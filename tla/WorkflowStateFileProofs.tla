------------------------ MODULE WorkflowStateFileProofs ------------------------
(***************************************************************************)
(* Proofs about WorkflowStateFile, for any set of hooks and any scripts,   *)
(* however they overlap and are killed: hooks keep the chainState          *)
(* (ChainInv follows the text and every copy of it); the file implements   *)
(* the versioned store (StoreInv: every copy is a state there has been);   *)
(* and what is not marked undone holds the value given last (DueInv        *)
(* relates text and copies to it, AloneInv says that a hook alone misses   *)
(* nothing).                                                               *)
(***************************************************************************)
EXTENDS WorkflowStateFile, SequenceTheorems, TLAPS

LEMMA DefaultFacts == Default.chain = TRUE
BY DEF Default

-----------------------------------------------------------------------------
(* Without the heartbeat of the daemon no interleaving of hooks and no      *)
(* killed hook loses the chainState.                                       *)

ChainInv ==
  /\ ~threw
  /\ text.chain
  /\ \A j \in Job : copy[j].chain
  /\ copy = [j \in Job |-> copy[j]]

LEMMA ReadsKeepChain ==
  ASSUME Heartbeats = {}, ChainInv, NEW j \in Job, Read(j)
  PROVE  ChainInv'
<1>1. Load(j).chain
  BY DefaultFacts DEF Load, ChainInv
<1>2. copy' = [copy EXCEPT ![j] = Load(j)] /\ UNCHANGED <<threw, text>>
  BY <1>1 DEF Read
<1> QED BY <1>1, <1>2 DEF ChainInv

LEMMA WritesKeepChain ==
  ASSUME Heartbeats = {}, ChainInv, NEW j \in Job, Write(j)
  PROVE  ChainInv'
<1>1. Changed(j).chain
  <2>1. copy[j].chain
    BY DEF ChainInv
  <2> QED BY <2>1 DEF Changed
<1>2. text' = Changed(j) /\ UNCHANGED <<copy, threw>>
  BY DEF Write
<1> QED BY <1>1, <1>2 DEF ChainInv

LEMMA NextKeepsChain ==
  ASSUME Heartbeats = {}, ChainInv, [Next]_vars
  PROVE  ChainInv'
<1>1. ASSUME NEW j \in Job, Start(j) \/ Truncate(j) \/ Kill(j) PROVE ChainInv'
  BY <1>1 DEF ChainInv, Start, Truncate, Kill
<1>2. CASE UNCHANGED vars
  BY <1>2 DEF ChainInv, vars
<1> QED BY <1>1, <1>2, ReadsKeepChain, WritesKeepChain DEF Next, Step, Done

\* The hooks of a workflow command never find a state without a chainState and
\* never leave one, however many of them overlap and are killed, as long as the
\* daemon does not write its heartbeat to the same file.
THEOREM ChainIsKept ==
  ASSUME Heartbeats = {}
  PROVE  Spec => []ChainSurvives
<1>1. Init => ChainInv
  BY DefaultFacts DEF Init, ChainInv
<1>2. ChainInv /\ [Next]_vars => ChainInv'
  BY NextKeepsChain
<1>3. ChainInv => ChainSurvives
  BY DEF ChainInv, ChainSurvives
<1> QED BY <1>1, <1>2, <1>3, PTL DEF Spec
-----------------------------------------------------------------------------
(* The file implements the versioned store.                                *)

Text == [version : Nat, chain : BOOLEAN, fields : [Field -> FieldValue]]

StoreInv ==
  /\ text \in Text /\ copy \in [Job -> Text]
  /\ pc \in [Job -> {"off", "read", "truncate", "write", "ended"}]
  /\ \A j \in Job : next[j] \in 1..Len(Script[j])
  /\ Stored(text) \in past /\ Stored(Default) \in past
  /\ \A j \in Job : pc[j] \in {"truncate", "write"} => Stored(copy[j]) \in past

LEMMA DefaultIsText == Default \in Text /\ EmptyObject \in Text
/\ Stored(EmptyObject) = Stored(Default)
BY ConstantsAssumption DEF Default, EmptyObject, NoFields, Text, Stored

LEMMA AdvanceFacts ==
  ASSUME StoreInv, NEW j \in Job, Advances(j)
  PROVE  /\ pc' \in [Job -> {"off", "read", "truncate", "write", "ended"}]
         /\ pc' = [pc EXCEPT ![j] = pc'[j]] /\ pc'[j] \in {"read", "ended"}
         /\ \A i \in Job : next'[i] \in 1..Len(Script[i])
<1>1. Script[j] \in Seq([field : Field, value : FieldValue])
  BY ConstantsAssumption
<1>2. Len(Script[j]) \in Nat
  BY <1>1
<1>3. CASE next[j] < Len(Script[j])
  <2>1. pc' = [pc EXCEPT ![j] = "read"] /\ next' = [next EXCEPT ![j] = @ + 1]
    BY <1>3 DEF Advances
  <2>2. next[j] \in 1..Len(Script[j]) /\ next[j] + 1 \in 1..Len(Script[j])
    BY <1>2, <1>3 DEF StoreInv
  <2> QED BY <2>1, <2>2 DEF StoreInv
<1>4. CASE ~(next[j] < Len(Script[j]))
  BY <1>4 DEF Advances, StoreInv
<1> QED BY <1>3, <1>4

LEMMA AssignmentType ==
  ASSUME StoreInv, NEW j \in Job
  PROVE  Assignment(j).field \in Field /\ Assignment(j).value \in FieldValue
<1>1. Script[j] \in Seq([field : Field, value : FieldValue]) /\ next[j] \in 1..Len(Script[j])
  BY ConstantsAssumption DEF StoreInv
<1>2. Script[j][next[j]] \in [field : Field, value : FieldValue]
  BY <1>1, ElementOfSeq
<1> QED BY <1>2 DEF Assignment

\* What a command reads is a state there has been.
LEMMA LoadIsPast ==
  ASSUME StoreInv, NEW j \in Job
  PROVE  Load(j) \in Text /\ Stored(Load(j)) \in past
BY DefaultIsText DEF Load, StoreInv

\* What it writes is that state with its field set.
LEMMA ChangedIsSet ==
  ASSUME StoreInv, NEW j \in Job
  PROVE  /\ Changed(j) \in Text
         /\ Changed(j).version = copy[j].version + (IF j \in Heartbeats THEN 0 ELSE 1)
         /\ Changed(j).fields = [copy[j].fields EXCEPT ![Assignment(j).field] = Assignment(j).value]
<1>1. copy[j] \in Text
  BY DEF StoreInv
<1> DEFINE g == Assignment(j).field
           v == Assignment(j).value
<1>2. g \in Field /\ v \in FieldValue
  BY AssignmentType
<1>3. Changed(j)
        = [copy[j] EXCEPT !.version = IF j \in Heartbeats THEN @ ELSE @ + 1, !.fields[g] = v]
  BY DEF Changed
<1> HIDE DEF g, v
<1>4. [copy[j].fields EXCEPT ![g] = v] \in [Field -> FieldValue]
  BY <1>1, <1>2 DEF Text
<1> DEFINE w == IF j \in Heartbeats THEN copy[j].version ELSE copy[j].version + 1
           fs == [copy[j].fields EXCEPT ![g] = v]
<1>5. w \in Nat /\ w = copy[j].version + (IF j \in Heartbeats THEN 0 ELSE 1)
  BY <1>1 DEF Text
<1>6. Changed(j) = [version |-> w, chain |-> copy[j].chain, fields |-> fs]
  BY <1>1, <1>3 DEF Text
<1>7. copy[j].chain \in BOOLEAN
  BY <1>1 DEF Text
<1> HIDE DEF w, fs
<1>8. Changed(j) \in Text /\ Changed(j).version = w /\ Changed(j).fields = fs
  <2>1. fs \in [Field -> FieldValue]
    BY <1>4 DEF fs
  <2> QED BY <1>5, <1>6, <1>7, <2>1 DEF Text
<1> QED BY <1>5, <1>8 DEF fs, g, v

LEMMA WriteIsStore ==
  ASSUME StoreInv, NEW j \in Job, Write(j)
  PROVE  StoreInv' /\ Store!Next
<1>1. /\ pc[j] = "write" /\ text' = Changed(j) /\ Advances(j) /\ UNCHANGED copy
      /\ past' = past \cup {Stored(Changed(j))}
  BY DEF Write, Noted
<1>2. /\ Changed(j) \in Text
      /\ Changed(j).version = copy[j].version + (IF j \in Heartbeats THEN 0 ELSE 1)
      /\ Changed(j).fields = [copy[j].fields EXCEPT ![Assignment(j).field] = Assignment(j).value]
  BY ChangedIsSet
<1>3. Assignment(j).field \in Field /\ Assignment(j).value \in FieldValue
  BY AssignmentType
<1>4. Stored(copy[j]) \in past /\ copy[j] \in Text
  BY <1>1 DEF StoreInv
<1>5. /\ Stored(copy[j]).version = copy[j].version /\ Stored(copy[j]).fields = copy[j].fields
      /\ past' = past \cup {[version |-> text'.version, fields |-> text'.fields]}
  BY <1>1 DEF Stored
<1>6. copy[j].version + 0 = copy[j].version
  BY <1>4 DEF Text
<1>7. IF j \in Heartbeats
        THEN Store!Touch(Stored(copy[j]), Assignment(j).field, Assignment(j).value)
      ELSE Store!Set(Stored(copy[j]), Assignment(j).field, Assignment(j).value)
  BY <1>1, <1>2, <1>5, <1>6 DEF Store!Touch, Store!Set, Store!Becomes
<1>8. Store!Next
  BY <1>3, <1>4, <1>7 DEF Store!Next
<1>9. StoreInv'
  <2>1. pc' \in [Job -> {"off", "read", "truncate", "write", "ended"}]
        /\ pc' = [pc EXCEPT ![j] = pc'[j]] /\ pc'[j] \in {"read", "ended"}
        /\ \A i \in Job : next'[i] \in 1..Len(Script[i])
    BY <1>1, AdvanceFacts
  <2>2. \A i \in Job : pc'[i] \in {"truncate", "write"} => pc[i] \in {"truncate", "write"}
    BY <2>1 DEF StoreInv
  <2>3. Stored(text') \in past'
    BY <1>1
  <2> QED BY <1>1, <1>2, <2>1, <2>2, <2>3 DEF StoreInv, Stored
<1> QED BY <1>8, <1>9

LEMMA ReadIsStore ==
  ASSUME StoreInv, NEW j \in Job, Read(j)
  PROVE  StoreInv' /\ UNCHANGED <<text, past>>
<1>1. pc[j] = "read" /\ UNCHANGED <<text, past>>
  BY DEF Read
<1>2. CASE NeedsChain(Assignment(j)) /\ ~Load(j).chain
  <2>1. Advances(j) /\ UNCHANGED copy
    BY <1>2 DEF Read
  <2>2. pc' \in [Job -> {"off", "read", "truncate", "write", "ended"}]
        /\ pc' = [pc EXCEPT ![j] = pc'[j]] /\ pc'[j] \in {"read", "ended"}
        /\ \A i \in Job : next'[i] \in 1..Len(Script[i])
    BY <2>1, AdvanceFacts
  <2>3. \A i \in Job : pc'[i] \in {"truncate", "write"} => pc[i] \in {"truncate", "write"}
    BY <2>2 DEF StoreInv
  <2> QED BY <1>1, <2>1, <2>2, <2>3 DEF StoreInv, Stored
<1>3. CASE ~(NeedsChain(Assignment(j)) /\ ~Load(j).chain)
  <2>1. /\ copy' = [copy EXCEPT ![j] = Load(j)]
        /\ pc' = [pc EXCEPT ![j] = "truncate"] /\ UNCHANGED next
    BY <1>3 DEF Read
  <2>2. Load(j) \in Text /\ Stored(Load(j)) \in past
    BY LoadIsPast
  <2>3. /\ \A i \in Job : copy'[i] = IF i = j THEN Load(j) ELSE copy[i]
        /\ \A i \in Job : i # j => pc'[i] = pc[i]
    BY <2>1 DEF StoreInv
  <2> QED BY <1>1, <2>1, <2>2, <2>3 DEF StoreInv, Stored
<1> QED BY <1>1, <1>2, <1>3

\* A step keeps the invariant, and is a step of the store or leaves it alone.
LEMMA StoreStep ==
  ASSUME StoreInv, [Next]_vars
  PROVE  StoreInv' /\ [Store!Next]_(<<text.version, text.fields, past>>)
<1>1. ASSUME NEW j \in Job, Start(j) \/ Truncate(j) \/ Kill(j)
      PROVE  StoreInv' /\ UNCHANGED <<text, past>>
  <2>1. /\ UNCHANGED <<text, past, copy, next>>
        /\ \E to \in {"read", "write", "ended"} : pc' = [pc EXCEPT ![j] = to]
        /\ pc[j] \in {"off", "truncate", "write"}
        /\ pc[j] = "off" => pc'[j] # "write"
    BY <1>1 DEF Start, Truncate, Kill, StoreInv
  <2>2. /\ \A i \in Job : pc'[i] \in {"truncate", "write"} => pc[i] \in {"truncate", "write"}
        /\ pc' \in [Job -> {"off", "read", "truncate", "write", "ended"}]
    BY <2>1 DEF StoreInv
  <2> QED BY <2>1, <2>2 DEF StoreInv, Stored
<1>2. CASE UNCHANGED vars
  BY <1>2 DEF StoreInv, Stored, vars
<1> QED BY <1>1, <1>2, ReadIsStore, WriteIsStore DEF Next, Step, Done

LEMMA StoreInit == ASSUME Init PROVE StoreInv /\ Store!Init
<1>1. \A j \in Job : Script[j] \in Seq([field : Field, value : FieldValue]) /\ Len(Script[j]) > 0
  BY ConstantsAssumption
<1>2. \A j \in Job : 1 \in 1..Len(Script[j])
  BY <1>1
<1>3. StoreInv
  BY <1>2, DefaultIsText DEF Init, StoreInv, Stored
<1>4. Store!Init
  BY DEF Init, Store!Init, Default, NoFields, Stored
<1> QED BY <1>3, <1>4

\* For any hooks and scripts, with the daemon or without, however they overlap and
\* wherever they are killed, workflow-state.json is a store in which every change sets
\* one field of one state there has been and increments its version: what a text says
\* was never put together from two states.
THEOREM ImplementsTheStore == Spec => ImplementsStore
<1>1. Init => StoreInv /\ Store!Init
  BY StoreInit
<1>2. StoreInv /\ [Next]_vars
        => StoreInv' /\ [Store!Next]_(<<text.version, text.fields, past>>)
  BY StoreStep
<1> QED BY <1>1, <1>2, PTL DEF Spec, ImplementsStore, Store!Spec

-----------------------------------------------------------------------------
(* Which changes are undone.                                                *)

\* Text and copies hold what each field was given last, except where it is noted.
DueInv ==
  /\ kind \in {"absent", "torn", "json"}
  /\ kind = "absent" => due = NoFields
  /\ due \in [Field -> FieldValue] /\ undone \subseteq Field
  /\ missed \in [Job -> SUBSET Field]
  /\ \A f \in Field \ undone : text.fields[f] = due[f]
  /\ \A j \in Job : pc[j] \in {"truncate", "write"} =>
        \A f \in Field \ (missed[j] \cup undone) : copy[j].fields[f] = due[f]

Active == {j \in Job : pc[j] \in {"read", "truncate", "write"}}

\* A job that runs alone misses nothing, and only its own write leaves the file torn.
AloneInv ==
  /\ kills \in Nat
  /\ apart /\ kills = 0 =>
       /\ \A i, j \in Active : i = j
       /\ \A j \in Job : pc[j] \in {"truncate", "write"} => missed[j] = {}
       /\ kind = "torn" => \E j \in Job : pc[j] = "write"
       /\ \A j \in Job : pc[j] = "write" => kind = "torn"
       /\ undone = {}

ChangeInv == StoreInv /\ DueInv /\ AloneInv

LEMMA ChangeInit == ASSUME Init PROVE ChangeInv
<1>1. \A j \in Job : pc[j] = "off"
  BY DEF Init
<1>2. DueInv
  <2>1. text = Default /\ kind = "absent" /\ due = NoFields /\ undone = {}
        /\ missed = [j \in Job |-> {}]
    BY DEF Init
  <2>2. Default.fields = NoFields /\ NoFields \in [Field -> FieldValue]
    BY ConstantsAssumption DEF Default, NoFields
  <2> QED BY <1>1, <2>1, <2>2 DEF DueInv
<1>3. AloneInv
  BY <1>1 DEF Init, AloneInv, Active
<1> QED BY <1>2, <1>3, StoreInit DEF ChangeInv

LEMMA StartKeeps ==
  ASSUME ChangeInv, NEW j \in Job, Start(j)
  PROVE  DueInv' /\ AloneInv'
<1> USE DEF ChangeInv
<1>1. /\ pc[j] = "off" /\ pc' = [pc EXCEPT ![j] = "read"]
      /\ apart' = (apart /\ \A i \in Job : Started(i) => Ended(i))
      /\ UNCHANGED <<kind, text, copy, kills, due, missed, undone>>
  BY DEF Start
<1>2. \A i \in Job : pc'[i] = IF i = j THEN "read" ELSE pc[i]
  BY <1>1 DEF StoreInv
<1>3. DueInv'
  BY <1>1, <1>2 DEF DueInv
<1>4. AloneInv'
  <2>1. ASSUME apart', kills = 0 PROVE apart /\ \A i \in Job : pc[i] \in {"off", "ended"}
    BY <1>1, <2>1 DEF Started, Ended
  <2>2. ASSUME apart', kills = 0 PROVE Active' = {j}
    BY <1>2, <2>1, <2>2 DEF Active
  <2> QED BY <1>1, <1>2, <2>1, <2>2 DEF AloneInv
<1> QED BY <1>3, <1>4

LEMMA ReadKeeps ==
  ASSUME ChangeInv, NEW j \in Job, Read(j)
  PROVE  DueInv' /\ AloneInv'
<1> USE DEF ChangeInv
<1>1. pc[j] = "read" /\ UNCHANGED <<kind, text, kills, due, undone, apart>>
  BY DEF Read
<1>2. CASE NeedsChain(Assignment(j)) /\ ~Load(j).chain
  <2>1. Advances(j) /\ UNCHANGED <<copy, missed>>
    BY <1>2 DEF Read
  <2>2. pc' = [pc EXCEPT ![j] = pc'[j]] /\ pc'[j] \in {"read", "ended"}
    BY <2>1, AdvanceFacts
  <2>3. \A i \in Job : i # j => pc'[i] = pc[i]
    BY <2>2 DEF StoreInv
  <2>4. DueInv'
    BY <1>1, <2>1, <2>2, <2>3 DEF DueInv
  <2>5. Active' \subseteq Active
    BY <1>1, <2>2, <2>3 DEF Active
  <2>6. AloneInv'
    BY <1>1, <2>1, <2>2, <2>3, <2>5 DEF AloneInv
  <2> QED BY <2>4, <2>6
<1>3. CASE ~(NeedsChain(Assignment(j)) /\ ~Load(j).chain)
  <2>1. /\ copy' = [copy EXCEPT ![j] = Load(j)]
        /\ missed' = [missed EXCEPT ![j] = IF kind = "torn" THEN Field ELSE {}]
        /\ pc' = [pc EXCEPT ![j] = "truncate"]
    BY <1>3 DEF Read
  <2>2. \A i \in Job : /\ pc'[i] = IF i = j THEN "truncate" ELSE pc[i]
                       /\ copy'[i] = IF i = j THEN Load(j) ELSE copy[i]
                       /\ missed'[i] = IF i = j THEN IF kind = "torn" THEN Field ELSE {}
                                       ELSE missed[i]
    BY <2>1 DEF StoreInv, DueInv
  <2>3. kind # "torn" => \A f \in Field \ undone : Load(j).fields[f] = due[f]
    <3>1. Default.fields = NoFields /\ EmptyObject.fields = NoFields
      BY DEF Default, EmptyObject
    <3> QED BY <3>1 DEF Load, DueInv
  <2>4. missed' \in [Job -> SUBSET Field]
    BY <2>1 DEF DueInv
  <2>5. DueInv'
    BY <1>1, <2>2, <2>3, <2>4 DEF DueInv
  <2>6. Active' = Active
    BY <1>1, <2>2 DEF Active
  <2>7. AloneInv'
    <3> SUFFICES ASSUME apart, kills = 0
                 PROVE  AloneInv'
      BY <1>1 DEF AloneInv
    <3>1. \A i \in Job : i # j => pc[i] \notin {"read", "truncate", "write"}
      BY <1>1 DEF AloneInv, Active
    <3>2. kind # "torn"
      BY <1>1, <3>1 DEF AloneInv
    <3> QED BY <1>1, <2>2, <2>6, <3>1, <3>2 DEF AloneInv
  <2> QED BY <2>5, <2>7
<1> QED BY <1>2, <1>3

LEMMA TruncateKeeps ==
  ASSUME ChangeInv, NEW j \in Job, Truncate(j)
  PROVE  DueInv' /\ AloneInv'
<1> USE DEF ChangeInv
<1>1. /\ pc[j] = "truncate" /\ kind' = "torn" /\ pc' = [pc EXCEPT ![j] = "write"]
      /\ UNCHANGED <<text, copy, kills, due, missed, undone, apart>>
  BY DEF Truncate
<1>2. \A i \in Job : pc'[i] = IF i = j THEN "write" ELSE pc[i]
  BY <1>1 DEF StoreInv
<1>3. DueInv'
  BY <1>1, <1>2 DEF DueInv
<1>4. Active' = Active
  BY <1>1, <1>2 DEF Active
<1>5. AloneInv'
  BY <1>1, <1>2, <1>4 DEF AloneInv
<1> QED BY <1>3, <1>5

LEMMA WriteKeeps ==
  ASSUME ChangeInv, NEW j \in Job, Write(j)
  PROVE  DueInv' /\ AloneInv'
<1> USE DEF ChangeInv
<1> DEFINE g == Assignment(j).field
           v == Assignment(j).value
<1>1. /\ pc[j] = "write" /\ text' = Changed(j) /\ Advances(j)
      /\ kind' \in IF kind = "torn" THEN {"json"} ELSE {"json", "torn"}
      /\ due' = [due EXCEPT ![g] = v]
      /\ missed' = [i \in Job |-> missed[i] \cup IF i = j THEN {} ELSE {g}]
      /\ undone' = (undone \cup missed[j]) \ {g}
      /\ UNCHANGED <<copy, kills, apart>>
  BY DEF Write, Noted
<1>2. g \in Field /\ v \in FieldValue
  BY AssignmentType
<1>3. Changed(j).fields = [copy[j].fields EXCEPT ![g] = v]
  BY ChangedIsSet
<1>4. copy[j].fields \in [Field -> FieldValue]
  BY DEF StoreInv, Text
<1>5. pc' = [pc EXCEPT ![j] = pc'[j]] /\ pc'[j] \in {"read", "ended"}
  BY <1>1, AdvanceFacts
<1>6. \A i \in Job : i # j => pc'[i] = pc[i]
  BY <1>5 DEF StoreInv
<1> HIDE DEF g, v
<1>7. \A f \in Field : /\ due'[f] = IF f = g THEN v ELSE due[f]
                       /\ text'.fields[f] = IF f = g THEN v ELSE copy[j].fields[f]
  BY <1>1, <1>2, <1>3, <1>4 DEF DueInv
<1>8. \A f \in Field \ undone' : text'.fields[f] = due'[f]
  <2> SUFFICES ASSUME NEW f \in Field, f \notin undone', f # g PROVE copy[j].fields[f] = due[f]
    BY <1>7
  <2>1. f \in Field \ (missed[j] \cup undone)
    BY <1>1
  <2> QED BY <1>1, <2>1 DEF DueInv
<1>9. ASSUME NEW i \in Job, pc'[i] \in {"truncate", "write"},
             NEW f \in Field \ (missed'[i] \cup undone')
      PROVE  copy'[i].fields[f] = due'[f]
  <2>1. i # j /\ pc[i] \in {"truncate", "write"}
    BY <1>5, <1>6, <1>9
  <2>2. f # g /\ f \in Field \ (missed[i] \cup undone)
    BY <1>1, <1>9, <2>1
  <2>3. copy[i].fields[f] = due[f]
    BY <2>1, <2>2 DEF DueInv
  <2> QED BY <1>1, <1>7, <2>2, <2>3
<1>10. DueInv'
  <2>1. kind' \in {"torn", "json"}
    BY <1>1
  <2>2. due' \in [Field -> FieldValue] /\ undone' \subseteq Field
        /\ missed' \in [Job -> SUBSET Field]
    BY <1>1, <1>2 DEF DueInv
  <2> QED BY <1>8, <1>9, <2>1, <2>2 DEF DueInv
<1>11. Active' \subseteq Active
  BY <1>1, <1>5, <1>6 DEF Active
<1>12. AloneInv'
  <2> SUFFICES ASSUME apart, kills = 0
               PROVE  AloneInv'
    BY <1>1 DEF AloneInv
  <2>1. \A i \in Job : i # j => pc[i] \notin {"read", "truncate", "write"}
    BY <1>1 DEF AloneInv, Active
  <2>2. missed[j] = {} /\ undone = {} /\ kind = "torn"
    BY <1>1 DEF AloneInv
  <2>3. kind' = "json" /\ undone' = {}
    BY <1>1, <2>2
  <2>4. \A i \in Job : pc'[i] \notin {"truncate", "write"}
    BY <1>5, <1>6, <2>1
  <2> QED BY <1>1, <1>11, <2>3, <2>4 DEF AloneInv
<1> QED BY <1>10, <1>12

LEMMA KillKeeps ==
  ASSUME ChangeInv, NEW j \in Job, Kill(j)
  PROVE  DueInv' /\ AloneInv'
<1> USE DEF ChangeInv
<1>1. /\ kills' = kills + 1 /\ pc' = [pc EXCEPT ![j] = "ended"]
      /\ UNCHANGED <<kind, text, copy, due, missed, undone>>
  BY DEF Kill
<1>2. \A i \in Job : pc'[i] = IF i = j THEN "ended" ELSE pc[i]
  BY <1>1 DEF StoreInv
<1>3. DueInv'
  BY <1>1, <1>2 DEF DueInv
<1>4. kills' \in Nat /\ kills' # 0
  BY <1>1 DEF AloneInv
<1> QED BY <1>3, <1>4 DEF AloneInv

LEMMA ChangeStep == ASSUME ChangeInv, [Next]_vars PROVE ChangeInv'
<1>1. StoreInv'
  BY StoreStep DEF ChangeInv
<1>2. CASE UNCHANGED vars
  BY <1>1, <1>2 DEF ChangeInv, DueInv, AloneInv, Active, vars
<1> QED BY <1>1, <1>2, StartKeeps, ReadKeeps, TruncateKeeps, WriteKeeps, KillKeeps
        DEF Next, Step, Done, ChangeInv

\* For any hooks and scripts, with the daemon or without, however they overlap and
\* wherever they are killed: a field loses the value it was given last only to a command
\* that read the file before that change was written or while it was half written.  Hooks
\* that start one after the other and are not killed undo nothing.
THEOREM ChangesAreKept == Spec => []NoChangeUndone
<1>1. Init => ChangeInv
  BY ChangeInit
<1>2. ChangeInv /\ [Next]_vars => ChangeInv'
  BY ChangeStep
<1>3. ChangeInv => NoChangeUndone
  BY DEF ChangeInv, DueInv, AloneInv, NoChangeUndone
<1> QED BY <1>1, <1>2, <1>3, PTL DEF Spec
=============================================================================
