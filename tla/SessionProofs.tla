------------------------------ MODULE SessionProofs ------------------------------
(***************************************************************************)
(* Proofs about three parts of MCSession: the chain of steps that the      *)
(* hooks follow, the engine that goes from step to step, and the command   *)
(* that decrypts the prompts.  What holds of a part holds of the system: a *)
(* step of the system is one of the part, or leaves its variables alone.   *)
(***************************************************************************)
EXTENDS MCSession, FiniteSetTheorems, WellFoundedInduction, TLAPS

LEMMA PartSteps ==
  /\ SystemInit => Chain!Init /\ Engine!Init /\ Prompts!Init
  /\ [SystemNext]_allVars => /\ [Chain!Next]_chainVars
                             /\ [Engine!Next]_engineVars
                             /\ [Prompts!Next]_promptVars
<1>1. UNCHANGED allVars => UNCHANGED chainVars /\ UNCHANGED engineVars /\ UNCHANGED promptVars
  BY DEF allVars
<1>2. SystemNext => [Chain!Next]_chainVars /\ [Engine!Next]_engineVars
        /\ [Prompts!Next]_promptVars
  BY DEF SystemNext, Stop
<1> QED BY <1>1, <1>2 DEF SystemInit

-----------------------------------------------------------------------------
(* The command that decrypts the prompts.                                  *)

PromptStep == {"off", "setup", "fetch", "custom", "verify", "read", "truncate", "write", "print"}

Cmd == [step : PromptStep, name : Prompt, cred : Nat, text : Nat, listed : Nat,
        seen : [Prompt -> Nat]]

PromptType ==
  /\ content \in [Prompt -> Nat] /\ manifest \in [Prompt -> Nat]
  /\ issue \in Nat /\ credentials \in Nat
  /\ sigs \subseteq [Prompt -> Nat]
  /\ command \in [Process -> Cmd]

\* A command holds no version of the manifest until it has checked its prompt; from
\* there on the version it holds is that of the prompt, or none.
HeldIsListed ==
  \A p \in Process :
    /\ command[p].listed \in {Prompts!Absent, command[p].text}
    /\ command[p].step \in {"fetch", "custom", "verify"} => command[p].listed = Prompts!Absent

PromptInv == PromptType /\ HeldIsListed /\ Prompts!PrintedIsListed

LEMMA OffIsCmd == Prompts!Off \in Cmd /\ Prompts!Off.listed = Prompts!Absent
  /\ Prompts!Off.step = "off"
<1>1. Prompts!NoSigs \in [Prompt -> Nat] BY DEF Prompts!NoSigs, Prompts!Absent
<1> DEFINE name == CHOOSE k \in Prompt : TRUE
<1>2. name \in Prompt BY PromptAssumption
<1>3. Prompts!Off = [step |-> "off", name |-> name, cred |-> Prompts!Absent,
        text |-> Prompts!Absent, listed |-> Prompts!Absent,
             seen |-> Prompts!NoSigs]
  BY DEF Prompts!Off
<1> HIDE DEF name
<1> QED BY <1>1, <1>2, <1>3 DEF Cmd, PromptStep, Prompts!Absent

LEMMA PromptInit == Prompts!Init => PromptInv
BY OffIsCmd DEF Prompts!Init, PromptInv, PromptType, HeldIsListed, Prompts!PrintedIsListed,
     Prompts!NoSigs, Prompts!Absent

LEMMA LoadedType == ASSUME PromptType PROVE Prompts!Loaded \in [Prompt -> Nat]
BY DEF PromptType, Prompts!Loaded, Prompts!NoSigs, Prompts!Absent

\* A command that ends keeps nothing.
LEMMA EndsKeeps ==
  ASSUME PromptType, HeldIsListed, NEW p \in Process, Prompts!Ends(p)
  PROVE  command' \in [Process -> Cmd] /\ HeldIsListed'
BY OffIsCmd DEF PromptType, HeldIsListed, Prompts!Ends, Prompts!Absent

\* One that only goes on holds what it held.
LEMMA GotoKeeps ==
  ASSUME PromptType, HeldIsListed, NEW p \in Process,
         NEW step \in PromptStep \ {"fetch", "custom", "verify"}, Prompts!Goto(p, step)
  PROVE  command' \in [Process -> Cmd] /\ HeldIsListed'
<1>1. \A q \in Process : /\ command'[q].listed = command[q].listed
                         /\ command'[q].text = command[q].text
                         /\ command'[q].step \in {command[q].step, step}
  BY DEF Prompts!Goto, PromptType, Cmd, PromptStep
<1>2. command' \in [Process -> Cmd] BY DEF Prompts!Goto, PromptType, Cmd, PromptStep
<1> QED BY <1>1, <1>2 DEF HeldIsListed

LEMMA ServerStep == PromptInv /\ Prompts!Server => PromptInv'
<1> SUFFICES ASSUME PromptInv, Prompts!Server PROVE PromptInv' OBVIOUS
<1>1. content' \in [Prompt -> Nat] /\ manifest' \in [Prompt -> Nat] /\ issue' \in Nat
  BY DEF PromptInv, PromptType, Prompts!Server, Prompts!Publish, Prompts!Sign, Prompts!Rotate,
       Prompts!Revoke
<1>2. UNCHANGED <<credentials, sigs, command, printed>> BY DEF Prompts!Server, Prompts!history
<1> QED BY <1>1, <1>2 DEF PromptInv, PromptType, HeldIsListed, Prompts!PrintedIsListed

LEMMA StartStep == ASSUME PromptInv, NEW p \in Process, Prompts!Shows(p) \/ Prompts!ClearAll(p)
  \/ Prompts!Decrypt(p) PROVE PromptInv'
<1> USE DEF Prompts!RunCli, Prompts!server, Prompts!history
<1>1. UNCHANGED <<content, manifest, issue, credentials, sigs, printed>> BY DEF Prompts!Shows,
        Prompts!ClearAll, Prompts!Decrypt
<1>2. command' \in [Process -> Cmd] /\ HeldIsListed'
  <2>1. CASE UNCHANGED command BY <2>1 DEF PromptInv, PromptType, HeldIsListed
  <2>2. CASE Prompts!Goto(p, "setup")
    <3>1. "setup" \in PromptStep \ {"fetch", "custom", "verify"} BY DEF PromptStep
    <3> QED BY <2>2, <3>1, GotoKeeps DEF PromptInv
  <2>3. CASE Prompts!Decrypt(p)
    <3>1. PICK k \in Prompt, step \in {"fetch", "custom"} :
            command' = [command EXCEPT ![p] = [Prompts!Off EXCEPT !.step = step, !.name = k,
              !.cred = credentials]]
      BY <2>3 DEF Prompts!Decrypt
    <3> DEFINE c == [Prompts!Off EXCEPT !.step = step, !.name = k, !.cred = credentials]
    <3>2. Prompts!Off \in Cmd /\ Prompts!Off.listed = Prompts!Absent BY OffIsCmd DEF PromptInv,
            PromptType
    <3>3. c \in Cmd /\ c.listed = Prompts!Absent BY <3>2 DEF Cmd, PromptStep, PromptInv,
            PromptType
    <3> HIDE DEF c
    <3>4. command' = [command EXCEPT ![p] = c] BY <3>1 DEF c
    <3> QED BY <3>3, <3>4 DEF PromptInv, PromptType, HeldIsListed, Prompts!Absent
  <2> QED BY <2>1, <2>2, <2>3 DEF Prompts!Shows, Prompts!ClearAll
<1> QED BY <1>1, <1>2 DEF PromptInv, PromptType, Prompts!PrintedIsListed

LEMMA CommandStep == ASSUME PromptInv, NEW p \in Process, Prompts!Step(p) \/ Prompts!Kill(p)
  PROVE PromptInv'
<1> USE DEF Prompts!server, Prompts!history
<1>1. CASE Prompts!Setup(p) \/ Prompts!Kill(p)
  <2>1. Prompts!Ends(p) /\ UNCHANGED <<content, manifest, issue, sigs, printed>>
          /\ credentials' \in Nat
    BY <1>1 DEF Prompts!Setup, Prompts!Kill, Prompts!Refused, Prompts!StoreCredentials,
         PromptInv, PromptType
  <2> QED BY <2>1, EndsKeeps DEF PromptInv, PromptType, Prompts!PrintedIsListed
<1>2. CASE Prompts!Fetch(p) \/ Prompts!FetchCustom(p)
  <2>1. UNCHANGED <<content, manifest, issue, credentials, sigs, printed>>
    BY <1>2 DEF Prompts!Fetch, Prompts!FetchCustom, Prompts!Refused, Prompts!Answered
  <2>2. CASE Prompts!Ends(p) BY <2>1, <2>2, EndsKeeps DEF PromptInv, PromptType,
               Prompts!PrintedIsListed
  <2>3. ASSUME NEW step \in {"verify", "print"}, Prompts!Answered(p, step),
                 command[p].step \in {"fetch", "custom"}
        PROVE  command' \in [Process -> Cmd] /\ HeldIsListed'
    BY <2>3 DEF Prompts!Answered, PromptInv, PromptType, HeldIsListed, Cmd, PromptStep,
         Prompts!Absent
  <2> QED BY <1>2, <2>1, <2>2, <2>3 DEF Prompts!Fetch, Prompts!FetchCustom, Prompts!Refused,
       Prompts!At, PromptInv, PromptType, Prompts!PrintedIsListed
<1>3. CASE \E v \in Nat : Prompts!Agrees(command[p].text, v) /\ Prompts!Holds(p, v)
  <2>1. PICK v \in Nat : Prompts!Agrees(command[p].text, v) /\ Prompts!Holds(p, v) BY <1>3
  <2>2. command' \in [Process -> Cmd]
    <3> DEFINE c == [command[p] EXCEPT !.listed = v, !.step = "read"]
    <3>1. command[p] \in Cmd BY DEF PromptInv, PromptType
    <3>2. c \in Cmd BY <3>1 DEF Cmd, PromptStep
    <3>3. command' = [command EXCEPT ![p] = c] BY <2>1 DEF Prompts!Holds, PromptInv, PromptType
    <3> QED BY <3>2, <3>3 DEF PromptInv, PromptType
  <2>3. /\ command'[p].listed = v /\ command'[p].text = command[p].text
             /\ command'[p].step = "read"
        /\ \A q \in Process \ {p} : command'[q] = command[q]
    BY <2>1 DEF Prompts!Holds, PromptInv, PromptType, Cmd, PromptStep
  <2>4. HeldIsListed' BY <2>1, <2>3 DEF PromptInv, HeldIsListed, Prompts!Agrees
  <2> QED BY <2>1, <2>2, <2>4 DEF Prompts!Holds, PromptInv, PromptType, Prompts!PrintedIsListed
<1>4. CASE Prompts!Verify(p)
  <2>1. CASE Prompts!Ends(p)
    <3>1. UNCHANGED <<content, manifest, issue, credentials, sigs, printed>>
      BY <1>4 DEF Prompts!Verify, Prompts!Holds
    <3> QED BY <2>1, <3>1, EndsKeeps DEF PromptInv, PromptType, Prompts!PrintedIsListed
  <2>2. manifest[command[p].name] \in Nat BY DEF PromptInv, PromptType, Cmd, PromptStep
  <2> QED BY <1>3, <1>4, <2>1, <2>2 DEF Prompts!Verify
<1>5. CASE Prompts!Timeout(p) BY <1>3, <1>5 DEF Prompts!Timeout, Prompts!Agrees, Prompts!Absent
<1>6. CASE Prompts!Read(p)
  <2>1. UNCHANGED <<content, manifest, issue, credentials, sigs, printed>> BY <1>6
          DEF Prompts!Read
  <2>2. PICK seen \in [Prompt -> Nat], step \in {"print", "truncate"} :
          command' = [command EXCEPT ![p].seen = seen, ![p].step = step]
    BY <1>6, LoadedType DEF Prompts!Read, PromptInv, PromptType, Cmd, PromptStep
  <2>3. command' \in [Process -> Cmd]
    <3> DEFINE c == [command[p] EXCEPT !.seen = seen, !.step = step]
    <3>1. command[p] \in Cmd BY DEF PromptInv, PromptType
    <3>2. c \in Cmd BY <3>1 DEF Cmd, PromptStep
    <3>3. command' = [command EXCEPT ![p] = c] BY <2>2 DEF PromptInv, PromptType
    <3> QED BY <3>2, <3>3 DEF PromptInv, PromptType
  <2>4. \A q \in Process : /\ command'[q].listed = command[q].listed
                           /\ command'[q].text = command[q].text
                           /\ command'[q].step \in {command[q].step, "print", "truncate"}
    BY <2>2 DEF PromptInv, PromptType, Cmd, PromptStep
  <2>5. HeldIsListed' BY <2>4 DEF PromptInv, HeldIsListed
  <2> QED BY <2>1, <2>3, <2>5 DEF PromptInv, PromptType, Prompts!PrintedIsListed
<1>7. CASE Prompts!Truncate(p) \/ Prompts!Write(p)
  <2>1. UNCHANGED <<content, manifest, issue, credentials, printed>>
          /\ sigs' \subseteq [Prompt -> Nat]
    BY <1>7 DEF Prompts!Truncate, Prompts!Write, PromptInv, PromptType, Cmd, PromptStep
  <2>2. PICK step \in {"write", "print"} : Prompts!Goto(p, step) BY <1>7 DEF Prompts!Truncate,
          Prompts!Write
  <2>3. step \in PromptStep \ {"fetch", "custom", "verify"} BY DEF PromptStep
  <2> QED BY <2>1, <2>2, <2>3, GotoKeeps DEF PromptInv, PromptType, Prompts!PrintedIsListed
<1>8. CASE Prompts!Show(p)
  <2>1. UNCHANGED <<content, manifest, issue, credentials, sigs>> /\ Prompts!Ends(p) BY <1>8
          DEF Prompts!Show
  <2>2. Prompts!PrintedIsListed'
    BY <1>8 DEF Prompts!Show, PromptInv, Prompts!PrintedIsListed, HeldIsListed
  <2> QED BY <2>1, <2>2, EndsKeeps DEF PromptInv, PromptType
<1> QED BY <1>1, <1>2, <1>4, <1>5, <1>6, <1>7, <1>8 DEF Prompts!Step

LEMMA PromptStepInv == PromptInv /\ [Prompts!Next]_promptVars => PromptInv'
<1> SUFFICES ASSUME PromptInv, [Prompts!Next]_promptVars PROVE PromptInv' OBVIOUS
<1>1. CASE UNCHANGED promptVars
  BY <1>1 DEF promptVars, PromptInv, PromptType, HeldIsListed, Prompts!PrintedIsListed
<1> QED BY <1>1, ServerStep, StartStep, CommandStep DEF Prompts!Next

\* What commands know of the manifest is not newer than it, and while none meets another
\* between the manifest and update-state.json, every notice is of a version that the
\* signatures have, and a command that is about to read them has a version as new.
Writer(p) == command[p].step \in {"truncate", "write"}

Covered(seen) ==
  /\ \A n \in noticed : n[2] <= seen[n[1]]
  /\ \A q \in Process : command[q].step = "read" /\ command[q].listed # Prompts!Absent =>
       seen[command[q].name] <= command[q].listed

NoticeInv ==
  /\ \A n \in noticed : n[1] \in Prompt /\ n[2] \in Nat
  /\ \A k \in Prompt : /\ manifest[k] <= content[k]
                       /\ \A s \in sigs : s[k] <= manifest[k]
                       /\ \A p \in Process : Writer(p) => command[p].seen[k] <= manifest[k]
  /\ \A p \in Process : command[p].step = "read" => command[p].listed <= manifest[command[p].name]
  /\ overlap \in BOOLEAN
  /\ ~overlap =>
       /\ Prompts!NoticedOnce
       /\ \A p, q \in Process : Writer(p) /\ Writer(q) => p = q
       /\ \A p \in Process : Writer(p) => Covered(command[p].seen)
       /\ (\A p \in Process : ~Writer(p)) => Covered(Prompts!Loaded)

LEMMA NoticeInit == Prompts!Init => NoticeInv
<1> SUFFICES ASSUME Prompts!Init PROVE NoticeInv OBVIOUS
<1>1. \A p \in Process : command[p].step = "off"
  BY OffIsCmd DEF Prompts!Init
<1>2. \A k \in Prompt : Prompts!NoSigs[k] = 0
  BY DEF Prompts!NoSigs, Prompts!Absent
<1>3. \A k \in Prompt : manifest[k] \in {0, 1} /\ content[k] = 1
  BY DEF Prompts!Init, Prompts!Absent
<1>4. sigs = {Prompts!NoSigs} /\ noticed = {} /\ overlap = FALSE
  BY DEF Prompts!Init
<1>5. \A p \in Process : ~Writer(p)
  BY <1>1 DEF Writer
<1>6. \A seen : Covered(seen)
  BY <1>1, <1>4 DEF Covered
<1>7. \A k \in Prompt : manifest[k] <= content[k] /\ \A s \in sigs : s[k] <= manifest[k]
  BY <1>2, <1>3, <1>4
<1>8. Prompts!NoticedOnce
  BY <1>4 DEF Prompts!NoticedOnce
<1> QED BY <1>1, <1>4, <1>5, <1>6, <1>7, <1>8 DEF NoticeInv

\* The server: versions only grow.
LEMMA NoticeServer == ASSUME PromptType, NoticeInv, Prompts!Server PROVE NoticeInv'
<1>1. UNCHANGED <<sigs, command, noticed, overlap>>
  BY DEF Prompts!Server, Prompts!history
<1>2. \A k \in Prompt : manifest[k] <= manifest'[k] /\ manifest'[k] <= content'[k]
  <2>1. ASSUME NEW k \in Prompt, Prompts!Publish(k)
        PROVE  /\ \A j \in Prompt : manifest'[j] = manifest[j] /\ content[j] <= content'[j]
    BY <2>1 DEF Prompts!Publish, PromptType
  <2>2. ASSUME NEW k \in Prompt, Prompts!Sign(k)
        PROVE  \A j \in Prompt : manifest'[j] \in {manifest[j], content[j]}
                 /\ content'[j] = content[j]
    BY <2>2 DEF Prompts!Sign, PromptType
  <2>3. CASE \E k \in Prompt : Prompts!Publish(k)
    BY <2>1, <2>3 DEF NoticeInv, PromptType, Prompts!Publish
  <2>4. CASE \E k \in Prompt : Prompts!Sign(k)
    BY <2>2, <2>4 DEF NoticeInv, PromptType
  <2>5. CASE Prompts!Rotate \/ Prompts!Revoke
    BY <2>5 DEF NoticeInv, PromptType, Prompts!Rotate, Prompts!Revoke
  <2> QED BY <2>3, <2>4, <2>5 DEF Prompts!Server
<1>3. \A k \in Prompt : manifest[k] \in Nat /\ content[k] \in Nat /\ manifest'[k] \in Nat
  BY <1>2 DEF PromptType, Prompts!Server, Prompts!Publish, Prompts!Sign, Prompts!Rotate,
       Prompts!Revoke
<1>4. \A k \in Prompt : /\ \A s \in sigs : s[k] \in Nat
                        /\ \A p \in Process : command[p].seen[k] \in Nat
  BY DEF PromptType, Cmd
<1>5. \A p \in Process : command[p].name \in Prompt /\ command[p].listed \in Nat
  BY DEF PromptType, Cmd
<1>6. /\ \A k \in Prompt : /\ manifest'[k] <= content'[k]
                           /\ \A s \in sigs : s[k] <= manifest'[k]
                           /\ \A p \in Process : Writer(p) => command[p].seen[k] <= manifest'[k]
      /\ \A p \in Process : command[p].step = "read" =>
           command[p].listed <= manifest'[command[p].name]
  BY <1>2, <1>3, <1>4, <1>5 DEF NoticeInv
<1> QED BY <1>1, <1>6 DEF NoticeInv, Writer, Covered, Prompts!NoticedOnce, Prompts!Loaded

\* A command that neither reads nor writes the signatures, nor has just got the manifest.
LEMMA NoticeRest ==
  ASSUME PromptType, NoticeInv, NEW p \in Process, UNCHANGED <<content, manifest, sigs, noticed>>,
         command' \in [Process -> Cmd], \A q \in Process \ {p} : command'[q] = command[q],
         command'[p].step \notin {"read", "truncate", "write"}, overlap' \in BOOLEAN, overlap =>
           overlap',
         Writer(p) => overlap'
  PROVE  NoticeInv'
<1>1. \A q \in Process : Writer(q)' => Writer(q) /\ command'[q] = command[q]
  BY DEF Writer
<1>2. \A q \in Process : command'[q].step = "read" => command[q].step = "read"
        /\ command'[q] = command[q]
  OBVIOUS
<1>3. ~overlap' => \A q \in Process : Writer(q) => Writer(q)'
  BY DEF Writer
<1>4. Prompts!Loaded' = Prompts!Loaded
  BY DEF Prompts!Loaded
<1>5. \A s : Covered(s) => Covered(s)'
  BY <1>2 DEF Covered
<1> QED BY <1>1, <1>2, <1>3, <1>4, <1>5 DEF NoticeInv, Prompts!NoticedOnce

\* A command that has the manifest, or does without.
LEMMA NoticeHolds ==
  ASSUME PromptType, NoticeInv, NEW p \in Process, Prompts!At(p, "verify"),
           NEW v \in {Prompts!Absent, manifest[command[p].name]},
         Prompts!Holds(p, v), command' \in [Process -> Cmd]
  PROVE  NoticeInv'
<1>1. /\ \A q \in Process \ {p} : command'[q] = command[q]
      /\ command'[p].step = "read" /\ command'[p].listed = v /\ command'[p].name = command[p].name
      /\ UNCHANGED <<content, manifest, sigs, noticed, overlap>>
  BY DEF Prompts!Holds, PromptType, Cmd, Prompts!server, Prompts!history
<1>2. \A q \in Process : /\ (Writer(q)' <=> Writer(q))
                         /\ (Writer(q) => command'[q] = command[q])
  BY <1>1 DEF Writer, Prompts!At
<1>3. /\ command[p].name \in Prompt /\ manifest[command[p].name] \in Nat
      /\ \A s \in sigs, k \in Prompt : s[k] \in Nat
  BY DEF PromptType, Cmd
<1>4. v <= manifest[command[p].name]
  BY <1>3 DEF Prompts!Absent
<1>6. ~overlap' => \A q \in Process : Writer(q)' => Covered(command[q].seen)'
  <2> SUFFICES ASSUME ~overlap', NEW q \in Process, Writer(q) PROVE Covered(command[q].seen)'
    BY <1>2
  <2>1. Covered(command[q].seen) /\ command[q].seen[command[p].name] <= manifest[command[p].name]
    BY <1>1, <1>3 DEF NoticeInv
  <2>2. command'[q].seen = command[q].seen
    BY <1>2
  <2> QED BY <1>1, <2>1, <2>2 DEF Covered
<1>7. ~overlap' /\ (\A q \in Process : ~Writer(q)') => Covered(Prompts!Loaded)'
  <2> SUFFICES ASSUME ~overlap, \A q \in Process : ~Writer(q) PROVE Covered(Prompts!Loaded)'
    BY <1>1, <1>2
  <2>1. Covered(Prompts!Loaded)
    BY DEF NoticeInv
  <2>2. Prompts!Loaded[command[p].name] <= manifest[command[p].name]
    <3>1. CASE sigs = {}
      BY <1>3, <3>1 DEF Prompts!Loaded, Prompts!NoSigs, Prompts!Absent
    <3>2. CASE sigs # {}
      <4>1. Prompts!Loaded \in sigs
        BY <3>2 DEF Prompts!Loaded
      <4> QED BY <1>3, <4>1 DEF NoticeInv
    <3> QED BY <3>1, <3>2
  <2>3. Prompts!Loaded' = Prompts!Loaded
    BY <1>1 DEF Prompts!Loaded
  <2> QED BY <1>1, <2>1, <2>2, <2>3 DEF Covered
<1>8. \A q \in Process : command'[q].step = "read" =>
        command'[q].listed <= manifest'[command'[q].name]
  BY <1>1, <1>4 DEF NoticeInv
<1> QED BY <1>1, <1>2, <1>6, <1>7, <1>8 DEF NoticeInv, Prompts!NoticedOnce

\* A command that reads the signatures, and notices a new version.
LEMMA NoticeRead ==
  ASSUME PromptType, NoticeInv, NEW p \in Process, Prompts!Read(p), command' \in [Process -> Cmd]
  PROVE  NoticeInv'
<1> DEFINE old == Prompts!Loaded
           k == command[p].name
           v == command[p].listed
           new == [old EXCEPT ![k] = v]
<1>1. old \in [Prompt -> Nat] /\ k \in Prompt /\ v \in Nat
  BY LoadedType DEF PromptType, Cmd
<1>2. /\ command[p].step = "read" /\ UNCHANGED <<content, manifest, sigs>>
      /\ noticed' = IF Prompts!Changed(old, k,
           v) THEN noticed \cup {<<k, v, Prompts!Cardinality(noticed)>>} ELSE noticed
      /\ overlap' = (overlap \/ Prompts!Meets(p))
  BY DEF Prompts!Read, Prompts!At, Prompts!server
<1>3. /\ \A q \in Process \ {p} : command'[q] = command[q]
      /\ v = Prompts!Absent => command'[p].step = "print"
      /\ v # Prompts!Absent => command'[p].step = "truncate" /\ command'[p].seen = new
  BY DEF Prompts!Read, PromptType, Cmd
<1>4. \A j \in Prompt : old[j] <= manifest[j] /\ manifest[j] \in Nat
  <2>1. CASE sigs = {}
    BY <2>1 DEF Prompts!Loaded, Prompts!NoSigs, Prompts!Absent, PromptType
  <2>2. CASE sigs # {}
    <3>1. Prompts!Loaded \in sigs
      BY <2>2 DEF Prompts!Loaded
    <3> QED BY <3>1 DEF NoticeInv, PromptType
  <2> QED BY <2>1, <2>2
<1>5. v <= manifest[k]
  BY <1>2 DEF NoticeInv
<1>6. new \in [Prompt -> Nat] /\ new[k] = v /\ \A j \in Prompt \ {k} : new[j] = old[j]
  BY <1>1
<1>7. \A j \in Prompt : new[j] <= manifest[j]
  BY <1>4, <1>5, <1>6
<1> HIDE DEF old, k, v, new
<1>8. \A n \in noticed' : n \in noticed \/ (Prompts!Changed(old, k, v) /\ n[1] = k /\ n[2] = v)
  BY <1>2
<1>9. Prompts!Changed(old, k, v) => v # Prompts!Absent
  BY DEF Prompts!Changed
<1>10. ASSUME ~overlap'
       PROVE  /\ Prompts!NoticedOnce' /\ \A q, r \in Process : Writer(q)' /\ Writer(r)' => q = r
              /\ \A q \in Process : Writer(q)' => Covered(command[q].seen)'
              /\ (\A q \in Process : ~Writer(q)') => Covered(Prompts!Loaded)'
  <2>1. ~overlap /\ \A q \in Process \ {p} : command'[q].step \notin {"read", "truncate", "write"}
    BY <1>2, <1>3, <1>10 DEF Prompts!Meets, NoticeInv
  <2>2. \A q \in Process : ~Writer(q)
    BY <1>2, <1>3, <2>1 DEF Writer
  <2>3. Covered(old)
    BY <2>1, <2>2 DEF NoticeInv, old
  <2>4. v # Prompts!Absent => old[k] <= v
    BY <1>2, <2>3 DEF Covered, k, v
  <2>5. \A n \in noticed : n[1] \in Prompt /\ n[2] \in Nat /\ n[2] <= old[n[1]]
    BY <2>3 DEF NoticeInv, Covered
  <2>6. Prompts!Changed(old, k, v) => \A n \in noticed : n[1] = k => n[2] < v
    <3>1. Prompts!Changed(old, k, v) => old[k] # v /\ v # Prompts!Absent
      BY DEF Prompts!Changed
    <3> QED BY <1>1, <2>4, <2>5, <3>1 DEF old, k, v
  <2>7. Prompts!NoticedOnce'
    <3>1. \A a, b \in noticed : a[1] = b[1] /\ a[2] = b[2] => a = b
      BY <2>1 DEF NoticeInv, Prompts!NoticedOnce
    <3> SUFFICES ASSUME NEW a \in noticed', NEW b \in noticed', a[1] = b[1], a[2] = b[2]
                          PROVE a = b
      BY DEF Prompts!NoticedOnce
    <3>2. CASE a \in noticed /\ b \in noticed
      BY <3>1, <3>2
    <3>3. CASE a \notin noticed /\ b \notin noticed
      BY <1>2, <3>3
    <3>4. ASSUME NEW c \in noticed, NEW d \in noticed' \ noticed, c[1] = d[1], c[2] = d[2]
                   PROVE FALSE
      <4>1. Prompts!Changed(old, k, v) /\ d[1] = k /\ d[2] = v
        BY <1>8, <3>4
      <4>2. c[2] < v /\ c[2] \in Nat /\ v \in Nat
        BY <1>1, <2>5, <2>6, <3>4, <4>1 DEF v
      <4> QED BY <3>4, <4>1, <4>2
    <3> QED BY <3>2, <3>3, <3>4
  <2>8. ASSUME v = Prompts!Absent
        PROVE  /\ \A q \in Process : ~Writer(q)'
               /\ Covered(Prompts!Loaded)'
    <3>1. noticed' = noticed
            /\ \A q \in Process : command'[q].step \notin {"read", "truncate", "write"}
      BY <1>2, <1>3, <1>9, <2>1, <2>8
    <3>2. Prompts!Loaded' = old
      BY <1>2 DEF Prompts!Loaded, old
    <3> QED BY <2>5, <3>1, <3>2 DEF Covered, Writer
  <2>9. ASSUME v # Prompts!Absent
        PROVE  /\ Writer(p)' /\ \A q \in Process \ {p} : ~Writer(q)'
               /\ Covered(command[p].seen)'
    <3>1. \A n \in noticed' : n[2] <= new[n[1]]
      <4>1. \A n \in noticed : n[2] <= new[n[1]]
        <5>1. \A j \in Prompt : old[j] <= new[j] /\ old[j] \in Nat /\ new[j] \in Nat
          BY <1>1, <1>6, <2>4, <2>9 DEF old, k, v
        <5> QED BY <2>5, <5>1
      <4>2. v <= new[k]
        BY <1>1, <1>6 DEF v, k
      <4> QED BY <1>8, <4>1, <4>2
    <3>2. \A q \in Process : command'[q].step # "read"
      BY <1>3, <2>1, <2>9
    <3> QED BY <1>3, <2>1, <2>9, <3>1, <3>2 DEF Covered, Writer
  <2> QED BY <2>7, <2>8, <2>9
<1>11. \A n \in noticed' : n[1] \in Prompt /\ n[2] \in Nat
  BY <1>1, <1>8 DEF NoticeInv, k, v
<1>12. /\ \A j \in Prompt, q \in Process : Writer(q)' => command'[q].seen[j] <= manifest'[j]
       /\ \A q \in Process : command'[q].step = "read" =>
            command'[q].listed <= manifest'[command'[q].name]
  BY <1>2, <1>3, <1>7 DEF NoticeInv, Writer, k, v
<1>13. overlap' \in BOOLEAN
  BY <1>2 DEF Prompts!Meets
<1> QED BY <1>2, <1>10, <1>11, <1>12, <1>13 DEF NoticeInv

\* A command that writes the signatures it has.
LEMMA NoticeWrites ==
  ASSUME PromptType, NoticeInv, NEW p \in Process, Prompts!Truncate(p) \/ Prompts!Write(p),
           command' \in [Process -> Cmd]
  PROVE  NoticeInv'
<1>1. /\ Writer(p) /\ UNCHANGED <<content, manifest, noticed, overlap>>
      /\ \A q \in Process \ {p} : command'[q] = command[q]
      /\ command'[p].seen = command[p].seen
      /\ \/ command'[p].step = "write" /\ sigs' = {}
         \/ command'[p].step = "print" /\ sigs' = {command[p].seen}
  BY DEF Prompts!Truncate, Prompts!Write, Prompts!Goto, Prompts!At, Writer, Prompts!server,
       Prompts!history, PromptType, Cmd
<1>2. \A q \in Process : Writer(q)' => Writer(q) /\ command'[q].seen = command[q].seen
  BY <1>1 DEF Writer
<1>3. \A q \in Process : command'[q].step = "read" => command[q].step = "read"
        /\ command'[q] = command[q]
  BY <1>1 DEF Writer
<1>4. \A s : Covered(s) => Covered(s)'
  BY <1>1, <1>3 DEF Covered
<1>5. ASSUME ~overlap', \A q \in Process : ~Writer(q)' PROVE Covered(Prompts!Loaded)'
  <2>1. sigs' = {command[p].seen}
    BY <1>1, <1>5 DEF Writer
  <2>2. Prompts!Loaded' = command[p].seen
    BY <2>1 DEF Prompts!Loaded
  <2>3. Covered(command[p].seen)
    BY <1>1, <1>5 DEF NoticeInv
  <2> QED BY <1>1, <1>3, <2>2, <2>3 DEF Covered
<1>6. \A j \in Prompt : \A s \in sigs' : s[j] <= manifest'[j]
  BY <1>1 DEF NoticeInv
<1>7. ~overlap' => \A q \in Process : Writer(q)' => Covered(command[q].seen)'
  <2>1. ~overlap => \A q \in Process : Writer(q) => Covered(command[q].seen)
    BY DEF NoticeInv
  <2> QED BY <1>1, <1>2, <1>3, <2>1 DEF Covered
<1> QED BY <1>1, <1>2, <1>3, <1>5, <1>6, <1>7 DEF NoticeInv, Prompts!NoticedOnce

LEMMA NoticeStep ==
  ASSUME PromptInv, PromptInv', NoticeInv, [Prompts!Next]_promptVars
  PROVE  NoticeInv'
<1>1. CASE UNCHANGED promptVars
  BY <1>1 DEF promptVars, NoticeInv, Writer, Covered, Prompts!NoticedOnce, Prompts!Loaded
<1>2. command' \in [Process -> Cmd]
  BY DEF PromptInv, PromptType
<1>3. Prompts!Off.step = "off"
  BY OffIsCmd
<1>4. ASSUME NEW p \in Process, Prompts!Ends(p) PROVE /\ command'[p].step = "off"
                                              /\ \A q \in Process \ {p} : command'[q] = command[q]
  BY <1>3, <1>4 DEF Prompts!Ends, PromptInv, PromptType
<1>5. ASSUME NEW p \in Process, UNCHANGED <<content, manifest, sigs, noticed>>,
             \A q \in Process \ {p} : command'[q] = command[q],
             command'[p].step \notin {"read", "truncate", "write"}, UNCHANGED overlap, ~Writer(p)
      PROVE  NoticeInv'
  <2>1. overlap' \in BOOLEAN /\ (overlap => overlap')
    BY <1>5 DEF NoticeInv
  <2> QED BY <1>2, <1>5, <2>1, NoticeRest DEF PromptInv
<1>6. ASSUME NEW p \in Process, Prompts!Shows(p) \/ Prompts!ClearAll(p) \/ Prompts!Decrypt(p)
               PROVE NoticeInv'
  <2>1. /\ command[p].step = "off" /\ UNCHANGED <<content, manifest, sigs, noticed, overlap>>
        /\ \A q \in Process \ {p} : command'[q] = command[q]
    BY <1>6 DEF Prompts!Shows, Prompts!ClearAll, Prompts!Decrypt, Prompts!RunCli, Prompts!At,
         Prompts!Goto, Prompts!server, Prompts!history, PromptInv, PromptType
  <2>2. command'[p].step \in {"off", "setup", "fetch", "custom"}
    <3>1. CASE UNCHANGED command
      BY <2>1, <3>1
    <3>2. CASE Prompts!Goto(p, "setup")
      BY <3>2 DEF Prompts!Goto, PromptInv, PromptType, Cmd
    <3>3. CASE Prompts!Decrypt(p)
      <4>1. PICK k \in Prompt, step \in {"fetch", "custom"} :
              command' = [command EXCEPT ![p] = [Prompts!Off EXCEPT !.step = step, !.name = k,
                !.cred = credentials]]
        BY <3>3 DEF Prompts!Decrypt
      <4>2. [Prompts!Off EXCEPT !.step = step, !.name = k, !.cred = credentials].step = step
        BY OffIsCmd DEF Cmd
      <4> QED BY <4>1, <4>2 DEF PromptInv, PromptType
    <3> QED BY <1>6, <3>1, <3>2, <3>3 DEF Prompts!Shows, Prompts!ClearAll
  <2> QED BY <1>5, <2>1, <2>2 DEF Writer
<1>7. ASSUME NEW p \in Process, Prompts!Setup(p) \/ Prompts!Fetch(p) \/ Prompts!FetchCustom(p)
               \/ Prompts!Show(p) PROVE NoticeInv'
  <2>1. /\ command[p].step \notin {"truncate", "write"}
        /\ UNCHANGED <<content, manifest, sigs, noticed, overlap>>
    BY <1>7 DEF Prompts!Setup, Prompts!Fetch, Prompts!FetchCustom, Prompts!Show, Prompts!At,
         Prompts!server, Prompts!history
  <2>2. CASE Prompts!Ends(p)
    BY <1>4, <1>5, <2>1, <2>2 DEF Writer
  <2>3. ASSUME NEW step \in {"verify", "print"}, Prompts!Answered(p, step) PROVE NoticeInv'
    <3>1. command'[p].step = step /\ \A q \in Process \ {p} : command'[q] = command[q]
      BY <2>3 DEF Prompts!Answered, PromptInv, PromptType, Cmd
    <3> QED BY <1>5, <2>1, <3>1 DEF Writer
  <2> QED BY <1>7, <2>2, <2>3 DEF Prompts!Setup, Prompts!Fetch, Prompts!FetchCustom,
       Prompts!Show, Prompts!Refused
<1>8. ASSUME NEW p \in Process, Prompts!Verify(p) \/ Prompts!Timeout(p) PROVE NoticeInv'
  <2>1. Prompts!At(p, "verify")
    BY <1>8 DEF Prompts!Verify, Prompts!Timeout
  <2>2. CASE Prompts!Ends(p)
               /\ UNCHANGED <<Prompts!server, credentials, cached, sigs, Prompts!history, runs>>
    BY <1>4, <1>5, <2>1, <2>2 DEF Writer, Prompts!At, Prompts!server, Prompts!history
  <2>3. CASE \E v \in {Prompts!Absent, manifest[command[p].name]} : Prompts!Holds(p, v)
    BY <1>2, <2>1, <2>3, NoticeHolds DEF PromptInv
  <2> QED BY <1>8, <2>2, <2>3 DEF Prompts!Verify, Prompts!Timeout
<1>9. ASSUME NEW p \in Process, Prompts!Kill(p) PROVE NoticeInv'
  <2>1. overlap' = TRUE /\ UNCHANGED <<content, manifest, sigs, noticed>> /\ Prompts!Ends(p)
    BY <1>9 DEF Prompts!Kill, Prompts!server
  <2>2. command'[p].step = "off" /\ \A q \in Process \ {p} : command'[q] = command[q]
    BY <1>4, <2>1
  <2>3. overlap' \in BOOLEAN /\ (overlap => overlap') /\ (Writer(p) => overlap')
    BY <2>1
  <2> QED BY <1>2, <2>1, <2>2, <2>3, NoticeRest DEF PromptInv
<1>10. ASSUME NEW p \in Process, Prompts!Read(p) \/ Prompts!Truncate(p) \/ Prompts!Write(p)
                PROVE NoticeInv'
  BY <1>2, <1>10, NoticeRead, NoticeWrites DEF PromptInv
<1>11. CASE Prompts!Server
  BY <1>11, NoticeServer DEF PromptInv
<1> QED BY <1>1, <1>6, <1>7, <1>8, <1>9, <1>10, <1>11 DEF Prompts!Next, Prompts!Step

\* decrypt.ts: what is printed is what the signed manifest lists, unless no manifest came
\* in time or it does not list the prompt, whatever the server does between two steps and
\* however many commands run; and a new version is noticed once, while no command is
\* killed or meets another between the manifest and update-state.json.
THEOREM ListedIsPrinted == SystemSpec => []PrintedIsListed
<1>1. SystemInit => PromptInv /\ NoticeInv
  BY PartSteps, PromptInit, NoticeInit
<1>2. PromptInv /\ NoticeInv /\ [SystemNext]_allVars => PromptInv' /\ NoticeInv'
  BY PartSteps, PromptStepInv, NoticeStep
<1>3. PromptInv /\ NoticeInv => PrintedIsListed
  BY DEF PromptInv, NoticeInv, Prompts!NoticedOnce, PrintedIsListed, Prompts!PrintedIsListed
<1> QED BY <1>1, <1>2, <1>3, PTL DEF SystemSpec

-----------------------------------------------------------------------------
(* The engine: the configuration, and the chain of steps.                  *)

\* While fetches do not overlap there is one configuration, cached once there is an answer,
\* and no fetch goes on that others do not know of.
ConfigInv ==
  /\ \A u, v \in cache : u = v
  /\ ~met =>
       /\ cache = {} => answers = {}
       /\ answers \subseteq cache
       /\ pending # {} => cache = {}
       /\ \A c, d \in pending : c = d

\* A chain runs up to the step that is next.
RunInv ==
  /\ pos \in Nat \ {0} /\ chain \in Seq(Engine!Step)
  /\ executor \in Engine!Executor =>
       /\ ran \in Seq(Nat) /\ pos <= Len(chain) + 1
       /\ \A i \in DOMAIN ran : ran[i] \in 1..(pos - 1) /\ Engine!Due(chain[ran[i]])
       /\ \A k \in 1..(pos - 1) : Engine!Due(chain[k]) => \E i \in DOMAIN ran : ran[i] = k
       /\ \A i, j \in DOMAIN ran : i < j => ran[i] < ran[j]
       /\ \A k \in failed : \E i \in DOMAIN ran : ran[i] = k
       /\ executor = "executeChain" /\ failed # {} =>
            Len(ran) > 0 /\ failed = {ran[Len(ran)]} /\ status = "error"
       /\ executor # "executeChain" => warned = failed
       /\ status \in {"completed", "checkpoint"} => pos = Len(chain) + 1

EngineInv == ConfigInv /\ RunInv

LEMMA EngineInit == Engine!Init => EngineInv
<1> SUFFICES ASSUME Engine!Init PROVE EngineInv OBVIOUS
<1>1. chain \in Seq(Engine!Step)
  <2>1. CASE chain = <<>>
    BY <2>1
  <2>2. CASE chain \in Engine!Chain
    <3>1. PICK n \in 0..MaxSteps : chain \in [1..n -> Engine!Step]
      BY <2>2 DEF Engine!Chain
    <3> QED BY <3>1
  <2> QED BY <2>1, <2>2 DEF Engine!Init
<1>2. ConfigInv
  BY DEF Engine!Init, ConfigInv
<1>3. pos = 1 /\ ran = <<>> /\ failed = {} /\ warned = {} /\ status = "running"
  BY DEF Engine!Init
<1>4. Len(chain) \in Nat
  BY <1>1
<1> QED BY <1>1, <1>2, <1>3, <1>4 DEF EngineInv, RunInv

LEMMA ConfigStep == ASSUME ConfigInv, [Engine!Next]_engineVars PROVE ConfigInv'
<1>1. CASE UNCHANGED Engine!config
  BY <1>1 DEF Engine!config, ConfigInv
<1>2. ASSUME NEW c, NEW key, Engine!GetCachedOrFetch(c, key) PROVE ConfigInv'
  <2>1. CASE cache # {}
    BY <1>2, <2>1 DEF Engine!GetCachedOrFetch, Engine!Answer, ConfigInv
  <2>2. CASE cache = {} /\ ~key
    BY <1>2, <2>2 DEF Engine!GetCachedOrFetch, Engine!Answer, ConfigInv
  <2>3. CASE cache = {} /\ key
    BY <1>2, <2>3 DEF Engine!GetCachedOrFetch, ConfigInv
  <2> QED BY <2>1, <2>2, <2>3
<1>3. ASSUME NEW c, NEW fails, Engine!Fetched(c, fails) PROVE ConfigInv'
  <2> DEFINE v == IF fails THEN Engine!Default ELSE server
  <2>1. /\ c \in pending /\ pending' = pending \ {c} /\ cache' = {v}
        /\ answers' = answers \cup {v} /\ UNCHANGED met
    BY <1>3 DEF Engine!Fetched, Engine!Answer
  <2> HIDE DEF v
  <2> QED BY <2>1 DEF ConfigInv
<1>4. CASE Engine!ClearWorkflowConfigCache
  BY <1>4 DEF Engine!ClearWorkflowConfigCache, ConfigInv
<1>5. CASE Engine!Publish
  BY <1>5 DEF Engine!Publish, ConfigInv
<1>6. UNCHANGED engineVars => UNCHANGED Engine!config
  BY DEF engineVars, Engine!config
<1> QED BY <1>1, <1>2, <1>3, <1>4, <1>5, <1>6 DEF Engine!Next

LEMMA RunStep == ASSUME RunInv, [Engine!Next]_engineVars PROVE RunInv'
<1>1. CASE UNCHANGED <<Engine!input, Engine!execution>>
  BY <1>1 DEF Engine!input, Engine!execution, RunInv, Engine!Due, Engine!ShouldExecute,
       Engine!ShouldExecuteStep, Engine!EvaluateCondition
<1>2. CASE executor \notin Engine!Executor /\ UNCHANGED Engine!input /\ UNCHANGED pos
  BY <1>2 DEF Engine!input, RunInv
<1>3. CASE executor \in Engine!Executor /\ status = "running" /\ UNCHANGED Engine!input
           /\ (Engine!Skip \/ (\E fails \in BOOLEAN : Engine!Run(fails))
                \/ (\E checkpoint \in BOOLEAN : Engine!End(checkpoint)))
  <2>1. /\ UNCHANGED <<executor, chain, context>> /\ Len(chain) \in Nat
        /\ \A s : Engine!Due(s)' <=> Engine!Due(s)
    BY <1>3 DEF Engine!input, Engine!Due, Engine!ShouldExecute, Engine!ShouldExecuteStep,
         Engine!EvaluateCondition, RunInv
  <2>2. CASE Engine!Skip
    BY <1>3, <2>1, <2>2 DEF Engine!Skip, RunInv
  <2>3. ASSUME NEW fails \in BOOLEAN, Engine!Run(fails) PROVE RunInv'
    <3>1. /\ pos <= Len(chain) /\ Engine!Due(chain[pos]) /\ ran' = Append(ran, pos)
               /\ pos' = pos + 1
          /\ failed' = IF fails THEN failed \cup {pos} ELSE failed
      BY <2>3 DEF Engine!Run
    <3>2. /\ executor = "executeChain" => status' = (IF fails THEN "error" ELSE status)
          /\ executor # "executeChain" =>
               /\ warned' = IF fails THEN warned \cup {pos} ELSE warned
               /\ status' = status
      BY <2>3 DEF Engine!Run, Engine!Execute, Engine!ShouldStopWorkflow
    <3>3. /\ ran' \in Seq(Nat) /\ Len(ran') = Len(ran) + 1 /\ ran'[Len(ran')] = pos
          /\ \A i \in DOMAIN ran : ran'[i] = ran[i]
          /\ DOMAIN ran' = DOMAIN ran \cup {Len(ran) + 1} /\ DOMAIN ran = 1..Len(ran)
               /\ Len(ran) \in Nat
      BY <1>3, <3>1 DEF RunInv
    <3>4. pos \in Nat \ {0} /\ \A i \in DOMAIN ran : ran[i] \in 1..(pos - 1)
            /\ Engine!Due(chain[ran[i]])
      BY <1>3 DEF RunInv
    <3>5. \A i \in DOMAIN ran' : ran'[i] \in 1..(pos' - 1) /\ Engine!Due(chain[ran'[i]])
      BY <3>1, <3>3, <3>4
    <3>6. \A k \in 1..(pos' - 1) : Engine!Due(chain[k]) => \E i \in DOMAIN ran' : ran'[i] = k
      <4> SUFFICES ASSUME NEW k \in 1..(pos' - 1), Engine!Due(chain[k])
                            PROVE \E i \in DOMAIN ran' : ran'[i] = k
        OBVIOUS
      <4>1. CASE k = pos
        BY <3>3, <4>1
      <4>2. CASE k # pos
        <5>1. k \in 1..(pos - 1)
          BY <3>1, <3>4, <4>2
        <5>2. PICK i \in DOMAIN ran : ran[i] = k
          BY <1>3, <5>1 DEF RunInv
        <5> QED BY <3>3, <5>2
      <4> QED BY <4>1, <4>2
    <3>7. \A i, j \in DOMAIN ran' : i < j => ran'[i] < ran'[j]
      <4> SUFFICES ASSUME NEW i \in DOMAIN ran', NEW j \in DOMAIN ran', i < j
                            PROVE ran'[i] < ran'[j]
        OBVIOUS
      <4>1. i \in DOMAIN ran
        BY <3>3
      <4>2. CASE j \in DOMAIN ran
        BY <1>3, <3>3, <4>1, <4>2 DEF RunInv
      <4>3. CASE j = Len(ran')
        BY <3>3, <3>4, <4>1, <4>3
      <4> QED BY <3>3, <4>2, <4>3
    <3>8. \A k \in failed' : \E i \in DOMAIN ran' : ran'[i] = k
      <4>1. \A k \in failed : \E i \in DOMAIN ran' : ran'[i] = k
        BY <1>3, <3>3 DEF RunInv
      <4> QED BY <3>1, <3>3, <4>1
    <3>9. executor = "executeChain" => failed = {}
      BY <1>3 DEF RunInv
    <3>10. executor # "executeChain" => warned = failed
      BY <1>3 DEF RunInv
    <3>11. status' \in {"running", "error"}
      BY <1>3, <3>2
    <3>12. pos' \in Nat \ {0} /\ pos' <= Len(chain) + 1
      BY <2>1, <3>1, <3>4
    <3>13. executor = "executeChain" /\ failed' # {} => Len(ran') > 0
             /\ failed' = {ran'[Len(ran')]} /\ status' = "error"
      BY <3>1, <3>2, <3>3, <3>9
    <3>14. executor # "executeChain" => warned' = failed'
      BY <3>1, <3>2, <3>10
    <3>15. chain \in Seq(Engine!Step)
      BY DEF RunInv
    <3> QED BY <2>1, <3>3, <3>5, <3>6, <3>7, <3>8, <3>11, <3>12, <3>13, <3>14, <3>15 DEF RunInv
  <2>4. ASSUME NEW checkpoint \in BOOLEAN, Engine!End(checkpoint) PROVE RunInv'
    <3>1. pos = Len(chain) + 1 /\ UNCHANGED <<pos, ran, failed, warned>>
      BY <1>3, <2>1, <2>4 DEF Engine!End, RunInv
    <3>2. executor = "executeChain" => failed = {}
      BY <1>3 DEF RunInv
    <3> QED BY <2>1, <3>1, <3>2 DEF RunInv
  <2> QED BY <1>3, <2>2, <2>3, <2>4
<1>4. UNCHANGED engineVars => UNCHANGED <<Engine!input, Engine!execution>>
  BY DEF engineVars, Engine!input, Engine!execution
<1>5. Engine!Next =>
        \/ UNCHANGED <<Engine!input, Engine!execution>>
        \/ /\ executor \in Engine!Executor /\ status = "running" /\ UNCHANGED Engine!input
           /\ (Engine!Skip \/ (\E fails \in BOOLEAN : Engine!Run(fails))
                \/ (\E checkpoint \in BOOLEAN : Engine!End(checkpoint)))
        \/ (executor \notin Engine!Executor /\ UNCHANGED Engine!input /\ UNCHANGED pos)
  <2> SUFFICES ASSUME Engine!Next
               PROVE  \/ UNCHANGED <<Engine!input, Engine!execution>>
                      \/ /\ executor \in Engine!Executor /\ status = "running"
                              /\ UNCHANGED Engine!input
                         /\ (Engine!Skip \/ (\E fails \in BOOLEAN : Engine!Run(fails))
                              \/ (\E checkpoint \in BOOLEAN : Engine!End(checkpoint)))
                      \/ (executor \notin Engine!Executor /\ UNCHANGED Engine!input
                           /\ UNCHANGED pos)
    OBVIOUS
  <2>1. CASE executor = "config"
    BY <2>1 DEF Engine!Next, Engine!Executor
  <2>2. CASE executor \in Engine!Executor
    <3>1. executor \notin {"config", "agents"}
      BY <2>2 DEF Engine!Executor
    <3>2. {FALSE, executor = "executeChain"} \subseteq BOOLEAN
      OBVIOUS
    <3> QED BY <2>2, <3>1, <3>2 DEF Engine!Next
  <2>3. CASE executor = "agents"
    <3>1. UNCHANGED Engine!input
            /\ (Engine!SpawnParallelAgents \/ \E i \in DOMAIN chain,
               fails \in BOOLEAN : Engine!SpawnAgent(i, fails))
      BY <2>3 DEF Engine!Next, Engine!Executor
    <3>2. UNCHANGED pos
      BY <3>1 DEF Engine!SpawnParallelAgents, Engine!SpawnAgent
    <3> QED BY <2>3, <3>1, <3>2 DEF Engine!Executor
  <2> QED BY <2>1, <2>2, <2>3 DEF Engine!Next
<1> QED BY <1>1, <1>2, <1>3, <1>4, <1>5

\* workflow-config.ts, engine/executor.ts and workflow-chain-executor.ts: while fetches do
\* not overlap all callers work from one configuration; and the steps of a chain, however
\* long it is, run in order, each that is due and none after a failure that was not warned
\* about.
THEOREM ChainRunsInOrder == SystemSpec => []ChainInOrder
<1>1. SystemInit => EngineInv
  BY PartSteps, EngineInit
<1>2. EngineInv /\ [SystemNext]_allVars => EngineInv'
  BY PartSteps, ConfigStep, RunStep DEF EngineInv
<1>3. ConfigInv => Engine!OneConfig
  <2> SUFFICES ASSUME ConfigInv, ~met PROVE Engine!Cardinality(answers) <= 1
                        /\ answers \subseteq cache
    BY DEF Engine!OneConfig
  <2>1. Engine!Cardinality(answers) = Cardinality(answers)
    BY DEF Engine!Cardinality, Cardinality
  <2>2. \A u, v \in answers : u = v
    BY DEF ConfigInv
  <2>3. CASE answers = {}
    BY <2>1, <2>3, FS_EmptySet DEF ConfigInv
  <2>4. CASE answers # {}
    <3>1. PICK v \in answers : answers = {v}
      BY <2>2, <2>4
    <3>2. Cardinality(answers) = 1
      BY <3>1, FS_Singleton
    <3> QED BY <2>1, <3>2 DEF ConfigInv
  <2> QED BY <2>3, <2>4
<1>4. RunInv => Engine!ChainInOrder
  <2> SUFFICES ASSUME RunInv, executor \in Engine!Executor PROVE Engine!ChainInOrder
    BY DEF Engine!ChainInOrder
  <2>1. Engine!ToSet(ran) = {ran[i] : i \in DOMAIN ran}
    BY DEF Engine!ToSet
  <2>2. Engine!Last(ran) = ran[Len(ran)]
    BY DEF Engine!Last
  <2>3. Engine!ToSet(ran) = {k \in 1..(pos - 1) : Engine!Due(chain[k])}
    <3>1. \A k \in {ran[i] : i \in DOMAIN ran} : k \in 1..(pos - 1) /\ Engine!Due(chain[k])
      BY DEF RunInv
    <3>2. \A k \in 1..(pos - 1) : Engine!Due(chain[k]) => k \in {ran[i] : i \in DOMAIN ran}
      BY DEF RunInv
    <3> HIDE DEF Engine!Due
    <3> QED BY <2>1, <3>1, <3>2
  <2>4. failed \subseteq Engine!ToSet(ran)
    BY <2>1 DEF RunInv
  <2> QED BY <2>2, <2>3, <2>4 DEF RunInv, Engine!ChainInOrder
<1>5. EngineInv => ChainInOrder
  BY <1>3, <1>4 DEF EngineInv, ChainInOrder
<1> QED BY <1>1, <1>2, <1>5, PTL DEF SystemSpec

-----------------------------------------------------------------------------
(* The chain of steps: calls and the scripts of the hooks.                 *)

Op == {"setActiveStep", "setTddPhase", "clearTddPhase", "completeStep", "setSupervisor",
       "setCurrentCommand", "setNextCommand", "setLastCommand", "setWorkflowComplete",
       "prepareForNewSession", "reset"}
Value == Chain!Argument \cup Chain!Key
Mark == {"pending", "active", "done", Chain!None}

State == [supervisor : Value, activeStep : Value, current : Value, next : Value, last : Value,
          tddPhase : Value, complete : BOOLEAN, chain : [Chain!Key -> Mark]]

\* One call, and what its argument may be.
Cl(o, a) == [op |-> o, arg |-> a]
CallType ==
  {c \in [op : Op, arg : Value] :
     /\ c.op = "setActiveStep" => c.arg \in Chain!Key
     /\ c.op = "completeStep" => c.arg \in Command
     /\ c.op = "setTddPhase" => c.arg \in Phase}

\* What the setters do to each field that the properties speak of.
SetsFields(s, c, r) ==
  /\ r \in State
  /\ r.last = IF c.op = "setLastCommand" THEN c.arg
                          ELSE IF c.op = "reset" THEN Chain!None ELSE s.last
  /\ r.next = IF c.op = "setNextCommand" THEN c.arg
                          ELSE IF c.op = "reset" THEN Chain!None
                          ELSE IF c.op = "completeStep" /\ c.arg \in Chain!MainCommand
                               THEN Chain!CommandAfter(c.arg) ELSE s.next
  /\ c.op = "setWorkflowComplete" => (r.complete <=> c.arg = "true")
  /\ c.op \in {"setActiveStep", "reset"} => ~r.complete
  /\ c.op \notin {"setWorkflowComplete", "setActiveStep", "reset"} => r.complete = s.complete
  /\ r.tddPhase = IF c.op = "setTddPhase" THEN c.arg
                              ELSE IF c.op \in {"clearTddPhase", "prepareForNewSession", "reset"}
                                   THEN Chain!None ELSE s.tddPhase
  /\ r.current = IF c.op = "setCurrentCommand" THEN c.arg
                             ELSE IF c.op \in {"prepareForNewSession", "reset"}
                                  THEN Chain!None ELSE s.current
  /\ r.activeStep = IF c.op = "setActiveStep" THEN c.arg
                                ELSE IF c.op \in {"completeStep", "prepareForNewSession", "reset"}
                                     THEN Chain!None ELSE s.activeStep
  /\ r.chain = IF c.op = "setActiveStep" THEN Chain!SetActiveStep(s, c.arg).chain
                           ELSE IF c.op = "setTddPhase" THEN Chain!SetTddPhase(s, c.arg).chain
                           ELSE IF c.op = "completeStep" THEN [s.chain EXCEPT ![c.arg] = "done"]
                           ELSE IF c.op = "reset" THEN Chain!DefaultState.chain ELSE s.chain

LEMMA AppliedSets == ASSUME NEW s \in State, NEW c \in CallType
  PROVE SetsFields(s, c, Chain!Applied(s, c))
<1>1. c.op \in Op /\ c.arg \in Value /\ Chain!None \in Value
  <2>1. c \in [op : Op, arg : Value] BY DEF CallType
  <2>2. Chain!None \in Value BY DEF Value, Chain!Argument
  <2> QED BY <2>1, <2>2
<1>2. CASE c.op = "setActiveStep"
  <2> DEFINE r == Chain!SetActiveStep(s, c.arg)
  <2>1. Chain!Applied(s, c) = r BY <1>2 DEF Chain!Applied
  <2> DEFINE ch == CASE c.arg = "build" -> Chain!Marked(s.chain, {"ideate", "plan"}, "acceptance",
                                       (Chain!BuildPhase \ {"acceptance"}) \cup {"ship"})
                     [] c.arg # "build" /\ c.arg \in Chain!ChainStep ->
                          Chain!Marked(s.chain, Chain!Before(Chain!ChainOrder, c.arg), c.arg,
                            Chain!After(Chain!ChainOrder, c.arg))
                     [] OTHER -> Chain!Marked(s.chain, {}, c.arg, Chain!ChainStep)
  <2>2. r = [s EXCEPT !.complete = FALSE, !.activeStep = c.arg, !.chain = ch]
    BY DEF Chain!SetActiveStep
  <2>3. \A d, a, p : Chain!Marked(s.chain, d, a, p) \in [Chain!Key -> Mark]
    BY DEF Chain!Marked, State, Mark
  <2>4. ch \in [Chain!Key -> Mark] BY <2>3
  <2> HIDE DEF ch, r
  <2>5. /\ r \in State /\ r.complete = FALSE /\ r.activeStep = c.arg
        /\ r.last = s.last /\ r.next = s.next /\ r.tddPhase = s.tddPhase /\ r.current = s.current
    BY <1>1, <2>2, <2>4 DEF State
  <2> QED BY <1>2, <2>1, <2>5 DEF r, SetsFields
<1>3. CASE c.op = "setTddPhase"
  <2> DEFINE r == Chain!SetTddPhase(s, c.arg)
             ch == Chain!Marked(s.chain,
               {"ideate", "plan"} \cup Chain!Before(Chain!BuildPhases, c.arg), c.arg,
               Chain!After(Chain!BuildPhases, c.arg))
  <2>1. Chain!Applied(s, c) = r BY <1>3 DEF Chain!Applied
  <2>2. r = [s EXCEPT !.chain = ch, !.tddPhase = c.arg]
    BY DEF Chain!SetTddPhase
  <2>4. ch \in [Chain!Key -> Mark] BY DEF Chain!Marked, State, Mark
  <2> HIDE DEF ch, r
  <2>5. /\ r \in State /\ r.complete = s.complete /\ r.activeStep = s.activeStep
        /\ r.last = s.last /\ r.next = s.next /\ r.tddPhase = c.arg /\ r.current = s.current
    BY <1>1, <2>2, <2>4 DEF State
  <2> QED BY <1>3, <2>1, <2>5 DEF r, SetsFields
<1>4. CASE c.op = "completeStep"
  <2> DEFINE r == Chain!CompleteStep(s, c.arg)
             ch == [s.chain EXCEPT ![c.arg] = "done"]
             nx == IF c.arg \in Chain!MainCommand THEN Chain!CommandAfter(c.arg) ELSE s.next
  <2>1. Chain!Applied(s, c) = r BY <1>4 DEF Chain!Applied
  <2>2. r = [s EXCEPT !.chain = ch, !.activeStep = Chain!None, !.next = nx]
    BY DEF Chain!CompleteStep, State
  <2>3. ch \in [Chain!Key -> Mark] BY DEF State, Mark
  <2>4. nx \in Value BY DEF State, Value, Chain!Argument, Chain!MainCommand, Chain!CommandAfter,
          Chain!None
  <2> HIDE DEF ch, nx, r
  <2>5. /\ r \in State /\ r.complete = s.complete /\ r.activeStep = Chain!None /\ r.chain = ch
        /\ r.last = s.last /\ r.next = nx /\ r.tddPhase = s.tddPhase /\ r.current = s.current
    BY <1>1, <2>2, <2>3, <2>4 DEF State
  <2> QED BY <1>4, <2>1, <2>5 DEF ch, nx, SetsFields
<1>5. CASE c.op = "prepareForNewSession"
  <2>1. Chain!Applied(s, c) = Chain!PrepareForNewSession(s) BY <1>5 DEF Chain!Applied
  <2>2. "watching" \in Value BY DEF Value, Chain!Argument
  <2> QED BY <1>1, <1>5, <2>1, <2>2 DEF Chain!PrepareForNewSession, State, SetsFields
<1>6. CASE c.op = "reset"
  <2>1. Chain!Applied(s, c) = Chain!DefaultState BY <1>6 DEF Chain!Applied
  <2>2. Chain!DefaultState \in State BY <1>1 DEF Chain!DefaultState, State, Mark, Value,
          Chain!Argument
  <2>3. /\ Chain!DefaultState.last = Chain!None /\ Chain!DefaultState.next = Chain!None
             /\ Chain!DefaultState.complete = FALSE
        /\ Chain!DefaultState.tddPhase = Chain!None /\ Chain!DefaultState.current = Chain!None
             /\ Chain!DefaultState.activeStep = Chain!None
    BY DEF Chain!DefaultState
  <2> QED BY <1>6, <2>1, <2>2, <2>3 DEF SetsFields
<1>7. CASE c.op \in {"clearTddPhase", "setSupervisor", "setCurrentCommand"}
  BY <1>1, <1>7 DEF Chain!Applied, State, SetsFields
<1>8. CASE c.op \in {"setNextCommand", "setLastCommand", "setWorkflowComplete"}
  BY <1>1, <1>8 DEF Chain!Applied, State, SetsFields
<1>9. \/ c.op = "setActiveStep" \/ c.op = "setTddPhase" \/ c.op = "completeStep"
      \/ c.op = "prepareForNewSession" \/ c.op = "reset"
      \/ c.op \in {"clearTddPhase", "setSupervisor", "setCurrentCommand"}
      \/ c.op \in {"setNextCommand", "setLastCommand", "setWorkflowComplete"}
  BY <1>1 DEF Op
<1> QED BY <1>2, <1>3, <1>4, <1>5, <1>6, <1>7, <1>8, <1>9

\* A hook's calls: the calls that mark a step come first, a recommendation follows
\* what is called last, once, the flag is raised at the end, and a phase is logged alone.
Ordered(q) ==
  /\ \A i \in DOMAIN q : q[i].op \in {"setActiveStep", "completeStep", "setTddPhase"} => i = 1
  /\ \A i, j \in DOMAIN q :
       q[i].op \in {"setNextCommand", "setLastCommand"} /\ q[j].op = "setLastCommand" => j <= i
  /\ \A i \in DOMAIN q : q[i] = Cl("setWorkflowComplete", "true") => i = Len(q)
  /\ \A i \in DOMAIN q : q[i].op = "setTddPhase" => Len(q) = 1

Elements(q) == {q[i] : i \in DOMAIN q}

\* The calls of each event.
PromptSet(c) ==
  (IF Chain!StepOf(c) # Chain!None THEN {Cl("setActiveStep", Chain!StepOf(c))} ELSE {})
  \cup {Cl("setCurrentCommand", c), Cl("setSupervisor", "watching")}
NextSet(c) == IF c \in Chain!MainCommand THEN {Cl("setNextCommand",
  Chain!CommandAfter(c))} ELSE {}
StartSet(c) ==
  {Cl("setActiveStep", c), Cl("setCurrentCommand", c), Cl("setSupervisor", "watching"),
   Cl("clearTddPhase", Chain!None), Cl("setLastCommand", Chain!None),
     Cl("setWorkflowComplete", "false")}
  \cup NextSet(c)
CompleteSet(c) ==
  {Cl("completeStep", c), Cl("setCurrentCommand", Chain!None), Cl("clearTddPhase", Chain!None),
   Cl("setLastCommand", c)}
  \cup NextSet(c) \cup (IF c = "ship" THEN {Cl("setWorkflowComplete", "true")} ELSE {})

LEMMA CommandIs ==
  ASSUME NEW c \in Command
  PROVE  /\ c \in Chain!Key /\ c \in Value /\ c # Chain!None
         /\ Chain!StepOf(c) # Chain!None => Chain!StepOf(c) \in Chain!Key
         /\ Chain!CommandAfter(c) \in Value
<1>1. c \in Chain!Key /\ c \in Value /\ c # Chain!None
  BY HookAssumption DEF Chain!Key, Value
<1>2. "apiDesign" \in Chain!ChainStep /\ "dataModel" \in Chain!ChainStep
  <2>1. Chain!ChainOrder[3] = "apiDesign" /\ Chain!ChainOrder[4] = "dataModel"
          /\ 3 \in DOMAIN Chain!ChainOrder /\ 4 \in DOMAIN Chain!ChainOrder
    BY DEF Chain!ChainOrder
  <2> QED BY <2>1 DEF Chain!ChainStep
<1>3. Chain!StepOf(c) # Chain!None => Chain!StepOf(c) \in Chain!Key
  BY <1>1, <1>2 DEF Chain!StepOf, Chain!Key
<1>4. Chain!CommandAfter(c) \in Value
  BY DEF Chain!CommandAfter, Value, Chain!Argument, Chain!MainCommand
<1> QED BY <1>1, <1>3, <1>4

\* A call more at the end of a script.
LEMMA OneMore ==
  ASSUME NEW q \in Seq(CallType), NEW o, NEW a, Cl(o, a) \in CallType
  PROVE  LET r == q \o Chain!C(o, a)
         IN /\ r \in Seq(CallType) /\ Len(r) = Len(q) + 1
            /\ r[Len(q) + 1] = Cl(o, a)
            /\ \A i \in 1..Len(q) : r[i] = q[i]
<1>1. Chain!C(o, a) = <<Cl(o, a)>> BY DEF Chain!C, Cl
<1> QED BY <1>1

LEMMA OneCall ==
  ASSUME NEW o, NEW a, Cl(o, a) \in CallType
  PROVE  /\ Chain!C(o, a) \in Seq(CallType) /\ Len(Chain!C(o, a)) = 1
              /\ Chain!C(o, a)[1] = Cl(o, a)
         /\ <<>> \o Chain!C(o, a) = Chain!C(o, a)
<1>1. Chain!C(o, a) = <<Cl(o, a)>> BY DEF Chain!C, Cl
<1> QED BY <1>1

\* The calls there are.
LEMMA CallsFit ==
  /\ \A k \in Chain!Key : Cl("setActiveStep", k) \in CallType
  /\ \A c \in Command : Cl("completeStep", c) \in CallType
       /\ Cl("setCurrentCommand", c) \in CallType
                        /\ Cl("setLastCommand", c) \in CallType
                             /\ Cl("setNextCommand", Chain!CommandAfter(c)) \in CallType
  /\ \A p \in Phase : Cl("setTddPhase", p) \in CallType
  /\ Cl("setCurrentCommand", Chain!None) \in CallType
       /\ Cl("clearTddPhase", Chain!None) \in CallType
  /\ Cl("setLastCommand", Chain!None) \in CallType
       /\ Cl("prepareForNewSession", Chain!None) \in CallType
  /\ Cl("reset", Chain!None) \in CallType
  /\ \A v \in {"watching", "intervening", "idle"} : Cl("setSupervisor", v) \in CallType
  /\ \A v \in {"true", "false"} : Cl("setWorkflowComplete", v) \in CallType
<1>1. Chain!None \in Value /\ {"watching", "intervening", "idle", "true", "false"} \subseteq Value
  BY DEF Value, Chain!Argument
<1>2. \A k \in Chain!Key : k \in Value BY DEF Value
<1>3. Phase \subseteq Value
  <2>1. Chain!ChainOrder[8] = "red" /\ Chain!ChainOrder[10] = "green"
          /\ Chain!ChainOrder[11] = "refactor" /\ {8, 10, 11} \subseteq DOMAIN Chain!ChainOrder
    BY DEF Chain!ChainOrder
  <2> QED BY <2>1, <1>2, HookAssumption DEF Chain!ChainStep, Chain!Key
<1> QED BY <1>1, <1>2, <1>3, CommandIs DEF CallType, Cl, Op

\* A script that is not empty, and the calls it makes.
Makes(q, S) == q \in Seq(CallType) /\ q # <<>> /\ Ordered(q) /\ Elements(q) = S

LEMMA SingleScript ==
  ASSUME NEW o, NEW a, Cl(o, a) \in CallType
  PROVE  Makes(Chain!C(o, a), {Cl(o, a)}) /\ <<>> \o Chain!C(o, a) = Chain!C(o, a)
<1>1. Chain!C(o, a) \in Seq(CallType) /\ Len(Chain!C(o, a)) = 1 /\ Chain!C(o, a)[1] = Cl(o, a)
        /\ <<>> \o Chain!C(o, a) = Chain!C(o, a)
  BY OneCall
<1>2. DOMAIN Chain!C(o, a) = {1} BY <1>1
<1>3. Elements(Chain!C(o, a)) = {Cl(o, a)} BY <1>1, <1>2 DEF Elements
<1>4. \A i \in DOMAIN Chain!C(o, a) : i = 1 BY <1>2
<1>5. Cl(o, a).op = o BY DEF Cl
<1>6. \A i, j \in DOMAIN Chain!C(o, a) : Chain!C(o, a)[i].op \in {"setNextCommand",
        "setLastCommand"} /\ Chain!C(o, a)[j].op = "setLastCommand" => j <= i
  BY <1>1, <1>4, <1>5
<1>7. Ordered(Chain!C(o, a)) BY <1>1, <1>4, <1>6 DEF Ordered
<1>8. Chain!C(o, a) # <<>>
  <2>1. 1 \in DOMAIN Chain!C(o, a) BY <1>2
  <2>2. DOMAIN <<>> = {} OBVIOUS
  <2> QED BY <2>1, <2>2
<1> QED BY <1>1, <1>3, <1>7, <1>8 DEF Makes

\* Another call after one that was not to be the last.
LEMMA LongerScript ==
  ASSUME NEW q, NEW S, Makes(q, S), NEW o, NEW a, Cl(o, a) \in CallType,
         o \notin {"setActiveStep", "completeStep", "setTddPhase"},
         o = "setLastCommand" => \A c \in S : c.op \notin {"setNextCommand", "setLastCommand"},
         \A c \in S : c # Cl("setWorkflowComplete", "true") /\ c.op # "setTddPhase"
  PROVE  Makes(q \o Chain!C(o, a), S \cup {Cl(o, a)})
<1> DEFINE r == q \o Chain!C(o, a)
           n == Len(q)
<1>1. q \in Seq(CallType) /\ Ordered(q) /\ Elements(q) = S /\ n \in Nat /\ n > 0
        /\ DOMAIN q = 1..n
  BY DEF Makes
<1>2. r \in Seq(CallType) /\ Len(r) = n + 1 /\ r[n + 1] = Cl(o, a) /\ \A i \in 1..n : r[i] = q[i]
  BY <1>1, OneMore
<1> HIDE DEF r
<1>3. DOMAIN r = 1..(n + 1) BY <1>1, <1>2
<1>4. \A i \in 1..n : q[i] \in S BY <1>1 DEF Elements
<1> HIDE DEF n
<1>5. \A i \in DOMAIN r : i \in 1..n \/ i = n + 1 BY <1>1, <1>3
<1>6. Ordered(r)
  <2>1. \A i \in DOMAIN r : r[i].op \in {"setActiveStep", "completeStep", "setTddPhase"} => i = 1
    BY <1>1, <1>2, <1>5 DEF Ordered, Cl
  <2>2. \A i, j \in DOMAIN r : r[i].op \in {"setNextCommand", "setLastCommand"}
          /\ r[j].op = "setLastCommand" => j <= i
    <3> SUFFICES ASSUME NEW i \in DOMAIN r, NEW j \in DOMAIN r,
                        r[i].op \in {"setNextCommand", "setLastCommand"},
                          r[j].op = "setLastCommand" PROVE j <= i
      OBVIOUS
    <3>1. CASE i = n + 1 BY <3>1, <1>1, <1>5
    <3>2. CASE i \in 1..n
      <4>1. q[i] \in S /\ q[i].op \in {"setNextCommand", "setLastCommand"} BY <3>2, <1>2, <1>4
      <4>2. CASE j = n + 1
        <5>1. o = "setLastCommand" BY <4>2, <1>2 DEF Cl
        <5> QED BY <4>1, <5>1
      <4>3. CASE j \in 1..n BY <3>2, <4>3, <1>1, <1>2 DEF Ordered
      <4> QED BY <4>2, <4>3, <1>5
    <3> QED BY <3>1, <3>2, <1>5
  <2>3. \A i \in DOMAIN r : r[i] = Cl("setWorkflowComplete", "true") => i = Len(r)
    BY <1>2, <1>4, <1>5
  <2>4. \A i \in DOMAIN r : r[i].op # "setTddPhase"
    BY <1>2, <1>4, <1>5 DEF Cl
  <2> QED BY <2>1, <2>2, <2>3, <2>4 DEF Ordered
<1>7. Elements(r) = S \cup {Cl(o, a)}
  <2>1. \A x \in Elements(r) : x \in S \cup {Cl(o, a)} BY <1>2, <1>4, <1>5 DEF Elements
  <2>2. \A x \in S : x \in Elements(r)
    <3> SUFFICES ASSUME NEW i \in 1..n PROVE q[i] \in Elements(r) BY <1>1 DEF Elements
    <3>1. i \in DOMAIN r /\ r[i] = q[i] BY <1>1, <1>2, <1>3
    <3> QED BY <3>1 DEF Elements
  <2>3. n + 1 \in DOMAIN r BY <1>1, <1>3
  <2>4. Cl(o, a) \in Elements(r) BY <2>3, <1>2 DEF Elements
  <2> QED BY <2>1, <2>2, <2>4
<1>8. r # <<>> BY <1>1, <1>2
<1> QED BY <1>2, <1>6, <1>7, <1>8 DEF Makes, r

LEMMA PromptScript == ASSUME NEW c \in Command PROVE Makes(Chain!PromptCalls(c), PromptSet(c))
<1>0. Cl("setCurrentCommand", c) \in CallType BY CallsFit
<1>1. CASE Chain!StepOf(c) # Chain!None
  <2> DEFINE q1 == Chain!C("setActiveStep", Chain!StepOf(c))
             q2 == q1 \o Chain!C("setSupervisor", "watching")
             q3 == q2 \o Chain!C("setCurrentCommand", c)
             q4 == q3 \o Chain!C("setSupervisor", "watching")
  <2>1. Chain!PromptCalls(c) = q4 BY <1>1 DEF Chain!PromptCalls
  <2>2. Makes(q1, {Cl("setActiveStep", Chain!StepOf(c))}) BY <1>1, SingleScript, CallsFit,
          CommandIs
  <2> HIDE DEF q1
  <2>3. Makes(q2, {Cl("setActiveStep", Chain!StepOf(c))} \cup {Cl("setSupervisor", "watching")})
    BY <2>2, LongerScript, CallsFit DEF Cl
  <2> HIDE DEF q2
  <2>4. Makes(q3, {Cl("setActiveStep", Chain!StepOf(c)),
          Cl("setSupervisor", "watching")} \cup {Cl("setCurrentCommand", c)})
    BY <1>0, <2>3, LongerScript DEF Cl
  <2> HIDE DEF q3
  <2>5. Makes(q4, {Cl("setActiveStep", Chain!StepOf(c)), Cl("setSupervisor", "watching"),
          Cl("setCurrentCommand", c)}
                  \cup {Cl("setSupervisor", "watching")})
    BY <2>4, LongerScript, CallsFit DEF Cl
  <2> QED BY <1>1, <2>1, <2>5 DEF PromptSet
<1>2. CASE Chain!StepOf(c) = Chain!None
  <2> DEFINE q1 == Chain!C("setCurrentCommand", c)
             q2 == q1 \o Chain!C("setSupervisor", "watching")
  <2>1. Makes(q1, {Cl("setCurrentCommand", c)}) /\ <<>> \o q1 = q1 BY SingleScript, CallsFit
  <2>2. Chain!PromptCalls(c) = q2 BY <1>2, <2>1 DEF Chain!PromptCalls
  <2> HIDE DEF q1
  <2>3. Makes(q2, {Cl("setCurrentCommand", c)} \cup {Cl("setSupervisor", "watching")})
    BY <2>1, LongerScript, CallsFit DEF Cl
  <2> QED BY <1>2, <2>2, <2>3 DEF PromptSet
<1> QED BY <1>1, <1>2

\* The recommendation at the end of a script, if there is one.
LEMMA NextScript ==
  ASSUME NEW q, NEW S, Makes(q, S), NEW c \in Command,
         \A x \in S : x # Cl("setWorkflowComplete", "true") /\ x.op # "setTddPhase"
  PROVE  Makes(q \o Chain!NextCalls(c), S \cup NextSet(c))
<1>1. CASE c \in Chain!MainCommand
  <2>1. Chain!NextCalls(c) = Chain!C("setNextCommand", Chain!CommandAfter(c))
          /\ NextSet(c) = {Cl("setNextCommand", Chain!CommandAfter(c))}
    BY <1>1 DEF Chain!NextCalls, NextSet
  <2> QED BY <2>1, LongerScript, CallsFit
<1>2. CASE c \notin Chain!MainCommand
  <2>1. Chain!NextCalls(c) = <<>> /\ NextSet(c) = {} BY <1>2 DEF Chain!NextCalls, NextSet
  <2>2. q \o <<>> = q BY DEF Makes
  <2> QED BY <2>1, <2>2
<1> QED BY <1>1, <1>2

LEMMA StartScript == ASSUME NEW c \in Command PROVE Makes(Chain!StartCalls(c), StartSet(c))
<1> DEFINE q1 == Chain!C("setActiveStep", c)
           q2 == q1 \o Chain!C("setCurrentCommand", c)
           q3 == q2 \o Chain!C("setSupervisor", "watching")
           q4 == q3 \o Chain!C("clearTddPhase", Chain!None)
           q5 == q4 \o Chain!C("setLastCommand", Chain!None)
           q6 == q5 \o Chain!C("setWorkflowComplete", "false")
           q7 == q6 \o Chain!NextCalls(c)
           S1 == {Cl("setActiveStep", c)}
           S2 == S1 \cup {Cl("setCurrentCommand", c)}
           S3 == S2 \cup {Cl("setSupervisor", "watching")}
           S4 == S3 \cup {Cl("clearTddPhase", Chain!None)}
           S5 == S4 \cup {Cl("setLastCommand", Chain!None)}
           S6 == S5 \cup {Cl("setWorkflowComplete", "false")}
<1>1. Chain!StartCalls(c) = q7 BY DEF Chain!StartCalls
<1>0. Cl("setCurrentCommand", c) \in CallType BY CallsFit
<1>2. Makes(q1, S1) BY SingleScript, CallsFit, CommandIs
<1> HIDE DEF q1
<1>3. Makes(q2, S2) BY <1>0, <1>2, LongerScript, CallsFit DEF Cl
<1> HIDE DEF q2
<1>4. Makes(q3, S3) BY <1>3, LongerScript, CallsFit DEF Cl
<1> HIDE DEF q3
<1>5. Makes(q4, S4) BY <1>0, <1>4, LongerScript, CallsFit DEF Cl
<1> HIDE DEF q4
<1>6. Makes(q5, S5) BY <1>5, LongerScript, CallsFit DEF Cl
<1> HIDE DEF q5
<1>7. Makes(q6, S6) BY <1>6, LongerScript, CallsFit DEF Cl
<1> HIDE DEF q6
<1>8. \A x \in S6 : x # Cl("setWorkflowComplete", "true") /\ x.op # "setTddPhase" BY DEF Cl
<1>9. Makes(q7, S6 \cup NextSet(c)) BY <1>7, <1>8, NextScript
<1>10. S6 \cup NextSet(c) = StartSet(c) BY DEF StartSet
<1> QED BY <1>1, <1>9, <1>10

LEMMA CompleteScript == ASSUME NEW c \in Command
  PROVE Makes(Chain!CompleteCalls(c), CompleteSet(c))
<1> DEFINE q1 == Chain!C("completeStep", c)
           q2 == q1 \o Chain!C("setCurrentCommand", Chain!None)
           q3 == q2 \o Chain!C("clearTddPhase", Chain!None)
           q4 == q3 \o Chain!C("setLastCommand", c)
           q5 == q4 \o Chain!NextCalls(c)
           q6 == q5 \o (IF c = "ship" THEN Chain!C("setWorkflowComplete", "true") ELSE <<>>)
           S1 == {Cl("completeStep", c)}
           S2 == S1 \cup {Cl("setCurrentCommand", Chain!None)}
           S3 == S2 \cup {Cl("clearTddPhase", Chain!None)}
           S4 == S3 \cup {Cl("setLastCommand", c)}
           S5 == S4 \cup NextSet(c)
<1>1. Chain!CompleteCalls(c) = q6 BY DEF Chain!CompleteCalls
<1>0. Cl("setLastCommand", c) \in CallType BY CallsFit
<1>2. Makes(q1, S1) BY SingleScript, CallsFit
<1> HIDE DEF q1
<1>3. Makes(q2, S2) BY <1>0, <1>2, LongerScript, CallsFit DEF Cl
<1> HIDE DEF q2
<1>4. Makes(q3, S3) BY <1>3, LongerScript, CallsFit DEF Cl
<1> HIDE DEF q3
<1>5. Makes(q4, S4) BY <1>0, <1>4, LongerScript, CallsFit DEF Cl
<1> HIDE DEF q4
<1>6. \A x \in S4 : x # Cl("setWorkflowComplete", "true") /\ x.op # "setTddPhase" BY DEF Cl
<1>7. Makes(q5, S5) BY <1>5, <1>6, NextScript
<1> HIDE DEF q5
<1>8. \A x \in S5 : x # Cl("setWorkflowComplete", "true") /\ x.op # "setTddPhase" BY <1>6 DEF Cl,
        NextSet
<1>9. CASE c = "ship"
  <2>1. q6 = q5 \o Chain!C("setWorkflowComplete", "true")
          /\ CompleteSet(c) = S5 \cup {Cl("setWorkflowComplete", "true")}
    BY <1>9 DEF CompleteSet
  <2> HIDE DEF q6, S5
  <2> QED BY <1>1, <1>7, <1>8, <2>1, LongerScript, CallsFit
<1>10. CASE c # "ship"
  <2>1. q5 \o <<>> = q5 BY <1>7 DEF Makes
  <2>2. q6 = q5 /\ CompleteSet(c) = S5 BY <1>10, <2>1 DEF CompleteSet
  <2> QED BY <1>1, <1>7, <2>2
<1> QED BY <1>9, <1>10

\* What is left of a script.
LEMMA OneLess ==
  ASSUME NEW q \in Seq(CallType), q # <<>>, Ordered(q)
  PROVE  /\ Head(q) \in CallType /\ Head(q) = q[1] /\ Head(q) \in Elements(q)
              /\ Tail(q) \in Seq(CallType)
         /\ Ordered(Tail(q))
         /\ Elements(q) = Elements(Tail(q)) \cup {Head(q)}
         /\ \A c \in Elements(Tail(q)) : c.op \notin {"setActiveStep", "completeStep",
              "setTddPhase"}
         /\ Head(q).op \in {"setNextCommand", "setLastCommand"} =>
              \A c \in Elements(Tail(q)) : c.op # "setLastCommand"
         /\ Head(q) = Cl("setWorkflowComplete", "true") => Elements(Tail(q)) = {}
         /\ Head(q).op = "setTddPhase" => Elements(Tail(q)) = {}
<1>1. /\ Len(q) \in Nat /\ Len(q) > 0 /\ Tail(q) \in Seq(CallType) /\ Len(Tail(q)) = Len(q) - 1
           /\ Head(q) = q[1]
      /\ \A i \in 1..(Len(q) - 1) : Tail(q)[i] = q[i + 1]
      /\ DOMAIN q = 1..Len(q) /\ DOMAIN Tail(q) = 1..(Len(q) - 1)
  OBVIOUS
<1>2. Head(q) \in CallType /\ Head(q) \in Elements(q) BY <1>1 DEF Elements
<1>3. Ordered(Tail(q))
  <2>1. \A i \in DOMAIN Tail(q) : i + 1 \in DOMAIN q /\ Tail(q)[i] = q[i + 1] BY <1>1
  <2>2. \A i \in DOMAIN Tail(q) : Tail(q)[i].op \notin {"setActiveStep", "completeStep",
          "setTddPhase"}
    BY <2>1, <1>1 DEF Ordered
  <2>3. \A i, j \in DOMAIN Tail(q) : Tail(q)[i].op \in {"setNextCommand", "setLastCommand"}
          /\ Tail(q)[j].op = "setLastCommand" => j <= i
    <3> SUFFICES ASSUME NEW i \in DOMAIN Tail(q), NEW j \in DOMAIN Tail(q),
                        Tail(q)[i].op \in {"setNextCommand", "setLastCommand"},
                          Tail(q)[j].op = "setLastCommand" PROVE j <= i
      OBVIOUS
    <3>1. i \in Nat /\ j \in Nat /\ q[i + 1].op \in {"setNextCommand", "setLastCommand"}
            /\ q[j + 1].op = "setLastCommand" BY <2>1, <1>1
    <3>2. j + 1 <= i + 1 BY <2>1, <3>1 DEF Ordered
    <3> QED BY <3>1, <3>2
  <2>4. \A i \in DOMAIN Tail(q) : Tail(q)[i] = Cl("setWorkflowComplete", "true") =>
          i = Len(Tail(q))
    BY <2>1, <1>1 DEF Ordered
  <2> QED BY <2>2, <2>3, <2>4 DEF Ordered
<1>4. Elements(q) = Elements(Tail(q)) \cup {Head(q)}
  <2>1. \A c \in Elements(q) : c \in Elements(Tail(q)) \cup {Head(q)}
    <3> SUFFICES ASSUME NEW i \in DOMAIN q PROVE q[i] \in Elements(Tail(q)) \cup {Head(q)} BY
                          DEF Elements
    <3>1. CASE i = 1 BY <3>1, <1>1
    <3>2. CASE i # 1
      <4>1. i - 1 \in DOMAIN Tail(q) /\ Tail(q)[i - 1] = q[i] BY <3>2, <1>1
      <4> QED BY <4>1 DEF Elements
    <3> QED BY <3>1, <3>2
  <2>2. \A c \in Elements(Tail(q)) : c \in Elements(q) BY <1>1 DEF Elements
  <2> QED BY <2>1, <2>2, <1>2
<1>5. \A c \in Elements(Tail(q)) : \E i \in DOMAIN q : i > 1 /\ c = q[i] BY <1>1 DEF Elements
<1>6. \A c \in Elements(Tail(q)) : c.op \notin {"setActiveStep", "completeStep", "setTddPhase"}
  BY <1>5, <1>1 DEF Ordered
<1>7. Head(q).op \in {"setNextCommand", "setLastCommand"} =>
        \A c \in Elements(Tail(q)) : c.op # "setLastCommand"
  BY <1>1, <1>5 DEF Ordered
<1>8. Head(q) = Cl("setWorkflowComplete", "true") \/ Head(q).op = "setTddPhase" => Len(q) = 1
  BY <1>1 DEF Ordered
<1>9. Len(q) = 1 => Elements(Tail(q)) = {} BY <1>1 DEF Elements
<1> QED BY <1>1, <1>2, <1>3, <1>4, <1>6, <1>7, <1>8, <1>9

-----------------------------------------------------------------------------
(* The chain of steps: the session.                                        *)

\* The calls the running hook has still to make.
Left == Elements(script)

\* The calls that a hook may make at each stage of a command.
Allowed ==
  CASE stage = "idle" -> {Cl("prepareForNewSession", Chain!None), Cl("setSupervisor", "idle"),
         Cl("setSupervisor", "intervening")}
                         \cup (IF finished # Chain!None THEN CompleteSet(finished) ELSE {})
    [] stage = "prompted" -> PromptSet(cmd) \cup {Cl("setSupervisor", "idle")}
    [] stage = "running" -> StartSet(cmd) \cup {Cl("setSupervisor", "idle")}
                            \cup (IF cmd = "build" THEN {Cl("setTddPhase",
                              p) : p \in Phase} ELSE {})
    [] stage = "merged" -> {Cl("reset", Chain!None), Cl("setSupervisor", "idle")}

ScriptInv ==
  /\ state \in State /\ faults \in Nat
  /\ script \in Seq(CallType) /\ Ordered(script)
  /\ stage \in {"idle", "prompted", "running", "merged"}
  /\ finished \in Command \cup {Chain!None}
  /\ stage # "idle" => cmd \in Command /\ finished = Chain!None
  /\ stage = "merged" => cmd = "ship"
  /\ Left \subseteq Allowed

\* A call of a hook: the setter's effect, and one call less.
CallFacts ==
  LET h == Head(script)
  IN /\ h \in CallType /\ h \in Left /\ h \in Allowed
     /\ Left = Left' \cup {h}
     /\ SetsFields(state, h, state')
     /\ \A c \in Left' : c.op \notin {"setActiveStep", "completeStep", "setTddPhase"}
     /\ h.op \in {"setNextCommand", "setLastCommand"} => \A c \in Left' : c.op # "setLastCommand"
     /\ h = Cl("setWorkflowComplete", "true") \/ h.op = "setTddPhase" => Left' = {}
     /\ UNCHANGED <<cmd, stage, finished, faults, lost, Allowed>>

LEMMA CallDoes == ASSUME ScriptInv, Chain!Call PROVE CallFacts /\ ScriptInv'
<1>1. script # <<>> /\ state' = Chain!Applied(state, Head(script)) /\ script' = Tail(script)
      /\ UNCHANGED <<cmd, stage, finished, faults, lost>>
  BY DEF Chain!Call
<1>2. /\ Head(script) \in CallType /\ Head(script) \in Left /\ Tail(script) \in Seq(CallType)
      /\ Ordered(Tail(script)) /\ Left = Left' \cup {Head(script)}
      /\ \A c \in Left' : c.op \notin {"setActiveStep", "completeStep", "setTddPhase"}
      /\ Head(script).op \in {"setNextCommand", "setLastCommand"} =>
           \A c \in Left' : c.op # "setLastCommand"
      /\ Head(script) = Cl("setWorkflowComplete", "true") \/ Head(script).op = "setTddPhase" =>
           Left' = {}
  BY <1>1, OneLess DEF ScriptInv, Left
<1>3. SetsFields(state, Head(script), state') BY <1>1, <1>2, AppliedSets DEF ScriptInv
<1>4. UNCHANGED Allowed BY <1>1 DEF Allowed
<1>5. state' \in State BY <1>3 DEF SetsFields
<1>6. CallFacts BY <1>1, <1>2, <1>3, <1>4 DEF CallFacts, ScriptInv
<1> HIDE DEF Allowed, Left
<1>7. ScriptInv' BY <1>1, <1>2, <1>4, <1>5 DEF ScriptInv
<1> QED BY <1>6, <1>7

\* Nothing is left of a script that is empty.
LEMMA NothingLeft == script = <<>> => Left = {}
BY DEF Left, Elements
LEMMA NothingLeftNext == script' = <<>> => Left' = {}
BY DEF Left, Elements

\* A call that fails or a killed hook: calls are gone that were not made, and those the
\* recommendation hangs on are noted.
MissFacts ==
  /\ faults' = faults + 1 /\ UNCHANGED <<state, cmd, stage, finished>>
  /\ lost \subseteq lost' /\ Left' \subseteq Left
  /\ \A c \in Left \ Left' : c.op \in Chain!Recommends => c.op \in lost'

LEMMA MissDoes ==
  ASSUME ScriptInv, Chain!CallFails \/ Chain!Kill
  PROVE  ScriptInv' /\ MissFacts
<1>0. /\ script # <<>> /\ faults' = faults + 1 /\ UNCHANGED <<state, cmd, stage, finished>>
      /\ faults' \in Nat
  BY DEF Chain!CallFails, Chain!Kill, Chain!Misses, ScriptInv
<1>1. CASE Chain!Kill
  <2>1. script' = <<>> /\ Left' = {}
    BY <1>1, NothingLeftNext DEF Chain!Kill
  <2>2. <<>> \in Seq(CallType) /\ Ordered(<<>>) BY DEF Ordered
  <2>3. lost' = lost \cup ({script[i].op : i \in DOMAIN script} \cap Chain!Recommends)
    BY <1>1 DEF Chain!Kill, Chain!Misses
  <2>4. \A c \in Left : c.op \in Chain!Recommends => c.op \in lost'
    BY <2>3 DEF Left, Elements
  <2> QED BY <1>0, <2>1, <2>2, <2>3, <2>4 DEF ScriptInv, MissFacts
<1>2. CASE Chain!CallFails
  <2>1. script' = Tail(script)
    BY <1>2 DEF Chain!CallFails
  <2>2. /\ Tail(script) \in Seq(CallType) /\ Ordered(Tail(script))
        /\ Left = Left' \cup {Head(script)}
    BY <1>0, <2>1, OneLess DEF ScriptInv, Left
  <2>3. /\ lost \subseteq lost'
        /\ Head(script).op \in Chain!Recommends => Head(script).op \in lost'
    <3> DEFINE q == <<Head(script)>>
    <3>1. lost' = lost \cup ({q[i].op : i \in DOMAIN q} \cap Chain!Recommends)
      BY <1>2 DEF Chain!CallFails, Chain!Misses
    <3>2. 1 \in DOMAIN q /\ q[1] = Head(script)
      OBVIOUS
    <3> HIDE DEF q
    <3> QED BY <3>1, <3>2
  <2>4. UNCHANGED Allowed BY <1>0 DEF Allowed
  <2> HIDE DEF Allowed, Left
  <2> QED BY <1>0, <2>1, <2>2, <2>3, <2>4 DEF ScriptInv, MissFacts
<1> QED BY <1>1, <1>2

\* A new script begins when the one before is done.
LEMMA BeginDoes ==
  ASSUME ScriptInv, NEW q, NEW S, Chain!Runs(q), Makes(q, S)
  PROVE  /\ Left = {} /\ Left' = S /\ script' \in Seq(CallType) /\ Ordered(script')
         /\ UNCHANGED <<state, faults>>
BY NothingLeft DEF Chain!Runs, Makes, Left

LEMMA ScriptInit == Chain!Init => ScriptInv
<1> SUFFICES ASSUME Chain!Init PROVE ScriptInv OBVIOUS
<1>1. Left = {} BY NothingLeft DEF Chain!Init
<1>2. <<>> \in Seq(CallType) /\ Ordered(<<>>) BY DEF Ordered
<1>3. Chain!None \in Value BY DEF Value, Chain!Argument
<1>4. Chain!DefaultState \in State
  <2>1. "idle" \in Value BY DEF Value, Chain!Argument
  <2> QED BY <1>3, <2>1 DEF Chain!DefaultState, State, Mark
<1> QED BY <1>1, <1>2, <1>4 DEF Chain!Init, ScriptInv

\* What each event begins.
Begins ==
  /\ Left = {} /\ script' \in Seq(CallType) /\ Ordered(script') /\ UNCHANGED <<state, faults>>
  /\ \/ /\ Left' = {Cl("prepareForNewSession", Chain!None)} /\ stage' = "idle"
             /\ cmd' = Chain!None /\ UNCHANGED <<finished, lost>>
     \/ Left' = {Cl("setSupervisor", "idle")} /\ UNCHANGED <<cmd, stage, finished, lost>>
     \/ /\ cmd' \in Command /\ stage' = "prompted" /\ finished' = Chain!None
             /\ Left' = PromptSet(cmd') /\ UNCHANGED lost
     \/ /\ stage = "prompted" /\ stage' = "running" /\ cmd' = cmd /\ finished' = finished
        /\ Left' = StartSet(cmd) /\ lost' = {}
     \/ /\ stage = "running" /\ cmd = "build" /\ UNCHANGED <<cmd, stage, finished, lost>>
        /\ \E p \in Phase : Left' = {Cl("setTddPhase", p)}
     \/ /\ stage \in {"running", "merged"} /\ stage' = "idle" /\ cmd' = Chain!None
             /\ finished' = cmd
        /\ Left' = CompleteSet(cmd) /\ lost' = {}
     \/ /\ stage = "running" /\ stage' = "idle" /\ cmd' = Chain!None
             /\ UNCHANGED <<finished, lost>>
        /\ Left' = {Cl("setSupervisor", "intervening")}
     \/ /\ stage = "running" /\ cmd = "ship" /\ stage' = "merged" /\ cmd' = cmd
             /\ UNCHANGED <<finished, lost>>
        /\ Left' = {Cl("reset", Chain!None)}

Event ==
  \/ Chain!SessionStart \/ Chain!SessionEnd \/ (\E c \in Command : Chain!PromptHook(c))
       \/ Chain!NotifyStart
  \/ (\E p \in Phase : Chain!LogPhase(p)) \/ Chain!NotifyComplete \/ Chain!NotifyFailed
       \/ Chain!NotifyMerged

LEMMA EventBegins == ASSUME ScriptInv, Event PROVE Begins
<1>1. CASE Chain!SessionStart
  <2>1. Makes(Chain!C("prepareForNewSession", Chain!None),
          {Cl("prepareForNewSession", Chain!None)}) BY SingleScript, CallsFit
  <2>2. Chain!Runs(Chain!C("prepareForNewSession", Chain!None)) BY <1>1 DEF Chain!SessionStart
  <2> QED BY <1>1, <2>1, <2>2, BeginDoes DEF Chain!SessionStart, Begins
<1>2. CASE Chain!SessionEnd
  <2>1. Makes(Chain!C("setSupervisor", "idle"), {Cl("setSupervisor", "idle")}) BY SingleScript,
          CallsFit
  <2>2. Chain!Runs(Chain!C("setSupervisor", "idle")) BY <1>2 DEF Chain!SessionEnd
  <2> QED BY <1>2, <2>1, <2>2, BeginDoes DEF Chain!SessionEnd, Begins
<1>3. CASE \E c \in Command : Chain!PromptHook(c)
  <2>1. PICK c \in Command : Chain!PromptHook(c) BY <1>3
  <2>2. Chain!Runs(Chain!PromptCalls(c)) /\ cmd' = c /\ stage' = "prompted"
          /\ finished' = Chain!None /\ UNCHANGED lost BY <2>1 DEF Chain!PromptHook
  <2>3. Left = {} /\ Left' = PromptSet(c) /\ script' \in Seq(CallType) /\ Ordered(script')
          /\ UNCHANGED <<state, faults>>
    BY <2>2, PromptScript, BeginDoes
  <2> QED BY <2>2, <2>3 DEF Begins
<1>4. CASE Chain!NotifyStart
  <2>1. stage = "prompted" /\ Chain!Runs(Chain!StartCalls(cmd)) /\ stage' = "running"
          /\ UNCHANGED <<cmd, finished>> /\ lost' = {} BY <1>4 DEF Chain!NotifyStart
  <2>2. cmd \in Command BY <2>1 DEF ScriptInv
  <2>3. Left = {} /\ Left' = StartSet(cmd) /\ script' \in Seq(CallType) /\ Ordered(script')
          /\ UNCHANGED <<state, faults>>
    BY <2>1, <2>2, StartScript, BeginDoes
  <2> QED BY <2>1, <2>3 DEF Begins
<1>5. CASE \E p \in Phase : Chain!LogPhase(p)
  <2>1. PICK p \in Phase : Chain!LogPhase(p) BY <1>5
  <2>2. stage = "running" /\ cmd = "build" /\ Chain!Runs(Chain!C("setTddPhase", p))
          /\ UNCHANGED <<cmd, stage, finished, lost>> BY <2>1 DEF Chain!LogPhase
  <2>3. Cl("setTddPhase", p) \in CallType BY CallsFit
  <2>4. Makes(Chain!C("setTddPhase", p), {Cl("setTddPhase", p)}) BY <2>3, SingleScript
  <2>5. /\ Left = {} /\ Left' = {Cl("setTddPhase", p)} /\ script' \in Seq(CallType)
             /\ Ordered(script')
        /\ UNCHANGED <<state, faults>>
    BY <2>2, <2>4, BeginDoes
  <2> QED BY <2>2, <2>5 DEF Begins
<1>6. CASE Chain!NotifyComplete
  <2>1. /\ stage \in {"running", "merged"} /\ Chain!Runs(Chain!CompleteCalls(cmd))
             /\ cmd' = Chain!None /\ stage' = "idle" /\ finished' = cmd /\ lost' = {}
    BY <1>6 DEF Chain!NotifyComplete
  <2>2. cmd \in Command BY <2>1 DEF ScriptInv
  <2>3. Left = {} /\ Left' = CompleteSet(cmd) /\ script' \in Seq(CallType) /\ Ordered(script')
          /\ UNCHANGED <<state, faults>>
    BY <2>1, <2>2, CompleteScript, BeginDoes
  <2> QED BY <2>1, <2>3 DEF Begins
<1>7. CASE Chain!NotifyFailed
  <2>1. Makes(Chain!C("setSupervisor", "intervening"), {Cl("setSupervisor", "intervening")})
          BY SingleScript, CallsFit
  <2>2. Chain!Runs(Chain!C("setSupervisor", "intervening")) BY <1>7 DEF Chain!NotifyFailed
  <2> QED BY <1>7, <2>1, <2>2, BeginDoes DEF Chain!NotifyFailed, Begins
<1>8. CASE Chain!NotifyMerged
  <2>1. Makes(Chain!C("reset", Chain!None), {Cl("reset", Chain!None)}) BY SingleScript, CallsFit
  <2>2. Chain!Runs(Chain!C("reset", Chain!None)) BY <1>8 DEF Chain!NotifyMerged
  <2> QED BY <1>8, <2>1, <2>2, BeginDoes DEF Chain!NotifyMerged, Begins
<1> QED BY <1>1, <1>2, <1>3, <1>4, <1>5, <1>6, <1>7, <1>8 DEF Event

LEMMA EventKeepsScript == ASSUME ScriptInv, Begins PROVE ScriptInv'
<1>1. state' \in State /\ faults' \in Nat /\ script' \in Seq(CallType) /\ Ordered(script')
  BY DEF ScriptInv, Begins
<1>2. /\ stage' \in {"idle", "prompted", "running", "merged"}
           /\ finished' \in Command \cup {Chain!None}
      /\ (stage' # "idle" => cmd' \in Command /\ finished' = Chain!None)
           /\ (stage' = "merged" => cmd' = "ship")
  BY HookAssumption DEF ScriptInv, Begins
<1>3. Left' \subseteq Allowed'
  <2>1. ASSUME stage' = "idle", finished' # Chain!None
                 PROVE Allowed' = {Cl("prepareForNewSession", Chain!None),
                       Cl("setSupervisor", "idle"), Cl("setSupervisor", "intervening")}
                         \cup CompleteSet(finished')
    BY <2>1 DEF Allowed
  <2>2. ASSUME stage' = "idle"
                 PROVE {Cl("prepareForNewSession", Chain!None), Cl("setSupervisor", "idle"),
                       Cl("setSupervisor", "intervening")} \subseteq Allowed'
    BY <2>2 DEF Allowed
  <2>3. ASSUME stage' = "prompted"
                 PROVE Allowed' = PromptSet(cmd') \cup {Cl("setSupervisor", "idle")}
    BY <2>3 DEF Allowed
  <2>4. ASSUME stage' = "running"
                 PROVE StartSet(cmd') \cup {Cl("setSupervisor", "idle")} \subseteq Allowed'
    BY <2>4 DEF Allowed
  <2>5. ASSUME stage' = "running", cmd' = "build", NEW p \in Phase
                 PROVE Cl("setTddPhase", p) \in Allowed'
    BY <2>5 DEF Allowed
  <2>6. ASSUME stage' = "merged"
                 PROVE Allowed' = {Cl("reset", Chain!None), Cl("setSupervisor", "idle")}
    BY <2>6 DEF Allowed
  <2>7. Cl("setSupervisor", "idle") \in Allowed' BY <1>2, <2>2, <2>3, <2>4, <2>6
  <2> HIDE DEF Allowed, Left
  <2>8. CASE Left' = {Cl("prepareForNewSession", Chain!None)} /\ stage' = "idle" BY <2>8, <2>2
  <2>9. CASE Left' = {Cl("setSupervisor", "idle")} BY <2>9, <2>7
  <2>10. CASE stage' = "prompted" /\ Left' = PromptSet(cmd') BY <2>10, <2>3
  <2>11. CASE stage' = "running" /\ cmd' = cmd /\ Left' = StartSet(cmd) BY <2>11, <2>4
  <2>12. CASE stage' = "running" /\ cmd' = "build"
                /\ \E p \in Phase : Left' = {Cl("setTddPhase", p)} BY <2>12, <2>5
  <2>13. CASE stage' = "idle" /\ finished' # Chain!None /\ Left' = CompleteSet(finished')
                BY <2>13, <2>1
  <2>14. CASE stage' = "idle" /\ Left' = {Cl("setSupervisor", "intervening")} BY <2>14, <2>2
  <2>15. CASE stage' = "merged" /\ Left' = {Cl("reset", Chain!None)} BY <2>15, <2>6
  <2>16. stage \in {"running", "merged"} => cmd # Chain!None BY HookAssumption DEF ScriptInv
  <2> QED BY <2>8, <2>9, <2>10, <2>11, <2>12, <2>13, <2>14, <2>15, <2>16 DEF Begins
<1> QED BY <1>1, <1>2, <1>3 DEF ScriptInv

LEMMA ChainSteps ==
  ASSUME ScriptInv, [Chain!Next]_chainVars
  PROVE  /\ ScriptInv'
         /\ \/ CallFacts
            \/ MissFacts
            \/ Begins
            \/ UNCHANGED chainVars /\ UNCHANGED <<Left, Allowed>>
<1>1. CASE Chain!Call BY <1>1, CallDoes
<1>2. CASE Chain!CallFails \/ Chain!Kill BY <1>2, MissDoes
<1>3. CASE Event BY <1>3, EventBegins, EventKeepsScript
<1>4. CASE UNCHANGED chainVars
  <2>1. UNCHANGED <<state, script, cmd, stage, finished, faults>> BY <1>4 DEF chainVars
  <2>2. UNCHANGED <<Left, Allowed>> BY <2>1 DEF Left, Allowed
  <2> QED BY <1>4, <2>1, <2>2 DEF ScriptInv
<1> QED BY <1>1, <1>2, <1>3, <1>4 DEF Chain!Next, Event

-----------------------------------------------------------------------------
(* The chain of steps: the recommendation and the command before.          *)

Arrow == state.last \in Chain!MainCommand => state.next = Chain!CommandAfter(state.last)

\* The last start or completion has called, or still will call, the last command so, and
\* one of its recommendations got through or still may.
CalledSo == "setLastCommand" \notin lost
Recommended == ~({"completeStep", "setNextCommand"} \subseteq lost)

\* A start clears what was called last; a completion calls its command last and recommends
\* twice; nothing else touches either.
ArrowInv ==
  /\ stage \in {"running", "merged"} /\ CalledSo =>
        state.last = Chain!None \/ Cl("setLastCommand", Chain!None) \in Left
  /\ finished # Chain!None /\ CalledSo =>
        state.last = finished \/ Cl("setLastCommand", finished) \in Left
  /\ finished \in Chain!MainCommand =>
        \/ state.next = Chain!CommandAfter(finished)
        \/ /\ Cl("completeStep", finished) \in Left \/ "completeStep" \in lost
           /\ \/ Cl("setNextCommand", Chain!CommandAfter(finished)) \in Left
              \/ "setNextCommand" \in lost
  /\ stage = "prompted" \/ (stage = "idle" /\ finished = Chain!None) =>
        (CalledSo /\ Recommended => Arrow)

LEMMA NoneIsNoCommand == Chain!None \notin Chain!MainCommand /\ Chain!None \notin Command
BY HookAssumption DEF Chain!MainCommand, Chain!None

\* Between two hooks the arrow is right.
LEMMA ArrowRests ==
  ASSUME ScriptInv, ArrowInv, Left = {}, CalledSo, Recommended
  PROVE  Arrow
<1> USE NoneIsNoCommand
<1>1. stage \in {"idle", "prompted", "running", "merged"}
  BY DEF ScriptInv
<1>2. CASE finished # Chain!None
  <2>1. state.last = finished
    BY <1>2 DEF ArrowInv
  <2>2. finished \in Chain!MainCommand => state.next = Chain!CommandAfter(finished)
    BY DEF ArrowInv, Recommended
  <2> QED BY <2>1, <2>2 DEF Arrow
<1>3. CASE stage \in {"running", "merged"}
  <2>1. state.last = Chain!None
    BY <1>3 DEF ArrowInv
  <2> QED BY <2>1 DEF Arrow
<1> QED BY <1>1, <1>2, <1>3 DEF ArrowInv

LEMMA ArrowCall == ASSUME ScriptInv, ArrowInv, CallFacts PROVE ArrowInv'
<1> DEFINE h == Head(script)
<1> USE NoneIsNoCommand
<1>1. /\ h \in Left /\ h \in Allowed /\ Left = Left' \cup {h} /\ SetsFields(state, h, state')
      /\ UNCHANGED <<cmd, stage, finished, lost>>
  BY DEF CallFacts
<1>2. /\ state'.last = IF h.op = "setLastCommand" THEN h.arg ELSE IF h.op = "reset" THEN Chain!None ELSE state.last
      /\ state'.next = IF h.op = "setNextCommand" THEN h.arg
                       ELSE IF h.op = "reset" THEN Chain!None
                       ELSE IF h.op = "completeStep"
                         /\ h.arg \in Chain!MainCommand THEN Chain!CommandAfter(h.arg) ELSE state.next
  BY <1>1 DEF SetsFields
<1>3. /\ stage \in {"idle", "prompted", "running", "merged"}
      /\ finished # Chain!None => stage = "idle"
  BY DEF ScriptInv
<1>4. /\ h.op = "setLastCommand" => \/ stage = "running" /\ h = Cl("setLastCommand", Chain!None)
                                    \/ stage = "idle" /\ finished # Chain!None
                                         /\ h = Cl("setLastCommand", finished)
      /\ h.op = "setNextCommand" => \/ stage = "running"
                                    \/ stage = "idle" /\ finished \in Chain!MainCommand
                                         /\ h = Cl("setNextCommand", Chain!CommandAfter(finished))
      /\ h.op = "completeStep" => stage = "idle" /\ finished # Chain!None
           /\ h = Cl("completeStep", finished)
      /\ h.op = "reset" => stage = "merged"
  BY <1>1, <1>3 DEF Allowed, PromptSet, StartSet, CompleteSet, NextSet, Cl
<1>5. \A o, a : Cl(o, a).op = o /\ Cl(o, a).arg = a BY DEF Cl
<1>6. \A c \in Left : c # h => c \in Left' BY <1>1
<1> HIDE DEF h
<1>7. CalledSo' = CalledSo /\ Recommended' = Recommended
  BY <1>1 DEF CalledSo, Recommended
<1>8. (stage \in {"running", "merged"} /\ CalledSo =>
        state.last = Chain!None \/ Cl("setLastCommand", Chain!None) \in Left)'
  <2>1. stage \in {"running", "merged"} /\ CalledSo =>
          state.last = Chain!None \/ Cl("setLastCommand", Chain!None) \in Left
    BY DEF ArrowInv
  <2> QED BY <2>1, <1>1, <1>2, <1>3, <1>4, <1>5, <1>6, <1>7
<1>9. (finished # Chain!None /\ CalledSo =>
        state.last = finished \/ Cl("setLastCommand", finished) \in Left)'
  <2>1. finished # Chain!None /\ CalledSo =>
          state.last = finished \/ Cl("setLastCommand", finished) \in Left
    BY DEF ArrowInv
  <2> QED BY <2>1, <1>1, <1>2, <1>3, <1>4, <1>5, <1>6, <1>7
<1>10. ASSUME finished \in Chain!MainCommand
       PROVE  \/ state'.next = Chain!CommandAfter(finished)
              \/ /\ Cl("completeStep", finished) \in Left' \/ "completeStep" \in lost
                 /\ \/ Cl("setNextCommand", Chain!CommandAfter(finished)) \in Left'
                    \/ "setNextCommand" \in lost
  <2>1. stage = "idle" /\ finished # Chain!None BY <1>3, <1>10
  <2>2. CASE h.op \in {"completeStep", "setNextCommand"}
    BY <1>2, <1>4, <1>5, <1>10, <2>1, <2>2
  <2>3. CASE h.op \notin {"completeStep", "setNextCommand"}
    <3>1. state'.next = state.next BY <1>2, <1>4, <2>1, <2>3
    <3>2. \A a : h # Cl("completeStep", a) /\ h # Cl("setNextCommand", a) BY <1>5, <2>3
    <3> QED BY <3>1, <3>2, <1>6, <1>10 DEF ArrowInv
  <2> QED BY <2>2, <2>3
<1>11. (stage = "prompted" \/ (stage = "idle" /\ finished = Chain!None)) =>
         (CalledSo /\ Recommended => Arrow')
  BY <1>2, <1>4 DEF ArrowInv, Arrow
<1> QED BY <1>1, <1>7, <1>8, <1>9, <1>10, <1>11 DEF ArrowInv

LEMMA ArrowMiss == ASSUME ScriptInv, ArrowInv, MissFacts PROVE ArrowInv'
<1>1. /\ UNCHANGED <<state, cmd, stage, finished>> /\ lost \subseteq lost'
      /\ \A c \in Left : c \notin Left' => (c.op \in Chain!Recommends => c.op \in lost')
  BY DEF MissFacts
<1>2. \A o, a : Cl(o, a).op = o BY DEF Cl
<1>3. \A o \in Chain!Recommends : \A a : Cl(o, a) \in Left => Cl(o, a) \in Left' \/ o \in lost'
  BY <1>1, <1>2
<1>4. {"completeStep", "setLastCommand", "setNextCommand"} \subseteq Chain!Recommends
  BY DEF Chain!Recommends
<1>5. (CalledSo' => CalledSo) /\ (Recommended' => Recommended)
  BY <1>1 DEF CalledSo, Recommended
<1>6. (stage \in {"running", "merged"} /\ CalledSo =>
        state.last = Chain!None \/ Cl("setLastCommand", Chain!None) \in Left)'
  <2>1. stage \in {"running", "merged"} /\ CalledSo =>
          state.last = Chain!None \/ Cl("setLastCommand", Chain!None) \in Left
    BY DEF ArrowInv
  <2> QED BY <2>1, <1>1, <1>3, <1>4, <1>5 DEF CalledSo
<1>7. (finished # Chain!None /\ CalledSo =>
        state.last = finished \/ Cl("setLastCommand", finished) \in Left)'
  <2>1. finished # Chain!None /\ CalledSo =>
          state.last = finished \/ Cl("setLastCommand", finished) \in Left
    BY DEF ArrowInv
  <2> QED BY <2>1, <1>1, <1>3, <1>4, <1>5 DEF CalledSo
<1>8. ASSUME finished \in Chain!MainCommand
      PROVE  \/ state.next = Chain!CommandAfter(finished)
             \/ /\ Cl("completeStep", finished) \in Left' \/ "completeStep" \in lost'
                /\ \/ Cl("setNextCommand", Chain!CommandAfter(finished)) \in Left'
                   \/ "setNextCommand" \in lost'
  <2>1. \/ state.next = Chain!CommandAfter(finished)
        \/ /\ Cl("completeStep", finished) \in Left \/ "completeStep" \in lost
           /\ \/ Cl("setNextCommand", Chain!CommandAfter(finished)) \in Left
              \/ "setNextCommand" \in lost
    BY <1>8 DEF ArrowInv
  <2> QED BY <2>1, <1>1, <1>3, <1>4
<1>9. (stage = "prompted" \/ (stage = "idle" /\ finished = Chain!None)) =>
        (CalledSo' /\ Recommended' => Arrow)
  BY <1>5 DEF ArrowInv
<1>10. Arrow' = Arrow BY <1>1 DEF Arrow
<1> QED BY <1>1, <1>6, <1>7, <1>8, <1>9, <1>10 DEF ArrowInv

LEMMA ArrowStep == ASSUME ScriptInv, ScriptInv', ArrowInv, [Chain!Next]_chainVars PROVE ArrowInv'
<1> USE NoneIsNoCommand
<1>1. CASE CallFacts BY <1>1, ArrowCall
<1>2. CASE MissFacts BY <1>2, ArrowMiss
<1>3. CASE Begins
  <2>1. Left = {} /\ UNCHANGED <<state, faults>> BY <1>3 DEF Begins
  <2>2. CalledSo /\ Recommended => Arrow BY <2>1, ArrowRests
  <2>3. Arrow' = Arrow BY <2>1 DEF Arrow
  <2>4. finished' # Chain!None => stage' = "idle" BY DEF ScriptInv
  <2>5. stage \in {"running", "merged", "prompted"} => finished = Chain!None BY DEF ScriptInv
  <2>6. stage \in {"running", "merged"} /\ CalledSo => state.last = Chain!None BY <2>1
          DEF ArrowInv
  <2>7. CASE stage' = "idle" /\ finished' = cmd /\ Left' = CompleteSet(cmd)
               /\ stage \in {"running", "merged"}
    <3>1. /\ Cl("completeStep", cmd) \in Left' /\ Cl("setLastCommand", cmd) \in Left'
          /\ cmd \in Chain!MainCommand => Cl("setNextCommand", Chain!CommandAfter(cmd)) \in Left'
      BY <2>7 DEF CompleteSet, NextSet
    <3>2. cmd # Chain!None BY <2>7, HookAssumption DEF ScriptInv
    <3> QED BY <2>7, <3>1, <3>2 DEF ArrowInv
  <2>8. CASE stage' = "running" /\ Left' = StartSet(cmd)
    <3>1. Cl("setLastCommand", Chain!None) \in Left' BY <2>8 DEF StartSet
    <3> QED BY <2>4, <2>8, <3>1 DEF ArrowInv
  <2>9. CASE stage' = "prompted" /\ lost' = lost
    <3>1. CalledSo' = CalledSo /\ Recommended' = Recommended BY <2>9 DEF CalledSo, Recommended
    <3> QED BY <2>2, <2>3, <2>4, <2>9, <3>1 DEF ArrowInv
  <2>10. CASE /\ finished' = finished /\ lost' = lost
              /\ stage' = "idle" \/ stage' = stage \/ (stage' = "merged" /\ stage = "running")
    <3>1. CalledSo' = CalledSo /\ Recommended' = Recommended BY <2>10 DEF CalledSo, Recommended
    <3>2. /\ finished # Chain!None /\ CalledSo => state.last = finished
          /\ finished \in Chain!MainCommand =>
               state.next = Chain!CommandAfter(finished) \/ ~Recommended
      BY <2>1 DEF ArrowInv, Recommended
    <3> QED BY <2>1, <2>2, <2>3, <2>6, <2>10, <3>1, <3>2 DEF ArrowInv, Recommended
  <2> QED BY <1>3, <2>7, <2>8, <2>9, <2>10 DEF Begins
<1>4. CASE UNCHANGED chainVars /\ UNCHANGED <<Left, Allowed>>
  <2>1. UNCHANGED <<state, cmd, stage, finished, lost, Left>> BY <1>4 DEF chainVars
  <2> HIDE DEF Left
  <2> QED BY <2>1 DEF ArrowInv, Arrow, CalledSo, Recommended
<1> QED BY <1>1, <1>2, <1>3, <1>4, ChainSteps

-----------------------------------------------------------------------------
(* The chain of steps: what the line shows while nothing failed.           *)

WorkInv ==
  faults = 0 =>
    /\ state.complete => state.last = "ship" /\ state.next = Chain!None
    /\ stage = "merged" => ~state.complete
    /\ stage = "running" =>
         /\ state.complete => Cl("setActiveStep", cmd) \in Left
         /\ state.current = cmd \/ Cl("setCurrentCommand", cmd) \in Left
         /\ \/ state.tddPhase = Chain!None
            \/ Cl("clearTddPhase", Chain!None) \in Left
            \/ /\ cmd = "build" /\ state.tddPhase \in Phase
                    /\ state.chain[state.tddPhase] = "active"
               /\ Cl("setActiveStep", cmd) \notin Left
    /\ finished # Chain!None =>
         /\ state.complete => finished = "ship"
         /\ state.activeStep = Chain!None \/ Cl("completeStep", finished) \in Left
         /\ state.current = Chain!None \/ Cl("setCurrentCommand", Chain!None) \in Left
         /\ state.tddPhase = Chain!None \/ Cl("clearTddPhase", Chain!None) \in Left
         /\ state.last = finished \/ Cl("setLastCommand", finished) \in Left
         /\ finished \in Chain!MainCommand =>
              state.next = Chain!CommandAfter(finished)
                \/ Cl("setNextCommand", Chain!CommandAfter(finished)) \in Left
         /\ finished = "ship" => state.complete \/ Cl("setWorkflowComplete", "true") \in Left

LEMMA WorkCall == ASSUME ScriptInv, WorkInv, CallFacts PROVE WorkInv'
<1> DEFINE h == Head(script)
<1> USE NoneIsNoCommand
<1>1. /\ h \in CallType /\ h \in Left /\ h \in Allowed /\ Left = Left' \cup {h}
           /\ SetsFields(state, h, state')
      /\ \A c \in Left' : c.op \notin {"setActiveStep", "completeStep", "setTddPhase"}
      /\ h.op \in {"setNextCommand", "setLastCommand"} => \A c \in Left' : c.op # "setLastCommand"
      /\ h = Cl("setWorkflowComplete", "true") \/ h.op = "setTddPhase" => Left' = {}
      /\ UNCHANGED <<cmd, stage, finished, faults>>
  BY DEF CallFacts
<1>2. /\ stage \in {"idle", "prompted", "running", "merged"}
      /\ finished # Chain!None => stage = "idle"
      /\ stage # "idle" => cmd # Chain!None
      /\ state \in State
  BY DEF ScriptInv
<1>3. /\ stage = "idle" => \/ h.op \in {"prepareForNewSession", "setSupervisor"}
                           \/ finished # Chain!None /\ h \in CompleteSet(finished)
      /\ stage = "prompted" => \/ h.op \in {"setActiveStep", "setSupervisor"}
                               \/ h = Cl("setCurrentCommand", cmd)
      /\ stage = "running" => \/ h \in StartSet(cmd) \/ h.op = "setSupervisor"
                              \/ cmd = "build" /\ h.op = "setTddPhase" /\ h.arg \in Phase
      /\ stage = "merged" => h.op \in {"reset", "setSupervisor"}
  BY <1>1, <1>2 DEF Allowed, PromptSet, Cl
<1>4. \A o, a : Cl(o, a).op = o /\ Cl(o, a).arg = a BY DEF Cl
<1>5. /\ state'.last = IF h.op = "setLastCommand" THEN h.arg ELSE IF h.op = "reset" THEN Chain!None ELSE state.last
      /\ state'.next = IF h.op = "setNextCommand" THEN h.arg
                       ELSE IF h.op = "reset" THEN Chain!None
                       ELSE IF h.op = "completeStep"
                         /\ h.arg \in Chain!MainCommand THEN Chain!CommandAfter(h.arg) ELSE state.next
      /\ state'.tddPhase = IF h.op = "setTddPhase" THEN h.arg
                           ELSE IF h.op \in {"clearTddPhase", "prepareForNewSession", "reset"}
                                THEN Chain!None ELSE state.tddPhase
      /\ state'.current = IF h.op = "setCurrentCommand" THEN h.arg
                          ELSE IF h.op \in {"prepareForNewSession",
                            "reset"} THEN Chain!None ELSE state.current
      /\ state'.activeStep = IF h.op = "setActiveStep" THEN h.arg
                             ELSE IF h.op \in {"completeStep", "prepareForNewSession", "reset"}
                                  THEN Chain!None ELSE state.activeStep
      /\ h.op \notin {"setActiveStep", "setTddPhase", "completeStep", "reset"} =>
           state'.chain = state.chain
      /\ h.op = "setTddPhase" => state'.chain = Chain!SetTddPhase(state, h.arg).chain
  BY <1>1 DEF SetsFields
<1>12. /\ h = Cl("setWorkflowComplete", "true") => state'.complete
       /\ h = Cl("setWorkflowComplete", "false") => ~state'.complete
       /\ h.op \in {"setActiveStep", "reset"} => ~state'.complete
       /\ h.op \notin {"setWorkflowComplete", "setActiveStep", "reset"} =>
            state'.complete = state.complete
  <2>1. /\ h.op = "setWorkflowComplete" => (state'.complete <=> h.arg = "true")
        /\ h.op \in {"setActiveStep", "reset"} => ~state'.complete
        /\ h.op \notin {"setWorkflowComplete", "setActiveStep", "reset"} =>
             state'.complete = state.complete
    BY <1>1 DEF SetsFields
  <2> HIDE DEF h
  <2> QED BY <2>1, <1>4
<1>6. h.op = "setTddPhase" /\ h.arg \in Phase => state'.chain[h.arg] = "active"
  <2> SUFFICES ASSUME h.op = "setTddPhase", h.arg \in Phase
                        PROVE state'.chain[h.arg] = "active" OBVIOUS
  <2>1. h.arg \in {"red", "green", "refactor"} BY HookAssumption
  <2>2. Cl("setTddPhase", h.arg) \in CallType BY CallsFit
  <2>3. h.arg \in Chain!Key
    <3>1. Chain!ChainOrder[8] = "red" /\ Chain!ChainOrder[10] = "green"
            /\ Chain!ChainOrder[11] = "refactor" /\ {8, 10, 11} \subseteq DOMAIN Chain!ChainOrder
      BY DEF Chain!ChainOrder
    <3> QED BY <2>1, <3>1 DEF Chain!ChainStep, Chain!Key
  <2>4. h.arg \notin Chain!Before(Chain!BuildPhases, h.arg)
    <3>1. \A i, j \in DOMAIN Chain!BuildPhases : Chain!BuildPhases[i] = Chain!BuildPhases[j] =>
            i = j BY DEF Chain!BuildPhases
    <3>2. \E i \in DOMAIN Chain!BuildPhases : Chain!BuildPhases[i] = h.arg
      <4>1. Chain!BuildPhases[2] = "red" /\ Chain!BuildPhases[4] = "green"
              /\ Chain!BuildPhases[5] = "refactor" /\ {2, 4, 5} \subseteq DOMAIN Chain!BuildPhases
        BY DEF Chain!BuildPhases
      <4> QED BY <2>1, <4>1
    <3>3. Chain!Position(Chain!BuildPhases, h.arg) \in DOMAIN Chain!BuildPhases
            /\ Chain!BuildPhases[Chain!Position(Chain!BuildPhases, h.arg)] = h.arg
      BY <3>2 DEF Chain!Position
    <3>4. DOMAIN Chain!BuildPhases = 1..7 BY DEF Chain!BuildPhases
    <3>5. \A i \in 1..(Chain!Position(Chain!BuildPhases,
            h.arg) - 1) : i \in DOMAIN Chain!BuildPhases
            /\ i # Chain!Position(Chain!BuildPhases, h.arg)
      BY <3>3, <3>4
    <3> QED BY <3>1, <3>3, <3>5 DEF Chain!Before
  <2>5. state'.chain = Chain!Marked(state.chain,
          {"ideate", "plan"} \cup Chain!Before(Chain!BuildPhases, h.arg), h.arg,
          Chain!After(Chain!BuildPhases, h.arg))
    BY <1>2, <1>5 DEF Chain!SetTddPhase, State
  <2> QED BY <2>1, <2>3, <2>4, <2>5 DEF Chain!Marked
<1> HIDE DEF h
<1> SUFFICES ASSUME faults = 0 PROVE WorkInv' BY <1>1 DEF WorkInv
<1>7. (state.complete => state.last = "ship" /\ state.next = Chain!None)'
  <2>1. CASE stage = "running"
    <3>1. h.op \in {"setLastCommand", "setNextCommand"} => Cl("setActiveStep", cmd) \notin Left
            BY <1>1, <1>4
    <3>2. h.op \in {"setLastCommand", "setNextCommand"} => ~state.complete BY <2>1, <3>1
            DEF WorkInv
    <3>3. h.op \in {"setActiveStep", "setCurrentCommand", "setSupervisor", "clearTddPhase",
            "setLastCommand", "setNextCommand",
                    "setTddPhase"} \/ h = Cl("setWorkflowComplete", "false")
      BY <2>1, <1>3, <1>4 DEF StartSet, NextSet
    <3>4. CASE h.op \in {"setLastCommand", "setNextCommand"} BY <3>2, <3>4, <1>5, <1>12
    <3>5. CASE h.op = "setWorkflowComplete" BY <3>3, <3>5, <1>12
    <3>6. CASE h.op = "setActiveStep" BY <3>6, <1>5, <1>12
    <3>7. CASE h.op \in {"setCurrentCommand", "setSupervisor", "clearTddPhase", "setTddPhase"}
      <4>1. state'.complete = state.complete /\ state'.last = state.last
              /\ state'.next = state.next BY <3>7, <1>5, <1>12
      <4> QED BY <4>1 DEF WorkInv
    <3> QED BY <3>3, <3>4, <3>5, <3>6, <3>7, <1>4
  <2>2. CASE stage = "idle" /\ finished # Chain!None /\ h \in CompleteSet(finished)
    <3>1. CASE h = Cl("setWorkflowComplete", "true")
      <4>1. finished = "ship" BY <2>2, <3>1, <1>4 DEF CompleteSet, NextSet
      <4>2. Left = {h} BY <3>1, <1>1
      <4>3. state.last = finished /\ state.next = Chain!CommandAfter(finished)
        BY <2>2, <3>1, <4>1, <4>2, <1>4 DEF WorkInv, Chain!MainCommand
      <4> QED BY <3>1, <4>1, <4>3, <1>4, <1>5, <1>12 DEF Chain!CommandAfter
    <3>2. CASE h # Cl("setWorkflowComplete", "true")
      <4> SUFFICES ASSUME state'.complete PROVE state'.last = "ship"
                            /\ state'.next = Chain!None OBVIOUS
      <4>1. /\ h.op \in {"completeStep", "setCurrentCommand", "clearTddPhase", "setLastCommand",
                 "setNextCommand"}
            /\ h.op = "setNextCommand" => h = Cl("setNextCommand", Chain!CommandAfter(finished))
            /\ h.op = "setLastCommand" => h = Cl("setLastCommand", finished)
            /\ h.op = "completeStep" => h = Cl("completeStep", finished)
        BY <2>2, <3>2, <1>4 DEF CompleteSet, NextSet
      <4>2. state.complete BY <4>1, <1>5, <1>12
      <4>3. finished = "ship" /\ state.last = "ship" /\ state.next = Chain!None BY <2>2, <4>2
              DEF WorkInv
      <4> QED BY <4>1, <4>3, <1>4, <1>5, <1>12 DEF Chain!CommandAfter
    <3> QED BY <3>1, <3>2
  <2>3. CASE h.op \in {"prepareForNewSession", "setSupervisor", "setActiveStep",
               "setCurrentCommand", "reset"}
    BY <2>3, <1>5, <1>12 DEF WorkInv
  <2> QED BY <2>1, <2>2, <2>3, <1>2, <1>3, <1>4
<1>8. (stage = "merged" => ~state.complete)' BY <1>1, <1>3, <1>5, <1>12 DEF WorkInv
<1>9. (stage = "running" =>
         /\ state.complete => Cl("setActiveStep", cmd) \in Left
         /\ state.current = cmd \/ Cl("setCurrentCommand", cmd) \in Left)'
  <2> SUFFICES ASSUME stage = "running"
               PROVE /\ state'.complete => Cl("setActiveStep", cmd) \in Left'
                     /\ state'.current = cmd \/ Cl("setCurrentCommand", cmd) \in Left'
    BY <1>1
  <2>1. /\ h.op \in {"setActiveStep", "setCurrentCommand", "setSupervisor", "clearTddPhase",
             "setLastCommand", "setNextCommand",
                    "setTddPhase", "setWorkflowComplete"}
        /\ h.op = "setWorkflowComplete" => h = Cl("setWorkflowComplete", "false")
        /\ h.op = "setCurrentCommand" => h = Cl("setCurrentCommand", cmd)
        /\ h.op = "setActiveStep" => h = Cl("setActiveStep", cmd)
    BY <1>3, <1>4 DEF StartSet, NextSet
  <2>2. state'.current = cmd \/ Cl("setCurrentCommand", cmd) \in Left' BY <2>1, <1>1, <1>4, <1>5,
          <1>12 DEF WorkInv
  <2>3. state'.complete => Cl("setActiveStep", cmd) \in Left'
    <3>1. state'.complete => state.complete /\ h.op # "setActiveStep" BY <2>1, <1>12
    <3>2. state.complete => Cl("setActiveStep", cmd) \in Left BY DEF WorkInv
    <3> QED BY <3>1, <3>2, <1>1, <1>4
  <2> QED BY <2>2, <2>3
<1>10. (stage = "running" =>
         \/ state.tddPhase = Chain!None
         \/ Cl("clearTddPhase", Chain!None) \in Left
         \/ /\ cmd = "build" /\ state.tddPhase \in Phase /\ state.chain[state.tddPhase] = "active"
            /\ Cl("setActiveStep", cmd) \notin Left)'
  <2> SUFFICES ASSUME stage = "running"
               PROVE \/ state'.tddPhase = Chain!None
                     \/ Cl("clearTddPhase", Chain!None) \in Left'
                     \/ /\ cmd = "build" /\ state'.tddPhase \in Phase
                             /\ state'.chain[state'.tddPhase] = "active"
                        /\ Cl("setActiveStep", cmd) \notin Left'
    BY <1>1
  <2>0. Cl("setActiveStep", cmd) \notin Left' BY <1>1, <1>4
  <2>1. /\ h.op \in {"setActiveStep", "setCurrentCommand", "setSupervisor", "clearTddPhase",
             "setLastCommand", "setNextCommand",
                    "setTddPhase", "setWorkflowComplete"}
        /\ h.op = "clearTddPhase" => h = Cl("clearTddPhase", Chain!None)
        /\ h.op = "setActiveStep" => h = Cl("setActiveStep", cmd)
        /\ h.op = "setTddPhase" => cmd = "build" /\ h.arg \in Phase
    BY <1>3, <1>4 DEF StartSet, NextSet
  <2>2. CASE h.op = "setTddPhase" BY <2>0, <2>1, <2>2, <1>5, <1>12, <1>6
  <2>3. CASE h.op = "clearTddPhase" BY <2>3, <1>5, <1>12
  <2>4. CASE h.op = "setActiveStep"
    <3>1. h \in Left /\ h = Cl("setActiveStep", cmd) BY <2>1, <2>4, <1>1
    <3>2. state.tddPhase = Chain!None \/ Cl("clearTddPhase", Chain!None) \in Left BY <3>1
            DEF WorkInv
    <3> QED BY <2>4, <3>2, <1>1, <1>4, <1>5, <1>12
  <2>5. CASE h.op \notin {"setTddPhase", "clearTddPhase", "setActiveStep"}
    <3>1. state'.tddPhase = state.tddPhase /\ state'.chain = state.chain BY <2>1, <2>5, <1>5,
            <1>12
    <3>2. Cl("clearTddPhase", Chain!None) \in Left => Cl("clearTddPhase", Chain!None) \in Left'
            BY <2>5, <1>1, <1>4
    <3> QED BY <2>0, <3>1, <3>2 DEF WorkInv
  <2> QED BY <2>1, <2>2, <2>3, <2>4, <2>5
<1>11. (finished # Chain!None =>
         /\ state.complete => finished = "ship"
         /\ state.activeStep = Chain!None \/ Cl("completeStep", finished) \in Left
         /\ state.current = Chain!None \/ Cl("setCurrentCommand", Chain!None) \in Left
         /\ state.tddPhase = Chain!None \/ Cl("clearTddPhase", Chain!None) \in Left
         /\ state.last = finished \/ Cl("setLastCommand", finished) \in Left
         /\ finished \in Chain!MainCommand =>
              state.next = Chain!CommandAfter(finished)
                \/ Cl("setNextCommand", Chain!CommandAfter(finished)) \in Left
         /\ finished = "ship" => state.complete \/ Cl("setWorkflowComplete", "true") \in Left)'
  <2> SUFFICES ASSUME finished # Chain!None
               PROVE  /\ state'.complete => finished = "ship"
                      /\ state'.activeStep = Chain!None \/ Cl("completeStep", finished) \in Left'
                      /\ state'.current = Chain!None
                           \/ Cl("setCurrentCommand", Chain!None) \in Left'
                      /\ state'.tddPhase = Chain!None \/ Cl("clearTddPhase", Chain!None) \in Left'
                      /\ state'.last = finished \/ Cl("setLastCommand", finished) \in Left'
                      /\ finished \in Chain!MainCommand =>
                          state'.next = Chain!CommandAfter(finished)
                            \/ Cl("setNextCommand", Chain!CommandAfter(finished)) \in Left'
                      /\ finished = "ship" => state'.complete
                           \/ Cl("setWorkflowComplete", "true") \in Left'
    BY <1>1
  <2>1. /\ h.op \in {"prepareForNewSession", "setSupervisor", "completeStep",
             "setCurrentCommand", "clearTddPhase",
                     "setLastCommand", "setNextCommand", "setWorkflowComplete"}
        /\ h.op = "setNextCommand" => h = Cl("setNextCommand", Chain!CommandAfter(finished))
        /\ h.op = "setLastCommand" => h = Cl("setLastCommand", finished)
        /\ h.op = "completeStep" => h = Cl("completeStep", finished)
        /\ h.op = "clearTddPhase" => h = Cl("clearTddPhase", Chain!None)
        /\ h.op = "setCurrentCommand" => h = Cl("setCurrentCommand", Chain!None)
        /\ h.op = "setWorkflowComplete" => h = Cl("setWorkflowComplete", "true")
             /\ finished = "ship"
    BY <1>2, <1>3, <1>4 DEF CompleteSet, NextSet
  <2>2. state'.complete => finished = "ship" BY <2>1, <1>4, <1>5, <1>12 DEF WorkInv
  <2>3. state'.activeStep = Chain!None \/ Cl("completeStep", finished) \in Left' BY <2>1, <1>1,
          <1>4, <1>5, <1>12 DEF WorkInv
  <2>4. state'.current = Chain!None \/ Cl("setCurrentCommand", Chain!None) \in Left' BY <2>1,
          <1>1, <1>4, <1>5, <1>12 DEF WorkInv
  <2>5. state'.tddPhase = Chain!None \/ Cl("clearTddPhase", Chain!None) \in Left' BY <2>1, <1>1,
          <1>4, <1>5, <1>12 DEF WorkInv
  <2>6. state'.last = finished \/ Cl("setLastCommand", finished) \in Left' BY <2>1, <1>1, <1>4,
          <1>5, <1>12 DEF WorkInv
  <2>7. finished \in Chain!MainCommand =>
          state'.next = Chain!CommandAfter(finished)
            \/ Cl("setNextCommand", Chain!CommandAfter(finished)) \in Left'
    <3> SUFFICES ASSUME finished \in Chain!MainCommand
                 PROVE state'.next = Chain!CommandAfter(finished)
                         \/ Cl("setNextCommand", Chain!CommandAfter(finished)) \in Left'
      OBVIOUS
    <3>1. state.next = Chain!CommandAfter(finished)
            \/ Cl("setNextCommand", Chain!CommandAfter(finished)) \in Left BY DEF WorkInv
    <3>2. CASE h.op \in {"setNextCommand", "completeStep"} BY <2>1, <3>2, <1>4, <1>5, <1>12
    <3>3. CASE h.op \notin {"setNextCommand", "completeStep"}
      <4>1. state'.next = state.next BY <2>1, <3>3, <1>5, <1>12
      <4> QED BY <3>1, <3>3, <4>1, <1>1, <1>4
    <3> QED BY <3>2, <3>3
  <2>8. finished = "ship" => state'.complete \/ Cl("setWorkflowComplete", "true") \in Left'
    <3> SUFFICES ASSUME finished = "ship" PROVE state'.complete
                          \/ Cl("setWorkflowComplete", "true") \in Left'
      OBVIOUS
    <3>1. state.complete \/ Cl("setWorkflowComplete", "true") \in Left BY DEF WorkInv
    <3>2. CASE h = Cl("setWorkflowComplete", "true") BY <3>2, <1>12
    <3>3. CASE h # Cl("setWorkflowComplete", "true")
      <4>1. h.op \notin {"setWorkflowComplete", "setActiveStep", "reset"} BY <2>1, <3>3
      <4>2. state'.complete = state.complete BY <4>1, <1>12
      <4> QED BY <3>1, <3>3, <4>2, <1>1
    <3> QED BY <3>2, <3>3
  <2> QED BY <2>2, <2>3, <2>4, <2>5, <2>6, <2>7, <2>8
<1> QED BY <1>7, <1>8, <1>9, <1>10, <1>11 DEF WorkInv

LEMMA WorkStep == ASSUME ScriptInv, ScriptInv', WorkInv, [Chain!Next]_chainVars PROVE WorkInv'
<1> USE NoneIsNoCommand
<1>0. \A o, a : Cl(o, a).op = o /\ Cl(o, a).arg = a BY DEF Cl
<1>1. CASE CallFacts BY <1>1, WorkCall
<1>2. CASE MissFacts
  <2>1. faults' = faults + 1 /\ faults \in Nat BY <1>2 DEF MissFacts, ScriptInv
  <2> QED BY <2>1 DEF WorkInv
<1>3. CASE Begins
  <2> SUFFICES ASSUME faults = 0 PROVE WorkInv' BY <1>3 DEF Begins, WorkInv
  <2>1. Left = {} /\ UNCHANGED <<state, faults>> BY <1>3 DEF Begins
  <2>2. finished' # Chain!None => stage' = "idle" BY DEF ScriptInv
  <2>3. /\ state.complete => state.last = "ship" /\ state.next = Chain!None
        /\ stage \in {"merged", "running"} => ~state.complete
    BY <2>1 DEF WorkInv
  <2>4. CASE stage' = "idle" /\ finished' = cmd /\ Left' = CompleteSet(cmd)
               /\ stage \in {"running", "merged"}
    <3>1. /\ Cl("completeStep", cmd) \in Left' /\ Cl("setLastCommand", cmd) \in Left'
          /\ Cl("setCurrentCommand", Chain!None) \in Left'
               /\ Cl("clearTddPhase", Chain!None) \in Left'
          /\ cmd \in Chain!MainCommand => Cl("setNextCommand", Chain!CommandAfter(cmd)) \in Left'
          /\ cmd = "ship" => Cl("setWorkflowComplete", "true") \in Left'
      BY <2>4 DEF CompleteSet, NextSet
    <3> QED BY <2>1, <2>3, <2>4, <3>1 DEF WorkInv
  <2>5. CASE stage' = "running" /\ Left' = StartSet(cmd) /\ cmd' = cmd
    <3>1. Cl("setActiveStep", cmd) \in Left' /\ Cl("setCurrentCommand", cmd) \in Left'
            /\ Cl("clearTddPhase", Chain!None) \in Left'
      BY <2>5 DEF StartSet
    <3> QED BY <2>1, <2>2, <2>3, <2>5, <3>1 DEF WorkInv
  <2>6. CASE stage' = "prompted" BY <2>1, <2>2, <2>3, <2>6 DEF WorkInv
  <2>7. CASE stage' = "merged" /\ stage = "running" BY <2>1, <2>2, <2>3, <2>7 DEF WorkInv
  <2>8. CASE stage' = "idle" /\ finished' = finished
    BY <2>1, <2>3, <2>8 DEF WorkInv
  <2>9. CASE /\ stage' = stage /\ cmd' = cmd /\ finished' = finished
             /\ \A c \in Left' : c.op \in {"setSupervisor", "setTddPhase"}
    <3>1. Cl("setActiveStep", cmd) \notin Left' BY <2>9, <1>0
    <3> QED BY <2>1, <2>3, <2>9, <3>1 DEF WorkInv
  <2>10. \A p : \A c \in {Cl("setSupervisor", "idle"),
           Cl("setTddPhase", p)} : c.op \in {"setSupervisor", "setTddPhase"}
    BY <1>0
  <2> QED BY <1>3, <2>4, <2>5, <2>6, <2>7, <2>8, <2>9, <2>10 DEF Begins
<1>4. CASE UNCHANGED chainVars /\ UNCHANGED <<Left, Allowed>>
  <2>1. UNCHANGED <<state, cmd, stage, finished, faults, Left>> BY <1>4 DEF chainVars
  <2> HIDE DEF Left
  <2> QED BY <2>1 DEF WorkInv
<1> QED BY <1>1, <1>2, <1>3, <1>4, ChainSteps

\* What the line shows follows from the state when the hooks are done.
LEMMA LineShows ==
  ASSUME ScriptInv, WorkInv
  PROVE  Chain!LineShowsCommand /\ Chain!LineShowsResult /\ Chain!DoneMeansShipped
<1> USE NoneIsNoCommand
<1>1. Chain!DoneMeansShipped BY DEF Chain!DoneMeansShipped, WorkInv
<1>2. Chain!LineShowsCommand
  <2> SUFFICES ASSUME stage = "running", script = <<>>, faults = 0
               PROVE Chain!Line[1] = cmd
                       \/ (cmd = "build" /\ Chain!Line[1] = "TDD"
                          /\ state.chain[Chain!Line[2]] = "active")
    BY DEF Chain!LineShowsCommand
  <2>1. Left = {} BY NothingLeft
  <2>2. /\ ~state.complete /\ state.current = cmd /\ cmd # Chain!None
        /\ state.tddPhase = Chain!None
             \/ (cmd = "build" /\ state.chain[state.tddPhase] = "active")
    BY <2>1 DEF WorkInv, ScriptInv
  <2>3. CASE state.tddPhase = Chain!None
    <3>1. Chain!Line = IF state.next \notin {Chain!None, cmd} THEN <<cmd, "to",
            state.next>> ELSE <<cmd>>
      BY <2>2, <2>3 DEF Chain!Line
    <3> QED BY <3>1
  <2>4. CASE state.tddPhase # Chain!None
    <3>1. Chain!Line = <<"TDD", state.tddPhase>> BY <2>2, <2>4 DEF Chain!Line
    <3> QED BY <2>2, <2>4, <3>1
  <2> QED BY <2>3, <2>4
<1>3. Chain!LineShowsResult
  <2> SUFFICES ASSUME stage = "idle", script = <<>>, faults = 0, finished \in Chain!MainCommand
               PROVE Chain!Line = IF finished = "ship" THEN <<"DONE">> ELSE <<finished, "to",
                       Chain!CommandAfter(finished)>>
    BY DEF Chain!LineShowsResult
  <2>1. Left = {} BY NothingLeft
  <2>2. /\ state.complete <=> finished = "ship"
        /\ state.activeStep = Chain!None /\ state.current = Chain!None
             /\ state.tddPhase = Chain!None /\ state.last = finished
        /\ state.next = Chain!CommandAfter(finished)
    BY <2>1 DEF WorkInv
  <2>3. CASE finished = "ship" BY <2>2, <2>3 DEF Chain!Line
  <2>4. CASE finished # "ship"
    <3>1. Chain!CommandAfter(finished) # Chain!None BY <2>4 DEF Chain!MainCommand,
            Chain!CommandAfter, Chain!None
    <3>2. finished # Chain!None OBVIOUS
    <3> QED BY <2>2, <2>4, <3>1, <3>2 DEF Chain!Line
  <2> QED BY <2>3, <2>4
<1> QED BY <1>1, <1>2, <1>3

-----------------------------------------------------------------------------
(* The chain of steps: which steps are done, active and pending.           *)

\* Up to one failure there is no active ship while a build runs, for the prompt
\* and the start both set the step.
StepInv ==
  /\ \A j, k \in Chain!Design : state.chain[j] = "active" /\ state.chain[k] = "active" => j = k
  /\ faults <= 1 =>
       \A j, k \in Chain!ChainStep \ Chain!Design : state.chain[j] = "active"
         /\ state.chain[k] = "active" => j = k
  /\ cmd = "build" /\ stage = "prompted" /\ faults = 0 =>
       state.chain["ship"] # "active" \/ Cl("setActiveStep", cmd) \in Left
  /\ cmd = "build" /\ stage = "running" /\ faults <= 1 =>
       state.chain["ship"] # "active" \/ (faults = 1 /\ Cl("setActiveStep", cmd) \in Left)
  /\ stage = "running" /\ faults = 0 /\ cmd \in Chain!ChainStep
       /\ Cl("setActiveStep", cmd) \notin Left =>
       /\ state.chain[cmd] = "active"
       /\ \A k \in Chain!Before(Chain!ChainOrder, cmd) : state.chain[k] = "done"
       /\ \A k \in Chain!After(Chain!ChainOrder, cmd) : state.chain[k] = "pending"

\* The order of the chain, by its members.
LEMMA TheSteps ==
  /\ DOMAIN Chain!ChainOrder = 1..14 /\ DOMAIN Chain!BuildPhases = 1..7
  /\ Chain!ChainStep = {"ideate", "requirements", "apiDesign", "dataModel", "adr", "plan",
       "acceptance",
                  "red", "mock", "green", "refactor", "integration", "contract", "ship"}
  /\ Chain!BuildPhase = {"acceptance", "red", "mock", "green", "refactor", "integration",
       "contract"}
  /\ \A i, j \in 1..14 : Chain!ChainOrder[i] = Chain!ChainOrder[j] => i = j
  /\ \A i, j \in 1..7 : Chain!BuildPhases[i] = Chain!BuildPhases[j] => i = j
  /\ Chain!ChainStep \subseteq Chain!Key /\ Chain!Design \subseteq Chain!ChainStep
       /\ "build" \notin Chain!ChainStep
<1>1. DOMAIN Chain!ChainOrder = 1..14 /\ DOMAIN Chain!BuildPhases = 1..7 BY DEF Chain!ChainOrder,
        Chain!BuildPhases
<1>2. Chain!ChainStep = {"ideate", "requirements", "apiDesign", "dataModel", "adr", "plan",
        "acceptance",
                  "red", "mock", "green", "refactor", "integration", "contract", "ship"}
  <2>1. 1..14 = {1, 2, 3, 4, 5, 6, 7, 8, 9, 10, 11, 12, 13, 14} OBVIOUS
  <2>2. Chain!ChainStep = {Chain!ChainOrder[1], Chain!ChainOrder[2], Chain!ChainOrder[3],
          Chain!ChainOrder[4], Chain!ChainOrder[5], Chain!ChainOrder[6], Chain!ChainOrder[7],
                     Chain!ChainOrder[8], Chain!ChainOrder[9], Chain!ChainOrder[10],
                       Chain!ChainOrder[11], Chain!ChainOrder[12], Chain!ChainOrder[13],
                       Chain!ChainOrder[14]}
    BY <1>1, <2>1 DEF Chain!ChainStep
  <2> QED BY <2>2 DEF Chain!ChainOrder
<1>3. Chain!BuildPhase = {"acceptance", "red", "mock", "green", "refactor", "integration",
        "contract"}
  <2>1. 1..7 = {1, 2, 3, 4, 5, 6, 7} OBVIOUS
  <2>2. Chain!BuildPhase = {Chain!BuildPhases[1], Chain!BuildPhases[2], Chain!BuildPhases[3],
          Chain!BuildPhases[4], Chain!BuildPhases[5], Chain!BuildPhases[6], Chain!BuildPhases[7]}
    BY <1>1, <2>1 DEF Chain!BuildPhase
  <2> QED BY <2>2 DEF Chain!BuildPhases
<1>4. \A i, j \in 1..14 : Chain!ChainOrder[i] = Chain!ChainOrder[j] => i = j BY
        DEF Chain!ChainOrder
<1>5. \A i, j \in 1..7 : Chain!BuildPhases[i] = Chain!BuildPhases[j] => i = j BY
        DEF Chain!BuildPhases
<1>6. Chain!ChainStep \subseteq Chain!Key BY DEF Chain!Key
<1>7. Chain!Design \subseteq Chain!ChainStep /\ "build" \notin Chain!ChainStep BY <1>2
        DEF Chain!Design
<1> QED BY <1>1, <1>2, <1>3, <1>4, <1>5, <1>6, <1>7

\* A sequence without repetitions is cut in three by each of its members.
LEMMA CutInThree ==
  ASSUME NEW q, NEW n \in Nat, DOMAIN q = 1..n, Len(q) = n, \A i, j \in 1..n : q[i] = q[j] =>
           i = j,
         NEW k \in 1..n
  PROVE  /\ q[k] \notin Chain!Before(q, q[k]) /\ q[k] \notin Chain!After(q, q[k])
         /\ Chain!Before(q, q[k]) \cap Chain!After(q, q[k]) = {}
         /\ {q[i] : i \in 1..n} = Chain!Before(q, q[k]) \cup {q[k]} \cup Chain!After(q, q[k])
<1>1. Chain!Position(q, q[k]) = k
  <2>1. \E i \in DOMAIN q : q[i] = q[k] OBVIOUS
  <2>2. Chain!Position(q, q[k]) \in DOMAIN q /\ q[Chain!Position(q, q[k])] = q[k] BY <2>1
          DEF Chain!Position
  <2> QED BY <2>2
<1>2. Chain!Before(q, q[k]) = {q[i] : i \in 1..(k - 1)} BY <1>1 DEF Chain!Before
<1>3. Chain!After(q, q[k]) = {q[i] : i \in (k + 1)..n} BY <1>1 DEF Chain!After
<1>4. \A x \in Chain!Before(q, q[k]) : \E i \in 1..n : i < k /\ x = q[i] BY <1>2
<1>5. \A x \in Chain!After(q, q[k]) : \E i \in 1..n : i > k /\ x = q[i] BY <1>3
<1>6. q[k] \notin Chain!Before(q, q[k]) BY <1>4
<1>7. q[k] \notin Chain!After(q, q[k]) BY <1>5
<1>8. \A x : ~(x \in Chain!Before(q, q[k]) /\ x \in Chain!After(q, q[k]))
  <2> SUFFICES ASSUME NEW x, x \in Chain!Before(q, q[k]), x \in Chain!After(q, q[k])
                        PROVE FALSE OBVIOUS
  <2>1. PICK i \in 1..n : i < k /\ x = q[i] BY <1>4
  <2>2. PICK j \in 1..n : j > k /\ x = q[j] BY <1>5
  <2>3. i = j BY <2>1, <2>2
  <2> QED BY <2>1, <2>2, <2>3
<1>9. {q[i] : i \in 1..n} = Chain!Before(q, q[k]) \cup {q[k]} \cup Chain!After(q, q[k])
  <2>1. \A i \in 1..n : q[i] \in Chain!Before(q, q[k]) \cup {q[k]} \cup Chain!After(q, q[k])
    <3> SUFFICES ASSUME NEW i \in 1..n PROVE q[i] \in Chain!Before(q,
                          q[k]) \cup {q[k]} \cup Chain!After(q, q[k]) OBVIOUS
    <3>1. i < k => i \in 1..(k - 1) OBVIOUS
    <3>2. i > k => i \in (k + 1)..n OBVIOUS
    <3>3. i = k \/ i < k \/ i > k OBVIOUS
    <3> QED BY <3>1, <3>2, <3>3, <1>2, <1>3
  <2>2. \A x \in Chain!Before(q, q[k]) \cup {q[k]} \cup Chain!After(q,
          q[k]) : x \in {q[i] : i \in 1..n}
    BY <1>4, <1>5
  <2> QED BY <2>1, <2>2
<1> QED BY <1>6, <1>7, <1>8, <1>9

LEMMA CutChain ==
  ASSUME NEW k \in Chain!ChainStep
  PROVE  /\ k \notin Chain!Before(Chain!ChainOrder, k)
              /\ k \notin Chain!After(Chain!ChainOrder, k)
         /\ Chain!Before(Chain!ChainOrder, k) \cap Chain!After(Chain!ChainOrder, k) = {}
         /\ Chain!ChainStep = Chain!Before(Chain!ChainOrder,
              k) \cup {k} \cup Chain!After(Chain!ChainOrder, k)
<1>1. Chain!ChainStep = {Chain!ChainOrder[i] : i \in 1..14} BY TheSteps DEF Chain!ChainStep
<1>2. PICK i \in 1..14 : k = Chain!ChainOrder[i] BY <1>1
<1>3. Len(Chain!ChainOrder) = 14 BY DEF Chain!ChainOrder
<1> QED BY <1>1, <1>2, <1>3, TheSteps, CutInThree, ZenonT(30)

LEMMA CutBuild ==
  ASSUME NEW k \in Chain!BuildPhase
  PROVE  /\ k \notin Chain!Before(Chain!BuildPhases, k)
              /\ k \notin Chain!After(Chain!BuildPhases, k)
         /\ Chain!BuildPhase = Chain!Before(Chain!BuildPhases,
              k) \cup {k} \cup Chain!After(Chain!BuildPhases, k)
<1>1. Chain!BuildPhase = {Chain!BuildPhases[i] : i \in 1..7} BY TheSteps DEF Chain!BuildPhase
<1>2. PICK i \in 1..7 : k = Chain!BuildPhases[i] BY <1>1
<1>3. Len(Chain!BuildPhases) = 7 BY DEF Chain!BuildPhases
<1>4. DOMAIN Chain!BuildPhases = 1..7 /\ \A j,
        l \in 1..7 : Chain!BuildPhases[j] = Chain!BuildPhases[l] => j = l BY TheSteps
<1>5. /\ Chain!BuildPhases[i] \notin Chain!Before(Chain!BuildPhases, Chain!BuildPhases[i])
           /\ Chain!BuildPhases[i] \notin Chain!After(Chain!BuildPhases, Chain!BuildPhases[i])
      /\ {Chain!BuildPhases[j] : j \in 1..7} = Chain!Before(Chain!BuildPhases,
           Chain!BuildPhases[i]) \cup {Chain!BuildPhases[i]}
                                        \cup Chain!After(Chain!BuildPhases, Chain!BuildPhases[i])
  BY <1>3, <1>4, CutInThree
<1> QED BY <1>1, <1>2, <1>5

\* What the two setters that mark steps leave active.
LEMMA ActiveStepMarks ==
  ASSUME NEW s \in State, NEW k \in Chain!Key
  PROVE  LET m == Chain!SetActiveStep(s, k).chain
         IN /\ k = "build" => /\ \A d \in Chain!Design : m[d] = s.chain[d]
                              /\ \A j \in Chain!ChainStep \ Chain!Design : m[j] = "active" =>
                                   j = "acceptance"
            /\ k # "build" => \A j \in Chain!ChainStep : m[j] = "active" => j = k
            /\ k \in Chain!ChainStep =>
                 /\ m[k] = "active"
                 /\ \A j \in Chain!Before(Chain!ChainOrder, k) : m[j] = "done"
                 /\ \A j \in Chain!After(Chain!ChainOrder, k) : m[j] = "pending"
<1> DEFINE m == Chain!SetActiveStep(s, k).chain
<1>1. CASE k = "build"
  <2>1. m = Chain!Marked(s.chain, {"ideate", "plan"}, "acceptance",
          (Chain!BuildPhase \ {"acceptance"}) \cup {"ship"})
    BY <1>1 DEF Chain!SetActiveStep, State
  <2>2. \A j \in Chain!Key : m[j] = IF j \in {"ideate",
          "plan"} THEN "done" ELSE IF j = "acceptance" THEN "active"
                              ELSE IF j \in (Chain!BuildPhase \ {"acceptance"}) \cup {"ship"} THEN "pending" ELSE s.chain[j]
    BY <2>1 DEF Chain!Marked
  <2> HIDE DEF m
  <2>3. \A d \in Chain!Design : d \in Chain!Key
          /\ d \notin Chain!BuildPhase \cup {"ship", "ideate", "plan"}
    BY TheSteps DEF Chain!Design
  <2>4. \A j \in Chain!ChainStep \ Chain!Design : j \in Chain!Key
          /\ j \in Chain!BuildPhase \cup {"ship", "ideate", "plan"}
    BY TheSteps DEF Chain!Design
  <2>5. "acceptance" \in Chain!BuildPhase BY TheSteps
  <2> QED BY <1>1, <2>2, <2>3, <2>4, <2>5, TheSteps DEF m
<1>2. CASE k \in Chain!ChainStep /\ k # "build"
  <2>1. m = Chain!Marked(s.chain, Chain!Before(Chain!ChainOrder, k), k,
          Chain!After(Chain!ChainOrder, k))
    BY <1>2 DEF Chain!SetActiveStep, State
  <2>2. \A j \in Chain!Key : m[j] = IF j \in Chain!Before(Chain!ChainOrder,
          k) THEN "done" ELSE IF j = k THEN "active"
                              ELSE IF j \in Chain!After(Chain!ChainOrder,
                                k) THEN "pending" ELSE s.chain[j]
    BY <2>1 DEF Chain!Marked
  <2> HIDE DEF m
  <2>3. Chain!ChainStep \subseteq Chain!Key BY TheSteps
  <2> QED BY <1>2, <2>2, <2>3, CutChain DEF m
<1>3. CASE k \notin Chain!ChainStep /\ k # "build"
  <2>1. m = Chain!Marked(s.chain, {}, k, Chain!ChainStep)
    BY <1>3 DEF Chain!SetActiveStep, State
  <2>2. \A j \in Chain!Key : m[j] = IF j = k THEN "active" ELSE IF j \in Chain!ChainStep THEN "pending" ELSE s.chain[j]
    BY <2>1 DEF Chain!Marked
  <2> HIDE DEF m
  <2>3. Chain!ChainStep \subseteq Chain!Key BY TheSteps
  <2> QED BY <1>3, <2>2, <2>3 DEF m
<1> QED BY <1>1, <1>2, <1>3

LEMMA PhaseMarks ==
  ASSUME NEW s \in State, NEW p \in Phase
  PROVE  LET m == Chain!SetTddPhase(s, p).chain
         IN /\ m["ship"] = s.chain["ship"]
            /\ \A d \in Chain!Design : m[d] = s.chain[d]
            /\ \A j \in Chain!ChainStep \ Chain!Design : m[j] = "active" => j \in {p, "ship"}
<1> DEFINE m == Chain!SetTddPhase(s, p).chain
<1>1. m = Chain!Marked(s.chain, {"ideate", "plan"} \cup Chain!Before(Chain!BuildPhases, p), p,
        Chain!After(Chain!BuildPhases, p))
  BY DEF Chain!SetTddPhase, State
<1>2. p \in Chain!BuildPhase BY HookAssumption, TheSteps
<1>3. \A j \in Chain!Key : m[j] = IF j \in {"ideate",
        "plan"} \cup Chain!Before(Chain!BuildPhases, p) THEN "done" ELSE IF j = p THEN "active"
                            ELSE IF j \in Chain!After(Chain!BuildPhases,
                              p) THEN "pending" ELSE s.chain[j]
  BY <1>1 DEF Chain!Marked
<1> HIDE DEF m
<1>4. Chain!BuildPhase = Chain!Before(Chain!BuildPhases,
        p) \cup {p} \cup Chain!After(Chain!BuildPhases, p) BY <1>2, CutBuild
<1>5. "ship" \in Chain!Key /\ "ship" \notin Chain!BuildPhase /\ "ship" \notin {"ideate", "plan"}
        BY TheSteps
<1>6. \A d \in Chain!Design : d \in Chain!Key
        /\ d \notin Chain!BuildPhase \cup {"ship", "ideate", "plan"} BY TheSteps DEF Chain!Design
<1>7. \A j \in Chain!ChainStep \ Chain!Design : j \in Chain!Key
        /\ j \in Chain!BuildPhase \cup {"ship", "ideate", "plan"} BY TheSteps DEF Chain!Design
<1> QED BY <1>3, <1>4, <1>5, <1>6, <1>7 DEF m

LEMMA StepCall == ASSUME ScriptInv, StepInv, CallFacts PROVE StepInv'
<1> DEFINE h == Head(script)
<1> USE NoneIsNoCommand
<1>1. /\ h \in CallType /\ h \in Left /\ h \in Allowed /\ Left = Left' \cup {h}
           /\ SetsFields(state, h, state')
      /\ \A c \in Left' : c.op \notin {"setActiveStep", "completeStep", "setTddPhase"}
      /\ h = Cl("setWorkflowComplete", "true") \/ h.op = "setTddPhase" => Left' = {}
      /\ UNCHANGED <<cmd, stage, finished, faults>>
  BY DEF CallFacts
<1>2. /\ stage \in {"idle", "prompted", "running", "merged"} /\ state \in State
      /\ finished # Chain!None => stage = "idle" /\ finished \in Command
      /\ stage # "idle" => cmd \in Command
  BY DEF ScriptInv
<1>3. \A o, a : Cl(o, a).op = o /\ Cl(o, a).arg = a BY DEF Cl
<1>4. /\ h.op = "setActiveStep" => \/ stage = "prompted" /\ Chain!StepOf(cmd) # Chain!None
                                      /\ h = Cl("setActiveStep", Chain!StepOf(cmd))
                                   \/ stage = "running" /\ h = Cl("setActiveStep", cmd)
      /\ h.op = "setTddPhase" => stage = "running" /\ cmd = "build" /\ h.arg \in Phase
      /\ h.op = "completeStep" => stage = "idle" /\ h.arg = finished /\ finished # Chain!None
      /\ h.op = "reset" => stage = "merged"
  BY <1>1, <1>2, <1>3 DEF Allowed, PromptSet, StartSet, CompleteSet, NextSet
<1>5. state'.chain = IF h.op = "setActiveStep" THEN Chain!SetActiveStep(state, h.arg).chain
                     ELSE IF h.op = "setTddPhase" THEN Chain!SetTddPhase(state, h.arg).chain
                     ELSE IF h.op = "completeStep" THEN [state.chain EXCEPT ![h.arg] = "done"]
                     ELSE IF h.op = "reset" THEN Chain!DefaultState.chain ELSE state.chain
  BY <1>1 DEF SetsFields
<1>6. Cl("setActiveStep", cmd) \notin Left' BY <1>1, <1>3
<1>7. state.chain \in [Chain!Key -> Mark] /\ Chain!ChainStep \subseteq Chain!Key
        /\ Chain!Design \subseteq Chain!ChainStep /\ "build" \notin Chain!ChainStep
      /\ "ship" \in Chain!ChainStep \ Chain!Design
  BY <1>2, TheSteps DEF State, Chain!Design
<1> HIDE DEF h
<1>8. CASE h.op = "setActiveStep"
  <2> DEFINE k == h.arg
             m == Chain!SetActiveStep(state, k).chain
  <2>1. k \in Chain!Key /\ state'.chain = m
    <3>1. Chain!StepOf(cmd) # Chain!None /\ cmd \in Command => Chain!StepOf(cmd) \in Chain!Key
            BY CommandIs
    <3>2. cmd \in Command => cmd \in Chain!Key BY CommandIs
    <3> QED BY <3>1, <3>2, <1>2, <1>3, <1>4, <1>5, <1>8
  <2>2. /\ k = "build" => /\ \A d \in Chain!Design : m[d] = state.chain[d]
                          /\ \A j \in Chain!ChainStep \ Chain!Design : m[j] = "active" =>
                               j = "acceptance"
        /\ k # "build" => \A j \in Chain!ChainStep : m[j] = "active" => j = k
        /\ k \in Chain!ChainStep =>
              /\ m[k] = "active"
              /\ \A j \in Chain!Before(Chain!ChainOrder, k) : m[j] = "done"
              /\ \A j \in Chain!After(Chain!ChainOrder, k) : m[j] = "pending"
    BY <2>1, <1>2, ActiveStepMarks
  <2>3. cmd = "build" => k = "build"
    <3>1. Chain!StepOf("build") = "build" BY DEF Chain!StepOf, Chain!None
    <3> QED BY <3>1, <1>3, <1>4, <1>8
  <2>4. stage = "running" => k = cmd BY <1>3, <1>4, <1>8
  <2> HIDE DEF k, m
  <2>5. \A i, j \in Chain!Design : m[i] = "active" /\ m[j] = "active" => i = j
    BY <2>2, <1>7 DEF StepInv
  <2>6. \A i, j \in Chain!ChainStep \ Chain!Design : m[i] = "active" /\ m[j] = "active" => i = j
    BY <2>2
  <2>7. cmd = "build" => m["ship"] # "active" BY <2>2, <2>3, <1>7
  <2>8. stage = "running" /\ cmd \in Chain!ChainStep =>
          /\ m[cmd] = "active"
          /\ \A j \in Chain!Before(Chain!ChainOrder, cmd) : m[j] = "done"
          /\ \A j \in Chain!After(Chain!ChainOrder, cmd) : m[j] = "pending"
    <3> SUFFICES ASSUME stage = "running", cmd \in Chain!ChainStep
                 PROVE  /\ m[cmd] = "active"
                        /\ \A j \in Chain!Before(Chain!ChainOrder, cmd) : m[j] = "done"
                        /\ \A j \in Chain!After(Chain!ChainOrder, cmd) : m[j] = "pending"
      OBVIOUS
    <3>1. k = cmd BY <2>4
    <3> QED BY <3>1, <2>2
  <2>9. UNCHANGED <<cmd, stage, faults>> BY <1>1
  <2>10. state'.chain = m BY <2>1
  <2> QED BY <2>5, <2>6, <2>7, <2>8, <2>9, <2>10 DEF StepInv
<1>9. CASE h.op = "setTddPhase"
  <2> DEFINE p == h.arg
             m == Chain!SetTddPhase(state, p).chain
  <2>1. p \in Phase /\ state'.chain = m /\ stage = "running" /\ cmd = "build" BY <1>4, <1>5, <1>9
  <2>2. /\ m["ship"] = state.chain["ship"]
        /\ \A d \in Chain!Design : m[d] = state.chain[d]
        /\ \A j \in Chain!ChainStep \ Chain!Design : m[j] = "active" => j \in {p, "ship"}
    BY <2>1, <1>2, PhaseMarks
  <2> HIDE DEF p, m
  <2>3. Cl("setActiveStep", cmd) \notin Left BY <1>1, <1>3, <1>9
  <2>4. faults <= 1 => state.chain["ship"] # "active" BY <2>1, <2>3 DEF StepInv
  <2>5. \A i, j \in Chain!Design : m[i] = "active" /\ m[j] = "active" => i = j BY <2>2 DEF StepInv
  <2>6. faults <= 1 => \A i, j \in Chain!ChainStep \ Chain!Design : m[i] = "active"
          /\ m[j] = "active" => i = j
    BY <2>2, <2>4
  <2> QED BY <2>1, <2>2, <2>4, <2>5, <2>6, <1>1, <1>7 DEF StepInv
<1>10. CASE h.op = "completeStep"
  <2>1. stage = "idle" /\ h.arg \in Chain!Key BY <1>2, <1>4, <1>10, CommandIs
  <2>2. \A j \in Chain!ChainStep : state'.chain[j] = "active" => state.chain[j] = "active"
    BY <2>1, <1>5, <1>7, <1>10
  <2> QED BY <2>1, <2>2, <1>1, <1>7 DEF StepInv
<1>11. CASE h.op = "reset"
  <2>1. \A j \in Chain!ChainStep : state'.chain[j] # "active" BY <1>5, <1>7, <1>11
          DEF Chain!DefaultState
  <2>2. stage = "merged" BY <1>4, <1>11
  <2> QED BY <2>1, <2>2, <1>1, <1>7 DEF StepInv
<1>12. CASE h.op \notin {"setActiveStep", "setTddPhase", "completeStep", "reset"}
  <2>1. state'.chain = state.chain BY <1>5, <1>12
  <2>2. Cl("setActiveStep", cmd) \notin Left BY <1>1, <1>3, <1>12
  <2>3. /\ UNCHANGED <<cmd, stage, faults>> BY <1>1
  <2> QED BY <2>1, <2>2, <2>3, <1>6 DEF StepInv
<1> QED BY <1>8, <1>9, <1>10, <1>11, <1>12

LEMMA StepStep == ASSUME ScriptInv, ScriptInv', StepInv, [Chain!Next]_chainVars PROVE StepInv'
<1> USE NoneIsNoCommand
<1>1. CASE CallFacts BY <1>1, StepCall
<1>2. CASE MissFacts
  <2>1. faults' = faults + 1 /\ UNCHANGED <<state, cmd, stage, finished>>
          /\ faults \in Nat
    BY <1>2 DEF MissFacts, ScriptInv
  <2>2. faults' <= 1 => faults = 0 /\ faults' = 1 BY <2>1
  <2>3. faults' # 0 BY <2>1
  <2>4. faults = 0 => faults <= 1 OBVIOUS
  <2> QED BY <2>1, <2>2, <2>3, <2>4 DEF StepInv
<1>3. CASE Begins
  <2>1. Left = {} /\ UNCHANGED <<state, faults>> BY <1>3 DEF Begins
  <2>2. faults \in Nat BY DEF ScriptInv
  <2>3. faults <= 1 => faults = 0 \/ faults = 1 BY <2>2
  <2>4. CASE stage' \in {"idle", "merged"} BY <2>1, <2>4 DEF StepInv
  <2>5. CASE stage' = "prompted" /\ cmd' \in Command /\ Left' = PromptSet(cmd')
    <3>1. cmd' = "build" => Cl("setActiveStep", cmd') \in Left' BY <2>5 DEF PromptSet,
            Chain!StepOf, Chain!None
    <3> QED BY <2>1, <2>5, <3>1 DEF StepInv
  <2>6. CASE stage = "prompted" /\ stage' = "running" /\ cmd' = cmd /\ Left' = StartSet(cmd)
    <3>1. Cl("setActiveStep", cmd) \in Left' BY <2>6 DEF StartSet
    <3>2. cmd = "build" /\ faults = 0 => state.chain["ship"] # "active" BY <2>1, <2>6
            DEF StepInv
    <3> QED BY <2>1, <2>3, <2>6, <3>1, <3>2 DEF StepInv
  <2>7. CASE UNCHANGED <<cmd, stage>>
    BY <2>1, <2>7 DEF StepInv
  <2> QED BY <1>3, <2>4, <2>5, <2>6, <2>7 DEF Begins
<1>4. CASE UNCHANGED chainVars /\ UNCHANGED <<Left, Allowed>>
  <2>1. UNCHANGED <<state, cmd, stage, finished, faults, Left>> BY <1>4 DEF chainVars
  <2> HIDE DEF Left
  <2> QED BY <2>1 DEF StepInv
<1> QED BY <1>1, <1>2, <1>3, <1>4, ChainSteps

LEMMA ChainInit == Chain!Init => ScriptInv /\ ArrowInv /\ WorkInv /\ StepInv
<1> SUFFICES ASSUME Chain!Init PROVE ScriptInv /\ ArrowInv /\ WorkInv /\ StepInv OBVIOUS
<1> USE NoneIsNoCommand
<1>1. ScriptInv BY ScriptInit
<1>2. Left = {} BY NothingLeft DEF Chain!Init
<1>3. /\ state.last = Chain!None /\ ~state.complete
      /\ \A k \in Chain!ChainStep : state.chain[k] = "pending"
      /\ cmd = Chain!None /\ stage = "idle" /\ finished = Chain!None /\ faults = 0
  BY TheSteps DEF Chain!Init, Chain!DefaultState
<1>4. ArrowInv BY <1>2, <1>3 DEF ArrowInv, Arrow
<1>5. WorkInv BY <1>2, <1>3 DEF WorkInv
<1>6. StepInv BY <1>2, <1>3, TheSteps DEF StepInv
<1> QED BY <1>1, <1>4, <1>5, <1>6

\* A set whose members are all equal has at most one.
LEMMA AtMostOne == ASSUME NEW S, \A x, y \in S : x = y PROVE Chain!Cardinality(S) <= 1
<1>1. Chain!Cardinality(S) = Cardinality(S) BY DEF Chain!Cardinality, Cardinality
<1>2. CASE S = {} BY <1>1, <1>2, FS_EmptySet
<1>3. CASE S # {}
  <2>1. PICK x \in S : TRUE BY <1>3
  <2>2. S = {x} BY <2>1
  <2>3. Cardinality({x}) = 1 BY FS_Singleton
  <2> QED BY <1>1, <2>2, <2>3
<1> QED BY <1>2, <1>3

LEMMA StepsHold == ASSUME ScriptInv, StepInv PROVE Chain!ChainFollowsStep /\ Chain!OneStepActive
<1>1. Chain!ChainFollowsStep
  <2> SUFFICES ASSUME stage = "running", script = <<>>, faults = 0, cmd \in Chain!ChainStep
               PROVE  /\ state.chain[cmd] = "active"
                      /\ \A k \in Chain!Before(Chain!ChainOrder, cmd) : state.chain[k] = "done"
                      /\ \A k \in Chain!After(Chain!ChainOrder, cmd) : state.chain[k] = "pending"
    BY DEF Chain!ChainFollowsStep
  <2>1. Left = {} BY NothingLeft
  <2> QED BY <2>1 DEF StepInv
<1>2. Chain!OneStepActive
  <2> DEFINE active == {k \in Chain!ChainStep : state.chain[k] = "active"}
  <2>1. ASSUME faults <= 1 PROVE Chain!Cardinality(active \ Chain!Design) <= 1
    <3>1. \A x, y \in active \ Chain!Design : x = y BY <2>1 DEF StepInv
    <3> QED BY <3>1, AtMostOne
  <2>2. Chain!Cardinality(active \cap Chain!Design) <= 1
    <3>1. \A x, y \in active \cap Chain!Design : x = y BY DEF StepInv
    <3> QED BY <3>1, AtMostOne
  <2> QED BY <2>1, <2>2 DEF Chain!OneStepActive
<1> QED BY <1>1, <1>2

LEMMA ArrowHolds == ASSUME ScriptInv, ArrowInv PROVE Chain!NextFollowsLast
<1> SUFFICES ASSUME script = <<>>, state.last \in Chain!MainCommand, CalledSo, Recommended
             PROVE  state.next = Chain!CommandAfter(state.last)
  BY DEF Chain!NextFollowsLast, CalledSo, Recommended
<1> QED BY NothingLeft, ArrowRests DEF Arrow

ChainInv == ScriptInv /\ ArrowInv /\ WorkInv /\ StepInv

\* The four parts of the invariant hold together.
LEMMA ChainHolds == SystemSpec => []ChainInv
<1>1. SystemInit => ChainInv BY PartSteps, ChainInit DEF ChainInv
<1>2. ChainInv /\ [SystemNext]_allVars => ChainInv'
  <2> SUFFICES ASSUME ChainInv, [SystemNext]_allVars PROVE ChainInv' OBVIOUS
  <2>1. [Chain!Next]_chainVars BY PartSteps
  <2>2. ScriptInv' BY <2>1, ChainSteps DEF ChainInv
  <2> QED BY <2>1, <2>2, ArrowStep, WorkStep, StepStep DEF ChainInv
<1> QED BY <1>1, <1>2, PTL DEF SystemSpec

\* notify and oss-log, with the setters they call (hooks/oss-notify.sh, workflow-state.ts):
\* whatever the user asks for, in whatever order, and however many calls have failed and
\* hooks been killed, the command recommended next follows the one called last, unless
\* the last start or completion itself missed the call that says so.
THEOREM RecommendationFollows == SystemSpec => []NextFollowsLast
<1>1. ChainInv => NextFollowsLast BY ArrowHolds DEF ChainInv, NextFollowsLast
<1> QED BY <1>1, ChainHolds, PTL

\* oss-statusline.sh over the same hooks: the status line shows the command Claude works on,
\* or an active phase of its build; its result afterwards; and DONE only after a ship with
\* nothing to follow, as long as no hook is killed and no call fails.
THEOREM LineIsRight == SystemSpec => []LineFollowsWork
<1>1. ChainInv => LineFollowsWork BY LineShows DEF ChainInv, LineFollowsWork
<1> QED BY <1>1, ChainHolds, PTL

\* setActiveStep, setTddPhase and completeStep (workflow-state.ts): while the command of a
\* chain step runs, the steps before it are done and those after it pending; and neither the
\* steps of the design nor the others ever have two that are active.
THEOREM StepsFollow == SystemSpec => []ChainFollowsStep
<1>1. ChainInv => ChainFollowsStep BY StepsHold DEF ChainInv, ChainFollowsStep
<1> QED BY <1>1, ChainHolds, PTL
=============================================================================
