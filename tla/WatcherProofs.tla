----------------------------- MODULE WatcherProofs -----------------------------
(***************************************************************************)
(* Proofs about the parts of MCWatcher, for every value of their           *)
(* constants.  What holds of a part holds of the system: a step of the     *)
(* system is one of the part, or leaves its variables alone (PartSteps).   *)
(***************************************************************************)
EXTENDS MCWatcher, Integers, Sequences, FiniteSetTheorems, WellFoundedInduction, TLAPS

LEMMA PartInits ==
  SystemInit => /\ Init /\ Life!Init /\ Services!Init /\ Rules!Init /\ Laws!Init /\ Build!Init
BY DEF SystemInit

LEMMA PartSteps ==
  [SystemNext]_allVars =>
    /\ [Next]_vars /\ [Life!Next]_lifecycleVars /\ [Services!Next]_servicesVars
    /\ [Rules!Next]_monitorsVars /\ [Laws!Next]_lawsVars
    /\ part' = part
    /\ part = "analysis" => UNCHANGED <<processed, queued, saved>>
    /\ part # "analysis" => [Build!Next]_supervisorVars
<1>1. UNCHANGED allVars =>
        /\ UNCHANGED vars /\ UNCHANGED lifecycleVars /\ UNCHANGED servicesVars
        /\ UNCHANGED monitorsVars /\ UNCHANGED lawsVars /\ UNCHANGED supervisorVars
        /\ UNCHANGED part
  BY DEF allVars
<1>2. SystemNext =>
        /\ [Next]_vars /\ [Life!Next]_lifecycleVars /\ [Services!Next]_servicesVars
        /\ [Rules!Next]_monitorsVars /\ [Laws!Next]_lawsVars
        /\ part' = part
        /\ part # "analysis" => [Build!Next]_supervisorVars
  BY DEF SystemNext
<1>3. SystemNext /\ part = "analysis" => UNCHANGED <<processed, queued, saved>>
  BY DEF SystemNext, Analysis!LogEntry, Analysis!Tick, Analysis!count
<1>4. UNCHANGED supervisorVars => UNCHANGED <<processed, queued, saved>>
  BY DEF supervisorVars
<1> QED BY <1>1, <1>2, <1>3, <1>4

-----------------------------------------------------------------------------
(* queue.json.  For every number of writers, readers, inodes and texts and *)
(* for crashes anywhere, it is a register whose saves are atomic where they *)
(* do not overlap.                                                         *)

\* An inode that no overlapping saves had in hand is complete once it has the name or is
\* being read, and is never written again; before that it is the one writer's own.
FileInv ==
  /\ TypeOK
  /\ main # NoFile => main # temp /\ (main \notin crossed => content[main] \in Value)
  /\ \A w \in Writer :
       /\ wpc[w] = "write" => fd[w] \in Inode /\ (fd[w] = temp \/ fd[w] \in crossed)
       /\ wpc[w] # "write" => fd[w] = NoFile
       /\ wpc[w] # "idle" => text[w] \in Value
       /\ wpc[w] # "idle" /\ temp # NoFile /\ temp \notin crossed =>
            /\ \A u \in Saving : u = w
            /\ wpc[w] = "write" => fd[w] = temp /\ content[temp] = Empty
            /\ wpc[w] = "rename" => content[temp] = text[w]
  /\ \A r \in Reader :
       /\ rpc[r] = "read" => /\ rfd[r] \in Inode /\ rfd[r] # temp
                             /\ rfd[r] \notin crossed => content[rfd[r]] \in Value
       /\ rpc[r] = "idle" => rfd[r] = NoFile
  /\ LoadsCompleteText

\* What the register sees.
registerVars == <<mainValue, gotValue, Saving, saveAlone>>

\* A save under way on an inode of its own is the only one.
LEMMA AloneIs ==
  ASSUME FileInv, NEW w \in Writer, wpc[w] # "idle"
  PROVE  saveAlone = IF temp # NoFile /\ temp \notin crossed THEN {<<w, text[w]>>} ELSE {}
BY DEF FileInv, saveAlone, Saving

\* Opening the temporary file begins a save and touches no file that is complete or
\* being read.
LEMMA OpenTempStep ==
  ASSUME FileInv, NEW w \in Writer, NEW v \in Value, OpenTemp(w, v)
  PROVE  FileInv' /\ Register!Begin(w, v)
<1> USE DistinctContents DEF FileInv, TypeOK
<1>1. PICK i \in IF temp = NoFile THEN Free ELSE {temp} :
        /\ temp' = i
        /\ fd' = [fd EXCEPT ![w] = i]
        /\ content' = [content EXCEPT ![i] = Empty]
        /\ Opens(i)
  BY DEF OpenTemp
<1>2. i \in Inode /\ i # main /\ i # NoFile /\ \A r \in Reader : rfd[r] # i
  BY <1>1 DEF Free
<1>3. /\ wpc[w] = "idle" /\ wpc' = [wpc EXCEPT ![w] = "write"] /\ text' = [text EXCEPT ![w] = v]
      /\ UNCHANGED <<main, rpc, rfd, got, misled>>
  BY DEF OpenTemp, readers
<1>4. Saving' = Saving \cup {w} /\ w \notin Saving
  BY <1>3 DEF Saving
<1>5. \A j \in Inode : j # i => (j \in crossed' <=> j \in crossed)
  BY <1>1 DEF Opens
<1>6. IF Saving = {} THEN i \notin crossed' ELSE i \in crossed'
  BY <1>1 DEF Opens
<1>7. crossed' \subseteq Inode
  BY <1>1, <1>2 DEF Opens
<1>8. TypeOK'
  BY <1>1, <1>2, <1>3, <1>7
<1>9. \A u \in Writer : u # w /\ wpc[u] = "write" => fd[u] \in crossed' \/ fd[u] = temp'
  <2> SUFFICES ASSUME NEW u \in Writer, u # w, wpc[u] = "write"
               PROVE  fd[u] \in crossed' \/ fd[u] = temp'
    OBVIOUS
  <2>1. Saving # {} BY DEF Saving
  <2>2. fd[u] \in Inode /\ (fd[u] = temp \/ fd[u] \in crossed) BY <1>3
  <2>3. CASE fd[u] = temp BY <2>2, <2>3, <1>1
  <2>4. CASE fd[u] \in crossed BY <2>2, <2>4, <1>5, <1>6, <2>1
  <2> QED BY <2>2, <2>3, <2>4
<1>10. \A u \in Writer : Saving = {} => wpc[u] = "idle"
  BY DEF Saving
<1>11. LoadsCompleteText'
  BY <1>3 DEF LoadsCompleteText
<1>12. main # NoFile => main # temp' /\ (main \notin crossed' => content'[main] \in Value)
  BY <1>1, <1>2, <1>5
<1>13. \A r \in Reader : rpc[r] = "read" =>
          /\ rfd[r] \in Inode /\ rfd[r] # temp'
          /\ rfd[r] \notin crossed' => content'[rfd[r]] \in Value
  BY <1>1, <1>2, <1>5
<1>14. \A u \in Writer :
          /\ wpc'[u] = "write" => fd'[u] \in Inode /\ (fd'[u] = temp' \/ fd'[u] \in crossed')
          /\ wpc'[u] # "write" => fd'[u] = NoFile
          /\ wpc'[u] # "idle" => text'[u] \in Value
  BY <1>1, <1>2, <1>3, <1>9
<1>15. ASSUME temp' \notin crossed', NEW u \in Writer, wpc'[u] # "idle"
       PROVE  /\ u = w /\ Saving' = {w} /\ fd'[u] = temp' /\ content'[temp'] = Empty
              /\ wpc'[u] = "write"
  <2>1. Saving = {} BY <1>1, <1>6, <1>15
  <2> QED BY <2>1, <1>1, <1>2, <1>3, <1>4, <1>10, <1>15
<1>16. FileInv'
  BY <1>3, <1>8, <1>11, <1>12, <1>13, <1>14, <1>15
<1>17. mainValue' = mainValue
  BY <1>1, <1>2, <1>3, <1>5 DEF mainValue, ContentsOf
<1>18. gotValue' = gotValue
  BY <1>1, <1>2, <1>3, <1>5 DEF gotValue, ContentsOf
<1>19. saveAlone' = IF Saving = {} THEN {<<w, v>>} ELSE {}
  <2>1. wpc'[w] # "idle" /\ text'[w] = v /\ temp' = i
    BY <1>1, <1>3
  <2>2. Saving = {} => Saving' = {w}
    BY <1>4
  <2> QED BY <2>1, <2>2, <1>2, <1>6 DEF saveAlone
<1> QED BY <1>4, <1>16, <1>17, <1>18, <1>19 DEF Register!Begin

\* Writing the text completes an inode of the writer's own, or changes one that others
\* had in hand; the register sees nothing of it.
LEMMA WriteTempStep ==
  ASSUME FileInv, NEW w \in Writer, WriteTemp(w)
  PROVE  FileInv' /\ UNCHANGED registerVars
<1> USE DistinctContents DEF FileInv, TypeOK
<1>1. PICK c \in IF content[fd[w]] = Empty THEN {text[w]} ELSE {text[w], Torn} :
        content' = [content EXCEPT ![fd[w]] = c]
  BY DEF WriteTemp
<1>2. /\ wpc[w] = "write" /\ wpc' = [wpc EXCEPT ![w] = "rename"] /\ fd' = [fd EXCEPT ![w] = NoFile]
      /\ UNCHANGED <<main, temp, text, rpc, rfd, got, crossed, misled>>
  BY DEF WriteTemp, readers
<1>3. fd[w] \in Inode /\ (fd[w] = temp \/ fd[w] \in crossed) /\ text[w] \in Value
  BY <1>2
<1>4. Saving' = Saving
  BY <1>2 DEF Saving
<1>5. TypeOK'
  BY <1>1, <1>2, <1>3
<1>6. \A i \in Inode : i # temp /\ i \notin crossed => content'[i] = content[i]
  BY <1>1, <1>3
<1>7. main # NoFile => main # temp' /\ (main \notin crossed' => content'[main] \in Value)
  BY <1>2, <1>6
<1>8. \A r \in Reader : rpc[r] = "read" =>
         rfd[r] # temp' /\ (rfd[r] \notin crossed' => content'[rfd[r]] \in Value)
  BY <1>2, <1>6
<1>9. ASSUME temp # NoFile, temp \notin crossed, NEW u \in Writer, wpc'[u] # "idle"
      PROVE  u = w /\ content'[temp] = text[w] /\ \A x \in Saving' : x = w
  <2>1. \A x \in Saving : x = w BY <1>2, <1>9
  <2>2. u = w BY <1>2, <1>9, <2>1 DEF Saving
  <2>3. fd[w] = temp /\ content[temp] = Empty BY <1>2, <1>9
  <2> QED BY <1>1, <1>3, <1>4, <2>1, <2>2, <2>3
<1>10. LoadsCompleteText'
  BY <1>2 DEF LoadsCompleteText
<1>11. FileInv'
  BY <1>2, <1>5, <1>7, <1>8, <1>9, <1>10
<1>12. mainValue' = mainValue
  BY <1>2, <1>6 DEF mainValue, ContentsOf
<1>13. gotValue' = gotValue
  BY <1>2, <1>6 DEF gotValue, ContentsOf
<1>14. saveAlone' = saveAlone
  BY <1>2, <1>4 DEF saveAlone
<1> QED BY <1>4, <1>11, <1>12, <1>13, <1>14 DEF registerVars

\* The rename ends a save: one that was alone replaces the contents of queue.json.
LEMMA RenameStep ==
  ASSUME FileInv, NEW w \in Writer, Rename(w)
  PROVE  FileInv' /\ (Register!Spoil(w) \/ \E v \in Value : Register!Replace(w, v))
<1> USE DistinctContents DEF FileInv, TypeOK
<1>1. /\ wpc[w] = "rename" /\ wpc' = [wpc EXCEPT ![w] = "idle"]
      /\ text' = [text EXCEPT ![w] = NoFile]
      /\ UNCHANGED <<content, fd, rpc, rfd, got, crossed, misled>>
  BY DEF Rename, Returns, readers
<1>2. IF temp = NoFile THEN UNCHANGED <<main, temp>> ELSE main' = temp /\ temp' = NoFile
  BY DEF Rename
<1>3. Saving' = Saving \ {w} /\ w \in Saving
  BY <1>1 DEF Saving
<1>4. temp' = NoFile /\ fd[w] = NoFile
  BY <1>1, <1>2
<1>5. TypeOK'
  BY <1>1, <1>2
<1>6. saveAlone = IF temp # NoFile /\ temp \notin crossed THEN {<<w, text[w]>>} ELSE {}
  BY <1>1, AloneIs
<1>7. saveAlone' = {}
  BY <1>4 DEF saveAlone
<1>8. temp # NoFile /\ temp \notin crossed => content[temp] = text[w] /\ text[w] \in Value
  BY <1>1
<1>9. main' # NoFile /\ main' \notin crossed => content[main'] \in Value
  BY <1>2, <1>8
<1>10. \A u \in Writer : wpc'[u] = "write" => fd[u] \in Inode /\ fd[u] \in crossed
  <2> SUFFICES ASSUME NEW u \in Writer, wpc'[u] = "write" PROVE fd[u] \in Inode /\ fd[u] \in crossed
    OBVIOUS
  <2>1. u # w /\ wpc[u] = "write" BY <1>1
  <2>2. fd[u] \in Inode /\ (fd[u] = temp \/ fd[u] \in crossed) BY <2>1
  <2>3. temp # NoFile => temp \in crossed BY <1>1, <2>1 DEF Saving
  <2> QED BY <2>2, <2>3
<1>11. LoadsCompleteText'
  BY <1>1 DEF LoadsCompleteText
<1>12. \A u \in Writer : (wpc'[u] # "write" => fd[u] = NoFile)
       /\ (wpc'[u] # "idle" => text'[u] \in Value)
  BY <1>1, <1>4
<1>13. FileInv'
  BY <1>1, <1>4, <1>5, <1>9, <1>10, <1>11, <1>12
<1>14. gotValue' = gotValue
  BY <1>1 DEF gotValue, ContentsOf
<1>15. CASE temp # NoFile /\ temp \notin crossed
  <2>1. mainValue' = text[w]
    BY <1>1, <1>2, <1>8, <1>15 DEF mainValue, ContentsOf
  <2>2. Register!Replace(w, text[w])
    BY <2>1, <1>3, <1>6, <1>7, <1>14, <1>15 DEF Register!Replace, Register!Ends
  <2> QED BY <1>8, <1>13, <1>15, <2>2
<1>16. CASE temp = NoFile \/ temp \in crossed
  <2>1. mainValue' \in {mainValue, Torn}
    BY <1>1, <1>2, <1>16 DEF mainValue, ContentsOf
  <2>2. Register!Spoil(w)
    BY <2>1, <1>3, <1>6, <1>7, <1>14, <1>16 DEF Register!Spoil, Register!Ends
  <2> QED BY <1>13, <2>2
<1> QED BY <1>15, <1>16

\* A crash ends a save and spoils at most a file without the name, or one that others
\* had in hand.
LEMMA CrashWriterStep ==
  ASSUME FileInv, NEW w \in Writer, CrashWriter(w)
  PROVE  FileInv' /\ Register!Crash(w)
<1> USE DistinctContents DEF FileInv, TypeOK
<1>1. /\ wpc[w] # "idle" /\ wpc' = [wpc EXCEPT ![w] = "idle"] /\ text' = [text EXCEPT ![w] = NoFile]
      /\ fd' = [fd EXCEPT ![w] = NoFile]
      /\ UNCHANGED <<main, temp, rpc, rfd, got, crossed, misled>>
  BY DEF CrashWriter, Returns, readers
<1>2. content' = content \/ (wpc[w] = "write" /\ content' = [content EXCEPT ![fd[w]] = Torn])
  BY DEF CrashWriter
<1>3. wpc[w] = "write" => fd[w] \in Inode /\ (fd[w] = temp \/ fd[w] \in crossed)
  OBVIOUS
<1>4. Saving' = Saving \ {w} /\ w \in Saving
  BY <1>1 DEF Saving
<1>5. TypeOK'
  BY <1>1, <1>2, <1>3
<1>6. \A i \in Inode : i # temp /\ i \notin crossed => content'[i] = content[i]
  BY <1>2, <1>3
<1>7. ASSUME temp # NoFile, temp \notin crossed, NEW u \in Writer PROVE wpc'[u] = "idle"
  <2>1. \A x \in Saving : x = w BY <1>1, <1>7
  <2> QED BY <1>1, <2>1 DEF Saving
<1>8. LoadsCompleteText'
  BY <1>1 DEF LoadsCompleteText
<1>9. main # NoFile /\ main \notin crossed => content'[main] \in Value
  BY <1>6
<1>10. \A r \in Reader : rpc[r] = "read" /\ rfd[r] \notin crossed => content'[rfd[r]] \in Value
  BY <1>6
<1>11. \A u \in Writer :
          /\ wpc'[u] = "write" => fd'[u] \in Inode /\ (fd'[u] = temp' \/ fd'[u] \in crossed')
          /\ wpc'[u] # "write" => fd'[u] = NoFile
          /\ wpc'[u] # "idle" => text'[u] \in Value
  BY <1>1
<1>12. FileInv'
  BY <1>1, <1>5, <1>7, <1>8, <1>9, <1>10, <1>11
<1>13. mainValue' = mainValue
  BY <1>1, <1>6 DEF mainValue, ContentsOf
<1>14. gotValue' = gotValue
  BY <1>1, <1>6 DEF gotValue, ContentsOf
<1>15. saveAlone' = {}
  <2>1. temp # NoFile /\ temp \notin crossed => Saving' = {}
    BY <1>7 DEF Saving
  <2> QED BY <2>1, <1>1 DEF saveAlone
<1> QED BY <1>4, <1>12, <1>13, <1>14, <1>15 DEF Register!Crash, Register!Ends

\* A load is an atomic read at its open; the read that follows changes nothing.
LEMMA ReaderStep ==
  ASSUME FileInv, NEW r \in Reader, OpenMain(r) \/ ReadMain(r)
  PROVE  FileInv' /\ (Register!Read(r) \/ UNCHANGED registerVars)
<1> USE DistinctContents DEF FileInv, TypeOK
<1>1. UNCHANGED <<main, temp, content, wpc, fd, text, crossed>>
  BY DEF OpenMain, ReadMain, writers
<1>2. UNCHANGED <<mainValue, Saving, saveAlone>>
  BY <1>1 DEF mainValue, ContentsOf, Saving, saveAlone
<1>3. CASE OpenMain(r)
  <2>1. /\ main \in Inode /\ rpc' = [rpc EXCEPT ![r] = "read"] /\ rfd' = [rfd EXCEPT ![r] = main]
        /\ UNCHANGED <<got, misled>>
    BY <1>3 DEF OpenMain
  <2>2. FileInv'
    BY <1>1, <2>1 DEF LoadsCompleteText, Saving
  <2>3. gotValue' = [gotValue EXCEPT ![r] = mainValue]
    BY <1>1, <2>1 DEF gotValue, mainValue, ContentsOf
  <2> QED BY <1>2, <2>2, <2>3 DEF Register!Read
<1>4. CASE ReadMain(r)
  <2>1. /\ rpc[r] = "read" /\ rpc' = [rpc EXCEPT ![r] = "idle"]
        /\ rfd' = [rfd EXCEPT ![r] = NoFile] /\ got' = [got EXCEPT ![r] = content[rfd[r]]]
        /\ misled' = IF rfd[r] \in crossed THEN misled \cup {r} ELSE misled \ {r}
    BY <1>4 DEF ReadMain
  <2>2. TypeOK' BY <1>1, <2>1
  <2>3. LoadsCompleteText' BY <1>1, <2>1 DEF LoadsCompleteText
  <2>4. FileInv'
    BY <1>1, <2>1, <2>2, <2>3 DEF Saving
  <2>5. gotValue' = gotValue
    BY <1>1, <2>1 DEF gotValue, ContentsOf
  <2> QED BY <1>2, <2>4, <2>5 DEF registerVars
<1> QED BY <1>3, <1>4

\* The initial state satisfies the invariant and maps to an initial register.
LEMMA InitStep == Init => FileInv /\ Register!Init
BY DistinctContents
   DEF Init, FileInv, TypeOK, LoadsCompleteText, Register!Init, mainValue, gotValue, Saving,
   saveAlone

\* Every step keeps the invariant and is a step of the register, or none.
LEMMA NextStep ==
  ASSUME FileInv, [Next]_vars
  PROVE  FileInv' /\ [Register!Next]_registerVars
<1>1. CASE UNCHANGED vars
  <2>1. UNCHANGED <<Saving, mainValue, gotValue, saveAlone>>
    BY <1>1 DEF vars, Saving, mainValue, gotValue, saveAlone, ContentsOf
  <2> QED BY <1>1, <2>1 DEF vars, FileInv, TypeOK, LoadsCompleteText, registerVars
<1>2. CASE Next
  BY <1>2, OpenTempStep, WriteTempStep, RenameStep, CrashWriterStep, ReaderStep
     DEF Next, Register!Next
<1> QED BY <1>1, <1>2

\* A load sees part of a text only where saves have overlapped on the temporary file.
THEOREM LoadsAreComplete == Spec => []LoadsCompleteText
<1>1. FileInv /\ [Next]_vars => FileInv'
  BY NextStep
<1>2. FileInv => LoadsCompleteText
  BY DEF FileInv
<1> QED BY <1>1, <1>2, InitStep, PTL DEF Spec

\* queue.json implements the register, for any number of processes that save it.
THEOREM FileIsRegister == Spec => ImplementsRegister
<1>1. FileInv /\ [Next]_vars => FileInv' /\ [Register!Next]_registerVars
  BY NextStep
<1> QED BY <1>1, InitStep, PTL DEF Spec, ImplementsRegister, Register!Spec, registerVars

-----------------------------------------------------------------------------
(* The pid file.                                                           *)

LifeStage == Life!Starting \cup {"new", "refused", "failed", "listen", "running", "remove",
      "stopped", "dead"}
Active == {"listen", "running", "remove"}
PastCheck == Life!Starting \ {"check"}

LifeType == stage \in [Life!Process -> LifeStage]

\* Where starts do not overlap and no refused watcher is stopped: one process starts
\* at a time, and one that runs, or that has not removed its pid file yet, is the only
\* one, is named in the file, and keeps every start from getting past its check.
OneAtATime ==
  ~overlap /\ ~stray =>
    \A p, q \in Life!Process :
      /\ stage[p] \in Life!Starting /\ stage[q] \in Life!Starting => p = q
      /\ stage[p] \in Active =>
           pidFile = {p} /\ (stage[q] \in Active => p = q) /\ stage[q] \notin PastCheck

LifeInv == LifeType /\ OneAtATime

LEMMA PidIsNumber == ASSUME NEW p \in Life!Process PROVE p # Life!Truncated
BY DEF Life!Process, Life!Truncated

LEMMA LifeInit == Life!Init => LifeInv
BY DEF Life!Init, LifeInv, LifeType, OneAtATime, LifeStage, Life!Starting, Active, PastCheck

LEMMA LifeTypeStep == LifeType /\ [Life!Next]_lifecycleVars => LifeType'
<1> SUFFICES ASSUME LifeType, [Life!Next]_lifecycleVars PROVE LifeType' OBVIOUS
<1>1. CASE UNCHANGED lifecycleVars BY <1>1 DEF lifecycleVars, LifeType
<1>2. CASE Life!Command
  BY <1>2 DEF Life!Command, Life!Uninstall, LifeType, LifeStage
<1>3. ASSUME NEW p \in Life!Process,
             \/ Life!Launch(p) \/ Life!StartCheck(p) \/ Life!Clean(p) \/ Life!Unlink(p)
                   \/ Life!Truncate(p) \/ Life!Write(p)
             \/ Life!Listen(p) \/ Life!Stop(p) \/ Life!Remove(p) \/ Life!Die(p) \/ Life!Reuse(p)
      PROVE LifeType'
  BY <1>3 DEF Life!Launch, Life!StartCheck, Life!Clean, Life!Unlink, Life!Truncate, Life!Write,
       Life!Listen, Life!Stop, Life!Remove, Life!Die, Life!Reuse,
       Life!Goto, LifeType, LifeStage, Life!Starting
<1> QED BY <1>1, <1>2, <1>3 DEF Life!Next

LEMMA OneAtATimeStep == LifeInv /\ [Life!Next]_lifecycleVars => OneAtATime'
<1> SUFFICES ASSUME LifeInv, [Life!Next]_lifecycleVars, ~overlap', ~stray' PROVE OneAtATime'
  BY DEF OneAtATime
<1> USE DEF LifeInv, LifeType, OneAtATime, Life!Starting, Active, PastCheck, LifeStage, Life!Goto,
      Life!Keep
<1>1. CASE UNCHANGED lifecycleVars BY <1>1 DEF lifecycleVars
<1>2. CASE Life!Command BY <1>2 DEF Life!Command, Life!Uninstall
<1>4. ASSUME NEW p \in Life!Process, Life!Launch(p) PROVE OneAtATime'
  <2>1. ~overlap /\ ~stray BY <1>4 DEF Life!Launch
  <2>2. \A q \in Life!Process : stage[q] \notin Life!Starting BY <1>4 DEF Life!Launch, Life!In
  <2> QED BY <1>4, <2>1, <2>2 DEF Life!Launch
<1>5. ASSUME NEW p \in Life!Process, Life!StartCheck(p) PROVE OneAtATime'
  <2>1. ~overlap /\ ~stray BY <1>5 DEF Life!StartCheck
  <2>2. ASSUME NEW r \in Life!Process, stage[r] \in Active PROVE stage'[p] = "refused"
    <3>1. pidFile = {r} /\ Life!Alive(r) /\ r # Life!Truncated BY <2>1, <2>2, PidIsNumber
          DEF Life!Alive
    <3> QED BY <3>1, <1>5 DEF Life!StartCheck, Life!NamesLive
  <2>3. stage' = [stage EXCEPT ![p] = stage'[p]] /\ stage'[p] \in PastCheck \cup {"refused"} /\ stage[p] = "check"
    BY <1>5 DEF Life!StartCheck
  <2>4. UNCHANGED <<pidFile, overlap, stray>> BY <1>5 DEF Life!StartCheck
  <2> QED BY <2>1, <2>2, <2>3, <2>4
<1>6. ASSUME NEW p \in Life!Process, Life!Clean(p) \/ Life!Unlink(p) \/ Life!Truncate(p)
  PROVE OneAtATime'
  BY <1>6 DEF Life!Clean, Life!Unlink, Life!Truncate
<1>7. ASSUME NEW p \in Life!Process, Life!Write(p) PROVE OneAtATime' BY <1>7 DEF Life!Write
<1>8. ASSUME NEW p \in Life!Process, Life!Listen(p) PROVE OneAtATime' BY <1>8 DEF Life!Listen
<1>9. ASSUME NEW p \in Life!Process, Life!Stop(p) PROVE OneAtATime' BY <1>9 DEF Life!Stop
<1>10. ASSUME NEW p \in Life!Process, Life!Remove(p) PROVE OneAtATime' BY <1>10 DEF Life!Remove
<1>11. ASSUME NEW p \in Life!Process, Life!Die(p) PROVE OneAtATime' BY <1>11 DEF Life!Die
<1>12. ASSUME NEW p \in Life!Process, Life!Reuse(p) PROVE OneAtATime' BY <1>12 DEF Life!Reuse
<1> QED BY <1>1, <1>2, <1>4, <1>5, <1>6, <1>7, <1>8, <1>9, <1>10, <1>11, <1>12 DEF Life!Next

\* The test of the watcher calls it a singleton (watcher.test.ts:62).  Where starts do not
\* overlap and no refused watcher is stopped, at most one process runs and the pid file
\* names it, whichever process was killed and at whatever step.
THEOREM RunnerListed == SystemSpec => []RunnerIsListed
<1>1. LifeInv /\ [SystemNext]_allVars => LifeInv'
  BY PartSteps, LifeTypeStep, OneAtATimeStep DEF LifeInv
<1>2. LifeInv => RunnerIsListed
  BY DEF LifeInv, OneAtATime, RunnerIsListed, Life!RunnerIsListed, Life!In, Active
<1> QED BY PartInits, LifeInit, <1>1, <1>2, PTL DEF SystemSpec

-----------------------------------------------------------------------------
(* The services of the daemon.                                             *)

LEMMA Remainder ==
  ASSUME NEW t \in Nat, NEW d \in Nat \ {0}
  PROVE  /\ t % d \in 0 .. d - 1 /\ t \div d \in Nat
         /\ t = d * (t \div d) + (t % d) /\ t - (t % d) \in Nat
OBVIOUS

LEMMA MidnightIsMultiple ==
  ASSUME NEW t \in Nat
  PROVE  t \div Day \in Nat /\ Services!Midnight(t) = Day * (t \div Day)
<1>1. Day \in Nat \ {0}
  BY ServicesAssumption
<1>2. t \div Day \in Nat /\ t % Day \in Nat /\ t = Day * (t \div Day) + (t % Day)
  BY <1>1, Remainder
<1>3. Day * (t \div Day) \in Nat
  BY <1>1, <1>2
<1> QED BY <1>2, <1>3 DEF Services!Midnight

\* Two different midnights are at least a day apart.
LEMMA DaysApart ==
  ASSUME NEW s \in Nat, NEW t \in Nat, Services!Midnight(s) < Services!Midnight(t)
  PROVE  Services!Midnight(s) + Day <= Services!Midnight(t)
<1> DEFINE a == s \div Day
           b == t \div Day
<1>1. /\ Day \in Nat \ {0} /\ a \in Nat /\ b \in Nat
      /\ Services!Midnight(s) = Day * a /\ Services!Midnight(t) = Day * b
  BY MidnightIsMultiple, ServicesAssumption
<1> HIDE DEF a, b
<1>2. a < b
  BY <1>1
<1>3. b = a + 1 + (b - a - 1) /\ b - a - 1 \in Nat
  BY <1>1, <1>2
<1>4. Day * b = Day * a + Day + Day * (b - a - 1) /\ Day * (b - a - 1) \in Nat
  BY <1>1, <1>3
<1> QED BY <1>1, <1>4

\* The days of two moments come in the order of the moments.
LEMMA MidnightsInOrder ==
  ASSUME NEW s \in Nat, NEW t \in Nat, s <= t
  PROVE  Services!Midnight(s) <= Services!Midnight(t)
<1>1. /\ Day \in Nat \ {0} /\ s % Day \in 0 .. Day - 1 /\ t % Day \in 0 .. Day - 1
      /\ Services!Midnight(s) = s - (s % Day) /\ Services!Midnight(t) = t - (t % Day)
  BY Remainder, ServicesAssumption DEF Services!Midnight
<1>2. CASE Services!Midnight(t) < Services!Midnight(s)
  <2>1. Services!Midnight(t) + Day <= Services!Midnight(s)
    BY <1>2, DaysApart
  <2> QED BY <1>1, <2>1
<1> QED BY <1>1, <1>2

\* parseStartTime: the start is never taken to be a minute or more before the true one,
\* but for a process of an earlier day on Linux.
LEMMA StartIsClose ==
  ASSUME clock \in Nat, system \in {"mac", "linux"}, NEW born \in Nat, born <= clock
  PROVE  /\ Services!StartTime(born) \in Int
         /\ \/ Services!StartTime(born) > born - Minute
            \/ system = "linux" /\ Services!Midnight(born) < Services!Midnight(clock)
<1> DEFINE r == born % Day
           midnight == Services!Midnight(clock)
<1>1. /\ Day \in Nat \ {0} /\ Minute \in Nat \ {0} /\ r \in 0 .. Day - 1
      /\ Services!Midnight(born) = born - r /\ r % Minute \in 0 .. Minute - 1
      /\ clock % Day \in 0 .. Day - 1 /\ midnight = clock - (clock % Day)
  BY Remainder, ServicesAssumption DEF Services!Midnight
<1>3. midnight >= Services!Midnight(born)
  BY <1>1, MidnightsInOrder
<1>4. r - (r % Minute) \in Nat
  <2>1. r \in Nat BY <1>1
  <2> HIDE DEF r
  <2> QED BY <1>1, <2>1, Remainder
<1>5. CASE ~Services!ShowsClock(born)
  <2>1. Services!StartTime(born) = clock - Day
    BY <1>5 DEF Services!StartTime
  <2>2. CASE system = "mac"
    BY <1>1, <1>5, <2>1, <2>2 DEF Services!ShowsClock
  <2>3. CASE system = "linux"
    BY <1>1, <1>3, <1>5, <2>1, <2>3 DEF Services!ShowsClock
  <2> QED BY <2>2, <2>3
<1>6. CASE Services!ShowsClock(born)
  <2> DEFINE shownAt == midnight + (r - (r % Minute))
  <2>1. Services!StartTime(born) = IF shownAt > clock THEN shownAt - Day ELSE shownAt
    BY <1>6 DEF Services!StartTime, Services!ClockStart, Services!ToMinute
  <2> HIDE DEF r, midnight
  <2>2. CASE midnight = Services!Midnight(born)
    <3>1. shownAt \in Int /\ shownAt > born - Minute /\ shownAt <= born
      BY <1>1, <1>4, <2>2
    <3>2. Services!StartTime(born) = shownAt
      BY <2>1, <3>1
    <3> QED BY <3>1, <3>2
  <2>3. CASE midnight > Services!Midnight(born)
    <3>1. Services!Midnight(born) + Day <= midnight BY <2>3, DaysApart DEF midnight
    <3> QED BY <1>1, <1>4, <2>1, <3>1
  <2> QED BY <1>1, <1>3, <2>2, <2>3
<1> QED BY <1>5, <1>6

ProcessInfo == [born : Nat, type : Services!Type]

\* A start that is taken to be earlier than it is: on Linux, where only a date is shown.
Dated(l) == system = "linux" /\ Services!Midnight(l.info.born) < Services!Midnight(l.at)

\* A line of `ps`, as parsed: what the process really is, and a start that is close.
\* Whoever has its pid now is that process, or came later.
Listing(l) ==
  /\ l.pid \in Pid /\ l.start \in Int /\ l.at \in Nat /\ l.at <= clock
  /\ l.info \in ProcessInfo /\ l.info.born <= l.at
  /\ l.start > l.info.born - Minute \/ Dated(l)
  /\ \A i \in proc[l.pid] : i = l.info \/ i.born >= l.at

\* Whoever waits for SIGKILL was found to be hung, and has not become younger.
KillerInv ==
  /\ clock \in Nat /\ proc \in [Pid -> SUBSET ProcessInfo] /\ system \in {"mac", "linux"}
  /\ \A p \in Pid : \A i, j \in proc[p] : i.born <= clock /\ i = j
  /\ \A l \in listed : Listing(l)
  /\ \A l \in grace : Listing(l) /\ Services!IsHung(l)
  /\ Services!KillsOnlyHung

\* Checks and the timer are an interval apart, and no check runs for longer than
\* exec lets it.
SchedulerInv ==
  /\ clock \in Nat /\ timer \subseteq Nat /\ healthChecks \subseteq Nat /\ last \in Int
  /\ interval \in Nat \ {0} /\ last <= clock
  /\ \A c \in healthChecks :
       /\ c <= clock /\ clock - c <= CheckTime
       /\ \A d \in healthChecks : c < d => c + interval <= d
  /\ \A t \in timer : clock <= t /\ last < t /\ \A c \in healthChecks : c + interval <= t
  /\ interval > CheckTime => \A c, d \in healthChecks : c = d /\ last < c

\* A signal sent because of a line reaches a process that is as old as the line says.
LEMMA SignalsHitHung ==
  ASSUME KillerInv, NEW l, Listing(l), Services!IsHung(l), signals' = Services!Hits(l),
         UNCHANGED system
  PROVE  Services!KillsOnlyHung'
<1>1. \A s \in signals' :
        /\ s.line = l /\ s.age = clock - l.info.born /\ s.hit \in proc[l.pid]
  BY DEF Services!Hits
<1>2. /\ clock \in Nat /\ l.start \in Int /\ l.info.born \in Nat /\ Minute \in Nat
      /\ Timeout[l.info.type] \in Nat
  BY ServicesAssumption DEF KillerInv, Listing, ProcessInfo, Services!Type
<1>3. (clock - l.info.born) + Minute > Timeout[l.info.type] \/ Dated(l)
  BY <1>2 DEF Services!IsHung, Listing
<1>4. \A i \in proc[l.pid] : i # l.info => i.born >= l.at
  BY DEF Listing
<1> QED BY <1>1, <1>3, <1>4 DEF Services!KillsOnlyHung, Dated, Services!Midnight

LEMMA KillerStep == KillerInv /\ [Services!Next]_servicesVars => KillerInv'
<1> SUFFICES ASSUME KillerInv, [Services!Next]_servicesVars PROVE KillerInv' OBVIOUS
<1> USE DEF KillerInv
<1>0. signals' = {} => Services!KillsOnlyHung'
  BY DEF Services!KillsOnlyHung
<1>1. CASE UNCHANGED <<clock, proc, listed, grace, signals, system>>
  BY <1>1 DEF Listing, Dated, Services!Midnight, Services!IsHung, Services!KillsOnlyHung
<1>2. ASSUME NEW p \in Pid, NEW t \in Services!Type, Services!Spawn(p, t) PROVE KillerInv'
  <2>1. UNCHANGED <<clock, listed, grace, system>> /\ signals' = {}
    BY <1>2 DEF Services!Spawn, Services!Others
  <2>2. proc' = [proc EXCEPT ![p] = {[born |-> clock, type |-> t]}]
    BY <1>2 DEF Services!Spawn
  <2>3. \A l : Listing(l) => Listing(l)' /\ (Services!IsHung(l) => Services!IsHung(l)')
    BY <2>1, <2>2 DEF Listing, Dated, Services!Midnight, Services!IsHung
  <2> QED
    BY <1>0, <2>1, <2>2, <2>3 DEF ProcessInfo
<1>3. ASSUME NEW p \in Pid, Services!Exit(p) PROVE KillerInv'
  <2>1. UNCHANGED <<clock, listed, grace, system>> /\ signals' = {}
    BY <1>3 DEF Services!Exit, Services!Others
  <2>2. proc' = [proc EXCEPT ![p] = {}]
    BY <1>3 DEF Services!Exit
  <2>3. \A l : Listing(l) => Listing(l)' /\ (Services!IsHung(l) => Services!IsHung(l)')
    BY <2>1, <2>2 DEF Listing, Dated, Services!Midnight, Services!IsHung
  <2> QED
    BY <1>0, <2>1, <2>2, <2>3
<1>4. CASE Services!FindProcesses
  <2>1. /\ UNCHANGED <<clock, proc, grace, system>> /\ grace = {} /\ signals' = {}
        /\ \A l \in listed' : \E p \in Pid : \E i \in proc[p] :
              l = [pid |-> p, start |-> Services!StartTime(i.born), info |-> i, at |-> clock]
    BY <1>4 DEF Services!FindProcesses, Services!Others
  <2>2. ASSUME NEW p \in Pid, NEW i \in proc[p]
        PROVE  /\ i \in ProcessInfo /\ i.born \in Nat /\ i.born <= clock
               /\ Services!StartTime(i.born) \in Int
               /\ \/ Services!StartTime(i.born) > i.born - Minute
                  \/ system = "linux" /\ Services!Midnight(i.born) < Services!Midnight(clock)
    <3>1. i \in ProcessInfo /\ i.born \in Nat /\ i.born <= clock
      BY DEF ProcessInfo
    <3> QED BY <3>1, StartIsClose
  <2>3. ASSUME NEW l \in listed' PROVE Listing(l)
    <3>1. PICK p \in Pid : \E i \in proc[p] :
            l = [pid |-> p, start |-> Services!StartTime(i.born), info |-> i, at |-> clock]
      BY <2>1
    <3>2. PICK i \in proc[p] :
            l = [pid |-> p, start |-> Services!StartTime(i.born), info |-> i, at |-> clock]
      BY <3>1
    <3>3. l.pid = p /\ l.start = Services!StartTime(i.born) /\ l.info = i /\ l.at = clock
      BY <3>2
    <3> HIDE <3>2
    <3> QED BY <2>2, <3>3 DEF Listing, Dated
  <2>4. \A l : Listing(l) => Listing(l)'
    BY <2>1 DEF Listing, Dated, Services!Midnight
  <2> QED
    BY <1>0, <2>1, <2>3, <2>4
<1>5. ASSUME NEW l \in listed, Services!Terminate(l) PROVE KillerInv'
  <2>1. /\ Services!IsHung(l) /\ signals' = Services!Hits(l) /\ UNCHANGED <<clock, system>>
        /\ proc' = [proc EXCEPT ![l.pid] = {}] \/ UNCHANGED proc
        /\ listed' = listed \ {l} /\ grace' \subseteq grace \cup {l}
    BY <1>5 DEF Services!Terminate, Services!Others
  <2>2. Listing(l) /\ l.pid \in Pid
    BY DEF Listing
  <2>3. Services!KillsOnlyHung'
    BY <2>1, <2>2, SignalsHitHung
  <2>4. \A k : Listing(k) => Listing(k)' /\ (Services!IsHung(k) => Services!IsHung(k)')
    BY <2>1, <2>2 DEF Listing, Dated, Services!Midnight, Services!IsHung
  <2> QED BY <2>1, <2>2, <2>3, <2>4
<1>6. ASSUME NEW l \in listed, Services!Spare(l) PROVE KillerInv'
  BY <1>0, <1>6
     DEF Services!Spare, Services!Others, Listing, Dated, Services!Midnight, Services!IsHung
<1>7. ASSUME NEW l \in grace, Services!Escalate(l) PROVE KillerInv'
  <2>1. /\ signals' = Services!Hits(l) /\ UNCHANGED <<clock, listed, system>>
        /\ proc' = [proc EXCEPT ![l.pid] = {}] /\ grace' = grace \ {l}
    BY <1>7 DEF Services!Escalate, Services!Others
  <2>2. Listing(l) /\ Services!IsHung(l) /\ l.pid \in Pid
    BY DEF Listing
  <2>3. Services!KillsOnlyHung'
    BY <2>1, <2>2, SignalsHitHung
  <2>4. \A k : Listing(k) => Listing(k)' /\ (Services!IsHung(k) => Services!IsHung(k)')
    BY <2>1, <2>2 DEF Listing, Dated, Services!Midnight, Services!IsHung
  <2> QED BY <2>1, <2>2, <2>3, <2>4
<1>8. CASE Services!Tick
  <2>1. clock' = clock + 1 /\ UNCHANGED <<proc, listed, grace, system>> /\ signals' = {}
    BY <1>8 DEF Services!Tick
  <2>2. \A l : Listing(l) => Listing(l)' /\ (Services!IsHung(l) => Services!IsHung(l)')
    <3> SUFFICES ASSUME NEW l, Listing(l)
                 PROVE  Listing(l)' /\ (Services!IsHung(l) => Services!IsHung(l)')
      OBVIOUS
    <3>1. /\ clock \in Nat /\ l.start \in Int /\ l.info.born \in Nat
          /\ Timeout[l.info.type] \in Nat
      BY ServicesAssumption DEF Listing, ProcessInfo, Services!Type
    <3> QED BY <2>1, <3>1 DEF Listing, Dated, Services!Midnight, Services!IsHung
  <2>3. \A p \in Pid : \A i \in proc[p] : i.born \in Nat
    BY DEF ProcessInfo
  <2> QED BY <1>0, <2>1, <2>2, <2>3
<1>9. CASE Services!Scheduler \/ Services!Raise
  BY <1>1, <1>9 DEF Services!Scheduler, Services!Raise, Services!processes
<1> QED
  BY <1>1, <1>2, <1>3, <1>4, <1>5, <1>6, <1>7, <1>8, <1>9
  DEF Services!Next, Services!Killer, servicesVars

LEMMA SchedulerStep == SchedulerInv /\ [Services!Next]_servicesVars => SchedulerInv'
<1> SUFFICES ASSUME SchedulerInv, [Services!Next]_servicesVars PROVE SchedulerInv' OBVIOUS
<1> USE ServicesAssumption DEF SchedulerInv
<1>1. CASE UNCHANGED <<clock, interval, timer, healthChecks, last>>
  BY <1>1
<1>2. CASE Services!SchedulerStart /\ UNCHANGED <<clock, interval>>
  BY <1>2 DEF Services!SchedulerStart
<1>3. CASE Services!SchedulerStop /\ UNCHANGED <<clock, interval>>
  BY <1>3 DEF Services!SchedulerStop
<1>4. CASE Services!Fire /\ UNCHANGED <<clock, interval>>
  <2>1. /\ clock \in timer /\ timer' = {clock + interval} /\ last' = last
        /\ healthChecks' = healthChecks \cup {clock}
    BY <1>4 DEF Services!Fire
  <2>2. \A c \in healthChecks : c + interval <= clock
    BY <2>1
  <2>3. interval > CheckTime => healthChecks = {}
    BY <2>2
  <2> QED BY <1>4, <2>1, <2>2, <2>3
<1>5. ASSUME NEW c \in healthChecks, Services!CheckEnds(c), UNCHANGED <<clock, interval>>
      PROVE  SchedulerInv'
  <2>1. healthChecks' = healthChecks \ {c} /\ last' = c /\ UNCHANGED timer
    BY <1>5 DEF Services!CheckEnds
  <2> QED BY <1>5, <2>1
<1>6. CASE Services!Tick
  BY <1>6 DEF Services!Tick, Services!scheduler
<1>7. CASE Services!Killer \/ Services!Raise
  BY <1>1, <1>7
  DEF Services!Killer, Services!Spawn, Services!Exit, Services!FindProcesses, Services!Terminate,
      Services!Spare, Services!Escalate, Services!Others, Services!Raise, Services!scheduler
<1> QED
  BY <1>1, <1>2, <1>3, <1>4, <1>5, <1>6, <1>7 DEF Services!Next, Services!Scheduler, servicesVars

LEMMA OneCheck == SchedulerInv => Services!ChecksInOrder
BY DEF SchedulerInv, Services!ChecksInOrder

\* prioritizeIssues: of the three issues there may be, the first of the worst.
LEMMA PrioritizePicksWorst ==
  ASSUME NEW s, Len(s) \in 1 .. 3, \A n \in 1 .. Len(s) : Services!Priority(s[n]) \in Int
  PROVE  \E n \in 1 .. Len(s) :
           /\ Services!Prioritize(s) = {s[n]}
           /\ \A m \in 1 .. Len(s) :
                 /\ Services!Priority(s[m]) <= Services!Priority(s[n])
                 /\ m < n => Services!Priority(s[m]) < Services!Priority(s[n])
<1> DEFINE worse(i, j) == Services!Priority(i) > Services!Priority(j)
           Highest(h) == h = [i \in 1 .. Len(s) |->
                                IF i = 1 \/ worse(s[i], h[i-1]) THEN s[i] ELSE h[i-1]]
           second == IF worse(s[2], s[1]) THEN s[2] ELSE s[1]
           third == IF worse(s[3], second) THEN s[3] ELSE second
           h == CHOOSE f : Highest(f)
<1>1. Highest([i \in 1 .. Len(s) |-> IF i = 1 THEN s[1] ELSE IF i = 2 THEN second ELSE third])
  <2> HIDE DEF worse
  <2> QED OBVIOUS
<1>2. Highest(h)
  <2> HIDE DEF Highest
  <2> QED BY <1>1
<1>3. Services!Prioritize(s) = {h[Len(s)]}
  BY DEF Services!Prioritize
<1> HIDE DEF h
<1>4. /\ h[1] = s[1]
      /\ Len(s) > 1 => h[2] = second
      /\ Len(s) > 2 => h[3] = third
  <2> HIDE DEF worse
  <2> QED BY <1>2
<1>5. CASE Len(s) = 1
  BY <1>3, <1>4, <1>5
<1>6. CASE Len(s) = 2
  BY <1>3, <1>4, <1>6
<1>7. CASE Len(s) = 3
  BY <1>3, <1>4, <1>7
<1> QED BY <1>5, <1>6, <1>7

Issue == [type : {"branch_violation", "stale_tdd_phase", "memory"},
          severity : {"error", "warning"}]

LEMMA IssuesAreFew ==
  ASSUME NEW protected \in BOOLEAN, NEW stale \in BOOLEAN, NEW high \in BOOLEAN
  PROVE  /\ Services!Issues(protected, stale, high) \in Seq(Issue)
         /\ Len(Services!Issues(protected, stale, high)) \in 0 .. 3
<1> DEFINE Few(s) == s \in Seq(Issue) /\ Len(s) \in 0 .. 1
           Perhaps(p, i) == IF p THEN <<i>> ELSE <<>>
           onBranch == [type |-> "branch_violation", severity |-> "error"]
           tdd == [type |-> "stale_tdd_phase", severity |-> "warning"]
           memory == [type |-> "memory", severity |-> "warning"]
<1>1. onBranch \in Issue /\ tdd \in Issue /\ memory \in Issue
  BY DEF Issue
<1>2. ASSUME NEW p \in BOOLEAN, NEW i \in Issue PROVE Few(Perhaps(p, i))
  BY <1>2
<1>3. ASSUME NEW x \in Seq(Issue), NEW y \in Seq(Issue), NEW z \in Seq(Issue),
             Len(x) \in 0 .. 1, Len(y) \in 0 .. 1, Len(z) \in 0 .. 1
      PROVE  x \o y \o z \in Seq(Issue) /\ Len(x \o y \o z) \in 0 .. 3
  <2>1. x \o y \in Seq(Issue) /\ Len(x \o y) = Len(x) + Len(y)
    OBVIOUS
  <2>2. x \o y \o z \in Seq(Issue) /\ Len(x \o y \o z) = Len(x) + Len(y) + Len(z)
    BY <2>1
  <2>3. \A a, b, c \in 0 .. 1 : a + b + c \in 0 .. 3
    OBVIOUS
  <2>4. Len(x) + Len(y) + Len(z) \in 0 .. 3
    BY <1>3, <2>3
  <2> QED BY <2>2, <2>4
<1>4. Services!Issues(protected, stale, high)
        = Perhaps(protected, onBranch) \o Perhaps(stale, tdd) \o Perhaps(high, memory)
  BY DEF Services!Issues
<1> HIDE DEF Perhaps, onBranch, tdd, memory
<1>5. /\ Few(Perhaps(protected, onBranch)) /\ Few(Perhaps(stale, tdd))
      /\ Few(Perhaps(high, memory))
  BY <1>1, <1>2
<1> QED BY <1>3, <1>4, <1>5

LEMMA RaiseStep ==
  Services!WorstIsShown /\ [Services!Next]_servicesVars => Services!WorstIsShown'
<1> SUFFICES ASSUME Services!WorstIsShown, [Services!Next]_servicesVars
             PROVE  Services!WorstIsShown'
  OBVIOUS
<1>1. CASE UNCHANGED shown
  BY <1>1 DEF Services!WorstIsShown
<1>2. CASE Services!Raise
  <2>1. PICK protected, stale, high \in BOOLEAN :
          \E s \in {Services!Issues(protected, stale, high)} :
             \E given \in {s, [i \in 1 .. Len(s) |-> s[Len(s) + 1 - i]]} :
                shown' = [issues |-> given, first |-> Services!Prioritize(given)]
    BY <1>2 DEF Services!Raise
  <2>2. PICK s, given :
          /\ s = Services!Issues(protected, stale, high)
          /\ given \in {s, [i \in 1 .. Len(s) |-> s[Len(s) + 1 - i]]}
          /\ shown' = [issues |-> given, first |-> Services!Prioritize(given)]
    BY <2>1
  <2>3. s \in Seq(Issue) /\ Len(s) \in 0 .. 3
    BY <2>2, IssuesAreFew
  <2>4. given \in Seq(Issue) /\ Len(given) = Len(s)
    <3>1. \A i \in 1 .. Len(s) : s[i] \in Issue /\ s[Len(s) + 1 - i] \in Issue
      BY <2>3
    <3> QED BY <2>2, <2>3, <3>1, SMTT(30)
  <2>5. \A n \in 1 .. Len(given) : Services!Priority(given[n]) \in Int
    BY <2>4 DEF Services!Priority, Issue
  <2>6. CASE Len(given) = 0
    BY <2>2, <2>4, <2>6 DEF Services!WorstIsShown, Services!Prioritize
  <2>7. CASE Len(given) \in 1 .. 3
    BY <2>2, <2>5, <2>7, PrioritizePicksWorst DEF Services!WorstIsShown
  <2> QED BY <2>3, <2>4, <2>6, <2>7
<1>3. CASE Services!Killer \/ Services!Scheduler \/ Services!Tick
  BY <1>1, <1>3
  DEF Services!Killer, Services!Spawn, Services!Exit, Services!FindProcesses, Services!Terminate,
      Services!Spare, Services!Escalate, Services!Others, Services!Scheduler, Services!Tick
<1> QED
  BY <1>1, <1>2, <1>3 DEF Services!Next, servicesVars

LEMMA ServicesInit ==
  Services!Init => KillerInv /\ SchedulerInv /\ Services!WorstIsShown
BY ServicesAssumption
   DEF Services!Init, KillerInv, SchedulerInv, Services!KillsOnlyHung, Services!WorstIsShown

\* HungProcessKiller, for any age of the list: of the processes in it a signal hits only
\* one older than the timeout of its type, but for less than the minute `ps` shows no part
\* of, or of an earlier day on Linux, and no others but those that came since.
\* HealthCheckScheduler: for every interval checks start that far apart, whatever is
\* started and stopped, and do not overlap where a check is shorter.  prioritizeIssues: the
\* first of the worst.
THEOREM ServicesAreOnTime == SystemSpec => []ServicesOnTime
<1> DEFINE Inv == KillerInv /\ SchedulerInv /\ Services!WorstIsShown
<1>1. SystemInit => Inv
  BY PartInits, ServicesInit
<1>2. Inv /\ [SystemNext]_allVars => Inv'
  BY PartSteps, KillerStep, SchedulerStep, RaiseStep
<1>3. Inv => ServicesOnTime
  BY OneCheck DEF KillerInv, ServicesOnTime
<1> QED BY <1>1, <1>2, <1>3, PTL DEF SystemSpec

-----------------------------------------------------------------------------
(* Natural numbers.                                                        *)

Less == {p \in Nat \X Nat : p[1] < p[2]}

LEMMA LessWellFounded == IsWellFoundedOn(Less, Nat)
BY NatLessThanWellFounded DEF OpToRel, Less

\* Every set of natural numbers has a least element: what the proofs by induction below
\* rest on, which take a least counterexample.
LEMMA LeastNatural ==
  ASSUME NEW S \in SUBSET Nat, S # {}
  PROVE  \E n \in S : \A m \in S : n <= m
<1>1. PICK n \in S : \A m \in S : <<m, n>> \notin Less
  BY LessWellFounded, WFMin
<1>2. ASSUME NEW m \in S PROVE n <= m
  <2>1. m \in Nat /\ n \in Nat /\ <<m, n>> \in Nat \X Nat OBVIOUS
  <2> QED BY <1>1, <2>1 DEF Less
<1> QED BY <1>2

LEMMA GreatestNatural ==
  ASSUME NEW S \in SUBSET Nat, NEW b \in Nat, S # {}, \A s \in S : s <= b
  PROVE  \E n \in S : \A m \in S : m <= n
<1> DEFINE T == {n \in Nat : \E s \in S : n = b - s}
<1>1. T \in SUBSET Nat /\ T # {}
  <2>1. PICK s \in S : TRUE OBVIOUS
  <2>2. b - s \in Nat BY <2>1
  <2> QED BY <2>2
<1>2. PICK t \in T : \A m \in T : t <= m
  BY <1>1, LeastNatural
<1>3. PICK n \in S : t = b - n
  BY <1>2
<1>4. ASSUME NEW m \in S PROVE m <= n
  <2>1. m \in Nat /\ n \in Nat /\ b - m \in Nat /\ b - m \in T OBVIOUS
  <2>2. t <= b - m BY <1>2, <2>1
  <2> HIDE DEF T
  <2> QED BY <1>3, <2>1, <2>2
<1> QED BY <1>4

-----------------------------------------------------------------------------
(* The analyzer and the supervisor.                                        *)

\* Of a command that is complete, what depends on the time is an open phase or agent.
LEMMA AnalysisSettles ==
  ASSUME NEW es, NEW t, NEW u, Analysis!BuildState(es).commandComplete,
         NEW i \in Analysis!Analyze(es, u), i \notin Analysis!Analyze(es, t)
  PROVE  LET s == Analysis!BuildState(es)
         IN \/ i.type = "phase_stuck" /\ s.currentPhase # Analysis!None /\ ~s.phaseComplete
            \/ /\ i.type \in {"agent_silence", "abandoned_agent"}
               /\ \E k \in Analysis!At(es, "AGENT_SPAWN") : ~Analysis!AgentCompleted(es, k)
<1> DEFINE s == Analysis!BuildState(es)
<1>1. \A type, conf, about, num : Analysis!Issue(type, conf, about, num).type = type
  BY DEF Analysis!Issue
<1>2. s.commandComplete
  OBVIOUS
<1> HIDE DEF s
<1>3. /\ Analysis!DetectSilence(s, u) = {} /\ Analysis!DetectAbruptStop(s, u) = {}
      /\ Analysis!DetectPartialCompletion(s, u) = {}
  BY <1>2
  DEF Analysis!DetectSilence, Analysis!DetectAbruptStop, Analysis!DetectPartialCompletion
<1>4. i \in Analysis!DetectStuckPhase(s, u) =>
        i.type = "phase_stuck" /\ s.currentPhase # Analysis!None /\ ~s.phaseComplete
  BY <1>1 DEF Analysis!DetectStuckPhase
<1>5. i \in Analysis!DetectAgentSilence(es, u) =>
        /\ i.type = "agent_silence"
        /\ \E k \in Analysis!At(es, "AGENT_SPAWN") : ~Analysis!AgentCompleted(es, k)
  <2> SUFFICES ASSUME i \in Analysis!DetectAgentSilence(es, u)
               PROVE  /\ i.type = "agent_silence"
                      /\ \E k \in Analysis!At(es, "AGENT_SPAWN") : ~Analysis!AgentCompleted(es, k)
    OBVIOUS
  <2>1. PICK k \in Analysis!At(es, "AGENT_SPAWN") :
          ~Analysis!AgentCompleted(es, k)
          /\ i = Analysis!Issue("agent_silence", 80, <<es[k].arg>>, 0)
    BY DEF Analysis!DetectAgentSilence
  <2> QED BY <1>1, <2>1
<1>6. i \in Analysis!DetectAbandonedAgent(es, u) =>
        /\ i.type = "abandoned_agent"
        /\ \E k \in Analysis!At(es, "AGENT_SPAWN") : ~Analysis!AgentCompleted(es, k)
  <2> SUFFICES ASSUME i \in Analysis!DetectAbandonedAgent(es, u)
               PROVE  /\ i.type = "abandoned_agent"
                      /\ \E k \in Analysis!At(es, "AGENT_SPAWN") : ~Analysis!AgentCompleted(es, k)
    OBVIOUS
  <2>1. PICK k \in Analysis!At(es, "AGENT_SPAWN") :
          ~Analysis!AgentCompleted(es, k)
          /\ i = Analysis!Issue("abandoned_agent", 80, <<es[k].arg>>, 0)
    BY DEF Analysis!DetectAbandonedAgent
  <2> QED BY <1>1, <2>1
<1>7. \/ i \in Analysis!DetectStuckPhase(s, u) \/ i \in Analysis!DetectAgentSilence(es, u)
      \/ i \in Analysis!DetectAbandonedAgent(es, u)
  BY <1>3 DEF Analysis!Analyze, s
<1> QED BY <1>4, <1>5, <1>6, <1>7 DEF s

\* WorkflowAnalyzer, for every log and all times: once a command is complete, time
\* finds nothing but a phase that was left open and agents that have not answered.
THEOREM QuietOnceFinished == SystemSpec => []FinishedIsQuiet
<1>1. FinishedIsQuiet
  BY AnalysisSettles DEF FinishedIsQuiet, Analysis!FinishedIsQuiet
<1> QED BY <1>1, PTL

LogEntries ==
  {[event |-> e.event, cmd |-> e.cmd, phase |-> e.phase, arg |-> e.arg, good |-> e.good,
    agent |-> e.agent, ts |-> t] : e \in Entry, t \in Nat}

NoTask == {"chain_broken", "declining_velocity"}

\* The signature of an issue that may be without a task.
Exempt(s) == s[1] \in NoTask \/ (s[1] \in Check /\ \E v \in Unactionable : s[2] = <<v>>)

LEMMA MaxOfBounded ==
  ASSUME NEW S \in SUBSET Nat, NEW b \in Nat, \A s \in S : s <= b
  PROVE  S = {} \/ Build!MaxOf(S) \in S
<1>1. CASE S # {}
  <2>1. \E n \in S : \A m \in S : m <= n BY <1>1, GreatestNatural
  <2> QED BY <1>1, <2>1 DEF Build!MaxOf
<1> QED BY <1>1

LEMMA IssueFields ==
  \A type, conf, about, num :
    /\ Build!Issue(type, conf, about, num).type = type
    /\ Build!Issue(type, conf, about, num).conf = conf
BY DEF Build!Issue

\* A loop is at least three milestones long, so that its confidence is at least 85.
LEMMA LoopsAreSure ==
  ASSUME NEW es \in Seq(LogEntries), NEW i \in Build!DetectLoops(es)
  PROVE  i.conf >= 70
<1> DEFINE S == Build!Recent(es)
           lengths == {Build!Cardinality(r) : r \in Build!Stretches(es)}
           n == Build!Repeats(es)
<1>1. n = Build!MaxOf(lengths) /\ Build!MaxOf({}) = 0
  <2>1. n = Build!MaxOf(lengths) BY DEF Build!Repeats
  <2>2. Build!MaxOf({}) = 0 BY DEF Build!MaxOf
  <2> QED BY <2>1, <2>2
<1>2. n >= 3 /\ i = Build!Issue("loop_detected", Build!Least(98, 85 + 3 * (n - 3)), <<>>, n)
  BY DEF Build!DetectLoops
<1>3. S \subseteq 1 .. Len(es) /\ Len(es) \in Nat
  BY DEF Build!Recent, Build!At
<1>4. \A r \in Build!Stretches(es) : r \subseteq S
  BY DEF Build!Stretches
<1> HIDE DEF S
<1>5. IsFiniteSet(S)
  <2>1. IsFiniteSet(1 .. Len(es)) BY <1>3, FS_Interval
  <2> QED BY <1>3, <2>1, FS_Subset
<1>6. lengths \in SUBSET Nat /\ \A c \in lengths : c <= Cardinality(S)
  <2>1. \A r : Build!Cardinality(r) = Cardinality(r)
    BY DEF Build!Cardinality, Cardinality
  <2> QED BY <1>4, <1>5, <2>1, FS_Subset, FS_CardinalityType
<1> HIDE DEF lengths, n
<1>7. n \in Nat
  <2>1. lengths = {} \/ n \in lengths
    BY <1>1, <1>5, <1>6, FS_CardinalityType, MaxOfBounded
  <2>2. CASE lengths = {}
    <3>1. n = 0 BY <1>1, <2>2, Zenon
    <3> QED BY <3>1
  <2> QED BY <1>6, <2>1, <2>2
<1>8. i.conf = Build!Least(98, 85 + 3 * (n - 3))
  BY <1>2, IssueFields
<1> QED BY <1>2, <1>7, <1>8 DEF Build!Least

\* Silence counts from the moment it is long enough to be reported.
LEMMA SilenceIsSure ==
  ASSUME NEW es \in Seq(LogEntries), NEW t \in Nat,
         NEW i \in Build!DetectSilence(Build!BuildState(es), t)
  PROVE  i.conf >= 70
<1> DEFINE s == Build!BuildState(es)
           elapsed == t - s.lastActivity
           more == ((elapsed - 90) * 10) \div 90
<1>1. s.lastActivity \in Nat
  <2>1. s.lastActivity = IF es = <<>> THEN 0 ELSE es[Len(es)].ts
    BY DEF Build!BuildState
  <2>2. es # <<>> => es[Len(es)] \in LogEntries
    OBVIOUS
  <2>3. \A e \in LogEntries : e.ts \in Nat
    BY DEF LogEntries
  <2> QED BY <2>1, <2>2, <2>3
<1> HIDE DEF s
<1>2. /\ elapsed > 90
      /\ i = Build!Issue("silence", Build!Least(90, 70 + more), <<s.currentCommand>>,
                         Build!Minutes(elapsed))
  BY DEF Build!DetectSilence, Build!SILENCE_WARNING, s
<1>3. elapsed \in Int
  BY <1>1
<1>4. more \in Nat
  BY <1>2, <1>3
<1> HIDE DEF more
<1>5. i.conf = Build!Least(90, 70 + more)
  BY <1>2, IssueFields
<1> QED BY <1>4, <1>5 DEF Build!Least

\* The issues that the user is only told of are those of two detectors.
LEMMA OnlyTwoHaveNoTask ==
  ASSUME NEW es \in Seq(LogEntries), NEW t \in Nat, NEW i \in Build!Analyze(es, t),
         ~Build!HasTask(i)
  PROVE  i.type \in NoTask
<1> DEFINE s == Build!BuildState(es)
           Sure(c) == \E type, about, num : i = Build!Issue(type, c, about, num)
<1>1. ~(i.conf >= 70)
  BY DEF Build!HasTask, Build!ResponseType
<1>2. \A c \in Int : c >= 70 => ~Sure(c)
  BY <1>1, IssueFields
<1>3. i \notin Build!DetectLoops(es)
  BY <1>1, LoopsAreSure
<1>4. i \notin Build!DetectSilence(s, t)
  BY <1>1, SilenceIsSure
<1> HIDE DEF s
<1>5. i \in Build!DetectRegression(es) => Sure(90)
  BY DEF Build!DetectRegression
<1>6. i \in Build!DetectTddViolation(es) => Sure(95)
  BY DEF Build!DetectTddViolation
<1>7. i \in Build!DetectExplicitFailures(es) => Sure(95)
  BY DEF Build!DetectExplicitFailures
<1>8. i \in Build!DetectAgentFailures(es) => Sure(90)
  BY DEF Build!DetectAgentFailures
<1>9. i \in Build!DetectIronLawViolations(es) => Sure(95)
  BY DEF Build!DetectIronLawViolations
<1>10. i \in Build!DetectMissingMilestones(es) => Sure(80)
  BY DEF Build!DetectMissingMilestones
<1>11. i \in Build!DetectIncompleteOutputs(es) => Sure(75)
  BY DEF Build!DetectIncompleteOutputs
<1>12. i \in Build!DetectAgentSilence(es, t) => Sure(80)
  BY DEF Build!DetectAgentSilence
<1>13. i \in Build!DetectAbandonedAgent(es, t) => Sure(80)
  BY DEF Build!DetectAbandonedAgent
<1>14. i \in Build!DetectOutOfOrder(es) => Sure(85) \/ Sure(90)
  BY DEF Build!DetectOutOfOrder
<1>15. i \in Build!DetectStuckPhase(s, t) => Sure(85)
  BY DEF Build!DetectStuckPhase
<1>16. i \in Build!DetectAbruptStop(s, t) => Sure(85)
  BY DEF Build!DetectAbruptStop
<1>17. i \in Build!DetectPartialCompletion(s, t) => Sure(80)
  BY DEF Build!DetectPartialCompletion
<1>18. i \in Build!DetectChainViolation(es) \cup Build!DetectDecliningVelocity(es) => i.type \in NoTask
  BY IssueFields DEF Build!DetectChainViolation, Build!DetectDecliningVelocity, NoTask
<1> HIDE DEF Sure
<1> QED
  BY <1>2, <1>3, <1>4, <1>5, <1>6, <1>7, <1>8, <1>9, <1>10, <1>11, <1>12, <1>13, <1>14, <1>15, <1>16,
     <1>17, <1>18 DEF Build!Analyze, s

LEMMA RankIsNumber == \A type : Build!Rank(type) \in Nat
<1> SUFFICES ASSUME NEW type PROVE Build!Rank(type) \in Nat OBVIOUS
<1> DEFINE ranking ==
       <<"loop_detected", "phase_stuck", "regression", "out_of_order", "chain_broken",
         "tdd_violation", "explicit_failure", "agent_failed", "iron_law_violation",
         "iron_law_repeated", "silence", "missing_milestones", "declining_velocity",
         "incomplete_outputs", "agent_silence", "abrupt_stop", "partial_completion",
         "abandoned_agent">>
<1>1. Build!Rank(type) = IF \E i \in DOMAIN ranking : ranking[i] = type
                         THEN CHOOSE i \in DOMAIN ranking : ranking[i] = type ELSE 0
  BY DEF Build!Rank
<1>2. DOMAIN ranking \subseteq Nat
  OBVIOUS
<1> HIDE DEF ranking
<1> QED BY <1>1, <1>2

LEMMA FirstIsMember == ASSUME NEW W, W # {} PROVE Build!First(W) \in W
<1> DEFINE R == {n \in Nat : \E i \in W : n = Build!Rank(i.type)}
<1>1. R \in SUBSET Nat /\ R # {}
  BY RankIsNumber
<1>2. PICK n \in R : \A m \in R : n <= m
  BY <1>1, LeastNatural
<1>3. PICK i \in W : n = Build!Rank(i.type)
  BY <1>2
<1>4. \A k \in W : Build!Rank(i.type) <= Build!Rank(k.type)
  BY <1>2, <1>3, RankIsNumber
<1> QED BY <1>3, <1>4 DEF Build!First

\* What a job may look at: only some issues can be without a task.
Tame(i, j) ==
  /\ Build!HasTask(i) \/ Exempt(Build!Signature(i))
  /\ j \in Build!CheckJob => i.type \in Check

Adds(j, s) == job[j] = "add" /\ Build!Signature(adding[j]) = s

LogInv ==
  /\ log \in Seq(LogEntries) /\ entries \in Seq(LogEntries) /\ now \in Nat
  /\ position \in Nat /\ position <= Len(log) /\ Len(log) <= MaxLog /\ faults \in Nat

\* Two jobs never queue tasks for the same issue, and none for one that has its task:
\* what a job queues is marked, and what is marked is not looked at again.
JobInv ==
  /\ job \in [Build!Job -> {"off", "check", "add"}]
  /\ DOMAIN todo = Build!Job /\ DOMAIN adding = Build!Job
  /\ \A j \in Build!Job : \A i \in todo[j] : Tame(i, j)
  /\ \A j \in Build!Job : job[j] = "add" =>
       /\ Tame(adding[j], j)
       /\ Build!Signature(adding[j]) \in processed
       /\ \A q \in queued : q[1] # Build!Signature(adding[j])
       /\ \A k \in Build!Job : Adds(k, Build!Signature(adding[j])) => k = j
  /\ \A n \in 1 .. MaxLog : n > position => job[<<"entry", n>>] = "off"
  /\ checks \in Nat /\ \A c \in Build!CheckJob : c[2] > checks => job[c] = "off"

MarkInv ==
  /\ \A q \in queued : q[1] \in processed /\ q[2] = 1
  /\ \A s \in processed :
       \/ Exempt(s)
       \/ <<s, 1>> \in queued
       \/ \E j \in Build!Job : Adds(j, s)
       \/ s[1] \in Check /\ faults > 0

\* The loop of job j over the issues T, when the task it was adding is queued.
LEMMA LoopStep ==
  ASSUME JobInv, MarkInv, NEW j \in Build!Job, NEW T, \A i \in T : Tame(i, j),
         Build!Loop(j, T), faults' = faults, queued \subseteq queued',
         \A q \in queued' : q[1] \in processed /\ q[2] = 1,
         \A k \in Build!Job \ {j} : job[k] = "add" =>
            \A q \in queued' : q[1] # Build!Signature(adding[k]),
         job[j] = "add" => <<Build!Signature(adding[j]), 1>> \in queued',
         \A n \in 1 .. MaxLog : n > position' => n > position /\ <<"entry", n>> # j,
         checks' = checks, \A c \in Build!CheckJob : c[2] > checks => c # j
  PROVE  JobInv' /\ MarkInv'
<1> DEFINE F == Build!Fresh(T)
           W == {i \in F : Build!HasTask(i)}
           sig(i) == Build!Signature(i)
<1>1. \A i \in F : i \in T /\ Tame(i, j) /\ sig(i) \notin processed
  BY DEF Build!Fresh
<1>2. \A i \in F \ W : Exempt(sig(i))
  BY <1>1 DEF Tame
<1>3. CASE W = {}
  <2>1. /\ processed' = processed \cup {sig(i) : i \in F}
        /\ job' = [job EXCEPT ![j] = "off"] /\ todo' = [todo EXCEPT ![j] = {}]
        /\ adding' = [adding EXCEPT ![j] = Build!NoIssue]
    BY <1>3 DEF Build!Loop
  <2> HIDE DEF F, W, sig
  <2>2. JobInv'
    BY <2>1 DEF JobInv, Adds, Tame, sig
  <2>3. MarkInv'
    BY <1>2, <1>3, <2>1 DEF MarkInv, JobInv, Adds, sig
  <2> QED BY <2>2, <2>3
<1>4. CASE W # {}
  <2> DEFINE i == Build!First(W)
             told == {k \in F \ W : Build!Rank(k.type) < Build!Rank(i.type)}
  <2>1. /\ processed' = processed \cup {sig(k) : k \in told \cup {i}}
        /\ job' = [job EXCEPT ![j] = "add"] /\ adding' = [adding EXCEPT ![j] = i]
        /\ todo' = [todo EXCEPT ![j] = F \ (told \cup {i})]
    BY <1>4 DEF Build!Loop
  <2>2. i \in F /\ Tame(i, j) /\ sig(i) \notin processed
    BY <1>1, <1>4, FirstIsMember
  <2>3. \A k \in told : Exempt(sig(k))
    BY <1>2
  <2> HIDE DEF F, W, i, told
  <2> DEFINE a(k) == sig(adding[k])
  <2>4. \A k \in Build!Job : job'[k] = "add" => 
          /\ Tame(adding'[k], k)
          /\ sig(adding'[k]) \in processed' /\ \A q \in queued' : q[1] # sig(adding'[k])
          /\ \A l \in Build!Job : job'[l] = "add" /\ sig(adding'[l]) = sig(adding'[k]) => l = k
    BY <2>1, <2>2 DEF JobInv, Adds
  <2>5. /\ job' \in [Build!Job -> {"off", "check", "add"}]
        /\ DOMAIN todo' = Build!Job /\ DOMAIN adding' = Build!Job
        /\ \A k \in Build!Job : \A l \in todo'[k] : Tame(l, k)
    BY <1>1, <2>1 DEF JobInv
  <2>6. \A n \in 1 .. MaxLog : n > position' => job'[<<"entry", n>>] = "off"
    BY <2>1 DEF JobInv
  <2>12. checks' \in Nat /\ \A c \in Build!CheckJob : c[2] > checks' => job'[c] = "off"
    BY <2>1 DEF JobInv
  <2>7. JobInv'
    BY <2>4, <2>5, <2>6, <2>12 DEF JobInv, Adds, Tame
  <2>8. \A q \in queued' : q[1] \in processed' /\ q[2] = 1
    BY <2>1
  <2>9. \A s \in processed :
          \/ Exempt(s) \/ <<s, 1>> \in queued'
          \/ \E k \in Build!Job : Adds(k, s)'
          \/ s[1] \in Check /\ faults' > 0
    BY <2>1 DEF MarkInv, JobInv, Adds
  <2>10. \A s \in {sig(k) : k \in told \cup {i}} : Exempt(s) \/ Adds(j, s)'
    BY <2>1, <2>3 DEF JobInv, Adds
  <2>11. MarkInv'
    BY <2>1, <2>8, <2>9, <2>10 DEF MarkInv
  <2> QED BY <2>7, <2>11
<1> QED BY <1>3, <1>4

SupervisorInv == LogInv /\ JobInv /\ MarkInv

LEMMA JobKinds ==
  /\ \A j \in Build!CheckJob : j \notin Build!EntryJob /\ j[1] \in Check
  /\ \A j \in Build!EntryJob : j[1] = "entry"
  /\ \A n \in 1 .. MaxLog : <<"entry", n>> \in Build!EntryJob
  /\ Build!Job = Build!EntryJob \cup Build!CheckJob
BY SupervisorAssumption DEF Build!CheckJob, Build!EntryJob, Build!Job

LEMMA SupervisorInit == Build!Init => SupervisorInv
BY SupervisorAssumption, JobKinds
DEF Build!Init, SupervisorInv, LogInv, JobInv, MarkInv, Adds

\* A job that adds nothing comes out of a new process.
LEMMA NewProcessStep ==
  ASSUME SupervisorInv, Build!NewProcess, UNCHANGED <<log, now, position, checks>>, faults' \in Nat
  PROVE  SupervisorInv'
BY JobKinds DEF SupervisorInv, LogInv, JobInv, MarkInv, Adds, Build!NewProcess

LEMMA HandleStep == SupervisorInv /\ Build!HandleEntry => SupervisorInv'
<1> SUFFICES ASSUME SupervisorInv, Build!HandleEntry PROVE SupervisorInv' OBVIOUS
<1> USE DEF SupervisorInv
<1> DEFINE j == <<"entry", position + 1>>
           es == Append(entries, log[position + 1])
<1>1. /\ position < Len(log) /\ position' = position + 1 /\ entries' = es
      /\ Build!Loop(j, Build!Analyze(es, now)) /\ UNCHANGED <<log, now, queued, checks, faults>>
  BY DEF Build!HandleEntry, Build!NextEntry, Build!count
<1>2. position + 1 \in 1 .. MaxLog /\ position + 1 \in DOMAIN log /\ es \in Seq(LogEntries)
  BY <1>1, SupervisorAssumption DEF LogInv
<1>3. j \in Build!Job /\ j \notin Build!CheckJob /\ job[j] = "off"
  BY <1>2, JobKinds DEF JobInv, LogInv
<1>4. \A i \in Build!Analyze(es, now) : Tame(i, j)
  BY <1>2, <1>3, OnlyTwoHaveNoTask DEF Tame, LogInv, Exempt, Build!Signature
<1>5. LogInv'
  BY <1>1, <1>2 DEF LogInv
<1>6. \A n \in 1 .. MaxLog : n > position' => n > position /\ <<"entry", n>> # j
  BY <1>1 DEF LogInv
<1>7. /\ \A q \in queued' : q[1] \in processed /\ q[2] = 1
      /\ \A k \in Build!Job \ {j} : job[k] = "add" =>
            \A q \in queued' : q[1] # Build!Signature(adding[k])
  BY <1>1 DEF MarkInv, JobInv
<1> HIDE DEF j, es
<1>8. JobInv' /\ MarkInv'
  BY <1>1, <1>3, <1>4, <1>6, <1>7, LoopStep
<1> QED BY <1>5, <1>8

LEMMA CheckStep ==
  ASSUME SupervisorInv, NEW c \in Build!CheckJob, Build!CheckEnds(c)
  PROVE  SupervisorInv'
<1> USE DEF SupervisorInv
<1> DEFINE Conf(v) == IF v \in Unactionable THEN 0 ELSE 95
<1>1. PICK V \in SUBSET Violation :
        Build!Loop(c, {Build!Issue(c[1], Conf(v), <<v>>, 0) : v \in V})
  BY DEF Build!CheckEnds
<1> DEFINE T == {Build!Issue(c[1], Conf(v), <<v>>, 0) : v \in V}
<1>2. job[c] = "check" /\ UNCHANGED <<log, now, position, entries, queued, checks, faults>>
  BY DEF Build!CheckEnds, Build!count
<1>3. c \in Build!Job /\ c[1] \in Check /\ \A n \in 1 .. MaxLog : <<"entry", n>> # c
  BY JobKinds
<1>4. ASSUME NEW i \in T PROVE Tame(i, c)
  <2>1. PICK v \in V : i = Build!Issue(c[1], Conf(v), <<v>>, 0) OBVIOUS
  <2>2. i.type = c[1] /\ i.conf = Conf(v) /\ i.about = <<v>>
    BY <2>1 DEF Build!Issue
  <2>3. v \in Unactionable \/ i.conf = 95
    BY <2>2
  <2> HIDE DEF T, Conf
  <2>4. CASE i.conf = 95
    BY <1>3, <2>2, <2>4 DEF Tame, Build!HasTask, Build!ResponseType
  <2>5. CASE v \in Unactionable
    <3>1. Build!Signature(i)[1] = c[1] /\ Build!Signature(i)[2] = <<v>>
      BY <2>2 DEF Build!Signature
    <3> QED BY <1>3, <2>2, <2>5, <3>1 DEF Tame, Exempt
  <2> QED BY <2>3, <2>4, <2>5
<1>5. LogInv'
  BY <1>2 DEF LogInv
<1>6. /\ \A q \in queued' : q[1] \in processed /\ q[2] = 1
      /\ \A k \in Build!Job \ {c} : job[k] = "add" =>
            \A q \in queued' : q[1] # Build!Signature(adding[k])
  BY <1>2 DEF MarkInv, JobInv
<1>8. \A k \in Build!CheckJob : k[2] > checks => k # c
  BY <1>2 DEF JobInv
<1> HIDE DEF T
<1>7. JobInv' /\ MarkInv'
  BY <1>1, <1>2, <1>3, <1>4, <1>6, <1>8, LoopStep DEF T
<1> QED BY <1>5, <1>7

LEMMA AddStep ==
  ASSUME SupervisorInv, NEW j \in Build!Job, Build!AddTask(j)
  PROVE  SupervisorInv'
<1> USE DEF SupervisorInv
<1> DEFINE s == Build!Signature(adding[j])
<1>1. /\ job[j] = "add" /\ Build!Loop(j, todo[j])
      /\ UNCHANGED <<log, now, position, entries, checks, faults>>
      /\ queued' = queued \cup {<<s, IF \E q \in queued : q[1] = s THEN 2 ELSE 1>>}
  BY DEF Build!AddTask, Build!count
<1>2. s \in processed /\ ~\E q \in queued : q[1] = s
  BY <1>1 DEF JobInv
<1>3. queued' = queued \cup {<<s, 1>>}
  BY <1>1, <1>2
<1>4. LogInv'
  BY <1>1 DEF LogInv
<1>5. \A q \in queued' : q[1] \in processed /\ q[2] = 1
  BY <1>2, <1>3 DEF MarkInv
<1>6. \A k \in Build!Job \ {j} : job[k] = "add" =>
            \A q \in queued' : q[1] # Build!Signature(adding[k])
  BY <1>1, <1>3 DEF JobInv, Adds
<1>7. \A i \in todo[j] : Tame(i, j)
  BY DEF JobInv
<1>8. \A n \in 1 .. MaxLog : n > position' => n > position /\ <<"entry", n>> # j
  BY <1>1 DEF JobInv
<1>10. \A c \in Build!CheckJob : c[2] > checks => c # j
  BY <1>1 DEF JobInv
<1> HIDE DEF s
<1>9. JobInv' /\ MarkInv'
  BY <1>1, <1>3, <1>5, <1>6, <1>7, <1>8, <1>10, LoopStep DEF s
<1> QED BY <1>4, <1>9

LEMMA AddFailsStep ==
  ASSUME SupervisorInv, NEW j \in Build!Job, Build!AddTaskFails(j)
  PROVE  SupervisorInv'
<1> USE DEF SupervisorInv
<1>1. /\ job[j] = "add" /\ faults' = faults + 1 /\ UNCHANGED <<log, now, position, checks>>
  BY DEF Build!AddTaskFails
<1>2. CASE j \in Build!CheckJob
  <2>1. /\ job' = [job EXCEPT ![j] = "off"] /\ todo' = [todo EXCEPT ![j] = {}]
        /\ adding' = [adding EXCEPT ![j] = Build!NoIssue]
        /\ UNCHANGED <<entries, processed, queued>>
    BY <1>2 DEF Build!AddTaskFails
  <2>2. LogInv'
    BY <1>1, <2>1 DEF LogInv
  <2>3. Build!Signature(adding[j])[1] \in Check /\ faults' > 0
    <3>1. Build!Signature(adding[j])[1] = adding[j].type BY DEF Build!Signature
    <3>2. adding[j].type \in Check BY <1>1, <1>2 DEF JobInv, Tame
    <3> QED BY <1>1, <3>1, <3>2 DEF LogInv
  <2>4. JobInv'
    BY <1>1, <2>1 DEF JobInv, Adds, Tame
  <2>5. \A s \in processed :
          \/ Exempt(s) \/ <<s, 1>> \in queued'
          \/ \E k \in Build!Job : Adds(k, s)'
          \/ s[1] \in Check /\ faults' > 0
    BY <1>1, <2>1, <2>3 DEF MarkInv, JobInv, Adds, LogInv
  <2> QED BY <2>1, <2>2, <2>4, <2>5 DEF MarkInv
<1>3. CASE j \notin Build!CheckJob
  BY <1>1, <1>3, NewProcessStep DEF Build!AddTaskFails, LogInv
<1> QED BY <1>2, <1>3

LEMMA SupervisorStep == SupervisorInv /\ [Build!Next]_supervisorVars => SupervisorInv'
<1> SUFFICES ASSUME SupervisorInv, [Build!Next]_supervisorVars PROVE SupervisorInv' OBVIOUS
<1> USE DEF SupervisorInv
<1>1. CASE UNCHANGED <<log, position, entries, now, processed, job, todo, adding, queued,
                       checks, faults>>
  BY <1>1 DEF LogInv, JobInv, MarkInv, Adds, Tame
<1>2. ASSUME NEW d \in Delay, Build!Tick(d) PROVE SupervisorInv'
  <2>1. now' = now + d /\ UNCHANGED <<log, position, entries, processed, job, todo, adding, queued,
                                     checks, faults>>
    BY <1>2 DEF Build!Tick, Build!count
  <2> QED BY <2>1, SupervisorAssumption DEF LogInv, JobInv, MarkInv, Adds, Tame
<1>3. ASSUME NEW e \in Entry, Build!LogEntry(e) PROVE SupervisorInv'
  <2> DEFINE new == [event |-> e.event, cmd |-> e.cmd, phase |-> e.phase, arg |-> e.arg,
                     good |-> e.good, agent |-> e.agent, ts |-> now]
  <2>1. /\ Len(log) < MaxLog
        /\ \/ log' = Append(log, new) /\ UNCHANGED faults
           \/ log' = log /\ faults' = faults + 1
        /\ UNCHANGED <<now, position, entries, processed, job, todo, adding, queued, checks>>
    BY <1>3 DEF Build!LogEntry
  <2>2. new \in LogEntries
    BY DEF LogEntries, LogInv
  <2>3. LogInv'
    <3> HIDE DEF new
    <3>1. Append(log, new) \in Seq(LogEntries) /\ Len(Append(log, new)) = Len(log) + 1
      BY <2>2 DEF LogInv
    <3>2. CASE log' = Append(log, new) /\ UNCHANGED faults
      BY <2>1, <3>1, <3>2, SupervisorAssumption DEF LogInv
    <3>3. CASE log' = log /\ faults' = faults + 1
      BY <2>1, <3>3 DEF LogInv
    <3> QED BY <2>1, <3>2, <3>3
  <2> HIDE DEF new
  <2>4. JobInv' /\ MarkInv'
    BY <2>1 DEF JobInv, MarkInv, Adds, Tame, LogInv
  <2> QED BY <2>3, <2>4
<1>4. CASE Build!Start
  <2>1. /\ position' = Len(log) /\ entries' \in {entries, log}
        /\ UNCHANGED <<log, now, processed, job, todo, adding, queued, checks, faults>>
    BY <1>4 DEF Build!Start
  <2>2. LogInv'
    BY <2>1 DEF LogInv
  <2>3. \A n \in 1 .. MaxLog : n > position' => n > position
    BY <2>1 DEF LogInv
  <2> QED BY <2>1, <2>2, <2>3 DEF JobInv, MarkInv, Adds, Tame
<1>5. CASE Build!Stop
  BY <1>1, <1>5 DEF Build!Stop, Build!count
<1>6. CASE Build!Exit
  BY <1>6, NewProcessStep DEF Build!Exit, Build!count, LogInv
<1>7. ASSUME NEW c \in Build!CheckJob, Build!CheckStarts(c) PROVE SupervisorInv'
  <2>1. /\ c[2] = checks + 1 /\ checks' = checks + 1 /\ job' = [job EXCEPT ![c] = "check"]
        /\ UNCHANGED <<log, position, entries, now, processed, todo, adding, queued, faults>>
    BY <1>7 DEF Build!CheckStarts
  <2>2. c \in Build!Job /\ \A n \in 1 .. MaxLog : <<"entry", n>> # c
    BY JobKinds
  <2>3. c[2] \in Nat
    BY SupervisorAssumption DEF Build!CheckJob
  <2>4. job[c] = "off"
    BY <2>1, <2>3 DEF JobInv
  <2>5. checks' \in Nat /\ \A k \in Build!CheckJob : k[2] > checks' => job'[k] = "off"
    <3>1. \A k \in Build!CheckJob : k[2] \in Nat
      BY SupervisorAssumption DEF Build!CheckJob
    <3> QED BY <2>1, <2>2, <3>1 DEF JobInv
  <2> QED BY <2>1, <2>2, <2>4, <2>5 DEF LogInv, JobInv, MarkInv, Adds, Tame
<1> QED
  BY <1>1, <1>2, <1>3, <1>4, <1>5, <1>6, <1>7, HandleStep, CheckStep, AddStep, AddFailsStep
  DEF Build!Next, supervisorVars

SavedInv == (\A a, b \in saved : a = b) /\ Build!SavedIsCurrent

\* A loop that ends with no entry handled has saved the state, one that goes on has not.
LEMMA SavingStep ==
  ASSUME JobInv, SavedInv, NEW j \in Build!Job, NEW T, Build!Loop(j, T), Build!SavesAfterLoop(j),
         j \in Build!EntryJob \/ UNCHANGED <<state, running>>
  PROVE  SavedInv'
<1>1. PICK x \in {"off", "add"} : job' = [job EXCEPT ![j] = x]
  BY DEF Build!Loop
<1>2. saved' = IF j[1] = "entry" /\ job'[j] = "off" THEN {state'} ELSE saved
  BY DEF Build!SavesAfterLoop
<1>3. job'[j] = x /\ \A k \in Build!EntryJob : k # j => job'[k] = job[k]
  BY <1>1, JobKinds DEF JobInv
<1>4. CASE j[1] = "entry" /\ x = "off"
  BY <1>2, <1>3, <1>4 DEF SavedInv, Build!SavedIsCurrent
<1>5. CASE j \in Build!EntryJob /\ x = "add"
  BY <1>2, <1>3, <1>5 DEF SavedInv, Build!SavedIsCurrent
<1>6. CASE j \in Build!CheckJob /\ ~(j[1] = "entry" /\ x = "off")
  BY <1>2, <1>3, <1>6, JobKinds DEF SavedInv, Build!SavedIsCurrent
<1> QED BY <1>1, <1>4, <1>5, <1>6, JobKinds

LEMMA SavedStep == JobInv /\ LogInv /\ SavedInv /\ [Build!Next]_supervisorVars => SavedInv'
<1> SUFFICES ASSUME JobInv, LogInv, SavedInv, [Build!Next]_supervisorVars PROVE SavedInv' OBVIOUS
<1>1. CASE UNCHANGED <<running, state, saved, job>>
  BY <1>1 DEF SavedInv, Build!SavedIsCurrent
<1>2. CASE Build!Start
  BY <1>2 DEF Build!Start, SavedInv, Build!SavedIsCurrent
<1>3. CASE Build!Stop \/ Build!Exit
  BY <1>3 DEF Build!Stop, Build!Exit, SavedInv, Build!SavedIsCurrent
<1>4. CASE Build!HandleEntry
  <2>1. position + 1 \in 1 .. MaxLog
    BY <1>4, SupervisorAssumption DEF Build!HandleEntry, Build!NextEntry, LogInv
  <2>2. <<"entry", position + 1>> \in Build!Job \cap Build!EntryJob
    BY <2>1, JobKinds
  <2> QED BY <1>4, <2>2, SavingStep DEF Build!HandleEntry
<1>5. ASSUME NEW c \in Build!CheckJob, Build!CheckStarts(c) PROVE SavedInv'
  <2>1. job' = [job EXCEPT ![c] = "check"] /\ UNCHANGED <<running, state, saved>>
    BY <1>5 DEF Build!CheckStarts
  <2>2. \A j \in Build!EntryJob : job'[j] = job[j]
    BY <2>1, JobKinds DEF JobInv
  <2> QED BY <2>1, <2>2 DEF SavedInv, Build!SavedIsCurrent
<1>6. ASSUME NEW c \in Build!CheckJob, Build!CheckEnds(c) PROVE SavedInv'
  <2>1. PICK T : Build!Loop(c, T) /\ UNCHANGED <<running, state, saved>>
    BY <1>6 DEF Build!CheckEnds
  <2>2. \A j \in Build!EntryJob : job'[j] = job[j]
    BY <2>1, JobKinds DEF Build!Loop, JobInv
  <2> QED BY <2>1, <2>2 DEF SavedInv, Build!SavedIsCurrent
<1>7. ASSUME NEW j \in Build!Job, Build!AddTask(j) PROVE SavedInv'
  BY <1>7, SavingStep DEF Build!AddTask
<1>8. ASSUME NEW j \in Build!Job, Build!AddTaskFails(j) PROVE SavedInv'
  <2>1. CASE j \in Build!CheckJob
    <3>1. job' = [job EXCEPT ![j] = "off"] /\ UNCHANGED <<running, state, saved>>
      BY <1>8, <2>1 DEF Build!AddTaskFails
    <3>2. \A k \in Build!EntryJob : job'[k] = job[k]
      BY <2>1, <3>1, JobKinds DEF JobInv
    <3> QED BY <3>1, <3>2 DEF SavedInv, Build!SavedIsCurrent
  <2>2. CASE j \notin Build!CheckJob
    BY <1>8, <2>2 DEF Build!AddTaskFails, SavedInv, Build!SavedIsCurrent
  <2> QED BY <2>1, <2>2
<1>9. CASE (\E d \in Delay : Build!Tick(d)) \/ (\E e \in Entry : Build!LogEntry(e))
  BY <1>1, <1>9 DEF Build!Tick, Build!LogEntry
<1> QED
  BY <1>1, <1>2, <1>3, <1>4, <1>5, <1>6, <1>7, <1>8, <1>9 DEF Build!Next, supervisorVars

\* WatcherSupervisor: however handlers, checks, stops and restarts interleave, the task of
\* an issue is queued once, an issue marked as processed has its task or gets it, and
\* between two entries workflow-state.json holds the state of the supervisor.
THEOREM IssuesQueued == SystemSpec => []IssuesAreQueued
<1> DEFINE Inv == IF part = "analysis" THEN processed = {} /\ queued = {} /\ saved = {}
                  ELSE SupervisorInv /\ SavedInv
<1>1. SystemInit => Inv
  <2>1. Build!Init => processed = {} /\ queued = {} /\ saved = {}
    BY DEF Build!Init
  <2>2. Build!Init => SavedInv
    BY DEF SavedInv, Build!Init, Build!SavedIsCurrent
  <2> QED BY PartInits, SupervisorInit, <2>1, <2>2
<1>2. Inv /\ [SystemNext]_allVars => Inv'
  <2> SUFFICES ASSUME Inv, [SystemNext]_allVars PROVE Inv' OBVIOUS
  <2>1. CASE part = "analysis"
    BY PartSteps, <2>1
  <2>2. CASE part # "analysis"
    BY PartSteps, SupervisorStep, SavedStep, <2>2 DEF SupervisorInv
  <2> QED BY <2>1, <2>2
<1>4. Inv /\ part = "analysis" => IssuesAreQueued
  BY DEF IssuesAreQueued, Build!QueuedOnce, Build!MarkedIsQueued, Build!SavedIsCurrent
<1>3. Inv /\ part # "analysis" => IssuesAreQueued
  <2> SUFFICES ASSUME SupervisorInv, SavedInv PROVE IssuesAreQueued OBVIOUS
  <2>1. Build!QueuedOnce
    BY DEF SupervisorInv, MarkInv, Build!QueuedOnce
  <2>2. Build!MarkedIsQueued
    BY DEF SupervisorInv, MarkInv, Adds, NoTask, Exempt, Build!MarkedIsQueued
  <2> QED BY <2>1, <2>2 DEF SavedInv, IssuesAreQueued
<1>5. Inv => IssuesAreQueued
  BY <1>3, <1>4
<1> QED BY <1>1, <1>2, <1>5, PTL DEF SystemSpec

-----------------------------------------------------------------------------
(* The monitors.  What one remembers is the end of what happened since it  *)
(* was reset, so a count over the one is a count over the other.           *)

\* The cardinality that an instance takes from its own FiniteSets is the same.
LEMMA RulesCardinality == ASSUME NEW S PROVE Rules!Cardinality(S) = Cardinality(S)
BY DEF Rules!Cardinality, Cardinality

\* b is the end of s, whole or of n elements.
EndOf(b, s, n) ==
  /\ Len(b) = IF Len(s) > n THEN n ELSE Len(s)
  /\ \A i \in 1..Len(b) : b[i] = s[i + (Len(s) - Len(b))]

LEMMA NewestIsEnd ==
  ASSUME NEW S, NEW b \in Seq(S), NEW s \in Seq(S), NEW x \in S, NEW n \in Nat \ {0},
         EndOf(b, s, n)
  PROVE  /\ Rules!Newest(Append(b, x), n) \in Seq(S) /\ Append(s, x) \in Seq(S)
         /\ EndOf(Rules!Newest(Append(b, x), n), Append(s, x), n)
<1> DEFINE c == Append(b, x)
           t == Append(s, x)
           first == IF Len(c) > n THEN Len(c) - n + 1 ELSE 1
           d == SubSeq(c, first, Len(c))
<1>1. /\ Len(b) \in Nat /\ Len(s) \in Nat
      /\ c \in Seq(S) /\ Len(c) = Len(b) + 1 /\ c[Len(b) + 1] = x
      /\ \A i \in 1..Len(b) : c[i] = b[i]
      /\ t \in Seq(S) /\ Len(t) = Len(s) + 1 /\ t[Len(s) + 1] = x
      /\ \A i \in 1..Len(s) : t[i] = s[i]
  OBVIOUS
<1>2. Rules!Newest(c, n) = d
  BY DEF Rules!Newest
<1> HIDE DEF c, t
<1>3. first \in 1..Len(c)
  BY <1>1
<1> HIDE DEF first
<1>4. /\ d \in Seq(S) /\ Len(d) = Len(c) - first + 1
      /\ \A i \in 1..Len(d) : d[i] = c[i + first - 1]
  BY <1>1, <1>3
<1> HIDE DEF d
<1>5. Len(b) = IF Len(s) > n THEN n ELSE Len(s)
  BY DEF EndOf
<1>6. Len(d) = IF Len(t) > n THEN n ELSE Len(t)
  <2>1. Len(c) \in Nat /\ Len(d) = IF Len(c) > n THEN n ELSE Len(c)
    BY <1>1, <1>4 DEF first
  <2> QED BY <1>1, <1>5, <2>1
<1>7. ASSUME NEW i \in 1..Len(d) PROVE d[i] = t[i + (Len(t) - Len(d))]
  <2> DEFINE k == i + first - 1
  <2>1. k \in 1..Len(c) /\ i + (Len(t) - Len(d)) = k + (Len(s) - Len(b)) /\ d[i] = c[k]
    BY <1>1, <1>3, <1>4, <1>7
  <2> HIDE DEF k
  <2>2. CASE k = Len(b) + 1
    BY <1>1, <2>1, <2>2
  <2>3. CASE k # Len(b) + 1
    <3>1. k \in 1..Len(b)
      BY <1>1, <2>1, <2>3
    <3>2. b[k] = s[k + (Len(s) - Len(b))]
      BY <3>1 DEF EndOf
    <3>3. k + (Len(s) - Len(b)) \in 1..Len(s)
      BY <1>1, <1>5, <3>1
    <3> QED BY <1>1, <2>1, <3>1, <3>2, <3>3
  <2> QED BY <2>2, <2>3
<1> QED BY <1>1, <1>2, <1>4, <1>6, <1>7 DEF EndOf, c, t

MonitorsInv ==
  /\ logBuffer \in Seq(Line) /\ output \in Seq(Line) /\ EndOf(logBuffer, output, MaxBuffer)
  /\ testHistory \in Seq(BOOLEAN) /\ runs \in Seq(BOOLEAN) /\ EndOf(testHistory, runs, MaxHistory)
  /\ stuckTasks = IF stuckReported THEN 1 ELSE 0
  /\ Rules!ReportedIsRecent

LEMMA IndicesAreFinite == \A m \in Nat : IsFiniteSet(1..m)
BY FS_Interval

\* A line alone is no loop, and no rule reports one.
LEMMA OneLineIsNoLoop ==
  ASSUME NEW l, NEW t \in Rules!Analyze(<<l>>)
  PROVE  t.anomaly \notin {"agent_loop", "test_flaky"}
<1>1. ~Rules!DetectLoop(<<l>>)
  <2> SUFFICES ASSUME NEW tool PROVE ~(Rules!Calls(<<l>>, tool) >= LoopThreshold)
    BY DEF Rules!DetectLoop
  <2> DEFINE S == {i \in 1..Len(<<l>>) : <<l>>[i].tool = {tool}}
  <2>1. S \subseteq {1}
    OBVIOUS
  <2>2. IsFiniteSet({1}) /\ Cardinality({1}) = 1
    BY FS_Singleton
  <2>3. Cardinality(S) \in Nat /\ Cardinality(S) <= 1
    BY <2>1, <2>2, FS_Subset, FS_CardinalityType
  <2>4. Rules!Calls(<<l>>, tool) = Cardinality(S)
    BY RulesCardinality DEF Rules!Calls
  <2> HIDE DEF S
  <2> QED BY <2>3, <2>4, MonitorsAssumption
<1>2. PICK r \in 1..Len(Rules!Rules) : t = Rules!Rules[r]
  BY <1>1 DEF Rules!Analyze
<1> QED BY <1>2 DEF Rules!Rules, Rules!Task

\* What is analysed as one text is the end of the output.
LEMMA LoopIsRecent ==
  ASSUME MonitorsInv, NEW t \in Rules!Analyze(logBuffer)
  PROVE  /\ t.anomaly # "test_flaky"
         /\ t.anomaly = "agent_loop" => \E l \in Line : \E tool \in l.tool :
              Rules!Cardinality({i \in 1..Len(output) :
                 i + MaxBuffer > Len(output) /\ output[i].tool = {tool}}) >= LoopThreshold
<1>1. CASE Rules!DetectLoop(logBuffer)
  <2>1. t.anomaly = "agent_loop"
    BY <1>1 DEF Rules!Analyze, Rules!Task
  <2>2. PICK k \in 1..Len(logBuffer) : \E tool \in logBuffer[k].tool :
          Rules!Calls(logBuffer, tool) >= LoopThreshold
    BY <1>1 DEF Rules!DetectLoop
  <2>3. PICK tool \in logBuffer[k].tool : Rules!Calls(logBuffer, tool) >= LoopThreshold
    BY <2>2
  <2>4. logBuffer[k] \in Line
    BY DEF MonitorsInv
  <2> DEFINE S == {i \in 1..Len(logBuffer) : logBuffer[i].tool = {tool}}
             T == {i \in 1..Len(output) :
                     i + MaxBuffer > Len(output) /\ output[i].tool = {tool}}
             d == Len(output) - Len(logBuffer)
             f == [i \in S |-> i + d]
  <2>5. /\ Len(output) \in Nat /\ Len(logBuffer) \in Nat /\ MaxBuffer \in Nat
        /\ Len(logBuffer) = IF Len(output) > MaxBuffer THEN MaxBuffer ELSE Len(output)
        /\ \A i \in 1..Len(logBuffer) : logBuffer[i] = output[i + d]
    <3>1. logBuffer \in Seq(Line) /\ output \in Seq(Line) /\ EndOf(logBuffer, output, MaxBuffer)
      BY DEF MonitorsInv
    <3>2. Len(output) \in Nat /\ Len(logBuffer) \in Nat
      BY <3>1
    <3> QED BY <3>1, <3>2, MonitorsAssumption DEF EndOf
  <2>6. d \in Nat /\ d + Len(logBuffer) = Len(output) /\ d + MaxBuffer >= Len(output)
    BY <2>5
  <2> HIDE DEF d
  <2>7. ASSUME NEW i \in S PROVE i + d \in T
    <3>1. i \in 1..Len(logBuffer) /\ logBuffer[i].tool = {tool} /\ output[i + d] = logBuffer[i]
      BY <2>5
    <3>2. i + d \in 1..Len(output) /\ i + d + MaxBuffer > Len(output)
      BY <2>5, <2>6, <3>1
    <3> QED BY <3>1, <3>2
  <2>8. S \subseteq 1..Len(logBuffer) /\ T \subseteq 1..Len(output)
    OBVIOUS
  <2>9. IsFiniteSet(S) /\ IsFiniteSet(T)
    <3> HIDE DEF S, T
    <3>1. IsFiniteSet(1..Len(logBuffer)) /\ IsFiniteSet(1..Len(output))
      BY <2>5, IndicesAreFinite
    <3> QED BY <2>8, <3>1, FS_Subset
  <2> HIDE DEF S, T
  <2>10. f \in Injection(S, T)
    <3>1. f \in [S -> T]
      BY <2>7
    <3>2. ASSUME NEW i \in S, NEW j \in S, f[i] = f[j] PROVE i = j
      BY <2>5, <2>6, <2>8, <3>2
    <3> HIDE DEF f
    <3>3. IsInjective(f)
      BY <3>1, <3>2 DEF IsInjective
    <3> QED BY <3>1, <3>3 DEF Injection
  <2> HIDE DEF f
  <2>11. Cardinality(S) \in Nat /\ Cardinality(T) \in Nat /\ Cardinality(S) <= Cardinality(T)
    BY <2>10, <2>9, FS_Injection, FS_CardinalityType
  <2>12. Cardinality(S) >= LoopThreshold
    BY <2>3, RulesCardinality DEF Rules!Calls, S
  <2>13. Rules!Cardinality(T) >= LoopThreshold
    BY <2>11, <2>12, RulesCardinality, MonitorsAssumption
  <2> QED BY <2>1, <2>4, <2>13 DEF T
<1>2. CASE ~Rules!DetectLoop(logBuffer)
  <2>1. PICK r \in 1..Len(Rules!Rules) : t = Rules!Rules[r]
    BY <1>2 DEF Rules!Analyze
  <2> QED BY <2>1 DEF Rules!Rules, Rules!Task
<1> QED BY <1>1, <1>2

\* Both results of a flaky test are among the last runs.
LEMMA FlakyIsRecent ==
  ASSUME MonitorsInv, Rules!IsTestFlaky
  PROVE  \E i, j \in 1..Len(runs) :
           i + MaxHistory > Len(runs) /\ j + MaxHistory > Len(runs) /\ runs[i] /\ ~runs[j]
<1>1. PICK a \in DOMAIN testHistory, b \in DOMAIN testHistory :
        testHistory[a] = TRUE /\ testHistory[b] = FALSE
  BY Zenon DEF Rules!IsTestFlaky, Rules!ToSet
<1> DEFINE d == Len(runs) - Len(testHistory)
<1>2. testHistory \in Seq(BOOLEAN) /\ runs \in Seq(BOOLEAN) /\ EndOf(testHistory, runs,
      MaxHistory)
  BY DEF MonitorsInv
<1>3. Len(runs) \in Nat /\ Len(testHistory) \in Nat /\ DOMAIN testHistory = 1..Len(testHistory)
  BY <1>2
<1>4. /\ MaxHistory \in Nat
      /\ Len(testHistory) = IF Len(runs) > MaxHistory THEN MaxHistory ELSE Len(runs)
      /\ \A i \in 1..Len(testHistory) : testHistory[i] = runs[i + d]
  BY <1>2, MonitorsAssumption DEF EndOf
<1>5. d \in Nat /\ d + Len(testHistory) = Len(runs) /\ d + MaxHistory >= Len(runs)
  BY <1>4, <1>3
<1>6. runs[a + d] = TRUE /\ runs[b + d] = FALSE
  BY <1>1, <1>4, <1>3, Zenon
<1> HIDE DEF d
<1>7. /\ a + d \in 1..Len(runs) /\ b + d \in 1..Len(runs)
      /\ a + d + MaxHistory > Len(runs) /\ b + d + MaxHistory > Len(runs)
  BY <1>1, <1>4, <1>5, <1>3, SMTT(30)
<1> QED BY <1>6, <1>7, Zenon

LEMMA MonitorsInit == Rules!Init => MonitorsInv
<1> SUFFICES ASSUME Rules!Init PROVE MonitorsInv OBVIOUS
<1>1. /\ logBuffer = <<>> /\ output = <<>> /\ testHistory = <<>> /\ runs = <<>>
      /\ tasks = {} /\ stuckTasks = 0 /\ stuckReported = FALSE
  BY DEF Rules!Init
<1>2. \A n \in Nat : EndOf(<<>>, <<>>, n)
  BY DEF EndOf
<1>3. <<>> \in Seq(Line) /\ <<>> \in Seq(BOOLEAN)
  OBVIOUS
<1> QED BY <1>1, <1>2, <1>3, MonitorsAssumption DEF MonitorsInv, Rules!ReportedIsRecent

\* A step that remembers nothing new and reports neither.
LEMMA QuietStep ==
  ASSUME MonitorsInv, UNCHANGED <<logBuffer, output, testHistory, runs>>,
         stuckTasks' = (IF stuckReported' THEN 1 ELSE 0),
         \A t \in tasks' : t.anomaly \notin {"agent_loop", "test_flaky"}
  PROVE  MonitorsInv'
BY DEF MonitorsInv, EndOf, Rules!ReportedIsRecent

LEMMA MonitorsStep == MonitorsInv /\ [Rules!Next]_monitorsVars => MonitorsInv'
<1> SUFFICES ASSUME MonitorsInv, [Rules!Next]_monitorsVars PROVE MonitorsInv'
  OBVIOUS
<1> USE DEF Rules!tests, Rules!logs
<1>1. CASE UNCHANGED monitorsVars
  BY <1>1 DEF monitorsVars, MonitorsInv, EndOf, Rules!ReportedIsRecent
<1>2. ASSUME NEW l \in Line, Rules!ProcessLine(l) PROVE MonitorsInv'
  <2>1. /\ logBuffer' = Rules!Newest(Append(logBuffer, l), MaxBuffer)
        /\ output' = Append(output, l) /\ tasks' = Rules!Analyze(<<l>>)
        /\ UNCHANGED <<testHistory, runs>> /\ stuckTasks' = 0 /\ stuckReported' = FALSE
    BY <1>2 DEF Rules!ProcessLine
  <2>2. logBuffer' \in Seq(Line) /\ output' \in Seq(Line) /\ EndOf(logBuffer', output', MaxBuffer)
    BY <2>1, NewestIsEnd, MonitorsAssumption DEF MonitorsInv
  <2>3. \A t \in tasks' : t.anomaly \notin {"agent_loop", "test_flaky"}
    BY <2>1, OneLineIsNoLoop
  <2> QED BY <2>1, <2>2, <2>3 DEF MonitorsInv, EndOf, Rules!ReportedIsRecent
<1>3. CASE Rules!CheckAndReportStuck
  BY <1>3, QuietStep DEF Rules!CheckAndReportStuck, Rules!Task, MonitorsInv
<1>4. CASE Rules!AnalyzeAggregated
  <2>1. tasks' = Rules!Analyze(logBuffer) /\ UNCHANGED <<logBuffer, output, testHistory, runs>>
        /\ UNCHANGED <<stuckTasks, stuckReported>>
    BY <1>4 DEF Rules!AnalyzeAggregated
  <2>2. Rules!ReportedIsRecent'
    BY <2>1, LoopIsRecent DEF Rules!ReportedIsRecent
  <2> QED BY <2>1, <2>2 DEF MonitorsInv, EndOf
<1>5. CASE Rules!ResetLog
  <2>1. /\ logBuffer' = <<>> /\ output' = <<>> /\ stuckReported' = FALSE /\ stuckTasks' = 0
        /\ tasks' = {} /\ UNCHANGED <<testHistory, runs>>
    BY <1>5 DEF Rules!ResetLog
  <2>2. EndOf(<<>>, <<>>, MaxBuffer) /\ <<>> \in Seq(Line)
    BY MonitorsAssumption DEF EndOf
  <2> QED BY <2>1, <2>2 DEF MonitorsInv, EndOf, Rules!ReportedIsRecent
<1>6. CASE Rules!Wait
  BY <1>6, QuietStep DEF Rules!Wait, MonitorsInv
<1>7. CASE Rules!ReportFailure
  BY <1>7, QuietStep DEF Rules!ReportFailure, Rules!Task, MonitorsInv
<1>8. ASSUME NEW passed \in BOOLEAN, Rules!RecordTestRun(passed) PROVE MonitorsInv'
  <2>1. /\ testHistory' = Rules!Newest(Append(testHistory, passed), MaxHistory)
        /\ runs' = Append(runs, passed) /\ tasks' = {}
        /\ UNCHANGED <<logBuffer, output, stuckTasks, stuckReported>>
    BY <1>8 DEF Rules!RecordTestRun
  <2>2. testHistory \in Seq(BOOLEAN) /\ runs \in Seq(BOOLEAN) /\ EndOf(testHistory, runs,
        MaxHistory)
    BY DEF MonitorsInv
  <2>3. /\ testHistory' \in Seq(BOOLEAN) /\ runs' \in Seq(BOOLEAN)
        /\ EndOf(testHistory', runs', MaxHistory)
    BY <2>1, <2>2, NewestIsEnd, MonitorsAssumption
  <2> QED BY <2>1, <2>3 DEF MonitorsInv, EndOf, Rules!ReportedIsRecent
<1>9. CASE Rules!ReportFlakyTests
  <2>1. /\ UNCHANGED <<logBuffer, output, testHistory, runs, stuckTasks, stuckReported>>
        /\ tasks' = IF Rules!IsTestFlaky THEN {Rules!Task("test_flaky", "medium",
              "debugger")} ELSE {}
    BY <1>9 DEF Rules!ReportFlakyTests
  <2>2. CASE Rules!IsTestFlaky
    <3>1. \A t \in tasks' : t.anomaly = "test_flaky"
      BY <2>1, <2>2 DEF Rules!Task
    <3>2. Rules!ReportedIsRecent'
      BY <2>1, <2>2, <3>1, FlakyIsRecent DEF Rules!ReportedIsRecent
    <3> QED BY <2>1, <3>2 DEF MonitorsInv, EndOf
  <2>3. CASE ~Rules!IsTestFlaky
    BY <2>1, <2>3, QuietStep DEF MonitorsInv
  <2> QED BY <2>2, <2>3
<1>10. CASE Rules!ReportCoverage
  BY <1>10, QuietStep DEF Rules!ReportCoverage, Rules!Task, MonitorsInv
<1>11. CASE Rules!ResetTests
  <2>1. /\ testHistory' = <<>> /\ runs' = <<>> /\ tasks' = {}
        /\ UNCHANGED <<logBuffer, output, stuckTasks, stuckReported>>
    BY <1>11 DEF Rules!ResetTests
  <2>2. EndOf(<<>>, <<>>, MaxHistory) /\ <<>> \in Seq(BOOLEAN)
    BY MonitorsAssumption DEF EndOf
  <2> QED BY <2>1, <2>2 DEF MonitorsInv, EndOf, Rules!ReportedIsRecent
<1>12. CASE Rules!ReportStatus
  BY <1>12, QuietStep DEF Rules!ReportStatus, Rules!Task, MonitorsInv
<1>13. CASE Rules!ReportPushFailure
  <2>1. \A t \in tasks' : t = Rules!Task("push_failed", "high", "deployment-engineer")
    BY <1>13, Zenon DEF Rules!ReportPushFailure
  <2>2. UNCHANGED <<Rules!logs, Rules!tests>>
    BY <1>13 DEF Rules!ReportPushFailure
  <2> QED BY <2>1, <2>2, QuietStep DEF Rules!Task, MonitorsInv
<1>14. CASE Rules!AnalyzeAndReport
  <2>1. PICK l \in Line : Rules!AnalyzeLLM(<<l>>)
    BY <1>14 DEF Rules!AnalyzeAndReport
  <2>2. \A t \in tasks' : t.anomaly \notin {"agent_loop", "test_flaky"}
    <3>1. tasks' = Rules!Analyze(<<l>>) \/ tasks' = {}
          \/ tasks' = {Rules!Task("unusual_pattern", "low", "debugger")}
      BY <2>1 DEF Rules!AnalyzeLLM
    <3> QED BY <3>1, OneLineIsNoLoop DEF Rules!Task
  <2> QED BY <1>14, <2>2, QuietStep DEF Rules!AnalyzeAndReport, MonitorsInv
<1> QED
  BY <1>1, <1>2, <1>3, <1>4, <1>5, <1>6, <1>7, <1>8, <1>9, <1>10, <1>11, <1>12, <1>13, <1>14
     DEF Rules!Next

\* The monitors: a stretch of silence is reported once; a loop, or a flaky test, only where
\* the lines or runs that are still remembered show one.
THEOREM MonitorsReportWhatIs == SystemSpec => []ReportedIsRecent
<1>1. SystemInit => MonitorsInv
  BY PartInits, MonitorsInit
<1>2. MonitorsInv /\ [SystemNext]_allVars => MonitorsInv'
  BY PartSteps, MonitorsStep
<1>3. MonitorsInv => ReportedIsRecent
  BY DEF MonitorsInv, ReportedIsRecent, Rules!StuckOnce
<1> QED BY <1>1, <1>2, <1>3, PTL DEF SystemSpec

-----------------------------------------------------------------------------
(* The iron laws.  Whatever is dropped from the calls and the records, the *)
(* rest is what the monitor goes by: a test that is remembered has been    *)
(* written, and no two records of a type are open.                         *)

LEMMA LawsCardinality == ASSUME NEW S PROVE Laws!Cardinality(S) = Cardinality(S)
BY DEF Laws!Cardinality, Cardinality

\* What Newest drops comes first.
LEMMA NewestDrops ==
  ASSUME NEW S, NEW s \in Seq(S), NEW n \in Nat \ {0}
  PROVE  /\ Laws!Newest(s, n) \in Seq(S)
         /\ \E d \in Nat :
              /\ Len(Laws!Newest(s, n)) + d = Len(s)
              /\ \A i \in 1..Len(Laws!Newest(s, n)) : Laws!Newest(s, n)[i] = s[i + d]
              /\ Len(Laws!Newest(s, n)) < n => d = 0
<1> DEFINE first == IF Len(s) > n THEN Len(s) - n + 1 ELSE 1
           r == SubSeq(s, first, Len(s))
<1>1. Laws!Newest(s, n) = r
  BY DEF Laws!Newest
<1>2. Len(s) \in Nat /\ first \in 1..(Len(s) + 1)
  OBVIOUS
<1>3. first - 1 \in Nat /\ (Len(s) - first + 1 < n => first = 1)
  BY <1>2
<1> HIDE DEF first
<1>4. /\ r \in Seq(S) /\ Len(r) = Len(s) - first + 1
      /\ \A i \in 1..Len(r) : r[i] = s[i + first - 1]
  BY <1>2
<1> HIDE DEF r
<1>5. Len(r) + (first - 1) = Len(s) /\ \A i \in 1..Len(r) : r[i] = s[i + (first - 1)]
  BY <1>2, <1>4
<1> DEFINE d == first - 1
<1>6. d \in Nat /\ Len(r) + d = Len(s) /\ (Len(r) < n => d = 0)
      /\ \A i \in 1..Len(r) : r[i] = s[i + d]
  BY <1>3, <1>4, <1>5
<1> HIDE DEF d
<1> QED BY <1>1, <1>4, <1>6

LawType == {"branch", "tdd", "docs"}
Record == [type : LawType, open : BOOLEAN]

\* No two records of a type are open.
Unique(s) ==
  \A i, j \in 1..Len(s) : s[i].open /\ s[j].open /\ s[i].type = s[j].type => i = j

LEMMA OpenTypesOf ==
  ASSUME NEW s \in Seq(Record), NEW t
  PROVE  t \in Laws!OpenTypes(s) <=> \E i \in 1..Len(s) : s[i].open /\ s[i].type = t
<1>1. DOMAIN s = 1..Len(s)
  OBVIOUS
<1> QED BY <1>1 DEF Laws!OpenTypes

\* A type that is not open is added at the end.
LEMMA NewKeepsUnique ==
  ASSUME NEW s \in Seq(Record), Unique(s), NEW type \in LawType, NEW types,
         type \in types => type \notin Laws!OpenTypes(s)
  PROVE  /\ s \o Laws!New(type, types) \in Seq(Record)
         /\ Unique(s \o Laws!New(type, types))
         /\ \A t : t \in Laws!OpenTypes(s \o Laws!New(type, types)) <=>
                     t \in Laws!OpenTypes(s) \/ (t = type /\ t \in types)
<1>1. CASE type \notin types
  <2>1. s \o Laws!New(type, types) = s
    BY <1>1 DEF Laws!New
  <2> QED BY <1>1, <2>1
<1>2. CASE type \in types
  <2> DEFINE v == [type |-> type, open |-> TRUE]
             r == s \o <<v>>
  <2>1. s \o Laws!New(type, types) = r
    BY <1>2 DEF Laws!New, Laws!NewViolation
  <2>2. v \in Record /\ v.type = type /\ v.open = TRUE
    BY DEF Record
  <2> HIDE DEF v
  <2>3. /\ r \in Seq(Record) /\ Len(r) = Len(s) + 1 /\ Len(s) \in Nat
        /\ \A i \in 1..Len(s) : r[i] = s[i]
        /\ r[Len(s) + 1] = v
    BY <2>2
  <2> HIDE DEF r
  <2>4. \A i \in 1..Len(r) : i \in 1..Len(s) \/ i = Len(s) + 1
    BY <2>3
  <2>5. \A t : (\E i \in 1..Len(r) : r[i].open /\ r[i].type = t) <=>
               (\E i \in 1..Len(s) : s[i].open /\ s[i].type = t) \/ t = type
    <3>1. Len(s) + 1 \in 1..Len(r) /\ \A i \in 1..Len(s) : i \in 1..Len(r)
      BY <2>3
    <3> QED BY <2>2, <2>3, <2>4, <3>1
  <2>6. \A t : t \in Laws!OpenTypes(r) <=> t \in Laws!OpenTypes(s) \/ t = type
    BY <2>3, <2>5, OpenTypesOf
  <2>7. Unique(r)
    <3> SUFFICES ASSUME NEW i \in 1..Len(r), NEW j \in 1..Len(r),
                        r[i].open, r[j].open, r[i].type = r[j].type
                 PROVE  i = j
      BY DEF Unique
    <3>1. \A k \in 1..Len(s) : s[k].open => s[k].type # type
      BY <1>2, OpenTypesOf
    <3> QED BY <2>2, <2>3, <2>4, <3>1 DEF Unique
  <2> QED BY <1>2, <2>1, <2>3, <2>6, <2>7
<1> QED BY <1>1, <1>2

LEMMA ResolvedRecords ==
  ASSUME NEW s \in Seq(Record), Unique(s), NEW seen
  PROVE  /\ Laws!Resolved(s, seen) \in Seq(Record) /\ Unique(Laws!Resolved(s, seen))
         /\ \A t \in Laws!OpenTypes(Laws!Resolved(s, seen)) : t \in seen
<1> DEFINE r == Laws!Resolved(s, seen)
<1>1. ASSUME NEW v \in Record
      PROVE  /\ [v EXCEPT !.open = @ /\ v.type \in seen] \in Record
             /\ [v EXCEPT !.open = @ /\ v.type \in seen].type = v.type
             /\ [v EXCEPT !.open = @ /\ v.type \in seen].open <=> v.open /\ v.type \in seen
  BY <1>1 DEF Record
<1>2. r = [i \in 1..Len(s) |-> [s[i] EXCEPT !.open = @ /\ s[i].type \in seen]] /\ Len(s) \in Nat
  BY DEF Laws!Resolved
<1> HIDE DEF r
<1>3. r \in Seq(Record) /\ Len(r) = Len(s)
  BY <1>1, <1>2
<1>4. ASSUME NEW i \in 1..Len(s)
      PROVE  r[i].type = s[i].type /\ (r[i].open <=> s[i].open /\ s[i].type \in seen)
  <2>1. s[i] \in Record /\ r[i] = [s[i] EXCEPT !.open = @ /\ s[i].type \in seen]
    BY <1>2
  <2> QED BY <1>1, <2>1
<1>5. Unique(r)
  BY <1>3, <1>4 DEF Unique
<1>6. \A t \in Laws!OpenTypes(r) : t \in seen
  BY <1>3, <1>4, OpenTypesOf
<1> QED BY <1>3, <1>5, <1>6 DEF r

LEMMA UpdatedRecords ==
  ASSUME MaxRecords \in Nat \ {0}, NEW s \in Seq(Record), Unique(s), NEW seen \in SUBSET LawType
  PROVE  LET r == Laws!UpdateViolationState(s, seen)
         IN  /\ r \in Seq(Record) /\ Unique(r)
             /\ Laws!OpenTypes(r) \subseteq seen
             /\ Len(r) < MaxRecords => seen \subseteq Laws!OpenTypes(r)
<1> DEFINE kept == Laws!Resolved(s, seen)
           new == seen \ Laws!OpenTypes(kept)
           s1 == kept \o Laws!New("branch", new)
           s2 == s1 \o Laws!New("tdd", new)
           s3 == s2 \o Laws!New("docs", new)
           r == Laws!Newest(s3, MaxRecords)
<1>1. Laws!UpdateViolationState(s, seen) = r
  BY DEF Laws!UpdateViolationState
<1>2. kept \in Seq(Record) /\ Unique(kept) /\ \A t \in Laws!OpenTypes(kept) : t \in seen
  BY ResolvedRecords
<1> HIDE DEF kept
<1>3. /\ s1 \in Seq(Record) /\ Unique(s1)
      /\ \A t : t \in Laws!OpenTypes(s1) <=> t \in Laws!OpenTypes(kept)
            \/ (t = "branch" /\ t \in new)
  BY <1>2, NewKeepsUnique DEF LawType
<1> HIDE DEF s1
<1>4. /\ s2 \in Seq(Record) /\ Unique(s2)
      /\ \A t : t \in Laws!OpenTypes(s2) <=> t \in Laws!OpenTypes(s1) \/ (t = "tdd" /\ t \in new)
  <2>1. "tdd" \in LawType /\ ("tdd" \in new => "tdd" \notin Laws!OpenTypes(s1))
    BY <1>3 DEF LawType
  <2> HIDE DEF new
  <2> QED BY <1>3, <2>1, NewKeepsUnique
<1> HIDE DEF s2
<1>5. /\ s3 \in Seq(Record) /\ Unique(s3)
      /\ \A t : t \in Laws!OpenTypes(s3) <=> t \in Laws!OpenTypes(s2) \/ (t = "docs" /\ t \in new)
  <2>1. "docs" \in LawType /\ ("docs" \in new => "docs" \notin Laws!OpenTypes(s2))
    BY <1>3, <1>4 DEF LawType
  <2> HIDE DEF new
  <2> QED BY <1>4, <2>1, NewKeepsUnique
<1>6. \A t : t \in Laws!OpenTypes(s3) <=> t \in seen
  BY <1>2, <1>3, <1>4, <1>5 DEF LawType
<1> HIDE DEF s3
<1>7. PICK d \in Nat : /\ r \in Seq(Record) /\ Len(r) + d = Len(s3)
                       /\ \A i \in 1..Len(r) : r[i] = s3[i + d]
                       /\ Len(r) < MaxRecords => d = 0
  BY <1>5, NewestDrops
<1> HIDE DEF r
<1>8. Len(r) \in Nat /\ Len(s3) \in Nat /\ \A i \in 1..Len(r) : i + d \in 1..Len(s3)
  BY <1>5, <1>7
<1>9. Unique(r)
  <2> SUFFICES ASSUME NEW i \in 1..Len(r), NEW j \in 1..Len(r),
                      r[i].open, r[j].open, r[i].type = r[j].type
               PROVE  i = j
    BY DEF Unique
  <2>1. i + d = j + d
    BY <1>5, <1>7, <1>8 DEF Unique
  <2> QED BY <1>7, <2>1
<1>10. Laws!OpenTypes(r) \subseteq seen
  <2> SUFFICES ASSUME NEW t \in Laws!OpenTypes(r) PROVE t \in Laws!OpenTypes(s3)
    BY <1>6
  <2>1. PICK i \in 1..Len(r) : r[i].open /\ r[i].type = t
    BY <1>7, OpenTypesOf
  <2>2. i + d \in 1..Len(s3) /\ s3[i + d].open /\ s3[i + d].type = t
    BY <1>7, <1>8, <2>1
  <2> QED BY <1>5, <2>2, OpenTypesOf
<1>11. ASSUME Len(r) < MaxRecords PROVE seen \subseteq Laws!OpenTypes(r)
  <2>1. d = 0 /\ Len(r) = Len(s3)
    BY <1>7, <1>8, <1>11
  <2>2. \A i \in 1..Len(s3) : r[i] = s3[i]
    BY <1>7, <2>1
  <2> QED BY <1>5, <1>6, <1>7, <2>1, <2>2, OpenTypesOf
<1> QED BY <1>1, <1>7, <1>9, <1>10, <1>11

Call == [tool : {"Write", "Edit"}, file : File, kind : Laws!Kind]

TestsWritten(calls) ==
  \A i \in 1..Len(calls) :
     calls[i].tool = "Write" /\ calls[i].kind # "source" => order[calls[i].file] # "none"

Follows(f) ==
  /\ order[f] = "untested" => f \in pending \cup forgotten
  /\ order[f] = "tested" => f \notin pending \cup forgotten

\* A test that is remembered, in memory or on disk, has been written.
CallsInv ==
  /\ pending \subseteq File /\ order \in [File -> {"none", "untested", "tested", "both"}]
  /\ recent \in Seq(Call) /\ \A s \in disk : s.recent \in Seq(Call)
  /\ \A calls \in {recent} \cup {s.recent : s \in disk} : TestsWritten(calls)
  /\ \A f \in File : Follows(f)

RecordsInv ==
  /\ violations \in Seq(Record) /\ Unique(violations)
  /\ \A s \in disk : s.violations \in Seq(Record) /\ Unique(s.violations)
  /\ \A types \in found :
       /\ Laws!OpenTypes(violations) \subseteq types
       /\ Len(violations) < MaxRecords => types \subseteq Laws!OpenTypes(violations)

ParsedLine == [law : Law, passed : BOOLEAN]

CountsInv ==
  /\ lines \in Seq(ParsedLine) /\ counts \in [Law -> Nat]
  /\ \A l \in Law : IsFiniteSet(Laws!Since(l)) /\ counts[l] = Cardinality(Laws!Since(l))
  /\ lines # <<>> =>
       LET n == counts[lines[Len(lines)].law]
       IN (task = "high" <=> n > 2) /\ (task = "low" <=> n = 2)

LawsInv == CallsInv /\ RecordsInv /\ CountsInv

LEMMA LawsInit == Laws!Init => LawsInv
<1> SUFFICES ASSUME Laws!Init PROVE LawsInv OBVIOUS
<1>1. /\ pending = {} /\ recent = <<>> /\ violations = <<>> /\ disk = {} /\ found = {}
      /\ order = [f \in File |-> "none"] /\ counts = [l \in Law |-> 0] /\ lines = <<>>
  BY DEF Laws!Init
<1>2. CallsInv
  BY <1>1 DEF CallsInv, TestsWritten, Follows
<1>3. RecordsInv
  BY <1>1 DEF RecordsInv, Unique
<1>4. \A l \in Law : Laws!Since(l) = {}
  BY <1>1 DEF Laws!Since
<1>5. CountsInv
  BY <1>1, <1>4, FS_EmptySet DEF CountsInv
<1> QED BY <1>2, <1>3, <1>5 DEF LawsInv

\* What is remembered of the calls after one more.
LEMMA RecentCalls ==
  ASSUME NEW s \in Seq(Call), NEW c \in Call
  PROVE  /\ Laws!Newest(Append(s, c), MaxRecent) \in Seq(Call)
         /\ \A i \in 1..Len(Laws!Newest(Append(s, c), MaxRecent)) :
              LET r == Laws!Newest(Append(s, c), MaxRecent)[i]
              IN r = c \/ \E j \in 1..Len(s) : r = s[j]
<1> DEFINE t == Append(s, c)
           r == Laws!Newest(t, MaxRecent)
<1>1. /\ t \in Seq(Call) /\ Len(t) = Len(s) + 1 /\ Len(s) \in Nat /\ t[Len(s) + 1] = c
      /\ \A j \in 1..Len(s) : t[j] = s[j]
  OBVIOUS
<1> HIDE DEF t
<1>2. PICK d \in Nat : /\ r \in Seq(Call) /\ Len(r) + d = Len(t)
                       /\ \A i \in 1..Len(r) : r[i] = t[i + d]
  BY <1>1, NewestDrops, LawsAssumption
<1> HIDE DEF r
<1>3. ASSUME NEW i \in 1..Len(r) PROVE r[i] = c \/ \E j \in 1..Len(s) : r[i] = s[j]
  <2>1. i + d \in 1..(Len(s) + 1) /\ r[i] = t[i + d]
    BY <1>1, <1>2
  <2> QED BY <1>1, <2>1
<1> QED BY <1>2, <1>3 DEF r, t

\* What was written once stays written.
LEMMA TestsStay ==
  ASSUME NEW calls \in Seq(Call), TestsWritten(calls),
         \A g \in File : order[g] # "none" => order'[g] # "none"
  PROVE  TestsWritten(calls)'
<1>1. \A i \in 1..Len(calls) : calls[i] \in Call
  OBVIOUS
<1> QED BY <1>1 DEF TestsWritten, Call

LEMMA CallsStep ==
  ASSUME CallsInv, [Laws!Next]_lawsVars
  PROVE  CallsInv'
<1> USE DEF Laws!project, Laws!monitor, Laws!parser
<1>1. CASE UNCHANGED <<pending, recent, disk, order, forgotten>>
  BY <1>1 DEF CallsInv, TestsWritten, Follows
<1>2. ASSUME NEW f \in File, NEW k \in Laws!Kind, NEW action \in {"created", "modified"},
             Laws!TrackFileChange(f, k, action)
      PROVE  CallsInv'
  <2>1. /\ UNCHANGED <<recent, disk>> /\ order' \in [File -> {"none", "untested", "tested", "both"}]
        /\ pending' \subseteq File /\ \A g \in File : order[g] # "none" => order'[g] # "none"
    BY <1>2 DEF Laws!TrackFileChange, CallsInv
  <2>2. \A g \in File : Follows(g)'
    BY <1>2 DEF Laws!TrackFileChange, CallsInv, Laws!Kind, Follows
  <2>3. \A calls \in {recent} \cup {s.recent : s \in disk} : TestsWritten(calls)'
    BY <2>1, TestsStay DEF CallsInv
  <2> QED BY <2>1, <2>2, <2>3 DEF CallsInv
<1>3. ASSUME NEW f \in File, NEW k \in Laws!Kind, NEW tool \in {"Write", "Edit"},
             Laws!TrackToolCall(tool, f, k)
      PROVE  CallsInv'
  <2> DEFINE c == [tool |-> tool, file |-> f, kind |-> k]
             calls == Append(recent, c)
             tested == \E i \in DOMAIN calls :
                         calls[i].tool = "Write" /\ calls[i].file = f /\ calls[i].kind = "test"
  <2>1. /\ recent' = Laws!Newest(calls, MaxRecent)
        /\ pending' = IF tool # "Write" THEN pending
                      ELSE IF k # "source" THEN pending \ {f}
                      ELSE IF tested THEN pending ELSE pending \cup {f}
        /\ order' = IF tool # "Write" THEN order
                    ELSE [order EXCEPT ![f] = IF k # "source" THEN "tested"
                                              ELSE IF @ \in {"tested",
                                                    "both"} THEN "both" ELSE "untested"]
        /\ forgotten' = IF tool # "Write" \/ (k = "source" /\ tested) THEN forgotten
                        ELSE forgotten \ {f}
        /\ UNCHANGED disk
    BY <1>3 DEF Laws!TrackToolCall
  <2>2. c \in Call /\ c.tool = tool /\ c.file = f /\ c.kind = k
    BY DEF Call
  <2>3. recent \in Seq(Call)
    BY DEF CallsInv
  <2> HIDE DEF c
  <2>4. /\ recent' \in Seq(Call)
        /\ \A i \in 1..Len(recent') : recent'[i] = c
              \/ \E j \in 1..Len(recent) : recent'[i] = recent[j]
    BY <2>1, <2>2, <2>3, RecentCalls
  <2>5. tested /\ tool = "Write" /\ k = "source" => order[f] # "none"
    <3> SUFFICES ASSUME tested, k = "source" PROVE order[f] # "none"
      OBVIOUS
    <3>1. /\ Len(recent) \in Nat /\ DOMAIN calls = 1..(Len(recent) + 1) /\ calls[Len(recent) + 1] = c
          /\ \A j \in 1..Len(recent) : calls[j] = recent[j]
      BY <2>2, <2>3
    <3>2. PICK i \in DOMAIN calls : calls[i].tool = "Write" /\ calls[i].file = f /\ calls[i].kind = "test"
      OBVIOUS
    <3>3. i \in 1..Len(recent) /\ calls[i] = recent[i]
      BY <2>2, <3>1, <3>2
    <3>4. TestsWritten(recent)
      BY DEF CallsInv
    <3> QED BY <3>2, <3>3, <3>4 DEF TestsWritten
  <2> HIDE DEF tested
  <2>6. order' \in [File -> {"none", "untested", "tested", "both"}] /\ pending' \subseteq File
    BY <2>1 DEF CallsInv
  <2>7. /\ \A g \in File : order[g] # "none" => order'[g] # "none"
        /\ tool = "Write" /\ k # "source" => order'[f] = "tested"
    BY <2>1 DEF CallsInv
  <2>8. \A g \in File : Follows(g)'
    <3> SUFFICES ASSUME NEW g \in File PROVE Follows(g)'
      OBVIOUS
    <3>1. CASE g = f /\ tool = "Write" /\ k = "source"
      BY <2>1, <2>5, <3>1 DEF CallsInv, Follows
    <3>2. CASE ~(g = f /\ tool = "Write" /\ k = "source")
      BY <2>1, <3>2 DEF CallsInv, Follows
    <3> QED BY <3>1, <3>2
  <2>9. TestsWritten(recent)'
    <3> SUFFICES ASSUME NEW i \in 1..Len(recent'), recent'[i].tool = "Write",
          recent'[i].kind # "source"
                 PROVE  order'[recent'[i].file] # "none"
      BY DEF TestsWritten
    <3>1. CASE recent'[i] = c
      BY <2>2, <2>7, <3>1
    <3>2. ASSUME NEW j \in 1..Len(recent), recent'[i] = recent[j]
      PROVE order'[recent'[i].file] # "none"
      <4>1. recent[j] \in Call
        BY <2>3
      <4>2. recent[j].file \in File
        BY <4>1 DEF Call
      <4>3. TestsWritten(recent)
        BY DEF CallsInv
      <4> QED BY <2>7, <3>2, <4>2, <4>3 DEF TestsWritten
    <3> QED BY <2>4, <3>1, <3>2
  <2>10. \A s \in disk : TestsWritten(s.recent)'
    BY <2>7, TestsStay DEF CallsInv
  <2> QED BY <2>1, <2>4, <2>6, <2>8, <2>9, <2>10 DEF CallsInv
<1>4. ASSUME NEW saves \in BOOLEAN, Laws!RunCheck(saves) PROVE CallsInv'
  <2>1. UNCHANGED <<pending, recent, order, forgotten>>
        /\ disk' = IF saves THEN {[violations |-> violations', recent |-> recent]} ELSE disk
    BY <1>4 DEF Laws!RunCheck, Laws!written
  <2>2. \A s \in disk' : s.recent = recent \/ s \in disk
    BY <2>1
  <2>3. \A calls \in {recent} \cup {s.recent : s \in disk} : TestsWritten(calls) <=> TestsWritten(calls)'
    BY <2>1 DEF TestsWritten
  <2> QED BY <2>1, <2>2, <2>3 DEF CallsInv, Follows
<1>5. CASE Laws!Restart
  <2>1. PICK s \in IF disk = {} THEN {[violations |-> <<>>, recent |-> <<>>]} ELSE disk :
          recent' = s.recent
    BY <1>5 DEF Laws!Restart
  <2>2. pending' = {} /\ UNCHANGED <<disk, order>> /\ forgotten' = forgotten \cup pending
    BY <1>5 DEF Laws!Restart
  <2>3. recent' = <<>> \/ \E d \in disk : recent' = d.recent
    <3>1. CASE disk = {}
      <4>1. s = [violations |-> <<>>, recent |-> <<>>]
        BY <3>1
      <4> QED BY <2>1, <4>1
    <3>2. CASE disk # {}
      BY <2>1, <3>2
    <3> QED BY <3>1, <3>2
  <2>5. \A calls : TestsWritten(calls) <=> TestsWritten(calls)'
    BY <2>2 DEF TestsWritten
  <2>6. recent' \in Seq(Call) /\ TestsWritten(recent)'
    <3>1. CASE recent' = <<>>
      BY <3>1 DEF TestsWritten
    <3>2. ASSUME NEW d \in disk, recent' = d.recent
          PROVE recent' \in Seq(Call) /\ TestsWritten(recent)'
      <4>1. TestsWritten(d.recent) /\ d.recent \in Seq(Call)
        BY DEF CallsInv
      <4> QED BY <2>2, <3>2, <4>1 DEF TestsWritten
    <3> QED BY <2>3, <3>1, <3>2
  <2> QED BY <2>2, <2>5, <2>6 DEF CallsInv, Follows
<1>6. CASE UNCHANGED lawsVars
  BY <1>1, <1>6 DEF lawsVars
<1>7. CASE Laws!Project
  BY <1>1, <1>7 DEF Laws!Project, Laws!written
<1>8. CASE UNCHANGED <<Laws!monitor, Laws!written>>
  BY <1>1, <1>8 DEF Laws!written
<1> QED BY <1>2, <1>3, <1>4, <1>5, <1>6, <1>7, <1>8 DEF Laws!Next

LEMMA RecordsStep ==
  ASSUME RecordsInv, [Laws!Next]_lawsVars
  PROVE  RecordsInv'
<1> USE DEF Laws!project, Laws!monitor, Laws!parser
<1>1. CASE UNCHANGED <<violations, disk, found>>
  BY <1>1, Zenon DEF RecordsInv
<1>2. ASSUME NEW f \in File, NEW k \in Laws!Kind, NEW action \in {"created", "modified"},
             Laws!TrackFileChange(f, k, action)
      PROVE  RecordsInv'
  BY <1>1, <1>2 DEF Laws!TrackFileChange
<1>3. ASSUME NEW f \in File, NEW k \in Laws!Kind, NEW tool \in {"Write", "Edit"},
             Laws!TrackToolCall(tool, f, k)
      PROVE  RecordsInv'
  BY <1>1, <1>3 DEF Laws!TrackToolCall
<1>4. ASSUME NEW saves \in BOOLEAN, Laws!RunCheck(saves) PROVE RecordsInv'
  <2>1. /\ violations' = Laws!UpdateViolationState(violations, Laws!Found)
        /\ found' = {Laws!Found}
        /\ disk' = IF saves THEN {[violations |-> violations', recent |-> recent]} ELSE disk
    BY <1>4 DEF Laws!RunCheck
  <2>2. Laws!Found \in SUBSET LawType
    BY DEF Laws!Found, LawType
  <2>3. violations \in Seq(Record) /\ Unique(violations)
    BY DEF RecordsInv
  <2>4. /\ violations' \in Seq(Record) /\ Unique(violations')
        /\ Laws!OpenTypes(violations') \subseteq Laws!Found
        /\ Len(violations') < MaxRecords => Laws!Found \subseteq Laws!OpenTypes(violations')
    BY <2>1, <2>2, <2>3, UpdatedRecords, LawsAssumption
  <2>5. \A s \in disk' : s.violations = violations' \/ s \in disk
    BY <2>1
  <2>6. \A s \in disk' : s.violations \in Seq(Record) /\ Unique(s.violations)
    BY <2>4, <2>5 DEF RecordsInv
  <2>7. \A types \in found' : types = Laws!Found
    BY <2>1
  <2>8. \A types \in found' :
          /\ Laws!OpenTypes(violations') \subseteq types
          /\ Len(violations') < MaxRecords => types \subseteq Laws!OpenTypes(violations')
    BY <2>4, <2>7
  <2>9. Unique(violations)'
    BY <2>4 DEF Unique
  <2> QED BY <2>4, <2>6, <2>8, <2>9 DEF RecordsInv, Laws!OpenTypes
<1>5. CASE Laws!Restart
  <2>1. PICK s \in IF disk = {} THEN {[violations |-> <<>>, recent |-> <<>>]} ELSE disk :
          violations' = s.violations
    BY <1>5 DEF Laws!Restart
  <2>2. found' = {} /\ disk' = disk
    BY <1>5 DEF Laws!Restart
  <2>3. violations' \in Seq(Record) /\ Unique(violations')
    <3>1. CASE disk = {}
      <4>1. s = [violations |-> <<>>, recent |-> <<>>]
        BY <3>1
      <4>2. violations' = <<>>
        BY <2>1, <4>1
      <4> QED BY <4>2 DEF Unique
    <3>2. CASE disk # {}
      BY <2>1, <3>2 DEF RecordsInv
    <3> QED BY <3>1, <3>2
  <2> QED BY <2>2, <2>3 DEF RecordsInv, Unique
<1>6. CASE UNCHANGED lawsVars
  BY <1>1, <1>6 DEF lawsVars
<1>7. CASE Laws!Project
  BY <1>1, <1>7 DEF Laws!Project
<1> QED BY <1>1, <1>2, <1>3, <1>4, <1>5, <1>6, <1>7 DEF Laws!Next

\* A line of the log adds to its own law's violations, or forgets them.
LEMMA LineStep ==
  ASSUME CountsInv, NEW l \in Law, NEW passed \in BOOLEAN, Laws!LogLine(l, passed)
  PROVE  CountsInv'
<1> DEFINE n == Len(lines)
           x == [law |-> l, passed |-> passed]
<1>1. lines \in Seq(ParsedLine) /\ lines' = Append(lines, x)
  BY DEF Laws!LogLine, CountsInv
<1>2. x \in ParsedLine /\ x.law = l /\ x.passed = passed
  BY DEF ParsedLine
<1> HIDE DEF x
<1>3. /\ n \in Nat /\ lines' \in Seq(ParsedLine) /\ Len(lines') = n + 1 /\ lines'[n + 1] = x
      /\ DOMAIN lines = 1..n /\ DOMAIN lines' = 1..(n + 1)
      /\ \A i \in 1..n : lines'[i] = lines[i]
  BY <1>1, <1>2
<1> HIDE DEF n
<1>4. ASSUME NEW m \in Law, m # l PROVE Laws!Since(m)' = Laws!Since(m)
  <2>1. \A i \in 1..(n + 1) : lines'[i].law = m => i \in 1..n
    BY <1>2, <1>3, <1>4
  <2>2. Laws!Since(m)' = {i \in 1..(n + 1) :
          lines'[i].law = m /\ \A j \in i..(n + 1) : lines'[j].law = m => ~lines'[j].passed}
    BY <1>3 DEF Laws!Since
  <2>3. Laws!Since(m) = {i \in 1..n :
          lines[i].law = m /\ \A j \in i..n : lines[j].law = m => ~lines[j].passed}
    BY <1>3 DEF Laws!Since, n
  <2>4. ASSUME NEW i \in 1..n
        PROVE  i \in Laws!Since(m)' <=> i \in Laws!Since(m)
    <3>1. i \in 1..(n + 1) /\ \A j \in i..n : j \in 1..n /\ j \in i..(n + 1)
      BY <1>3
    <3>2. \A j \in i..(n + 1) : lines'[j].law = m => j \in i..n
      BY <1>3, <2>1
    <3> QED BY <1>3, <2>2, <2>3, <3>1, <3>2
  <2> QED BY <2>1, <2>2, <2>3, <2>4
<1>5. CASE passed
  <2>1. Laws!Since(l)' = {}
    <3> SUFFICES ASSUME NEW i \in Laws!Since(l)' PROVE FALSE
      OBVIOUS
    <3>1. i \in 1..(n + 1) /\ \A j \in i..(n + 1) : lines'[j].law = l => ~lines'[j].passed
      BY <1>3 DEF Laws!Since
    <3>2. n + 1 \in i..(n + 1)
      BY <1>3, <3>1
    <3> QED BY <1>2, <1>3, <1>5, <3>1, <3>2
  <2>2. counts' = [counts EXCEPT ![l] = 0] /\ task' = "none"
    BY <1>5 DEF Laws!LogLine, Laws!RecordPass, Laws!NoTask
  <2>3. \A m \in Law : IsFiniteSet(Laws!Since(m)') /\ counts'[m] = Cardinality(Laws!Since(m)')
    BY <1>4, <2>1, <2>2, FS_EmptySet DEF CountsInv
  <2>4. counts' \in [Law -> Nat] /\ counts'[l] = 0
    BY <2>2 DEF CountsInv
  <2>5. lines'[Len(lines')].law = l
    BY <1>2, <1>3
  <2>6. (task' = "high" <=> counts'[l] > 2) /\ (task' = "low" <=> counts'[l] = 2)
    BY <2>2, <2>4
  <2> QED BY <1>3, <2>3, <2>4, <2>5, <2>6 DEF CountsInv, Laws!Since
<1>6. CASE ~passed
  <2>1. Laws!Since(l)' = Laws!Since(l) \cup {n + 1}
    <3>1. Laws!Since(l)' = {i \in 1..(n + 1) :
            lines'[i].law = l /\ \A j \in i..(n + 1) : lines'[j].law = l => ~lines'[j].passed}
      BY <1>3 DEF Laws!Since
    <3>2. Laws!Since(l) = {i \in 1..n :
            lines[i].law = l /\ \A j \in i..n : lines[j].law = l => ~lines[j].passed}
      BY <1>3 DEF Laws!Since, n
    <3>3. n + 1 \in Laws!Since(l)'
      BY <1>2, <1>3, <1>6, <3>1
    <3>4. ASSUME NEW i \in 1..n
          PROVE  i \in Laws!Since(l)' <=> i \in Laws!Since(l)
      <4>1. i \in 1..(n + 1) /\ \A j \in i..n : j \in 1..n /\ j \in i..(n + 1)
        BY <1>3
      <4>2. \A j \in i..(n + 1) : j \in i..n \/ j = n + 1
        BY <1>3
      <4> QED BY <1>2, <1>3, <1>6, <3>1, <3>2, <4>1, <4>2
    <3>5. \A i \in 1..(n + 1) : i \in 1..n \/ i = n + 1
      BY <1>3
    <3> QED BY <3>1, <3>2, <3>3, <3>4, <3>5
  <2>2. n + 1 \notin Laws!Since(l)
    BY <1>3 DEF Laws!Since, n
  <2>3. /\ counts' = [counts EXCEPT ![l] = @ + 1]
        /\ task' = IF counts[l] + 1 = 1 THEN "none" ELSE IF counts[l] + 1 = 2 THEN "low" ELSE "high"
    BY <1>6 DEF Laws!LogLine, Laws!RecordViolation, Laws!InterventionTask, Laws!NoTask
  <2>4. IsFiniteSet(Laws!Since(l)) /\ counts[l] = Cardinality(Laws!Since(l)) /\ counts[l] \in Nat
    BY DEF CountsInv
  <2>5. IsFiniteSet(Laws!Since(l)') /\ Cardinality(Laws!Since(l)') = counts[l] + 1
    BY <2>1, <2>2, <2>4, FS_AddElement
  <2>6. \A m \in Law : IsFiniteSet(Laws!Since(m)') /\ counts'[m] = Cardinality(Laws!Since(m)')
    BY <1>4, <2>3, <2>5 DEF CountsInv
  <2>7. counts' \in [Law -> Nat] /\ counts'[l] = counts[l] + 1
    BY <2>3 DEF CountsInv
  <2>8. lines'[Len(lines')].law = l
    BY <1>2, <1>3
  <2>9. (task' = "high" <=> counts'[l] > 2) /\ (task' = "low" <=> counts'[l] = 2)
    BY <2>3, <2>4, <2>7
  <2> QED BY <1>3, <2>6, <2>7, <2>8, <2>9 DEF CountsInv, Laws!Since
<1> QED BY <1>5, <1>6

LEMMA CountsStep ==
  ASSUME CountsInv, [Laws!Next]_lawsVars
  PROVE  CountsInv'
<1> USE DEF Laws!project, Laws!monitor, Laws!parser
<1>1. CASE UNCHANGED Laws!parser
  BY <1>1 DEF CountsInv, Laws!Since
<1>2. CASE Laws!Reset
  <2>1. counts' = [l \in Law |-> 0] /\ lines' = <<>>
    BY <1>2 DEF Laws!Reset
  <2>2. \A l \in Law : Laws!Since(l)' = {}
    BY <2>1 DEF Laws!Since
  <2>3. \A l \in Law : IsFiniteSet(Laws!Since(l)') /\ counts'[l] = Cardinality(Laws!Since(l)')
    BY <2>1, <2>2, FS_EmptySet
  <2>4. counts' \in [Law -> Nat] /\ lines' \in Seq(ParsedLine)
    BY <2>1
  <2> QED BY <2>1, <2>3, <2>4 DEF CountsInv, Laws!Since
<1>3. ASSUME NEW l \in Law, NEW passed \in BOOLEAN, Laws!LogLine(l, passed) PROVE CountsInv'
  BY <1>3, LineStep
<1>4. CASE UNCHANGED lawsVars
  BY <1>1, <1>4 DEF lawsVars
<1> QED BY <1>1, <1>2, <1>3, <1>4 DEF Laws!Next

\* IronLawMonitor and the parser of its log: in any order of files, calls, checks and
\* restarts, and whatever is dropped, what has no test is pending but for what the end of a
\* process forgot, what is open was found and is open once, and a law's task escalates with its
\* violations since it last passed.
THEOREM LawsFollowed == SystemSpec => []LawsAreFollowed
<1>1. SystemInit => LawsInv
  BY PartInits, LawsInit
<1>2. LawsInv /\ [SystemNext]_allVars => LawsInv'
  BY PartSteps, CallsStep, RecordsStep, CountsStep DEF LawsInv
<1>3. LawsInv => LawsAreFollowed
  <2> SUFFICES ASSUME LawsInv PROVE Laws!LawsAreFollowed
    BY DEF LawsAreFollowed
  <2>1. \A i, j \in DOMAIN violations :
          violations[i].open /\ violations[j].open /\ violations[i].type = violations[j].type => i = j
    <3>1. DOMAIN violations = 1..Len(violations)
      BY DEF LawsInv, RecordsInv
    <3> QED BY <3>1 DEF LawsInv, RecordsInv, Unique
  <2>2. \A l \in Law : Laws!Cardinality(Laws!Since(l)) = counts[l]
    BY LawsCardinality DEF LawsInv, CountsInv
  <2>3. \A l \in Law :
          lines # <<>> /\ Laws!Last(lines).law = l =>
            /\ task = "high" <=> Laws!Cardinality(Laws!Since(l)) > 2
            /\ task = "low" <=> Laws!Cardinality(Laws!Since(l)) = 2
    BY <2>2 DEF LawsInv, CountsInv, Laws!Last
  <2> QED BY <2>1, <2>3 DEF Laws!LawsAreFollowed, LawsInv, CallsInv, RecordsInv, Follows
<1> QED BY <1>1, <1>2, <1>3, PTL DEF SystemSpec
=============================================================================
