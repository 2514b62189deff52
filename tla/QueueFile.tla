------------------------------ MODULE QueueFile ------------------------------
(***************************************************************************)
(* One persisted JSON file, queue.json, at the level of the file system.   *)
(* QueueManager.persist opens queue.json.tmp with truncation, writes the   *)
(* JSON text and renames it onto queue.json; QueueManager.initialize opens *)
(* queue.json and parses what it reads.  The archives are written the same *)
(* way.  Every process of the system (the watcher, the health check, the   *)
(* drain script) uses the same two names.                                  *)
(*                                                                         *)
(* A name leads to an inode.  Truncation and writes act on the inode that  *)
(* was open, a rename on the names.  JSON texts are members of Value; the  *)
(* text is Empty after a truncation, and Torn when it is part of one text  *)
(* or a mixture of two.                                                    *)
(***************************************************************************)
EXTENDS Naturals

CONSTANTS
  Writer,   \* processes that persist the queue
  Reader,   \* processes that load it
  Inode,    \* files the disk has room for
  Value,    \* JSON texts of a queue
  NoFile, Empty, Torn

ASSUME DistinctContents ==
  /\ NoFile \notin Inode /\ NoFile \notin Value
  /\ Empty \notin Value /\ Torn \notin Value

VARIABLES
  main,     \* the inode of queue.json, or NoFile
  temp,     \* the inode of queue.json.tmp, or NoFile
  content,  \* the text in each inode
  wpc,      \* what each writer does next
  fd,       \* the inode a writer has open
  text,     \* the text a writer is saving
  rpc,      \* what each reader does next
  rfd,      \* the inode a reader has open
  got,      \* what the reader read last
  crossed,  \* history: the inodes opened by a save while another was under way
  misled    \* history: the readers whose last text came from such an inode

writers == <<wpc, fd, text>>
readers == <<rpc, rfd, got>>
vars == <<main, temp, content, wpc, fd, text, rpc, rfd, got, crossed, misled>>

Init ==
  /\ main = NoFile /\ temp = NoFile
  /\ content = [i \in Inode |-> Empty]
  /\ wpc = [w \in Writer |-> "idle"]
  /\ fd = [w \in Writer |-> NoFile]
  /\ text = [w \in Writer |-> NoFile]
  /\ rpc = [r \in Reader |-> "idle"]
  /\ rfd = [r \in Reader |-> NoFile]
  /\ got = [r \in Reader |-> NoFile]
  /\ crossed = {} /\ misled = {}

\* The writers in the middle of a save.
Saving == {w \in Writer : wpc[w] # "idle"}

\* History: a save opens inode i.
Opens(i) == crossed' = IF Saving = {} THEN crossed \ {i} ELSE crossed \cup {i}

\* Inodes no name and no open file leads to.
Free == {i \in Inode : /\ i # main /\ i # temp
                       /\ \A w \in Writer : fd[w] # i
                       /\ \A r \in Reader : rfd[r] # i}

\* Mutant: the text is written to queue.json itself once that exists.
OpenMainToWrite(w, v) ==
  /\ wpc[w] = "idle"
  /\ wpc' = [wpc EXCEPT ![w] = "write"]
  /\ text' = [text EXCEPT ![w] = v]
  /\ \E i \in IF main = NoFile THEN Free ELSE {main} :
       /\ temp' = i
       /\ fd' = [fd EXCEPT ![w] = i]
       /\ content' = [content EXCEPT ![i] = Empty]
       /\ Opens(i)
  /\ UNCHANGED <<main, readers, misled>>

\* writeFileSync opens the temporary file, which truncates or creates it.
OpenTemp(w, v) ==
  /\ wpc[w] = "idle"
  /\ wpc' = [wpc EXCEPT ![w] = "write"]
  /\ text' = [text EXCEPT ![w] = v]
  /\ \E i \in IF temp = NoFile THEN Free ELSE {temp} :
       /\ temp' = i
       /\ fd' = [fd EXCEPT ![w] = i]
       /\ content' = [content EXCEPT ![i] = Empty]
       /\ Opens(i)
  /\ UNCHANGED <<main, readers, misled>>

\* The text is written from the start of the file and the file is closed.  What
\* another writer put there since the truncation stays where it is longer.
WriteTemp(w) ==
  /\ wpc[w] = "write"
  /\ \E c \in IF content[fd[w]] = Empty THEN {text[w]} ELSE {text[w], Torn} :
       content' = [content EXCEPT ![fd[w]] = c]
  /\ fd' = [fd EXCEPT ![w] = NoFile]
  /\ wpc' = [wpc EXCEPT ![w] = "rename"]
  /\ UNCHANGED <<main, temp, text, readers, crossed, misled>>

\* The save is over, or its process is.
Returns(w) == wpc' = [wpc EXCEPT ![w] = "idle"] /\ text' = [text EXCEPT ![w] = NoFile]

\* Mutant: the file is renamed when it was opened, before its text is there.
RenameOpened(w) ==
  /\ wpc[w] \in {"write", "rename"}
  /\ wpc' = [wpc EXCEPT ![w] = IF @ = "rename" THEN "idle" ELSE @]
  /\ IF temp = NoFile THEN UNCHANGED <<main, temp>>
     ELSE main' = temp /\ temp' = NoFile
  /\ UNCHANGED <<content, fd, text, readers, crossed, misled>>

\* renameSync; it throws when another writer has renamed the file already.
Rename(w) ==
  /\ wpc[w] = "rename"
  /\ Returns(w)
  /\ IF temp = NoFile THEN UNCHANGED <<main, temp>>
     ELSE main' = temp /\ temp' = NoFile
  /\ UNCHANGED <<content, fd, readers, crossed, misled>>

\* The writer dies; a write under way may have got part of its text out.
CrashWriter(w) ==
  /\ wpc[w] # "idle"
  /\ Returns(w)
  /\ fd' = [fd EXCEPT ![w] = NoFile]
  /\ \/ UNCHANGED content
     \/ wpc[w] = "write" /\ content' = [content EXCEPT ![fd[w]] = Torn]
  /\ UNCHANGED <<main, temp, readers, crossed, misled>>

\* existsSync and readFileSync of queue.json: the file is opened, then read.
OpenMain(r) ==
  /\ rpc[r] = "idle" /\ main # NoFile
  /\ rpc' = [rpc EXCEPT ![r] = "read"]
  /\ rfd' = [rfd EXCEPT ![r] = main]
  /\ UNCHANGED <<main, temp, content, writers, got, crossed, misled>>

ReadMain(r) ==
  /\ rpc[r] = "read"
  /\ rpc' = [rpc EXCEPT ![r] = "idle"]
  /\ rfd' = [rfd EXCEPT ![r] = NoFile]
  /\ got' = [got EXCEPT ![r] = content[rfd[r]]]
  /\ misled' = IF rfd[r] \in crossed THEN misled \cup {r} ELSE misled \ {r}
  /\ UNCHANGED <<main, temp, content, writers, crossed>>

Next ==
  \/ \E w \in Writer : \/ \E v \in Value : OpenTemp(w, v)
                       \/ WriteTemp(w) \/ Rename(w) \/ CrashWriter(w)
  \/ \E r \in Reader : OpenMain(r) \/ ReadMain(r)

Spec == Init /\ [][Next]_vars

-----------------------------------------------------------------------------
(* Properties.                                                             *)

\* Every variable keeps its type.
TypeOK ==
  /\ main \in Inode \cup {NoFile} /\ temp \in Inode \cup {NoFile}
  /\ content \in [Inode -> Value \cup {Empty, Torn}]
  /\ wpc \in [Writer -> {"idle", "write", "rename"}]
  /\ fd \in [Writer -> Inode \cup {NoFile}]
  /\ text \in [Writer -> Value \cup {NoFile}]
  /\ rpc \in [Reader -> {"idle", "read"}]
  /\ rfd \in [Reader -> Inode \cup {NoFile}]
  /\ got \in [Reader -> Value \cup {Empty, Torn, NoFile}]
  /\ crossed \subseteq Inode /\ misled \subseteq Reader

\* "Atomic write: write to temp file, then rename": whoever loads queue.json gets a
\* complete text, never part of one or a mixture (JSON.parse of anything else throws
\* out of initialize), wherever the processes that save it crash; only saves that
\* overlapped, on the one temporary file they share, leave a file without that promise.
LoadsCompleteText == \A r \in Reader \ misled : got[r] \in Value \cup {NoFile}

\* A reader gets what the file held when it opened it; of what overlapping saves made
\* the register knows nothing.
ContentsOf(i) == IF i \in crossed THEN Torn ELSE content[i]
mainValue == IF main = NoFile THEN NoFile ELSE ContentsOf(main)
gotValue == [r \in Reader |-> IF rpc[r] = "read" THEN ContentsOf(rfd[r])
                              ELSE IF r \in misled THEN Torn ELSE got[r]]
saveAlone == {<<w, text[w]>> : w \in {u \in Saving : temp # NoFile /\ temp \notin crossed}}

Register == INSTANCE AtomicRegister
  WITH value <- mainValue, got <- gotValue, saving <- Saving, alone <- saveAlone

\* With any number of writers, the file is such a register: a save that overlaps no
\* other replaces the file at its rename, whatever earlier saves left behind, and a
\* load takes effect at the open, wherever a writer crashes.
ImplementsRegister == Register!Spec
=============================================================================
