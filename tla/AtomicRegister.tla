---------------------------- MODULE AtomicRegister ----------------------------
(***************************************************************************)
(* What a file that several processes replace through one temporary file   *)
(* promises.  A save that overlaps no other one is atomic: the file holds  *)
(* what it held until the save ends, and then the text saved.  Saves that  *)
(* overlap may leave the file as it was or with any contents (Torn), until *)
(* a save that overlaps no other.  Whoever reads the file gets the         *)
(* contents of one instant.                                                *)
(***************************************************************************)
CONSTANTS Writer, Reader, Value, NoFile, Torn

VARIABLES
  value,   \* the contents of the file
  got,     \* what each reader read last
  saving,  \* the writers at a save
  alone    \* the save that has overlapped no other, with its text

Init == value = NoFile /\ got = [r \in Reader |-> NoFile] /\ saving = {} /\ alone = {}

Begin(w, v) ==
  /\ w \notin saving
  /\ saving' = saving \cup {w}
  /\ alone' = IF saving = {} THEN {<<w, v>>} ELSE {}
  /\ UNCHANGED <<value, got>>

Ends(w) ==
  /\ w \in saving
  /\ saving' = saving \ {w}
  /\ alone' = {}

Replace(w, v) == <<w, v>> \in alone /\ Ends(w) /\ value' = v /\ UNCHANGED got
Spoil(w) == alone = {} /\ Ends(w) /\ value' \in {value, Torn} /\ UNCHANGED got
Crash(w) == Ends(w) /\ UNCHANGED <<value, got>>

Read(r) == got' = [got EXCEPT ![r] = value] /\ UNCHANGED <<value, saving, alone>>

Next ==
  \/ \E w \in Writer : \/ \E v \in Value : Begin(w, v) \/ Replace(w, v)
                       \/ Spoil(w) \/ Crash(w)
  \/ \E r \in Reader : Read(r)

Spec == Init /\ [][Next]_<<value, got, saving, alone>>
=============================================================================
