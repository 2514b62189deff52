---------------------------- MODULE VersionedStore ----------------------------
(***************************************************************************)
(* What workflow-state.json promises to the status line: every change sets *)
(* one field of one of the states there have been, the current one or one  *)
(* before it, in one step; a change of the state increments the version of *)
(* the state it is applied to, the heartbeat of the daemon keeps it.       *)
(***************************************************************************)
EXTENDS Naturals

CONSTANTS Field, FieldValue, Unset

VARIABLES version, fields, past

Init ==
  /\ version = 0 /\ fields = [f \in Field |-> Unset]
  /\ past = {[version |-> version, fields |-> fields]}

\* State s with f set to v becomes the state, with version n.
Becomes(s, n, f, v) ==
  /\ version' = n
  /\ fields' = [s.fields EXCEPT ![f] = v]
  /\ past' = past \cup {[version |-> version', fields |-> fields']}

Set(s, f, v) == Becomes(s, s.version + 1, f, v)
Touch(s, f, v) == Becomes(s, s.version, f, v)

Next == \E s \in past, f \in Field, v \in FieldValue : Set(s, f, v) \/ Touch(s, f, v)

Spec == Init /\ [][Next]_<<version, fields, past>>
=============================================================================
