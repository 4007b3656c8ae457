--------------------------- MODULE SharedSnapshots ---------------------------
(***************************************************************************)
(* What snapshot.h promises to the threads that share prepared models: a   *)
(* snapshot is a value of its own.  A copy starts out equal to its source  *)
(* and changes only under the one thread that made it, until it is         *)
(* published; from then on nobody changes it, whatever becomes of the      *)
(* snapshot it was copied from and of the copies that are made of it.      *)
(***************************************************************************)
CONSTANTS Snapshots, Parts, Values, Absent

VARIABLES
  value,     \* per snapshot: what its parts hold, or Absent
  published  \* snapshots that other threads may have

vars == <<value, published>>

Init == value = [s \in Snapshots |-> Absent] /\ published = {}

\* s becomes a value, of which nothing else is said.
Make(s) ==
  /\ value[s] = Absent /\ value'[s] \in [Parts -> Values]
  /\ value' = [value EXCEPT ![s] = value'[s]]
  /\ UNCHANGED published

Copy(s, source) ==
  /\ value[s] = Absent /\ value[source] # Absent
  /\ value' = [value EXCEPT ![s] = value[source]]
  /\ UNCHANGED published

\* One that is not published yet gives way to another.
Replace(s, t) ==
  /\ s \notin published /\ value[s] # Absent
  /\ value[t] = Absent /\ value'[t] \in [Parts -> Values]
  /\ value' = [value EXCEPT ![s] = Absent, ![t] = value'[t]]
  /\ UNCHANGED published

Write(s, p) ==
  /\ s \notin published /\ value[s] # Absent
  /\ value'[s] \in [Parts -> Values]
  /\ value' = [value EXCEPT ![s] = [@ EXCEPT ![p] = value'[s][p]]]
  /\ UNCHANGED published

Publish(s) ==
  /\ s \notin published /\ value[s] # Absent
  /\ published' = published \cup {s} /\ UNCHANGED value

Discard(s) ==
  /\ value[s] # Absent
  /\ value' = [value EXCEPT ![s] = Absent]
  /\ published' = published \ {s}

Next ==
  \/ \E s \in Snapshots : Make(s) \/ Publish(s) \/ Discard(s)
  \/ \E s, other \in Snapshots : Copy(s, other) \/ Replace(s, other)
  \/ \E s \in Snapshots, p \in Parts : Write(s, p)

Spec == Init /\ [][Next]_vars
=============================================================================
