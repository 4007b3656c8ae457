----------------------------- MODULE KeyedCache -----------------------------
(***************************************************************************)
(* What the snapshot cache promises to the procedures that share it: a map *)
(* from keys to snapshots in which a lookup finds the snapshot that was    *)
(* last put under its key, or nothing, because a cache may drop what it    *)
(* has at any time.                                                        *)
(***************************************************************************)
CONSTANTS Clients, Keys, Snapshots, Absent

VARIABLES
  store,  \* per key: its snapshot, or Absent
  answer  \* per client: the key of its last lookup and what it
            \* found, until the client goes on

vars == <<store, answer>>

Init ==
  /\ store = [k \in Keys |-> Absent]
  /\ answer = [c \in Clients |-> <<>>]

Lookup(c, k) ==
  /\ answer' = [answer EXCEPT ![c] = <<k, store[k]>>]
  /\ UNCHANGED store

GoOn(c) ==
  /\ answer' = [answer EXCEPT ![c] = <<>>]
  /\ UNCHANGED store

Put(k, s) ==
  /\ store' = [store EXCEPT ![k] = s]
  /\ UNCHANGED answer

Drop(dropped) ==
  /\ store' = [k \in Keys |-> IF k \in dropped THEN Absent ELSE store[k]]
  /\ UNCHANGED answer

Next ==
  \/ \E c \in Clients, k \in Keys : Lookup(c, k)
  \/ \E c \in Clients : GoOn(c)
  \/ \E k \in Keys, s \in Snapshots : Put(k, s)
  \/ \E dropped \in SUBSET Keys : Drop(dropped)

Spec == Init /\ [][Next]_vars
=============================================================================
