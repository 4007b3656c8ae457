------------------------------ MODULE PairOracle ------------------------------
(***************************************************************************)
(* How oracle.c makes an oracle: it numbers the pairs of states, sorts the *)
(* edges of the pair graph by where they lead, searches backward with one  *)
(* queue per objective and then chooses the witnesses; or it takes the     *)
(* records that the database holds and refuses those that contradict each  *)
(* other.  The operators of PairGraph say what is to come out.             *)
(*                                                                         *)
(* Pairs and edges are numbers here, as they are in the arrays.  Nothing   *)
(* runs concurrently; allocation failures are left out.                    *)
(***************************************************************************)
EXTENDS PairWords, FiniteSetsExt

CONSTANT Calls  \* [aut, stored]: the automaton, and the rows of the database

\* sg_pair_count
StateCount == Cardinality(States)
PairCount == (StateCount * (StateCount + 1)) \div 2
Ids == 0 .. PairCount - 1
Edges == 0 .. PairCount * ActionCount - 1

\* The fields of one objective, with a number or None for the next pair.
Fields == [dist : Distances, act : Actions \cup {None}, next : Nat \cup {None}, sup : Nat]
Rows == [pair : Nat, merge : Fields, resolution : Fields]
NoTable == <<>>

ASSUME OracleAssumption ==
  /\ States = 0 .. StateCount - 1  \* state indices
  /\ \A c \in Calls : c.aut \in Automata /\ c.stored \in Seq(Rows)

VARIABLES
  call,       \* the call
  at,         \* where it is
  edges,      \* next and outputs_differ of each edge
  into,       \* offsets, pairs and actions of the predecessors
  goal,       \* the objective that is searched for
  distance,   \* merge_distance, resolution_distance
  queue,      \* pairs that were reached, in order
  head,       \* number of pairs that were taken from the queue
  oracle,     \* per objective and pair: what the oracle holds
  result      \* status of the call

oracleVars == <<call, at, edges, into, goal, distance, queue, head, oracle, result>>

Model == call.aut
Restoring == call.stored # NoTable

-----------------------------------------------------------------------------
(* Numbers of pairs and edges. *)

\* The members of s, as Before puts them.
Arranged(s, Before(_, _)) ==
  [k \in 1 .. Cardinality(s) |->
     CHOOSE x \in s : Cardinality({y \in s : Before(y, x)}) = k - 1]

\* Mutant of Index: the row is found as if the diagonal had no pairs.
IndexShifted(p) ==
  Min(p) * StateCount - (Min(p) * (Min(p) + 3)) \div 2 + Max(p)

\* sg_pair_index
Index(p) ==
  Min(p) * StateCount - (Min(p) * (Min(p) + 1)) \div 2 + Max(p)

\* first and second of each pair, in the order of the loops of sg_oracle_fill_pairs
Before(p, q) == Min(p) < Min(q) \/ (Min(p) = Min(q) /\ Max(p) < Max(q))
PairOf ==
  LET inOrder == Arranged(Pairs, Before) IN [i \in Ids |-> inOrder[i + 1]]

Source(e) == e \div ActionCount
ActionOf(e) == e % ActionCount

Fill ==
  /\ at = "fill"
  /\ edges' = [e \in Edges |->
       [next |-> Index(Target(Model, PairOf[Source(e)], ActionOf(e))),
        differ |-> OutputsDiffer(Model, PairOf[Source(e)], ActionOf(e))]]
  /\ at' = IF Restoring THEN "restore" ELSE "sort"
  /\ UNCHANGED <<call, into, goal, distance, queue, head, oracle, result>>

\* Mutant of Offset: the edges into i are counted as well.
OffsetAfter(i) == Cardinality({e \in Edges : edges[e].next <= i})

Offset(i) == Cardinality({e \in Edges : edges[e].next < i})

\* sg_predecessors_build: edges sorted by where they lead, those into pair i from
\* position offset[i] on, up to offset[i + 1], in the order of their sources.
Sort ==
  LET Earlier(e, f) == edges[e].next < edges[f].next
                       \/ (edges[e].next = edges[f].next /\ e < f)
      inOrder == Arranged(Edges, Earlier)
  IN /\ at = "sort"
     /\ into' = [offset |-> [i \in 0 .. PairCount |-> Offset(i)],
                 edge |-> [k \in Edges |-> inOrder[k + 1]]]
     /\ at' = "seed"
     /\ UNCHANGED <<call, edges, goal, distance, queue, head, oracle, result>>

-----------------------------------------------------------------------------
(* Backward search: sg_merge_distances, then sg_resolution_distances. *)

TerminalEdge(obj, e) == obj = "resolution" /\ edges[e].differ
EdgesOf(i) == {e \in Edges : Source(e) = i}

Diagonals == {i \in Ids : PairOf[i] \in Diagonal}

Immediate(obj) ==
  {i \in Ids \ Diagonals : \E e \in EdgesOf(i) : TerminalEdge(obj, e)}

InOrder(ids) == Arranged(ids, LAMBDA i, j : i < j)

Seed ==
  /\ at = "seed"
  /\ distance' = [distance EXCEPT ![goal] =
       [i \in Ids |-> IF i \in Diagonals THEN 0
                      ELSE IF i \in Immediate(goal) THEN 1 ELSE None]]
  /\ queue' = InOrder(Diagonals) \o InOrder(Immediate(goal))
  /\ head' = 0 /\ at' = "search"
  /\ UNCHANGED <<call, edges, into, goal, oracle, result>>

\* Mutant of Newly: a pair is taken up again when it is closer by now.
NewlyCloser(target) ==
  LET near == {into.edge[k] : k \in into.offset[target] .. into.offset[target + 1] - 1}
  IN {Source(e) : e \in {f \in near : ~TerminalEdge(goal, f)}} \ Diagonals

\* Pairs that are reached by an edge into target, unless its outputs differ.
Newly(target) ==
  LET near == {into.edge[k] : k \in into.offset[target] .. into.offset[target + 1] - 1}
  IN {Source(e) : e \in {f \in near : /\ ~TerminalEdge(goal, f)
                                      /\ distance[goal][Source(f)] = None}}

\* Mutant of Enqueued: the pairs that were reached last are taken first.
EnqueuedFirst(ids) == SubSeq(queue, 1, head + 1) \o ids \o SubSeq(queue, head + 2, Len(queue))

Enqueued(ids) == queue \o ids

Search ==
  /\ at = "search" /\ head < Len(queue)
  /\ \E target \in {queue[head + 1]} : \E ids \in {Newly(target)} :
       /\ distance' = [distance EXCEPT ![goal] =
            [i \in Ids |-> IF i \in ids THEN @[target] + 1 ELSE @[i]]]
       /\ queue' = Enqueued(InOrder(ids))
  /\ head' = head + 1
  /\ UNCHANGED <<call, at, edges, into, goal, oracle, result>>

Searched ==
  /\ at = "search" /\ head = Len(queue)
  /\ IF goal = "merge" THEN at' = "seed" /\ goal' = "resolution"
     ELSE at' = "choose" /\ UNCHANGED goal
  /\ UNCHANGED <<call, edges, into, distance, queue, head, oracle, result>>

-----------------------------------------------------------------------------
(* Witnesses. *)

\* An edge that takes its pair closer: into a pair that is nearer, or an
\* observation that tells a pair at distance 1 apart.
Attains(obj, dist, e) ==
  LET d == dist[Source(e)]
  IN \/ d = 1 /\ TerminalEdge(obj, e)
     \/ /\ ~TerminalEdge(obj, e)
        /\ dist[edges[e].next] # None /\ dist[edges[e].next] + 1 = d

Nothing(d) == [dist |-> d, act |-> None, next |-> None, sup |-> 0]

\* Mutant of Chosen: the last edge that attains the distance.
ChosenLast(attaining) == Max(attaining)

Chosen(attaining) == Min(attaining)

\* sg_choose_witnesses
Witness(obj, dist, i) ==
  LET attaining == {e \in EdgesOf(i) : Attains(obj, dist, e)}
      e == Chosen(attaining)
  IN IF dist[i] \in {None, 0} \/ attaining = {} THEN Nothing(dist[i])
     ELSE [dist |-> dist[i], act |-> ActionOf(e),
           next |-> IF TerminalEdge(obj, e) THEN None ELSE edges[e].next,
           sup |-> Cardinality(attaining)]

Finish(status) == at' = "done" /\ result' = status

Choose ==
  /\ at = "choose"
  /\ oracle' = [obj \in Objectives |-> [i \in Ids |-> Witness(obj, distance[obj], i)]]
  /\ Finish("OK")
  /\ UNCHANGED <<call, edges, into, goal, distance, queue, head>>

-----------------------------------------------------------------------------
(* Records of the database: sg_pair_oracle_restore. *)

\* Whatever else is in a row of a pair that does not merge, or resolve.
Loaded(fields) == IF fields.dist = None THEN [Nothing(None) EXCEPT !.sup = fields.sup] ELSE fields

Complete(rows) ==
  Len(rows) = PairCount /\ {rows[k].pair : k \in DOMAIN rows} = Ids

\* Mutant of AttainedBy: the record need not lead to a nearer pair.
AttainedAnyhow(obj, dist, i, r) == r.act # None

\* Mutant of AttainedBy: a witness that ends in an observation has to lead on, too.
AttainedOnward(obj, dist, i, r) ==
  \E e \in EdgesOf(i) :
    ActionOf(e) = r.act /\ Attains(obj, dist, e) /\ r.next = edges[e].next

\* The witness is one of the edges that attain the distance.
AttainedBy(obj, dist, i, r) ==
  \E e \in EdgesOf(i) :
    /\ ActionOf(e) = r.act /\ Attains(obj, dist, e)
    /\ r.next = IF TerminalEdge(obj, e) THEN None ELSE edges[e].next

\* sg_merge_record_valid, sg_resolution_record_valid: a record is held against
\* those it leads to, and one without a distance against nothing.
Valid(obj, recs, i) ==
  LET r == recs[i]
      dist == [j \in Ids |-> recs[j].dist]
  IN CASE r.dist = None -> r.sup = 0
       [] r.dist = 0 -> i \in Diagonals /\ r = Nothing(0)
       [] OTHER -> /\ AttainedBy(obj, dist, i, r)
                   /\ r.sup = Cardinality({e \in EdgesOf(i) : Attains(obj, dist, e)})

Row(i) == call.stored[CHOOSE k \in DOMAIN call.stored : call.stored[k].pair = i]

Restore ==
  /\ at = "restore"
  /\ \/ /\ ~Complete(call.stored)
        /\ Finish("INVALID_MODEL") /\ UNCHANGED oracle
     \/ /\ Complete(call.stored)
        /\ \E recs \in {[obj \in Objectives |-> [i \in Ids |-> Loaded(Row(i)[obj])]]} :
             IF \A obj \in Objectives, i \in Ids : Valid(obj, recs[obj], i)
             THEN oracle' = recs /\ Finish("OK")
             ELSE Finish("INVALID_MODEL") /\ UNCHANGED oracle
  /\ UNCHANGED <<call, edges, into, goal, distance, queue, head>>

-----------------------------------------------------------------------------
(* Words: sg_witness_word, which follows the records from a pair. *)

\* One round of its loop, which ends at distance 0 or with an observation.
Stepped(obj, w) ==
  IF w.pair = None THEN w ELSE IF oracle[obj][w.pair].dist = 0 THEN w
  ELSE [pair |-> oracle[obj][w.pair].next, word |-> Append(w.word, oracle[obj][w.pair].act)]

Word(obj, i) ==
  LET walk[n \in 0 .. PairCount] ==
        IF n = 0 THEN [pair |-> i, word |-> <<>>]
        ELSE Stepped(obj, walk[n - 1])
  IN walk[PairCount].word

-----------------------------------------------------------------------------
OracleInit ==
  /\ call \in Calls /\ at = "fill"
  /\ edges = <<>> /\ into = <<>>
  /\ goal = "merge"
  /\ distance = [obj \in Objectives |-> [i \in Ids |-> None]]
  /\ queue = <<>> /\ head = 0
  /\ oracle = [obj \in Objectives |-> [i \in Ids |-> Nothing(None)]]
  /\ result = "NONE"

\* The call has returned.
Returned == at = "done" /\ UNCHANGED oracleVars

OracleNext ==
  \/ Fill \/ Sort \/ Seed \/ Search \/ Searched \/ Choose \/ Restore \/ Returned

OracleSpec == OracleInit /\ [][OracleNext]_oracleVars

-----------------------------------------------------------------------------
(* Properties. *)

OracleTypeOK ==
  /\ at \in {"fill", "sort", "seed", "search", "choose", "restore", "done"}
  /\ goal \in Objectives
  /\ distance \in [Objectives -> [Ids -> Distances]]
  /\ queue \in Seq(Ids) /\ Len(queue) <= PairCount /\ head \in 0 .. Len(queue)
  /\ oracle \in [Objectives -> [Ids -> Fields]]
  /\ result \in {"NONE", "OK", "INVALID_MODEL"}

\* The formula of sg_pair_index and the loops of sg_oracle_fill_pairs number the
\* pairs alike: an edge leads to the pair whose number is stored for it.
PairsNumbered ==
  at # "fill" =>
    \A e \in Edges : PairOf[edges[e].next] = Target(Model, PairOf[Source(e)], ActionOf(e))

\* The predecessors of a pair are the edges into it, each of them once.
PredecessorsExact ==
  at \in {"seed", "search", "choose"} =>
    \A i \in Ids :
      LET here == into.offset[i] .. into.offset[i + 1] - 1
      IN /\ {into.edge[k] : k \in here} = {e \in Edges : edges[e].next = i}
         /\ Cardinality(here) = Cardinality({e \in Edges : edges[e].next = i})

\* The queue is filled in layers and every pair enters it once, so it fits into
\* an array of one place per pair and no distance is ever too large.
QueueLayered ==
  at = "search" =>
    LET far(k) == distance[goal][queue[k]]
    IN /\ \A j, k \in DOMAIN queue : j < k => queue[j] # queue[k] /\ far(j) <= far(k)
       /\ head \in DOMAIN queue => far(Len(queue)) <= far(head) + 1

\* The arrays that the searches run on: numbers, predecessors and the queue.
QueueSound == OracleTypeOK /\ PairsNumbered /\ PredecessorsExact /\ QueueLayered

Number(p) == IF p = NoPair THEN None ELSE CHOOSE i \in Ids : PairOf[i] = p

Numbered(obj) ==
  [i \in Ids |->
     [ExactRecords(Model, obj)[PairOf[i]] EXCEPT !.next = Number(@)]]

\* What is built is the exact oracle: least distances, the first action that
\* attains them, and how many do.
BuildExact ==
  result = "OK" /\ ~Restoring =>
    \A obj \in Objectives : oracle[obj] = Numbered(obj)

\* Whatever the database holds, the words of an oracle that is restored from it do
\* what they promise: they have the length of the distance, and after them the
\* two states are one, or their outputs differ.
RestoredReplay ==
  result = "OK" /\ Restoring =>
    \A obj \in Objectives : \A i \in {j \in Ids : oracle[obj][j].dist # None} :
      LET w == Word(obj, i)
          s == Min(PairOf[i])
          t == Max(PairOf[i])
      IN /\ Len(w) = oracle[obj][i].dist
         /\ \/ PlacesFrom(Model, s, w)[Len(w)] = PlacesFrom(Model, t, w)[Len(w)]
            \/ obj = "resolution" /\ TraceFrom(Model, s, w) # TraceFrom(Model, t, w)

\* "Every published pair snapshot is complete and restorable as an exact oracle"
\* (HACKING.md): the rows of an exact oracle are accepted, in whatever order the
\* database returns them, and give back that oracle.
ExactRestorable ==
  at = "done" /\ Restoring /\ Complete(call.stored) =>
    LET exact == [obj \in Objectives |-> Numbered(obj)]
    IN (\A i \in Ids, obj \in Objectives : Row(i)[obj] = exact[obj][i])
       => result = "OK" /\ oracle = exact

\* A restored oracle can be trusted, and one that was exact is restored.
RestoreSound == RestoredReplay /\ ExactRestorable
=============================================================================
