------------------------- MODULE DisambiguationProofs -------------------------
(***************************************************************************)
(* A plan of sg_plan_disambiguate resolves the initial support to the      *)
(* bound, a plan of its search is a shortest one, NO_PLAN is a proof that  *)
(* no word will do, and the word of the records and the search share one   *)
(* budget: theorems of DisambiguationSearch for every automaton, table of  *)
(* records, bound, list of permitted actions and budget.                   *)
(*                                                                         *)
(* The inductive invariant follows the search over partitions: the whole   *)
(* initial support is its first node, every node has a support above the   *)
(* bound, and the successors of the nodes dequeued so far are stored, of   *)
(* the last one those under the letters applied so far. Along the tree of  *)
(* nodes a node is the partition its word leaves, and its depth grows with *)
(* its place.                                                              *)
(***************************************************************************)
EXTENDS DisambiguationSearch, PairGraphProofs

Stored == {nodes[i].partition : i \in DOMAIN nodes}

NodeRecords == [partition : Partitions, parent : Nat, act : Actions \cup {None}]

\* A partition that leaves more states than permitted on some trace.
Open(partition) == LargestIn(partition) > query.bound

SearchTypes ==
  /\ query \in Queries
  /\ at \in {"start", "heuristic", "queue", "search", "done"}
  /\ nodes \in Seq(NodeRecords) /\ head \in 0 .. Len(nodes)
  /\ letter \in 1 .. Len(letters) + 1

\* The node that is being expanded, and its first letters that were applied.
Expanding ==
  /\ letter <= Len(letters) => head # 0
  /\ head # 0 =>
       \A j \in 1 .. letter - 1 : Parted(nodes[head].partition, letters[j]) \in Stored

Searched ==
  /\ nodes # <<>> /\ nodes[1].partition = {query.initial}
  /\ \A i \in DOMAIN nodes : Open(nodes[i].partition)
  /\ \A i \in 1 .. head - 1, j \in DOMAIN letters :
       Parted(nodes[i].partition, letters[j]) \in Stored
  /\ Expanding

SearchInv ==
  /\ SearchTypes
  /\ at # "done" => outcome = "NONE"
  /\ at \in {"heuristic", "queue"} => ~Satisfied
  /\ at \in {"start", "heuristic", "queue"} => head = 0 /\ letter = Len(letters) + 1
  /\ at = "search" => Searched
  /\ outcome = "NO_PLAN" => Searched /\ head = Len(nodes) /\ letter = Len(letters) + 1

-----------------------------------------------------------------------------
(* Partitions. *)

\* The parts of a call that every step can rely on.
LEMMA QueryTypes ==
  ASSUME query \in Queries
  PROVE  /\ letters \in Seq(Actions) /\ letters # <<>>
         /\ query.initial \in Supports \ {{}}
         /\ query.bound \in Nat \ {0} /\ query.budget \in Nat \ {0}
         /\ aut.delta \in [Cells -> States]
BY DisambiguationAssumption DEF aut, letters, Automata

\* What the outputs of an action leave of a partition is a partition.
LEMMA PartedType ==
  ASSUME query \in Queries, NEW partition \in Partitions, NEW a \in Actions
  PROVE  Parted(partition, a) \in Partitions
<1>1. SUFFICES ASSUME NEW s \in partition, NEW o \in Showing(aut, s, a)
               PROVE  Observed(aut, s, a, o) \in Supports \ {{}}
  BY DEF Parted, Partitions
<1>2. s \subseteq States /\ aut.delta \in [Cells -> States]
  BY QueryTypes DEF Partitions, Supports
<1>3. PICK x \in s : aut.eta[<<x, a>>] = o
  BY DEF Showing
<1>4. aut.delta[<<x, a>>] \in Observed(aut, s, a, o)
  BY <1>3 DEF Observed, Moved
<1>5. Observed(aut, s, a, o) \subseteq States
  BY <1>2 DEF Observed, Moved, Cells
<1>. QED
  BY <1>4, <1>5 DEF Supports

\* The largest of one support is that support.
LEMMA OneSupport ==
  ASSUME NEW s \in Supports
  PROVE  LargestIn({s}) = Cardinality(s) /\ Cardinality(s) \in Nat
<1>1. IsFiniteSet(s)
  BY GraphAssumption, FS_Subset DEF Supports
<1>2. Cardinality(s) \in Nat
  BY <1>1, FS_CardinalityType
<1>3. {Cardinality(t) : t \in {s}} = {Cardinality(s)}
  OBVIOUS
<1>. QED
  BY <1>2, <1>3 DEF LargestIn, Max

\* An initial support that will not do is an open partition.
LEMMA OriginOpen ==
  ASSUME query \in Queries, ~Satisfied
  PROVE  Open({query.initial})
BY QueryTypes, OneSupport DEF Open, Satisfied

\* The automaton, its letters and the bound belong to the call.
LEMMA SameCall ==
  ASSUME query' = query
  PROVE  /\ letters' = letters
         /\ \A partition : Open(partition)' = Open(partition)
         /\ \A partition, a : Parted(partition, a)' = Parted(partition, a)
BY DEF letters, Open, Parted, aut

-----------------------------------------------------------------------------
(* Steps that leave the queue alone. *)

\* What was searched stays searched while the queue and its position stay.
LEMMA SearchedKept ==
  ASSUME Searched, UNCHANGED <<query, nodes, head, letter>>
  PROVE  Searched'
<1>1. query' = query /\ nodes' = nodes /\ head' = head /\ letter' = letter
  OBVIOUS
<1>2. letters' = letters /\ Stored' = Stored
  BY <1>1 DEF letters, Stored
<1>3. \A i \in DOMAIN nodes' : Open(nodes[i].partition)'
  BY <1>1 DEF Searched, Open
<1>4. \A i \in 1 .. head' - 1, j \in DOMAIN letters' :
        Parted(nodes[i].partition, letters[j])' \in Stored'
  BY <1>1, <1>2, SameCall DEF Searched
<1>5. Expanding'
  BY <1>1, <1>2 DEF Searched, Expanding, Parted, letters, aut
<1>. QED
  BY <1>1, <1>3, <1>4, <1>5 DEF Searched

\* A call starts with an empty queue and nothing found.
LEMMA StartsSound == Init => SearchInv
<1>1. SUFFICES ASSUME Init PROVE SearchInv
  OBVIOUS
<1>2. query \in Queries /\ nodes = <<>> /\ head = 0 /\ letter = Len(letters) + 1
  BY <1>1 DEF Init, letters
<1>3. Len(letters) \in Nat
  BY <1>2, QueryTypes
<1>4. nodes \in Seq(NodeRecords) /\ head \in 0 .. Len(nodes)
  BY <1>2
<1>5. SearchTypes
  BY <1>1, <1>2, <1>3, <1>4 DEF Init, SearchTypes
<1>. QED
  BY <1>1, <1>2, <1>5 DEF Init, SearchInv

\* A step that leaves the queue alone and does not end in NO_PLAN.
LEMMA QueueKept ==
  ASSUME SearchInv, UNCHANGED <<query, nodes, head, letter>>,
         at' \in {"heuristic", "queue", "done"},
         at' # "done" => outcome' = "NONE",
         at' \in {"heuristic", "queue"} =>
           at \in {"start", "heuristic", "queue"} /\ ~Satisfied,
         outcome' # "NO_PLAN"
  PROVE  SearchInv'
<1>1. SearchTypes'
  BY DEF SearchInv, SearchTypes, letters
<1>2. at' \in {"heuristic", "queue"} => ~Satisfied'
  BY DEF Satisfied
<1>. QED
  BY <1>1, <1>2 DEF SearchInv, letters

\* A call that ends with another result than NO_PLAN leaves the queue alone.
LEMMA FinishSound ==
  ASSUME SearchInv, NEW result, Finish(result), result # "NO_PLAN",
         UNCHANGED <<nodes, head>>
  PROVE  SearchInv'
BY QueueKept DEF Finish

\* The replay of a word ends the call, whether it accepts the word or not.
LEMMA FinalizeSound ==
  ASSUME SearchInv, NEW w, NEW result, Finalize(w, result), result # "NO_PLAN",
         UNCHANGED <<nodes, head>>
  PROVE  SearchInv'
BY FinishSound DEF Finalize

\* A call that has returned keeps what it had.
LEMMA StutterSound ==
  ASSUME SearchInv, UNCHANGED vars
  PROVE  SearchInv'
<1>1. SearchTypes'
  BY DEF SearchInv, SearchTypes, vars, letters
<1>2. Searched => Searched'
  BY SearchedKept DEF vars
<1>. QED
  BY <1>1, <1>2 DEF SearchInv, Satisfied, vars, letters

-----------------------------------------------------------------------------
(* The steps of the search. *)

\* The queue starts with all initial states in one support, which is too large.
LEMMA SearchStartSound ==
  ASSUME SearchInv, SearchStart
  PROVE  SearchInv'
<1>1. /\ at = "queue" /\ at' = "search" /\ query' = query /\ outcome' = outcome
      /\ head' = head /\ letter' = letter
      /\ nodes' = <<Node({query.initial}, 0, None)>>
  BY DEF SearchStart, Origin
<1>2. query \in Queries /\ head = 0 /\ letter = Len(letters) + 1
      /\ outcome = "NONE" /\ ~Satisfied
  BY <1>1 DEF SearchInv, SearchTypes
<1>3. Len(letters) \in Nat /\ {query.initial} \in Partitions
  BY <1>2, QueryTypes DEF Partitions
<1>4. Node({query.initial}, 0, None) \in NodeRecords
  BY <1>3 DEF Node, NodeRecords
<1>5. /\ nodes' \in Seq(NodeRecords) /\ Len(nodes') = 1
      /\ nodes'[1] = Node({query.initial}, 0, None)
  BY <1>1, <1>4
<1>6. SearchTypes'
  BY <1>1, <1>2, <1>3, <1>5 DEF SearchTypes, letters
<1>7. DOMAIN nodes' = {1} /\ nodes'[1].partition = {query.initial}
  BY <1>5 DEF Node
<1>8. \A i \in DOMAIN nodes' : Open(nodes'[i].partition)
  BY <1>2, <1>7, OriginOpen
<1>9. \A i \in DOMAIN nodes' : Open(nodes[i].partition)'
  BY <1>1, <1>8 DEF Open
<1>10. head' = 0 /\ letter' = Len(letters') + 1 /\ Len(letters') \in Nat
  BY <1>1, <1>2, <1>3 DEF letters
<1>11. Expanding'
  BY <1>10 DEF Expanding
<1>12. 1 .. head' - 1 = {}
  BY <1>10
<1>13. Searched'
  BY <1>1, <1>5, <1>7, <1>9, <1>11, <1>12 DEF Searched
<1>. QED
  BY <1>1, <1>2, <1>6, <1>13 DEF SearchInv

\* Everything in the queue was expanded: what is stored is a certificate.
LEMMA SearchExhaustedSound ==
  ASSUME SearchInv, SearchExhausted
  PROVE  SearchInv'
<1>1. /\ at = "search" /\ letter > Len(letters) /\ head = Len(nodes)
      /\ at' = "done" /\ UNCHANGED <<query, nodes, head, letter>>
  BY DEF SearchExhausted, Between, Finish
<1>2. SearchTypes /\ Searched
  BY <1>1 DEF SearchInv
<1>3. Len(letters) \in Nat
  BY <1>2, QueryTypes DEF SearchTypes
<1>4. letter = Len(letters) + 1
  BY <1>1, <1>2, <1>3 DEF SearchTypes
<1>5. SearchTypes'
  BY <1>1, <1>2 DEF SearchTypes, letters
<1>6. Searched'
  BY <1>1, <1>2, SearchedKept
<1>. QED
  BY <1>1, <1>4, <1>5, <1>6 DEF SearchInv, letters

\* The node that was expanded last has all its successors stored when the next
\* one is taken.
LEMMA SearchExpandSound ==
  ASSUME SearchInv, SearchExpand
  PROVE  SearchInv'
<1>1. /\ at = "search" /\ at' = "search" /\ letter > Len(letters) /\ head < Len(nodes)
      /\ head' = head + 1 /\ letter' = 1
      /\ UNCHANGED <<query, nodes, outcome>>
  BY DEF SearchExpand, Between
<1>2. SearchTypes /\ Searched /\ outcome = "NONE"
  BY <1>1 DEF SearchInv
<1>3. letters \in Seq(Actions) /\ Len(letters) \in Nat
  BY <1>2, QueryTypes DEF SearchTypes
<1>4. SearchTypes'
  BY <1>1, <1>2, <1>3 DEF SearchTypes, letters
<1>5. Stored' = Stored
  BY <1>1 DEF Stored
<1>6. ASSUME NEW i \in 1 .. head, NEW j \in DOMAIN letters
      PROVE  Parted(nodes[i].partition, letters[j]) \in Stored
  <2>1. CASE i = head
    <3>1. head # 0 /\ j \in 1 .. letter - 1
      BY <1>1, <1>2, <1>3, <2>1 DEF SearchTypes
    <3>. QED
      BY <1>2, <2>1, <3>1 DEF Searched, Expanding
  <2>2. CASE i # head
    BY <1>2, <2>2 DEF Searched, SearchTypes
  <2>. QED
    BY <2>1, <2>2
<1>7. letters' = letters /\ head' - 1 = head /\ head' # 0 /\ 1 .. letter' - 1 = {}
  BY <1>1, <1>2 DEF letters, SearchTypes
<1>8. \A i \in DOMAIN nodes' : Open(nodes[i].partition)'
  BY <1>1, <1>2 DEF Searched, Open
<1>9. \A i \in 1 .. head' - 1, j \in DOMAIN letters' :
        Parted(nodes[i].partition, letters[j])' \in Stored'
  BY <1>1, <1>5, <1>6, <1>7, SameCall
<1>10. nodes' # <<>> /\ nodes'[1].partition = {query'.initial}
  BY <1>1, <1>2 DEF Searched
<1>11. Searched'
  BY <1>7, <1>8, <1>9, <1>10 DEF Searched, Expanding
<1>. QED
  BY <1>1, <1>2, <1>4, <1>11 DEF SearchInv

\* Both outcomes of an action that does not end the search: its partition is
\* stored afterwards, and only open partitions are.
LEMMA Applied ==
  ASSUME SearchInv, SearchKnown \/ SearchNew
  PROVE  /\ nodes' \in Seq(NodeRecords) /\ Len(nodes') >= Len(nodes)
         /\ \A i \in DOMAIN nodes : i \in DOMAIN nodes' /\ nodes'[i] = nodes[i]
         /\ \A i \in DOMAIN nodes' : Open(nodes'[i].partition)
         /\ Successor \in Stored'
         /\ head \in 1 .. Len(nodes) /\ letter \in 1 .. Len(letters)
<1>1. at = "search" /\ letter <= Len(letters)
  BY DEF SearchKnown, SearchNew
<1>2. SearchTypes /\ Searched /\ query \in Queries
  BY <1>1 DEF SearchInv, SearchTypes
<1>3. letters \in Seq(Actions) /\ Len(letters) \in Nat /\ letter \in 1 .. Len(letters)
  BY <1>1, <1>2, QueryTypes DEF SearchTypes
<1>4. head \in 1 .. Len(nodes) /\ nodes \in Seq(NodeRecords) /\ letters[letter] \in Actions
  BY <1>1, <1>2, <1>3 DEF SearchTypes, Searched, Expanding
<1>5. CASE SearchKnown
  <2>1. nodes' = nodes /\ Known(Successor)
    BY <1>5 DEF SearchKnown
  <2>2. Successor \in Stored'
    BY <2>1 DEF Known, Stored
  <2>. QED
    BY <1>2, <1>3, <1>4, <2>1, <2>2 DEF Searched
<1>6. CASE SearchNew
  <2>1. Open(Successor) /\ nodes' = Append(nodes, Node(Successor, head, letters[letter]))
    BY <1>6 DEF SearchNew, Enqueued, Open
  <2>2. nodes[head].partition \in Partitions
    <3>1. nodes[head] \in NodeRecords
      BY <1>4
    <3>. QED
      BY <3>1 DEF NodeRecords
  <2>3. Successor \in Partitions
    BY <1>2, <1>4, <2>2, PartedType DEF Successor
  <2>4. Node(Successor, head, letters[letter]) \in NodeRecords
    BY <1>4, <2>3 DEF Node, NodeRecords
  <2>5. /\ nodes' \in Seq(NodeRecords) /\ Len(nodes') = Len(nodes) + 1
        /\ \A i \in DOMAIN nodes : i \in DOMAIN nodes' /\ nodes'[i] = nodes[i]
        /\ nodes'[Len(nodes) + 1] = Node(Successor, head, letters[letter])
        /\ \A i \in DOMAIN nodes' : i \in DOMAIN nodes \/ i = Len(nodes) + 1
    BY <1>4, <2>1, <2>4
  <2>6. nodes'[Len(nodes) + 1].partition = Successor
    BY <2>5 DEF Node
  <2>7. \A i \in DOMAIN nodes' : Open(nodes'[i].partition)
    BY <1>2, <2>1, <2>5, <2>6 DEF Searched
  <2>8. Successor \in Stored'
    <3>1. Len(nodes) + 1 \in DOMAIN nodes'
      BY <1>4, <2>5
    <3>. QED
      BY <2>6, <3>1 DEF Stored
  <2>. QED
    BY <1>3, <1>4, <2>5, <2>7, <2>8
<1>. QED
  BY <1>5, <1>6

\* One more letter of the node that is expanded has its partition stored.
LEMMA SearchLetterSound ==
  ASSUME SearchInv, SearchKnown \/ SearchNew
  PROVE  SearchInv'
<1>1. /\ at = "search" /\ at' = "search" /\ letter' = letter + 1 /\ head' = head
      /\ UNCHANGED <<query, outcome>>
  BY DEF SearchKnown, SearchNew
<1>2. SearchTypes /\ Searched /\ outcome = "NONE" /\ query \in Queries
  BY <1>1 DEF SearchInv, SearchTypes
<1>3. letters \in Seq(Actions) /\ Len(letters) \in Nat /\ nodes \in Seq(NodeRecords)
  BY <1>2, QueryTypes DEF SearchTypes
<1>4. /\ nodes' \in Seq(NodeRecords) /\ Len(nodes') >= Len(nodes)
      /\ \A i \in DOMAIN nodes : i \in DOMAIN nodes' /\ nodes'[i] = nodes[i]
      /\ \A i \in DOMAIN nodes' : Open(nodes'[i].partition)
      /\ Successor \in Stored'
      /\ head \in 1 .. Len(nodes) /\ letter \in 1 .. Len(letters)
  BY Applied
<1>5. Stored \subseteq Stored'
  BY <1>4 DEF Stored
<1>6. SearchTypes'
  BY <1>1, <1>2, <1>3, <1>4 DEF SearchTypes, letters
<1>7. letters' = letters /\ letter' - 1 = letter /\ head' # 0
  BY <1>1, <1>3, <1>4 DEF letters
<1>8. nodes' # <<>> /\ nodes'[1].partition = {query.initial}
  BY <1>2, <1>3, <1>4 DEF Searched
<1>9. \A i \in DOMAIN nodes' : Open(nodes[i].partition)'
  BY <1>1, <1>4 DEF Open
<1>10. \A i \in 1 .. head' - 1, j \in DOMAIN letters' :
         Parted(nodes[i].partition, letters[j])' \in Stored'
  <2>1. SUFFICES ASSUME NEW i \in 1 .. head - 1, NEW j \in DOMAIN letters
                 PROVE  Parted(nodes[i].partition, letters[j])' \in Stored'
    BY <1>1, <1>7
  <2>2. Parted(nodes[i].partition, letters[j]) \in Stored'
    BY <1>2, <1>5 DEF Searched
  <2>3. nodes'[i] = nodes[i]
    BY <1>3, <1>4
  <2>. QED
    BY <1>1, <1>7, <2>2, <2>3, SameCall
<1>11. \A j \in 1 .. letter' - 1 : Parted(nodes[head].partition, letters[j])' \in Stored'
  <2>1. SUFFICES ASSUME NEW j \in 1 .. letter
                 PROVE  Parted(nodes[head].partition, letters[j])' \in Stored'
    BY <1>7
  <2>2. Parted(nodes[head].partition, letters[j]) \in Stored'
    <3>1. CASE j = letter
      BY <1>4, <3>1 DEF Successor
    <3>2. CASE j # letter
      BY <1>2, <1>3, <1>4, <1>5, <3>2 DEF Searched, Expanding
    <3>. QED
      BY <3>1, <3>2
  <2>3. nodes'[head] = nodes[head] /\ head' = head
    BY <1>1, <1>3, <1>4
  <2>. QED
    BY <1>1, <1>7, <2>2, <2>3, SameCall
<1>12. Searched'
  BY <1>1, <1>7, <1>8, <1>9, <1>10, <1>11 DEF Searched, Expanding
<1>. QED
  BY <1>1, <1>2, <1>6, <1>12 DEF SearchInv

\* The partition that will do becomes the last node, and its word is replayed:
\* nothing is claimed of the queue any more.
LEMMA SearchFoundSound ==
  ASSUME SearchInv, SearchFound
  PROVE  SearchInv'
<1>1. /\ at = "search" /\ letter \in 1 .. Len(letters)
      /\ query' = query /\ letter' = letter /\ head' = head
      /\ nodes' = Append(nodes, Node(Successor, head, letters[letter]))
      /\ at' = "done" /\ outcome' # "NO_PLAN"
  BY DEF SearchFound, Finalize, Finish, SearchInv, SearchTypes
<1>2. SearchTypes /\ Searched /\ query \in Queries
  BY <1>1 DEF SearchInv, SearchTypes
<1>3. letters[letter] \in Actions /\ nodes \in Seq(NodeRecords) /\ head \in 1 .. Len(nodes)
  BY <1>1, <1>2, QueryTypes DEF SearchTypes, Searched, Expanding
<1>4. nodes[head].partition \in Partitions
  <2>1. nodes[head] \in NodeRecords
    BY <1>3
  <2>. QED
    BY <2>1 DEF NodeRecords
<1>5. Node(Successor, head, letters[letter]) \in NodeRecords
  BY <1>2, <1>3, <1>4, PartedType DEF Successor, Node, NodeRecords
<1>6. nodes' \in Seq(NodeRecords) /\ head' \in 0 .. Len(nodes')
  BY <1>1, <1>3, <1>5
<1>7. SearchTypes'
  BY <1>1, <1>2, <1>6 DEF SearchTypes, letters
<1>. QED
  BY <1>1, <1>7 DEF SearchInv

-----------------------------------------------------------------------------
(* Every step. *)

\* Every step, and every stutter, keeps the invariant.
LEMMA StepSound ==
  ASSUME SearchInv, [Next]_vars
  PROVE  SearchInv'
<1>1. CASE Start
  <2>1. CASE Finish("INVALID_ARGUMENT")
    BY <1>1, <2>1, FinishSound DEF Start
  <2>2. CASE Finalize(<<>>, "ALREADY_SATISFIED")
    BY <1>1, <2>2, FinalizeSound DEF Start
  <2>3. CASE /\ at = "start" /\ at' = "heuristic" /\ ~Satisfied
             /\ UNCHANGED <<query, letter, outcome, nodes, head>>
    BY <2>3, QueueKept DEF SearchInv
  <2>. QED
    BY <1>1, <2>1, <2>2, <2>3 DEF Start
<1>2. CASE HeuristicRefused
  BY <1>2, FinishSound DEF HeuristicRefused
<1>3. CASE HeuristicPlan
  <2>1. PICK w : Finalize(w, "PLAN")
    BY <1>3 DEF HeuristicPlan
  <2>. QED
    BY <1>3, <2>1, FinalizeSound DEF HeuristicPlan
<1>4. CASE HeuristicShort \/ HeuristicNone
  <2>1. /\ at = "heuristic" /\ at' = "queue"
        /\ UNCHANGED <<query, nodes, head, letter, outcome>>
    BY <1>4 DEF HeuristicShort, HeuristicNone
  <2>. QED
    BY <2>1, QueueKept DEF SearchInv
<1>5. CASE SearchStart
  BY <1>5, SearchStartSound
<1>6. CASE SearchBound
  BY <1>6, FinishSound DEF SearchBound
<1>7. CASE SearchExhausted
  BY <1>7, SearchExhaustedSound
<1>8. CASE SearchExpand
  BY <1>8, SearchExpandSound
<1>9. CASE SearchKnown \/ SearchNew
  BY <1>9, SearchLetterSound
<1>10. CASE SearchFound
  BY <1>10, SearchFoundSound
<1>11. CASE UNCHANGED vars
  BY <1>11, StutterSound
<1>. QED
  BY <1>1, <1>2, <1>3, <1>4, <1>5, <1>6, <1>7, <1>8, <1>9, <1>10, <1>11 DEF Next, Returned

\* The invariant of the search holds in every state of every call.
THEOREM SearchSound == Spec => []SearchInv
BY StartsSound, StepSound, PTL DEF Spec

\* Whenever sg_plan_disambiguate answers NO_PLAN, for any automaton, records,
\* bound and permitted actions, the partitions it stored prove it right: no
\* permitted action leads out of them, and each has a support above the bound.
THEOREM NoPlanIsProof == Spec => []NoPlanCertified
<1>1. SearchInv => NoPlanCertified
  <2>1. SUFFICES ASSUME SearchInv, outcome = "NO_PLAN"
                 PROVE  Certificate(Stored)
    BY DEF NoPlanCertified, Stored
  <2>2. Searched /\ head = Len(nodes) /\ letter = Len(letters) + 1 /\ SearchTypes
    BY <2>1 DEF SearchInv
  <2>3. nodes \in Seq(NodeRecords) /\ letters \in Seq(Actions)
    BY <2>2, QueryTypes DEF SearchTypes
  <2>4. {query.initial} \in Stored
    <3>1. 1 \in DOMAIN nodes
      BY <2>2, <2>3 DEF Searched
    <3>. QED
      BY <2>2, <3>1 DEF Searched, Stored
  <2>5. ASSUME NEW i \in DOMAIN nodes, NEW a \in Range(letters)
        PROVE  Parted(nodes[i].partition, a) \in Stored
    <3>1. PICK j \in DOMAIN letters : a = letters[j]
      BY DEF Range
    <3>2. j \in 1 .. Len(letters) /\ i \in 1 .. head
      BY <2>2, <2>3
    <3>3. CASE i = head
      BY <2>2, <2>3, <3>1, <3>2, <3>3 DEF Searched, Expanding
    <3>4. CASE i # head
      BY <2>2, <3>1, <3>2, <3>4 DEF Searched
    <3>. QED
      BY <3>3, <3>4
  <2>. QED
    BY <2>2, <2>4, <2>5 DEF Certificate, Searched, Stored, Open
<1>. QED
  BY <1>1, SearchSound, PTL

-----------------------------------------------------------------------------
(* The budget. *)

BudgetInv ==
  /\ SearchInv /\ expansions \in Nat /\ expansions <= query.budget
  /\ at \in {"start", "heuristic"} => expansions = 0
  /\ at = "queue" => expansions \in {0, 1}
  /\ at = "search" => expansions - head \in {0, 1}
  /\ outcome = "RESOURCE_BOUND" => expansions = query.budget
  /\ outcome = "NO_PLAN" => expansions - Len(nodes) \in {0, 1}

\* The word of a pair is the first expansion or none; the search spends one for
\* each node that it dequeues, and only while some are left.
LEMMA StepBudget ==
  ASSUME BudgetInv, [Next]_vars
  PROVE  BudgetInv'
<1>1. SearchInv'
  BY StepSound DEF BudgetInv
<1>2. /\ expansions \in Nat /\ expansions <= query.budget
      /\ query.budget \in Nat \ {0} /\ head \in Nat
      /\ at # "done" => outcome = "NONE"
      /\ at = "queue" => head = 0
  BY QueryTypes DEF BudgetInv, SearchInv, SearchTypes
<1>3. CASE HeuristicPlan \/ HeuristicShort
  <2>1. /\ at = "heuristic" /\ expansions' = expansions + 1 /\ query' = query
        /\ at' \in {"queue", "done"} /\ outcome' \notin {"NO_PLAN", "RESOURCE_BOUND"}
    BY <1>2, <1>3 DEF HeuristicPlan, HeuristicShort, Finalize, Finish
  <2>. QED
    BY <1>1, <1>2, <2>1 DEF BudgetInv
<1>4. CASE SearchExpand
  <2>1. /\ at = "search" /\ at' = "search" /\ ~Spent /\ expansions' = expansions + 1
        /\ head' = head + 1 /\ query' = query /\ outcome' = "NONE"
    BY <1>2, <1>4 DEF SearchExpand, Between
  <2>. QED
    BY <1>1, <1>2, <2>1 DEF BudgetInv, Spent
<1>5. CASE SearchBound
  <2>1. /\ Spent /\ at' = "done" /\ outcome' = "RESOURCE_BOUND"
        /\ UNCHANGED <<expansions, query>>
    BY <1>5 DEF SearchBound, Finish
  <2>. QED
    BY <1>1, <1>2, <2>1 DEF BudgetInv, Spent
<1>6. CASE SearchExhausted
  <2>1. /\ at = "search" /\ head = Len(nodes) /\ at' = "done" /\ outcome' = "NO_PLAN"
        /\ UNCHANGED <<expansions, query, nodes>>
    BY <1>6 DEF SearchExhausted, Between, Finish
  <2>. QED
    BY <1>1, <1>2, <2>1 DEF BudgetInv
<1>7. CASE SearchStart
  <2>1. /\ at = "queue" /\ at' = "search" /\ UNCHANGED <<expansions, query, head, outcome>>
    BY <1>7 DEF SearchStart
  <2>. QED
    BY <1>1, <1>2, <2>1 DEF BudgetInv
<1>8. CASE Start \/ HeuristicRefused \/ HeuristicNone \/ SearchFound
  <2>1. /\ at # "done" /\ UNCHANGED <<expansions, query>>
        /\ \/ at' = "done" /\ outcome' \notin {"NO_PLAN", "RESOURCE_BOUND"}
           \/ at \in {"start", "heuristic"} /\ at' \in {"heuristic", "queue"}
              /\ outcome' = outcome
    BY <1>8 DEF Start, HeuristicRefused, HeuristicNone, SearchFound, Finalize, Finish
  <2>. QED
    BY <1>1, <1>2, <2>1 DEF BudgetInv
<1>9. CASE SearchKnown \/ SearchNew
  <2>1. /\ at = "search" /\ at' = "search"
        /\ UNCHANGED <<expansions, query, head, outcome>>
    BY <1>9 DEF SearchKnown, SearchNew
  <2>. QED
    BY <1>1, <1>2, <2>1 DEF BudgetInv
<1>10. CASE UNCHANGED vars
  BY <1>1, <1>10 DEF BudgetInv, vars
<1>. QED
  BY <1>3, <1>4, <1>5, <1>6, <1>7, <1>8, <1>9, <1>10 DEF Next, Returned

\* The word of the records and the search spend one budget: RESOURCE_BOUND is
\* answered only with all of it spent, and NO_PLAN after one expansion for each
\* partition and at most one for the word.
THEOREM OneBudget == Spec => []BudgetShared
<1>1. Init => BudgetInv
  <2>1. SUFFICES ASSUME Init PROVE BudgetInv
    OBVIOUS
  <2>2. SearchInv
    BY <2>1, StartsSound
  <2>3. query.budget \in Nat /\ expansions = 0 /\ outcome = "NONE" /\ at = "start"
    BY <2>1, <2>2, QueryTypes DEF Init
  <2>. QED
    BY <2>2, <2>3 DEF BudgetInv
<1>2. BudgetInv /\ [Next]_vars => BudgetInv'
  BY StepBudget
<1>3. BudgetInv => BudgetShared
  BY DEF BudgetInv, BudgetShared
<1>. QED
  BY <1>1, <1>2, <1>3, PTL DEF Spec

-----------------------------------------------------------------------------
(* The partition of a word: what the runs along it leave, by what they show. *)

Leaves(w) == {Indistinct(x, w) : x \in query.initial}

\* The letters of a call are actions, and its automaton is one.
LEMMA CallTypes ==
  ASSUME query \in Queries
  PROVE  /\ aut \in Automata /\ query.initial \in Supports /\ query.initial # {}
         /\ Range(letters) \subseteq Actions
         /\ \A i \in 1 .. Len(letters) : letters[i] \in Range(letters)
         /\ \A w \in Seq(Range(letters)) : w \in Seq(Actions) /\ Range(w) \subseteq Range(letters)
<1>1. letters \in Seq(Actions)
  BY QueryTypes
<1>2. Range(letters) \subseteq Actions /\ \A i \in 1 .. Len(letters) : letters[i] \in Range(letters)
  BY <1>1 DEF Range
<1>3. ASSUME NEW w \in Seq(Range(letters))
      PROVE  w \in Seq(Actions) /\ Range(w) \subseteq Range(letters)
  <2>1. \A i \in 1 .. Len(w) : w[i] \in Range(letters)
    OBVIOUS
  <2>2. w \in Seq(Actions)
    BY <1>2
  <2>3. Range(w) \subseteq Range(letters)
    BY <2>1 DEF Range
  <2>4. QED
    BY <2>2, <2>3
<1>4. aut \in Automata /\ query.initial \in Supports /\ query.initial # {}
  BY DisambiguationAssumption DEF aut
<1>5. QED
  BY <1>2, <1>3, <1>4

\* By the runs that are alike.
LEMMA LeavesAre ==
  ASSUME query \in Queries, NEW w \in Seq(Actions)
  PROVE  Leaves(w) = {Left(aut, query.initial, w, y, Len(w)) : y \in query.initial}
<1>1. \A y \in query.initial : Indistinct(y, w) = Left(aut, query.initial, w, y, Len(w))
  BY CallTypes, AgreeingLeft DEF Indistinct
<1>2. QED
  BY <1>1 DEF Leaves

\* The empty word shows nothing.
LEMMA LeavesNothing ==
  ASSUME query \in Queries
  PROVE  Leaves(<<>>) = {query.initial}
<1>1. <<>> \in Seq(Actions) /\ Len(<<>>) = 0
  OBVIOUS
<1>2. \A y \in query.initial : Left(aut, query.initial, <<>>, y, 0) = query.initial
  BY <1>1, CallTypes, LeftRoot
<1>3. query.initial # {}
  BY CallTypes
<1>4. QED
  BY <1>1, <1>2, <1>3, LeavesAre

\* A longer word shows the same so far.
LEMMA LeftPrefix ==
  ASSUME NEW m \in Automata, NEW s \in Supports, NEW y \in s, NEW v \in Seq(Actions),
         NEW w \in Seq(Actions), Len(v) <= Len(w), \A n \in 1 .. Len(v) : v[n] = w[n]
  PROVE  Left(m, s, v, y, Len(v)) = Left(m, s, w, y, Len(v))
<1>1. Len(v) \in Nat /\ s \subseteq States
  BY DEF Supports
<1>2. \A z \in s : \A n \in 0 .. Len(v) : PlacesFrom(m, z, v)[n] = PlacesFrom(m, z, w)[n]
  BY <1>1, PlacesAgree
<1>3. \A z \in s : \A n \in 1 .. Len(v) : ShownAt(m, v, z, n) = ShownAt(m, w, z, n)
  <2>1. ASSUME NEW z \in s, NEW n \in 1 .. Len(v)
        PROVE  ShownAt(m, v, z, n) = ShownAt(m, w, z, n)
    <3>1. n - 1 \in 0 .. Len(v)
      BY <1>1
    <3>2. PlacesFrom(m, z, v)[n - 1] = PlacesFrom(m, z, w)[n - 1]
      BY <1>2, <3>1
    <3>3. QED
      BY <3>2 DEF ShownAt
  <2>2. QED
    BY <2>1
<1>4. Alike(m, s, v, y, Len(v)) = Alike(m, s, w, y, Len(v))
  BY <1>3 DEF Alike
<1>5. Len(v) \in 0 .. Len(v)
  BY <1>1
<1>6. \A z \in Alike(m, s, w, y, Len(v)) : PlacesFrom(m, z, v)[Len(v)] = PlacesFrom(m, z, w)[Len(v)]
  BY <1>2, <1>5 DEF Alike
<1>7. QED
  BY <1>4, <1>6 DEF Left

\* One more letter parts what was left: the traces need not be kept.
LEMMA LeavesNext ==
  ASSUME query \in Queries, NEW v \in Seq(Actions), NEW a \in Actions
  PROVE  Leaves(Append(v, a)) = Parted(Leaves(v), a)
<1>1. PICK w \in Seq(Actions) : w = Append(v, a)
  <2>1. Append(v, a) \in Seq(Actions)
    OBVIOUS
  <2>2. QED
    BY <2>1
<1>2. PICK n \in Nat : n = Len(v)
  OBVIOUS
<1>3. Len(w) = n + 1 /\ w[n + 1] = a /\ \A k \in 1 .. n : v[k] = w[k]
  BY <1>1, <1>2
<1>4. aut \in Automata /\ query.initial \in Supports
  BY CallTypes
<1>5. PICK s \in Supports : s = query.initial
  BY <1>4
<1>6. \A y \in s : Left(aut, s, v, y, n) = Left(aut, s, w, y, n)
  BY <1>2, <1>3, <1>4, LeftPrefix
<1>7. Leaves(v) = {Left(aut, s, w, y, n) : y \in s}
  <2>1. Leaves(v) = {Left(aut, s, v, y, n) : y \in s}
    BY <1>2, <1>5, LeavesAre
  <2>2. QED
    BY <1>6, <2>1
<1>8. Leaves(w) = {Left(aut, s, w, y, n + 1) : y \in s}
  BY <1>3, <1>5, LeavesAre
<1>9. PICK k \in 1 .. Len(w) : k = n + 1 /\ n = k - 1 /\ w[k] = a
  <2>1. n + 1 \in 1 .. Len(w) /\ (n + 1) - 1 = n
    BY <1>3
  <2>2. QED
    BY <1>3, <2>1
<1>10. PICK m \in Automata : m = aut
  BY <1>4
<1>11. PartsOf(m, LeftOf(m, s, w, k - 1), w[k]) = LeftOf(m, s, w, k)
  BY LeftParts
<1>12. \A c : Parted(c, w[k]) = PartsOf(aut, c, w[k])
  BY DEF Parted, PartsOf
<1>13. Leaves(v) = LeftOf(m, s, w, k - 1) /\ Leaves(w) = LeftOf(m, s, w, k)
  BY <1>7, <1>8, <1>9, <1>10 DEF LeftOf
<1>14. QED
  BY <1>1, <1>9, <1>10, <1>11, <1>12, <1>13

\* sg_trace_metrics counts what the runs leave.
LEMMA WorstIs ==
  ASSUME query \in Queries, NEW w \in Seq(Actions)
  PROVE  Worst(Branches(w)) = LargestIn(Leaves(w))
BY CallTypes, BranchSupports DEF Worst, Branches, Leaves, Indistinct

\* What is left is part of the states, and not nothing.
LEMMA LeavesType ==
  ASSUME query \in Queries, NEW w \in Seq(Actions)
  PROVE  Leaves(w) \in Partitions /\ Leaves(w) # {}
<1>1. ASSUME NEW x \in query.initial PROVE Indistinct(x, w) \in Supports \ {{}}
  <2>1. \A y \in query.initial : PlacesFrom(aut, y, w)[Len(w)] \in States
    <3>1. query.initial \subseteq States /\ Len(w) \in 0 .. Len(w)
      BY CallTypes DEF Supports
    <3>2. QED
      BY <3>1, CallTypes, PlacesFromSound
  <2>2. Indistinct(x, w) \subseteq States
    BY <2>1 DEF Indistinct, Agreeing
  <2>3. PlacesFrom(aut, x, w)[Len(w)] \in Indistinct(x, w)
    BY DEF Indistinct, Agreeing
  <2>4. QED
    BY <2>2, <2>3 DEF Supports
<1>2. query.initial # {}
  BY CallTypes
<1>3. QED
  BY <1>1, <1>2 DEF Leaves, Partitions

LEMMA FiniteSupports == \A s \in Supports : /\ IsFiniteSet(s) /\ Cardinality(s) \in Nat
                                            /\ Cardinality(s) <= Cardinality(States)
                                            /\ Cardinality(States) \in Nat
  BY GraphAssumption, FS_Subset, FS_CardinalityType DEF Supports

\* The largest of a partition is one of its supports.
LEMMA LargestOf ==
  ASSUME NEW partition \in Partitions, partition # {}
  PROVE  /\ LargestIn(partition) \in Nat
         /\ \A s \in partition : Cardinality(s) <= LargestIn(partition)
         /\ \E s \in partition : LargestIn(partition) = Cardinality(s)
<1>1. \A s \in partition : s \in Supports
  BY DEF Partitions
<1>2. PICK N \in Nat : N = Cardinality(States)
  BY GraphAssumption, FS_CardinalityType
<1>3. \A s \in partition : Cardinality(s) \in Nat /\ Cardinality(s) <= N
  BY <1>1, <1>2, FiniteSupports
<1> DEFINE C == {Cardinality(s) : s \in partition}
           Spare == {N - c : c \in C}
<1>4. C # {} /\ C \subseteq Nat /\ \A c \in C : c <= N
  BY <1>3
<1>5. \E m \in C : \A c \in C : m >= c
  <2> HIDE DEF C
  <2>1. Spare # {} /\ Spare \subseteq Nat
    <3>1. \A c \in C : N - c \in Nat
      BY <1>4
    <3>2. QED
      BY <1>4, <3>1
  <2>2. PICK d \in Spare : \A e \in Spare : d <= e
    <3> HIDE DEF Spare
    <3>1. QED
      BY <2>1, LeastNatural
  <2>3. PICK m \in C : d = N - m
    OBVIOUS
  <2>4. ASSUME NEW c \in C PROVE m >= c
    <3>1. N - m <= N - c
      BY <2>2, <2>3
    <3>2. QED
      BY <1>4, <3>1
  <2>5. QED
    BY <2>4
<1>6. LargestIn(partition) = Max(C)
  BY DEF LargestIn
<1>7. Max(C) \in C /\ \A c \in C : Max(C) >= c
  <2> HIDE DEF C
  <2>1. QED
    BY <1>5 DEF Max
<1>8. QED
  BY <1>4, <1>6, <1>7

-----------------------------------------------------------------------------
(* The tree of the search, and the words read back from it. *)

\* Each node but the first is what an action leaves of an earlier one.
TreeOf(queue) ==
  /\ queue \in Seq(NodeRecords) /\ queue # <<>> /\ queue[1].partition = {query.initial}
  /\ \A i \in 2 .. Len(queue) :
       /\ queue[i].parent \in 1 .. (i - 1) /\ queue[i].act \in Range(letters)
       /\ queue[i].partition = Parted(queue[queue[i].parent].partition, queue[i].act)

LEMMA TreeHangs ==
  ASSUME NEW queue, TreeOf(queue)
  PROVE  Hanging(queue, Range(letters)) /\ Len(queue) \in Nat \ {0}
BY DEF TreeOf, Hanging

\* A word is read back along the height of its node.
LEMMA PathReads ==
  ASSUME NEW queue, TreeOf(queue), NEW i \in 1 .. Len(queue)
  PROVE  PathIn(queue, i) = ReadBack(queue, i)
<1>1. Len(queue) \in Nat /\ Rising(UpOf(queue), Len(queue))
  BY TreeHangs, HangingRises
<1>2. PICK k \in 0 .. (i - 1) : IsHeight(UpOf(queue), Len(queue), i, k)
  BY <1>1, HeightExists
<1>3. k \in Nat /\ Height(queue, i) = k
  BY <1>1, <1>2, HeightIs
<1> DEFINE R == {n \in 0 .. Len(queue) : Onward(UpOf(queue), i, n) = 1}
<1>4. R = Rises(UpOf(queue), Len(queue), i)
  BY DEF Rises
<1>5. R \subseteq Nat /\ k \in R /\ \A j \in R : k <= j
  BY <1>2, <1>4 DEF IsHeight
<1>6. PathIn(queue, i) = [n \in 1 .. Min(R) |-> queue[Onward(UpOf(queue), i, Min(R) - n)].act]
  BY DEF PathIn, UpOf
<1> HIDE DEF R
<1>7. Min(R) = k
  <2>1. \A x \in R : (\A y \in R : x <= y) => x = k
    BY <1>5
  <2>2. QED
    BY <1>5, <2>1 DEF Min
<1>8. QED
  BY <1>3, <1>6, <1>7 DEF ReadBack, Upward

Replays(queue, i) ==
  PathIn(queue, i) \in Seq(Range(letters)) /\ queue[i].partition = Leaves(PathIn(queue, i))

\* The partition of a node is that of the word that is read back for it.
LEMMA PathsSound ==
  ASSUME query \in Queries, NEW queue, TreeOf(queue)
  PROVE  \A i \in 1 .. Len(queue) : Replays(queue, i)
<1> DEFINE L == Len(queue)
           S == {i \in 1 .. L : Replays(queue, i)}
<1>1. Hanging(queue, Range(letters)) /\ L \in Nat \ {0}
  BY TreeHangs
<1>2. 1 \in S
  <2>1. PathIn(queue, 1) = <<>> /\ 1 \in 1 .. L
    BY <1>1, PathReads, ReadBackRoot
  <2>2. queue[1].partition = Leaves(<<>>)
    BY LeavesNothing DEF TreeOf
  <2>3. <<>> \in Seq(Range(letters))
    OBVIOUS
  <2>4. QED
    BY <2>1, <2>2, <2>3 DEF Replays
<1>3. ASSUME NEW i \in 2 .. L, queue[i].parent \in S PROVE i \in S
  <2>1. PICK p \in 1 .. L : p = queue[i].parent /\ Replays(queue, p)
    BY <1>3
  <2>2. PICK a \in Range(letters) : a = queue[i].act
    BY DEF TreeOf
  <2>3. queue[i].partition = Parted(queue[p].partition, a)
    BY <2>1, <2>2 DEF TreeOf
  <2>4. PICK v \in Seq(Range(letters)) : v = PathIn(queue, p) /\ queue[p].partition = Leaves(v)
    BY <2>1 DEF Replays
  <2>5. i \in 1 .. L
    BY <1>1
  <2>6. PathIn(queue, i) = Append(v, a)
    BY <1>1, <2>1, <2>2, <2>4, <2>5, PathReads, ReadBackNext
  <2>7. Append(v, a) \in Seq(Range(letters))
    OBVIOUS
  <2>8. Leaves(Append(v, a)) = Parted(Leaves(v), a)
    BY <2>2, <2>4, CallTypes, LeavesNext
  <2>9. QED
    BY <2>3, <2>4, <2>5, <2>6, <2>7, <2>8 DEF Replays
<1> HIDE DEF S
<1>4. \A i \in 1 .. L : i \in S
  BY <1>1, <1>2, <1>3, DownTheTree
<1>5. QED
  BY <1>4 DEF S

\* The node of a partition hangs from the node that was parted.
LEMMA TreeAppended ==
  ASSUME query \in Queries, TreeOf(nodes), head \in 1 .. Len(nodes), letter \in 1 .. Len(letters)
  PROVE  LET q == Append(nodes, Node(Successor, head, letters[letter]))
         IN /\ TreeOf(q) /\ Len(q) = Len(nodes) + 1
            /\ \A i \in 1 .. Len(nodes) : q[i] = nodes[i]
            /\ q[Len(nodes) + 1].parent = head /\ q[Len(nodes) + 1].partition = Successor
            /\ q[Len(nodes) + 1].act = letters[letter]
<1>1. PICK a : a = letters[letter] /\ a \in Range(letters) /\ a \in Actions
  BY CallTypes
<1>2. PICK e : e = Node(Successor, head, letters[letter])
  OBVIOUS
<1>3. e.parent = head /\ e.act = a /\ e.partition = Parted(nodes[head].partition, a)
  BY <1>1, <1>2 DEF Node, Successor
<1>4. PICK l \in Nat \ {0} : l = Len(nodes)
  BY TreeHangs
<1>5. nodes \in Seq(NodeRecords)
  BY DEF TreeOf
<1>6. e \in NodeRecords
  <2>1. nodes[head] \in NodeRecords
    BY <1>5
  <2>2. nodes[head].partition \in Partitions
    BY <2>1 DEF NodeRecords
  <2>3. Successor \in Partitions
    BY <1>1, <2>2, PartedType DEF Successor
  <2>4. head \in Nat
    BY <1>4
  <2>5. QED
    BY <1>1, <1>2, <2>3, <2>4 DEF Node, NodeRecords
<1>7. PICK q \in Seq(NodeRecords) : q = Append(nodes, e)
  <2>1. Append(nodes, e) \in Seq(NodeRecords)
    BY <1>5, <1>6
  <2>2. QED
    BY <2>1
<1>8. Len(q) = l + 1 /\ q[l + 1] = e /\ \A i \in 1 .. l : q[i] = nodes[i]
  BY <1>4, <1>5, <1>7
<1>9. ASSUME NEW i \in 2 .. l + 1
      PROVE  /\ q[i].parent \in 1 .. (i - 1) /\ q[i].act \in Range(letters)
             /\ q[i].partition = Parted(q[q[i].parent].partition, q[i].act)
  <2>1. CASE i = l + 1
    <3>1. q[i] = e /\ head \in 1 .. l /\ q[head] = nodes[head] /\ head \in 1 .. (i - 1)
      BY <1>4, <1>8, <2>1
    <3>2. QED
      BY <1>1, <1>3, <3>1
  <2>2. CASE i \in 2 .. l
    <3>1. PICK r : r = nodes[i] /\ q[i] = r
      BY <1>8, <2>2
    <3>2. /\ r.parent \in 1 .. (i - 1) /\ r.act \in Range(letters)
          /\ r.partition = Parted(nodes[r.parent].partition, r.act)
      BY <1>4, <2>2, <3>1 DEF TreeOf
    <3>3. q[r.parent] = nodes[r.parent]
      BY <1>8, <2>2, <3>2
    <3>4. QED
      BY <3>1, <3>2, <3>3
  <2>3. QED
    BY <1>4, <2>1, <2>2
<1>10. q[1].partition = {query.initial} /\ q # <<>>
  BY <1>4, <1>8 DEF TreeOf
<1>11. TreeOf(q)
  BY <1>7, <1>8, <1>9, <1>10 DEF TreeOf
<1>12. /\ Len(q) = Len(nodes) + 1 /\ \A i \in 1 .. Len(nodes) : q[i] = nodes[i]
       /\ q[Len(nodes) + 1].parent = head /\ q[Len(nodes) + 1].partition = Successor
       /\ q[Len(nodes) + 1].act = letters[letter]
  BY <1>1, <1>3, <1>4, <1>8 DEF Successor
<1>13. q = Append(nodes, Node(Successor, head, letters[letter]))
  BY <1>2, <1>7
<1>14. QED
  BY <1>11, <1>12, <1>13

-----------------------------------------------------------------------------
(* The phases hand over what they should. *)

PhaseInv ==
  /\ BudgetInv
  /\ word \in Seq(Range(letters))
  /\ outcome \in {"NONE", "PLAN", "ALREADY_SATISFIED", "NO_PLAN",
                  "RESOURCE_BOUND", "INVALID_MODEL", "INVALID_ARGUMENT"}
  /\ at = "search" => TreeOf(nodes)
  /\ RefusedOnlyForRecords
  /\ outcome \in {"PLAN", "ALREADY_SATISFIED"} => LargestIn(Leaves(word)) <= query.bound

LEMMA CallKept ==
  ASSUME query' = query
  PROVE  /\ letters' = letters /\ aut' = aut /\ Candidates' = Candidates
         /\ \A w : Leaves(w)' = Leaves(w)
<1>1. letters' = letters /\ aut' = aut
  BY DEF letters, aut
<1>2. QED
  BY <1>1 DEF Candidates, Leaves, Indistinct

\* A step that leaves the word and the answer alone.
LEMMA PhaseGoesOn ==
  ASSUME PhaseInv, BudgetInv', UNCHANGED <<query, word, outcome>>, outcome = "NONE",
         at' = "search" => TreeOf(nodes)'
  PROVE  PhaseInv'
<1>1. letters' = letters
  BY CallKept
<1>2. QED
  BY <1>1 DEF PhaseInv, RefusedOnlyForRecords

\* A call that ends without a plan has the word that it had, or none.
LEMMA PhaseEnds ==
  ASSUME PhaseInv, BudgetInv', NEW result, Finish(result), word' \in {word, <<>>},
         result \in {"NO_PLAN", "RESOURCE_BOUND", "INVALID_MODEL", "INVALID_ARGUMENT"},
         result = "INVALID_MODEL" => Malformed \in Range(Candidates)
  PROVE  PhaseInv'
<1>1. query' = query /\ outcome' = result /\ at' = "done"
  BY DEF Finish
<1>2. letters' = letters /\ Candidates' = Candidates
  BY <1>1, CallKept
<1>3. word' \in Seq(Range(letters))
  <2>1. word \in Seq(Range(letters)) /\ <<>> \in Seq(Range(letters))
    BY DEF PhaseInv
  <2>2. word' = word \/ word' = <<>>
    OBVIOUS
  <2>3. QED
    BY <2>1, <2>2
<1>4. QED
  BY <1>1, <1>2, <1>3 DEF PhaseInv, RefusedOnlyForRecords

\* The replay of a word that does accepts it.
LEMMA PhaseReplays ==
  ASSUME PhaseInv, BudgetInv', NEW w \in Seq(Range(letters)),
         NEW result \in {"PLAN", "ALREADY_SATISFIED"}, Finalize(w, result),
         LargestIn(Leaves(w)) <= query.bound
  PROVE  PhaseInv' /\ word' = w /\ outcome' = result
<1>1. query \in Queries /\ w \in Seq(Actions)
  BY CallTypes DEF PhaseInv, BudgetInv, SearchInv, SearchTypes
<1>2. Worst(Branches(w)) <= query.bound
  BY <1>1, WorstIs
<1>3. word' = w /\ Finish(result)
  BY <1>2 DEF Finalize
<1>4. query' = query /\ outcome' = result /\ at' = "done"
  BY <1>3 DEF Finish
<1>5. letters' = letters /\ Leaves(w)' = Leaves(w)
  BY <1>4, CallKept
<1>6. Leaves(word)' = Leaves(w)
  <2>1. aut' = aut /\ query'.initial = query.initial
    BY <1>4, CallKept
  <2>2. QED
    BY <1>3, <2>1 DEF Leaves, Indistinct
<1>7. QED
  BY <1>3, <1>4, <1>5, <1>6 DEF PhaseInv, RefusedOnlyForRecords

LEMMA PhaseStartSound ==
  ASSUME PhaseInv, Start, BudgetInv'
  PROVE  PhaseInv'
<1>1. query \in Queries /\ at = "start" /\ outcome = "NONE"
  BY DEF PhaseInv, BudgetInv, SearchInv, SearchTypes, Start
<1>2. CASE query.bound > Cardinality(query.initial)
  <2>1. CASE Finish("INVALID_ARGUMENT") /\ UNCHANGED word
    BY <2>1, PhaseEnds
  <2>2. CASE ~(Finish("INVALID_ARGUMENT") /\ UNCHANGED word)
    <3>1. query.bound \in Nat /\ Cardinality(query.initial) \in Nat
      BY <1>1, QueryTypes, CallTypes, FiniteSupports
    <3>2. query.bound # Cardinality(query.initial) /\ Satisfied
      BY <1>2, <3>1 DEF Satisfied
    <3>3. QED
      BY <2>2, <3>2 DEF Start
  <2>3. QED
    BY <2>1, <2>2
<1>3. CASE query.bound = Cardinality(query.initial) /\ Finalize(<<>>, "ALREADY_SATISFIED")
  <2>1. LargestIn(Leaves(<<>>)) = Cardinality(query.initial)
    BY <1>1, LeavesNothing, CallTypes, OneSupport
  <2>2. Cardinality(query.initial) \in Nat
    BY <1>1, CallTypes, FiniteSupports
  <2>3. <<>> \in Seq(Range(letters)) /\ LargestIn(Leaves(<<>>)) <= query.bound
    BY <1>3, <2>1, <2>2
  <2>4. QED
    BY <1>3, <2>3, PhaseReplays
<1>4. CASE at' = "heuristic" /\ UNCHANGED <<query, word, letter, outcome>>
  BY <1>1, <1>4, PhaseGoesOn
<1>5. QED
  BY <1>2, <1>3, <1>4 DEF Start

\* What sg_best_resolution chooses is the word of a pair that has one.
LEMMA ResolvingWord ==
  ASSUME query \in Queries, NEW w \in Resolving(Candidates)
  PROVE  \E p \in Pairs : /\ p \subseteq query.initial /\ p \notin Diagonal
                          /\ PairWord(aut, "resolution", query.records, p).state = "found"
                          /\ w = PairWord(aut, "resolution", query.records, p).word
                          /\ query.records[p].dist # None
                          /\ Worst(Branches(w)) < Cardinality(query.initial)
                          /\ \E d \in Nat : \E f : w = [n \in 1 .. d |-> f[n]]
<1>1. PICK p \in Available(Candidates) :
        w = Candidates[p].word /\ Worst(Branches(Candidates[p].word)) < Cardinality(query.initial)
  BY DEF Resolving
<1>2. p \in DOMAIN Candidates /\ Candidates[p].state = "found"
  BY <1>1 DEF Available
<1>3. /\ p \in Pairs /\ p \subseteq query.initial /\ p \notin Diagonal
      /\ Candidates[p] = PairWord(aut, "resolution", query.records, p)
  BY <1>2 DEF Candidates
<1>4. query.records \in [Pairs -> Records]
  BY DisambiguationAssumption
<1> DEFINE d == query.records[p].dist
           v == [n \in 1 .. d |-> query.records[Walked(query.records, p, n - 1)].act]
<1>5. d # None /\ PairWord(aut, "resolution", query.records, p) = Found(v)
  <2>1. Malformed.state # "found" /\ Missing.state # "found"
    BY DEF Malformed, Missing
  <2>2. WellFormed(aut, "resolution", query.records, p) /\ d # None
    BY <1>2, <1>3, <2>1 DEF PairWord
  <2>3. QED
    BY <2>2 DEF PairWord
<1>6. d \in Nat
  BY <1>3, <1>4, <1>5 DEF Records, Distances
<1>7. w = v
  <2> HIDE DEF v, d
  <2>1. Found(v).word = v
    BY DEF Found
  <2>2. QED
    BY <1>1, <1>3, <1>5, <2>1
<1>8. \E f : w = [n \in 1 .. d |-> f[n]]
  <2>1. v = [n \in 1 .. d |-> v[n]]
    OBVIOUS
  <2> HIDE DEF v, d
  <2>2. w = [n \in 1 .. d |-> v[n]]
    BY <1>7, <2>1
  <2>3. QED
    BY <2>2
<1>9. \E e \in Nat : \E f : w = [n \in 1 .. e |-> f[n]]
  <2> HIDE DEF v, d
  <2>1. QED
    BY <1>6, <1>8
<1>10. PairWord(aut, "resolution", query.records, p).state = "found"
       /\ w = PairWord(aut, "resolution", query.records, p).word
       /\ query.records[p].dist # None
  BY <1>1, <1>2, <1>3, <1>5
<1> HIDE DEF v, d
<1>11. QED
  BY <1>1, <1>3, <1>9, <1>10

\* The word of the records is used when its letters are permitted.
LEMMA PhasePlan ==
  ASSUME PhaseInv, HeuristicPlan, BudgetInv'
  PROVE  PhaseInv' /\ nodes' = nodes
<1>1. query \in Queries
  BY DEF PhaseInv, BudgetInv, SearchInv, SearchTypes
<1>2. PICK w \in Resolving(Candidates) :
        Executable(w) /\ Worst(Branches(w)) <= query.bound /\ Finalize(w, "PLAN")
  BY DEF HeuristicPlan
<1>3. PICK d \in Nat : \E f : w = [n \in 1 .. d |-> f[n]]
  BY <1>1, ResolvingWord
<1>4. w \in Seq(Range(letters))
  <2>1. \A n \in 1 .. d : w[n] \in Range(letters)
    <3>1. ASSUME NEW n \in 1 .. d PROVE w[n] \in Range(letters)
      <4>1. n \in DOMAIN w
        BY <1>3
      <4>2. w[n] \in Range(w)
        BY <4>1 DEF Range
      <4>3. QED
        BY <1>2, <4>2 DEF Executable
    <3>2. QED
      BY <3>1
  <2>2. PICK f : w = [n \in 1 .. d |-> f[n]]
    BY <1>3
  <2>3. w \in [1 .. d -> Range(letters)]
    BY <2>1, <2>2
  <2>4. QED
    BY <2>3
<1>5. LargestIn(Leaves(w)) <= query.bound
  <2>1. w \in Seq(Actions)
    BY <1>1, <1>4, CallTypes
  <2>2. QED
    BY <1>1, <1>2, <2>1, WorstIs
<1>6. QED
  BY <1>2, <1>4, <1>5, PhaseReplays DEF HeuristicPlan

\* The search starts with all initial states in one support.
LEMMA PhaseSearchStart ==
  ASSUME PhaseInv, SearchStart, BudgetInv'
  PROVE  PhaseInv'
<1>1. /\ query \in Queries /\ outcome = "NONE" /\ UNCHANGED <<query, word, outcome>>
      /\ at' = "search" /\ nodes' = <<Node({query.initial}, 0, None)>>
  BY DEF PhaseInv, BudgetInv, SearchInv, SearchTypes, SearchStart, Origin
<1>2. nodes' \in Seq(NodeRecords)
  BY DEF BudgetInv, SearchInv, SearchTypes
<1>3. nodes'[1].partition = {query'.initial}
  BY <1>1 DEF Node
<1>4. Len(nodes') = 1 /\ nodes' # <<>>
  BY <1>1
<1>5. \A i \in 2 .. Len(nodes') : FALSE
  BY <1>4
<1>6. TreeOf(nodes)'
  BY <1>2, <1>3, <1>4, <1>5 DEF TreeOf
<1>7. QED
  BY <1>1, <1>6, PhaseGoesOn

\* A queue that stays, and the call with it.
LEMMA TreeStays ==
  ASSUME NEW q, TreeOf(q), query' = query, nodes' = q
  PROVE  TreeOf(nodes)'
<1>1. letters' = letters /\ aut' = aut
  BY DEF letters, aut
<1>2. PICK i : i = query.initial /\ query'.initial = i
  OBVIOUS
<1>3. PICK A, m : A = Range(letters) /\ m = aut
  OBVIOUS
<1>4. /\ q \in Seq(NodeRecords) /\ q # <<>> /\ q[1].partition = {i}
      /\ \A k \in 2 .. Len(q) :
           /\ q[k].parent \in 1 .. (k - 1) /\ q[k].act \in A
           /\ q[k].partition = PartsOf(m, q[q[k].parent].partition, q[k].act)
  <2>1. \A c, a : Parted(c, a) = PartsOf(aut, c, a)
    BY DEF Parted, PartsOf
  <2>2. QED
    BY <1>2, <1>3, <2>1 DEF TreeOf
<1>5. A = Range(letters') /\ m = aut'
  BY <1>1, <1>3
<1>6. \A k \in 2 .. Len(nodes') :
        /\ nodes'[k].parent \in 1 .. (k - 1) /\ nodes'[k].act \in Range(letters')
        /\ nodes'[k].partition = PartsOf(aut', nodes'[nodes'[k].parent].partition, nodes'[k].act)
  BY <1>4, <1>5
<1>7. ASSUME NEW k \in 2 .. Len(nodes')
      PROVE  Parted(nodes[nodes[k].parent].partition, nodes[k].act)'
               = PartsOf(aut', nodes'[nodes'[k].parent].partition, nodes'[k].act)
  BY DEF Parted, PartsOf
<1>8. QED
  BY <1>2, <1>4, <1>6, <1>7 DEF TreeOf

LEMMA PhaseExpand ==
  ASSUME PhaseInv, SearchExpand \/ SearchKnown, BudgetInv'
  PROVE  PhaseInv'
<1>1. /\ at = "search" /\ outcome = "NONE" /\ UNCHANGED <<query, nodes, word, outcome>>
  BY DEF PhaseInv, BudgetInv, SearchInv, SearchExpand, SearchKnown, Between
<1>2. TreeOf(nodes)
  BY <1>1 DEF PhaseInv
<1>3. PICK q : q = nodes
  OBVIOUS
<1>4. TreeOf(nodes)'
  BY <1>1, <1>2, <1>3, TreeStays
<1>5. QED
  BY <1>1, <1>4, PhaseGoesOn

\* While the letters of a node are applied.
LEMMA InSearch ==
  ASSUME PhaseInv, at = "search", letter <= Len(letters)
  PROVE  /\ query \in Queries /\ TreeOf(nodes) /\ Searched
         /\ head \in 1 .. Len(nodes) /\ letter \in 1 .. Len(letters)
<1>1. query \in Queries /\ TreeOf(nodes) /\ Searched /\ SearchTypes
  BY DEF PhaseInv, BudgetInv, SearchInv, SearchTypes
<1>2. Len(letters) \in Nat
  BY <1>1, QueryTypes
<1>3. QED
  BY <1>1, <1>2 DEF Searched, SearchTypes, Expanding

LEMMA PhaseNew ==
  ASSUME PhaseInv, SearchNew, BudgetInv'
  PROVE  PhaseInv'
<1>1. /\ at = "search" /\ outcome = "NONE" /\ UNCHANGED <<query, word, outcome>>
      /\ letter <= Len(letters)
      /\ nodes' = Append(nodes, Node(Successor, head, letters[letter]))
  BY DEF PhaseInv, BudgetInv, SearchInv, SearchNew, Enqueued
<1>2. PICK q : q = Append(nodes, Node(Successor, head, letters[letter]))
  OBVIOUS
<1>3. TreeOf(q)
  BY <1>1, <1>2, InSearch, TreeAppended
<1>4. TreeOf(nodes)'
  BY <1>1, <1>2, <1>3, TreeStays
<1>5. QED
  BY <1>1, <1>4, PhaseGoesOn

\* The word of the node that will do is read back, and does.
LEMMA PhaseFound ==
  ASSUME PhaseInv, SearchFound, BudgetInv'
  PROVE  /\ PhaseInv' /\ outcome' = "PLAN"
         /\ \E q : /\ q = Append(nodes, Node(Successor, head, letters[letter]))
                   /\ word' = ReadBack(q, Len(nodes) + 1)
<1>1. /\ at = "search" /\ letter <= Len(letters) /\ LargestIn(Successor) <= query.bound
      /\ nodes' = Append(nodes, Node(Successor, head, letters[letter]))
      /\ Finalize(PathIn(nodes', Len(nodes')), "PLAN")
  BY DEF SearchFound
<1>2. query \in Queries
  BY <1>1, InSearch
<1>3. PICK q : q = Append(nodes, Node(Successor, head, letters[letter]))
  OBVIOUS
<1>4. TreeOf(q) /\ Len(q) = Len(nodes) + 1 /\ q[Len(nodes) + 1].partition = Successor
  BY <1>1, <1>3, InSearch, TreeAppended
<1>5. PICK n \in Nat : n = Len(nodes) + 1 /\ n \in 1 .. Len(q) /\ Len(q) = n
  <2>1. Len(q) \in Nat \ {0}
    BY <1>4, TreeHangs
  <2>2. QED
    BY <1>4, <2>1
<1>6. PICK w \in Seq(Range(letters)) : w = PathIn(q, n) /\ Leaves(w) = Successor
  BY <1>2, <1>4, <1>5, PathsSound DEF Replays
<1>7. Finalize(w, "PLAN") /\ LargestIn(Leaves(w)) <= query.bound
  BY <1>1, <1>3, <1>5, <1>6
<1>8. PhaseInv' /\ word' = w /\ outcome' = "PLAN"
  BY <1>7, PhaseReplays
<1>9. w = ReadBack(q, n)
  BY <1>4, <1>5, <1>6, PathReads
<1>10. QED
  BY <1>3, <1>5, <1>8, <1>9

LEMMA PhaseStep ==
  ASSUME PhaseInv, [Next]_vars
  PROVE  PhaseInv'
<1>1. BudgetInv'
  BY StepBudget DEF PhaseInv
<1>2. at # "done" => outcome = "NONE"
  BY DEF PhaseInv, BudgetInv, SearchInv
<1>3. CASE HeuristicRefused
  <2>1. word' \in {word, <<>>} /\ Finish("INVALID_MODEL") /\ Malformed \in Range(Candidates)
    BY <1>3 DEF HeuristicRefused
  <2>2. QED
    BY <1>1, <2>1, PhaseEnds
<1>4. CASE HeuristicShort \/ HeuristicNone
  <2>1. UNCHANGED <<query, word, outcome>> /\ outcome = "NONE" /\ at' = "queue"
    BY <1>2, <1>4 DEF HeuristicShort, HeuristicNone
  <2>2. QED
    BY <1>1, <2>1, PhaseGoesOn
<1>5. CASE SearchBound
  BY <1>1, <1>5, PhaseEnds DEF SearchBound
<1>6. CASE SearchExhausted
  BY <1>1, <1>6, PhaseEnds DEF SearchExhausted
<1>7. CASE UNCHANGED vars
  <2>1. letters' = letters /\ Candidates' = Candidates /\ aut' = aut
    BY <1>7, CallKept DEF vars
  <2>2. PICK q : q = nodes
    OBVIOUS
  <2>3. TreeOf(nodes) => TreeOf(nodes)'
    BY <1>7, <2>2, TreeStays DEF vars
  <2>4. PICK w : w = word
    OBVIOUS
  <2>5. query' = query /\ word' = w
    BY <1>7, <2>4 DEF vars
  <2>6. Leaves(word)' = Leaves(w)
    <3>1. query'.initial = query.initial
      BY <2>5
    <3>2. QED
      BY <2>1, <2>5, <3>1 DEF Leaves, Indistinct
  <2>7. QED
    BY <1>1, <1>7, <2>1, <2>3, <2>4, <2>6 DEF PhaseInv, RefusedOnlyForRecords, vars
<1>8. QED
  BY <1>1, <1>3, <1>4, <1>5, <1>6, <1>7, PhaseStartSound, PhasePlan, PhaseSearchStart,
     PhaseExpand, PhaseNew, PhaseFound DEF Next, Returned

LEMMA PhaseStarts == Init => PhaseInv
<1> SUFFICES ASSUME Init PROVE PhaseInv
  OBVIOUS
<1>1. SearchInv
  BY StartsSound
<1>2. query.budget \in Nat /\ expansions = 0 /\ outcome = "NONE" /\ at = "start" /\ word = <<>>
  BY <1>1, QueryTypes DEF Init, SearchInv, SearchTypes
<1>3. BudgetInv
  BY <1>1, <1>2 DEF BudgetInv
<1>4. QED
  BY <1>2, <1>3 DEF PhaseInv, RefusedOnlyForRecords

\* Every partition that the search works on is the one its word leaves, every
\* word keeps to the permitted actions, both phases spend one budget, and a call
\* fails only for malformed records: the final replay of
\* sg_disambiguation_finalize never refuses what the planner found.
THEOREM PhasesAlwaysSound == Spec => []PhasesSound
<1>1. PhaseInv => PhasesSound
  <2> SUFFICES ASSUME PhaseInv PROVE PhasesSound
    OBVIOUS
  <2>1. query \in Queries
    BY DEF PhaseInv, BudgetInv, SearchInv, SearchTypes
  <2>2. word \in Seq(Actions) /\ WordPermitted
    BY <2>1, CallTypes DEF PhaseInv, WordPermitted
  <2>3. TypeOK
    BY <2>2 DEF PhaseInv, BudgetInv, SearchInv, SearchTypes, NodeRecords, TypeOK
  <2>4. BudgetShared
    BY DEF PhaseInv, BudgetInv, BudgetShared
  <2>5. PartitionsReplay
    <3>1. ASSUME at = "search", NEW i \in DOMAIN nodes
          PROVE  nodes[i].partition = {Indistinct(x, PathIn(nodes, i)) : x \in query.initial}
      <4>1. TreeOf(nodes) /\ i \in 1 .. Len(nodes)
        BY <3>1 DEF PhaseInv, TreeOf
      <4>2. QED
        BY <2>1, <4>1, PathsSound DEF Replays, Leaves
    <3>2. QED
      BY <3>1 DEF PartitionsReplay
  <2>6. QED
    BY <2>2, <2>3, <2>4, <2>5 DEF PhasesSound, PhaseInv
<1>2. QED
  BY <1>1, PhaseStarts, PhaseStep, PTL DEF Spec

\* A plan keeps its promise for every automaton, records and bound: wherever a
\* run started, its outputs along the word leave at most bound states.
THEOREM PlansAlwaysResolve == Spec => []PlanResolves
<1>1. PhaseInv => PlanResolves
  <2> SUFFICES ASSUME PhaseInv, outcome \in {"PLAN", "ALREADY_SATISFIED"}, NEW x \in query.initial
               PROVE  Cardinality(Indistinct(x, word)) <= query.bound
    BY DEF PlanResolves
  <2>1. query \in Queries /\ word \in Seq(Range(letters))
    BY DEF PhaseInv, BudgetInv, SearchInv, SearchTypes
  <2>2. Leaves(word) \in Partitions /\ Leaves(word) # {}
    BY <2>1, CallTypes, LeavesType
  <2>3. PICK s : s = Indistinct(x, word) /\ s \in Leaves(word)
    BY DEF Leaves
  <2>4. LargestIn(Leaves(word)) \in Nat /\ Cardinality(s) <= LargestIn(Leaves(word))
    BY <2>2, <2>3, LargestOf
  <2>5. Cardinality(s) \in Nat /\ query.bound \in Nat
    BY <2>1, <2>2, <2>3, QueryTypes, FiniteSupports DEF Partitions
  <2>6. LargestIn(Leaves(word)) <= query.bound
    BY DEF PhaseInv
  <2>7. QED
    BY <2>3, <2>4, <2>5, <2>6
<1>2. QED
  BY <1>1, PhaseStarts, PhaseStep, PTL DEF Spec

-----------------------------------------------------------------------------
(* The search goes by breadth. *)

Held == [i \in 1 .. Len(nodes) |-> nodes[i].partition]
Succ == [c \in Partitions \X Range(letters) |-> Parted(c[1], c[2])]

BreadthInv ==
  /\ PhaseInv
  /\ at \in {"start", "heuristic", "queue"} => nodes = <<>>
  /\ at = "search" => Breadth(nodes, Held, Succ, letters, head, letter)
  /\ SearchPlanShortest

LEMMA SuccSound ==
  ASSUME query \in Queries
  PROVE  /\ Succ \in [Partitions \X Range(letters) -> Partitions]
         /\ \A c \in Partitions, a \in Range(letters) : Succ[<<c, a>>] = Parted(c, a)
<1>1. \A c \in Partitions, a \in Range(letters) : Parted(c, a) \in Partitions
  BY CallTypes, PartedType
<1>2. QED
  BY <1>1 DEF Succ

LEMMA SuccKept ==
  ASSUME query' = query
  PROVE  letters' = letters /\ Succ' = Succ
<1>1. letters' = letters /\ aut' = aut
  BY DEF letters, aut
<1>2. QED
  BY <1>1 DEF Succ, Parted

LEMMA TreeHolds ==
  ASSUME query \in Queries, TreeOf(nodes)
  PROVE  /\ \A i \in 1 .. Len(nodes) : Held[i] \in Partitions /\ Held[i] = nodes[i].partition
         /\ Held[1] = {query.initial}
<1>1. \A i \in 1 .. Len(nodes) : Held[i] = nodes[i].partition
  BY DEF Held
<1>2. ASSUME NEW i \in 1 .. Len(nodes) PROVE nodes[i].partition \in Partitions
  <2>1. nodes[i] \in NodeRecords
    BY DEF TreeOf
  <2>2. QED
    BY <2>1 DEF NodeRecords
<1>3. 1 \in 1 .. Len(nodes)
  BY TreeHangs
<1>4. QED
  BY <1>1, <1>2, <1>3 DEF TreeOf

\* What words of at most n letters lead to, layer by layer.
LEMMA WithinIs ==
  ASSUME query \in Queries, NEW n \in Nat
  PROVE  \E f \in [0 .. n -> SUBSET Partitions] :
           /\ Spreads(f, {query.initial}, Succ, Range(letters), n) /\ Within(n) = f[n]
<1> DEFINE A == Range(letters)
           root == {query.initial}
           Reach(T) == UNION {{Parted(c, a) : a \in A} : c \in T}
           Is(g) == g = [k \in 0 .. n |-> {root} \cup IF k = 0 THEN {} ELSE Reach(g[k - 1])]
<1>1. root \in Partitions /\ Succ \in [Partitions \X A -> Partitions]
  BY CallTypes, SuccSound DEF Partitions
<1>2. PICK f \in [0 .. n -> SUBSET Partitions] : Spreads(f, root, Succ, A, n)
  <2> HIDE DEF root
  <2>1. QED
    BY <1>1, SpreadExists
<1>3. ASSUME NEW T \in SUBSET Partitions PROVE Grown(root, Succ, A, T) = {root} \cup Reach(T)
  <2> DEFINE By(c) == {Succ[<<c, a>>] : a \in A}
             To(c) == {Parted(c, a) : a \in A}
  <2>1. \A c \in T : By(c) = To(c)
    BY SuccSound
  <2> HIDE DEF By, To
  <2>2. {By(c) : c \in T} = {To(c) : c \in T}
    BY <2>1
  <2>3. QED
    BY <2>2 DEF Grown, By, To
<1> DEFINE Goes(g) == g[0] = {root} /\ \A k \in 1 .. n : g[k] = {root} \cup Reach(g[k - 1])
<1>4. ASSUME NEW g, Is(g) PROVE Goes(g)
  <2> HIDE DEF Reach, root
  <2>1. \A k \in 0 .. n : g[k] = {root} \cup IF k = 0 THEN {} ELSE Reach(g[k - 1])
    BY <1>4
  <2>2. g[0] = {root}
    BY <2>1
  <2>3. ASSUME NEW k \in 1 .. n PROVE g[k] = {root} \cup Reach(g[k - 1])
    <3>1. k \in 0 .. n /\ k # 0
      OBVIOUS
    <3>2. QED
      BY <2>1, <3>1
  <2>4. QED
    BY <2>2, <2>3
<1>5. Is(f)
  <2> DEFINE h == [k \in 0 .. n |-> {root} \cup IF k = 0 THEN {} ELSE Reach(f[k - 1])]
  <2>1. ASSUME NEW k \in 0 .. n PROVE f[k] = h[k]
    <3>1. CASE k = 0
      <4>1. f[0] = {root}
        BY <1>2 DEF Spreads
      <4> HIDE DEF Reach, root
      <4>2. QED
        BY <3>1, <4>1
    <3>2. CASE k # 0
      <4>1. k \in 1 .. n /\ k - 1 \in 0 .. n
        BY <3>2
      <4>2. f[k] = Grown(root, Succ, A, f[k - 1]) /\ f[k - 1] \in SUBSET Partitions
        BY <1>2, <4>1 DEF Spreads
      <4>3. f[k] = {root} \cup Reach(f[k - 1])
        BY <1>3, <4>2
      <4> HIDE DEF Reach, root
      <4>4. QED
        BY <3>2, <4>3
    <3>3. QED
      BY <3>1, <3>2
  <2>2. f = [k \in 0 .. n |-> f[k]] /\ h = [k \in 0 .. n |-> h[k]]
    OBVIOUS
  <2> HIDE DEF h
  <2>3. f = h
    BY <2>1, <2>2
  <2>4. QED
    BY <2>3 DEF h
<1> DEFINE M == CHOOSE g : Is(g)
<1>6. Within(n) = M[n]
  BY DEF Within
<1>7. Is(M)
  <2> HIDE DEF Is
  <2>1. QED
    BY <1>5
<1> HIDE DEF M, Is, Reach, root
<1>8. \A k \in 0 .. n : M[k] = f[k]
  <2> DEFINE S == {k \in 0 .. n : M[k] = f[k]}
  <2>1. Goes(M) /\ Goes(f)
    <3> HIDE DEF Goes
    <3>1. QED
      BY <1>4, <1>5, <1>7
  <2>2. 0 \in S
    <3>1. M[0] = {root} /\ f[0] = {root}
      BY <2>1
    <3>2. 0 \in 0 .. n /\ M[0] = f[0]
      BY <3>1
    <3> HIDE DEF Goes
    <3>3. QED
      BY <3>2
  <2>3. ASSUME NEW k \in 1 .. n, k - 1 \in S PROVE k \in S
    <3>1. k \in 0 .. n /\ M[k - 1] = f[k - 1]
      BY <2>3
    <3>2. QED
      BY <2>1, <3>1
  <2> HIDE DEF S
  <2>4. \A k \in 0 .. n : k \in S
    BY <2>2, <2>3, StepByStep
  <2>5. QED
    BY <2>4 DEF S
<1>9. QED
  BY <1>2, <1>6, <1>8 DEF root

\* A step that neither searches nor ends a search with a plan.
LEMMA BreadthQuiet ==
  ASSUME PhaseInv', at' \notin {"start", "search"},
         at' \in {"heuristic", "queue"} => nodes' = <<>>,
         outcome' = "PLAN" => nodes' = <<>>
  PROVE  BreadthInv'
BY DEF BreadthInv, SearchPlanShortest

LEMMA BreadthSearches ==
  ASSUME PhaseInv', at' = "search",
         Breadth(nodes', Held', Succ', letters', head', letter')
  PROVE  BreadthInv'
<1>1. outcome' = "NONE"
  BY DEF PhaseInv, BudgetInv, SearchInv
<1>2. QED
  BY <1>1 DEF BreadthInv, SearchPlanShortest

\* The search starts with the root.
LEMMA BreadthSearchStart ==
  ASSUME BreadthInv, SearchStart, PhaseInv'
  PROVE  BreadthInv'
<1>1. at' = "search" /\ Len(nodes') = 1 /\ head' = 0
  BY DEF SearchStart, BreadthInv, PhaseInv, BudgetInv, SearchInv
<1>2. Breadth(nodes', Held', Succ', letters', head', letter')
  BY <1>1, BreadthStarts
<1>3. QED
  BY <1>1, <1>2, BreadthSearches

\* The queue is worked off from the front.
LEMMA BreadthExpand ==
  ASSUME BreadthInv, SearchExpand, PhaseInv'
  PROVE  BreadthInv'
<1>1. /\ UNCHANGED <<query, nodes>> /\ at' = "search" /\ at = "search"
      /\ head' = head + 1 /\ letter' = 1 /\ head < Len(nodes) /\ letter > Len(letters)
  BY DEF SearchExpand, Between
<1>2. query \in Queries /\ TreeOf(nodes) /\ head \in 0 .. Len(nodes) /\ letter \in 1 .. Len(letters) + 1
  BY <1>1 DEF BreadthInv, PhaseInv, BudgetInv, SearchInv, SearchTypes
<1>3. Hanging(nodes, Range(letters)) /\ Len(letters) \in Nat
  BY <1>2, TreeHangs, QueryTypes
<1>4. letter = Len(letters) + 1
  BY <1>1, <1>2, <1>3
<1>5. Breadth(nodes, Held, Succ, letters, head, Len(letters) + 1)
  BY <1>1, <1>4 DEF BreadthInv
<1>6. Breadth(nodes, Held, Succ, letters, head + 1, 1)
  BY <1>1, <1>2, <1>3, <1>5, BreadthExpands
<1>7. Held' = Held /\ Succ' = Succ /\ letters' = letters
  BY <1>1, SuccKept DEF Held
<1>8. Breadth(nodes', Held', Succ', letters', head', letter')
  BY <1>1, <1>6, <1>7
<1>9. QED
  BY <1>1, <1>8, BreadthSearches

\* What a letter makes of the node that is expanded.
LEMMA SuccessorIs ==
  ASSUME BreadthInv, at = "search", letter <= Len(letters)
  PROVE  /\ query \in Queries /\ TreeOf(nodes) /\ Searched
         /\ head \in 1 .. Len(nodes) /\ letter \in 1 .. Len(letters) /\ letter \in Nat
         /\ Hanging(nodes, Range(letters)) /\ Len(nodes) \in Nat \ {0}
         /\ Breadth(nodes, Held, Succ, letters, head, letter)
         /\ Successor = Succ[<<Held[head], letters[letter]>>]
<1>1. /\ query \in Queries /\ TreeOf(nodes) /\ Searched
      /\ head \in 1 .. Len(nodes) /\ letter \in 1 .. Len(letters)
  BY InSearch DEF BreadthInv
<1>2. Hanging(nodes, Range(letters)) /\ Len(nodes) \in Nat \ {0}
  BY <1>1, TreeHangs
<1>3. Held[head] = nodes[head].partition /\ Held[head] \in Partitions
  BY <1>1, TreeHolds
<1>4. letters[letter] \in Range(letters)
  BY <1>1, CallTypes
<1>5. Successor = Succ[<<Held[head], letters[letter]>>]
  BY <1>1, <1>3, <1>4, SuccSound DEF Successor
<1>6. Breadth(nodes, Held, Succ, letters, head, letter)
  BY DEF BreadthInv
<1>7. letter \in Nat
  BY <1>1
<1>8. QED
  BY <1>1, <1>2, <1>5, <1>6, <1>7

\* A partition that is known is as near as a new one would be.
LEMMA BreadthOld ==
  ASSUME BreadthInv, SearchKnown, PhaseInv'
  PROVE  BreadthInv'
<1>1. /\ UNCHANGED <<query, head, nodes>> /\ at' = "search" /\ at = "search"
      /\ letter' = letter + 1 /\ letter <= Len(letters) /\ Known(Successor)
  BY DEF SearchKnown
<1>2. /\ query \in Queries /\ TreeOf(nodes) /\ head \in 1 .. Len(nodes) /\ letter \in Nat
      /\ Hanging(nodes, Range(letters))
      /\ Breadth(nodes, Held, Succ, letters, head, letter)
      /\ Successor = Succ[<<Held[head], letters[letter]>>]
  BY <1>1, SuccessorIs
<1>3. \E j \in 1 .. Len(nodes) : Held[j] = Successor
  <2>1. PICK j \in DOMAIN nodes : nodes[j].partition = Successor
    BY <1>1 DEF Known
  <2>2. j \in 1 .. Len(nodes)
    BY <1>2, <2>1 DEF TreeOf
  <2>3. Held[j] = nodes[j].partition
    BY <1>2, <2>2, TreeHolds
  <2>4. QED
    BY <2>1, <2>2, <2>3
<1>4. \E j \in 1 .. Len(nodes) : Held[j] = Succ[<<Held[head], letters[letter]>>]
  BY <1>2, <1>3
<1>5. Breadth(nodes, Held, Succ, letters, head, letter + 1)
  BY <1>2, <1>4, BreadthKnown
<1>6. Held' = Held /\ Succ' = Succ /\ letters' = letters
  BY <1>1, SuccKept DEF Held
<1>7. Breadth(nodes', Held', Succ', letters', head', letter')
  BY <1>1, <1>5, <1>6
<1>8. QED
  BY <1>1, <1>7, BreadthSearches

\* A new partition goes to the end of the queue.
LEMMA BreadthNew ==
  ASSUME BreadthInv, SearchNew, PhaseInv'
  PROVE  BreadthInv'
<1>1. /\ UNCHANGED <<query, head>> /\ at' = "search" /\ at = "search"
      /\ letter' = letter + 1 /\ letter <= Len(letters)
      /\ nodes' = Append(nodes, Node(Successor, head, letters[letter]))
  BY DEF SearchNew, Enqueued
<1>2. /\ query \in Queries /\ TreeOf(nodes) /\ head \in 1 .. Len(nodes) /\ letter \in Nat
      /\ letter \in 1 .. Len(letters) /\ Len(nodes) \in Nat \ {0}
      /\ Hanging(nodes, Range(letters))
      /\ Breadth(nodes, Held, Succ, letters, head, letter)
      /\ Successor = Succ[<<Held[head], letters[letter]>>]
  BY <1>1, SuccessorIs
<1>3. PICK m : m = nodes'
  OBVIOUS
<1>4. /\ TreeOf(m) /\ Len(m) = Len(nodes) + 1 /\ \A i \in 1 .. Len(nodes) : m[i] = nodes[i]
      /\ m[Len(nodes) + 1].parent = head /\ m[Len(nodes) + 1].partition = Successor
  BY <1>1, <1>2, <1>3, TreeAppended
<1>5. Hanging(m, Range(letters))
  BY <1>4, TreeHangs
<1>6. Held' = [i \in 1 .. Len(nodes) + 1 |-> m[i].partition]
  BY <1>3, <1>4 DEF Held
<1>7. PICK more : more = Held'
  OBVIOUS
<1>8. Adds(nodes, m, Held, more, head, Successor)
  <2>1. \A i \in 1 .. Len(nodes) : Held[i] = nodes[i].partition
    BY <1>2, TreeHolds
  <2>2. \A i \in 1 .. Len(nodes) : more[i] = m[i].partition
    BY <1>2, <1>6, <1>7
  <2>3. more[Len(nodes) + 1] = Successor
    BY <1>2, <1>4, <1>6, <1>7
  <2>4. QED
    BY <1>4, <2>1, <2>2, <2>3 DEF Adds
<1>9. Adds(nodes, m, Held, more, head, Succ[<<Held[head], letters[letter]>>])
  BY <1>2, <1>8
<1>10. Breadth(m, more, Succ, letters, head, letter + 1)
  <2>1. PICK ls, hd, hold : ls = letters /\ hd = head /\ hold = Held
    OBVIOUS
  <2>2. PICK q, lt, succ : q = nodes /\ lt = letter /\ succ = Succ
    OBVIOUS
  <2>3. PICK A : A = Range(letters)
    OBVIOUS
  <2>4. /\ Hanging(q, A) /\ Hanging(m, A) /\ hd \in 1 .. Len(q) /\ lt \in Nat
        /\ Adds(q, m, hold, more, hd, succ[<<hold[hd], ls[lt]>>])
        /\ Breadth(q, hold, succ, ls, hd, lt)
    BY <1>2, <1>5, <1>9, <2>1, <2>2, <2>3
  <2>5. Breadth(m, more, succ, ls, hd, lt + 1)
    BY <2>4, BreadthGrows
  <2>6. QED
    BY <2>1, <2>2, <2>5
<1>11. Succ' = Succ /\ letters' = letters
  BY <1>1, SuccKept
<1>12. Breadth(nodes', Held', Succ', letters', head', letter')
  BY <1>1, <1>3, <1>7, <1>10, <1>11
<1>13. QED
  BY <1>1, <1>12, BreadthSearches

\* The word of the node that is expanded is one letter short of the plan, and
\* every shorter word leads to a node, each of which has a support too large.
LEMMA BreadthFound ==
  ASSUME BreadthInv, SearchFound
  PROVE  BreadthInv'
<1>1. /\ at = "search" /\ letter <= Len(letters) /\ at' = "done" /\ query' = query
  BY DEF SearchFound, Finalize, Finish
<1>2. /\ query \in Queries /\ TreeOf(nodes) /\ Searched /\ head \in 1 .. Len(nodes)
      /\ letter \in 1 .. Len(letters) /\ Len(nodes) \in Nat \ {0}
      /\ Hanging(nodes, Range(letters))
      /\ Breadth(nodes, Held, Succ, letters, head, letter)
  BY <1>1, SuccessorIs
<1>3. PhaseInv /\ BudgetInv'
  BY StepBudget DEF BreadthInv, PhaseInv, Next
<1>4. PICK q : /\ q = Append(nodes, Node(Successor, head, letters[letter]))
               /\ word' = ReadBack(q, Len(nodes) + 1)
  BY <1>3, PhaseFound
<1>5. PhaseInv'
  BY <1>3, PhaseFound
<1>6. /\ TreeOf(q) /\ Len(q) = Len(nodes) + 1 /\ \A i \in 1 .. Len(nodes) : q[i] = nodes[i]
      /\ q[Len(nodes) + 1].parent = head
  BY <1>2, <1>4, TreeAppended
<1>7. PICK l \in Nat \ {0} : l = Len(nodes)
  BY <1>2
<1>8. Hanging(q, Range(letters)) /\ l + 1 \in 2 .. Len(q) /\ l + 1 \in 1 .. Len(q)
  BY <1>6, <1>7, TreeHangs
<1>9. PICK n \in Nat : n = Height(nodes, head) /\ Len(word') = n + 1
  <2>1. Height(q, l + 1) = Height(q, head) + 1
    BY <1>6, <1>7, <1>8, ReadBackNext
  <2>2. Height(q, head) = Height(nodes, head)
    <3>1. \A i \in 1 .. Len(nodes) : Height(q, i) = Height(nodes, i)
      BY <1>2, <1>6, <1>7, <1>8, HeightKept
    <3>2. QED
      BY <1>2, <3>1
  <2>3. Height(nodes, head) \in Nat
    BY <1>2, ReadBackWord
  <2>4. Len(ReadBack(q, l + 1)) = Height(q, l + 1)
    BY <1>8, ReadBackWord
  <2>5. QED
    BY <1>4, <1>7, <2>1, <2>2, <2>3, <2>4
<1>10. \A c \in Within(n) : LargestIn(c) > query.bound
  <2>1. PICK f \in [0 .. n -> SUBSET Partitions] :
          Spreads(f, {query.initial}, Succ, Range(letters), n) /\ Within(n) = f[n]
    BY <1>2, WithinIs
  <2>2. Held[1] = {query.initial}
    BY <1>2, TreeHolds
  <2>3. \A b \in Range(letters) : \E k \in 1 .. Len(letters) : letters[k] = b
    BY <1>2, QueryTypes DEF Range
  <2>4. Spreads(f, Held[1], Succ, Range(letters), n) /\ n <= Height(nodes, head)
    BY <1>9, <2>1, <2>2
  <2>5. \A y \in f[n] : \E i \in 1 .. Len(nodes) : Held[i] = y
    BY <1>2, <2>3, <2>4, BreadthNearest
  <2>6. ASSUME NEW c \in Within(n) PROVE LargestIn(c) > query.bound
    <3>1. PICK i \in 1 .. Len(nodes) : Held[i] = c
      BY <2>1, <2>5
    <3>2. Held[i] = nodes[i].partition /\ i \in DOMAIN nodes
      BY <1>2, <3>1, TreeHolds DEF TreeOf
    <3>3. QED
      BY <1>2, <3>1, <3>2 DEF Searched, Open
  <2>7. QED
    BY <2>6
<1>11. SearchPlanShortest'
  <2>1. aut' = aut /\ letters' = letters /\ query'.initial = query.initial
    BY <1>1 DEF aut, letters
  <2>2. Within(n)' = Within(n)
    BY <2>1 DEF Within, Parted
  <2>3. Len(word') - 1 = n
    BY <1>9
  <2>4. Within(Len(word) - 1)' = Within(n)'
    BY <2>3 DEF Within
  <2>5. QED
    BY <1>1, <1>10, <2>2, <2>4 DEF SearchPlanShortest
<1>12. QED
  BY <1>1, <1>5, <1>11 DEF BreadthInv

LEMMA BreadthStep ==
  ASSUME BreadthInv, [Next]_vars
  PROVE  BreadthInv'
<1>1. PhaseInv'
  BY PhaseStep DEF BreadthInv
<1>2. CASE Start \/ HeuristicRefused \/ HeuristicPlan \/ HeuristicShort \/ HeuristicNone
  <2>1. nodes' = <<>> /\ at' \in {"done", "queue", "heuristic"}
    BY <1>2 DEF BreadthInv, Start, HeuristicRefused, HeuristicPlan, HeuristicShort,
                HeuristicNone, Finalize, Finish
  <2>2. QED
    BY <1>1, <2>1, BreadthQuiet
<1>3. CASE SearchBound \/ SearchExhausted
  <2>1. at' = "done" /\ outcome' # "PLAN"
    BY <1>3 DEF SearchBound, SearchExhausted, Finish
  <2>2. QED
    BY <1>1, <2>1, BreadthQuiet
<1>4. CASE UNCHANGED vars
  <2>1. Held' = Held /\ Succ' = Succ /\ letters' = letters /\ aut' = aut
    BY <1>4, SuccKept DEF vars, Held, aut
  <2>2. UNCHANGED vars /\ at' = "search" => Breadth(nodes', Held', Succ', letters', head', letter')
    BY <1>4, <2>1 DEF BreadthInv, vars
  <2>3. PICK k : k = Len(word) - 1
    OBVIOUS
  <2>4. Within(Len(word) - 1)' = Within(k)
    BY <1>4, <2>1, <2>3 DEF Within, Parted, vars
  <2>5. SearchPlanShortest'
    BY <1>4, <2>3, <2>4 DEF BreadthInv, SearchPlanShortest, vars
  <2>6. QED
    BY <1>1, <1>4, <2>2, <2>5 DEF BreadthInv, vars
<1>5. QED
  BY <1>1, <1>2, <1>3, <1>4, BreadthSearchStart, BreadthExpand, BreadthOld, BreadthNew,
     BreadthFound DEF Next, Returned

\* A plan of the search is as short as any permitted word that does, for every
\* automaton, bound and budget: sg_partition_bfs stores what shorter words leave
\* before it goes on.
THEOREM PlansAlwaysShortest == Spec => []SearchPlanShortest
<1>1. ASSUME Init PROVE BreadthInv
  BY <1>1, PhaseStarts DEF BreadthInv, Init, SearchPlanShortest
<1>2. BreadthInv => SearchPlanShortest
  BY DEF BreadthInv
<1>3. QED
  BY <1>1, <1>2, BreadthStep, PTL DEF Spec

-----------------------------------------------------------------------------
(* The choice among the words of the pairs.                                *)

LEMMA LeastBy ==
  ASSUME NEW A, A # {}, NEW f, \A p \in A : f[p] \in Nat
  PROVE  \E p \in A : \A q \in A : f[p] <= f[q]
<1> DEFINE V == {f[p] : p \in A}
<1>1. V # {} /\ V \subseteq Nat
  OBVIOUS
<1>2. PICK v \in V : \A u \in V : v <= u
  <2> HIDE DEF V
  <2>1. QED
    BY <1>1, LeastNatural
<1>3. QED
  BY <1>2

\* The order of two by the first of five measures that differs.
Before(a, b, c, d, e, p, q) ==
  \/ a[p] < a[q]
  \/ a[p] = a[q] /\ b[p] < b[q]
  \/ a[p] = a[q] /\ b[p] = b[q] /\ c[p] < c[q]
  \/ a[p] = a[q] /\ b[p] = b[q] /\ c[p] = c[q] /\ d[p] < d[q]
  \/ a[p] = a[q] /\ b[p] = b[q] /\ c[p] = c[q] /\ d[p] = d[q] /\ e[p] < e[q]

\* If any two differ by the last two, one is before all others.
LEMMA FirstOfAll ==
  ASSUME NEW A, A # {}, NEW a, NEW b, NEW c, NEW d, NEW e,
         \A p \in A : a[p] \in Nat /\ b[p] \in Nat /\ c[p] \in Nat /\ d[p] \in Nat /\ e[p] \in Nat,
         \A p, q \in A : d[p] = d[q] /\ e[p] = e[q] => p = q
  PROVE  \E p \in A : \A q \in A \ {p} : Before(a, b, c, d, e, p, q)
<1> DEFINE LeastIn(S, f) == {p \in S : \A q \in S : f[p] <= f[q]}
<1>1. ASSUME NEW S \in SUBSET A, S # {}, NEW f, \A p \in A : f[p] \in Nat
      PROVE  /\ LeastIn(S, f) # {} /\ LeastIn(S, f) \subseteq A
             /\ \A p \in LeastIn(S, f) : \A q \in S : f[p] < f[q] \/ (f[p] = f[q] /\ q \in LeastIn(S, f))
  <2>1. LeastIn(S, f) # {} /\ LeastIn(S, f) \subseteq A
    <3>1. \A p \in S : f[p] \in Nat
      BY <1>1
    <3>2. \E p \in S : \A q \in S : f[p] <= f[q]
      BY <1>1, <3>1, LeastBy
    <3>3. QED
      BY <3>2
  <2>2. ASSUME NEW p \in LeastIn(S, f), NEW q \in S
        PROVE  f[p] < f[q] \/ (f[p] = f[q] /\ q \in LeastIn(S, f))
    <3>1. f[p] \in Nat /\ f[q] \in Nat /\ f[p] <= f[q]
      BY <1>1
    <3>2. CASE f[p] = f[q]
      BY <3>2
    <3>3. QED
      BY <3>1, <3>2
  <2>3. QED
    BY <2>1, <2>2
<1> HIDE DEF LeastIn
<1>2. PICK S1 \in SUBSET A : S1 = LeastIn(A, a) /\ S1 # {}
  BY <1>1
<1>3. PICK S2 \in SUBSET A : S2 = LeastIn(S1, b) /\ S2 # {}
  BY <1>1, <1>2
<1>4. PICK S3 \in SUBSET A : S3 = LeastIn(S2, c) /\ S3 # {}
  BY <1>1, <1>3
<1>5. PICK S4 \in SUBSET A : S4 = LeastIn(S3, d) /\ S4 # {}
  BY <1>1, <1>4
<1>6. PICK S5 \in SUBSET A : S5 = LeastIn(S4, e) /\ S5 # {}
  BY <1>1, <1>5
<1>7. /\ \A p \in S1, q \in A : a[p] < a[q] \/ (a[p] = a[q] /\ q \in S1)
      /\ \A p \in S2, q \in S1 : b[p] < b[q] \/ (b[p] = b[q] /\ q \in S2)
      /\ \A p \in S3, q \in S2 : c[p] < c[q] \/ (c[p] = c[q] /\ q \in S3)
      /\ \A p \in S4, q \in S3 : d[p] < d[q] \/ (d[p] = d[q] /\ q \in S4)
      /\ \A p \in S5, q \in S4 : e[p] < e[q] \/ (e[p] = e[q] /\ q \in S5)
  <2>1. \A p \in S1, q \in A : a[p] < a[q] \/ (a[p] = a[q] /\ q \in S1)
    BY <1>1, <1>2
  <2>2. \A p \in S2, q \in S1 : b[p] < b[q] \/ (b[p] = b[q] /\ q \in S2)
    BY <1>1, <1>2, <1>3
  <2>3. \A p \in S3, q \in S2 : c[p] < c[q] \/ (c[p] = c[q] /\ q \in S3)
    BY <1>1, <1>3, <1>4
  <2>4. \A p \in S4, q \in S3 : d[p] < d[q] \/ (d[p] = d[q] /\ q \in S4)
    BY <1>1, <1>4, <1>5
  <2>5. \A p \in S5, q \in S4 : e[p] < e[q] \/ (e[p] = e[q] /\ q \in S5)
    BY <1>1, <1>5, <1>6
  <2>6. QED
    BY <2>1, <2>2, <2>3, <2>4, <2>5
<1>8. PICK p \in S5 : p \in A /\ p \in S4 /\ p \in S3 /\ p \in S2 /\ p \in S1
  <2>1. S2 \subseteq S1 /\ S3 \subseteq S2 /\ S4 \subseteq S3 /\ S5 \subseteq S4
    BY <1>3, <1>4, <1>5, <1>6 DEF LeastIn
  <2>2. QED
    BY <1>6, <2>1
<1>9. ASSUME NEW q \in A \ {p} PROVE Before(a, b, c, d, e, p, q)
  <2>1. CASE a[p] < a[q]
    BY <2>1 DEF Before
  <2>2. CASE a[p] = a[q] /\ q \in S1
    <3>1. CASE b[p] < b[q]
      BY <2>2, <3>1 DEF Before
    <3>2. CASE b[p] = b[q] /\ q \in S2
      <4>1. CASE c[p] < c[q]
        BY <2>2, <3>2, <4>1 DEF Before
      <4>2. CASE c[p] = c[q] /\ q \in S3
        <5>1. CASE d[p] < d[q]
          BY <2>2, <3>2, <4>2, <5>1 DEF Before
        <5>2. CASE d[p] = d[q] /\ q \in S4
          <6>1. e[p] # e[q]
            BY <1>8, <5>2
          <6>2. e[p] < e[q]
            BY <1>7, <1>8, <5>2, <6>1
          <6>3. QED
            BY <2>2, <3>2, <4>2, <5>2, <6>2 DEF Before
        <5>3. QED
          BY <1>7, <1>8, <4>2, <5>1, <5>2
      <4>3. QED
        BY <1>7, <1>8, <3>2, <4>1, <4>2
    <3>3. QED
      BY <1>7, <1>8, <2>2, <3>1, <3>2
  <2>3. QED
    BY <1>7, <1>8, <2>1, <2>2
<1>10. QED
  BY <1>8, <1>9

\* There are no more branches than states to start from.
LEMMA BranchesCounted ==
  ASSUME query \in Queries, NEW w \in Seq(Actions)
  PROVE  /\ Cardinality(Branches(w)) \in Nat
         /\ Cardinality(Branches(w)) <= Cardinality(query.initial)
<1>1. PICK s \in Supports : s = query.initial /\ s # {}
  BY CallTypes
<1>2. PICK B : B = Branches(w)
  OBVIOUS
<1>3. B = {Branch(aut, s, w, y, Len(w)) : y \in s}
  BY <1>1, <1>2, CallTypes, BranchesAre DEF Branches, Branching
<1> DEFINE f == [y \in s |-> Branch(aut, s, w, y, Len(w))]
<1>4. f \in Surjection(s, B)
  BY <1>3 DEF Surjection
<1> HIDE DEF f
<1>5. IsFiniteSet(s)
  BY <1>1, FiniteSupports
<1>6. IsFiniteSet(B) /\ Cardinality(B) <= Cardinality(s)
  BY <1>4, <1>5, FS_Surjection
<1>7. Cardinality(B) \in Nat
  BY <1>6, FS_CardinalityType
<1>8. QED
  BY <1>1, <1>2, <1>6, <1>7

\* Some of the states, wherever they are sent, are fewer than all.
LEMMA FewerSent ==
  ASSUME NEW s \in Supports, NEW t \in SUBSET s, t # s, NEW f
  PROVE  Cardinality({f[z] : z \in t}) < Cardinality(s)
<1>1. PICK m : m = {f[z] : z \in t}
  OBVIOUS
<1> DEFINE g == [z \in t |-> f[z]]
<1>2. g \in Surjection(t, m)
  BY <1>1 DEF Surjection
<1> HIDE DEF g
<1>3. IsFiniteSet(s) /\ Cardinality(s) \in Nat
  BY FiniteSupports
<1>4. IsFiniteSet(t) /\ Cardinality(t) <= Cardinality(s) /\ Cardinality(t) # Cardinality(s)
  BY <1>3, FS_Subset
<1>5. IsFiniteSet(m) /\ Cardinality(m) <= Cardinality(t)
  BY <1>2, <1>4, FS_Surjection
<1>6. Cardinality(m) \in Nat /\ Cardinality(t) \in Nat
  BY <1>4, <1>5, FS_CardinalityType
<1>7. QED
  BY <1>1, <1>3, <1>4, <1>5, <1>6

\* Two initial states that a word tells apart or sends to one are never both
\* among what a trace leaves: each trace leaves fewer states than there were.
LEMMA ResolvedLess ==
  ASSUME query \in Queries, NEW w \in Seq(Actions),
         NEW x \in query.initial, NEW y \in query.initial, x # y,
         \/ \E n \in 1 .. Len(w) : ShownAt(aut, w, x, n) # ShownAt(aut, w, y, n)
         \/ PlacesFrom(aut, x, w)[Len(w)] = PlacesFrom(aut, y, w)[Len(w)]
  PROVE  Worst(Branches(w)) < Cardinality(query.initial)
<1>1. PICK s \in Supports : s = query.initial
  BY CallTypes
<1>2. Leaves(w) \in Partitions /\ Leaves(w) # {}
  BY LeavesType
<1>3. PICK c \in Leaves(w) : LargestIn(Leaves(w)) = Cardinality(c)
  BY <1>2, LargestOf
<1>4. PICK z \in s : c = Left(aut, s, w, z, Len(w))
  BY <1>1, <1>3, LeavesAre
<1> DEFINE f == [u \in s |-> PlacesFrom(aut, u, w)[Len(w)]]
           all == Alike(aut, s, w, z, Len(w))
           t == IF x \in all /\ y \in all THEN all \ {x} ELSE all
<1>5. all \subseteq s /\ \A u \in s : f[u] = PlacesFrom(aut, u, w)[Len(w)]
  BY DEF Alike
<1>6. c = {f[u] : u \in all}
  BY <1>4, <1>5 DEF Left
<1>7. x \in all /\ y \in all => f[x] = f[y]
  <2>1. SUFFICES ASSUME x \in all, y \in all PROVE f[x] = f[y]
    OBVIOUS
  <2>2. \A n \in 1 .. Len(w) : ShownAt(aut, w, x, n) = ShownAt(aut, w, y, n)
    BY <2>1 DEF Alike
  <2>3. QED
    BY <1>1, <1>5, <2>2
<1> HIDE DEF all, f
<1>8. c = {f[u] : u \in t}
  BY <1>6, <1>7
<1>9. t \in SUBSET s /\ t # s
  BY <1>1, <1>5
<1> HIDE DEF t
<1>10. Cardinality(c) < Cardinality(s)
  BY <1>8, <1>9, FewerSent
<1>11. QED
  BY <1>1, <1>3, <1>10, WorstIs

\* A pair by its states in order, as sg_pair_index takes it.
LEMMA PairEnds ==
  ASSUME NEW p \in Pairs
  PROVE  Min(p) \in Nat /\ Max(p) \in Nat /\ p = {Min(p), Max(p)}
<1>1. PICK x, y \in States : p = {x, y}
  BY DEF Pairs
<1>2. x \in Nat /\ y \in Nat
  BY DisambiguationAssumption
<1>3. CASE x <= y
  <2>1. \A u \in p : (u = x \/ u = y) /\ ((\A v \in p : u <= v) => u = x) /\ ((\A v \in p : u >= v) => u = y)
    BY <1>1, <1>2, <1>3
  <2>2. x \in p /\ y \in p /\ (\A v \in p : x <= v) /\ (\A v \in p : y >= v)
    BY <1>1, <1>2, <1>3
  <2>3. Min(p) = x
    BY <2>1, <2>2 DEF Min
  <2>4. Max(p) = y
    BY <2>1, <2>2 DEF Max
  <2>5. QED
    BY <1>1, <1>2, <2>3, <2>4
<1>4. CASE y <= x
  <2>1. \A u \in p : (u = x \/ u = y) /\ ((\A v \in p : u <= v) => u = y) /\ ((\A v \in p : u >= v) => u = x)
    BY <1>1, <1>2, <1>4
  <2>2. x \in p /\ y \in p /\ (\A v \in p : y <= v) /\ (\A v \in p : x >= v)
    BY <1>1, <1>2, <1>4
  <2>3. Min(p) = y
    BY <2>1, <2>2 DEF Min
  <2>4. Max(p) = x
    BY <2>1, <2>2 DEF Max
  <2>5. QED
    BY <1>1, <1>2, <2>3, <2>4
<1>5. QED
  BY <1>2, <1>3, <1>4

\* The word of a pair of initial states leaves fewer of them on every trace.
LEMMA CandidateResolves ==
  ASSUME query \in Queries, NEW p \in Available(Candidates)
  PROVE  /\ p \in Pairs /\ Candidates[p].word \in Seq(Actions)
         /\ Worst(Branches(Candidates[p].word)) < Cardinality(query.initial)
<1>1. /\ p \in Pairs /\ p \subseteq query.initial /\ p \notin Diagonal
      /\ Candidates[p] = PairWord(aut, "resolution", query.records, p)
      /\ Candidates[p].state = "found"
  BY DEF Available, Candidates
<1>2. PICK x, y \in States : p = {x, y}
  BY <1>1 DEF Pairs
<1>3. x # y /\ x \in query.initial /\ y \in query.initial
  BY <1>1, <1>2 DEF Diagonal
<1>4. PICK w : w = Candidates[p].word
  OBVIOUS
<1>5. PairWord(aut, "resolution", query.records, {x, y}) = Found(w)
  <2>1. PICK c : c = PairWord(aut, "resolution", query.records, p) /\ c.state = "found" /\ c.word = w
    BY <1>1, <1>4
  <2>2. Malformed.state # "found" /\ Missing.state # "found"
    BY DEF Malformed, Missing
  <2>3. \E v : c = Found(v)
    BY <2>1, <2>2 DEF PairWord
  <2>4. c = Found(w)
    BY <2>1, <2>3 DEF Found
  <2>5. QED
    BY <1>2, <2>1, <2>4
<1>6. aut \in Automata /\ query.records \in [Pairs -> Records]
  BY CallTypes, DisambiguationAssumption
<1>7. /\ w \in Seq(Actions)
      /\ \/ \E n \in 1 .. Len(w) : ShownAt(aut, w, x, n) # ShownAt(aut, w, y, n)
         \/ PlacesFrom(aut, x, w)[Len(w)] = PlacesFrom(aut, y, w)[Len(w)]
  BY <1>5, <1>6, FoundResolves
<1>8. Worst(Branches(w)) < Cardinality(query.initial)
  BY <1>3, <1>7, ResolvedLess
<1>9. QED
  BY <1>1, <1>4, <1>7, <1>8

\* When a pair has a word, sg_best_resolution has one to offer.
LEMMA BestChosen ==
  ASSUME query \in Queries, Available(Candidates) # {}
  PROVE  Resolving(Candidates) # {}
<1>1. PICK A, words : A = Available(Candidates) /\ words = Candidates
  OBVIOUS
<1>2. PICK N \in Nat : N = Cardinality(query.initial)
  BY CallTypes, FiniteSupports
<1> DEFINE worst == [p \in A |-> Worst(Branches(words[p].word))]
           length == [p \in A |-> Len(words[p].word)]
           count(p) == Cardinality(Branches(words[p].word))
           spare == [p \in A |-> N - count(p)]
           low == [p \in A |-> Min(p)]
           high == [p \in A |-> Max(p)]
<1>3. ASSUME NEW p \in A
      PROVE  /\ worst[p] \in Nat /\ length[p] \in Nat /\ count(p) \in Nat /\ spare[p] \in Nat
             /\ low[p] \in Nat /\ high[p] \in Nat /\ p = {low[p], high[p]}
             /\ worst[p] < N
  <2>1. PICK w \in Seq(Actions) : w = words[p].word /\ Worst(Branches(w)) < N /\ p \in Pairs
    BY <1>1, <1>2, CandidateResolves
  <2>2. Worst(Branches(w)) \in Nat
    BY <2>1, LeavesType, LargestOf, WorstIs
  <2>3. Cardinality(Branches(w)) \in Nat /\ Cardinality(Branches(w)) <= N
    BY <1>2, BranchesCounted
  <2>4. N - Cardinality(Branches(w)) \in Nat
    BY <2>3
  <2>5. QED
    BY <2>1, <2>2, <2>3, <2>4, PairEnds
<1>4. \A p \in A : /\ worst[p] = Worst(Branches(words[p].word)) /\ length[p] = Len(words[p].word)
                   /\ spare[p] = N - count(p) /\ low[p] = Min(p) /\ high[p] = Max(p)
  OBVIOUS
<1> HIDE DEF worst, length, spare, low, high
<1>5. PICK p \in A : \A q \in A \ {p} : Before(worst, length, spare, low, high, p, q)
  <2>1. \A q, r \in A : low[q] = low[r] /\ high[q] = high[r] => q = r
    BY <1>3
  <2>2. QED
    BY <1>1, <1>3, <2>1, FirstOfAll
<1>6. ASSUME NEW q \in A \ {p} PROVE Better(words, p, q)
  <2>1. count(p) \in Nat /\ count(q) \in Nat /\ spare[p] = N - count(p) /\ spare[q] = N - count(q)
    BY <1>3, <1>4
  <2>2. /\ spare[p] < spare[q] => count(p) > count(q)
        /\ spare[p] = spare[q] => count(p) = count(q)
    BY <2>1
  <2>3. Before(worst, length, spare, low, high, p, q)
    BY <1>5
  <2>4. QED
    BY <1>4, <2>2, <2>3 DEF Before, Better, PairBefore
<1>7. Worst(Branches(words[p].word)) < Cardinality(query.initial)
  BY <1>2, <1>3, <1>4
<1>8. words[p].word \in Resolving(words)
  BY <1>1, <1>6, <1>7 DEF Resolving
<1>9. QED
  BY <1>1, <1>8

-----------------------------------------------------------------------------
(* A bound of one state less than there are.                               *)

Settling == Exact /\ query.bound = Cardinality(query.initial) - 1

\* Some pair of initial states can be told apart or merged.
Resolvable ==
  \E p \in Pairs \ Diagonal : p \subseteq query.initial /\ query.records[p].dist # None

\* As many states as at first, all on one trace, and no word for any two.
Whole(partition) ==
  \E s \in Supports :
    /\ partition = {s} /\ Cardinality(s) = Cardinality(query.initial)
    /\ \A x, y \in s : x # y => ExactDistances(aut, "resolution")[{x, y}] = None

\* With exact records a pair has a word if and only if it is not out of reach,
\* none is refused, and every word is permitted.
LEMMA ExactCandidates ==
  ASSUME query \in Queries, Exact
  PROVE  /\ Malformed \notin Range(Candidates)
         /\ Available(Candidates) # {} <=> Resolvable
         /\ \A w \in Resolving(Candidates) : Executable(w)
<1>1. aut \in Automata /\ query.records = ExactRecords(aut, "resolution") /\ Actions \subseteq Range(letters)
  BY CallTypes DEF Exact
<1>2. ASSUME NEW p \in Pairs
      PROVE  /\ PairWord(aut, "resolution", query.records, p) # Malformed
             /\ PairWord(aut, "resolution", query.records, p).state = "found"
                  <=> query.records[p].dist # None
  <2>1. WellFormed(aut, "resolution", query.records, p)
    BY <1>1, ExactWellFormed
  <2>2. /\ query.records[p].dist = None => PairWord(aut, "resolution", query.records, p) = Missing
        /\ query.records[p].dist # None =>
             \E v : PairWord(aut, "resolution", query.records, p) = Found(v)
    BY <2>1 DEF PairWord
  <2>3. Missing.state = "missing" /\ Malformed.state = "malformed" /\ \A v : Found(v).state = "found"
    BY DEF Missing, Malformed, Found
  <2>4. QED
    BY <2>2, <2>3
<1> DEFINE D == {p \in Pairs : p \subseteq query.initial /\ p \notin Diagonal}
<1>3. DOMAIN Candidates = D /\ \A p \in D : Candidates[p] = PairWord(aut, "resolution", query.records, p)
  BY DEF Candidates
<1>4. Malformed \notin Range(Candidates)
  BY <1>2, <1>3 DEF Range
<1>5. Available(Candidates) # {} <=> Resolvable
  BY <1>2, <1>3 DEF Available, Resolvable
<1>6. ASSUME NEW w \in Resolving(Candidates) PROVE Executable(w)
  <2>1. PICK p \in Available(Candidates) : w = Candidates[p].word
    BY DEF Resolving
  <2>2. w \in Seq(Actions)
    BY <2>1, CandidateResolves
  <2>3. Range(w) \subseteq Actions
    BY <2>2 DEF Range
  <2>4. QED
    BY <1>1, <2>3 DEF Executable
<1>7. QED
  BY <1>4, <1>5, <1>6

\* Nothing resolvable: the search starts with all states together.
LEMMA OriginWhole ==
  ASSUME query \in Queries, Settling, ~Resolvable
  PROVE  Whole({query.initial})
<1>1. query.initial \in Supports /\ aut \in Automata
  BY CallTypes
<1>2. query.records = ExactRecords(aut, "resolution")
  BY DEF Settling, Exact
<1>3. ASSUME NEW x \in query.initial, NEW y \in query.initial, x # y
      PROVE  ExactDistances(aut, "resolution")[{x, y}] = None
  <2>1. {x, y} \in Pairs /\ {x, y} \notin Diagonal
    BY <1>1, <1>3 DEF Supports, Pairs, Diagonal
  <2>2. query.records[{x, y}].dist = None
    BY <2>1 DEF Resolvable
  <2>3. QED
    BY <1>1, <1>2, <2>1, <2>2, ExactRecordsFit
<1>4. QED
  BY <1>1, <1>3 DEF Whole

\* An action keeps states together that no word tells apart: what it shows is the
\* same for all of them, it sends no two to one, and no word tells apart what it
\* makes of them.
LEMMA WholeMoves ==
  ASSUME query \in Queries, NEW partition, Whole(partition), NEW a \in Actions
  PROVE  Whole(Parted(partition, a))
<1>1. aut \in Automata /\ Cardinality(query.initial) \in Nat \ {0}
  <2>1. query.initial \in Supports /\ query.initial # {} /\ aut \in Automata
    BY CallTypes
  <2>2. IsFiniteSet(query.initial) /\ Cardinality(query.initial) \in Nat
    BY <2>1, FiniteSupports
  <2>3. QED
    BY <2>1, <2>2, FS_EmptySet
<1> DEFINE dist == ExactDistances(aut, "resolution")
<1>2. PICK s \in Supports :
        /\ partition = {s} /\ Cardinality(s) = Cardinality(query.initial)
        /\ \A x, y \in s : x # y => dist[{x, y}] = None
  BY DEF Whole
<1>3. s \subseteq States /\ s # {} /\ IsFiniteSet(s)
  BY <1>1, <1>2, FiniteSupports, FS_EmptySet DEF Supports
<1> DEFINE go(x) == aut.delta[<<x, a>>]
           shown(x) == aut.eta[<<x, a>>]
<1>4. ASSUME NEW x \in s PROVE go(x) \in States
  BY <1>1, <1>3 DEF Automata, Cells
<1>5. ASSUME NEW x \in s, NEW y \in s, x # y
      PROVE  /\ {x, y} \in Pairs /\ {go(x), go(y)} \in Pairs
             /\ ~Terminal(aut, "resolution", {x, y}, a)
             /\ Target(aut, {x, y}, a) = {go(x), go(y)}
             /\ dist[{go(x), go(y)}] = None
  <2>1. PICK p \in Pairs : p = {x, y}
    <3>1. x \in States /\ y \in States
      BY <1>3
    <3> HIDE DEF go
    <3>2. {x, y} \in Pairs
      BY <3>1 DEF Pairs
    <3>3. QED
      BY <3>2
  <2>2. PICK q \in Pairs : q = {go(x), go(y)} /\ q = Target(aut, p, a)
    <3>1. Target(aut, p, a) = {go(x), go(y)}
      BY <2>1 DEF Target
    <3>2. QED
      BY <1>1, <3>1, TargetType
  <2>3. dist[p] = None /\ None \notin Nat
    BY <1>2, <1>5, <2>1 DEF None
  <2>4. /\ Terminal(aut, "resolution", p, a) => dist[p] \in 0 .. 1
        /\ \A j \in Nat : dist[q] = j => dist[p] \in 0 .. (j + 1)
    BY <1>1, <2>2, ExactClosed
  <2>5. dist[q] \in Distances
    BY <1>1, ExactDistanceIn
  <2> HIDE DEF dist
  <2>6. ~Terminal(aut, "resolution", p, a) /\ dist[q] = None
    BY <2>3, <2>4, <2>5 DEF Distances
  <2>7. QED
    BY <2>1, <2>2, <2>6
<1>6. \A x, y \in s : shown(x) = shown(y)
  <2>1. ASSUME NEW x \in s, NEW y \in s, x # y PROVE shown(x) = shown(y)
    <3>1. ~Terminal(aut, "resolution", {x, y}, a)
      BY <1>5, <2>1
    <3>2. QED
      BY <3>1 DEF Terminal, OutputsDiffer
  <2>2. QED
    BY <2>1
<1>7. \A x, y \in s : x # y => go(x) # go(y)
  <2>1. ASSUME NEW x \in s, NEW y \in s, x # y, go(x) = go(y) PROVE FALSE
    <3>1. dist[{go(x)}] = None /\ {go(x)} \in Pairs
      <4>1. {go(x), go(y)} = {go(x)}
        BY <2>1
      <4>2. QED
        BY <1>5, <2>1, <4>1
    <3>2. {go(x)} \in Diagonal
      BY <1>4 DEF Diagonal
    <3>3. dist[{go(x)}] = 0
      BY <1>1, <3>1, <3>2, ExactAttained
    <3>4. QED
      BY <3>1, <3>3 DEF None
  <2>2. QED
    BY <2>1
<1>8. PICK m : m = {go(x) : x \in s}
  OBVIOUS
<1>9. PICK o : \A x \in s : shown(x) = o
  <2>1. PICK z \in s : TRUE
    BY <1>3
  <2>2. \A x \in s : shown(x) = shown(z)
    BY <1>6
  <2>3. QED
    BY <2>2
<1>10. Parted(partition, a) = {m}
  <2>1. Showing(aut, s, a) = {o}
    BY <1>3, <1>9 DEF Showing
  <2>2. {x \in s : aut.eta[<<x, a>>] = o} = s
    BY <1>9
  <2>3. Observed(aut, s, a, o) = m
    BY <1>8, <2>2 DEF Observed, Moved
  <2>4. QED
    BY <1>2, <2>1, <2>3 DEF Parted
<1>11. Cardinality(m) = Cardinality(s)
  <2> DEFINE f == [x \in s |-> go(x)]
  <2>1. f \in Bijection(s, m)
    <3>1. f \in [s -> m] /\ \A u \in m : \E x \in s : f[x] = u
      BY <1>8
    <3>2. \A x, y \in s : f[x] = f[y] => x = y
      BY <1>7
    <3> HIDE DEF f
    <3>3. QED
      BY <3>1, <3>2 DEF Bijection, Injection, Surjection, IsInjective
  <2> HIDE DEF f
  <2>2. ExistsBijection(s, m)
    BY <2>1 DEF ExistsBijection
  <2>3. QED
    BY <1>3, <2>2, FS_Bijection
<1>12. m \in Supports
  BY <1>4, <1>8 DEF Supports
<1>13. ASSUME NEW u \in m, NEW v \in m, u # v PROVE dist[{u, v}] = None
  <2>1. PICK x, y \in s : u = go(x) /\ v = go(y)
    BY <1>8
  <2>2. x # y
    BY <1>13, <2>1
  <2>3. QED
    BY <1>5, <2>1, <2>2
<1>14. QED
  BY <1>2, <1>10, <1>11, <1>12, <1>13 DEF Whole

\* States that stay together are too many.
LEMMA WholeOpen ==
  ASSUME query \in Queries, Settling, NEW partition, Whole(partition)
  PROVE  LargestIn(partition) > query.bound
<1>1. PICK s \in Supports : partition = {s} /\ Cardinality(s) = Cardinality(query.initial)
  BY DEF Whole
<1>2. LargestIn(partition) = Cardinality(s) /\ Cardinality(s) \in Nat
  BY <1>1, OneSupport
<1>3. query.bound = Cardinality(s) - 1
  BY <1>1 DEF Settling
<1>4. QED
  BY <1>2, <1>3

\* Until the answer, no search starts while some pair can be resolved, and the
\* search never leaves the partitions that keep all states together.
SettledInv ==
  /\ BreadthInv /\ LowerBoundSettled
  /\ Settling =>
       /\ at \in {"queue", "search"} => ~Resolvable
       /\ at = "search" => \A i \in DOMAIN nodes : Whole(nodes[i].partition)

LEMMA SettledCall ==
  ASSUME query' = query
  PROVE  /\ Settling' = Settling /\ Resolvable' = Resolvable
         /\ \A c : Whole(c)' = Whole(c)
<1>1. aut' = aut /\ letters' = letters
  BY DEF aut, letters
<1>2. QED
  BY <1>1 DEF Settling, Exact, Resolvable, Whole

\* The answer that a call has to end with.
Settles(result, queue) ==
  IF Resolvable THEN result = "PLAN" /\ queue = <<>>
  ELSE result \in {"NO_PLAN", "RESOURCE_BOUND"}

\* A step that ends a call, with the right answer when the bound is this one.
LEMMA SettledEnds ==
  ASSUME BreadthInv', query' = query, at' = "done",
         Settling => Settles(outcome', nodes')
  PROVE  SettledInv'
<1>1. Settling' = Settling /\ Resolvable' = Resolvable
  BY SettledCall
<1>2. LowerBoundSettled'
  BY <1>1 DEF LowerBoundSettled, Settles, Settling, Resolvable
<1>3. QED
  BY <1>2 DEF SettledInv

\* A step on the way to the search.
LEMMA SettledGoesOn ==
  ASSUME BreadthInv', query' = query, at' \in {"heuristic", "queue"},
         Settling /\ at' = "queue" => ~Resolvable
  PROVE  SettledInv'
<1>1. Settling' = Settling /\ Resolvable' = Resolvable
  BY SettledCall
<1>2. QED
  BY <1>1 DEF SettledInv, LowerBoundSettled

\* A step of the search that keeps to partitions with all states together.
LEMMA SettledSearches ==
  ASSUME SettledInv, BreadthInv', query' = query, at \in {"queue", "search"}, at' = "search",
         Settling => \A i \in DOMAIN nodes' : Whole(nodes'[i].partition)
  PROVE  SettledInv'
<1>1. Settling' = Settling /\ Resolvable' = Resolvable /\ \A c : Whole(c)' = Whole(c)
  BY SettledCall
<1>2. PICK q : q = nodes'
  OBVIOUS
<1>3. Settling => \A i \in DOMAIN q : Whole(q[i].partition)
  BY <1>2
<1>4. Settling' => \A i \in DOMAIN nodes' : Whole(nodes[i].partition)'
  <2>1. ASSUME Settling, NEW i \in DOMAIN q PROVE Whole(nodes[i].partition)'
    <3>1. PICK c : c = q[i].partition
      OBVIOUS
    <3>2. Whole(c)'
      BY <1>1, <1>3, <2>1, <3>1
    <3>3. nodes'[i].partition = c
      BY <1>2, <3>1
    <3>4. QED
      BY <3>2, <3>3 DEF Whole
  <2>2. QED
    BY <1>1, <1>2, <2>1
<1>5. QED
  BY <1>1, <1>4 DEF SettledInv, LowerBoundSettled

\* The phase of the words: with exact records it plans if and only if it can.
LEMMA SettledByWords ==
  ASSUME SettledInv, BreadthInv',
         Start \/ HeuristicRefused \/ HeuristicPlan \/ HeuristicShort \/ HeuristicNone
  PROVE  SettledInv'
<1>1. query \in Queries /\ query' = query
  BY DEF SettledInv, BreadthInv, PhaseInv, BudgetInv, SearchInv, SearchTypes, Start,
         HeuristicRefused, HeuristicPlan, HeuristicShort, HeuristicNone, Finalize, Finish
<1>2. query.bound \in Nat \ {0} /\ Cardinality(query.initial) \in Nat
  BY <1>1, QueryTypes, CallTypes, FiniteSupports
<1>3. Settling => /\ query.bound < Cardinality(query.initial)
                  /\ \A n \in Nat : n < Cardinality(query.initial) <=> n <= query.bound
  BY <1>2 DEF Settling
<1>4. Settling => /\ Malformed \notin Range(Candidates)
                  /\ Available(Candidates) # {} <=> Resolvable
                  /\ \A w \in Resolving(Candidates) : Executable(w)
  BY <1>1, ExactCandidates DEF Settling
<1>5. ASSUME NEW w \in Resolving(Candidates)
      PROVE  /\ Available(Candidates) # {}
             /\ Settling => Worst(Branches(w)) <= query.bound
  <2>1. PICK p \in Available(Candidates) :
          w = Candidates[p].word /\ Worst(Branches(w)) < Cardinality(query.initial)
    BY DEF Resolving
  <2>2. w \in Seq(Actions)
    BY <1>1, <2>1, CandidateResolves
  <2>3. Worst(Branches(w)) \in Nat
    BY <1>1, <2>2, LeavesType, LargestOf, WorstIs
  <2>4. QED
    BY <1>3, <2>1, <2>3
<1>6. CASE Start
  <2>1. CASE at' = "done"
    <3>1. ~Settling
      BY <1>2, <1>3, <1>6, <2>1 DEF Start, Satisfied, Finalize, Finish
    <3>2. QED
      BY <1>1, <2>1, <3>1, SettledEnds
  <2>2. CASE at' = "heuristic"
    BY <1>1, <2>2, SettledGoesOn
  <2>3. QED
    BY <1>6, <2>1, <2>2 DEF Start, Finalize, Finish
<1>7. CASE HeuristicRefused
  <2>1. at' = "done" /\ ~Settling
    BY <1>4, <1>7 DEF HeuristicRefused, Finish
  <2>2. QED
    BY <1>1, <2>1, SettledEnds
<1>8. CASE HeuristicPlan
  <2>1. PICK w \in Resolving(Candidates) : Worst(Branches(w)) <= query.bound /\ Finalize(w, "PLAN")
    BY <1>8 DEF HeuristicPlan
  <2>2. at' = "done" /\ outcome' = "PLAN" /\ nodes' = nodes
    BY <1>8, <2>1 DEF HeuristicPlan, Finalize, Finish
  <2>3. nodes = <<>>
    BY <1>8 DEF SettledInv, BreadthInv, HeuristicPlan
  <2>4. Settling => Resolvable
    BY <1>4, <1>5
  <2>5. QED
    BY <1>1, <2>2, <2>3, <2>4, SettledEnds DEF Settles
<1>9. CASE HeuristicShort
  <2>1. PICK w \in Resolving(Candidates) : Worst(Branches(w)) > query.bound /\ Executable(w)
    BY <1>9 DEF HeuristicShort
  <2>2. ~Settling
    <3>1. SUFFICES ASSUME Settling PROVE FALSE
      OBVIOUS
    <3>2. Worst(Branches(w)) <= query.bound
      BY <1>5, <3>1
    <3>3. PICK p \in Available(Candidates) : w = Candidates[p].word
      BY DEF Resolving
    <3>4. Worst(Branches(w)) \in Nat
      BY <1>1, <3>3, CandidateResolves, LeavesType, LargestOf, WorstIs
    <3>5. QED
      BY <1>2, <2>1, <3>2, <3>4
  <2>3. at' = "queue"
    BY <1>9 DEF HeuristicShort
  <2>4. QED
    BY <1>1, <2>2, <2>3, SettledGoesOn
<1>10. CASE HeuristicNone
  <2>1. \A w \in Resolving(Candidates) : ~Executable(w)
    BY <1>10 DEF HeuristicNone
  <2>2. Settling => ~Resolvable
    BY <1>1, <1>4, <2>1, BestChosen
  <2>3. at' = "queue"
    BY <1>10 DEF HeuristicNone
  <2>4. QED
    BY <1>1, <2>2, <2>3, SettledGoesOn
<1>11. QED
  BY <1>6, <1>7, <1>8, <1>9, <1>10

\* What the search makes of partitions that keep all states together.
LEMMA SettledSuccessor ==
  ASSUME SettledInv, Settling, at = "search", letter <= Len(letters)
  PROVE  Whole(Successor) /\ LargestIn(Successor) > query.bound
<1>1. /\ query \in Queries /\ TreeOf(nodes) /\ head \in 1 .. Len(nodes)
      /\ letter \in 1 .. Len(letters)
  BY InSearch DEF SettledInv, BreadthInv
<1>2. head \in DOMAIN nodes
  BY <1>1 DEF TreeOf
<1>3. Whole(nodes[head].partition)
  BY <1>2 DEF SettledInv
<1>4. letters[letter] \in Actions
  BY <1>1, CallTypes
<1>5. Whole(Successor)
  BY <1>1, <1>3, <1>4, WholeMoves DEF Successor
<1>6. QED
  BY <1>1, <1>5, WholeOpen

LEMMA SettledStep ==
  ASSUME SettledInv, [Next]_vars
  PROVE  SettledInv'
<1>1. BreadthInv'
  BY BreadthStep DEF SettledInv
<1>2. query \in Queries
  BY DEF SettledInv, BreadthInv, PhaseInv, BudgetInv, SearchInv, SearchTypes
<1>3. CASE Start \/ HeuristicRefused \/ HeuristicPlan \/ HeuristicShort \/ HeuristicNone
  BY <1>1, <1>3, SettledByWords
<1>4. CASE SearchStart
  <2>1. /\ at = "queue" /\ at' = "search" /\ query' = query
        /\ nodes' = <<Node({query.initial}, 0, None)>>
    BY <1>4 DEF SearchStart, Origin
  <2>2. Settling => Whole({query.initial})
    BY <1>2, <2>1, OriginWhole DEF SettledInv
  <2>3. PICK c : c = {query.initial}
    OBVIOUS
  <2>4. \A i \in DOMAIN nodes' : nodes'[i].partition = c
    BY <2>1, <2>3 DEF Node
  <2>5. Settling => \A i \in DOMAIN nodes' : Whole(nodes'[i].partition)
    BY <2>2, <2>3, <2>4
  <2>6. QED
    BY <1>1, <2>1, <2>5, SettledSearches
<1>5. CASE SearchBound \/ SearchExhausted
  <2>1. /\ at = "search" /\ at' = "done" /\ query' = query
        /\ outcome' \in {"NO_PLAN", "RESOURCE_BOUND"}
    BY <1>5 DEF SearchBound, SearchExhausted, Between, Finish
  <2>2. Settling => ~Resolvable
    BY <2>1 DEF SettledInv
  <2>3. QED
    BY <1>1, <2>1, <2>2, SettledEnds DEF Settles
<1>6. CASE SearchExpand \/ SearchKnown
  <2>1. at = "search" /\ at' = "search" /\ query' = query /\ nodes' = nodes
    BY <1>6 DEF SearchExpand, SearchKnown, Between
  <2>2. QED
    BY <1>1, <2>1, SettledSearches DEF SettledInv
<1>7. CASE SearchNew
  <2>1. /\ at = "search" /\ at' = "search" /\ query' = query /\ letter <= Len(letters)
        /\ nodes' = Append(nodes, Node(Successor, head, letters[letter]))
    BY <1>7 DEF SearchNew, Enqueued
  <2>2. PICK e : e = Node(Successor, head, letters[letter])
    OBVIOUS
  <2>3. nodes \in Seq(NodeRecords)
    BY DEF SettledInv, BreadthInv, PhaseInv, BudgetInv, SearchInv, SearchTypes
  <2>4. \A i \in DOMAIN nodes' : (i \in DOMAIN nodes /\ nodes'[i] = nodes[i]) \/ nodes'[i] = e
    BY <2>1, <2>2, <2>3
  <2>5. e.partition = Successor
    BY <2>2 DEF Node
  <2>6. Settling => \A i \in DOMAIN nodes' : Whole(nodes'[i].partition)
    <3>1. SUFFICES ASSUME Settling, NEW i \in DOMAIN nodes' PROVE Whole(nodes'[i].partition)
      OBVIOUS
    <3>2. Whole(Successor)
      BY <2>1, <3>1, SettledSuccessor
    <3>3. \A k \in DOMAIN nodes : Whole(nodes[k].partition)
      BY <2>1, <3>1 DEF SettledInv
    <3>4. QED
      BY <2>4, <2>5, <3>2, <3>3
  <2>7. QED
    BY <1>1, <2>1, <2>6, SettledSearches
<1>8. CASE SearchFound
  <2>1. /\ at = "search" /\ at' = "done" /\ query' = query /\ letter <= Len(letters)
        /\ LargestIn(Successor) <= query.bound
    BY <1>8 DEF SearchFound, Finalize, Finish
  <2>2. ~Settling
    <3>1. SUFFICES ASSUME Settling PROVE FALSE
      OBVIOUS
    <3>2. LargestIn(Successor) > query.bound /\ Whole(Successor)
      BY <2>1, <3>1, SettledSuccessor
    <3>3. PICK s \in Supports : Successor = {s}
      BY <3>2 DEF Whole
    <3>4. LargestIn(Successor) \in Nat /\ query.bound \in Nat
      BY <1>2, <3>3, OneSupport, QueryTypes
    <3>5. QED
      BY <2>1, <3>2, <3>4
  <2>3. QED
    BY <1>1, <2>1, <2>2, SettledEnds
<1>9. CASE UNCHANGED vars
  <2>1. query' = query /\ at' = at /\ nodes' = nodes /\ outcome' = outcome
    BY <1>9 DEF vars
  <2>2. CASE at = "done"
    <3>1. Settling => Settles(outcome', nodes')
      BY <2>1, <2>2 DEF SettledInv, LowerBoundSettled, Settles, Settling, Resolvable
    <3>2. QED
      BY <1>1, <2>1, <2>2, <3>1, SettledEnds
  <2>3. CASE at \in {"heuristic", "queue"}
    BY <1>1, <2>1, <2>3, SettledGoesOn DEF SettledInv
  <2>4. CASE at = "search"
    BY <1>1, <2>1, <2>4, SettledSearches DEF SettledInv
  <2>5. CASE at = "start"
    BY <1>1, <2>1, <2>5 DEF SettledInv, LowerBoundSettled
  <2>6. QED
    BY <2>2, <2>3, <2>4, <2>5 DEF SettledInv, BreadthInv, PhaseInv, BudgetInv, SearchInv, SearchTypes
<1>10. QED
  BY <1>3, <1>4, <1>5, <1>6, <1>7, <1>8, <1>9 DEF Next, Returned

\* "Caller-controlled disambiguation policy (bound=1, then h-1 after proven
\* absence)" (HACKING.md), for every automaton, initial support and budget: with
\* exact records and all actions the bound h - 1 needs no search when some pair
\* can be resolved, and when none can be the search never plans.
THEOREM LowerBoundAlwaysSettled == Spec => []LowerBoundSettled
<1>1. ASSUME Init PROVE SettledInv
  <2>1. BreadthInv
    BY <1>1, PhaseStarts DEF BreadthInv, Init, SearchPlanShortest
  <2>2. QED
    BY <1>1, <2>1 DEF SettledInv, LowerBoundSettled, Init
<1>2. SettledInv => LowerBoundSettled
  BY DEF SettledInv
<1>3. QED
  BY <1>1, <1>2, SettledStep, PTL DEF Spec
=============================================================================
