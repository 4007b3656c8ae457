------------------------- MODULE SupportSearchProofs -------------------------
(***************************************************************************)
(* The word of a plan does what was asked, a plan of the search is a       *)
(* shortest one, NO_PLAN is a proof that no word will do, a call keeps its *)
(* budget and never runs out of one for every merge and every support      *)
(* within reach, and the three ways to a merge agree: theorems of          *)
(* SupportSearch for every automaton, table of records, list of permitted  *)
(* actions and budget.                                                     *)
(*                                                                         *)
(* The inductive invariant follows the search: the initial support is the  *)
(* first node, no node will do, and the images of the nodes dequeued so far*)
(* are stored, of the last one those under the letters applied so far.     *)
(* Along the tree of nodes a node is the image under its word, and its     *)
(* depth grows with its place.                                             *)
(***************************************************************************)
EXTENDS SupportSearch, PairGraphProofs

Stored == {nodes[i].support : i \in DOMAIN nodes}

NodeRecords == [support : Supports, parent : Nat, act : Actions \cup {None}]

SearchTypes ==
  /\ query \in Queries
  /\ at \in {"start", "greedy", "queue", "search", "done"}
  /\ nodes \in Seq(NodeRecords) /\ head \in 0 .. Len(nodes)
  /\ letter \in 1 .. Len(letters) + 1

\* The node that is being expanded, and its first letters that were applied.
Expanding ==
  /\ letter <= Len(letters) => head # 0
  /\ head # 0 => \A j \in 1 .. letter - 1 : Image(nodes[head].support, letters[j]) \in Stored

Searched ==
  /\ nodes # <<>> /\ nodes[1].support = query.initial
  /\ \A i \in DOMAIN nodes : ~Satisfied(nodes[i].support)
  /\ \A i \in 1 .. head - 1, j \in DOMAIN letters :
       Image(nodes[i].support, letters[j]) \in Stored
  /\ Expanding

SearchInv ==
  /\ SearchTypes
  /\ at # "done" => outcome = "NONE"
  /\ at \in {"greedy", "queue"} => ~Satisfied(query.initial)
  /\ at \in {"start", "greedy", "queue"} => head = 0 /\ letter = Len(letters) + 1
  /\ at = "search" => Searched
  /\ outcome = "NO_PLAN" => Searched /\ head = Len(nodes) /\ letter = Len(letters) + 1

\* The parts of a call that every step can rely on.
LEMMA QueryTypes ==
  ASSUME query \in Queries
  PROVE  /\ letters \in Seq(Actions) /\ letters # <<>>
         /\ query.initial \in Supports /\ query.budget \in Nat \ {0}
         /\ aut.delta \in [Cells -> States]
BY SearchAssumption DEF aut, letters, Automata

\* The image of a support is a support.
LEMMA ImageType ==
  ASSUME query \in Queries, NEW s \in Supports, NEW a \in Actions
  PROVE  Image(s, a) \in Supports
BY QueryTypes DEF Image, Supports, Cells

\* The automaton, its letters and what is looked for belong to the call.
LEMMA SameCall ==
  ASSUME query' = query
  PROVE  /\ letters' = letters
         /\ \A s, a : Image(s, a)' = Image(s, a)
BY DEF letters, Image, aut

\* What was searched stays searched while the queue and its position stay.
LEMMA SearchedKept ==
  ASSUME Searched, UNCHANGED <<query, nodes, head, letter>>
  PROVE  Searched'
<1>1. query' = query /\ nodes' = nodes /\ head' = head /\ letter' = letter
  OBVIOUS
<1>2. letters' = letters /\ Stored' = Stored
  BY <1>1 DEF letters, Stored
<1>3. \A i \in DOMAIN nodes' : ~Satisfied(nodes[i].support)'
  BY <1>1 DEF Searched, Satisfied
<1>4. \A i \in 1 .. head' - 1, j \in DOMAIN letters' :
        Image(nodes[i].support, letters[j])' \in Stored'
  BY <1>1, <1>2, SameCall DEF Searched
<1>5. Expanding'
  <2>1. aut' = aut
    BY <1>1 DEF aut
  <2>2. Expanding
    BY DEF Searched
  <2>3. QED
    BY <1>1, <1>2, <2>1, <2>2 DEF Expanding, Image
<1>. QED
  BY <1>1, <1>3, <1>4, <1>5 DEF Searched

\* A call starts with an empty queue and nothing found.
LEMMA StartsSound == Init => SearchInv
<1>1. SUFFICES ASSUME Init PROVE SearchInv
  OBVIOUS
<1>2. query \in Queries /\ nodes = <<>> /\ head = 0 /\ letter = Len(letters) + 1
  BY <1>1 DEF Init, letters
<1>3. Len(letters) \in Nat
  BY <1>2, QueryTypes
<1>4. SearchTypes
  <2>1. nodes \in Seq(NodeRecords) /\ head \in 0 .. Len(nodes)
    BY <1>2
  <2>. QED
    BY <1>1, <1>2, <1>3, <2>1 DEF Init, SearchTypes
<1>. QED
  BY <1>1, <1>2, <1>4 DEF Init, SearchInv

\* A step that leaves the queue alone and does not end in NO_PLAN.
LEMMA QueueKept ==
  ASSUME SearchInv, UNCHANGED <<query, nodes, head, letter>>,
         at' \in {"greedy", "queue", "search", "done"},
         at' # "done" => outcome' = "NONE" /\ at' # "search",
         at' \in {"greedy", "queue"} =>
           at \in {"start", "greedy", "queue"} /\ ~Satisfied(query.initial),
         outcome' # "NO_PLAN"
  PROVE  SearchInv'
<1>1. SearchTypes'
  BY DEF SearchInv, SearchTypes, letters
<1>2. at' \in {"greedy", "queue"} => ~Satisfied(query.initial)'
  BY DEF Satisfied
<1>. QED
  BY <1>1, <1>2 DEF SearchInv, letters

\* A call that ends with another result than NO_PLAN leaves the queue alone.
LEMMA FinishSound ==
  ASSUME SearchInv, NEW result, Finish(result), result # "NO_PLAN"
  PROVE  SearchInv'
BY QueueKept DEF Finish

\* The replay of a word ends the call, whether it accepts the word or not.
LEMMA FinalizeSound ==
  ASSUME SearchInv, NEW w, NEW result, Finalize(w, result), result # "NO_PLAN"
  PROVE  SearchInv'
BY FinishSound DEF Finalize

-----------------------------------------------------------------------------
(* The steps of the search. *)

\* The queue starts with the initial support, which will not do.
LEMMA SearchStartSound ==
  ASSUME SearchInv, SearchStart
  PROVE  SearchInv'
<1>1. /\ at = "queue" /\ at' = "search" /\ query' = query /\ outcome' = outcome
      /\ head' = head /\ letter' = letter
      /\ nodes' = <<Node(query.initial, 0, None)>>
  BY DEF SearchStart, SearchFrom
<1>2. query \in Queries /\ head = 0 /\ letter = Len(letters) + 1
      /\ outcome = "NONE" /\ ~Satisfied(query.initial)
  BY <1>1 DEF SearchInv, SearchTypes
<1>3. Len(letters) \in Nat /\ query.initial \in Supports
  BY <1>2, QueryTypes
<1>4. Node(query.initial, 0, None) \in NodeRecords
  BY <1>3 DEF Node, NodeRecords
<1>5. nodes' \in Seq(NodeRecords) /\ Len(nodes') = 1 /\ nodes'[1] = Node(query.initial, 0, None)
  BY <1>1, <1>4
<1>6. SearchTypes'
  BY <1>1, <1>2, <1>3, <1>5 DEF SearchTypes, letters
<1>7. DOMAIN nodes' = {1} /\ nodes'[1].support = query.initial
  BY <1>5 DEF Node
<1>8. Searched'
  BY <1>1, <1>2, <1>3, <1>5, <1>7 DEF Searched, Expanding, Satisfied, letters
<1>. QED
  BY <1>1, <1>2, <1>6, <1>8 DEF SearchInv

\* A spent budget ends the search without a claim about the supports.
LEMMA SearchBoundSound ==
  ASSUME SearchInv, SearchBound
  PROVE  SearchInv'
BY FinishSound DEF SearchBound

\* Everything in the queue was expanded: what is stored is a certificate.
LEMMA SearchExhaustedSound ==
  ASSUME SearchInv, SearchExhausted
  PROVE  SearchInv'
<1>1. /\ at = "search" /\ letter > Len(letters) /\ head = Len(nodes)
      /\ at' = "done" /\ UNCHANGED <<query, nodes, head, letter>>
  BY DEF SearchExhausted, Between, Finish
<1>2. SearchTypes /\ Searched
  BY <1>1 DEF SearchInv
<1>3. Len(letters) \in Nat
  BY <1>2, QueryTypes DEF SearchTypes
<1>4. letter = Len(letters) + 1
  BY <1>1, <1>2, <1>3 DEF SearchTypes
<1>5. SearchTypes'
  BY <1>1, <1>2 DEF SearchTypes, letters
<1>6. Searched'
  BY <1>1, <1>2, SearchedKept
<1>. QED
  BY <1>1, <1>4, <1>5, <1>6 DEF SearchInv, letters

\* The node that was expanded last has all its images stored when the next one
\* is taken.
LEMMA SearchExpandSound ==
  ASSUME SearchInv, SearchExpand
  PROVE  SearchInv'
<1>1. /\ at = "search" /\ at' = "search" /\ letter > Len(letters) /\ head < Len(nodes)
      /\ head' = head + 1 /\ letter' = 1
      /\ UNCHANGED <<query, nodes, outcome>>
  BY DEF SearchExpand, Between
<1>2. SearchTypes /\ Searched /\ outcome = "NONE"
  BY <1>1 DEF SearchInv
<1>3. letters \in Seq(Actions) /\ Len(letters) \in Nat
  BY <1>2, QueryTypes DEF SearchTypes
<1>4. SearchTypes'
  BY <1>1, <1>2, <1>3 DEF SearchTypes, letters
<1>5. Stored' = Stored
  BY <1>1 DEF Stored
<1>6. ASSUME NEW i \in 1 .. head, NEW j \in DOMAIN letters
      PROVE  Image(nodes[i].support, letters[j]) \in Stored
  <2>1. CASE i = head
    <3>1. head # 0 /\ j \in 1 .. letter - 1
      BY <1>1, <1>2, <1>3, <2>1 DEF SearchTypes
    <3>. QED
      BY <1>2, <2>1, <3>1 DEF Searched, Expanding
  <2>2. CASE i # head
    BY <1>2, <2>2 DEF Searched, SearchTypes
  <2>. QED
    BY <2>1, <2>2
<1>7. letters' = letters /\ head' - 1 = head /\ head' # 0 /\ 1 .. letter' - 1 = {}
  BY <1>1, <1>2 DEF letters, SearchTypes
<1>8. \A i \in DOMAIN nodes' : ~Satisfied(nodes[i].support)'
  BY <1>1, <1>2 DEF Searched, Satisfied
<1>9. \A i \in 1 .. head' - 1, j \in DOMAIN letters' :
        Image(nodes[i].support, letters[j])' \in Stored'
  BY <1>1, <1>5, <1>6, <1>7, SameCall
<1>10. nodes' # <<>> /\ nodes'[1].support = query'.initial
  BY <1>1, <1>2 DEF Searched
<1>11. Searched'
  BY <1>7, <1>8, <1>9, <1>10 DEF Searched, Expanding
<1>. QED
  BY <1>1, <1>2, <1>4, <1>11 DEF SearchInv

\* The image that was just computed is stored, whether or not it was new.
LEMMA SearchLetterSound ==
  ASSUME SearchInv, SearchLetter
  PROVE  SearchInv'
<1>1. /\ at = "search" /\ at' = "search" /\ letter <= Len(letters)
      /\ ~Satisfied(Successor) /\ letter' = letter + 1 /\ head' = head
      /\ UNCHANGED <<query, outcome>>
      /\ nodes' = IF ~Known(Successor)
                  THEN Append(nodes, Node(Successor, head, letters[letter])) ELSE nodes
  BY DEF SearchLetter, Kept, Enqueued
<1>2. SearchTypes /\ Searched /\ outcome = "NONE" /\ query \in Queries
  BY <1>1 DEF SearchInv, SearchTypes
<1>3. letters \in Seq(Actions) /\ Len(letters) \in Nat /\ letter \in 1 .. Len(letters)
  BY <1>1, <1>2, QueryTypes DEF SearchTypes
<1>4. head \in 1 .. Len(nodes) /\ nodes \in Seq(NodeRecords) /\ letters[letter] \in Actions
  BY <1>1, <1>2, <1>3 DEF SearchTypes, Searched, Expanding
<1>5. nodes[head].support \in Supports
  <2>1. nodes[head] \in NodeRecords
    BY <1>4
  <2>. QED
    BY <2>1 DEF NodeRecords
<1>6. Successor \in Supports
  BY <1>2, <1>4, <1>5, ImageType DEF Successor
<1>7. Node(Successor, head, letters[letter]) \in NodeRecords
  BY <1>4, <1>6 DEF Node, NodeRecords
<1>8. /\ nodes' \in Seq(NodeRecords) /\ Len(nodes') >= Len(nodes)
      /\ \A i \in DOMAIN nodes : i \in DOMAIN nodes' /\ nodes'[i] = nodes[i]
  BY <1>1, <1>4, <1>7
<1>9. SearchTypes'
  BY <1>1, <1>2, <1>3, <1>4, <1>8 DEF SearchTypes, letters
<1>10. \A i \in DOMAIN nodes' : i \in DOMAIN nodes \/ nodes'[i].support = Successor
  BY <1>1, <1>4, <1>7 DEF Node
<1>11. Stored \subseteq Stored'
  BY <1>8 DEF Stored
<1>12. Successor \in Stored'
  <2>1. CASE Known(Successor)
    BY <1>11, <2>1 DEF Known, Stored
  <2>2. CASE ~Known(Successor)
    <3>1. Len(nodes) + 1 \in DOMAIN nodes'
          /\ nodes'[Len(nodes) + 1] = Node(Successor, head, letters[letter])
      BY <1>1, <1>4, <1>7, <2>2
    <3>. QED
      BY <3>1 DEF Stored, Node
  <2>. QED
    BY <2>1, <2>2
<1>13. nodes' # <<>> /\ nodes'[1].support = query.initial
  BY <1>2, <1>4, <1>8 DEF Searched
<1>14. \A i \in DOMAIN nodes' : ~Satisfied(nodes'[i].support)
  BY <1>1, <1>2, <1>8, <1>10 DEF Searched
<1>15. \A i \in 1 .. head - 1, j \in DOMAIN letters :
         Image(nodes'[i].support, letters[j]) \in Stored'
  BY <1>2, <1>4, <1>8, <1>11 DEF Searched
<1>16. \A j \in 1 .. letter : Image(nodes'[head].support, letters[j]) \in Stored'
  <2>1. SUFFICES ASSUME NEW j \in 1 .. letter
                 PROVE  Image(nodes[head].support, letters[j]) \in Stored'
    BY <1>4, <1>8
  <2>2. CASE j = letter
    BY <1>12, <2>2 DEF Successor
  <2>3. CASE j # letter
    BY <1>2, <1>3, <1>4, <1>11, <2>3 DEF Searched, Expanding
  <2>. QED
    BY <2>2, <2>3
<1>17. letters' = letters /\ letter' - 1 = letter /\ head' # 0
  BY <1>1, <1>3, <1>4 DEF letters
<1>18. \A i \in DOMAIN nodes' : ~Satisfied(nodes[i].support)'
  BY <1>1, <1>14 DEF Satisfied
<1>19. \A i \in 1 .. head' - 1, j \in DOMAIN letters' :
         Image(nodes[i].support, letters[j])' \in Stored'
  <2>1. SUFFICES ASSUME NEW i \in 1 .. head - 1, NEW j \in DOMAIN letters
                 PROVE  Image(nodes[i].support, letters[j])' \in Stored'
    BY <1>1, <1>17
  <2>2. Image(nodes'[i].support, letters[j]) \in Stored'
    BY <1>15
  <2>. QED
    BY <1>1, <1>17, <2>2, SameCall
<1>20. \A j \in 1 .. letter' - 1 : Image(nodes[head].support, letters[j])' \in Stored'
  <2>1. SUFFICES ASSUME NEW j \in 1 .. letter
                 PROVE  Image(nodes[head].support, letters[j])' \in Stored'
    BY <1>17
  <2>2. Image(nodes'[head].support, letters[j]) \in Stored'
    BY <1>16
  <2>. QED
    BY <1>1, <1>17, <2>2, SameCall
<1>21. Searched'
  BY <1>1, <1>13, <1>17, <1>18, <1>19, <1>20 DEF Searched, Expanding
<1>. QED
  BY <1>1, <1>2, <1>9, <1>21 DEF SearchInv

-----------------------------------------------------------------------------
(* Every step. *)

\* Every step, and every stutter, keeps the invariant.
LEMMA StepSound ==
  ASSUME SearchInv, [Next]_vars
  PROVE  SearchInv'
<1>1. CASE Start
  <2>1. CASE Finalize(<<>>, "ALREADY_SATISFIED")
    BY <2>1, FinalizeSound
  <2>2. CASE ~Finalize(<<>>, "ALREADY_SATISFIED")
    BY <1>1, <2>2, QueueKept DEF Start, SearchInv
  <2>. QED
    BY <2>1, <2>2
<1>2. CASE GreedyStep
  BY <1>2, QueueKept DEF GreedyStep, Greedy, SearchInv
<1>3. CASE GreedyRefused
  BY <1>3, FinishSound DEF GreedyRefused
<1>4. CASE GreedyMerged
  BY <1>4, FinalizeSound DEF GreedyMerged
<1>5. CASE GreedyStuck
  BY <1>5, QueueKept DEF GreedyStuck, SearchInv
<1>6. CASE SearchStart
  BY <1>6, SearchStartSound
<1>7. CASE SearchBound
  BY <1>7, SearchBoundSound
<1>8. CASE SearchExhausted
  BY <1>8, SearchExhaustedSound
<1>9. CASE SearchExpand
  BY <1>9, SearchExpandSound
<1>10. CASE SearchLetter
  BY <1>10, SearchLetterSound
<1>11. CASE SearchFound
  BY <1>11, FinalizeSound DEF SearchFound
<1>12. CASE UNCHANGED vars
  <2>1. SearchTypes'
    BY <1>12 DEF SearchInv, SearchTypes, vars, letters
  <2>2. Searched => Searched'
    BY <1>12, SearchedKept DEF vars
  <2>. QED
    BY <1>12, <2>1, <2>2 DEF SearchInv, Satisfied, vars, letters
<1>13. CASE Returned
  BY <1>12, <1>13 DEF Returned
<1>. QED
  BY <1>1, <1>2, <1>3, <1>4, <1>5, <1>6, <1>7, <1>8, <1>9, <1>10, <1>11, <1>12, <1>13 DEF Next

\* The invariant of the search holds in every state of every call.
THEOREM SearchSound == Spec => []SearchInv
BY StartsSound, StepSound, PTL DEF Spec

\* Whenever a planner answers NO_PLAN, for any automaton, any records and any
\* permitted actions, the supports it stored prove it right: no permitted
\* action leads out of them and none of them will do.
THEOREM NoPlanIsProof == Spec => []NoPlanCertified
<1>1. SearchInv => NoPlanCertified
  <2>1. SUFFICES ASSUME SearchInv, outcome = "NO_PLAN"
                 PROVE  Certificate(Stored)
    BY DEF NoPlanCertified, Stored
  <2>2. Searched /\ head = Len(nodes) /\ letter = Len(letters) + 1 /\ SearchTypes
    BY <2>1 DEF SearchInv
  <2>3. nodes \in Seq(NodeRecords) /\ letters \in Seq(Actions)
    BY <2>2, QueryTypes DEF SearchTypes
  <2>4. query.initial \in Stored
    <3>1. 1 \in DOMAIN nodes
      BY <2>2, <2>3 DEF Searched
    <3>. QED
      BY <2>2, <3>1 DEF Searched, Stored
  <2>5. ASSUME NEW i \in DOMAIN nodes, NEW a \in Range(letters)
        PROVE  Image(nodes[i].support, a) \in Stored
    <3>1. PICK j \in DOMAIN letters : a = letters[j]
      BY DEF Range
    <3>2. j \in 1 .. Len(letters) /\ i \in 1 .. head
      BY <2>2, <2>3
    <3>3. CASE i = head
      BY <2>2, <2>3, <3>1, <3>2, <3>3 DEF Searched, Expanding
    <3>4. CASE i # head
      BY <2>2, <3>1, <3>2, <3>4 DEF Searched
    <3>. QED
      BY <3>3, <3>4
  <2>. QED
    BY <2>2, <2>4, <2>5 DEF Certificate, Searched, Stored
<1>. QED
  BY <1>1, SearchSound, PTL

-----------------------------------------------------------------------------
(* The budget. *)

BudgetInv == SearchInv /\ expansions \in Nat /\ BudgetShared

\* A step spends one expansion, and only while some are left; giving up is the
\* other way round.
LEMMA StepBudget ==
  ASSUME BudgetInv, [Next]_vars
  PROVE  BudgetInv'
<1>1. SearchInv'
  BY StepSound DEF BudgetInv
<1>2. /\ expansions \in Nat /\ expansions <= query.budget
      /\ outcome = "RESOURCE_BOUND" => expansions = query.budget
      /\ query.budget \in Nat
      /\ at # "done" => outcome = "NONE"
  BY QueryTypes DEF BudgetInv, BudgetShared, SearchInv, SearchTypes
<1>3. CASE GreedyStep \/ SearchExpand
  <2>1. /\ ~Spent /\ expansions' = expansions + 1 /\ outcome' = "NONE"
        /\ query' = query
    BY <1>2, <1>3 DEF GreedyStep, Greedy, SearchExpand, Between
  <2>. QED
    BY <1>1, <1>2, <2>1 DEF Spent, BudgetInv, BudgetShared
<1>4. CASE SearchBound
  <2>1. Spent /\ UNCHANGED <<expansions, query>>
    BY <1>4 DEF SearchBound, Finish
  <2>. QED
    BY <1>1, <1>2, <2>1 DEF Spent, BudgetInv, BudgetShared
<1>5. CASE \/ Start \/ GreedyRefused \/ GreedyMerged \/ GreedyStuck \/ SearchStart
           \/ SearchExhausted \/ SearchLetter \/ SearchFound \/ UNCHANGED vars
  <2>1. /\ UNCHANGED <<expansions, query>>
        /\ outcome' = outcome \/ outcome' # "RESOURCE_BOUND"
    BY <1>5 DEF Start, GreedyRefused, GreedyMerged, GreedyStuck, SearchStart,
       SearchExhausted, SearchLetter, SearchFound, Finalize, Finish, vars
  <2>. QED
    BY <1>1, <1>2, <2>1 DEF BudgetInv, BudgetShared
<1>. QED
  BY <1>3, <1>4, <1>5 DEF Next, Returned

\* Greedy merging and the search that follows it spend one budget between them,
\* and RESOURCE_BOUND is the answer only when all of it is spent.
THEOREM OneBudget == Spec => []BudgetShared
<1>1. Init => BudgetInv
  <2>1. SUFFICES ASSUME Init PROVE BudgetInv
    OBVIOUS
  <2>2. SearchInv
    BY <2>1, StartsSound
  <2>3. query.budget \in Nat /\ expansions = 0 /\ outcome = "NONE"
    BY <2>1, <2>2, QueryTypes DEF Init
  <2>. QED
    BY <2>2, <2>3 DEF BudgetInv, BudgetShared
<1>2. BudgetInv /\ [Next]_vars => BudgetInv'
  BY StepBudget
<1>3. BudgetInv => BudgetShared
  BY DEF BudgetInv
<1>. QED
  BY <1>1, <1>2, <1>3, PTL DEF Spec

-----------------------------------------------------------------------------
(* Images under words. *)

\* The image under a word is the end of any sequence of images under its letters.
LEMMA ImageOfIs ==
  ASSUME NEW s, NEW w \in Seq(Actions), NEW f, f[0] = s,
         \A n \in 1 .. Len(w) : f[n] = Image(f[n - 1], w[n])
  PROVE  ImageOf(s, w) = f[Len(w)]
<1> DEFINE N == Len(w)
           Is(g) == g = [n \in 0 .. N |-> IF n = 0 THEN s ELSE Image(g[n - 1], w[n])]
           h == [n \in 0 .. N |-> f[n]]
           M == CHOOSE g : Is(g)
<1>1. N \in Nat
  OBVIOUS
<1>2. Is(h)
  <2> DEFINE e == [n \in 0 .. N |-> IF n = 0 THEN s ELSE Image(h[n - 1], w[n])]
  <2>1. ASSUME NEW n \in 0 .. N PROVE h[n] = e[n]
    <3>1. CASE n = 0
      BY <3>1
    <3>2. CASE n # 0
      <4>1. n \in 1 .. N /\ n - 1 \in 0 .. N
        BY <1>1, <3>2
      <4>2. QED
        BY <4>1, <3>2
    <3>3. QED
      BY <3>1, <3>2
  <2>2. h = [n \in 0 .. N |-> h[n]] /\ e = [n \in 0 .. N |-> e[n]]
    OBVIOUS
  <2> HIDE DEF h, e
  <2>3. h = e
    BY <2>1, <2>2
  <2>4. QED
    BY <2>3 DEF e
<1>3. ImageOf(s, w) = M[N]
  BY DEF ImageOf
<1>4. Is(M)
  BY <1>2
<1> HIDE DEF M, h
<1> DEFINE S == {n \in 0 .. N : M[n] = f[n]}
<1>5. 0 \in S
  <2>1. 0 \in 0 .. N
    BY <1>1
  <2>2. M[0] = s
    BY <1>4, <2>1
  <2>3. QED
    BY <2>1, <2>2
<1>6. ASSUME NEW k \in 1 .. N, k - 1 \in S PROVE k \in S
  <2>1. k \in 0 .. N /\ k # 0 /\ M[k - 1] = f[k - 1]
    BY <1>1, <1>6
  <2>2. M[k] = Image(M[k - 1], w[k])
    BY <1>4, <2>1
  <2>3. QED
    BY <2>1, <2>2
<1>7. \A n \in 0 .. N : n \in S
  <2> HIDE DEF S
  <2>1. QED
    BY <1>1, <1>5, <1>6, StepByStep
<1>8. N \in 0 .. N
  BY <1>1
<1>9. QED
  BY <1>3, <1>7, <1>8

\* The automaton of a call is an automaton.
LEMMA QueryAutomaton ==
  ASSUME query \in Queries
  PROVE  aut \in Automata
BY SearchAssumption DEF aut

\* The places of the runs, step by step, are the images.
LEMMA PlacesImages ==
  ASSUME query \in Queries, NEW s \in Supports, NEW w \in Seq(Actions)
  PROVE  LET f == [n \in 0 .. Len(w) |-> {PlacesFrom(aut, x, w)[n] : x \in s}]
         IN /\ f[0] = s
            /\ \A n \in 0 .. Len(w) : f[n] \in Supports
            /\ \A n \in 1 .. Len(w) : f[n] = Image(f[n - 1], w[n])
<1> DEFINE f == [n \in 0 .. Len(w) |-> {PlacesFrom(aut, x, w)[n] : x \in s}]
<1>1. PICK N \in Nat : N = Len(w)
  OBVIOUS
<1>2. s \subseteq States /\ aut \in Automata
  BY QueryAutomaton DEF Supports
<1>3. ASSUME NEW x \in s
      PROVE  /\ PlacesFrom(aut, x, w) \in [0 .. N -> States]
             /\ PlacesFrom(aut, x, w)[0] = x
             /\ \A n \in 1 .. N : PlacesFrom(aut, x, w)[n]
                                    = aut.delta[<<PlacesFrom(aut, x, w)[n - 1], w[n]>>]
  <2>1. PICK y \in States, b \in Automata : y = x /\ b = aut
    BY <1>2
  <2>2. QED
    BY <1>1, <2>1, PlacesFromSound
<1>4. f[0] = s
  <2>1. 0 \in 0 .. Len(w)
    BY <1>1
  <2>2. f[0] = {PlacesFrom(aut, x, w)[0] : x \in s}
    BY <2>1
  <2>3. QED
    BY <1>3, <2>2
<1>5. ASSUME NEW n \in 0 .. Len(w) PROVE f[n] \in Supports
  <2>1. n \in 0 .. N
    BY <1>1
  <2>2. \A x \in s : PlacesFrom(aut, x, w)[n] \in States
    BY <1>3, <2>1
  <2>3. QED
    BY <2>2 DEF Supports
<1>6. ASSUME NEW n \in 1 .. Len(w) PROVE f[n] = Image(f[n - 1], w[n])
  <2>1. n \in 1 .. N /\ n \in 0 .. Len(w) /\ n - 1 \in 0 .. Len(w)
    BY <1>1
  <2> DEFINE before == {PlacesFrom(aut, x, w)[n - 1] : x \in s}
             after == {PlacesFrom(aut, x, w)[n] : x \in s}
             moved == {aut.delta[<<y, w[n]>>] : y \in before}
  <2>2. f[n] = after /\ f[n - 1] = before
    BY <2>1
  <2>3. Image(before, w[n]) = moved
    BY DEF Image
  <2>4. \A x \in s : PlacesFrom(aut, x, w)[n] = aut.delta[<<PlacesFrom(aut, x, w)[n - 1], w[n]>>]
    BY <1>3, <2>1
  <2>5. \A z \in after : z \in moved
    BY <2>4
  <2>6. \A z \in moved : z \in after
    BY <2>4
  <2> HIDE DEF before, after, moved
  <2>7. after = moved
    BY <2>5, <2>6
  <2>8. QED
    BY <2>2, <2>3, <2>7
<1>7. QED
  BY <1>4, <1>5, <1>6

LEMMA ImagesExist ==
  ASSUME query \in Queries, NEW s \in Supports, NEW w \in Seq(Actions)
  PROVE  \E f : f[0] = s /\ \A n \in 1 .. Len(w) : f[n] = Image(f[n - 1], w[n])
<1> DEFINE f == [n \in 0 .. Len(w) |-> {PlacesFrom(aut, x, w)[n] : x \in s}]
<1>1. f[0] = s /\ \A n \in 1 .. Len(w) : f[n] = Image(f[n - 1], w[n])
  BY PlacesImages
<1> HIDE DEF f
<1>2. QED
  BY <1>1

\* The image of a support under a word is where the runs from it end.
LEMMA ImageOfPlaces ==
  ASSUME query \in Queries, NEW s \in Supports, NEW w \in Seq(Actions)
  PROVE  /\ ImageOf(s, w) = {PlacesFrom(aut, x, w)[Len(w)] : x \in s}
         /\ ImageOf(s, w) \in Supports
<1> DEFINE f == [n \in 0 .. Len(w) |-> {PlacesFrom(aut, x, w)[n] : x \in s}]
<1>1. Len(w) \in 0 .. Len(w)
  OBVIOUS
<1>2. f[Len(w)] = {PlacesFrom(aut, x, w)[Len(w)] : x \in s}
  BY <1>1
<1>3. /\ f[0] = s /\ f[Len(w)] \in Supports
      /\ \A n \in 1 .. Len(w) : f[n] = Image(f[n - 1], w[n])
  BY <1>1, PlacesImages
<1> HIDE DEF f
<1>4. ImageOf(s, w) = f[Len(w)]
  BY <1>3, ImageOfIs
<1>5. QED
  BY <1>2, <1>3, <1>4

\* No letters change nothing, and one letter does what it does.
LEMMA ImageOfShort ==
  ASSUME NEW s
  PROVE  /\ ImageOf(s, <<>>) = s
         /\ \A a \in Actions : ImageOf(s, <<a>>) = Image(s, a)
<1>1. ImageOf(s, <<>>) = s
  <2> DEFINE f == [n \in 0 .. 0 |-> s]
  <2>1. f[0] = s
    OBVIOUS
  <2>2. <<>> \in Seq(Actions) /\ Len(<<>>) = 0 /\ 1 .. 0 = {}
    OBVIOUS
  <2> HIDE DEF f
  <2>3. \A n \in 1 .. Len(<<>>) : f[n] = Image(f[n - 1], <<>>[n])
    BY <2>2
  <2>4. ImageOf(s, <<>>) = f[Len(<<>>)]
    BY <2>1, <2>2, <2>3, ImageOfIs
  <2>5. QED
    BY <2>1, <2>2, <2>4
<1>2. ASSUME NEW a \in Actions PROVE ImageOf(s, <<a>>) = Image(s, a)
  <2> DEFINE f == [n \in 0 .. 1 |-> IF n = 0 THEN s ELSE Image(s, a)]
  <2>1. f[0] = s /\ f[1] = Image(s, a)
    OBVIOUS
  <2>2. <<a>> \in Seq(Actions) /\ Len(<<a>>) = 1 /\ 1 .. 1 = {1} /\ <<a>>[1] = a
    OBVIOUS
  <2> HIDE DEF f
  <2>3. \A n \in 1 .. Len(<<a>>) : f[n] = Image(f[n - 1], <<a>>[n])
    BY <2>1, <2>2
  <2>4. ImageOf(s, <<a>>) = f[Len(<<a>>)]
    BY <2>1, <2>2, <2>3, ImageOfIs
  <2>5. QED
    BY <2>1, <2>2, <2>4
<1>3. QED
  BY <1>1, <1>2

\* One word after the other.
LEMMA ImageOfConcat ==
  ASSUME query \in Queries, NEW s \in Supports,
         NEW v \in Seq(Actions), NEW w \in Seq(Actions)
  PROVE  ImageOf(s, v \o w) = ImageOf(ImageOf(s, v), w)
<1>1. PICK L \in Nat, M \in Nat : L = Len(v) /\ M = Len(w)
  <2>1. Len(v) \in Nat /\ Len(w) \in Nat
    OBVIOUS
  <2>2. QED
    BY <2>1
<1>2. PICK vw \in Seq(Actions) : vw = v \o w
  <2>1. v \o w \in Seq(Actions)
    OBVIOUS
  <2>2. QED
    BY <2>1
<1>3. /\ Len(vw) = L + M /\ \A n \in 1 .. L : vw[n] = v[n]
      /\ \A n \in 1 .. M : vw[L + n] = w[n]
  BY <1>1, <1>2
<1>4. PICK f : f[0] = s /\ \A n \in 1 .. Len(v) : f[n] = Image(f[n - 1], v[n])
  BY ImagesExist
<1>5. PICK t \in Supports : t = ImageOf(s, v)
  BY ImageOfPlaces
<1>6. f[L] = t
  BY <1>1, <1>4, <1>5, ImageOfIs
<1>7. PICK g : g[0] = t /\ \A n \in 1 .. Len(w) : g[n] = Image(g[n - 1], w[n])
  BY ImagesExist
<1>8. ImageOf(t, w) = g[M]
  BY <1>1, <1>7, ImageOfIs
<1> DEFINE h == [n \in 0 .. (L + M) |-> IF n <= L THEN f[n] ELSE g[n - L]]
<1>9. h[0] = s
  BY <1>4
<1>10. ASSUME NEW n \in 1 .. Len(vw) PROVE h[n] = Image(h[n - 1], vw[n])
  <2>1. n \in 0 .. (L + M) /\ n - 1 \in 0 .. (L + M)
    BY <1>3
  <2>2. CASE n <= L
    <3>1. n \in 1 .. L /\ n - 1 <= L
      BY <1>3, <2>2
    <3>2. QED
      BY <1>1, <1>3, <1>4, <2>1, <2>2, <3>1
  <2>3. CASE ~(n <= L)
    <3>1. PICK m \in 1 .. M : n = L + m
      <4>1. n - L \in 1 .. M /\ n = L + (n - L)
        BY <2>1, <2>3
      <4>2. QED
        BY <4>1
    <3>2. h[n] = g[m] /\ vw[n] = w[m]
      <4>1. n - L = m
        BY <3>1
      <4>2. QED
        BY <1>3, <2>1, <2>3, <3>1, <4>1
    <3>3. g[m] = Image(g[m - 1], w[m])
      BY <1>1, <1>7
    <3>4. h[n - 1] = g[m - 1]
      <4>1. CASE m = 1
        <5>1. n - 1 = L /\ m - 1 = 0
          BY <3>1, <4>1
        <5>2. QED
          BY <1>6, <1>7, <2>1, <5>1
      <4>2. CASE m # 1
        <5>1. ~(n - 1 <= L) /\ (n - 1) - L = m - 1
          BY <3>1, <4>2
        <5>2. QED
          BY <2>1, <5>1
      <4>3. QED
        BY <4>1, <4>2
    <3>5. QED
      BY <3>2, <3>3, <3>4
  <2>4. QED
    BY <2>2, <2>3
<1>11. h[L + M] = g[M]
  <2>1. L + M \in 0 .. (L + M) /\ (L + M) - L = M
    OBVIOUS
  <2>2. CASE M = 0
    <3>1. L + M = L /\ L + M <= L
      BY <2>2
    <3>2. QED
      BY <1>6, <1>7, <2>1, <2>2, <3>1
  <2>3. CASE M # 0
    <3>1. ~(L + M <= L)
      BY <2>3
    <3>2. QED
      BY <2>1, <3>1
  <2>4. QED
    BY <2>2, <2>3
<1> HIDE DEF h
<1>12. ImageOf(s, vw) = h[L + M]
  BY <1>3, <1>9, <1>10, ImageOfIs
<1>13. QED
  BY <1>2, <1>5, <1>8, <1>11, <1>12

-----------------------------------------------------------------------------
(* The tree of the search and the words that are read back from it. *)

\* Each node but the first is the image of an earlier one.
Tree ==
  /\ nodes \in Seq(NodeRecords) /\ nodes # <<>> /\ nodes[1].support = query.initial
  /\ \A i \in 2 .. Len(nodes) :
       /\ nodes[i].parent \in 1 .. (i - 1) /\ nodes[i].act \in Range(letters)
       /\ nodes[i].support = Image(nodes[nodes[i].parent].support, nodes[i].act)

\* The letters of a call are actions.
LEMMA LetterActions ==
  ASSUME query \in Queries
  PROVE  /\ Range(letters) \subseteq Actions
         /\ \A i \in 1 .. Len(letters) : letters[i] \in Range(letters)
         /\ \A w \in Seq(Range(letters)) : w \in Seq(Actions) /\ Range(w) \subseteq Range(letters)
<1>1. letters \in Seq(Actions)
  BY QueryTypes
<1>2. Range(letters) \subseteq Actions
  BY <1>1 DEF Range
<1>3. \A i \in 1 .. Len(letters) : letters[i] \in Range(letters)
  BY <1>1 DEF Range
<1>4. ASSUME NEW w \in Seq(Range(letters))
      PROVE  w \in Seq(Actions) /\ Range(w) \subseteq Range(letters)
  <2>1. \A i \in 1 .. Len(w) : w[i] \in Range(letters)
    OBVIOUS
  <2>2. w \in Seq(Actions)
    BY <1>2
  <2>3. Range(w) \subseteq Range(letters)
    BY <2>1 DEF Range
  <2>4. QED
    BY <2>2, <2>3
<1>5. QED
  BY <1>2, <1>3, <1>4

\* A word is read back along the height of its node.
LEMMA PathReads ==
  ASSUME Tree, NEW i \in 1 .. Len(nodes)
  PROVE  Path(i) = ReadBack(nodes, i)
<1>1. Hanging(nodes, Range(letters))
  BY DEF Tree, Hanging
<1>2. Len(nodes) \in Nat /\ Rising(UpOf(nodes), Len(nodes))
  BY <1>1, HangingRises
<1>3. PICK k \in 0 .. (i - 1) : IsHeight(UpOf(nodes), Len(nodes), i, k)
  BY <1>2, HeightExists
<1>4. k \in Nat /\ Height(nodes, i) = k
  BY <1>2, <1>3, HeightIs
<1> DEFINE R == {n \in 0 .. Len(nodes) : Onward(UpOf(nodes), i, n) = 1}
<1>5. R = Rises(UpOf(nodes), Len(nodes), i)
  BY DEF Rises
<1>6. R \subseteq Nat /\ k \in R /\ \A j \in R : k <= j
  BY <1>3, <1>5 DEF IsHeight
<1>7. Path(i) = [n \in 1 .. Min(R) |-> nodes[Onward(UpOf(nodes), i, Min(R) - n)].act]
  BY DEF Path, UpOf
<1> HIDE DEF R
<1>8. Min(R) = k
  <2>1. \A x \in R : (\A y \in R : x <= y) => x = k
    BY <1>6
  <2>2. QED
    BY <1>6, <2>1 DEF Min
<1>9. QED
  BY <1>4, <1>7, <1>8 DEF ReadBack, Upward

Replays(i) ==
  /\ Path(i) \in Seq(Range(letters))
  /\ nodes[i].support = ImageOf(query.initial, Path(i))

\* The words that sg_subset_reconstruct reads back lead from the initial support
\* to the support of the node.
LEMMA PathsSound ==
  ASSUME query \in Queries, Tree
  PROVE  \A i \in 1 .. Len(nodes) : Replays(i)
<1> DEFINE L == Len(nodes)
           S == {i \in 1 .. L : Replays(i)}
<1>1. Hanging(nodes, Range(letters)) /\ L \in Nat \ {0}
  BY DEF Tree, Hanging
<1>2. 1 \in S
  <2>1. Path(1) = <<>> /\ 1 \in 1 .. L
    BY <1>1, PathReads, ReadBackRoot
  <2>2. nodes[1].support = ImageOf(query.initial, <<>>)
    BY ImageOfShort DEF Tree
  <2>3. <<>> \in Seq(Range(letters))
    OBVIOUS
  <2>4. QED
    BY <2>1, <2>2, <2>3 DEF Replays
<1>3. ASSUME NEW i \in 2 .. L, nodes[i].parent \in S PROVE i \in S
  <2>1. PICK p \in 1 .. L : p = nodes[i].parent /\ Replays(p)
    BY <1>3
  <2>2. PICK a \in Range(letters) : a = nodes[i].act
    BY DEF Tree
  <2>3. nodes[i].support = Image(nodes[p].support, a)
    BY <2>1, <2>2 DEF Tree
  <2>4. PICK q \in Seq(Range(letters)) : q = Path(p) /\ nodes[p].support = ImageOf(query.initial, q)
    BY <2>1 DEF Replays
  <2>5. i \in 1 .. L
    BY <1>1
  <2>6. Path(i) = Append(q, a)
    BY <1>1, <2>1, <2>2, <2>4, <2>5, PathReads, ReadBackNext
  <2>7. PICK w \in Seq(Range(letters)) : w = Append(q, a)
    <3>1. Append(q, a) \in Seq(Range(letters))
      OBVIOUS
    <3>2. QED
      BY <3>1
  <2>8. nodes[i].support = ImageOf(query.initial, w)
    <3>1. q \in Seq(Actions) /\ a \in Actions /\ query.initial \in Supports
      BY LetterActions, QueryTypes
    <3>2. <<a>> \in Seq(Actions) /\ w = q \o <<a>>
      BY <2>7, <3>1
    <3>3. ImageOf(query.initial, w) = ImageOf(ImageOf(query.initial, q), <<a>>)
      BY <3>1, <3>2, ImageOfConcat
    <3>4. QED
      BY <2>3, <2>4, <3>1, <3>3, ImageOfShort
  <2>9. QED
    BY <2>5, <2>6, <2>7, <2>8 DEF Replays
<1> HIDE DEF S
<1>4. \A i \in 1 .. L : i \in S
  BY <1>1, <1>2, <1>3, DownTheTree
<1>5. QED
  BY <1>4 DEF S

-----------------------------------------------------------------------------
(* The words that merge two states. *)

\* What a planner has for a pair: its word, or that there is none, or none to trust.
Witness(p) ==
  IF query.kind = "records" THEN RecordedWitness(p)
  ELSE AllowedWitness(p, ExactDistances(Permitted, "merge"))

\* A word of permitted letters that leads p to one state.
Merges(w, p) == w \in Seq(Range(letters)) /\ ImageOf(p, w) \in Diagonal

\* A sequence of targets is a sequence of images.
LEMMA MergingWalk ==
  ASSUME query \in Queries, NEW w \in Seq(Range(letters)), NEW f,
         f[Len(w)] \in Diagonal,
         \A n \in 1 .. Len(w) : f[n] = Target(aut, f[n - 1], w[n])
  PROVE  Merges(w, f[0])
<1>1. w \in Seq(Actions)
  BY LetterActions
<1>2. \A n \in 1 .. Len(w) : f[n] = Image(f[n - 1], w[n])
  BY DEF Target, Image
<1>3. PICK s : s = f[0]
  OBVIOUS
<1>4. ImageOf(s, w) = f[Len(w)]
  BY <1>1, <1>2, <1>3, ImageOfIs
<1>5. QED
  BY <1>3, <1>4 DEF Merges

\* The words that sg_pair_words_load accepts merge their pair.
LEMMA RecordedMerges ==
  ASSUME query \in Queries, query.kind = "records", NEW p \in Pairs,
         RecordedWitness(p).state = "found"
  PROVE  Merges(RecordedWitness(p).word, p)
<1> DEFINE recs == query.records
           next == [q \in Pairs \cup {NoPair} |-> IF q = NoPair THEN NoPair ELSE recs[q].next]
           d == recs[p].dist
           w == [n \in 1 .. d |-> recs[Walked(recs, p, n - 1)].act]
<1>1. /\ aut \in Automata /\ recs \in [Pairs -> Records]
      /\ Actions \subseteq Range(letters) /\ Range(letters) \subseteq Actions
  BY QueryAutomaton, LetterActions, SearchAssumption DEF letters
<1>2. WellFormed(aut, "merge", recs, p) /\ d # None /\ RecordedWitness(p).word = w
  <2>1. RecordedWitness(p) = PairWord(aut, "merge", recs, p)
    BY DEF RecordedWitness
  <2>2. Malformed.state # "found" /\ Missing.state # "found"
    BY DEF Malformed, Missing
  <2>3. WellFormed(aut, "merge", recs, p) /\ d # None
    BY <2>1, <2>2 DEF PairWord
  <2>4. RecordedWitness(p) = Found(w)
    BY <2>1, <2>3 DEF PairWord
  <2>5. QED
    BY <2>3, <2>4 DEF Found
<1>3. d \in Nat
  BY <1>1, <1>2 DEF Records, Distances
<1>4. /\ \A n \in 0 .. d - 1 :
            /\ Walked(recs, p, n) # NoPair
            /\ Sound(aut, "merge", Walked(recs, p, n), recs[Walked(recs, p, n)])
      /\ Walked(recs, p, d) # NoPair => Walked(recs, p, d) \in Diagonal
  BY <1>2 DEF WellFormed
<1>5. \A n \in Nat : /\ Walked(recs, p, 0) = p
                     /\ Walked(recs, p, n + 1) = next[Walked(recs, p, n)]
  BY OnwardStep DEF Walked
<1> HIDE DEF next, w, d
<1> DEFINE S == {n \in 0 .. d : Walked(recs, p, n) \in Pairs}
<1>6. ASSUME NEW n \in 1 .. d, Walked(recs, p, n - 1) \in Pairs
      PROVE  /\ recs[Walked(recs, p, n - 1)].act \in Range(letters)
             /\ Walked(recs, p, n) = Target(aut, Walked(recs, p, n - 1),
                                            recs[Walked(recs, p, n - 1)].act)
             /\ Walked(recs, p, n) \in Pairs
  <2>1. PICK m \in Nat : m = n - 1 /\ m + 1 = n /\ m \in 0 .. d - 1
    <3>1. n - 1 \in Nat /\ (n - 1) + 1 = n /\ n - 1 \in 0 .. d - 1
      BY <1>3
    <3>2. QED
      BY <3>1
  <2>2. PICK q \in Pairs : q = Walked(recs, p, m)
    BY <1>6, <2>1
  <2>3. q # NoPair /\ Sound(aut, "merge", q, recs[q]) /\ Walked(recs, p, n) = next[q]
    BY <1>4, <1>5, <2>1, <2>2
  <2>4. recs[q].act # None /\ recs[q].next = Target(aut, q, recs[q].act)
    BY <2>3 DEF Sound, Terminal
  <2>5. recs[q].act \in Actions
    BY <1>1, <2>4 DEF Records
  <2>6. next[q] = recs[q].next
    BY <2>3 DEF next
  <2>7. Target(aut, q, recs[q].act) \in Pairs
    BY <1>1, <2>5, TargetType
  <2>8. QED
    BY <1>1, <2>1, <2>2, <2>3, <2>4, <2>5, <2>6, <2>7
<1>7. \A n \in 0 .. d : n \in S
  <2>1. 0 \in S
    BY <1>3, <1>5
  <2>2. ASSUME NEW n \in 1 .. d, n - 1 \in S PROVE n \in S
    BY <1>3, <1>6, <2>2
  <2> HIDE DEF S
  <2>3. QED
    BY <1>3, <2>1, <2>2, StepByStep
<1> DEFINE f == [n \in 0 .. d |-> Walked(recs, p, n)]
<1>8. w \in Seq(Range(letters)) /\ Len(w) = d
  <2>1. ASSUME NEW n \in 1 .. d PROVE recs[Walked(recs, p, n - 1)].act \in Range(letters)
    <3>1. n - 1 \in 0 .. d
      BY <1>3
    <3>2. QED
      BY <1>6, <1>7, <3>1
  <2>2. w \in [1 .. d -> Range(letters)]
    BY <2>1 DEF w
  <2>3. QED
    BY <1>3, <2>2
<1>9. f[Len(w)] \in Diagonal /\ f[0] = p
  <2>1. d \in 0 .. d /\ 0 \in 0 .. d
    BY <1>3
  <2>2. Walked(recs, p, d) \in Pairs
    BY <1>7, <2>1
  <2>3. QED
    BY <1>4, <1>5, <1>8, <2>1, <2>2, SomePair
<1>10. ASSUME NEW n \in 1 .. Len(w) PROVE f[n] = Target(aut, f[n - 1], w[n])
  <2>1. n \in 1 .. d /\ n - 1 \in 0 .. d /\ n \in 0 .. d
    BY <1>3, <1>8
  <2>2. w[n] = recs[Walked(recs, p, n - 1)].act
    BY <2>1 DEF w
  <2>3. QED
    BY <1>6, <1>7, <2>1, <2>2
<1> HIDE DEF f
<1>11. Merges(w, f[0])
  BY <1>8, <1>9, <1>10, MergingWalk
<1>12. QED
  BY <1>2, <1>9, <1>11

\* The automaton of the permitted letters is an automaton.
LEMMA PermittedAutomaton ==
  ASSUME query \in Queries
  PROVE  /\ Permitted \in Automata
         /\ \A q \in Pairs, a \in Actions :
              Target(Permitted, q, a) = IF a \in Range(letters) THEN Target(aut, q, a) ELSE q
<1>1. aut \in [delta : [Cells -> States], eta : [Cells -> Outputs]]
  BY QueryAutomaton DEF Automata
<1> DEFINE d == [c \in Cells |-> IF c[2] \in Range(letters) THEN aut.delta[c] ELSE c[1]]
<1>2. d \in [Cells -> States]
  BY <1>1 DEF Cells
<1>3. Permitted = [aut EXCEPT !.delta = d]
  BY DEF Permitted
<1>4. Permitted.delta = d /\ Permitted \in Automata
  <2> HIDE DEF d
  <2>1. QED
    BY <1>1, <1>2, <1>3 DEF Automata
<1>5. ASSUME NEW q \in Pairs, NEW a \in Actions
      PROVE  Target(Permitted, q, a) = IF a \in Range(letters) THEN Target(aut, q, a) ELSE q
  <2>1. q \subseteq States
    BY DEF Pairs
  <2>2. \A x \in q : d[<<x, a>>] = IF a \in Range(letters) THEN aut.delta[<<x, a>>] ELSE x
    BY <2>1 DEF Cells
  <2> HIDE DEF d
  <2>3. Target(Permitted, q, a) = {d[<<x, a>>] : x \in q}
    BY <1>4 DEF Target
  <2>4. CASE a \in Range(letters)
    BY <2>2, <2>3, <2>4 DEF Target
  <2>5. CASE a \notin Range(letters)
    BY <2>2, <2>3, <2>5
  <2>6. QED
    BY <2>4, <2>5
<1>6. QED
  BY <1>4, <1>5

\* From a pair that some permitted word merges, a permitted letter comes closer.
LEMMA NearestSound ==
  ASSUME query \in Queries, NEW dist, dist = ExactDistances(Permitted, "merge"),
         NEW q \in Pairs, dist[q] \in Nat \ {0}
  PROVE  /\ Nearest(q, dist) \in Range(letters)
         /\ dist[Target(aut, q, Nearest(q, dist))] = dist[q] - 1
<1>1. q \notin Diagonal /\ dist[q] # None
  BY PermittedAutomaton, ExactAttained DEF None
<1>2. PICK a \in Actions : dist[Target(Permitted, q, a)] = dist[q] - 1
  <2>1. \A b \in Actions : ~Terminal(Permitted, "merge", q, b)
    BY DEF Terminal
  <2>2. QED
    BY <1>1, <2>1, PermittedAutomaton, ExactAttained
<1>3. a \in Range(letters) /\ dist[Target(aut, q, a)] = dist[q] - 1
  <2>1. dist[q] # dist[q] - 1
    OBVIOUS
  <2>2. QED
    BY <1>2, <2>1, PermittedAutomaton
<1> DEFINE I == {i \in 1 .. Len(letters) : dist[Target(aut, q, letters[i])] = dist[q] - 1}
<1>4. letters \in Seq(Actions)
  BY QueryTypes
<1>5. PICK i \in 1 .. Len(letters) : letters[i] = a
  BY <1>3, <1>4 DEF Range
<1>6. I # {} /\ I \subseteq Nat
  BY <1>3, <1>5
<1>7. Nearest(q, dist) = letters[Min(I)]
  BY <1>6 DEF Nearest, SelectInSeq
<1>8. Min(I) \in I
  <2> HIDE DEF I
  <2>1. PICK m \in I : \A j \in I : m <= j
    BY <1>6, LeastNatural
  <2>2. QED
    BY <2>1 DEF Min
<1>9. QED
  BY <1>7, <1>8, LetterActions

\* The words that sg_allowed_merge_word finds merge their pair.
LEMMA AllowedMerges ==
  ASSUME query \in Queries, NEW dist, dist = ExactDistances(Permitted, "merge"),
         NEW p \in Pairs, AllowedWitness(p, dist).state = "found"
  PROVE  Merges(AllowedWitness(p, dist).word, p)
<1> DEFINE D == {r \in Pairs : dist[r] > 0}
           next == [q \in D |-> Target(aut, q, Nearest(q, dist))]
           d == dist[p]
           At(n) == Onward(next, p, n)
           w == [n \in 1 .. d |-> Nearest(At(n - 1), dist)]
<1>1. /\ aut \in Automata /\ Range(letters) \subseteq Actions
      /\ \A q \in Pairs : dist[q] \in Distances
      /\ \A q \in Pairs : dist[q] = 0 <=> q \in Diagonal
  BY QueryAutomaton, LetterActions, PermittedAutomaton, ExactDistanceIn, ExactAttained
<1>2. d # None /\ AllowedWitness(p, dist).word = w
  <2>1. Missing.state # "found"
    BY DEF Missing
  <2>2. d # None
    BY <2>1 DEF AllowedWitness
  <2>3. AllowedWitness(p, dist) = Found(w)
    BY <2>2 DEF AllowedWitness
  <2> HIDE DEF w, d
  <2>4. Found(w).word = w
    BY DEF Found
  <2>5. QED
    BY <2>2, <2>3, <2>4
<1>3. d \in Nat
  BY <1>1, <1>2 DEF Distances
<1>4. \A n \in Nat : At(0) = p /\ At(n + 1) = next[At(n)]
  BY OnwardStep
<1> HIDE DEF At, next, w, d
<1> DEFINE S == {n \in 0 .. d : At(n) \in Pairs /\ dist[At(n)] = d - n}
<1>5. ASSUME NEW n \in 1 .. d, At(n - 1) \in Pairs, dist[At(n - 1)] = d - (n - 1)
      PROVE  /\ Nearest(At(n - 1), dist) \in Range(letters)
             /\ At(n) = Target(aut, At(n - 1), Nearest(At(n - 1), dist))
             /\ At(n) \in Pairs /\ dist[At(n)] = d - n
  <2>1. PICK m \in Nat : m = n - 1 /\ m + 1 = n /\ m \in 0 .. d - 1
    <3>1. n - 1 \in Nat /\ (n - 1) + 1 = n /\ n - 1 \in 0 .. d - 1
      BY <1>3
    <3>2. QED
      BY <3>1
  <2>2. PICK q \in Pairs : q = At(m)
    BY <1>5, <2>1
  <2>3. dist[q] = d - m /\ d - m \in Nat \ {0}
    BY <1>3, <1>5, <2>1, <2>2
  <2>4. PICK a \in Range(letters) : a = Nearest(q, dist) /\ dist[Target(aut, q, a)] = dist[q] - 1
    BY <2>3, NearestSound
  <2>5. q \in D /\ At(n) = next[q]
    BY <1>4, <2>1, <2>2, <2>3
  <2>6. At(n) = Target(aut, q, a)
    BY <2>4, <2>5 DEF next
  <2>7. Target(aut, q, a) \in Pairs
    BY <1>1, <2>4, TargetType
  <2>8. dist[At(n)] = d - n
    BY <1>3, <2>1, <2>3, <2>4, <2>6
  <2>9. QED
    BY <2>1, <2>2, <2>4, <2>6, <2>7, <2>8
<1>6. \A n \in 0 .. d : n \in S
  <2>1. 0 \in S
    BY <1>3, <1>4 DEF d
  <2>2. ASSUME NEW n \in 1 .. d, n - 1 \in S PROVE n \in S
    BY <1>3, <1>5, <2>2
  <2> HIDE DEF S
  <2>3. QED
    BY <1>3, <2>1, <2>2, StepByStep
<1> DEFINE f == [n \in 0 .. d |-> At(n)]
<1>7. ASSUME NEW n \in 1 .. d
      PROVE  /\ Nearest(At(n - 1), dist) \in Range(letters)
             /\ At(n) = Target(aut, At(n - 1), Nearest(At(n - 1), dist))
  <2>1. n - 1 \in 0 .. d
    BY <1>3
  <2>2. QED
    BY <1>5, <1>6, <2>1
<1>8. w \in Seq(Range(letters)) /\ Len(w) = d
  <2>1. w \in [1 .. d -> Range(letters)]
    BY <1>7 DEF w
  <2>2. QED
    BY <1>3, <2>1
<1>9. f[Len(w)] \in Diagonal /\ f[0] = p
  <2>1. d \in 0 .. d /\ 0 \in 0 .. d /\ d - d = 0
    BY <1>3
  <2>2. At(d) \in Pairs /\ dist[At(d)] = 0
    BY <1>6, <2>1
  <2>3. QED
    BY <1>1, <1>4, <1>8, <2>1, <2>2
<1>10. ASSUME NEW n \in 1 .. Len(w) PROVE f[n] = Target(aut, f[n - 1], w[n])
  <2>1. n \in 1 .. d /\ n - 1 \in 0 .. d /\ n \in 0 .. d
    BY <1>3, <1>8
  <2>2. w[n] = Nearest(At(n - 1), dist)
    BY <2>1 DEF w
  <2>3. QED
    BY <1>7, <2>1, <2>2
<1> HIDE DEF f
<1>11. Merges(w, f[0])
  BY <1>8, <1>9, <1>10, MergingWalk
<1>12. QED
  BY <1>2, <1>9, <1>11

\* What a planner finds for a pair merges it, and only records can be refused.
LEMMA WitnessSound ==
  ASSUME query \in Queries, NEW p \in Pairs
  PROVE  /\ Witness(p).state = "found" => Merges(Witness(p).word, p)
         /\ Witness(p) = Malformed => query.kind = "records"
<1>1. Witness(p).state = "found" => Merges(Witness(p).word, p)
  BY RecordedMerges, AllowedMerges DEF Witness
<1>2. ASSUME query.kind # "records" PROVE Witness(p) # Malformed
  <2>1. Witness(p) = Missing \/ \E w : Witness(p) = Found(w)
    BY <1>2 DEF Witness, AllowedWitness
  <2>2. QED
    BY <2>1 DEF Missing, Found, Malformed
<1>3. QED
  BY <1>1, <1>2

\* The candidates of a round are the witnesses of the pairs of the active support.
LEMMA CandidatesAre ==
  /\ DOMAIN Candidates = {p \in Pairs : p \subseteq active /\ p \notin Diagonal}
  /\ \A p \in DOMAIN Candidates : Candidates[p] = Witness(p)
BY DEF Candidates, Witnesses, Witness

-----------------------------------------------------------------------------
(* The phases hand over what they should: supports that replay, words that *)
(* are permitted, and no word without a plan.                              *)

PhaseTypes ==
  /\ active \in Supports /\ word \in Seq(Range(letters)) /\ expansions \in Nat
  /\ outcome \in {"NONE", "PLAN", "ALREADY_SATISFIED", "NO_PLAN",
                  "RESOURCE_BOUND", "INVALID_MODEL"}

PhaseInv ==
  /\ SearchInv /\ PhaseTypes
  /\ at \in {"start", "queue", "search"} => word = <<>>
  /\ at = "start" => active = query.initial
  /\ at = "greedy" => query.kind # "goal" /\ active = ImageOf(query.initial, word)
  /\ at = "search" => Tree
  /\ RefusedOnlyForRecords /\ NoWordWithoutPlan

\* What a word does and what a round finds belong to the call and the support.
LEMMA CallKept ==
  ASSUME query' = query
  PROVE  /\ letters' = letters
         /\ \A s, w : ImageOf(s, w)' = ImageOf(s, w)
         /\ active' = active => Candidates' = Candidates
<1>1. letters' = letters /\ aut' = aut
  BY DEF letters, aut
<1>2. ASSUME NEW s, NEW w PROVE ImageOf(s, w)' = ImageOf(s, w)
  BY <1>1 DEF ImageOf, Image
<1>3. ASSUME active' = active PROVE Candidates' = Candidates
  <2>1. Permitted' = Permitted
    BY <1>1 DEF Permitted
  <2>2. ASSUME NEW p PROVE RecordedWitness(p)' = RecordedWitness(p)
    BY <1>1 DEF RecordedWitness
  <2>3. ASSUME NEW q, NEW dist PROVE Nearest(q, dist)' = Nearest(q, dist)
    BY <1>1 DEF Nearest, SelectInSeq
  <2>4. ASSUME NEW p, NEW dist PROVE AllowedWitness(p, dist)' = AllowedWitness(p, dist)
    BY <1>1, <2>3 DEF AllowedWitness
  <2>5. QED
    BY <1>3, <2>1, <2>2, <2>4 DEF Candidates, Witnesses
<1>4. QED
  BY <1>1, <1>2, <1>3

LEMMA PhaseStarts == Init => PhaseInv
<1> SUFFICES ASSUME Init PROVE PhaseInv
  OBVIOUS
<1>1. SearchInv /\ query \in Queries
  BY StartsSound DEF SearchInv, SearchTypes
<1>2. active \in Supports
  BY <1>1, QueryTypes DEF Init
<1>3. PhaseTypes
  BY <1>2 DEF PhaseTypes, Init
<1>4. QED
  BY <1>1, <1>3 DEF PhaseInv, Init, RefusedOnlyForRecords, NoWordWithoutPlan

\* A call that ends keeps its word only with a plan, and fails only for records.
LEMMA PhaseEnds ==
  ASSUME PhaseInv, NEW result, Finish(result), SearchInv',
         word' \in Seq(Range(letters)),
         result \in {"PLAN", "ALREADY_SATISFIED", "NO_PLAN", "RESOURCE_BOUND",
                     "INVALID_MODEL"},
         result \in {"NO_PLAN", "RESOURCE_BOUND", "INVALID_MODEL"} => word' = <<>>,
         result = "INVALID_MODEL" =>
           query.kind = "records" /\ Malformed \in Range(Candidates)
  PROVE  PhaseInv'
<1>1. UNCHANGED <<query, active, expansions, nodes>> /\ outcome' = result /\ at' = "done"
  BY DEF Finish
<1>2. letters' = letters /\ Candidates' = Candidates
  BY <1>1, CallKept
<1>3. PhaseTypes'
  BY <1>1, <1>2 DEF PhaseTypes, PhaseInv
<1>4. RefusedOnlyForRecords'
  BY <1>1, <1>2 DEF RefusedOnlyForRecords
<1>5. NoWordWithoutPlan'
  BY <1>1 DEF NoWordWithoutPlan
<1>6. QED
  BY <1>1, <1>3, <1>4, <1>5 DEF PhaseInv

\* The replay of a word that does accepts it.
LEMMA PhaseReplays ==
  ASSUME PhaseInv, NEW w \in Seq(Range(letters)), NEW result \in {"PLAN", "ALREADY_SATISFIED"},
         Satisfied(ImageOf(query.initial, w)), Finalize(w, result), SearchInv'
  PROVE  PhaseInv'
<1>1. word' = w /\ Finish(result)
  BY DEF Finalize
<1>2. QED
  BY <1>1, PhaseEnds

\* The end of a round or of a call changes nothing else.
LEMMA PhaseStartSound ==
  ASSUME PhaseInv, Start, SearchInv'
  PROVE  PhaseInv'
<1>1. query \in Queries /\ at = "start" /\ word = <<>> /\ active = query.initial
  BY DEF PhaseInv, SearchInv, SearchTypes, Start
<1>2. ImageOf(query.initial, <<>>) = query.initial
  BY ImageOfShort
<1>3. CASE Satisfied(query.initial)
  <2>1. <<>> \in Seq(Range(letters))
    OBVIOUS
  <2>2. Finalize(<<>>, "ALREADY_SATISFIED")
    BY <1>3 DEF Start
  <2>3. QED
    BY <1>2, <1>3, <2>1, <2>2, PhaseReplays
<1>4. CASE ~Satisfied(query.initial)
  <2>1. UNCHANGED <<query, active, word, expansions, nodes, outcome>>
    BY <1>4 DEF Start
  <2>2. at' = IF query.kind = "goal" THEN "queue" ELSE "greedy"
    BY <1>4 DEF Start
  <2>3. letters' = letters /\ ImageOf(query.initial, word)' = ImageOf(query.initial, word)
    BY <2>1, CallKept
  <2>4. outcome' = "NONE"
    BY <1>1, <2>1 DEF PhaseInv, SearchInv
  <2>5. PhaseTypes'
    BY <2>1, <2>3 DEF PhaseTypes, PhaseInv
  <2>6. RefusedOnlyForRecords' /\ NoWordWithoutPlan'
    BY <2>4 DEF RefusedOnlyForRecords, NoWordWithoutPlan
  <2>7. at' = "greedy" => query'.kind # "goal" /\ active' = ImageOf(query.initial, word)'
    BY <1>1, <1>2, <2>1, <2>2, <2>3
  <2>8. QED
    BY <1>1, <2>1, <2>2, <2>5, <2>6, <2>7 DEF PhaseInv
<1>5. QED
  BY <1>3, <1>4

\* A round of greedy merging appends the word that moves the support.
LEMMA GreedyStepSound ==
  ASSUME PhaseInv, GreedyStep, SearchInv'
  PROVE  PhaseInv'
<1>1. query \in Queries /\ at = "greedy" /\ UNCHANGED <<query, at, nodes, outcome>>
  BY DEF PhaseInv, SearchInv, SearchTypes, GreedyStep, Greedy
<1>2. PICK p \in DOMAIN Candidates :
        /\ Candidates[p].state = "found"
        /\ active' = ImageOf(active, Candidates[p].word)
        /\ word' = word \o Candidates[p].word
  BY DEF GreedyStep
<1>3. PICK w : w = Candidates[p].word
  OBVIOUS
<1>4. w \in Seq(Range(letters))
  <2>1. p \in Pairs /\ Witness(p).state = "found" /\ Witness(p).word = w
    BY <1>2, <1>3, CandidatesAre
  <2>2. QED
    BY <1>1, <2>1, WitnessSound DEF Merges
<1>5. word \in Seq(Range(letters)) /\ active \in Supports /\ expansions \in Nat
  BY DEF PhaseInv, PhaseTypes
<1>6. w \in Seq(Actions) /\ word \in Seq(Actions)
  BY <1>1, <1>4, <1>5, LetterActions
<1>7. ImageOf(active, w) \in Supports
  BY <1>1, <1>5, <1>6, ImageOfPlaces
<1>8. word \o w \in Seq(Range(letters))
  BY <1>4, <1>5
<1>9. ImageOf(query.initial, word \o w) = ImageOf(active, w)
  <2>1. query.initial \in Supports
    BY <1>1, QueryTypes
  <2>2. active = ImageOf(query.initial, word)
    BY <1>1 DEF PhaseInv
  <2>3. QED
    BY <1>1, <1>6, <2>1, <2>2, ImageOfConcat
<1>10. letters' = letters /\ \A s, v : ImageOf(s, v)' = ImageOf(s, v)
  BY <1>1, CallKept
<1>11. PICK y : y = word' /\ y = word \o w /\ query' = query
  BY <1>1, <1>2, <1>3
<1>12. ImageOf(query.initial, word)' = ImageOf(query.initial, y)
  BY <1>1, <1>10, <1>11 DEF ImageOf, Image, aut
<1>13. active' = ImageOf(query.initial, word)'
  BY <1>2, <1>3, <1>9, <1>11, <1>12
<1>14. expansions' \in Nat
  BY <1>5 DEF GreedyStep
<1>15. outcome' = "NONE"
  BY <1>1 DEF PhaseInv, SearchInv
<1>16. PhaseTypes'
  BY <1>2, <1>3, <1>7, <1>8, <1>10, <1>14, <1>15 DEF PhaseTypes
<1>17. RefusedOnlyForRecords' /\ NoWordWithoutPlan'
  BY <1>15 DEF RefusedOnlyForRecords, NoWordWithoutPlan
<1>18. query'.kind # "goal" /\ at' = "greedy"
  BY <1>1 DEF PhaseInv
<1>19. QED
  BY <1>13, <1>16, <1>17, <1>18 DEF PhaseInv

LEMMA GreedyRefusedSound ==
  ASSUME PhaseInv, GreedyRefused, SearchInv'
  PROVE  PhaseInv'
<1>1. query \in Queries /\ Malformed \in Range(Candidates) /\ word' = <<>>
  BY DEF PhaseInv, SearchInv, SearchTypes, GreedyRefused
<1>2. query.kind = "records"
  <2>1. PICK p \in DOMAIN Candidates : Candidates[p] = Malformed
    BY <1>1 DEF Range
  <2>2. p \in Pairs /\ Witness(p) = Malformed
    BY <2>1, CandidatesAre
  <2>3. QED
    BY <1>1, <2>2, WitnessSound
<1>3. Finish("INVALID_MODEL")
  BY DEF GreedyRefused
<1>4. QED
  BY <1>1, <1>2, <1>3, PhaseEnds

LEMMA GreedyMergedSound ==
  ASSUME PhaseInv, GreedyMerged, SearchInv'
  PROVE  PhaseInv'
<1>1. /\ query.kind # "goal" /\ active = ImageOf(query.initial, word)
      /\ word \in Seq(Range(letters)) /\ Cardinality(active) = 1
  BY DEF PhaseInv, PhaseTypes, GreedyMerged
<1>2. Satisfied(ImageOf(query.initial, word))
  BY <1>1 DEF Satisfied
<1>3. Finalize(word, "PLAN")
  BY DEF GreedyMerged
<1>4. QED
  BY <1>1, <1>2, <1>3, PhaseReplays

\* Between the phases the call has no word, and nothing of the rounds is left
\* but the expansions they took.
LEMMA GreedyStuckSound ==
  ASSUME PhaseInv, GreedyStuck, SearchInv'
  PROVE  PhaseInv'
<1>1. UNCHANGED <<query, active, expansions, outcome>> /\ at' = "queue" /\ word' = <<>>
  BY DEF GreedyStuck, Discarded
<1>2. letters' = letters
  BY <1>1, CallKept
<1>3. outcome' = "NONE"
  BY <1>1 DEF GreedyStuck, PhaseInv, SearchInv
<1>4. PhaseTypes'
  BY <1>1, <1>2 DEF PhaseTypes, PhaseInv
<1>5. QED
  BY <1>1, <1>3, <1>4 DEF PhaseInv, RefusedOnlyForRecords, NoWordWithoutPlan

-----------------------------------------------------------------------------
(* The search keeps its tree. *)

\* Before the search and in it there is no word, and nothing is decided.
LEMMA PhaseSearches ==
  ASSUME PhaseInv, SearchInv', at \in {"queue", "search"}, at' = "search",
         UNCHANGED <<query, active, word, outcome>>, expansions' \in Nat, Tree'
  PROVE  PhaseInv'
<1>1. letters' = letters
  BY CallKept
<1>2. outcome' = "NONE" /\ word' = <<>>
  BY DEF PhaseInv, SearchInv
<1>3. PhaseTypes'
  BY <1>1 DEF PhaseTypes, PhaseInv
<1>4. QED
  BY <1>2, <1>3 DEF PhaseInv, RefusedOnlyForRecords, NoWordWithoutPlan

LEMMA TreeStarts ==
  ASSUME PhaseInv, SearchStart, SearchInv'
  PROVE  PhaseInv'
<1>1. query \in Queries /\ UNCHANGED <<query, active, word, outcome, expansions>>
  BY DEF PhaseInv, SearchInv, SearchTypes, SearchStart
<1>2. nodes' = <<Node(query.initial, 0, None)>> /\ at' = "search" /\ at = "queue"
  BY DEF SearchStart, SearchFrom
<1>3. nodes' \in Seq(NodeRecords)
  BY DEF SearchInv, SearchTypes
<1>4. nodes'[1].support = query.initial
  BY <1>2 DEF Node
<1>5. Len(nodes') = 1 /\ nodes' # <<>>
  BY <1>2
<1>6. \A i \in 2 .. Len(nodes') : FALSE
  BY <1>5
<1>7. Tree'
  BY <1>1, <1>3, <1>4, <1>5, <1>6 DEF Tree
<1>8. expansions' \in Nat
  BY <1>1 DEF PhaseInv, PhaseTypes
<1>9. QED
  BY <1>1, <1>2, <1>7, <1>8, PhaseSearches

\* A dequeued node stays where it is.
LEMMA TreeExpanded ==
  ASSUME PhaseInv, SearchExpand, SearchInv'
  PROVE  PhaseInv'
<1>1. UNCHANGED <<query, at, active, word, nodes, outcome>> /\ at = "search"
  BY DEF SearchExpand, Between
<1>2. Tree
  BY <1>1 DEF PhaseInv
<1>3. Tree'
  BY <1>1, <1>2 DEF Tree, Image, aut, letters
<1>4. expansions' \in Nat
  BY DEF PhaseInv, PhaseTypes, SearchExpand
<1>5. QED
  BY <1>1, <1>3, <1>4, PhaseSearches

\* A support that is kept hangs from the node it is the image of.
LEMMA TreeGrows ==
  ASSUME PhaseInv, SearchLetter, SearchInv'
  PROVE  PhaseInv'
<1>1. UNCHANGED <<query, at, active, word, outcome, expansions>> /\ at = "search"
  BY DEF SearchLetter
<1>2. Tree /\ query \in Queries
  BY <1>1 DEF PhaseInv, SearchInv, SearchTypes
<1>3. head \in 1 .. Len(nodes) /\ letter \in 1 .. Len(letters)
  BY <1>1 DEF PhaseInv, SearchInv, SearchTypes, Searched, Expanding, SearchLetter
<1>4. letters' = letters /\ \A s, a : Image(s, a)' = Image(s, a)
  BY <1>1, SameCall
<1>5. CASE nodes' = nodes
  <2>1. Tree'
    BY <1>1, <1>2, <1>5 DEF Tree, Image, aut, letters
  <2>2. QED
    BY <1>1, <2>1, PhaseSearches DEF PhaseInv, PhaseTypes
<1>6. CASE nodes' = Append(nodes, Node(Successor, head, letters[letter]))
  <2>1. PICK a : a = letters[letter] /\ a \in Range(letters)
    BY <1>2, <1>3, LetterActions
  <2>2. PICK e : e = Node(Successor, head, letters[letter])
    OBVIOUS
  <2>3. e.parent = head /\ e.act = a /\ e.support = Image(nodes[head].support, a)
    BY <2>1, <2>2 DEF Node, Successor
  <2>4. PICK l \in Nat \ {0} : l = Len(nodes)
    <3>1. Len(nodes) \in Nat \ {0}
      BY <1>2 DEF Tree
    <3>2. QED
      BY <3>1
  <2>5. nodes' = Append(nodes, e) /\ nodes \in Seq(NodeRecords) /\ nodes' \in Seq(NodeRecords)
    BY <1>2, <1>6, <2>2 DEF Tree, SearchInv, SearchTypes
  <2>6. /\ Len(nodes') = l + 1 /\ nodes'[l + 1] = e
        /\ \A i \in 1 .. l : nodes'[i] = nodes[i]
    BY <2>4, <2>5
  <2>7. nodes'[1].support = query.initial /\ nodes' # <<>>
    BY <1>2, <2>4, <2>6 DEF Tree
  <2>8. ASSUME NEW i \in 2 .. l + 1
        PROVE  /\ nodes'[i].parent \in 1 .. (i - 1) /\ nodes'[i].act \in Range(letters)
               /\ nodes'[i].support = Image(nodes'[nodes'[i].parent].support, nodes'[i].act)
    <3>1. CASE i = l + 1
      <4>1. nodes'[i] = e /\ head \in 1 .. l /\ nodes'[head] = nodes[head] /\ head \in 1 .. (i - 1)
        BY <1>3, <2>4, <2>6, <3>1
      <4>2. QED
        BY <2>1, <2>3, <4>1
    <3>2. CASE i \in 2 .. l
      <4>1. PICK r : r = nodes[i] /\ nodes'[i] = r
        BY <2>4, <2>6, <3>2
      <4>2. /\ r.parent \in 1 .. (i - 1) /\ r.act \in Range(letters)
            /\ r.support = Image(nodes[r.parent].support, r.act)
        BY <1>2, <2>4, <3>2, <4>1 DEF Tree
      <4>3. nodes'[r.parent] = nodes[r.parent]
        BY <2>4, <2>6, <3>2, <4>2
      <4>4. QED
        BY <4>1, <4>2, <4>3
    <3>3. QED
      BY <2>4, <3>1, <3>2
  <2>9. PICK m : m = nodes' /\ query' = query
    BY <1>1
  <2>10. Tree'
    <3>1. \A i \in 2 .. Len(m) :
            /\ m[i].parent \in 1 .. (i - 1) /\ m[i].act \in Range(letters)
            /\ m[i].support = Image(m[m[i].parent].support, m[i].act)
      BY <2>6, <2>8, <2>9
    <3>2. m \in Seq(NodeRecords) /\ m # <<>> /\ m[1].support = query.initial
      BY <2>5, <2>7, <2>9
    <3>3. letters' = letters /\ aut' = aut
      BY <2>9 DEF letters, aut
    <3>4. ASSUME NEW i \in 2 .. Len(nodes')
          PROVE  /\ nodes'[i].parent \in 1 .. (i - 1) /\ nodes'[i].act \in Range(letters')
                 /\ nodes'[i].support = Image(nodes[nodes[i].parent].support, nodes[i].act)'
      <4>1. PICK r : r = m[i] /\ i \in 2 .. Len(m)
        BY <2>9
      <4>2. PICK s : s = m[r.parent].support
        OBVIOUS
      <4>3. /\ r.parent \in 1 .. (i - 1) /\ r.act \in Range(letters)
            /\ r.support = Image(s, r.act)
        BY <3>1, <4>1, <4>2
      <4>4. nodes'[i] = r /\ nodes'[nodes'[i].parent].support = s
        BY <2>9, <4>1, <4>2
      <4>5. Image(nodes[nodes[i].parent].support, nodes[i].act)' = Image(s, r.act)
        BY <3>3, <4>4 DEF Image
      <4>6. QED
        BY <3>3, <4>3, <4>4, <4>5
    <3>5. QED
      BY <2>9, <3>2, <3>4 DEF Tree
  <2>11. QED
    BY <1>1, <2>10, PhaseSearches DEF PhaseInv, PhaseTypes
<1>7. QED
  BY <1>5, <1>6 DEF SearchLetter, Enqueued

\* The word read back from the node, and the letter that does, lead to where
\* the search is: the replay accepts it.
LEMMA SearchFoundSound ==
  ASSUME PhaseInv, SearchFound, SearchInv'
  PROVE  PhaseInv'
<1>1. query \in Queries /\ Tree /\ at = "search"
  BY DEF PhaseInv, SearchInv, SearchTypes, SearchFound
<1>2. head \in 1 .. Len(nodes) /\ letter \in 1 .. Len(letters)
  BY <1>1 DEF PhaseInv, SearchInv, SearchTypes, Searched, Expanding, SearchFound
<1>3. PICK a : a = letters[letter] /\ a \in Range(letters) /\ a \in Actions
  BY <1>1, <1>2, LetterActions
<1>4. PICK v : v = Path(head) /\ v \in Seq(Range(letters))
                /\ nodes[head].support = ImageOf(query.initial, v)
  BY <1>1, <1>2, PathsSound DEF Replays
<1>5. v \in Seq(Actions) /\ query.initial \in Supports
  BY <1>1, <1>4, LetterActions, QueryTypes
<1>6. Append(v, a) \in Seq(Range(letters)) /\ Append(v, a) = v \o <<a>>
  BY <1>3, <1>4
<1>7. <<a>> \in Seq(Actions)
  BY <1>3
<1>8. ImageOf(query.initial, v \o <<a>>) = ImageOf(nodes[head].support, <<a>>)
  BY <1>1, <1>4, <1>5, <1>7, ImageOfConcat
<1>9. ImageOf(nodes[head].support, <<a>>) = Successor
  BY <1>3, ImageOfShort DEF Successor
<1>10. Satisfied(ImageOf(query.initial, Append(v, a)))
  BY <1>6, <1>8, <1>9 DEF SearchFound
<1>11. Finalize(Append(v, a), "PLAN")
  BY <1>3, <1>4 DEF SearchFound
<1>12. QED
  BY <1>6, <1>10, <1>11, PhaseReplays

-----------------------------------------------------------------------------
LEMMA PhaseStep ==
  ASSUME PhaseInv, [Next]_vars
  PROVE  PhaseInv'
<1>1. SearchInv'
  BY StepSound DEF PhaseInv
<1>2. CASE SearchBound
  <2>1. word = <<>> /\ word' = word /\ Finish("RESOURCE_BOUND")
    BY <1>2 DEF PhaseInv, SearchBound, Between
  <2>2. QED
    BY <1>1, <2>1, PhaseEnds DEF PhaseInv, PhaseTypes
<1>3. CASE SearchExhausted
  <2>1. word = <<>> /\ word' = word /\ Finish("NO_PLAN")
    BY <1>3 DEF PhaseInv, SearchExhausted, Between
  <2>2. QED
    BY <1>1, <2>1, PhaseEnds DEF PhaseInv, PhaseTypes
<1>4. CASE UNCHANGED vars
  <2>1. letters' = letters /\ Candidates' = Candidates
    BY <1>4, CallKept DEF vars
  <2>2. PICK i \in Supports : i = query.initial
    BY QueryTypes DEF PhaseInv, SearchInv, SearchTypes
  <2>3. PhaseTypes' /\ RefusedOnlyForRecords' /\ NoWordWithoutPlan'
    BY <1>4, <2>1 DEF PhaseInv, PhaseTypes, RefusedOnlyForRecords, NoWordWithoutPlan, vars
  <2>4. at' = "greedy" => query'.kind # "goal" /\ active' = ImageOf(query.initial, word)'
    BY <1>4 DEF PhaseInv, ImageOf, Image, aut, vars
  <2>5. at' = "search" => Tree'
    BY <1>4 DEF PhaseInv, Tree, Image, aut, letters, vars
  <2>6. QED
    BY <1>1, <1>4, <2>3, <2>4, <2>5 DEF PhaseInv, vars
<1>5. QED
  BY <1>1, <1>2, <1>3, <1>4, PhaseStartSound, GreedyStepSound, GreedyRefusedSound,
     GreedyMergedSound, GreedyStuckSound, TreeStarts, TreeExpanded, TreeGrows,
     SearchFoundSound DEF Next, Returned

\* Every support that greedy merging or the search works on is the image of the
\* initial support under the word that is held or read back for it, every word
\* keeps to the permitted actions, and a call fails only for malformed records
\* and without a word: the final replay of sg_sync_finalize and
\* sg_goal_finalize never refuses what the planner found.
THEOREM PhasesAlwaysSound == Spec => []PhasesSound
<1>1. PhaseInv => PhasesSound
  <2> SUFFICES ASSUME PhaseInv PROVE PhasesSound
    OBVIOUS
  <2>1. query \in Queries
    BY DEF PhaseInv, SearchInv, SearchTypes
  <2>2. word \in Seq(Range(letters)) /\ word \in Seq(Actions) /\ WordPermitted
    BY <2>1, LetterActions DEF PhaseInv, PhaseTypes, WordPermitted
  <2>3. TypeOK
    BY <2>2 DEF PhaseInv, PhaseTypes, SearchInv, SearchTypes, NodeRecords, TypeOK
  <2>4. SupportsReplay
    <3>1. ASSUME at = "search", NEW i \in DOMAIN nodes
          PROVE  nodes[i].support = ImageOf(query.initial, Path(i))
      <4>1. Tree /\ i \in 1 .. Len(nodes)
        BY <3>1 DEF PhaseInv, Tree
      <4>2. QED
        BY <2>1, <4>1, PathsSound DEF Replays
    <3>2. QED
      BY <3>1 DEF SupportsReplay, PhaseInv
  <2>5. QED
    BY <2>2, <2>3, <2>4 DEF PhasesSound, PhaseInv
<1>2. QED
  BY <1>1, PhaseStarts, PhaseStep, PTL DEF Spec

-----------------------------------------------------------------------------
(* The search goes by breadth, so its plans are as short as any.           *)

Held == [i \in 1 .. Len(nodes) |-> nodes[i].support]
Succ == [c \in Supports \X Range(letters) |-> Image(c[1], c[2])]

BreadthInv ==
  /\ PhaseInv
  /\ at \in {"start", "greedy", "queue"} => nodes = <<>>
  /\ at = "search" => Breadth(nodes, Held, Succ, letters, head, letter)
  /\ SearchPlanShortest

LEMMA SuccSound ==
  ASSUME query \in Queries
  PROVE  /\ Succ \in [Supports \X Range(letters) -> Supports]
         /\ \A s \in Supports, a \in Range(letters) : Succ[<<s, a>>] = Image(s, a)
<1>1. \A s \in Supports, a \in Range(letters) : Image(s, a) \in Supports
  BY LetterActions, ImageType
<1>2. QED
  BY <1>1 DEF Succ

LEMMA TreeHangs ==
  ASSUME query \in Queries, Tree
  PROVE  /\ Hanging(nodes, Range(letters)) /\ Len(nodes) \in Nat \ {0}
         /\ \A i \in 1 .. Len(nodes) : Held[i] \in Supports /\ Held[i] = nodes[i].support
         /\ \A i \in 2 .. Len(nodes) : Held[i] = Succ[<<Held[nodes[i].parent], nodes[i].act>>]
<1>1. Hanging(nodes, Range(letters)) /\ Len(nodes) \in Nat \ {0}
  BY DEF Tree, Hanging
<1>2. \A i \in 1 .. Len(nodes) : Held[i] = nodes[i].support
  BY DEF Held
<1>3. ASSUME NEW i \in 1 .. Len(nodes) PROVE nodes[i].support \in Supports
  <2>1. nodes[i] \in NodeRecords
    BY DEF Tree
  <2>2. QED
    BY <2>1 DEF NodeRecords
<1>4. ASSUME NEW i \in 2 .. Len(nodes)
      PROVE  Held[i] = Succ[<<Held[nodes[i].parent], nodes[i].act>>]
  <2>1. PICK p \in 1 .. (i - 1) : p = nodes[i].parent
    BY DEF Tree
  <2>2. PICK a \in Range(letters) : a = nodes[i].act
    BY DEF Tree
  <2>3. nodes[i].support = Image(nodes[p].support, a)
    BY <2>1, <2>2 DEF Tree
  <2>4. i \in 1 .. Len(nodes) /\ p \in 1 .. Len(nodes)
    BY <1>1, <2>1
  <2>5. Held[i] = nodes[i].support /\ Held[p] = nodes[p].support /\ Held[p] \in Supports
    BY <1>2, <1>3, <2>4
  <2>6. Succ[<<Held[p], a>>] = Image(Held[p], a)
    BY <2>5, SuccSound
  <2>7. QED
    BY <2>1, <2>2, <2>3, <2>5, <2>6
<1>5. QED
  BY <1>1, <1>2, <1>3, <1>4

\* What words of at most n letters lead to, layer by layer.
LEMMA WithinIs ==
  ASSUME query \in Queries, NEW n \in Nat
  PROVE  \E f \in [0 .. n -> SUBSET Supports] :
           /\ Spreads(f, query.initial, Succ, Range(letters), n) /\ Within(n) = f[n]
<1> DEFINE A == Range(letters)
           root == query.initial
           Reach(T) == UNION {{Image(s, a) : a \in A} : s \in T}
           Is(g) == g = [k \in 0 .. n |-> {root} \cup IF k = 0 THEN {} ELSE Reach(g[k - 1])]
<1>1. root \in Supports /\ Succ \in [Supports \X A -> Supports]
  BY QueryTypes, SuccSound
<1>2. PICK f \in [0 .. n -> SUBSET Supports] : Spreads(f, root, Succ, A, n)
  BY <1>1, SpreadExists
<1>3. ASSUME NEW T \in SUBSET Supports PROVE Grown(root, Succ, A, T) = {root} \cup Reach(T)
  <2> DEFINE By(s) == {Succ[<<s, a>>] : a \in A}
             To(s) == {Image(s, a) : a \in A}
  <2>1. \A s \in T : By(s) = To(s)
    BY SuccSound
  <2> HIDE DEF By, To
  <2>2. {By(s) : s \in T} = {To(s) : s \in T}
    BY <2>1
  <2>3. QED
    BY <2>2 DEF Grown, By, To
<1> DEFINE Goes(g) == g[0] = {root} /\ \A k \in 1 .. n : g[k] = {root} \cup Reach(g[k - 1])
<1>4. ASSUME NEW g, Is(g) PROVE Goes(g)
  <2> HIDE DEF Reach, root
  <2>1. \A k \in 0 .. n : g[k] = {root} \cup IF k = 0 THEN {} ELSE Reach(g[k - 1])
    BY <1>4
  <2>2. g[0] = {root}
    BY <2>1
  <2>3. ASSUME NEW k \in 1 .. n PROVE g[k] = {root} \cup Reach(g[k - 1])
    <3>1. k \in 0 .. n /\ k # 0
      OBVIOUS
    <3>2. QED
      BY <2>1, <3>1
  <2>4. QED
    BY <2>2, <2>3
<1>5. Is(f)
  <2> DEFINE h == [k \in 0 .. n |-> {root} \cup IF k = 0 THEN {} ELSE Reach(f[k - 1])]
  <2>1. ASSUME NEW k \in 0 .. n PROVE f[k] = h[k]
    <3>1. CASE k = 0
      <4>1. f[0] = {root}
        BY <1>2 DEF Spreads
      <4> HIDE DEF Reach, root
      <4>2. QED
        BY <3>1, <4>1
    <3>2. CASE k # 0
      <4>1. k \in 1 .. n /\ k - 1 \in 0 .. n
        BY <3>2
      <4>2. f[k] = Grown(root, Succ, A, f[k - 1]) /\ f[k - 1] \in SUBSET Supports
        BY <1>2, <4>1 DEF Spreads
      <4>3. f[k] = {root} \cup Reach(f[k - 1])
        BY <1>3, <4>2
      <4> HIDE DEF Reach, root
      <4>4. QED
        BY <3>2, <4>3
    <3>3. QED
      BY <3>1, <3>2
  <2>2. f = [k \in 0 .. n |-> f[k]] /\ h = [k \in 0 .. n |-> h[k]]
    OBVIOUS
  <2> HIDE DEF h
  <2>3. f = h
    BY <2>1, <2>2
  <2>4. QED
    BY <2>3 DEF h
<1> DEFINE M == CHOOSE g : Is(g)
<1>6. Within(n) = M[n]
  BY DEF Within
<1>7. Is(M)
  <2> HIDE DEF Is
  <2>1. QED
    BY <1>5
<1> HIDE DEF M, Is, Reach, root
<1>8. \A k \in 0 .. n : M[k] = f[k]
  <2> DEFINE S == {k \in 0 .. n : M[k] = f[k]}
  <2>1. Goes(M) /\ Goes(f)
    <3> HIDE DEF Goes
    <3>1. QED
      BY <1>4, <1>5, <1>7
  <2>2. 0 \in S
    <3>1. M[0] = {root} /\ f[0] = {root}
      BY <2>1
    <3>2. 0 \in 0 .. n /\ M[0] = f[0]
      BY <3>1
    <3> HIDE DEF Goes
    <3>3. QED
      BY <3>2
  <2>3. ASSUME NEW k \in 1 .. n, k - 1 \in S PROVE k \in S
    <3>1. k \in 0 .. n /\ M[k - 1] = f[k - 1]
      BY <2>3
    <3>2. QED
      BY <2>1, <3>1
  <2> HIDE DEF S
  <2>4. \A k \in 0 .. n : k \in S
    BY <2>2, <2>3, StepByStep
  <2>5. QED
    BY <2>4 DEF S
<1>9. QED
  BY <1>2, <1>6, <1>8 DEF root

LEMMA SuccKept ==
  ASSUME query' = query
  PROVE  letters' = letters /\ Succ' = Succ
<1>1. letters' = letters /\ aut' = aut
  BY DEF letters, aut
<1>2. QED
  BY <1>1 DEF Succ, Image

\* A step that neither searches nor ends a search with a plan.
LEMMA BreadthQuiet ==
  ASSUME PhaseInv', at' \notin {"start", "search"},
         at' \in {"greedy", "queue"} => nodes' = <<>>,
         outcome' = "PLAN" => nodes' = <<>>
  PROVE  BreadthInv'
BY DEF BreadthInv, SearchPlanShortest

LEMMA BreadthSearches ==
  ASSUME PhaseInv', at' = "search",
         Breadth(nodes', Held', Succ', letters', head', letter')
  PROVE  BreadthInv'
<1>1. outcome' = "NONE"
  BY DEF PhaseInv, SearchInv
<1>2. QED
  BY <1>1 DEF BreadthInv, SearchPlanShortest

\* The search starts with the root.
LEMMA BreadthSearchStart ==
  ASSUME BreadthInv, SearchStart, PhaseInv'
  PROVE  BreadthInv'
<1>1. at' = "search" /\ Len(nodes') = 1 /\ head' = 0
  BY DEF SearchStart, BreadthInv, PhaseInv, SearchInv
<1>2. Breadth(nodes', Held', Succ', letters', head', letter')
  BY <1>1, BreadthStarts
<1>3. QED
  BY <1>1, <1>2, BreadthSearches

\* The queue is worked off from the front.
LEMMA BreadthExpand ==
  ASSUME BreadthInv, SearchExpand, PhaseInv'
  PROVE  BreadthInv'
<1>1. /\ UNCHANGED <<query, nodes>> /\ at' = "search" /\ at = "search"
      /\ head' = head + 1 /\ letter' = 1 /\ head < Len(nodes) /\ letter > Len(letters)
  BY DEF SearchExpand, Between
<1>2. query \in Queries /\ Tree /\ head \in 0 .. Len(nodes) /\ letter \in 1 .. Len(letters) + 1
  BY <1>1 DEF BreadthInv, PhaseInv, SearchInv, SearchTypes
<1>3. Hanging(nodes, Range(letters)) /\ Len(letters) \in Nat
  BY <1>2, TreeHangs, QueryTypes
<1>4. letter = Len(letters) + 1
  BY <1>1, <1>2, <1>3
<1>5. Breadth(nodes, Held, Succ, letters, head, Len(letters) + 1)
  BY <1>1, <1>4 DEF BreadthInv
<1>6. Breadth(nodes, Held, Succ, letters, head + 1, 1)
  BY <1>1, <1>2, <1>3, <1>5, BreadthExpands
<1>7. Held' = Held /\ Succ' = Succ /\ letters' = letters
  BY <1>1, SuccKept DEF Held
<1>8. Breadth(nodes', Held', Succ', letters', head', letter')
  BY <1>1, <1>6, <1>7
<1>9. QED
  BY <1>1, <1>8, BreadthSearches

\* A support that is known is as near as a new one would be.
LEMMA BreadthLetter ==
  ASSUME BreadthInv, SearchLetter, PhaseInv'
  PROVE  BreadthInv'
<1>1. /\ UNCHANGED <<query, head>> /\ at' = "search" /\ at = "search"
      /\ letter' = letter + 1 /\ letter <= Len(letters)
  BY DEF SearchLetter
<1>2. query \in Queries /\ Tree /\ Tree'
  BY <1>1 DEF BreadthInv, PhaseInv, SearchInv, SearchTypes
<1>3. head \in 1 .. Len(nodes) /\ letter \in 1 .. Len(letters)
  BY <1>1 DEF BreadthInv, PhaseInv, SearchInv, SearchTypes, Searched, Expanding
<1>4. Succ' = Succ /\ letters' = letters
  BY <1>1, SuccKept
<1>5. Hanging(nodes, Range(letters)) /\ Len(nodes) \in Nat \ {0}
  BY <1>2, TreeHangs
<1>6. Held[head] = nodes[head].support /\ Held[head] \in Supports /\ letters[letter] \in Range(letters)
  BY <1>2, <1>3, TreeHangs, LetterActions
<1>7. Successor = Succ[<<Held[head], letters[letter]>>]
  BY <1>2, <1>6, SuccSound DEF Successor
<1>8. Breadth(nodes, Held, Succ, letters, head, letter)
  BY <1>1 DEF BreadthInv
<1>9. CASE Known(Successor) /\ nodes' = nodes
  <2>1. \E j \in 1 .. Len(nodes) : Held[j] = Successor
    <3>1. PICK j \in DOMAIN nodes : nodes[j].support = Successor
      BY <1>9 DEF Known
    <3>2. j \in 1 .. Len(nodes)
      BY <1>2, <3>1 DEF Tree
    <3>3. Held[j] = nodes[j].support
      BY <1>2, <3>2, TreeHangs
    <3>4. QED
      BY <3>1, <3>2, <3>3
  <2>2. letter \in Nat /\ \E j \in 1 .. Len(nodes) : Held[j] = Succ[<<Held[head], letters[letter]>>]
    BY <1>3, <1>7, <2>1
  <2>3. Breadth(nodes, Held, Succ, letters, head, letter + 1)
    BY <1>3, <1>5, <1>8, <2>2, BreadthKnown
  <2>4. Held' = Held
    BY <1>9 DEF Held
  <2>5. Breadth(nodes', Held', Succ', letters', head', letter')
    BY <1>1, <1>4, <1>9, <2>3, <2>4
  <2>6. QED
    BY <1>1, <2>5, BreadthSearches
<1>10. CASE nodes' = Append(nodes, Node(Successor, head, letters[letter]))
  <2>1. PICK e : e = Node(Successor, head, letters[letter])
    OBVIOUS
  <2>2. e.parent = head /\ e.support = Successor
    BY <2>1 DEF Node
  <2>3. PICK l \in Nat \ {0} : l = Len(nodes)
    BY <1>5
  <2>4. nodes \in Seq(NodeRecords) /\ nodes' = Append(nodes, e)
    BY <1>2, <1>10, <2>1 DEF Tree
  <2>5. /\ Len(nodes') = l + 1 /\ nodes'[l + 1] = e
        /\ \A i \in 1 .. l : nodes'[i] = nodes[i]
    BY <2>3, <2>4
  <2>6. PICK m, more, succ : m = nodes' /\ more = Held' /\ succ = Succ
    OBVIOUS
  <2>7. Hanging(m, Range(letters))
    <3>1. \A i \in 2 .. Len(nodes') :
            nodes'[i].parent \in 1 .. (i - 1) /\ nodes'[i].act \in Range(letters')
      BY <1>2 DEF Tree
    <3>2. \A i \in 2 .. Len(m) : m[i].parent \in 1 .. (i - 1) /\ m[i].act \in Range(letters)
      BY <1>4, <2>6, <3>1
    <3>3. Len(m) \in Nat \ {0}
      BY <2>3, <2>5, <2>6
    <3>4. QED
      BY <3>2, <3>3 DEF Hanging
  <2>8. Held' = [i \in 1 .. l + 1 |-> nodes'[i].support]
    BY <2>5 DEF Held
  <2>9. \A i \in 1 .. l : m[i] = nodes[i] /\ more[i] = Held[i]
    <3>1. ASSUME NEW i \in 1 .. l PROVE m[i] = nodes[i] /\ more[i] = Held[i]
      <4>1. more[i] = nodes'[i].support
        BY <2>3, <2>6, <2>8
      <4>2. Held[i] = nodes[i].support
        BY <1>2, <2>3, TreeHangs
      <4>3. QED
        BY <2>5, <2>6, <4>1, <4>2
    <3>2. QED
      BY <3>1
  <2>10. m[l + 1].parent = head /\ more[l + 1] = Successor
    BY <2>2, <2>3, <2>5, <2>6, <2>8
  <2>11. /\ Len(m) = Len(nodes) + 1 /\ letter \in Nat
         /\ \A i \in 1 .. Len(nodes) : m[i] = nodes[i] /\ more[i] = Held[i]
         /\ m[Len(nodes) + 1].parent = head
         /\ more[Len(nodes) + 1] = Succ[<<Held[head], letters[letter]>>]
    BY <1>3, <1>7, <2>3, <2>5, <2>6, <2>9, <2>10
  <2>12. Breadth(m, more, Succ, letters, head, letter + 1)
    <3>1. PICK ls, hd, hold : ls = letters /\ hd = head /\ hold = Held
      OBVIOUS
    <3>2. PICK q, lt : q = nodes /\ lt = letter
      OBVIOUS
    <3>3. PICK A : A = Range(letters)
      OBVIOUS
    <3>4. /\ Hanging(q, A) /\ Hanging(m, A) /\ hd \in 1 .. Len(q) /\ lt \in Nat
          /\ Len(m) = Len(q) + 1 /\ \A i \in 1 .. Len(q) : m[i] = q[i] /\ more[i] = hold[i]
          /\ m[Len(q) + 1].parent = hd
          /\ more[Len(q) + 1] = succ[<<hold[hd], ls[lt]>>]
          /\ Breadth(q, hold, succ, ls, hd, lt)
      BY <1>3, <1>5, <1>8, <2>6, <2>7, <2>11, <3>1, <3>2, <3>3
    <3>5. Adds(q, m, hold, more, hd, succ[<<hold[hd], ls[lt]>>])
      BY <3>4 DEF Adds
    <3>6. Breadth(m, more, succ, ls, hd, lt + 1)
      BY <3>4, <3>5, BreadthGrows
    <3>7. QED
      BY <2>6, <3>1, <3>2, <3>6
  <2>13. Breadth(nodes', Held', Succ', letters', head', letter')
    BY <1>1, <1>4, <2>6, <2>12
  <2>14. QED
    BY <1>1, <2>13, BreadthSearches
<1>11. QED
  BY <1>9, <1>10 DEF SearchLetter, Enqueued, Kept

\* The word of the node that is expanded is one letter short of the plan, and
\* every shorter word leads to a node, none of which would do.
LEMMA BreadthFound ==
  ASSUME BreadthInv, SearchFound, PhaseInv'
  PROVE  BreadthInv'
<1>1. query \in Queries /\ Tree /\ at = "search" /\ at' = "done" /\ UNCHANGED <<query, nodes>>
  BY DEF BreadthInv, PhaseInv, SearchInv, SearchTypes, SearchFound, Finalize, Finish
<1>2. head \in 1 .. Len(nodes) /\ letter \in 1 .. Len(letters) /\ Searched
  BY <1>1 DEF BreadthInv, PhaseInv, SearchInv, SearchTypes, Searched, Expanding, SearchFound
<1>3. PICK a \in Range(letters) : a = letters[letter]
  BY <1>1, <1>2, LetterActions
<1>4. Hanging(nodes, Range(letters)) /\ Len(nodes) \in Nat \ {0}
  BY <1>1, TreeHangs
<1>5. PICK v \in Seq(Range(letters)) : v = Path(head) /\ Len(v) = Height(nodes, head)
  <2>1. Path(head) = ReadBack(nodes, head)
    BY <1>1, <1>2, PathReads
  <2>2. ReadBack(nodes, head) \in Seq(Range(letters)) /\ Len(ReadBack(nodes, head)) = Height(nodes, head)
    BY <1>2, <1>4, ReadBackWord
  <2>3. QED
    BY <2>1, <2>2
<1>6. word' = Append(v, a) \/ outcome' = "INVALID_MODEL"
  BY <1>3, <1>5 DEF SearchFound, Finalize, Finish
<1>7. PICK n \in Nat : n = Len(v)
  BY <1>5
<1>8. \A s \in Within(n) : ~Satisfied(s)
  <2>1. PICK f \in [0 .. n -> SUBSET Supports] :
          Spreads(f, query.initial, Succ, Range(letters), n) /\ Within(n) = f[n]
    BY <1>1, WithinIs
  <2>2. Held[1] = query.initial
    BY <1>1, <1>4, TreeHangs DEF Tree
  <2>3. Breadth(nodes, Held, Succ, letters, head, letter)
    BY <1>1 DEF BreadthInv
  <2>4. \A b \in Range(letters) : \E l \in 1 .. Len(letters) : letters[l] = b
    BY <1>1, QueryTypes DEF Range
  <2>5. Spreads(f, Held[1], Succ, Range(letters), n) /\ n <= Height(nodes, head)
    BY <1>5, <1>7, <2>1, <2>2
  <2>6. \A y \in f[n] : \E i \in 1 .. Len(nodes) : Held[i] = y
    BY <1>2, <1>4, <2>3, <2>4, <2>5, BreadthNearest
  <2>7. ASSUME NEW s \in Within(n) PROVE ~Satisfied(s)
    <3>1. PICK i \in 1 .. Len(nodes) : Held[i] = s
      BY <2>1, <2>6
    <3>2. Held[i] = nodes[i].support /\ i \in DOMAIN nodes
      BY <1>1, <3>1, TreeHangs DEF Tree
    <3>3. QED
      BY <1>2, <3>1, <3>2 DEF Searched
  <2>8. QED
    BY <2>7
<1>9. SearchPlanShortest'
  <2>1. CASE outcome' = "INVALID_MODEL"
    BY <2>1 DEF SearchPlanShortest
  <2>2. CASE word' = Append(v, a)
    <3>1. Len(word') = n + 1
      BY <1>3, <1>5, <1>7, <2>2
    <3>2. aut' = aut /\ letters' = letters
      BY <1>1 DEF aut, letters
    <3>3. PICK k : k = Len(word') - 1
      OBVIOUS
    <3>4. k = n
      BY <3>1, <3>3
    <3>5. Within(Len(word) - 1)' = Within(n)
      <4>1. Len(word') - 1 = n
        BY <3>3, <3>4
      <4>2. query'.initial = query.initial
        BY <1>1
      <4>3. Within(n)' = Within(n)
        BY <3>2, <4>2 DEF Within, Image
      <4>4. Within(Len(word) - 1)' = Within(n)'
        BY <4>1 DEF Within
      <4>5. QED
        BY <4>3, <4>4
    <3>6. ASSUME NEW s PROVE Satisfied(s)' = Satisfied(s)
      BY <1>1 DEF Satisfied
    <3>7. QED
      BY <1>8, <3>5, <3>6 DEF SearchPlanShortest
  <2>3. QED
    BY <1>6, <2>1, <2>2
<1>10. QED
  BY <1>1, <1>9 DEF BreadthInv

LEMMA BreadthStep ==
  ASSUME BreadthInv, [Next]_vars
  PROVE  BreadthInv'
<1>1. PhaseInv'
  BY PhaseStep DEF BreadthInv
<1>2. CASE Start
  <2>1. nodes' = <<>> /\ at' \in {"done", "queue", "greedy"}
    BY <1>2 DEF BreadthInv, Start, Finalize, Finish
  <2>2. QED
    BY <1>1, <2>1, BreadthQuiet
<1>3. CASE GreedyStep \/ GreedyRefused \/ GreedyMerged \/ GreedyStuck
  <2>1. nodes' = <<>> /\ at' \in {"done", "queue", "greedy"}
    BY <1>3 DEF BreadthInv, GreedyStep, GreedyRefused, GreedyMerged, GreedyStuck, Greedy,
               Finalize, Finish
  <2>2. QED
    BY <1>1, <2>1, BreadthQuiet
<1>4. CASE SearchBound \/ SearchExhausted
  <2>1. at' = "done" /\ outcome' # "PLAN"
    BY <1>4 DEF SearchBound, SearchExhausted, Finish
  <2>2. QED
    BY <1>1, <2>1, BreadthQuiet
<1>5. CASE UNCHANGED vars
  <2>1. Held' = Held /\ Succ' = Succ /\ letters' = letters /\ aut' = aut
    BY <1>5, SuccKept DEF vars, Held, aut
  <2>2. UNCHANGED vars /\ at' = "search" => Breadth(nodes', Held', Succ', letters', head', letter')
    BY <1>5, <2>1 DEF BreadthInv, vars
  <2>3. PICK k : k = Len(word) - 1
    OBVIOUS
  <2>4. Within(Len(word) - 1)' = Within(k)
    BY <1>5, <2>1, <2>3 DEF Within, Image, vars
  <2>5. SearchPlanShortest'
    BY <1>5, <2>3, <2>4 DEF BreadthInv, SearchPlanShortest, Satisfied, vars
  <2>6. QED
    BY <1>1, <1>5, <2>2, <2>5 DEF BreadthInv, vars
<1>6. QED
  BY <1>1, <1>2, <1>3, <1>4, <1>5, BreadthSearchStart, BreadthExpand, BreadthLetter,
     BreadthFound DEF Next, Returned

\* A plan of the search is as short as any word that does, for every automaton,
\* list of permitted actions, goal and budget: sg_subset_bfs and sg_plan_goal
\* store what shorter words lead to before they go on.
THEOREM PlansAlwaysShortest == Spec => []SearchPlanShortest
<1>1. ASSUME Init PROVE BreadthInv
  BY <1>1, PhaseStarts DEF BreadthInv, Init, SearchPlanShortest
<1>2. BreadthInv => SearchPlanShortest
  BY DEF BreadthInv
<1>3. QED
  BY <1>1, <1>2, BreadthStep, PTL DEF Spec

-----------------------------------------------------------------------------
(* The budget: each round of greedy merging takes a state away, and no     *)
(* support is expanded twice.                                              *)

LEMMA FiniteSupports ==
  /\ \A s \in Supports : IsFiniteSet(s) /\ Cardinality(s) \in Nat
  /\ IsFiniteSet(Supports) /\ 2 ^ Cardinality(States) \in Nat
  /\ Cardinality(Supports) = 2 ^ Cardinality(States)
<1>1. IsFiniteSet(States)
  BY GraphAssumption
<1>2. IsFiniteSet(Supports) /\ Cardinality(Supports) = 2 ^ Cardinality(States)
  BY <1>1, FS_SUBSET DEF Supports
<1>3. \A s \in Supports : IsFiniteSet(s) /\ Cardinality(s) \in Nat
  BY <1>1, FS_Subset, FS_CardinalityType DEF Supports
<1>4. Cardinality(Supports) \in Nat
  BY <1>2, FS_CardinalityType
<1>5. QED
  BY <1>2, <1>3, <1>4

\* A word that merges a pair of a support leaves fewer states than there were.
LEMMA MergeLessens ==
  ASSUME query \in Queries, NEW s \in Supports, NEW p \in Pairs, p \subseteq s, p \notin Diagonal,
         NEW w, Merges(w, p)
  PROVE  ImageOf(s, w) # {} /\ Cardinality(ImageOf(s, w)) < Cardinality(s)
<1>1. PICK x, y \in States : p = {x, y}
  BY DEF Pairs
<1>2. x # y /\ x \in s /\ y \in s
  BY <1>1 DEF Diagonal
<1>3. w \in Seq(Actions) /\ ImageOf(p, w) \in Diagonal
  BY LetterActions DEF Merges
<1> DEFINE end(z) == PlacesFrom(aut, z, w)[Len(w)]
<1>4. ImageOf(s, w) = {end(z) : z \in s} /\ ImageOf(p, w) = {end(z) : z \in p}
  <2>1. p \in Supports
    BY <1>1 DEF Supports
  <2>2. QED
    BY <1>3, <2>1, ImageOfPlaces
<1> HIDE DEF end
<1>5. end(x) = end(y)
  <2>1. PICK z : ImageOf(p, w) = {z}
    BY <1>3 DEF Diagonal
  <2>2. end(x) \in {z} /\ end(y) \in {z}
    BY <1>1, <1>4, <2>1
  <2>3. QED
    BY <2>2
<1>6. PICK t : t = s \ {x}
  OBVIOUS
<1>7. PICK m : m = ImageOf(s, w)
  OBVIOUS
<1> DEFINE f == [z \in t |-> end(z)]
<1>8. f \in Surjection(t, m)
  <2>1. \A z \in t : end(z) \in m
    BY <1>4, <1>6, <1>7
  <2>2. ASSUME NEW u \in m PROVE \E z \in t : f[z] = u
    <3>1. PICK z \in s : u = end(z)
      BY <1>4, <1>7
    <3>2. CASE z = x
      BY <1>2, <1>5, <1>6, <3>1, <3>2
    <3>3. CASE z # x
      BY <1>6, <3>1, <3>3
    <3>4. QED
      BY <3>2, <3>3
  <2>3. f \in [t -> m]
    BY <2>1
  <2>4. QED
    BY <2>2, <2>3 DEF Surjection
<1> HIDE DEF f
<1>9. IsFiniteSet(s) /\ Cardinality(s) \in Nat
  BY FiniteSupports
<1>10. IsFiniteSet(t) /\ Cardinality(t) = Cardinality(s) - 1
  BY <1>2, <1>6, <1>9, FS_RemoveElement
<1>11. IsFiniteSet(m) /\ Cardinality(m) <= Cardinality(t)
  BY <1>8, <1>10, FS_Surjection
<1>12. Cardinality(m) \in Nat
  BY <1>11, FS_CardinalityType
<1>13. m # {}
  BY <1>2, <1>4, <1>7
<1>14. QED
  BY <1>7, <1>9, <1>10, <1>11, <1>12, <1>13

Distinct ==
  \A i, j \in 1 .. Len(nodes) : nodes[i].support = nodes[j].support => i = j

\* The supports that words lead to, of which the nodes of a search are some.
LEMMA ReachableCount ==
  ASSUME query \in Queries
  PROVE  /\ Cardinality(Within(2 ^ Cardinality(States))) \in Nat \ {0}
         /\ Tree /\ Distinct => Len(nodes) <= Cardinality(Within(2 ^ Cardinality(States)))
<1>1. PICK n \in Nat : n = 2 ^ Cardinality(States)
  BY FiniteSupports
<1>2. PICK f \in [0 .. n -> SUBSET Supports] :
        Spreads(f, query.initial, Succ, Range(letters), n) /\ Within(n) = f[n]
  BY WithinIs
<1>3. PICK W \in SUBSET Supports : W = f[n]
  BY <1>2
<1>4. IsFiniteSet(W) /\ Cardinality(W) \in Nat
  BY FiniteSupports, FS_Subset, FS_CardinalityType
<1>5. \A j, k \in 0 .. n : j <= k => f[j] \subseteq f[k]
  BY <1>2, SpreadGrows
<1>6. W # {}
  <2>1. f[0] = {query.initial}
    BY <1>2 DEF Spreads
  <2>2. f[0] \subseteq f[n]
    BY <1>5
  <2>3. QED
    BY <1>3, <2>1, <2>2
<1>7. Cardinality(W) # 0
  BY <1>4, <1>6, FS_EmptySet
<1>8. ASSUME Tree, Distinct PROVE Len(nodes) <= Cardinality(W)
  <2>1. Hanging(nodes, Range(letters))
    BY <1>8, TreeHangs
  <2>2. PICK l \in Nat \ {0} : l = Len(nodes)
    BY <1>8, TreeHangs
  <2>3. \A i \in 1 .. l : Held[i] \in Supports /\ Held[i] = nodes[i].support
    BY <1>8, <2>2, TreeHangs
  <2>4. DOMAIN Held = 1 .. l /\ Held = [i \in 1 .. l |-> Held[i]]
    BY <2>2 DEF Held
  <2>5. \A i, j \in 1 .. l : Held[i] = Held[j] => i = j
    BY <1>8, <2>2, <2>3 DEF Distinct
  <2>6. PICK hold : hold = Held
    OBVIOUS
  <2>7. \A V : (\A i \in 1 .. l : hold[i] \in V) => hold \in Injection(1 .. l, V)
    BY <2>4, <2>5, <2>6 DEF Injection, IsInjective
  <2>8. IsFiniteSet(1 .. l) /\ Cardinality(1 .. l) = l
    <3>1. l \in Int /\ 1 \in Int /\ ~(1 > l) /\ l - 1 + 1 = l
      BY <2>2
    <3>2. \A a, b \in Int : IsFiniteSet(a .. b) /\ Cardinality(a .. b) = IF a > b THEN 0 ELSE b - a + 1
      BY FS_Interval, Zenon
    <3>3. IsFiniteSet(1 .. l) /\ Cardinality(1 .. l) = IF 1 > l THEN 0 ELSE l - 1 + 1
      BY <3>1, <3>2, Zenon
    <3>4. QED
      BY <3>1, <3>3
  <2>9. l <= n
    <3>1. hold \in Injection(1 .. l, Supports)
      BY <2>3, <2>6, <2>7
    <3>2. QED
      BY <1>1, <2>8, <3>1, FiniteSupports, FS_Injection
  <2>10. ASSUME NEW i \in 1 .. l PROVE hold[i] \in W
    <3>1. Len(nodes) \in Nat \ {0} /\ Rising(UpOf(nodes), Len(nodes))
      BY <2>1, HangingRises
    <3>2. PICK k \in 0 .. (i - 1) : IsHeight(UpOf(nodes), Len(nodes), i, k)
      BY <2>2, <3>1, HeightExists
    <3>3. Height(nodes, i) = k
      BY <3>1, <3>2, HeightIs
    <3>4. k \in 0 .. n /\ n \in 0 .. n /\ k <= n
      BY <2>9, <3>2
    <3>5. \A j \in 2 .. Len(nodes) : Held[j] = Succ[<<Held[nodes[j].parent], nodes[j].act>>]
      BY <1>8, TreeHangs
    <3>6. Held[1] = query.initial
      BY <1>8, <2>2, <2>3 DEF Tree
    <3>7. Spreads(f, Held[1], Succ, Range(letters), n) /\ i \in 1 .. Len(nodes) /\ Height(nodes, i) <= n
      BY <1>2, <2>2, <3>3, <3>4, <3>6
    <3>8. Held[i] \in f[Height(nodes, i)]
      BY <2>1, <3>5, <3>7, NodeInLayer
    <3>9. QED
      BY <1>3, <1>5, <2>6, <3>3, <3>4, <3>8
  <2>11. hold \in Injection(1 .. l, W)
    BY <2>7, <2>10
  <2>12. Cardinality(1 .. l) <= Cardinality(W)
    BY <1>4, <2>11, FS_Injection
  <2>13. QED
    BY <2>2, <2>8, <2>12
<1>9. QED
  BY <1>1, <1>2, <1>3, <1>4, <1>7, <1>8

CountInv ==
  /\ BreadthInv /\ BudgetShared
  /\ at = "start" => expansions = 0
  /\ at = "greedy" => /\ active # {}
                      /\ expansions + Cardinality(active) <= Cardinality(query.initial)
  /\ at = "queue" => expansions + 1 <= Cardinality(query.initial)
  /\ at = "search" => expansions + 1 <= Cardinality(query.initial) + head /\ Distinct
  /\ BudgetSuffices

LEMMA CallTypes ==
  ASSUME query \in Queries
  PROVE  /\ query.initial \in Supports /\ query.initial # {}
         /\ Cardinality(query.initial) \in Nat \ {0} /\ query.budget \in Nat \ {0}
<1>1. query.initial \in Supports /\ query.initial # {} /\ query.budget \in Nat \ {0}
  BY SearchAssumption
<1>2. QED
  BY <1>1, FiniteSupports, FS_EmptySet

\* A step after which the call has not given up.
LEMMA CountQuiet ==
  ASSUME BreadthInv', BudgetShared', at' \notin {"start", "greedy", "queue", "search"},
         outcome' # "RESOURCE_BOUND"
  PROVE  CountInv'
BY DEF CountInv, BudgetSuffices

LEMMA CountStart ==
  ASSUME CountInv, Start, BreadthInv', BudgetShared'
  PROVE  CountInv'
<1>1. query \in Queries /\ at = "start" /\ active = query.initial /\ expansions = 0 /\ outcome = "NONE"
  BY DEF CountInv, BreadthInv, PhaseInv, SearchInv, SearchTypes, Start
<1>2. CASE Satisfied(query.initial)
  <2>1. at' = "done" /\ outcome' # "RESOURCE_BOUND"
    BY <1>2 DEF Start, Finalize, Finish
  <2>2. QED
    BY <2>1, CountQuiet
<1>3. CASE ~Satisfied(query.initial)
  <2>1. UNCHANGED <<query, active, expansions, outcome>> /\ at' \in {"queue", "greedy"}
    BY <1>3 DEF Start
  <2>2. QED
    BY <1>1, <2>1, CallTypes DEF CountInv, BudgetSuffices
<1>4. QED
  BY <1>2, <1>3

\* A round spends one expansion and leaves at least one state less.
LEMMA CountGreedy ==
  ASSUME CountInv, GreedyStep, BreadthInv', BudgetShared'
  PROVE  CountInv'
<1>1. /\ query \in Queries /\ active \in Supports /\ expansions \in Nat
      /\ at = "greedy" /\ UNCHANGED <<query, at, nodes, outcome>> /\ expansions' = expansions + 1
      /\ outcome = "NONE"
  BY DEF CountInv, BreadthInv, PhaseInv, PhaseTypes, SearchInv, SearchTypes, GreedyStep, Greedy
<1>2. PICK p \in DOMAIN Candidates :
        /\ Candidates[p].state = "found" /\ active' = ImageOf(active, Candidates[p].word)
  BY DEF GreedyStep
<1>3. PICK w : w = Candidates[p].word
  OBVIOUS
<1>4. p \in Pairs /\ p \subseteq active /\ p \notin Diagonal /\ Merges(w, p)
  <2>1. /\ p \in Pairs /\ p \subseteq active /\ p \notin Diagonal
        /\ Witness(p).state = "found" /\ Witness(p).word = w
    BY <1>2, <1>3, CandidatesAre
  <2>2. QED
    BY <1>1, <2>1, WitnessSound
<1>5. active' # {} /\ Cardinality(active') < Cardinality(active)
  BY <1>1, <1>2, <1>3, <1>4, MergeLessens
<1>6. /\ Cardinality(active) \in Nat /\ Cardinality(active') \in Nat
      /\ Cardinality(query.initial) \in Nat
  <2>1. active' \in Supports
    BY DEF BreadthInv, PhaseInv, PhaseTypes
  <2>2. QED
    BY <1>1, <2>1, FiniteSupports, CallTypes
<1>7. expansions + Cardinality(active) <= Cardinality(query.initial)
  BY <1>1 DEF CountInv
<1>8. query'.initial = query.initial
  BY <1>1
<1>9. expansions' + Cardinality(active') <= Cardinality(query'.initial)
  BY <1>1, <1>5, <1>6, <1>7, <1>8
<1>10. QED
  BY <1>1, <1>5, <1>9 DEF CountInv, BudgetSuffices

\* The rounds that were made leave more than one state.
LEMMA CountStuck ==
  ASSUME CountInv, GreedyStuck, BreadthInv', BudgetShared'
  PROVE  CountInv'
<1>1. /\ query \in Queries /\ active \in Supports /\ expansions \in Nat /\ at = "greedy"
      /\ UNCHANGED <<query, expansions, outcome>> /\ at' = "queue" /\ outcome = "NONE"
      /\ Cardinality(active) > 1
  BY DEF CountInv, BreadthInv, PhaseInv, PhaseTypes, SearchInv, SearchTypes, GreedyStuck
<1>2. Cardinality(active) \in Nat /\ Cardinality(query.initial) \in Nat
  BY <1>1, FiniteSupports, CallTypes
<1>3. expansions + Cardinality(active) <= Cardinality(query.initial)
  BY <1>1 DEF CountInv
<1>4. QED
  BY <1>1, <1>2, <1>3 DEF CountInv, BudgetSuffices

LEMMA CountSearchStart ==
  ASSUME CountInv, SearchStart, BreadthInv', BudgetShared'
  PROVE  CountInv'
<1>1. /\ query \in Queries /\ expansions \in Nat /\ at = "queue" /\ head = 0
      /\ UNCHANGED <<query, expansions, outcome, head>> /\ at' = "search" /\ outcome = "NONE"
      /\ Len(nodes') = 1
  BY DEF CountInv, BreadthInv, PhaseInv, PhaseTypes, SearchInv, SearchTypes, SearchStart
<1>2. Distinct'
  BY <1>1 DEF Distinct
<1>3. expansions + 1 <= Cardinality(query.initial) + head
  BY <1>1, CallTypes DEF CountInv
<1>4. QED
  BY <1>1, <1>2, <1>3 DEF CountInv, BudgetSuffices

LEMMA CountExpand ==
  ASSUME CountInv, SearchExpand, BreadthInv', BudgetShared'
  PROVE  CountInv'
<1>1. /\ query \in Queries /\ expansions \in Nat /\ at = "search" /\ head \in Nat
      /\ UNCHANGED <<query, at, nodes, outcome>> /\ head' = head + 1 /\ expansions' = expansions + 1
      /\ outcome = "NONE"
  BY DEF CountInv, BreadthInv, PhaseInv, PhaseTypes, SearchInv, SearchTypes, SearchExpand, Between
<1>2. expansions + 1 <= Cardinality(query.initial) + head /\ Distinct
  BY <1>1 DEF CountInv
<1>3. Distinct'
  BY <1>1, <1>2 DEF Distinct
<1>4. expansions' + 1 <= Cardinality(query'.initial) + head'
  BY <1>1, <1>2, CallTypes
<1>5. QED
  BY <1>1, <1>3, <1>4 DEF CountInv, BudgetSuffices

\* Only supports that no node holds are kept.
LEMMA CountLetter ==
  ASSUME CountInv, SearchLetter, BreadthInv', BudgetShared'
  PROVE  CountInv'
<1>1. /\ query \in Queries /\ at = "search" /\ outcome = "NONE"
      /\ UNCHANGED <<query, at, expansions, head, outcome>>
  BY DEF CountInv, BreadthInv, PhaseInv, PhaseTypes, SearchInv, SearchTypes, SearchLetter
<1>2. expansions + 1 <= Cardinality(query.initial) + head /\ Distinct
  BY <1>1 DEF CountInv
<1>3. Tree
  BY <1>1 DEF CountInv, BreadthInv, PhaseInv
<1>4. CASE nodes' = nodes
  BY <1>1, <1>2, <1>4 DEF CountInv, BudgetSuffices, Distinct
<1>5. CASE ~Known(Successor) /\ nodes' = Append(nodes, Node(Successor, head, letters[letter]))
  <2>1. PICK e : e = Node(Successor, head, letters[letter])
    OBVIOUS
  <2>2. e.support = Successor
    BY <2>1 DEF Node
  <2>3. nodes \in Seq(NodeRecords)
    BY <1>3 DEF Tree
  <2>4. PICK l \in Nat : l = Len(nodes)
    BY <2>3
  <2>5. Len(nodes') = l + 1 /\ nodes'[l + 1] = e /\ \A i \in 1 .. l : nodes'[i] = nodes[i]
    BY <1>5, <2>1, <2>3, <2>4
  <2>6. \A i \in 1 .. l : nodes[i].support # Successor
    BY <1>5, <2>3, <2>4 DEF Known
  <2>7. ASSUME NEW i \in 1 .. l + 1, NEW j \in 1 .. l + 1, nodes'[i].support = nodes'[j].support
        PROVE  i = j
    <3>1. CASE i \in 1 .. l /\ j \in 1 .. l
      BY <1>2, <2>4, <2>5, <2>7, <3>1 DEF Distinct
    <3>2. CASE i = l + 1 /\ j \in 1 .. l
      BY <2>2, <2>5, <2>6, <2>7, <3>2
    <3>3. CASE j = l + 1 /\ i \in 1 .. l
      BY <2>2, <2>5, <2>6, <2>7, <3>3
    <3>4. QED
      BY <2>4, <3>1, <3>2, <3>3
  <2>8. Distinct'
    BY <2>5, <2>7 DEF Distinct
  <2>9. QED
    BY <1>1, <1>2, <2>8 DEF CountInv, BudgetSuffices
<1>6. QED
  BY <1>4, <1>5 DEF SearchLetter, Kept, Enqueued

\* A call gives up with nodes left to expand, so with fewer expansions of nodes
\* than there are supports.
LEMMA CountBound ==
  ASSUME CountInv, SearchBound, BreadthInv', BudgetShared'
  PROVE  CountInv'
<1> DEFINE N == Cardinality(query.initial)
           R == Cardinality(Within(2 ^ Cardinality(States)))
<1>1. /\ query \in Queries /\ expansions \in Nat /\ head \in 0 .. Len(nodes)
      /\ query' = query /\ at' = "done" /\ outcome' = "RESOURCE_BOUND" /\ query.budget <= expansions
  BY CallTypes DEF CountInv, BreadthInv, PhaseInv, PhaseTypes, SearchInv, SearchTypes, SearchBound,
                   Finish, Spent
<1>2. N \in Nat \ {0} /\ query.budget \in Nat /\ R \in Nat \ {0}
  BY <1>1, CallTypes, ReachableCount
<1>3. query.budget < N - 1 + R
  <2>1. CASE at = "queue"
    <3>1. expansions + 1 <= N
      BY <2>1 DEF CountInv
    <3> HIDE DEF N, R
    <3>2. QED
      BY <1>1, <1>2, <3>1
  <2>2. CASE at = "search" /\ head < Len(nodes)
    <3>1. expansions + 1 <= N + head /\ Distinct /\ Tree
      BY <2>2 DEF CountInv, BreadthInv, PhaseInv
    <3>2. Len(nodes) <= R /\ Len(nodes) \in Nat
      BY <1>1, <3>1, ReachableCount, TreeHangs
    <3> HIDE DEF N, R
    <3>3. QED
      BY <1>1, <1>2, <2>2, <3>1, <3>2
  <2>3. QED
    BY <2>1, <2>2 DEF SearchBound, Between
<1>4. aut' = aut /\ letters' = letters
  BY <1>1 DEF aut, letters
<1>5. Within(2 ^ Cardinality(States))' = Within(2 ^ Cardinality(States))
  BY <1>1, <1>4 DEF Within, Image
<1>6. BudgetSuffices'
  BY <1>1, <1>3, <1>5 DEF BudgetSuffices
<1>7. QED
  BY <1>1, <1>6 DEF CountInv

LEMMA CountStep ==
  ASSUME CountInv, [Next]_vars
  PROVE  CountInv'
<1>1. BreadthInv'
  BY BreadthStep DEF CountInv
<1>2. BudgetShared'
  <2>1. BudgetInv
    BY DEF CountInv, BudgetInv, BreadthInv, PhaseInv, PhaseTypes
  <2>2. QED
    BY <2>1, StepBudget DEF BudgetInv
<1>3. CASE GreedyRefused \/ GreedyMerged \/ SearchExhausted \/ SearchFound
  <2>1. at' = "done" /\ outcome' # "RESOURCE_BOUND"
    BY <1>3 DEF GreedyRefused, GreedyMerged, SearchExhausted, SearchFound, Finalize, Finish
  <2>2. QED
    BY <1>1, <1>2, <2>1, CountQuiet
<1>4. CASE UNCHANGED vars
  <2>1. aut' = aut /\ letters' = letters
    BY <1>4 DEF aut, letters, vars
  <2>2. Within(2 ^ Cardinality(States))' = Within(2 ^ Cardinality(States))
    BY <1>4, <2>1 DEF Within, Image, vars
  <2>3. BudgetSuffices'
    BY <1>4, <2>2 DEF CountInv, BudgetSuffices, vars
  <2>4. Distinct => Distinct'
    BY <1>4 DEF Distinct, vars
  <2>5. QED
    BY <1>1, <1>2, <1>4, <2>3, <2>4 DEF CountInv, vars
<1>5. QED
  BY <1>1, <1>2, <1>3, <1>4, CountStart, CountGreedy, CountStuck, CountSearchStart, CountExpand,
     CountLetter, CountBound DEF Next, Returned

\* "(h-1)+R expansions suffice for a definitive result" (HACKING.md), for every
\* automaton, table of records and budget: a call that gives up had fewer.
THEOREM BudgetAlwaysSuffices == Spec => []BudgetSuffices
<1>1. ASSUME Init PROVE CountInv
  <2>1. BreadthInv
    BY <1>1, PhaseStarts DEF BreadthInv, Init, SearchPlanShortest
  <2>2. query \in Queries /\ expansions = 0 /\ outcome = "NONE" /\ at = "start"
    BY <1>1 DEF Init
  <2>3. BudgetShared
    BY <2>2, CallTypes DEF BudgetShared
  <2>4. QED
    BY <2>1, <2>2, <2>3 DEF CountInv, BudgetSuffices
<1>2. CountInv => BudgetSuffices
  BY DEF CountInv
<1>3. QED
  BY <1>1, <1>2, CountStep, PTL DEF Spec

-----------------------------------------------------------------------------
(* The words of exact records are those that a search finds. *)

\* Of letters in the order of the actions, the first that comes closer is the
\* least action that does.
LEMMA NearestFirst ==
  ASSUME query \in Queries, letters = [i \in 1 .. ActionCount |-> i - 1],
         NEW dist, NEW q \in Pairs, NEW r, FirstCloser(aut, dist, q, r)
  PROVE  Nearest(q, dist) = r.act
<1>1. ActionCount \in Nat \ {0} /\ r.act \in Actions
  BY GraphAssumption DEF FirstCloser
<1>2. Len(letters) = ActionCount /\ \A i \in 1 .. ActionCount : letters[i] = i - 1
  BY <1>1
<1> DEFINE I == {i \in 1 .. Len(letters) : dist[Target(aut, q, letters[i])] = dist[q] - 1}
<1>3. PICK k \in 1 .. ActionCount : k - 1 = r.act /\ letters[k] = r.act
  <2>1. r.act + 1 \in 1 .. ActionCount /\ (r.act + 1) - 1 = r.act
    BY <1>1 DEF Actions
  <2>2. QED
    BY <1>2, <2>1
<1>4. k \in I
  BY <1>2, <1>3 DEF FirstCloser
<1>5. ASSUME NEW j \in I PROVE k <= j
  <2>1. j \in 1 .. ActionCount /\ letters[j] = j - 1 /\ letters[j] \in Actions
    BY <1>1, <1>2 DEF Actions
  <2>2. dist[Target(aut, q, letters[j])] = dist[q] - 1
    OBVIOUS
  <2>3. r.act <= letters[j]
    BY <2>1, <2>2 DEF FirstCloser
  <2>4. QED
    BY <1>1, <1>3, <2>1, <2>3 DEF Actions
<1>6. I \subseteq Nat
  BY <1>1, <1>2
<1>7. Nearest(q, dist) = letters[Min(I)]
  BY <1>4 DEF Nearest, SelectInSeq
<1>8. Min(I) = k
  <2> HIDE DEF I
  <2>1. \A x \in I : (\A y \in I : x <= y) => x = k
    BY <1>4, <1>5, <1>6
  <2>2. QED
    BY <1>4, <1>5, <2>1 DEF Min
<1>9. QED
  BY <1>3, <1>7, <1>8

\* The walk along the records is the walk of the search.
LEMMA ExactWitness ==
  ASSUME query \in Queries, query.records = ExactRecords(aut, "merge"),
         letters = [i \in 1 .. ActionCount |-> i - 1], NEW p \in Pairs
  PROVE  RecordedWitness(p) = AllowedWitness(p, ExactDistances(aut, "merge"))
<1>1. aut \in Automata
  BY QueryAutomaton
<1>2. PICK dist : dist = ExactDistances(aut, "merge")
  OBVIOUS
<1>3. PICK recs : recs = ExactRecords(aut, "merge") /\ recs = query.records
  OBVIOUS
<1>4. \A q \in Pairs : /\ recs[q].dist = dist[q] /\ dist[q] \in Distances
                       /\ dist[q] # None => dist[q] \in 0 .. Cardinality(Pairs)
                       /\ dist[q] = 0 <=> q \in Diagonal
  BY <1>1, <1>2, <1>3, ExactRecordsFit, ExactDistanceIn, ExactBounded, ExactAttained
<1>5. \A q \in Pairs : /\ q \in Diagonal => recs[q] = Root
                       /\ dist[q] = None => recs[q] = Unreached
                       /\ dist[q] \in Nat \ {0} => FirstCloser(aut, dist, q, recs[q])
  BY <1>1, <1>2, <1>3, ExactMerges
<1>6. RecordedWitness(p) = PairWord(aut, "merge", recs, p)
  BY <1>3 DEF RecordedWitness
<1>7. CASE dist[p] = None
  <2>1. WellFormed(aut, "merge", recs, p)
    BY <1>4, <1>5, <1>7 DEF WellFormed
  <2>2. PairWord(aut, "merge", recs, p) = Missing
    BY <1>4, <1>7, <2>1 DEF PairWord
  <2>3. AllowedWitness(p, dist) = Missing
    BY <1>7 DEF AllowedWitness
  <2>4. QED
    BY <1>2, <1>6, <2>2, <2>3
<1>8. CASE dist[p] # None
  <2>1. PICK d \in Nat : d = dist[p] /\ d <= Cardinality(Pairs)
    BY <1>4, <1>8, StepsNat
  <2> DEFINE D == {r \in Pairs : dist[r] > 0}
             next == [q \in D |-> Target(aut, q, Nearest(q, dist))]
             hop == [q \in Pairs \cup {NoPair} |-> IF q = NoPair THEN NoPair ELSE recs[q].next]
             At(n) == Onward(next, p, n)
             Walk(n) == Walked(recs, p, n)
             v == [n \in 1 .. d |-> recs[Walk(n - 1)].act]
             w == [n \in 1 .. d |-> Nearest(At(n - 1), dist)]
  <2>2. \A n \in Nat : At(0) = p /\ At(n + 1) = next[At(n)]
    BY OnwardStep
  <2>3. \A n \in Nat : Walk(0) = p /\ Walk(n + 1) = hop[Walk(n)]
    BY OnwardStep DEF Walked
  <2>4. ASSUME NEW q \in Pairs, dist[q] \in Nat \ {0}
        PROVE  /\ Nearest(q, dist) = recs[q].act /\ next[q] = recs[q].next /\ hop[q] = recs[q].next
               /\ recs[q].next \in Pairs /\ dist[recs[q].next] = dist[q] - 1
               /\ Sound(aut, "merge", q, recs[q])
    <3>1. PICK r : r = recs[q] /\ FirstCloser(aut, dist, q, r)
      BY <1>5, <2>4
    <3>2. Nearest(q, dist) = r.act
      BY <3>1, NearestFirst
    <3>3. r.act \in Actions /\ r.next = Target(aut, q, r.act) /\ r.sup # 0 /\ dist[r.next] = dist[q] - 1
      BY <3>1 DEF FirstCloser
    <3>4. q \in D
      BY <2>4
    <3>5. next[q] = Target(aut, q, Nearest(q, dist))
      BY <3>4
    <3>6. hop[q] = r.next
      BY <3>1, SomePair
    <3>7. r.next \in Pairs
      BY <1>1, <3>3, TargetType
    <3>8. Sound(aut, "merge", q, r)
      BY <3>3 DEF Sound, Terminal, Actions, None
    <3>9. QED
      BY <3>1, <3>2, <3>3, <3>5, <3>6, <3>7, <3>8
  <2> HIDE DEF At, Walk, next, hop
  <2> DEFINE S == {n \in 0 .. d : Walk(n) = At(n) /\ At(n) \in Pairs /\ dist[At(n)] = d - n}
  <2>5. \A n \in 0 .. d : n \in S
    <3>1. 0 \in S
      BY <2>1, <2>2, <2>3
    <3>2. ASSUME NEW n \in 1 .. d, n - 1 \in S PROVE n \in S
      <4>1. PICK m \in Nat : m = n - 1 /\ m + 1 = n /\ m \in 0 .. d - 1
        <5>1. n - 1 \in Nat /\ (n - 1) + 1 = n /\ n - 1 \in 0 .. d - 1
          BY <2>1
        <5>2. QED
          BY <5>1
      <4>2. PICK q \in Pairs : q = At(m) /\ q = Walk(m) /\ dist[q] = d - m
        BY <3>2, <4>1
      <4>3. dist[q] \in Nat \ {0} /\ n \in 0 .. d
        BY <2>1, <4>1, <4>2
      <4>4. At(n) = recs[q].next /\ Walk(n) = recs[q].next
        <5>1. At(m + 1) = next[At(m)] /\ Walk(m + 1) = hop[Walk(m)]
          BY <2>2, <2>3
        <5>2. next[q] = recs[q].next /\ hop[q] = recs[q].next
          BY <2>4, <4>3
        <5>3. QED
          BY <4>1, <4>2, <5>1, <5>2
      <4>5. recs[q].next \in Pairs /\ dist[recs[q].next] = dist[q] - 1
        BY <2>4, <4>3
      <4>6. (d - m) - 1 = d - n
        BY <2>1, <4>1
      <4>7. QED
        BY <4>2, <4>3, <4>4, <4>5, <4>6
    <3> HIDE DEF S
    <3>3. QED
      BY <2>1, <3>1, <3>2, StepByStep
  <2>6. ASSUME NEW n \in 0 .. d - 1
        PROVE  /\ Walk(n) # NoPair /\ recs[Walk(n)].dist = d - n
               /\ Sound(aut, "merge", Walk(n), recs[Walk(n)])
               /\ recs[Walk(n)].act = Nearest(At(n), dist)
    <3>1. n \in 0 .. d /\ d - n \in Nat \ {0}
      BY <2>1
    <3>2. Walk(n) = At(n) /\ At(n) \in Pairs /\ dist[At(n)] = d - n
      BY <2>5, <3>1
    <3>3. QED
      BY <1>4, <2>4, <3>1, <3>2, SomePair
  <2>7. Walk(d) \in Diagonal /\ recs[Walk(d)] = Root
    <3>1. d \in 0 .. d /\ d - d = 0
      BY <2>1
    <3>2. Walk(d) \in Pairs /\ dist[Walk(d)] = 0
      BY <2>5, <3>1
    <3>3. QED
      BY <1>4, <1>5, <3>2
  <2>8. WellFormed(aut, "merge", recs, p)
    <3>1. recs[p].dist = d /\ d # None
      BY <1>4, <1>8, <2>1
    <3>2. \A n \in 0 .. d - 1 :
            LET q == Walked(recs, p, n)
            IN q # NoPair /\ recs[q].dist = d - n /\ Sound(aut, "merge", q, recs[q])
      BY <2>6 DEF Walk
    <3>3. Walked(recs, p, d) \in Diagonal /\ recs[Walked(recs, p, d)] = Root
      BY <2>7 DEF Walk
    <3>4. QED
      BY <2>1, <3>1, <3>2, <3>3 DEF WellFormed
  <2>9. \A n \in 1 .. d : v[n] = w[n]
    <3>1. ASSUME NEW n \in 1 .. d PROVE v[n] = w[n]
      <4>1. n - 1 \in 0 .. d - 1
        BY <2>1
      <4>2. recs[Walk(n - 1)].act = Nearest(At(n - 1), dist)
        BY <2>6, <4>1
      <4>3. QED
        BY <4>2
    <3>2. QED
      BY <3>1
  <2>10. PairWord(aut, "merge", recs, p) = Found(v)
    <3>1. recs[p].dist = d /\ d # None
      BY <1>4, <1>8, <2>1
    <3>2. PairWord(aut, "merge", recs, p)
            = Found([n \in 1 .. d |-> recs[Walked(recs, p, n - 1)].act])
      BY <2>8, <3>1 DEF PairWord
    <3>3. QED
      BY <3>2 DEF Walk
  <2>11. AllowedWitness(p, dist) = Found(w)
    BY <1>8, <2>1 DEF AllowedWitness, At, next
  <2>12. v = w
    <3>1. v = [n \in 1 .. d |-> v[n]] /\ w = [n \in 1 .. d |-> w[n]]
      OBVIOUS
    <3> HIDE DEF v, w
    <3>2. QED
      BY <2>9, <3>1
  <2>13. QED
    BY <1>2, <1>6, <2>10, <2>11, <2>12
<1>9. QED
  BY <1>7, <1>8

\* The words that exact records hold are those that a search with all actions
\* in their order finds, for every automaton: plan_sync and a plan_sync_allowed
\* of everything start from the same words.
THEOREM WitnessesAlwaysAgree == Spec => []WitnessesAgree
<1>1. SearchInv => WitnessesAgree
  <2> SUFFICES ASSUME SearchInv PROVE WitnessesAgree
    OBVIOUS
  <2>1. query \in Queries
    BY DEF SearchInv, SearchTypes
  <2>2. QED
    BY <2>1, ExactWitness DEF WitnessesAgree
<1>2. QED
  BY <1>1, StartsSound, StepSound, PTL DEF Spec
=============================================================================
