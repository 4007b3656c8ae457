------------------------- MODULE DisambiguationSearch -------------------------
(***************************************************************************)
(* The planner that tells states apart by what is observed (planner.c,     *)
(* sg_plan_disambiguate_with_source): a word after which at most bound     *)
(* states are possible whatever the outputs were.  One word is tried that  *)
(* the pair records hold; when it will not do, a search over partitions of *)
(* the initial states starts from nothing, within one budget for both.     *)
(*                                                                         *)
(* The clock, allocation failures and the metrics of a plan are left out.  *)
(***************************************************************************)
EXTENDS PairWords, SequencesExt

CONSTANTS Queries  \* the calls of the planner, with what they read

\* Partitions: the different supports that the traces of a word leave.
Partitions == SUBSET (Supports \ {{}})

ASSUME DisambiguationAssumption ==
  /\ States \subseteq Nat  \* state indices
  /\ \A q \in Queries :
       /\ q.aut \in Automata /\ q.records \in [Pairs -> Records]
       /\ q.initial \in Supports \ {{}} /\ q.bound \in Nat \ {0}
       /\ q.letters \in Seq(Actions) /\ q.letters # <<>>
       /\ q.budget \in Nat \ {0}

VARIABLES
  query,       \* the call
  at,          \* where the planner is
  word,        \* result->word
  expansions,  \* result->expansions
  nodes,       \* the queue of the search: partitions with parent and action
  head,        \* number of nodes that were dequeued
  letter,      \* next letter to apply to the node dequeued last
  outcome      \* result->outcome, or the status of a call that failed

vars == <<query, at, word, expansions, nodes, head, letter, outcome>>

aut == query.aut
letters == query.letters

-----------------------------------------------------------------------------
(* Traces. *)

\* The branches of a word from the initial support.
Branches(w) == BranchesOf(aut, query.initial, w)

LargestIn(partition) == Max({Cardinality(s) : s \in partition})

\* sg_trace_metrics: the largest branch
Worst(branches) == LargestIn({b.support : b \in branches})

\* sg_support_partition_apply_action: traces are forgotten, equal supports kept once.
Parted(partition, a) ==
  UNION {{Observed(aut, s, a, o) : o \in Showing(aut, s, a)} : s \in partition}

-----------------------------------------------------------------------------
(* The word of a pair: sg_best_resolution. *)

Candidates ==
  [p \in {q \in Pairs : q \subseteq query.initial /\ q \notin Diagonal} |->
     PairWord(aut, "resolution", query.records, p)]

\* The order of sg_pair_index.
PairBefore(p, q) ==
  Min(p) < Min(q) \/ (Min(p) = Min(q) /\ Max(p) < Max(q))

\* sg_resolution_candidate_better: a smaller worst branch, then a shorter word,
\* then more branches, then the pair.
Better(words, p, q) ==
  LET worst(r) == Worst(Branches(words[r].word))
      length(r) == Len(words[r].word)
      count(r) == Cardinality(Branches(words[r].word))
  IN \/ worst(p) < worst(q)
     \/ /\ worst(p) = worst(q)
        /\ \/ length(p) < length(q)
           \/ /\ length(p) = length(q)
              /\ \/ count(p) > count(q)
                 \/ (count(p) = count(q) /\ PairBefore(p, q))

Available(words) == {p \in DOMAIN words : words[p].state = "found"}

\* Mutant of Resolving: a word has to rule out two states.
ResolvingByTwo(words) ==
  {words[p].word :
     p \in {q \in Available(words) :
              /\ \A r \in Available(words) \ {q} : Better(words, q, r)
              /\ Worst(Branches(words[q].word)) < Cardinality(query.initial) - 1}}

\* The best word, when it leaves fewer than all states on its worst trace.
Resolving(words) ==
  {words[p].word :
     p \in {q \in Available(words) :
              /\ \A r \in Available(words) \ {q} : Better(words, q, r)
              /\ Worst(Branches(words[q].word)) < Cardinality(query.initial)}}

\* Mutant of Executable: a word of the records is taken as it is.
ExecutableAny(w) == TRUE

Executable(w) == Range(w) \subseteq Range(letters)

Finish(result) ==
  /\ at' = "done" /\ outcome' = result
  /\ UNCHANGED <<query, letter>>

\* sg_disambiguation_finalize: the word is replayed from the start.
Finalize(w, result) ==
  IF Worst(Branches(w)) <= query.bound
  THEN word' = w /\ Finish(result)
  ELSE word' = <<>> /\ Finish("INVALID_MODEL")

Satisfied == Cardinality(query.initial) <= query.bound

Start ==
  /\ at = "start"
  /\ \/ /\ query.bound > Cardinality(query.initial)
        /\ Finish("INVALID_ARGUMENT") /\ UNCHANGED word
     \/ /\ query.bound = Cardinality(query.initial)
        /\ Finalize(<<>>, "ALREADY_SATISFIED")
     \/ /\ ~Satisfied
        /\ at' = "heuristic" /\ UNCHANGED <<query, word, letter, outcome>>
  /\ UNCHANGED <<expansions, nodes, head>>

HeuristicRefused ==
  /\ at = "heuristic" /\ Malformed \in Range(Candidates)
  /\ word' = <<>> /\ Finish("INVALID_MODEL")
  /\ UNCHANGED <<expansions, nodes, head>>

\* The word of a pair is enough.
HeuristicPlan ==
  /\ at = "heuristic" /\ Malformed \notin Range(Candidates)
  /\ \E words \in {Candidates} : \E w \in Resolving(words) :
       /\ Executable(w) /\ Worst(Branches(w)) <= query.bound
       /\ Finalize(w, "PLAN")
  /\ expansions' = expansions + 1
  /\ UNCHANGED <<nodes, head>>

\* It leaves too many states on some trace: the expansion is counted.
HeuristicShort ==
  /\ at = "heuristic" /\ Malformed \notin Range(Candidates)
  /\ \E words \in {Candidates} : \E w \in Resolving(words) :
       Executable(w) /\ Worst(Branches(w)) > query.bound
  /\ at' = "queue" /\ expansions' = expansions + 1
  /\ UNCHANGED <<query, word, nodes, head, letter, outcome>>

\* There is none, or it has a forbidden letter: nothing is counted.
HeuristicNone ==
  /\ at = "heuristic" /\ Malformed \notin Range(Candidates)
  /\ \E words \in {Candidates} : \A w \in Resolving(words) : ~Executable(w)
  /\ at' = "queue"
  /\ UNCHANGED <<query, word, expansions, nodes, head, letter, outcome>>

-----------------------------------------------------------------------------
(* The search over partitions: sg_partition_bfs. *)

Node(partition, parent, a) == [partition |-> partition, parent |-> parent, act |-> a]

Known(partition) == \E i \in DOMAIN nodes : nodes[i].partition = partition

\* Mutant of PathIn: the word is left as it was collected, last letter first.
PathInBackward(queue, i) ==
  LET up == [j \in 0 .. Len(queue) |-> IF j = 0 THEN 0 ELSE queue[j].parent]
      depth == Min({n \in 0 .. Len(queue) : Onward(up, i, n) = 1})
  IN [n \in 1 .. depth |-> queue[Onward(up, i, n - 1)].act]

\* sg_search_reconstruct, in a queue that may just have got its last node
PathIn(queue, i) ==
  LET up == [j \in 0 .. Len(queue) |-> IF j = 0 THEN 0 ELSE queue[j].parent]
      depth == Min({n \in 0 .. Len(queue) : Onward(up, i, n) = 1})
  IN [n \in 1 .. depth |-> queue[Onward(up, i, depth - n)].act]

\* Mutant of Origin: the search goes on from the branches of the word.
OriginResolved ==
  LET found == Resolving(Candidates)
  IN IF found = {} THEN {query.initial}
     ELSE {b.support : b \in Branches(CHOOSE w \in found : TRUE)}

\* sg_support_partition_init
Origin == {query.initial}

SearchStart ==
  /\ at = "queue"
  /\ nodes' = <<Node(Origin, 0, None)>> /\ at' = "search"
  /\ UNCHANGED <<query, word, expansions, head, letter, outcome>>

Between == at = "search" /\ letter > Len(letters)

\* Mutant of Spent: the expansion of the word is not counted.
SpentLate == expansions > query.budget

Spent == expansions >= query.budget

SearchBound ==
  /\ Between /\ head < Len(nodes) /\ Spent
  /\ Finish("RESOURCE_BOUND") /\ UNCHANGED <<word, expansions, nodes, head>>

SearchExhausted ==
  /\ Between /\ head = Len(nodes)
  /\ Finish("NO_PLAN") /\ UNCHANGED <<word, expansions, nodes, head>>

SearchExpand ==
  /\ Between /\ head < Len(nodes) /\ ~Spent
  /\ head' = head + 1 /\ expansions' = expansions + 1 /\ letter' = 1
  /\ UNCHANGED <<query, at, word, nodes, outcome>>

Successor == Parted(nodes[head].partition, letters[letter])

\* Mutant of Enqueued: the newest partition is expanded first.
EnqueuedNext(node) == InsertAt(nodes, head + 1, node)

Enqueued(node) == Append(nodes, node)

SearchKnown ==
  /\ at = "search" /\ letter <= Len(letters) /\ Known(Successor)
  /\ letter' = letter + 1
  /\ UNCHANGED <<query, at, word, expansions, nodes, head, outcome>>

SearchNew ==
  /\ at = "search" /\ letter <= Len(letters) /\ ~Known(Successor)
  /\ LargestIn(Successor) > query.bound
  /\ nodes' = Enqueued(Node(Successor, head, letters[letter]))
  /\ letter' = letter + 1
  /\ UNCHANGED <<query, at, word, expansions, head, outcome>>

SearchFound ==
  /\ at = "search" /\ letter <= Len(letters) /\ ~Known(Successor)
  /\ LargestIn(Successor) <= query.bound
  /\ nodes' = Append(nodes, Node(Successor, head, letters[letter]))
  /\ Finalize(PathIn(nodes', Len(nodes')), "PLAN")
  /\ UNCHANGED <<expansions, head>>

-----------------------------------------------------------------------------
Init ==
  /\ query \in Queries /\ at = "start"
  /\ word = <<>> /\ expansions = 0
  /\ nodes = <<>> /\ head = 0 /\ letter = Len(query.letters) + 1
  /\ outcome = "NONE"

\* The call has returned.
Returned == at = "done" /\ UNCHANGED vars

Next ==
  \/ Start \/ HeuristicRefused \/ HeuristicPlan \/ HeuristicShort \/ HeuristicNone
  \/ SearchStart \/ SearchBound \/ SearchExhausted
  \/ SearchExpand \/ SearchKnown \/ SearchNew \/ SearchFound \/ Returned

Spec == Init /\ [][Next]_vars

-----------------------------------------------------------------------------
(* Properties. *)

TypeOK ==
  /\ at \in {"start", "heuristic", "queue", "search", "done"}
  /\ word \in Seq(Actions) /\ expansions \in Nat
  /\ nodes \in Seq([partition : Partitions, parent : Nat, act : Actions \cup {None}])
  /\ head \in 0 .. Len(nodes) /\ letter \in 1 .. Len(letters) + 1
  /\ outcome \in {"NONE", "PLAN", "ALREADY_SATISFIED", "NO_PLAN",
                  "RESOURCE_BOUND", "INVALID_MODEL", "INVALID_ARGUMENT"}

\* The states that nobody can tell from that of a run that started in x.
Indistinct(x, w) == Agreeing(aut, query.initial, w, TraceFrom(aut, x, w))

\* Wherever a run started, its outputs along a plan leave at most bound states.
PlanResolves ==
  outcome \in {"PLAN", "ALREADY_SATISFIED"} =>
    \A x \in query.initial : Cardinality(Indistinct(x, word)) <= query.bound

\* Forgetting the traces and keeping equal supports once loses nothing: a node
\* of sg_partition_bfs has just the supports that the runs along its word leave.
PartitionsReplay ==
  at = "search" =>
    \A i \in DOMAIN nodes :
      nodes[i].partition = {Indistinct(x, PathIn(nodes, i)) : x \in query.initial}

\* Partitions that no word leads out of, with a support above the bound in each.
Certificate(partitions) ==
  /\ {query.initial} \in partitions
  /\ \A partition \in partitions :
       /\ LargestIn(partition) > query.bound
       /\ \A a \in Range(letters) : Parted(partition, a) \in partitions

\* NO_PLAN is a proof, whatever the records said and whatever became of their
\* word: the partitions sg_partition_bfs has stored then are closed under the
\* permitted actions.
NoPlanCertified ==
  outcome = "NO_PLAN" => Certificate({nodes[i].partition : i \in DOMAIN nodes})

Exact ==
  /\ query.records = ExactRecords(aut, "resolution")
  /\ Actions \subseteq Range(letters)

\* "Caller-controlled disambiguation policy (bound=1, then h-1 after proven
\* absence)" (HACKING.md): with exact records a bound of one state less than
\* there are is settled by one word of a pair, and only if no pair can be
\* resolved does the planner have to search, in vain.
LowerBoundSettled ==
  at = "done" /\ Exact /\ query.bound = Cardinality(query.initial) - 1 =>
    IF \E p \in Pairs \ Diagonal :
         p \subseteq query.initial /\ query.records[p].dist # None
    THEN outcome = "PLAN" /\ nodes = <<>>
    ELSE outcome \in {"NO_PLAN", "RESOURCE_BOUND"}

\* The partitions that words of at most n letters lead to.
Within(n) ==
  LET layer[k \in 0 .. n] ==
        {{query.initial}} \cup
          IF k = 0 THEN {}
          ELSE UNION {{Parted(partition, a) : a \in Range(letters)} :
                        partition \in layer[k - 1]}
  IN layer[n]

\* A plan of the search is as short as any word that does.
SearchPlanShortest ==
  outcome = "PLAN" /\ nodes # <<>> =>
    \A partition \in Within(Len(word) - 1) : LargestIn(partition) > query.bound

\* The word of a pair counts as an expansion when it was tried and not when a
\* forbidden letter ruled it out; a call gives up only with its budget spent.
BudgetShared ==
  /\ expansions <= query.budget
  /\ outcome = "RESOURCE_BOUND" => expansions = query.budget
  /\ outcome = "NO_PLAN" => expansions - Len(nodes) \in {0, 1}

\* A plan keeps to the permitted actions, also when the records made it.
WordPermitted == Range(word) \subseteq Range(letters)

\* A call fails only when the records refuse a pair of the initial states: the
\* replay of sg_disambiguation_finalize never refuses a word.
RefusedOnlyForRecords ==
  outcome = "INVALID_MODEL" => Malformed \in Range(Candidates)

\* Neither phase leaves anything to the other that it should not: partitions
\* are those of words, words are permitted, one budget is spent, and only the
\* records are refused.
PhasesSound ==
  TypeOK /\ PartitionsReplay /\ BudgetShared /\ WordPermitted /\ RefusedOnlyForRecords
=============================================================================
