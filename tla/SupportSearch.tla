---------------------------- MODULE SupportSearch ----------------------------
(***************************************************************************)
(* The planners that drive a set of possible states with one word, whatever*)
(* is observed (planner.c): sg_plan_sync_with_source over a table of pair  *)
(* records, sg_plan_sync_allowed over some of the actions, and sg_plan_goal*)
(* into a set of goals.  The first two merge pair after pair as long as    *)
(* they can; when that ends with more than one state they start again with *)
(* a search over sets of states, within one budget for both.               *)
(*                                                                         *)
(* A step of the search is one action applied to one set.  Reading the     *)
(* clock, allocation failures and the trace metrics of a plan are left out.*)
(***************************************************************************)
EXTENDS PairWords, SequencesExt

CONSTANTS Queries  \* the calls of the planners, with what they read

Kinds == {"records", "allowed", "goal"}

ASSUME SearchAssumption ==
  /\ States \subseteq Nat  \* state indices
  /\ \A q \in Queries :
       /\ q.kind \in Kinds /\ q.aut \in Automata
       /\ q.records \in [Pairs -> Records]
       /\ q.initial \in Supports \ {{}} /\ q.goals \in Supports \ {{}}
       /\ q.letters \in Seq(Actions) /\ q.letters # <<>>
       /\ q.kind = "records" => Actions \subseteq Range(q.letters)
       /\ q.budget \in Nat \ {0}

VARIABLES
  query,       \* the call
  at,          \* where the planner is
  active,      \* the support that greedy merging has reached
  word,        \* result->word
  expansions,  \* result->expansions
  nodes,       \* the queue of the search: supports with parent and action
  head,        \* number of nodes that were dequeued
  letter,      \* next letter to apply to the node dequeued last
  outcome      \* result->outcome, or INVALID_MODEL for that status

vars == <<query, at, active, word, expansions, nodes, head, letter, outcome>>

aut == query.aut
letters == query.letters

-----------------------------------------------------------------------------
(* Images. *)

Image(s, a) == {aut.delta[<<x, a>>] : x \in s}

ImageOf(s, w) ==
  LET after[n \in 0 .. Len(w)] == IF n = 0 THEN s ELSE Image(after[n - 1], w[n])
  IN after[Len(w)]

\* What the planner looks for: one state, or nothing but goals.
Satisfied(s) ==
  IF query.kind = "goal" THEN s \subseteq query.goals ELSE Cardinality(s) = 1

-----------------------------------------------------------------------------
(* Words that merge two states. *)

\* sg_pair_words_load for the merge columns.
RecordedWitness(p) == PairWord(aut, "merge", query.records, p)

\* sg_allowed_merge_word searches with a queue and applies the letters in their
\* order, so it finds, among the shortest merging words, the first in the order
\* of the letters: every step takes the first letter that comes closer.  For the
\* distances an action that is not permitted might as well do nothing.
Permitted ==
  [aut EXCEPT !.delta = [c \in Cells |->
     IF c[2] \in Range(letters) THEN aut.delta[c] ELSE c[1]]]

\* Mutant of Nearest: the last letter that comes closer.
NearestLast(q, dist) ==
  letters[SelectLastInSeq(letters, LAMBDA a : dist[Target(aut, q, a)] = dist[q] - 1)]

Nearest(q, dist) ==
  letters[SelectInSeq(letters, LAMBDA a : dist[Target(aut, q, a)] = dist[q] - 1)]

\* Mutant of AllowedWitness: the witness of the full alphabet is taken.
AllowedWitnessRecorded(p, dist) == RecordedWitness(p)

AllowedWitness(p, dist) ==
  LET next == [q \in {r \in Pairs : dist[r] > 0} |-> Target(aut, q, Nearest(q, dist))]
  IN IF dist[p] = None THEN Missing
     ELSE Found([n \in 1 .. dist[p] |-> Nearest(Onward(next, p, n - 1), dist)])

Witnesses(pairs) ==
  LET dist == ExactDistances(Permitted, "merge")
  IN [p \in pairs |-> IF query.kind = "records" THEN RecordedWitness(p)
                      ELSE AllowedWitness(p, dist)]

\* The words for the pairs of the active support.
Candidates == Witnesses({p \in Pairs : p \subseteq active /\ p \notin Diagonal})

-----------------------------------------------------------------------------
(* Greedy merging. *)

\* The order of sg_pair_index.
PairBefore(p, q) ==
  Min(p) < Min(q) \/ (Min(p) = Min(q) /\ Max(p) < Max(q))

\* sg_sync_candidate_better: smaller image, then shorter word, then the pair
Better(found, p, q) ==
  LET left(r) == Cardinality(ImageOf(active, found[r].word))
      length(r) == Len(found[r].word)
  IN \/ left(p) < left(q)
     \/ /\ left(p) = left(q)
        /\ \/ length(p) < length(q)
           \/ (length(p) = length(q) /\ PairBefore(p, q))

Finish(result) ==
  /\ at' = "done" /\ outcome' = result
  /\ UNCHANGED <<query, active, expansions, nodes, head, letter>>

\* sg_sync_finalize, sg_goal_finalize: the word is replayed from the start.
Finalize(w, result) ==
  /\ \/ /\ Satisfied(ImageOf(query.initial, w))
        /\ word' = w /\ Finish(result)
     \/ /\ ~Satisfied(ImageOf(query.initial, w))
        /\ word' = <<>> /\ Finish("INVALID_MODEL")

Start ==
  /\ at = "start"
  /\ \/ /\ Satisfied(query.initial)
        /\ Finalize(<<>>, "ALREADY_SATISFIED")
     \/ /\ ~Satisfied(query.initial)
        /\ at' = IF query.kind = "goal" THEN "queue" ELSE "greedy"
        /\ UNCHANGED <<query, active, word, expansions, nodes, head, letter, outcome>>

\* Mutant of Spent: one more expansion than the budget.
SpentLate == expansions > query.budget

Spent == expansions >= query.budget

Greedy == at = "greedy" /\ Cardinality(active) > 1 /\ ~Spent

\* sg_best_merge or sg_best_merge_allowed, and its word
GreedyStep ==
  /\ Greedy
  /\ \E found \in {Candidates} :
       LET merging == {p \in DOMAIN found : found[p].state = "found"}
       IN /\ merging # {} /\ \A p \in DOMAIN found : found[p] # Malformed
          /\ \E p \in merging :
               /\ \A q \in merging \ {p} : Better(found, p, q)
               /\ active' = ImageOf(active, found[p].word)
               /\ word' = word \o found[p].word
  /\ expansions' = expansions + 1
  /\ UNCHANGED <<query, at, nodes, head, letter, outcome>>

GreedyRefused ==
  /\ Greedy /\ Malformed \in Range(Candidates)
  /\ word' = <<>> /\ Finish("INVALID_MODEL")

GreedyMerged ==
  /\ at = "greedy" /\ Cardinality(active) = 1
  /\ Finalize(word, "PLAN")

\* Mutant of Discarded: the words of the greedy phase stay in the result.
DiscardedNothing(w) == w

\* sg_sync_discard_plan
Discarded(w) == <<>>

\* No pair has a word, or the budget is spent: the word is discarded.
GreedyStuck ==
  /\ at = "greedy" /\ Cardinality(active) > 1
  /\ \/ Spent
     \/ Range(Candidates) = {Missing}
  /\ at' = "queue" /\ word' = Discarded(word)
  /\ UNCHANGED <<query, active, expansions, nodes, head, letter, outcome>>

-----------------------------------------------------------------------------
(* The search over supports: sg_subset_bfs, and the loop of sg_plan_goal. *)

Node(s, parent, a) == [support |-> s, parent |-> parent, act |-> a]
Known(s) == \E i \in DOMAIN nodes : nodes[i].support = s

\* Mutant of Path: the word is left as it was collected, last letter first.
PathBackward(i) ==
  LET up == [j \in 0 .. Len(nodes) |-> IF j = 0 THEN 0 ELSE nodes[j].parent]
      depth == Min({n \in 0 .. Len(nodes) : Onward(up, i, n) = 1})
  IN [n \in 1 .. depth |-> nodes[Onward(up, i, n - 1)].act]

\* sg_subset_reconstruct: from node i up to the root, and the word reversed
Path(i) ==
  LET up == [j \in 0 .. Len(nodes) |-> IF j = 0 THEN 0 ELSE nodes[j].parent]
      depth == Min({n \in 0 .. Len(nodes) : Onward(up, i, n) = 1})
  IN [n \in 1 .. depth |-> nodes[Onward(up, i, depth - n)].act]

\* Mutant of SearchFrom: the search goes on from where greedy merging was stuck.
SearchFromStuck == active

SearchFrom == query.initial

SearchStart ==
  /\ at = "queue" /\ ~Spent
  /\ nodes' = <<Node(SearchFrom, 0, None)>> /\ at' = "search"
  /\ UNCHANGED <<query, active, word, expansions, head, letter, outcome>>

Between == at = "search" /\ letter > Len(letters)

\* The budget is spent while supports are pending.
SearchBound ==
  /\ at = "queue" \/ (Between /\ head < Len(nodes))
  /\ Spent
  /\ Finish("RESOURCE_BOUND") /\ UNCHANGED word

SearchExhausted ==
  /\ Between /\ head = Len(nodes)
  /\ Finish("NO_PLAN") /\ UNCHANGED word

SearchExpand ==
  /\ Between /\ head < Len(nodes) /\ ~Spent
  /\ head' = head + 1 /\ expansions' = expansions + 1 /\ letter' = 1
  /\ UNCHANGED <<query, at, active, word, nodes, outcome>>

Successor == Image(nodes[head].support, letters[letter])

\* Mutant of Kept: a support is only compared with the first.
KeptAgain(s) == s # nodes[1].support

\* Supports are kept when they are new, also when they are no smaller.
Kept(s) == ~Known(s)

\* Mutant of Enqueued: the newest support is expanded first.
EnqueuedNext(node) == InsertAt(nodes, head + 1, node)

Enqueued(node) == Append(nodes, node)

SearchLetter ==
  /\ at = "search" /\ letter <= Len(letters) /\ ~Satisfied(Successor)
  /\ nodes' = IF Kept(Successor)
              THEN Enqueued(Node(Successor, head, letters[letter])) ELSE nodes
  /\ letter' = letter + 1
  /\ UNCHANGED <<query, at, active, word, expansions, head, outcome>>

SearchFound ==
  /\ at = "search" /\ letter <= Len(letters) /\ Satisfied(Successor)
  /\ Finalize(Append(Path(head), letters[letter]), "PLAN")

-----------------------------------------------------------------------------
Init ==
  /\ query \in Queries /\ at = "start" /\ active = query.initial
  /\ word = <<>> /\ expansions = 0
  /\ nodes = <<>> /\ head = 0 /\ letter = Len(query.letters) + 1
  /\ outcome = "NONE"

\* The call has returned.
Returned == at = "done" /\ UNCHANGED vars

Next ==
  \/ Start \/ GreedyStep \/ GreedyRefused \/ GreedyMerged \/ GreedyStuck
  \/ SearchStart \/ SearchBound \/ SearchExhausted
  \/ SearchExpand \/ SearchLetter \/ SearchFound \/ Returned

Spec == Init /\ [][Next]_vars

-----------------------------------------------------------------------------
(* Properties. *)

TypeOK ==
  /\ at \in {"start", "greedy", "queue", "search", "done"}
  /\ active \in Supports /\ word \in Seq(Actions) /\ expansions \in Nat
  /\ nodes \in Seq([support : Supports, parent : Nat, act : Actions \cup {None}])
  /\ head \in 0 .. Len(nodes) /\ letter \in 1 .. Len(letters) + 1
  /\ outcome \in {"NONE", "PLAN", "ALREADY_SATISFIED", "NO_PLAN",
                  "RESOURCE_BOUND", "INVALID_MODEL"}

\* "Each stored set equals the image of the original support under its
\* reconstructed path" (HACKING.md), and the support of the greedy phase is the
\* image of the word so far: neither phase loses or adds a state.
SupportsReplay ==
  /\ at = "greedy" => active = ImageOf(query.initial, word)
  /\ at = "search" => \A i \in DOMAIN nodes :
                        nodes[i].support = ImageOf(query.initial, Path(i))

\* A set of supports that no word leads out of and none of which will do.
Certificate(supports) ==
  /\ query.initial \in supports
  /\ \A s \in supports : ~Satisfied(s) /\ \A a \in Range(letters) : Image(s, a) \in supports

\* NO_PLAN is a proof: what sg_subset_bfs and sg_plan_goal have stored then is
\* closed under the permitted actions, whatever the records said and wherever
\* greedy merging went.
NoPlanCertified ==
  outcome = "NO_PLAN" => Certificate({nodes[i].support : i \in DOMAIN nodes})

\* The supports that words of at most n letters lead to.
Within(n) ==
  LET layer[k \in 0 .. n] ==
        {query.initial} \cup
          IF k = 0 THEN {}
          ELSE UNION {{Image(s, a) : a \in Range(letters)} : s \in layer[k - 1]}
  IN layer[n]

\* A plan of the search is as short as any word that does (README.md: it
\* explores words by length).
SearchPlanShortest ==
  outcome = "PLAN" /\ nodes # <<>> =>
    \A s \in Within(Len(word) - 1) : ~Satisfied(s)

\* "(h-1)+R expansions suffice for a definitive result" (HACKING.md), where R
\* counts the supports that can be reached: each greedy merge takes a state
\* away, and no support is expanded twice.
BudgetSuffices ==
  outcome = "RESOURCE_BOUND" =>
    query.budget < Cardinality(query.initial) - 1
                   + Cardinality(Within(2 ^ Cardinality(States)))

\* A call never spends more than its one budget, and gives up only when both
\* phases together spent all of it.
BudgetShared ==
  /\ expansions <= query.budget
  /\ outcome = "RESOURCE_BOUND" => expansions = query.budget

\* A result without a plan has no word, also when greedy merging made one.
NoWordWithoutPlan ==
  outcome \in {"NO_PLAN", "RESOURCE_BOUND", "INVALID_MODEL"} => word = <<>>

\* A plan keeps to the permitted actions in both phases.
WordPermitted == Range(word) \subseteq Range(letters)

\* A call fails only when the records refuse a pair of the active support: the
\* replay of sg_sync_finalize or sg_goal_finalize never refuses a word.
RefusedOnlyForRecords ==
  outcome = "INVALID_MODEL" =>
    query.kind = "records" /\ Malformed \in Range(Candidates)

\* The words that exact records hold are those that a search with all actions
\* in their order finds, so plan_sync, plan_sync_uncached and a
\* plan_sync_allowed of everything agree.
WitnessesAgree ==
  /\ at = "start" /\ query.records = ExactRecords(aut, "merge")
  /\ letters = [i \in 1 .. ActionCount |-> i - 1]
  => LET dist == ExactDistances(aut, "merge")
     IN \A p \in Pairs : RecordedWitness(p) = AllowedWitness(p, dist)

\* Neither phase leaves anything to the other or to the caller that it should
\* not: supports are images of words, words are permitted, and an outcome that
\* is no plan has no word and no reason but the records.
PhasesSound ==
  TypeOK /\ SupportsReplay /\ WordPermitted /\ RefusedOnlyForRecords /\ NoWordWithoutPlan
=============================================================================
