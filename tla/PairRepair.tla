---------------------------- MODULE PairRepair ----------------------------
(***************************************************************************)
(* Repair of the pair records after a batch of cell changes: the algorithm *)
(* of dynamic.c run on the copy-on-write candidate that update_cells       *)
(* clones from the published snapshot, and the full rebuild it falls back  *)
(* to when the repair budget is exceeded.                                  *)
(*                                                                         *)
(* One step of this module is one batch of the code: everything between    *)
(* two reads of the work lists is computed from the records before the     *)
(* batch and written at its end.                                           *)
(***************************************************************************)
EXTENDS PairGraph

CONSTANTS
  InitAutomata,  \* automata the model may start from
  Budgets,       \* repair_budget arguments of update_cells: -1, 0 or more
  MaxBatch,      \* bound: cells changed by one update
  MaxChanges     \* bound: cells changed by all updates of a behavior

ASSUME RepairAssumption ==
  /\ InitAutomata \subseteq Automata
  /\ Budgets \subseteq Int /\ \A b \in Budgets : b >= -1
  /\ MaxBatch \in Nat \ {0} /\ MaxChanges \in Nat

VARIABLES
  automaton,   \* automaton of the published snapshot
  records,     \* its pair records, per objective
  changes,     \* number of cells changed so far (bounded by MaxChanges)
  phase,       \* which loop of sg_repair_one_objective runs
  objective,   \* the objective being repaired
  candidate,   \* automaton of the candidate snapshot
  work,        \* pair records of the candidate snapshot
  seeds,       \* pairs that contain a changed state
  budget,      \* repair_budget
  touched,     \* context.touched, shared by both objectives
  invalid,     \* state.invalid, equal to the contents of state.invalidated
  fresh,       \* the part of state.invalidated from head on
  queued,      \* state.queued, equal to state.decreases from head on
  finalized,   \* state.finalized
  tentative,   \* state.tentative
  heap,        \* state.heap, as a set of <<pair, distance>>
  skipped      \* history: pairs popped from the heap while still queued

published == <<automaton, records>>
flags == <<invalid, fresh, queued, finalized, tentative, heap>>
vars == <<automaton, records, changes, phase, objective, candidate, work,
          seeds, budget, touched, flags, skipped>>

-----------------------------------------------------------------------------
(* sg_evaluate_pairs: the record a pair gets from its targets' records. *)

ArcDistance(aut, obj, recs, p, a) ==
  IF Terminal(aut, obj, p, a) THEN 1
  ELSE LET d == recs[Target(aut, p, a)].dist
       IN IF d = None THEN None ELSE d + 1

Best(aut, obj, recs, p) ==
  {a \in Actions :
     /\ ArcDistance(aut, obj, recs, p, a) # None
     /\ \A b \in Actions : ~Closer(ArcDistance(aut, obj, recs, p, b),
                                   ArcDistance(aut, obj, recs, p, a))}

Evaluate(aut, obj, recs, p) ==
  LET best == Best(aut, obj, recs, p)
      act == CHOOSE a \in best : \A b \in best : a <= b
  IN IF p \in Diagonal THEN Root
     ELSE IF best = {} THEN Unreached
     ELSE [dist |-> ArcDistance(aut, obj, recs, p, act), act |-> act,
           next |-> IF Terminal(aut, obj, p, act) THEN NoPair
                    ELSE Target(aut, p, act),
           sup |-> Cardinality(best)]

New(p) == Evaluate(candidate, objective, work[objective], p)
Old(p) == work[objective][p]

\* Mutant of Lowered: a pair that stays where it is is propagated again.
NotRaised(S) == {p \in S : ~Closer(Old(p).dist, New(p).dist)}
\* Mutant of Raised: only a pair that lost its last arc counts.
CutOff(S) == {p \in S : Old(p).dist # None /\ New(p).dist = None}
\* Mutant of Lowered: a pair that was unreachable cannot come closer.
Shortened(S) ==
  {p \in S : Old(p).dist # None /\ Closer(New(p).dist, Old(p).dist)}

Raised(S) == {p \in S : Closer(Old(p).dist, New(p).dist)}
Lowered(S) == {p \in S : Closer(New(p).dist, Old(p).dist)}

\* Mutant of Write: a record with the same distance is left as it is.
WriteDistances(S, lost) ==
  work' = [work EXCEPT ![objective] =
             [p \in Pairs |-> IF p \in lost THEN Unreached
                              ELSE IF p \in S /\ New(p).dist # Old(p).dist
                              THEN New(p) ELSE Old(p)]]

\* sg_write_records: one batch of records, the pairs of lost made unreachable.
Write(S, lost) ==
  work' = [work EXCEPT ![objective] =
             [p \in Pairs |-> IF p \in lost THEN Unreached
                              ELSE IF p \in S THEN New(p)
                              ELSE Old(p)]]

\* Mutant of WithinBudget: the budget is counted per batch.
BatchWithinBudget(S) == Cardinality(S) <= budget

\* sg_mark_touched for every pair of a batch; past the budget nothing of the
\* batch is written and sg_pair_store_repair returns SG_ERR_RESOURCE_BOUND.
WithinBudget(S) == Cardinality(touched \cup S) <= budget

ClearFlags ==
  /\ invalid' = {} /\ fresh' = {} /\ queued' = {} /\ finalized' = {}
  /\ tentative' = [p \in Pairs |-> None] /\ heap' = {}

Exceed(S) ==
  /\ ~WithinBudget(S)
  /\ phase' = "bounded" /\ ClearFlags
  /\ UNCHANGED <<published, changes, objective, candidate, work, seeds,
                 budget, touched, skipped>>

-----------------------------------------------------------------------------
\* sg_seed_objective_changes
SeedBatch == seeds \ Diagonal

SeedChanges ==
  /\ phase = "seed" /\ WithinBudget(SeedBatch)
  /\ invalid' = Raised(SeedBatch) /\ fresh' = invalid'
  /\ queued' = Lowered(SeedBatch)
  /\ Write(SeedBatch, fresh')
  /\ touched' = touched \cup SeedBatch
  /\ phase' = "invalidate"
  /\ UNCHANGED <<published, changes, objective, candidate, seeds, budget,
                 finalized, tentative, heap, skipped>>

SeedExceeds == phase = "seed" /\ Exceed(SeedBatch)

\* sg_invalidate_dependents, one batch of newly invalidated targets
\* Mutant of Dependents: the reverse columns of the published automaton.
PublishedDependents == (Predecessors(automaton, fresh) \ Diagonal) \ invalid

Dependents == (Predecessors(candidate, fresh) \ Diagonal) \ invalid

InvalidateDependents ==
  /\ phase = "invalidate" /\ fresh # {} /\ WithinBudget(Dependents)
  /\ fresh' = Raised(Dependents) /\ invalid' = invalid \cup fresh'
  /\ queued' = queued \cup Lowered(Dependents)
  /\ Write(Dependents, fresh')
  /\ touched' = touched \cup Dependents
  /\ UNCHANGED <<published, changes, phase, objective, candidate, seeds, budget,
                 finalized, tentative, heap, skipped>>

InvalidateExceeds ==
  phase = "invalidate" /\ fresh # {} /\ Exceed(Dependents)

\* sg_seed_rebuild_heap
SeedHeap ==
  /\ phase = "invalidate" /\ fresh = {}
  /\ tentative' = [p \in Pairs |-> IF p \in invalid THEN New(p).dist
                                   ELSE tentative[p]]
  /\ heap' = {<<p, tentative'[p]>> :
                p \in {q \in invalid : tentative'[q] # None}}
  /\ phase' = "rebuild"
  /\ UNCHANGED <<published, changes, objective, candidate, work, seeds, budget,
                 touched, invalid, fresh, queued, finalized, skipped>>

\* sg_rebuild_invalidated, one distance d of the heap.  The frontier is formed
\* by the pairs whose entries are current and that are not queued already.
Lowest == CHOOSE d \in {e[2] : e \in heap} : \A e \in heap : d <= e[2]
Popped(d) == {p \in Pairs \ finalized : <<p, d>> \in heap /\ tentative[p] = d}
Frontier(d) == Popped(d) \ queued

\* sg_relax_invalid_predecessors: what a predecessor of the settled pairs may
\* now be at, through arcs into pairs at distance d.
Relaxed(p, settled, d) ==
  IF \E a \in Actions : /\ Target(candidate, p, a) \in settled
                        /\ Terminal(candidate, objective, p, a)
  THEN 1 ELSE d + 1

\* Mutant of Retried: any predecessor of a settled pair is tried.
RetriedAll(p, settled, d) ==
  IF p \in Predecessors(candidate, settled)
     /\ Closer(Relaxed(p, settled, d), tentative[p])
  THEN Relaxed(p, settled, d) ELSE tentative[p]

\* A frontier pair whose distance is not d after all is tried again later; an
\* unsettled predecessor is tried at its relaxed distance.
Retried(p, settled, d) ==
  LET tried == IF p \in Frontier(d) \ settled /\ New(p).dist # None
               THEN New(p).dist ELSE tentative[p]
  IN IF /\ p \in (Predecessors(candidate, settled) \cap invalid) \ finalized
        /\ p \notin settled
        /\ Closer(Relaxed(p, settled, d), tried)
     THEN Relaxed(p, settled, d) ELSE tried

RebuildStep ==
  /\ phase = "rebuild" /\ heap # {}
  /\ \E d \in {Lowest} :
       /\ finalized' = finalized \cup {p \in Frontier(d) : New(p).dist = d}
       /\ tentative' =
            [p \in Pairs |-> Retried(p, finalized' \ finalized, d)]
       /\ heap' = {e \in heap : e[2] # d} \cup
                  {<<p, tentative'[p]>> :
                     p \in {q \in Pairs : tentative'[q] # tentative[q]}}
       /\ skipped' = skipped \cup (Popped(d) \cap queued)
  /\ Write(finalized' \ finalized, {})
  /\ queued' = queued \cup (finalized' \ finalized)
  /\ UNCHANGED <<published, changes, phase, objective, candidate, seeds, budget,
                 touched, invalid, fresh>>

RebuildDone ==
  /\ phase = "rebuild" /\ heap = {}
  /\ phase' = "propagate"
  /\ UNCHANGED <<published, changes, objective, candidate, work, seeds, budget,
                 touched, flags, skipped>>

\* sg_propagate_decreases, one batch of pairs that came closer
Followers == Predecessors(candidate, queued) \ Diagonal

PropagateDecreases ==
  /\ phase = "propagate" /\ queued # {}
  /\ IF Raised(Followers) = {}
     THEN /\ WithinBudget(Followers)
          /\ Write(Followers, {})
          /\ queued' = Lowered(Followers)
          /\ touched' = touched \cup Followers
          /\ UNCHANGED phase
     ELSE \* SG_ERR_INVALID_MODEL: the update fails and nothing is published.
          \* The order of the batch decides whether the budget ends it first.
          /\ phase' = "invalid_model"
          /\ UNCHANGED <<work, queued, touched>>
  /\ UNCHANGED <<published, changes, objective, candidate, seeds, budget,
                 invalid, fresh, finalized, tentative, heap, skipped>>

PropagateExceeds == phase = "propagate" /\ queued # {} /\ Exceed(Followers)

\* sg_pair_store_repair: the resolution objective follows the merge objective.
NextObjective ==
  /\ phase = "propagate" /\ queued = {} /\ objective = "merge"
  /\ objective' = "resolution" /\ phase' = "seed" /\ ClearFlags
  /\ UNCHANGED <<published, changes, candidate, work, seeds, budget, touched,
                 skipped>>

RepairDone ==
  /\ phase = "propagate" /\ queued = {} /\ objective = "resolution"
  /\ phase' = "repaired" /\ ClearFlags
  /\ UNCHANGED <<published, changes, objective, candidate, work, seeds, budget,
                 touched, skipped>>

-----------------------------------------------------------------------------
(* update_cells_cb around the repair. *)

\* parse_cell_changes keeps the cells whose target or output really changes.
Batches ==
  {cells \in SUBSET Cells : /\ cells # {} /\ Cardinality(cells) <= MaxBatch
                            /\ changes + Cardinality(cells) <= MaxChanges}

Changed(cells, targets, outputs) ==
  [delta |-> [c \in Cells |-> IF c \in cells THEN targets[c]
                              ELSE automaton.delta[c]],
   eta |-> [c \in Cells |-> IF c \in cells THEN outputs[c]
                            ELSE automaton.eta[c]]]

\* Mutant of SeedPairs: the pairs of changed states only.
SeedPairsInside(cells) == {p \in Pairs : p \subseteq {c[1] : c \in cells}}

\* build_edge_updates: every pair that contains a changed state is a seed.
SeedPairs(cells) == {p \in Pairs : \E c \in cells : c[1] \in p}

\* update_cells_cb: budget 0 means a quarter of the pairs, rounded up.
RepairBudget(b) == IF b = 0 THEN (Cardinality(Pairs) + 3) \div 4 ELSE b

Begin(cells, targets, outputs, b) ==
  /\ \A c \in cells : <<targets[c], outputs[c]>>
                        # <<automaton.delta[c], automaton.eta[c]>>
  /\ candidate' = Changed(cells, targets, outputs)
  /\ work' = records
  /\ seeds' = SeedPairs(cells)
  /\ budget' = RepairBudget(b)
  /\ phase' = IF b = -1 THEN "bounded" ELSE "seed"
  /\ changes' = changes + Cardinality(cells)
  /\ UNCHANGED <<published, objective, touched, flags, skipped>>

BeginUpdate ==
  /\ phase = "idle"
  /\ \E b \in Budgets, cells \in Batches :
       \E targets \in [cells -> States], outputs \in [cells -> Outputs] :
         Begin(cells, targets, outputs, b)

Reset ==
  /\ phase' = "idle" /\ objective' = "merge"
  /\ seeds' = {} /\ budget' = 0 /\ touched' = {}
  /\ UNCHANGED <<changes, flags, skipped>>

PublishRepair ==
  /\ phase = "repaired"
  /\ automaton' = candidate /\ records' = work
  /\ Reset /\ UNCHANGED <<candidate, work>>

\* The fallback (or a budget of -1) rebuilds from the candidate automaton.
PublishRebuild ==
  /\ phase = "bounded"
  /\ automaton' = candidate /\ records' = ExactOracle(candidate)
  /\ Reset /\ work' = records' /\ UNCHANGED candidate

-----------------------------------------------------------------------------
Init ==
  /\ automaton \in InitAutomata
  /\ records = ExactOracle(automaton)
  /\ changes = 0 /\ phase = "idle" /\ objective = "merge"
  /\ candidate = automaton /\ work = records
  /\ seeds = {} /\ budget = 0 /\ touched = {}
  /\ invalid = {} /\ fresh = {} /\ queued = {} /\ finalized = {}
  /\ tentative = [p \in Pairs |-> None] /\ heap = {} /\ skipped = {}

Repair ==
  \/ SeedChanges \/ SeedExceeds
  \/ InvalidateDependents \/ InvalidateExceeds
  \/ SeedHeap \/ RebuildStep \/ RebuildDone
  \/ PropagateDecreases \/ PropagateExceeds
  \/ NextObjective \/ RepairDone

Publish == PublishRepair \/ PublishRebuild

Next == BeginUpdate \/ Repair \/ Publish

Spec == Init /\ [][Next]_vars

\* update_cells runs to its end once it was called; calling it is up to users.
FairSpec == Spec /\ WF_vars(Repair \/ Publish)

-----------------------------------------------------------------------------
(* Properties. *)

TypeOK ==
  /\ automaton \in Automata /\ candidate \in Automata
  /\ records \in [Objectives -> [Pairs -> Records]]
  /\ work \in [Objectives -> [Pairs -> Records]]
  /\ objective \in Objectives
  /\ phase \in {"idle", "seed", "invalidate", "rebuild", "propagate",
                "repaired", "bounded", "invalid_model"}
  /\ budget \in Int
  /\ seeds \subseteq Pairs /\ touched \subseteq Pairs
  /\ invalid \subseteq Pairs /\ fresh \subseteq invalid
  /\ queued \subseteq Pairs /\ finalized \subseteq invalid
  /\ skipped \subseteq Pairs
  /\ tentative \in [Pairs -> Distances]
  /\ heap \subseteq (Pairs \X Nat)

\* Once invalidation is over, no record of the candidate is closer than the
\* best arc of its pair: nothing still rests on a distance that was lost.
NothingStale ==
  phase \in {"rebuild", "propagate"} =>
    \A p \in Pairs : ~Closer(Old(p).dist, New(p).dist)

\* The check at the head of sg_propagate_decreases never fires: an update of a
\* model whose records are consistent does not end in SG_ERR_INVALID_MODEL.
NeverRaised == phase # "invalid_model"

\* A published record that claims a distance can be replayed: taking the
\* recorded actions from its pair attains the objective in just that many
\* steps, on the published automaton.
Replays(obj, p) ==
  LET recs == records[obj]
      next == [q \in Pairs |-> recs[q].next]
      d == recs[p].dist
      walk[k \in 0 .. d] == IF k = 0 THEN p ELSE next[walk[k - 1]]
      ends == IF d > 0 /\ recs[walk[d - 1]].next = NoPair
              THEN Terminal(automaton, obj, walk[d - 1], recs[walk[d - 1]].act)
              ELSE walk[d] \in Diagonal
  IN /\ \A k \in 0 .. (d - 1) :
          /\ recs[walk[k]].dist = d - k
          /\ k < d - 1 =>
               recs[walk[k]].next
                 = Target(automaton, walk[k], recs[walk[k]].act)
     /\ ends

RecordsReplay ==
  phase = "idle" =>
    \A obj \in Objectives : \A p \in Pairs :
      records[obj][p].dist # None => Replays(obj, p)

\* What sg_pair_oracle_restore asks of every record when the published records
\* are loaded again: a record that claims a distance is the record its targets
\* give it.  Together with RecordsReplay this is why no planner meets
\* SG_ERR_INVALID_MODEL on records that repair published.
RestoreAccepts ==
  phase = "idle" =>
    \A obj \in Objectives : \A p \in Pairs :
      records[obj][p].dist # None =>
        records[obj][p] = Evaluate(automaton, obj, records[obj], p)

\* Incremental maintenance implements the abstract one: every publication is
\* an atomic step from one exact oracle to the next.
Maintenance == INSTANCE PairMaintenance
ImplementsMaintenance == Maintenance!Spec

\* HACKING.md, Correctness Invariants: every published pair snapshot is
\* complete and restorable as an exact oracle.
PublishedExact == phase = "idle" => records = ExactOracle(automaton)

\* The published records are the exact oracle of the published automaton, as
\* long as no repair popped a pair from the heap that was still queued for
\* propagation.
ExactUnlessSkipped == skipped = {} => PublishedExact

\* The repair budget bounds the pairs whose records a repair replaces, over
\* both objectives together.
BudgetBoundsChanges ==
  phase \in {"invalidate", "rebuild", "propagate", "repaired"} =>
    Cardinality({p \in Pairs : \E obj \in Objectives :
                   work[obj][p] # records[obj][p]}) <= budget

\* Every update ends: the loops of repair make progress and fall back to the
\* rebuild when they run out of budget.
UpdatesEnd == phase # "idle" ~> phase = "idle"

\* Whatever an earlier repair made of them, published records can be replayed by
\* the planners and restored from the database.
PublishedUsable == RecordsReplay /\ RestoreAccepts
=============================================================================
