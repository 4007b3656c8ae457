# Verification of sync-kgraph

sync-kgraph keeps synchronizing automata in a graph database. A *model* is a
complete deterministic automaton with one transition and one observation for
each state and action. A C library computes, for every unordered pair of
states, the shortest way to merge the two states or to tell them apart (the
*pair oracle*), plans words from it, and monitors their execution. A Memgraph
query module stores the oracle beside the model, keeps it up to date when cells
of the model change, and shares prepared snapshots in a cache.

This directory holds TLA+ modules translated from the source, the TLC
configurations that check them, and proofs that TLAPS checks.

## Inventory

| component | source | state | operations | what makes it correct |
|---|---|---|---|---|
| automaton, builder, words | `src/sync.c` | keys, cells, generation | add keys, set cells, build, clone, apply a word | complete and deterministic, every cell set once |
| pair oracle | `src/oracle.c` | four columns per pair and objective | build, restore | exact shortest distances; restoring accepts only records that fit the automaton |
| incremental repair | `src/dynamic.c` | records of a candidate, work lists, touched pairs | `sg_pair_store_repair` | as exact as the oracle built from nothing; within its budget; ends |
| copy-on-write snapshots | `src/snapshot.c` | reference-counted chunks of automaton and records | clone, set cell, repair, retain, release | a candidate never changes what readers of its origin see |
| snapshot cache | `src/snapshot_cache.c` | a list by last use, total bytes | lookup, insert, evict | a hit is the snapshot inserted under that key; bytes within the limit |
| planners | `src/planner.c` | search nodes of one call | synchronize, goal, disambiguate; restricted forms | the word does what its outcome says; NO_PLAN only if there is none |
| monitors | `src/planner.c` | none | `sg_validate_update`, `sg_validate_observed_update` | decisions follow from the plan's support and the report |
| query module | `src/memgraph/sync_module.c` | metadata, base view and records in the database; cache, token counter and incarnation in memory | `prepare_model`, `plan_*`, `explain_plan`, `validate_*`, `update_cells`, `mark_dirty`, module start and stop | cached and uncached planners agree; a generation names one automaton; an aborted call leaves nothing that is used |
| loading | `src/sync.c`, `src/memgraph/sync_module.c` | keys and rows so far | read rows, build or refuse | exactly the automata are accepted; an index names one key |
| command line tool | `src/sync_cli.c` | none | reads, plans, prints | not modelled |

How they interact. A procedure of the query module runs in a transaction of the
database, on the state committed when the transaction began and its own writes.
`prepare_model` builds the oracle, writes it and puts the snapshot into the
cache. A planner takes the snapshot from the cache, or restores it from the
stored records. `update_cells` clones the cached snapshot, changes the cells of
the clone, has it repaired (or rebuilt when the repair budget is exceeded), puts
it into the cache under a new token, and only then writes the cells, the changed
records and the metadata. The cache is not part of the transaction.

What is hard here: the repair mixes two lists of pairs that go up and down, over
records that are written batch by batch; its budget can end it anywhere, and the
next update starts from what the last one left; the cache outlives aborted
transactions, the database outlives the process, and generations start again
when a model is loaded anew. `PROJECT.json` lists these hazards line by line.

## Modules

| module | models | source |
|---|---|---|
| `PairGraph` | automata, pairs, records, the exact oracle by definition | `oracle.c` |
| `PairWords` | actions on sets of states, traces, and the word that a table of records holds for a pair | `planner.c`, `sync.c` |
| `PairOracle` | how the oracle is made: numbers of pairs, sorted edges, both queues, witnesses; how stored rows are restored | `oracle.c` |
| `AutomatonLoader` | rows of the database to an automaton, through the builder; changes of cells and the reverse columns | `sync_module.c`, `sync.c`, `snapshot.c` |
| `PairMaintenance` | abstract: records are replaced by the exact oracle of the next automaton in one step | `HACKING.md`, Correctness Invariants |
| `PairRepair` | `update_cells` around `sg_pair_store_repair`: seed, invalidate, rebuild, propagate, twice, the budget, the fallback, publication | `dynamic.c`, `sync_module.c` |
| `SharedSnapshots` | abstract: a snapshot is a value of its own, which nobody changes once it is published | `snapshot.h` |
| `SnapshotChunks` | tables, blocks and reference counts of snapshots, and threads that clone, copy on write, publish, evict and free them, one access to a counter at a time | `snapshot.c`, `sync_module.c` |
| `KeyedCache` | abstract: a map from keys to snapshots that may forget | how `sync_module.c` uses the cache |
| `SnapshotCache` | the cache's list by last use, its bytes and its mutex, and the reference counts of snapshots, under procedures of several threads | `snapshot_cache.c`, `snapshot.c` |
| `PreparedModel` | abstract: a generation names one automaton in all answers, and changes advance it | `README.md`, model lifecycle |
| `ModelLifecycle` | the procedures in concurrent transactions, tokens, the cache, abort, restart and reload | `sync_module.c`, `snapshot_cache.c` |
| `SupportSearch` | the planners of synchronizing words, restricted or not, and of goals: greedy merging and the search over supports | `planner.c` |
| `DisambiguationSearch` | the planner that tells states apart: the best word of a pair, and the search over partitions | `planner.c` |
| `PlanMonitor` | both monitors, over executions that a caller and the world drive while the model changes | `planner.c`, `sync_module.c` |
| `MC*` | instances for TLC | |
| `PairGraphProofs`, `PairRepairProofs`, `SupportSearchProofs`, `DisambiguationProofs`, `LifecycleProofs`, `CacheProofs`, `ChunksProofs`, `MonitorProofs` | theorems | |

How they fit together. `PairGraph` says what an exact oracle is. `PairOracle` is
how it is built and restored, `PairRepair` how it is kept, and both are checked
against that definition. The planners and the monitors extend `PairWords`, which
extends `PairGraph`: the records that one module publishes are those that another
reads, in the same form, including records that are incomplete (see Findings) or
damaged. `ModelLifecycle` treats an oracle as a whole and a cache as a map;
`PairRepair`, `SnapshotCache` and `SnapshotChunks` are the detail behind them, one
for what an update writes, one for what the cache keeps, one for what snapshots
share. `AutomatonLoader` is what happens before any of them.

### PairRepair and the code

A state of the module is a state of the C code between two batches. `automaton`
and `records` are the published snapshot; `candidate` and `work` the clone;
`invalid`, `queued`, `finalized`, `tentative` and `heap` the fields of
`sg_objective_state` of the objective under repair. `fresh` is the tail of the
`invalidated` vector that the invalidation loop has not read, and `queued` is
both the flag and the unread tail of `decreases`, which are equal between
batches. A record is a distance (`None` is `SIZE_MAX`), the least action that
attains it, the next pair, and the number of actions that attain it.

| action | code |
|---|---|
| `BeginUpdate` | `update_cells_cb` up to the repair: changed cells only, seeds, budget |
| `SeedChanges` | `sg_seed_objective_changes` |
| `InvalidateDependents` | one round of `sg_invalidate_dependents` |
| `SeedHeap`, `RebuildStep`, `RebuildDone` | `sg_seed_rebuild_heap`, one distance of `sg_rebuild_invalidated` |
| `PropagateDecreases` | one round of `sg_propagate_decreases` |
| `SeedExceeds`, `InvalidateExceeds`, `PropagateExceeds` | `sg_mark_touched` says no: nothing of that batch is written |
| `NextObjective`, `RepairDone` | `sg_pair_store_repair` |
| `PublishRepair`, `PublishRebuild` | the end of `update_cells_cb` |

`skipped` is history: the pairs that the rebuild popped from the heap and
dropped because they were still queued for propagation (see Findings).

### ModelLifecycle and the code

`db` is the committed `SyncModel` node with the base view and the pair records
and relationships of its epoch. Records are represented by the set of automata
whose exact oracles they were taken from, so that a mixture shows. `tx[c]` is
the transaction of a session: the view it works on, whether it wrote, whether
somebody else committed writes since (`lost`), the answers it was `told`, and
the update it has staged. `UpdateStage` is `update_cells_cb` up to
the insertion into the cache, `UpdateWrite` the writes after it, so that aborts
and other sessions come between the two. Every procedure that writes the model
writes its `SyncModel` node, so two writing transactions of one model always
conflict; this is why conflicts are kept per model. Eviction may remove any
entry at any time, which covers every byte limit. `Restart` is a shutdown or a
crash: memory is lost, `incarnation` is drawn anew, the counter starts at 1.

External, modelled from how the module uses it: transactions with snapshot
isolation in which the first committer wins; direct edits of the mapped view,
which mark the model in the same statement as `README.md` requires; the scripts
that load a model from nothing at generation 1.

### SnapshotCache and the code

`entry` is the memory of `sg_snapshot_cache_entry`, `list` the four kinds of
pointers, and `references` the atomic counts of the snapshots. `calls[c]` is a
procedure on a thread: the snapshots it holds, and what an insertion has in its
local variables `created` and `existing`. `sg_snapshot_cache_lookup` does all
its work under the mutex and is one action. `sg_snapshot_cache_insert` is seven:
too large (`InsertTooLarge`), the entry is made before the mutex is taken
(`InsertBegin`), an equal key is unlinked (`InsertLock`), the oldest entry goes
as long as the new one does not fit (`InsertEvict`), the new one is linked and
the mutex given back (`InsertLink`), and the replaced entry is freed after that
(`InsertReturn`). Between these steps other threads run. A procedure inserts a
snapshot that it has just made, and holds at most two: the one it found and its
clone. `recent` is history: the keys by last use.

### SupportSearch and the code

A constant, `Queries`, gives the calls with all that they read; a behavior is
one call. `active` and `word` are those of the greedy loop, which is the same in
`sg_plan_sync_with_source` and `sg_plan_sync_allowed` but for the source of the
merging words: `RecordedWitness` is `sg_pair_words_load`, which checks the
records it walks along, `AllowedWitness` is `sg_allowed_merge_word`. The queue
`nodes`, `head` and `letter` is that of `sg_subset_bfs` and of the loop of
`sg_plan_goal`, which differ in when a support will do (`Satisfied`) only.
An expansion of the search and each of its letters are steps of their own. The
queue of `sg_allowed_merge_word` is not modelled step by step: `AllowedWitness` is
in closed form what it computes, the first of the shortest words in the order of
the letters. `WitnessesAgree` ties that to the words of the oracle; it says nothing
about the bookkeeping of the queue itself.

| action | code |
|---|---|
| `Start` | the checks before the loops: already satisfied |
| `GreedyStep`, `GreedyMerged`, `GreedyRefused` | one round of the greedy loop, its end with one state, records that are refused |
| `GreedyStuck` | `sg_sync_discard_plan`: the word goes, the expansions stay |
| `SearchStart`, `SearchExpand`, `SearchLetter`, `SearchFound` | the root, the next support, one action applied to it, the word read back from the parents |
| `SearchBound`, `SearchExhausted` | RESOURCE_BOUND with supports pending, NO_PLAN with none |

Reading the clock, best and worst traces of a plan, and allocation failures are
left out.

### DisambiguationSearch and the code

Built like `SupportSearch`, over `sg_plan_disambiguate_with_source`. A node of the
queue is a *partition*: the supports that the traces of a word leave, equal ones
kept once, as `sg_support_partition_apply_action` does. Plans are replayed over
branches with their traces (`BranchesOf`, `sg_trace_partition_apply_word`), and
`PartitionsReplay` says that the two agree.

| action | code |
|---|---|
| `Start` | bounds that are refused or hold already |
| `HeuristicRefused`, `HeuristicPlan`, `HeuristicShort`, `HeuristicNone` | `sg_best_resolution`: records are refused; its word will do; it is executed and too weak (one expansion); there is none, or it has a forbidden letter (no expansion) |
| `SearchStart`, `SearchExpand`, `SearchKnown`, `SearchNew`, `SearchFound` | `sg_partition_bfs`: the root, the next partition, an action that leads to a known one, to a new one, to one within the bound |
| `SearchBound`, `SearchExhausted` | RESOURCE_BOUND with partitions pending, NO_PLAN with none |

### PlanMonitor and the code

The monitors keep nothing between calls, so the module is the execution they are
asked about: `plan` and `outputs` are what the caller holds and passes in, `model`
what the query module reads. `MotionExpected` is `sg_validate_update`, `Filtered`,
`FailedStep` and `ExpectedOutputs` are `sg_validate_observed_update`, `Compared`
is the comparison both end in, and `Validate` is `validate_update_cb` and
`validate_observed_update_cb`: a stale generation is answered before the model
has to be prepared.

| action | code |
|---|---|
| `Adopt`, `Commit`, `Reconcile` | external: the caller plans, executes a letter and commits its output, resolves an inconsistency (`README.md`, execution lifecycle) |
| `Validate` | one call of either monitor with any report, an empty one and none included |
| `Carried` | external: the world moves without a letter |
| `Change`, `Prepare` | `update_cells` with an effective change, or `mark_dirty` with or without an edit; `prepare_model` |

`adopted`, `lawful` and `trusted` are history: the automaton the plan was made on
and whether the model was left alone since (`unchanged`), whether the world has
followed it, and whether a true report was confirmed. No action reads
`adopted.unchanged`, and the monitors do not read `adopted.aut`. `Possible` is where
runs of that automaton could be; `JudgedOnItsModel` is the table of decisions of
`README.md` over `Possible` and `unchanged`, so it depends on the comparison of
generations being made, on its direction, and on every change and `mark_dirty`
advancing the generation, also when the model ends up as it was.

### SnapshotChunks and the code

`block` and `snapshot` are the memory: reference count and content of each, or
NULL. The table of a snapshot is a function from parts to blocks; part 0 is the
topology, which is shared and never written. `thread[t]` is a procedure: `at` is
where it stands, `base` the snapshot it found, `mine` its candidate, `part` the
part it is about to handle, `old` the block it copied, `freeing` the snapshot it
lets go of last. A step has at most one operation on a counter that another
thread may have: atomic operations are modelled as sequentially consistent.

| action | code |
|---|---|
| `Build`, `Rebuild` | `sg_pair_snapshot_build` or `sg_pair_snapshot_restore`, by a reader or by an update that exceeds its budget |
| `CloneBegin`, `ClonePart` | `sg_pair_snapshot_clone`, one block at a time |
| `WriteBegin`, `WriteCopy`, `WriteFails`, `WriteLetGo`, `WriteStore` | `sg_snapshot_record_mutable`: the count is read, the block copied or not, the copy cannot be allocated, the shared block is let go of, the record is written |
| `Lookup`, `Publish`, `Evict` | the cache takes and drops references under its mutex |
| `Leave`, `FreePart` | `sg_pair_snapshot_release`, one block at a time |

### PairOracle and the code

A constant, `Calls`, gives the automaton and, for restoring, the stored rows; a
behavior is one call. Pairs have the numbers of `sg_pair_index`. `edges` is made by
`Fill` (`sg_oracle_fill_pairs`) and ordered by `Sort` (`sg_predecessors_build`),
`Seed` and `Search` are the queue of `sg_merge_distances` and
`sg_resolution_distances`, `Choose` is `sg_choose_witnesses`, and `Restore` is
`sg_pair_oracle_restore` with the checks of one row in `Valid`. `Word` is
`sg_witness_word`.

### AutomatonLoader and the code

`graph` is what the five queries of `load_automaton` return, in the order in which
they return it. `LoadKey` and `LoadEntry` handle one row, `NextQuery` goes on to
the next query, and `Build` or `Refuse` is `sg_automaton_builder_build` with the conversion
of keys to indices: `Fault` names what is refused first. `Snapshot` fills the reverse
columns (one bit for each action, target and source) and `SetCell` is
`sg_pair_snapshot_set_cell`, which moves one bit; `Sources` is how the repair
reads the columns. That function also answers INVALID_ARGUMENT for a cell, target or
output out of range; `update_cells` checks them first (`parse_cell_changes`), and the
model has calls in range only.

## Runs

| run | question | states |
|---|---|---|
| `RepairThree_all` | Does the repair of every update of one cell of every three-state automaton end with the oracle that would be built from nothing (`ImplementsMaintenance`)? Are no stale distances left and no pair met whose distance grows (`NothingStale`, `NeverRaised`)? | 865226 |
| `RepairFour_chain` | After two updates in sequence, or one of two cells, repaired, rebuilt or both: are published records usable, and exact unless a queued pair was popped? Is the budget a bound of what changes? | 92951 |
| `RepairFour_ends` | Does every update end (`UpdatesEnd`)? | 1765 |
| `RepairFour_inexact` | expects the violation of `PublishedExact`, see Findings | |
| `Lifecycle_two` | Do cached and uncached readers agree, do tokens name snapshots, is a prepared state described by its own records, and does a generation name one automaton in all committed answers? | 1969741 |
| `Cache_shared` | Is a lookup what was last inserted under that key, while two threads replace and evict? Are bytes, counts and order of use right at each step? | 176902 |
| `Search_three` | Is every answer of the planners right, whatever the records say? | 344154 |
| `Partition_four` | The same for disambiguation, with the lower bound it reports | 224484 |
| `Monitor_two` | Is every answer the one that the runs of the plan's automaton call for, or stale just when the model was touched since? Is no execution stopped that follows the model? Does a confirmed report make the rest of the plan keep its promise? | 928836 |
| `Chunks_two` | Do snapshots that share blocks behave like independent values, under two threads? | 297910 |
| `Oracle_four` | Is what the queue computes the oracle of the definition? Does restoring accept the exact rows, and only rows that can be replayed? | 22016 |
| `Loader_three` | Are exactly the automata accepted, whatever order rows come in? Are the reverse bits right after any changes? | 107184 |

### Bounds

- *States of the automata.* Three states have six pairs and every automaton of
  two actions is tried, with two ways to observe; no repair of them drops a pair.
  Four states are where it can, so the four-state runs start with the automaton
  whose repair does and change any of its cells; the planners and the oracle have
  four states where partitions and queues need them.
- *Budgets* of the repair are none, the automatic one and one that often runs out;
  of the planners one, two, and more than they can use, so that each of their
  loops is the one that ends a call.
- *Two sessions, two threads.* Conflicts, shared blocks and races on a counter are
  between two. Transactions make two calls: a session prepares and updates, or
  updates and reads its own uncommitted state.
- *Generations, epochs, tokens* to two or three, with one restart or reload: enough
  for a generation that two updates try for, a token that would be made again by
  the next process, and an epoch that an aborted preparation used. Of the three
  generations in `Monitor_two` the last may have the automaton of the first again.
- *Cache*: three snapshots fit, one needs all the bytes, one does not fit, and the
  keys differ in one part each. An entry is evicted while a reader holds its
  snapshot.
- *Chunks*: one block of records and the topology per snapshot, three snapshots and
  four blocks: addresses are used again.

`MaxGen`, `MaxEpoch`, `MaxTokens`, `MaxUpsets`, `MaxCalls`, `MaxChanges` and
`MaxPlans` are bounds of the models and guard the actions that count. The runs
whose behaviors end at such a bound (`RepairThree_all`, the `RepairFour` runs,
`Lifecycle_two`, `Monitor_two`) do not check deadlock; the others do, with a
`Returned` step where a call is over.

### Fairness

`UpdatesEnd` is the one liveness property. It assumes weak fairness of the steps
of a repair and of its publication together (`FairSpec`): a procedure that was
called runs on, on a thread of its own, and has no lock to wait for. No fairness is
assumed of users: whether an update is called is up to them. The other modules
state safety only: a search is one call, which ends because its expansions spend a
budget, and nothing in the cache waits for a condition.

## Findings

`RepairFour_inexact`: `sg_rebuild_invalidated` (`src/dynamic.c:694`) does not form
its frontier from a popped pair whose `queued` flag is set. A pair that came
closer during invalidation, was queued, and was then invalidated keeps the flag: it
is popped and dropped, and when no later change reaches it, it is published as
unreachable although an arc reaches the objective. `HACKING.md:273` says that every
published snapshot can be restored as an exact oracle. No automaton of three states
has such a pair. `ExactUnlessSkipped` says that this is the only way: records are
exact unless `skipped` is not empty. What follows for users is in
`Search_three` and `Partition_four`, which include tables in which a pair is
missing: the answers remain right, because the planners search when the records
have no word, and plans may be longer.

## Proofs

Each theorem is of the specification, for every value of the constants that meets
the `ASSUME` of its module; TLC evaluates those assumptions in the runs. They say that
sets of threads, entries and addresses are finite, that addresses have an order, that
`NULL` and `None` are no values of the program, and that bounds are numbers; for the
oracle, that states are numbered from 0 and a call is given an automaton and any rows;
for the loader, that a query returns a sequence and a row of a table is a triple.

A proof module may hold the theorems of two specifications. The names of the second,
`OracleSpec` of `PairOracle` and `LoaderSpec` of `AutomatonLoader`, differ from those of
the first for that reason, and the proofs of the oracle share the lemmas about repair.

| module | theorem | says |
|---|---|---|
| `PairGraphProofs` | lemmas | facts about pairs, records and the exact oracle, about runs of a word and what they leave on each trace, and about trees of nodes and breadth-first search |
| `PairRepairProofs` | `TypeCorrect` | `TypeOK`, and that each work list holds pairs of the right kind |
| | `NoStaleRecord` | `NothingStale`: after invalidation no record claims a distance that none of its arcs attains |
| | `NeverInvalidModel` | `NeverRaised`: the check at the head of `sg_propagate_decreases` cannot fire |
| | `BudgetKept` | `BudgetBoundsChanges` |
| | `ExactWhenNoneSkipped` | `ExactUnlessSkipped`: as long as no repair skips a queued pair, the published records are the exact oracle |
| | `PublishedAlwaysUsable` | `PublishedUsable`: whatever was published, a record that claims a distance can be restored and replayed |
| | `MaintainsUnlessSkipped` | `ImplementsMaintenance` in executions in which no repair skips a queued pair (refinement of `PairMaintenance`) |
| | `QueueAlwaysSound` | `QueueSound`: numbers of pairs, edges and predecessors fit their arrays; the queue holds a pair once, in layers |
| | `BuildAlwaysExact` | `BuildExact`: what both queues build is the oracle of the definition, numbered |
| | `RestoreAlwaysSound` | `RestoreSound`: rows that are restored replay, exact rows are not refused |
| `SupportSearchProofs`, `DisambiguationProofs` | `NoPlanIsProof` | `NoPlanCertified`: NO_PLAN means that the stored nodes are closed and none will do |
| | `OneBudget` | `BudgetShared`: both phases stay within one budget |
| | `PhasesAlwaysSound` | `PhasesSound`: each node is what the word read back from it leaves of the initial support, and words keep to what is permitted |
| | `PlansAlwaysShortest` | `SearchPlanShortest`: no permitted word shorter than a plan of the search will do |
| `SupportSearchProofs` | `BudgetAlwaysSuffices` | `BudgetSuffices`: a budget for each merge and each support within reach is enough |
| | `WitnessesAlwaysAgree` | `WitnessesAgree`: with exact records, the witness that is stored and the one that is searched for are the same |
| `DisambiguationProofs` | `PlansAlwaysResolve` | `PlanResolves`: a plan leaves no more candidates than the bound, whatever happens |
| | `LowerBoundAlwaysSettled` | `LowerBoundSettled`: with exact records and all actions, one state less than there are is reached by the word of a pair, or not at all |
| `LifecycleProofs` | `CachedAgrees` | `CacheSound`: an entry that a reader hits is the snapshot of the reader's own view |
| | `TokensAreNames` | `TokenNamesSnapshot` |
| | `StatesAreSound` | `StateSound`: a prepared state has the records and relationships of its own cells |
| | `LifecycleImplementsPrepared` | `ImplementsPrepared`: a generation names one automaton in committed answers, and committed changes advance it (refinement of `PreparedModel`) |
| | `VerdictAlwaysSound` | `VerdictSound`: exactly the automata are accepted, and others refused for a fault they have |
| | `AlwaysBuildsWhatIsNamed` | `BuildsWhatIsNamed`: indices name what the rows name, in any order of the rows |
| | `IncomingAlwaysExact` | `IncomingExact`: after any changes the columns give each arc into a pair once |
| `CacheProofs` | `StructureAlwaysSound` | `StructureSound`: both directions of the links and both ends agree, keys differ, the bytes are those of the entries and within the limit |
| | `ReferencesAlwaysCounted` | `ReferencesCounted`: each count is the number of entries and procedures that hold the snapshot |
| | `AlwaysLeastRecentlyUsed` | `LeastRecentlyUsed`: what is kept is what was used last |
| | `CacheImplementsKeyed` | `ImplementsKeyed`: the list, the mutex and the counts implement a map that may forget (refinement of `KeyedCache`) |
| `ChunksProofs` | `ReferencesAlwaysCounted` | `ReferencesCounted`: no block or snapshot is freed early, none is lost |
| | `AlwaysWrittenAlone` | `WrittenAlone`: a block is written only by a thread that nobody shares it with |
| | `SharingIsInvisible` | `ImplementsShared`: copy on write implements snapshots that are values (refinement of `SharedSnapshots`) |
| `MonitorProofs` | `AlwaysJudgedOnItsModel` | `JudgedOnItsModel`: an answer is decided by the runs of the automaton the plan was made on, and is stale just when the model was changed or marked since |
| | `NeverFalseAlarm` | `NoFalseAlarm`: a report that agrees with a lawful execution is not answered by a divergence |
| | `AlwaysKeepsPromise` | `PromiseKept`: after a confirmed true report the rest of the plan does what the plan promised |
| | `AnswersAlwaysExplained` | `AnswersExplained`: each answer is one that some run of the plan explains |

*Repair.* `NothingStale` is not inductive. `SafeInv` adds that published records
are supported by their arcs, that the seeds cover every pair with a changed cell,
that the lists fit the phase, and, while invalidation runs, that a record without
support is in the part of the list that has not been read (`StaleCovered`).
`BudgetInv` ties the records that differ to the touched pairs.
That repaired records are exact rests on two facts. Records that all are what their
targets give them are the exact oracle (`FixedExact`: by induction over the layers of
the backward search, no distance is too small and none too large), so it is enough
that no pair is *loose*, that is, has another record. And a loose pair is always
still to be evaluated (`LooseCovered`): it has an arc into a pair that was just lost
or is queued, or was lost itself and has not been settled. For the latter the
rebuild keeps the distance that the arcs now give in `tentative` and on the heap
(`HeapCovers`, `SettledNear`). The one way out is a pair that was popped while it
was queued: it says unreachable and stays loose (`LeftBehind`). A record that
claims a distance is therefore never loose, and its action leads to a record that
claims one less, which is `PublishedUsable`.

*Oracle.* `OracleInvariant` says what each stage leaves to the next. The edges are those
of the automaton by number (`Arrows`): for that, the pairs that the two loops fill in
have to be in the order of `sg_pair_index`, which is arithmetic of triangles
(`IndexOrdered`). After sorting, the
group of a pair between two offsets lists the edges into it, each once (`Grouped`). A
search keeps `Reaching`: the queue lists the pairs that have a distance, each once,
distances never fall along it and those of all pairs that wait differ by one at most;
a distance is 0 on the diagonal, 1 where outputs differ, and otherwise one more than
that of a pair behind some edge (`Explained`), and no edge into a pair that left the
queue leads from one that is farther than one more (`Followed`). When the queue is
empty these two say that the distances are shortest ones, and there is only one
assignment of shortest distances (`ShortestUnique`), so they are those of the
definition; the order of the queue is needed for `Followed` only. For restoring, a
record that passes the checks *guides* (`Guided`): its action leads to the objective or
to a record that claims one less. So the word that `sg_witness_word` collects and the
distance that is left add up to the distance of the first pair at every step
(`Underway`). As many steps as there are pairs are enough: along such records the
distances count down, from pair to pair, so none is larger than that (`GuidedBounded`).

*Searches.* `SearchInv` says that the queue of nodes begins with the initial one,
that nodes before `head` have all their successors among the stored ones, and that
no stored node will do. The argument is the same for supports and for partitions.
That a plan does what it should is read off the tree of nodes (`Hanging`): the word
read back from a node leads from its parent's support to its own, so from the
initial support to it; for partitions, the node is the set of supports that the runs
of its word leave on each trace (`Leaves`), each the image of those of its parent
under one letter and one output. A plan is a shortest one because of `Breadth`: depths
never fall along the queue, those of all nodes are within one of that of the head,
and a node whose letter was applied has its successor stored at most one deeper.
Whatever a word shorter than the last node's leads to is then in the queue, where
no node will do. For the budget, `CountInv` says that greedy merging spends no more
than the states it has merged, and the search no more than there are nodes, which
are different supports within reach. `WitnessesAgree` needs what exact records are
made of: a pair's distance is one more than the least among its successors, the
action is the first one that leads there, and the walk along the records is a
shortest word that merges the pair, which is what the search over pairs finds
first. `LowerBoundSettled` has two halves. Exact records are never refused
(`ExactWellFormed`), and runs along an accepted word from the two states of its pair
show something different or end in one state (`FoundResolves`), so every trace leaves
fewer states than there were; of the words there are, one is before all others in the
order of `Better`. If no pair has one, the nodes of the search keep all states on one
trace (`Whole`): an action that showed a difference, or sent two of them to one or to
a pair within reach, would put the pair within reach (`ExactClosed`). A call that
reads records permits all actions (`SearchAssumption`): its plans
would not keep to the permitted ones otherwise, and only `sg_plan_sync_with_source`
reads records, which takes no list of permitted actions.

*Lifecycle.* `CacheSound` compares an entry with a view, and both may come from
aborted transactions, earlier processes or earlier loads. `LifeInv` therefore talks
about *meanings*: the pairs of a token and a snapshot that cache entries, prepared
states and staged updates hold. No two meanings share a token (`Naming`), every
token in use was made before (`Made`), and a step either passes meanings on or
makes one for a token that nobody has had: `NamingKept`, `NamingExtended` and, for
the counter that starts again in a new process, `NamingRestarted`. An update passes
on what it staged because the snapshot it loaded is its own view (`StageSound`).
Generations, epochs and the guard of `Commit` play no part in the argument: it
needs that a session sees one committed state and its own writes, and not that
conflicting transactions abort. The refinement is just about those. `PreparedModel`
speaks of committed answers only, and two sessions may well have different
automata of one generation as long as both are open; what saves it is that at most
one of them commits. `HistoryInv` says that what a session would commit is *ahead*
(`Ahead`) of everything committed and of all its own answers: it is one of those
versions, or later than all of them and the only one of its generation. A session
that lost against another's commit is exempt, since `Commit` refuses it if it wrote,
and if it wrote nothing it has answered for nothing but committed versions. That the
answers of the cached planners are for the session's own view is `LifeInv`.

*Loading.* `LoaderInv` says that the builder holds a prefix of each query, all of
those before the current one and nothing of those after it (`Reads`), and no malformed
row or repeated key (`Clean`). A verdict about the builder is then one about the
graph. That a table has as many rows as there are cells, and one for each, is the same
as that rows and cells correspond one to one (`FilledWhenCounted`,
`CountedWhenFilled`), which is what the builder looks at cell by cell. The reverse
columns are a function of the transitions (`ColumnsMatch`), kept by moving one bit
(`MovedMatches`), and the arcs that the loops over two columns find are in bijection
with the pairs that are led there (`PairsOnce`).

*Cache.* `CacheInv` names one sequence of entries that the four kinds of pointers
are a chain of (`IsChain`). An allocated entry is in that chain or in the hands of
one insertion (`InChain`, `HandsApart`, `HandSound`); while an insertion has the
mutex, its key is not in the chain (`KeyAway`). The bytes are the cardinality of a
set with one member for each byte of each entry (`EachByte`), the counts those of
sets of holders; linking and unlinking then become facts about cardinalities of
sets that gain or lose one part. For the order of use, the keys of the chain are a
prefix of the keys by last use, or, while the mutex is held, of those besides the
key that is being inserted. The map of `KeyedCache` is read off the chain: a lookup
is `Lookup`, the unlinking of an equal key or of the oldest entry is `Drop`, the
linking of the new one `Put`, and all other steps stutter or go on with a call.

*Chunks.* `ChunkInv` says that a count is the cardinality of the set of those who
hold the block: tables, and threads that have taken or not yet given back a
reference. Tables are full but while they are cloned or freed. A candidate that is
not published has one holder (`HeldAlone`), and a snapshot whose count reached zero
is freed by one thread, out of everybody's reach (`FreedAlone`). This is why a
count of one that a writer has read stays one: only somebody who holds a snapshot
with the block could take another reference. In the refinement a candidate is the
value of its blocks: `Build` is `Make`, `Rebuild` is `Replace`, the last `ClonePart`
is `Copy`, `WriteStore` is `Write`, the release by the last holder is `Discard`,
and copying a block stutters.

*Monitors.* First, what the monitors compute is what the runs of the plan do: the
places that `sg_validate_update` moves to (`MovedPlaces`), those that
`sg_validate_observed_update` has left after filtering (`FilteredPlaces`), and the
branches (`BranchesSound`). Then an invariant about histories: an execution that
is lawful is at a place of some run from the adopted support, one that is trusted
at a place of a run that the confirmed reports leave. `PlanOwned` says that equal
generations mean just that nothing touched the model since the plan was made, and so
that the automaton is the same: the answer the monitor computes on the model is then
the one the runs of the adopted automaton call for (`AnswerByRuns`, which needs that
`Possible` is empty just when a step was impossible, `PossibleSound`). What is said of
an answer when it is given stays right until another output is committed.

*Only model-checked.* `UpdatesEnd`, since liveness under fairness is beyond the
prover. All other properties of the passing runs are theorems, but that
`ImplementsMaintenance` is proved on the condition that no pair is skipped, without
which it does not hold: `RepairThree_all` checks it where none can be.

## Plan

Modelled are all the components that have a state of their own, and the safety of each
is proved. What could follow: a failing allocation as a step of every action that
allocates, of which only the copy of a block is modelled, and a record of generations
that outlives a load, should the module come to keep one.

## Not modelled

- Allocation failures, but for that of a copied block. Most make a call fail and
  release what it has. Not all do: `sg_snapshot_allocate` and
  `sg_pair_snapshot_clone` set `chunk_count` before they allocate the table of
  blocks (`src/snapshot.c:194` and `:334`), so that the release after a failed
  allocation walks a table that is NULL (`src/snapshot.c:379`). Nothing here checks
  those paths.
- Conversion of arguments and results between Memgraph and C, text of messages,
  metrics and best or worst traces of a result, deadlines: no other state depends
  on them. The lists of missing and unexpected states of a monitor's answer are
  the differences of two sets that the model has.
- The command line tool: it reads a file, calls the library once and prints.
- The scripts and the Cypher schema, but for loading a model and the marking of
  direct edits, which are external actions of `ModelLifecycle`. That an edit is
  marked, and that nobody keeps a plan over a load, are obligations of theirs:
  the module compares generations and cannot tell (listed as a hazard).
