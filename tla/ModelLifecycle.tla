--------------------------- MODULE ModelLifecycle ---------------------------
(***************************************************************************)
(* One model under the procedures of sync_module.c: its base view and its  *)
(* metadata in the database, the transactions that call the procedures,    *)
(* and the cache of prepared snapshots that all of them share in memory.   *)
(*                                                                         *)
(* The database is external: a transaction works on the state committed    *)
(* when it began plus its own writes (snapshot isolation), and commits its *)
(* writes only if nobody committed writes meanwhile: whatever writes the   *)
(* model writes its SyncModel node.  The cache is not transactional: what  *)
(* was put into it stays, whatever becomes of the transaction.             *)
(*                                                                         *)
(* Pair records are represented by the automata whose exact oracles they   *)
(* are taken from: one when they are consistent, none when there are none. *)
(* Module PairRepair is about how an update makes them.                    *)
(***************************************************************************)
EXTENDS Integers

CONSTANTS
  Clients,         \* sessions that run transactions
  Cells,           \* state/action cells of the model
  Values,          \* contents of a cell: a target and an output
  PrepareOptions,  \* arguments <<materialize_edges, incremental>>
  MaxGen,          \* bound: generations
  MaxEpoch,        \* bound: oracle epochs
  MaxTokens,       \* bound: tokens made by one process
  MaxUpsets,       \* bound: restarts of the process and loads after the first
  MaxCalls         \* bound: calls of one transaction

ASSUME LifecycleAssumption ==
  /\ Cells # {} /\ Values # {} /\ PrepareOptions \subseteq BOOLEAN \X BOOLEAN
  /\ MaxGen \in Nat /\ MaxEpoch \in Nat /\ MaxTokens \in Nat
  /\ MaxUpsets \in Nat /\ MaxCalls \in Nat

VARIABLES
  db,           \* the committed state of the model
  cache,        \* snapshot_cache
  incarnation,  \* snapshot_incarnation of the process
  counter,      \* snapshot_counter
  tx,           \* per client: its transaction
  named         \* history: versions committed, or used in committed answers

vars == <<db, cache, incarnation, counter, tx, named>>

Automata == [Cells -> Values]
Derived == SUBSET Automata

Tokens == Nat \X Nat
NoToken == <<0, 0>>  \* the empty snapshot_token

Snapshots == [gen : Nat, base : Automata, recs : Derived]
Entries == [epoch : Nat, gen : Nat, token : Tokens, snap : Snapshots]

\* SyncModel with the base view, the SyncPair nodes of its epoch and their
\* relationships; load counts, as history, how often the model was loaded.
ModelStates ==
  [base : Automata, load : Nat, gen : Nat, epoch : Nat, dirty : BOOLEAN,
   pgen : Nat \cup {-1}, incremental : BOOLEAN, token : Tokens,
   recs : Derived, edges : Derived]

\* An update between staging its candidate and writing it.
NoStage == [token |-> NoToken]
Stages == [token : Tokens, snap : Snapshots, from : Automata, full : BOOLEAN]

Versions == [load : Nat, gen : Nat, base : Automata]
Version(view) == [load |-> view.load, gen |-> view.gen, base |-> view.base]

-----------------------------------------------------------------------------
(* Transactions of the database. *)

Closed ==
  [open |-> FALSE, calls |-> 0, view |-> db, wrote |-> FALSE, lost |-> FALSE,
   told |-> {}, stage |-> NoStage]

Begin(c) ==
  /\ ~tx[c].open
  /\ tx' = [tx EXCEPT ![c] = [Closed EXCEPT !.open = TRUE]]
  /\ UNCHANGED <<db, cache, incarnation, counter, named>>

Ready(c) ==
  tx[c].open /\ tx[c].stage = NoStage /\ tx[c].calls < MaxCalls

\* A call that leaves the database alone and answers with version v.
Tell(c, v) ==
  tx' = [tx EXCEPT ![c].calls = @ + 1, ![c].told = @ \cup {v}]

\* A call that leaves the transaction with another state of the model.
Store(c, view) ==
  tx' = [tx EXCEPT ![c].calls = @ + 1, ![c].view = view, ![c].wrote = TRUE,
                   ![c].stage = NoStage]

\* First committer wins; the others can only abort.
Commit(c) ==
  /\ tx[c].open /\ tx[c].stage = NoStage
  /\ tx[c].wrote => ~tx[c].lost
  /\ db' = IF tx[c].wrote THEN tx[c].view ELSE db
  /\ named' = named \cup tx[c].told \cup {Version(db')}
  /\ tx' = [d \in Clients |->
              IF d = c \/ ~tx[d].open THEN [Closed EXCEPT !.view = db']
              ELSE [tx[d] EXCEPT !.lost = @ \/ tx[c].wrote]]
  /\ UNCHANGED <<cache, incarnation, counter>>

\* By the caller, after a conflict, or because a procedure raised an error.
Abort(c) ==
  /\ tx[c].open
  /\ tx' = [tx EXCEPT ![c] = Closed]
  /\ UNCHANGED <<db, cache, incarnation, counter, named>>

-----------------------------------------------------------------------------
(* The snapshot cache and the tokens. *)

\* Mutant of SameKey: entries are told apart by epoch and generation only.
SameKeyNoToken(e, f) == e.epoch = f.epoch /\ e.gen = f.gen

SameKey(e, f) == e.epoch = f.epoch /\ e.gen = f.gen /\ e.token = f.token

Entry(epoch, gen, token, snap) ==
  [epoch |-> epoch, gen |-> gen, token |-> token, snap |-> snap]

Insert(entries, e) == {f \in entries : ~SameKey(f, e)} \cup {e}

Hits(view) == {e \in cache : SameKey(e, view)}

\* The mutex of the cache is released between calls, and an entry is evicted
\* when others need its bytes, or is not stored when it is too large.
Evict ==
  /\ \E e \in cache : cache' = cache \ {e}
  /\ UNCHANGED <<db, incarnation, counter, tx, named>>

\* make_snapshot_token
Token == <<incarnation, counter>>
MakeToken == counter <= MaxTokens /\ counter' = counter + 1

\* load_metadata
Prepared(view) ==
  /\ ~view.dirty /\ view.epoch > 0
  /\ view.pgen = view.gen /\ view.token # NoToken

\* load_prepared_snapshot: from the cache, or else from the stored records.
Loaded(view) ==
  IF Hits(view) # {} THEN {e.snap : e \in Hits(view)}
  ELSE {[gen |-> view.gen, base |-> view.base, recs |-> view.recs]}

Filled(view, snap) ==
  IF Hits(view) # {} THEN cache
  ELSE Insert(cache, Entry(view.epoch, view.gen, view.token, snap))

-----------------------------------------------------------------------------
(* prepare_model *)

\* materialize_oracle
Materialized(view, edges, incremental, token) ==
  [view EXCEPT !.recs = {view.base},
               !.edges = IF edges THEN {view.base} ELSE {},
               !.dirty = FALSE, !.pgen = view.gen, !.epoch = @ + 1,
               !.incremental = incremental, !.token = token]

Prepare(c) ==
  /\ Ready(c) /\ tx[c].view.epoch < MaxEpoch /\ MakeToken
  /\ \E opt \in PrepareOptions :
       LET old == tx[c].view
           new == Materialized(old, opt[1], opt[2], Token)
           snap == [gen |-> old.gen, base |-> old.base, recs |-> {old.base}]
       IN /\ Store(c, new)
          /\ cache' = Insert(cache, Entry(new.epoch, old.gen, Token, snap))
  /\ UNCHANGED <<db, incarnation, named>>

-----------------------------------------------------------------------------
(* The planners and monitors. *)

\* plan_sync and plan_disambiguate read the prepared snapshot.
Plan(c) ==
  /\ Ready(c) /\ Prepared(tx[c].view)
  /\ \E snap \in Loaded(tx[c].view) :
       /\ Tell(c, [load |-> tx[c].view.load, gen |-> snap.gen,
                   base |-> snap.base])
       /\ cache' = Filled(tx[c].view, snap)
  /\ UNCHANGED <<db, incarnation, counter, named>>

\* plan_sync_uncached reads the base view, prepared or not.
PlanUncached(c) ==
  /\ Ready(c)
  /\ Tell(c, Version(tx[c].view))
  /\ UNCHANGED <<db, cache, incarnation, counter, named>>

\* plan_goal, plan_sync_allowed, explain_plan and the monitors read the base
\* view of a prepared model.  A monitor answers for the generation it was asked
\* about only if the model still has it.
Consult(c) ==
  /\ Ready(c) /\ Prepared(tx[c].view)
  /\ Tell(c, Version(tx[c].view))
  /\ UNCHANGED <<db, cache, incarnation, counter, named>>

-----------------------------------------------------------------------------
(* update_cells *)

\* What the update computes from the snapshot it loaded and stages in the cache
\* before the first write to the database.  full says that all records are
\* written, and not only the repaired ones.
UpdateStage(c) ==
  /\ Ready(c) /\ Prepared(tx[c].view) /\ tx[c].view.incremental
  /\ tx[c].view.gen < MaxGen /\ MakeToken
  /\ \E old \in Loaded(tx[c].view), new \in Automata, full \in BOOLEAN :
       LET view == tx[c].view
           gen == view.gen + 1
           kept == IF full THEN {} ELSE old.recs \ {old.base}
           snap == [gen |-> gen, base |-> new, recs |-> kept \cup {new}]
       IN /\ new # old.base
          /\ cache' = Insert(Filled(view, old),
                             Entry(view.epoch, gen, Token, snap))
          /\ tx' = [tx EXCEPT ![c].stage = [token |-> Token, snap |-> snap,
                                            from |-> old.base, full |-> full]]
  /\ UNCHANGED <<db, incarnation, named>>

\* UNCHANGED: no cell of the batch differs from the snapshot.
UpdateUnchanged(c) ==
  /\ Ready(c) /\ Prepared(tx[c].view) /\ tx[c].view.incremental
  /\ \E snap \in Loaded(tx[c].view) : cache' = Filled(tx[c].view, snap)
  /\ tx' = [tx EXCEPT ![c].calls = @ + 1]
  /\ UNCHANGED <<db, incarnation, counter, named>>

\* Mutant of Changed: the cells are written as the snapshot has them.
ChangedBase(view, stage) ==
  [cell \in Cells |-> IF stage.snap.base[cell] # stage.from[cell]
                      THEN stage.from[cell] ELSE view.base[cell]]

\* apply_base_changes: the cells that the update changed in its snapshot
Changed(view, stage) ==
  [cell \in Cells |-> IF stage.snap.base[cell] # stage.from[cell]
                      THEN stage.snap.base[cell] ELSE view.base[cell]]

\* replace_pair_edges: the relationships of pairs with a changed cell
ChangedEdges(view, stage) ==
  IF view.edges = {} THEN {}
  ELSE (view.edges \ {stage.from}) \cup {stage.snap.base}

\* persist_snapshot_records: all records, or those that the repair changed
ChangedRecords(view, stage) ==
  IF stage.full THEN stage.snap.recs
  ELSE (view.recs \ {stage.from}) \cup stage.snap.recs

\* finish_incremental_update, with everything that was written before it
Updated(view, stage) ==
  [view EXCEPT !.base = Changed(view, stage),
               !.edges = ChangedEdges(view, stage),
               !.recs = ChangedRecords(view, stage),
               !.gen = stage.snap.gen, !.pgen = stage.snap.gen,
               !.dirty = FALSE, !.incremental = TRUE, !.token = stage.token]

UpdateWrite(c) ==
  /\ tx[c].open /\ tx[c].stage # NoStage
  /\ Store(c, Updated(tx[c].view, tx[c].stage))
  /\ UNCHANGED <<db, cache, incarnation, counter, named>>

-----------------------------------------------------------------------------
(* mark_dirty and edits of the base view from outside. *)

\* Mutant of Marked: marking a model dirty leaves its generation alone.
MarkedOnly(view) == [view EXCEPT !.dirty = TRUE]

Marked(view) == [view EXCEPT !.dirty = TRUE, !.gen = @ + 1]

MarkDirty(c) ==
  /\ Ready(c) /\ tx[c].view.gen < MaxGen
  /\ Store(c, Marked(tx[c].view))
  /\ UNCHANGED <<db, cache, incarnation, counter, named>>

\* A direct edit marks the model as part of the edit, as the README asks.
Edit(c) ==
  /\ Ready(c) /\ tx[c].view.gen < MaxGen
  /\ \E new \in Automata \ {tx[c].view.base} :
       Store(c, Marked([tx[c].view EXCEPT !.base = new]))
  /\ UNCHANGED <<db, cache, incarnation, counter, named>>

\* Restarts, and loads that a view has seen.
Upsets(view) == incarnation - 1 + view.load - 1

\* The scripts that load a model delete what it had and start at generation 1.
Fresh(base, load) ==
  [base |-> base, load |-> load, gen |-> 1, epoch |-> 0, dirty |-> TRUE,
   pgen |-> -1, incremental |-> FALSE, token |-> NoToken, recs |-> {}, edges |-> {}]

Reload(c) ==
  /\ Ready(c) /\ Upsets(tx[c].view) < MaxUpsets
  /\ \E base \in Automata : Store(c, Fresh(base, tx[c].view.load + 1))
  /\ UNCHANGED <<db, cache, incarnation, counter, named>>

-----------------------------------------------------------------------------
\* Mutant of NewIncarnation: a name that does not tell processes apart.
SameIncarnation == incarnation

\* initialize_snapshot_incarnation draws 128 random bits: a name that no process
\* had before.
NewIncarnation == incarnation + 1

\* mgp_shutdown_module and mgp_init_module, in an orderly way or in a crash:
\* the memory is lost and the transactions are aborted.
Restart ==
  /\ Upsets(db) < MaxUpsets
  /\ incarnation' = NewIncarnation /\ counter' = 1 /\ cache' = {}
  /\ tx' = [c \in Clients |-> Closed]
  /\ UNCHANGED <<db, named>>

Init ==
  /\ \E base \in Automata : db = Fresh(base, 1)
  /\ cache = {} /\ incarnation = 1 /\ counter = 1
  /\ tx = [c \in Clients |-> Closed]
  /\ named = {Version(db)}

Call(c) ==
  \/ Prepare(c) \/ Plan(c) \/ PlanUncached(c) \/ Consult(c)
  \/ UpdateStage(c) \/ UpdateUnchanged(c) \/ UpdateWrite(c)
  \/ MarkDirty(c) \/ Edit(c) \/ Reload(c)

Next ==
  \/ \E c \in Clients : Begin(c) \/ Call(c) \/ Commit(c) \/ Abort(c)
  \/ Evict \/ Restart

Spec == Init /\ [][Next]_vars

-----------------------------------------------------------------------------
(* Properties. *)

TypeOK ==
  /\ db \in ModelStates
  /\ cache \subseteq Entries
  /\ incarnation \in Nat /\ counter \in Nat
  /\ \A c \in Clients :
       /\ tx[c].view \in ModelStates
       /\ tx[c].told \subseteq Versions
       /\ tx[c].stage = NoStage \/ tx[c].stage \in Stages
  /\ named \subseteq Versions

Views == {db} \cup {tx[c].view : c \in {d \in Clients : tx[d].open}}

\* Cached and uncached planners agree (HACKING.md, Correctness Invariants): an
\* entry that a prepared state of the model would hit holds the automaton of
\* that state, under its generation, with the records of that automaton.  No
\* entry that an aborted transaction or an earlier load left behind is hit.
CacheSound ==
  \A view \in Views : Prepared(view) =>
    \A e \in Hits(view) :
      /\ e.snap.gen = view.gen
      /\ e.snap.base = view.base /\ e.snap.recs = {view.base}

\* Whatever a transaction reads, a prepared model has the records of its own
\* automaton, and relationships of it or none.
RecordsDescribeBase ==
  \A view \in Views : Prepared(view) =>
    view.recs = {view.base} /\ view.edges \subseteq {view.base}

\* A generation names one automaton in all committed answers, and committed
\* changes of the model advance it.
Promised == INSTANCE PreparedModel WITH version <- Version(db)
ImplementsPrepared == Promised!Spec

\* The two snapshots that a token could stand for are the same: a token is
\* never used for two versions, whatever became of the first.
TokenNamesSnapshot ==
  \A e, f \in cache : e.token = f.token => e.snap = f.snap

\* Every state a caller or another procedure can read is well formed, and a
\* model that passes for prepared has the records of its own cells.
StateSound == TypeOK /\ RecordsDescribeBase
=============================================================================
