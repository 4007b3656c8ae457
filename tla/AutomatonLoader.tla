---------------------------- MODULE AutomatonLoader ----------------------------
(***************************************************************************)
(* How an automaton gets from the rows of the database into memory         *)
(* (sync_module.c), through the builder that finds the indices of keys and *)
(* refuses what is not one transition and one observation per cell         *)
(* (sync.c), and how a candidate changes its cells together with the bits  *)
(* that repair finds the predecessors of a pair with (snapshot.c).         *)
(*                                                                         *)
(* Keys are values that are compared; the conversion of rows is their      *)
(* kind: a key, an empty string, or no string at all.                      *)
(***************************************************************************)
EXTENDS Integers, FiniteSets, Functions, SequencesExt

CONSTANTS
  Graphs,     \* what the queries return: a sequence of rows for each of them
  Empty,      \* the empty string
  NotString,  \* a property that is missing or of another type
  MaxChanges  \* bound: cells that are changed

\* The queries in the order of load_automaton_generation.
Domains == {"states", "actions", "outputs"}
Tables == {"transitions", "observations"}
Queries == <<"states", "actions", "outputs", "transitions", "observations">>

ASSUME LoaderAssumption ==
  /\ MaxChanges \in Nat /\ Empty # NotString
  /\ \A graph \in Graphs : DOMAIN graph = Range(Queries)
  /\ \A graph \in Graphs, query \in Range(Queries) :
       graph[query] \in Seq(Range(graph[query]))
  /\ \A graph \in Graphs, table \in Tables :
       \A entry \in Range(graph[table]) : entry = <<entry[1], entry[2], entry[3]>>

VARIABLES
  graph,      \* what is loaded
  stage,      \* number of the query that is read
  row,        \* its next row
  builder,    \* keys and entries so far
  status,     \* of the call, or "NONE" while it goes on
  automaton,  \* keys, transitions and observations, or <<>>
  columns,    \* reverse_columns: per action and target, the states that go there
  changes     \* history: number of cells that were changed

loaderVars == <<graph, stage, row, builder, status, automaton, columns, changes>>

-----------------------------------------------------------------------------
(* Loading: load_domain, load_transitions, load_observations. *)

Loading == status = "NONE" /\ stage \in DOMAIN Queries
Query == Queries[stage]
HasRow == row <= Len(graph[Query])

Fail(s) ==
  /\ status' = s
  /\ UNCHANGED <<graph, stage, row, builder, automaton, columns, changes>>

\* Mutant of Taken: only the key before is looked at.
TakenLast(keys, key) == keys # <<>> /\ Last(keys) = key

\* sg_string_array_find, for a key that is added
Taken(keys, key) == key \in Range(keys)

LoadKey ==
  /\ Loading /\ Query \in Domains /\ HasRow
  /\ \E key \in {graph[Query][row]} :
       \/ key = NotString /\ Fail("INVALID_MODEL")
       \/ key = Empty /\ Fail("INVALID_ARGUMENT")
       \/ key \notin {NotString, Empty} /\ Taken(builder[Query], key) /\ Fail("DUPLICATE")
       \/ /\ key \notin {NotString, Empty} /\ ~Taken(builder[Query], key)
          /\ builder' = [builder EXCEPT ![Query] = Append(@, key)]
          /\ row' = row + 1
          /\ UNCHANGED <<graph, stage, status, automaton, columns, changes>>

LoadEntry ==
  /\ Loading /\ Query \in Tables /\ HasRow
  /\ \E entry \in {graph[Query][row]} :
       \/ NotString \in Range(entry) /\ Fail("INVALID_MODEL")
       \/ NotString \notin Range(entry) /\ Empty \in Range(entry) /\ Fail("INVALID_ARGUMENT")
       \/ /\ Range(entry) \cap {NotString, Empty} = {}
          /\ builder' = [builder EXCEPT ![Query] = Append(@, entry)]
          /\ row' = row + 1
          /\ UNCHANGED <<graph, stage, status, automaton, columns, changes>>

NextQuery ==
  /\ Loading /\ ~HasRow
  /\ stage' = stage + 1 /\ row' = 1
  /\ UNCHANGED <<graph, builder, status, automaton, columns, changes>>

-----------------------------------------------------------------------------
(* Building: sg_automaton_builder_build. *)

Indices(keys) == 0 .. Len(keys) - 1
IndexOf(keys, key) == (CHOOSE n \in DOMAIN keys : keys[n] = key) - 1

CellsOf(a) == Indices(a.states) \X Indices(a.actions)

\* The names of the values of a table.
Named(table) == IF table = "transitions" THEN builder.states ELSE builder.outputs

Known(table, entry) ==
  /\ entry[1] \in Range(builder.states) /\ entry[2] \in Range(builder.actions)
  /\ entry[3] \in Range(Named(table))

CellOf(entry) == SubSeq(entry, 1, 2)

\* Mutant of Contested: two entries are refused when they differ.
ContestedDiffering(table, n) ==
  \E m \in 1 .. n - 1 :
    CellOf(builder[table][m]) = CellOf(builder[table][n])
    /\ builder[table][m] # builder[table][n]

\* An entry whose cell has a value already.
Contested(table, n) ==
  \E m \in 1 .. n - 1 : CellOf(builder[table][m]) = CellOf(builder[table][n])

\* The entries that are refused: a key is unknown, or the cell is taken.
Bad(table) ==
  {n \in DOMAIN builder[table] : ~Known(table, builder[table][n]) \/ Contested(table, n)}

\* Mutant of Fault: any entry after the first of its cell is a repetition.
FaultBlind(table) ==
  LET n == CHOOSE m \in Bad(table) : \A k \in Bad(table) : m <= k
  IN CASE Bad(table) = {} -> "OK"
       [] Bad(table) # {} /\ ~Known(table, builder[table][n]) -> "NOT_FOUND"
       [] OTHER -> "DUPLICATE"

\* The status for the first of them: sg_resolve_entries.
Fault(table) ==
  LET n == CHOOSE m \in Bad(table) : \A k \in Bad(table) : m <= k
  IN CASE Bad(table) = {} -> "OK"
       [] Bad(table) # {} /\ ~Known(table, builder[table][n]) -> "NOT_FOUND"
       [] OTHER -> IF \E m \in 1 .. n - 1 : builder[table][m] = builder[table][n]
                   THEN "DUPLICATE" ELSE "NONDETERMINISTIC"

\* Cells without a value in one of the tables.
Uncovered == {c \in Range(builder.states) \X Range(builder.actions) :
  \E table \in Tables : \A n \in DOMAIN builder[table] : CellOf(builder[table][n]) # c}

Verdict ==
  CASE \E d \in Domains : builder[d] = <<>> -> "INCOMPLETE"
    [] OTHER -> IF Fault("transitions") # "OK" THEN Fault("transitions")
                ELSE IF Fault("observations") # "OK" THEN Fault("observations")
                ELSE IF Uncovered # {} THEN "INCOMPLETE" ELSE "OK"

\* Mutant of Resolved: the entries are taken to come in the order of the cells.
ResolvedInOrder(table) ==
  [c \in CellsOf(builder) |->
     IndexOf(Named(table), builder[table][c[1] * Len(builder.actions) + c[2] + 1][3])]

\* The value of each cell, by indices.
Resolved(table) ==
  [c \in CellsOf(builder) |->
     LET n == CHOOSE m \in DOMAIN builder[table] :
                CellOf(builder[table][m]) = <<builder.states[c[1] + 1], builder.actions[c[2] + 1]>>
     IN IndexOf(Named(table), builder[table][n][3])]

Refuse ==
  /\ status = "NONE" /\ stage > Len(Queries) /\ Verdict # "OK"
  /\ Fail(Verdict)

Build ==
  /\ status = "NONE" /\ stage > Len(Queries) /\ Verdict = "OK"
  /\ automaton' = [states |-> builder.states, actions |-> builder.actions,
                   outputs |-> builder.outputs, delta |-> Resolved("transitions"),
                   eta |-> Resolved("observations")]
  /\ status' = "OK"
  /\ UNCHANGED <<graph, stage, row, builder, columns, changes>>

-----------------------------------------------------------------------------
(* Snapshots of the automaton. *)

Sides == Indices(automaton.actions) \X Indices(automaton.states)

\* sg_snapshot_allocate: sg_reverse_columns_build
Snapshot ==
  /\ status = "OK" /\ columns = <<>>
  /\ columns' = [c \in Sides |->
       {s \in Indices(automaton.states) : automaton.delta[<<s, c[1]>>] = c[2]}]
  /\ UNCHANGED <<graph, stage, row, builder, status, automaton, changes>>

\* Mutant of Moved: the state keeps its bit in the column it leaves.
MovedOnly(s, a, old, new) == [columns EXCEPT ![<<a, new>>] = @ \cup {s}]

\* sg_reverse_set for the column that s leaves, then for the one it enters
Moved(s, a, old, new) ==
  [columns EXCEPT ![<<a, old>>] = @ \ {s}, ![<<a, new>>] = @ \cup {s}]

\* sg_pair_snapshot_set_cell, on a clone that has the columns of its source; a
\* cell that stays as it is is left alone.
SetCell(s, a, target, output) ==
  LET c == <<s, a>>
  IN /\ columns # <<>> /\ changes < MaxChanges
     /\ automaton.delta[c] # target \/ automaton.eta[c] # output
     /\ automaton' = [automaton EXCEPT !.delta[c] = target, !.eta[c] = output]
     /\ columns' = IF automaton.delta[c] = target THEN columns
                   ELSE Moved(s, a, automaton.delta[c], target)
     /\ changes' = changes + 1
     /\ UNCHANGED <<graph, stage, row, builder, status>>

\* sg_snapshot_store_read_incoming: the pairs that a leads into {x, y}, x <= y
Sources(a, x, y) ==
  IF x = y THEN {arc \in columns[<<a, x>>] \X columns[<<a, x>>] : arc[1] <= arc[2]}
  ELSE columns[<<a, x>>] \X columns[<<a, y>>]

-----------------------------------------------------------------------------
LoaderInit ==
  /\ graph \in Graphs /\ stage = 1 /\ row = 1
  /\ builder = [q \in Range(Queries) |-> <<>>]
  /\ status = "NONE" /\ automaton = <<>> /\ columns = <<>> /\ changes = 0

\* The call has failed, or the snapshot has changed as often as it may.
Returned == (status \notin {"NONE", "OK"} \/ changes = MaxChanges) /\ UNCHANGED loaderVars

LoaderNext ==
  \/ LoadKey \/ LoadEntry \/ NextQuery \/ Refuse \/ Build \/ Snapshot
  \/ /\ automaton # <<>>
     /\ \E c \in CellsOf(automaton), x \in Indices(automaton.states),
           o \in Indices(automaton.outputs) : SetCell(c[1], c[2], x, o)
  \/ Returned

LoaderSpec == LoaderInit /\ [][LoaderNext]_loaderVars

-----------------------------------------------------------------------------
(* Properties. *)

LoaderTypeOK ==
  /\ stage \in 1 .. Len(Queries) + 1 /\ row \in Nat \ {0}
  /\ \A q \in Domains : IsInjective(builder[q])
  /\ status \in {"NONE", "OK", "INVALID_MODEL", "INVALID_ARGUMENT", "DUPLICATE",
                 "NOT_FOUND", "NONDETERMINISTIC", "INCOMPLETE"}
  /\ automaton # <<>> =>
       /\ automaton.delta \in [CellsOf(automaton) -> Indices(automaton.states)]
       /\ automaton.eta \in [CellsOf(automaton) -> Indices(automaton.outputs)]
  /\ changes \in 0 .. MaxChanges

\* A graph that is an automaton: keys that name one thing each, and for every
\* state and action just one row of each table, with a value that is named.
Rows(table, s, a) == {n \in DOMAIN graph[table] : CellOf(graph[table][n]) = <<s, a>>}

IsAutomaton ==
  LET strings(key) == key \notin {Empty, NotString}
      cells == Range(graph.states) \X Range(graph.actions)
  IN /\ \A d \in Domains :
          graph[d] # <<>> /\ IsInjective(graph[d]) /\ \A key \in Range(graph[d]) : strings(key)
     /\ \A table \in Tables :
          /\ \A c \in cells : Cardinality(Rows(table, c[1], c[2])) = 1
          /\ Len(graph[table]) = Cardinality(cells)
     /\ \A entry \in Range(graph.transitions) : entry[3] \in Range(graph.states)
     /\ \A entry \in Range(graph.observations) : entry[3] \in Range(graph.outputs)

\* "Every automaton has exactly one transition and observation per state/action
\* cell; state, action, and output keys are unique within a model" (HACKING.md):
\* sg_automaton_builder_build accepts those graphs and no others.
AcceptsAutomata ==
  /\ status = "OK" => IsAutomaton
  /\ status \notin {"NONE", "OK"} => ~IsAutomaton

\* Indices name what the rows name: in whatever order the database returns them,
\* the automaton moves and shows what they say.
BuildsWhatIsNamed ==
  status = "OK" /\ changes = 0 =>
    /\ \A entry \in Range(graph.transitions) :
         automaton.states[1 + automaton.delta[<<IndexOf(automaton.states, entry[1]),
                                                IndexOf(automaton.actions, entry[2])>>]] = entry[3]
    /\ \A entry \in Range(graph.observations) :
         automaton.outputs[1 + automaton.eta[<<IndexOf(automaton.states, entry[1]),
                                               IndexOf(automaton.actions, entry[2])>>]] = entry[3]

\* A row that contradicts another is not taken for a repetition of it, and the
\* other way round.
FaultNamed ==
  /\ status = "DUPLICATE" =>
       \/ \E d \in Domains : ~IsInjective(graph[d])
       \/ \E table \in Tables : ~IsInjective(graph[table])
  /\ status = "NONDETERMINISTIC" =>
       \E table \in Tables : \E m, n \in DOMAIN graph[table] :
         /\ CellOf(graph[table][m]) = CellOf(graph[table][n])
         /\ graph[table][m] # graph[table][n]
  /\ status = "INCOMPLETE" =>
       \/ \E d \in Domains : graph[d] = <<>>
       \/ \E s \in Range(graph.states), a \in Range(graph.actions), table \in Tables :
            Rows(table, s, a) = {}

\* A graph is accepted if it is an automaton, and refused for what is wrong.
VerdictSound == LoaderTypeOK /\ AcceptsAutomata /\ FaultNamed

\* The pairs of states that an action leads into {x, y}.
StatePairs == {{s, t} : s, t \in Indices(automaton.states)}
Led(p, a) == {automaton.delta[<<s, a>>] : s \in p}
LedInto(a, x, y) == {p \in StatePairs : Led(p, a) = {x, y}}

\* After any changes repair reads from the columns the arcs into a pair: every
\* pair of states that the action leads there, and each of them once, though the
\* loops go over the product of two columns.
IncomingExact ==
  columns # <<>> =>
    \A c \in Sides, y \in Indices(automaton.states) :
      LET found == Sources(c[1], c[2], y)
          led == LedInto(c[1], c[2], y)
      IN c[2] <= y =>
           /\ {{arc[1], arc[2]} : arc \in found} = led
           /\ Cardinality(found) = Cardinality(led)
=============================================================================
