---------------------------- MODULE SnapshotChunks ----------------------------
(***************************************************************************)
(* Snapshots whose parts are shared (snapshot.c): the table of a snapshot  *)
(* points to blocks of records with reference counts of their own.  A      *)
(* clone takes a reference to each block of its source, a write copies its *)
(* block first unless the count says that nobody else has it, and whoever  *)
(* lets go of a snapshot last lets go of its blocks, one after the other.  *)
(*                                                                         *)
(* Threads run the procedures of sync_module.c, which get snapshots from   *)
(* the cache, clone and write candidates, and put them into the cache.  A  *)
(* step does at most one operation on a counter that others may have, so   *)
(* that those of two threads come in every order.  The topology of the     *)
(* pairs is one more part that clones share, and nobody writes.            *)
(***************************************************************************)
EXTENDS Integers, FiniteSets, Functions

CONSTANTS
  Threads,     \* threads that run procedures
  Snapshots,   \* addresses of snapshots
  Blocks,      \* addresses of blocks
  ChunkCount,  \* chunk_count of every snapshot
  Values,      \* what the records of one chunk may be
  NULL

Topology == 0
Chunks == 1 .. ChunkCount
Parts == {Topology} \cup Chunks

\* sg_record_chunk or sg_pair_topology, and sg_pair_snapshot
BlockRecords == [references : Nat \ {0}, content : Values \cup {NULL}]
SnapshotRecords == [references : Nat, table : [Parts -> Blocks \cup {NULL}]]

ASSUME ChunkAssumption ==
  /\ Snapshots \subseteq Nat /\ Blocks \subseteq Nat \* addresses have an order
  /\ IsFiniteSet(Snapshots) /\ IsFiniteSet(Blocks) /\ IsFiniteSet(Threads)
  /\ NULL \notin Nat \cup Values \cup BlockRecords \cup SnapshotRecords
                  \cup [Parts -> Values \cup {NULL}]
  /\ ChunkCount \in Nat \ {0}

VARIABLES
  block,      \* per address: references and content of a block, or NULL
  snapshot,   \* per address: references and table of a snapshot, or NULL
  cached,     \* snapshots in the cache
  published,  \* history: snapshots that were put into the cache
  thread      \* per thread: where it is and what it has

vars == <<block, snapshot, cached, published, thread>>

Idle == [at |-> "ready", base |-> NULL, mine |-> NULL, part |-> NULL,
         old |-> NULL, freeing |-> NULL]

FreeBlocks == {b \in Blocks : block[b] = NULL}
FreeSnapshots == {s \in Snapshots : snapshot[s] = NULL}

\* Which address an allocation returns makes no difference: the lowest ones.
Lowest(addresses, n) ==
  CHOOSE a \in addresses : Cardinality({b \in addresses : b < a}) = n - 1

\* The last one who lets go of a snapshot goes on to free it.
LetGo(snapshots, s) == [snapshots EXCEPT ![s].references = @ - 1]
Last(s) == snapshot[s].references = 1

\* Where t is when it has let go of s.
Freeing(t, s) ==
  IF Last(s) THEN [thread EXCEPT ![t].at = "free", ![t].freeing = s, ![t].part = 1] ELSE thread

New(content) == [references |-> 1, content |-> content]

-----------------------------------------------------------------------------
(* Making snapshots. *)

Contents == {[p \in Parts |-> IF p = Topology THEN NULL ELSE v[p]] : v \in [Chunks -> Values]}

Room == Cardinality(FreeBlocks) >= Cardinality(Parts) /\ FreeSnapshots # {}

\* sg_snapshot_allocate and sg_snapshot_fill_from_oracle: nothing is shared yet.
Allocate(s, v) ==
  LET table == [p \in Parts |-> Lowest(FreeBlocks, p + 1)]
      PartOf(b) == CHOOSE p \in Parts : table[p] = b
  IN [blocks |-> [b \in Blocks |-> IF b \in Range(table) THEN New(v[PartOf(b)]) ELSE block[b]],
      snapshots |-> [snapshot EXCEPT ![s] = [references |-> 1, table |-> table]]]

\* A snapshot is prepared, or restored for a planner or an update to start from.
Build(t) ==
  /\ thread[t].at = "ready" /\ thread[t].base = NULL /\ thread[t].mine = NULL /\ Room
  /\ \E s \in {Lowest(FreeSnapshots, 1)}, v \in Contents :
       /\ block' = Allocate(s, v).blocks /\ snapshot' = Allocate(s, v).snapshots
       /\ thread' = [thread EXCEPT ![t].base = s]
  /\ UNCHANGED <<cached, published>>

\* The candidate of an update is built anew from its automaton, and given up.
Rebuild(t) ==
  /\ thread[t].at = "ready" /\ Room
  /\ thread[t].mine # NULL /\ thread[t].mine \notin published
  /\ \E s \in {Lowest(FreeSnapshots, 1)}, v \in Contents :
       /\ block' = Allocate(s, v).blocks
       /\ snapshot' = LetGo(Allocate(s, v).snapshots, thread[t].mine)
       /\ thread' = [Freeing(t, thread[t].mine) EXCEPT ![t].mine = s]
  /\ UNCHANGED <<cached, published>>

\* sg_pair_snapshot_clone of the snapshot that an update starts from
CloneBegin(t) ==
  /\ thread[t].at = "ready" /\ thread[t].base # NULL /\ thread[t].mine = NULL
  /\ FreeSnapshots # {}
  /\ \E s \in {Lowest(FreeSnapshots, 1)} :
       /\ snapshot' = [snapshot EXCEPT
            ![s] = [references |-> 1, table |-> [p \in Parts |-> NULL]]]
       /\ thread' = [thread EXCEPT ![t].mine = s, ![t].at = "clone", ![t].part = Topology]
  /\ UNCHANGED <<block, cached, published>>

\* Mutant of RetainedPart: the table is copied with memcpy.
RetainedPartNot(b) == block

\* sg_record_chunk_retain, sg_pair_topology_retain
RetainedPart(b) == [block EXCEPT ![b].references = @ + 1]

ClonePart(t) ==
  LET p == thread[t].part
      b == snapshot[thread[t].base].table[p]
  IN /\ thread[t].at = "clone"
     /\ snapshot' = [snapshot EXCEPT ![thread[t].mine].table[p] = b]
     /\ block' = RetainedPart(b)
     /\ thread' = IF p = ChunkCount
                  THEN [thread EXCEPT ![t].at = "ready", ![t].part = NULL]
                  ELSE [thread EXCEPT ![t].part = p + 1]
     /\ UNCHANGED <<cached, published>>

-----------------------------------------------------------------------------
(* Writing records: sg_snapshot_store_write_records. *)

\* Mutant of Shared: one other snapshot is not enough.
SharedByMany(b) == block[b].references > 2

Shared(b) == block[b].references # 1

\* sg_snapshot_record_mutable reads the counter.
WriteBegin(t) ==
  /\ thread[t].at = "ready" /\ thread[t].mine # NULL /\ thread[t].mine \notin published
  /\ \E p \in Chunks :
       thread' = [thread EXCEPT
                    ![t].at = IF Shared(snapshot[thread[t].mine].table[p]) THEN "copy" ELSE "store",
                    ![t].part = p]
  /\ UNCHANGED <<block, snapshot, cached, published>>

Copied(b) == New(block[b].content)

WriteCopy(t) ==
  LET mine == thread[t].mine
      p == thread[t].part
      b == snapshot[mine].table[p]
  IN /\ thread[t].at = "copy" /\ FreeBlocks # {}
     /\ \E copy \in {Lowest(FreeBlocks, 1)} :
          /\ block' = [block EXCEPT ![copy] = Copied(b)]
          /\ snapshot' = [snapshot EXCEPT ![mine].table[p] = copy]
     /\ thread' = [thread EXCEPT ![t].at = "let go", ![t].old = b]
     /\ UNCHANGED <<cached, published>>

\* The copy cannot be allocated, and the update fails.
WriteFails(t) ==
  /\ thread[t].at = "copy"
  /\ thread' = [thread EXCEPT ![t].at = "ready", ![t].part = NULL]
  /\ UNCHANGED <<block, snapshot, cached, published>>

\* Mutant of ReleasedPart: the last reference is given up and the block kept.
ReleasedPartKept(b) == [block EXCEPT ![b].references = @ - 1]

\* sg_record_chunk_release, sg_pair_topology_release
ReleasedPart(b) ==
  IF block[b].references = 1 THEN [block EXCEPT ![b] = NULL]
  ELSE [block EXCEPT ![b].references = @ - 1]

WriteLetGo(t) ==
  /\ thread[t].at = "let go"
  /\ block' = ReleasedPart(thread[t].old)
  /\ thread' = [thread EXCEPT ![t].at = "store", ![t].old = NULL]
  /\ UNCHANGED <<snapshot, cached, published>>

WriteStore(t) ==
  LET b == snapshot[thread[t].mine].table[thread[t].part]
  IN /\ thread[t].at = "store"
     /\ \E v \in Values \ {block[b].content} : block' = [block EXCEPT ![b].content = v]
     /\ thread' = [thread EXCEPT ![t].at = "ready", ![t].part = NULL]
     /\ UNCHANGED <<snapshot, cached, published>>

-----------------------------------------------------------------------------
(* Sharing and letting go of snapshots. *)

\* Mutant of Retained: the cache lends its own reference.
RetainedNot(s) == snapshot

\* sg_pair_snapshot_retain
Retained(s) == [snapshot EXCEPT ![s].references = @ + 1]

\* sg_snapshot_cache_lookup
Lookup(t) ==
  /\ thread[t].at = "ready" /\ thread[t].base = NULL /\ thread[t].mine = NULL
  /\ \E s \in cached :
       /\ snapshot' = Retained(s)
       /\ thread' = [thread EXCEPT ![t].base = s]
  /\ UNCHANGED <<block, cached, published>>

\* sg_snapshot_cache_insert
Publish(t) ==
  /\ thread[t].at = "ready"
  /\ \E s \in {thread[t].base, thread[t].mine} \ (published \cup {NULL}) :
       /\ snapshot' = Retained(s)
       /\ cached' = cached \cup {s} /\ published' = published \cup {s}
  /\ UNCHANGED <<block, thread>>

\* sg_pair_snapshot_release at the end of a procedure
Leave(t) ==
  /\ thread[t].at = "ready"
  /\ \E has \in {"mine", "base"} :
       LET s == thread[t][has]
       IN /\ s # NULL /\ (has = "base" => thread[t].mine = NULL)
          /\ snapshot' = LetGo(snapshot, s)
          /\ thread' = [Freeing(t, s) EXCEPT ![t][has] = NULL]
          /\ published' = IF Last(s) THEN published \ {s} ELSE published
  /\ UNCHANGED <<block, cached>>

\* The cache replaces or evicts an entry.
Evict(t) ==
  /\ thread[t].at = "ready"
  /\ \E s \in cached :
       /\ cached' = cached \ {s}
       /\ snapshot' = LetGo(snapshot, s)
       /\ thread' = Freeing(t, s)
       /\ published' = IF Last(s) THEN published \ {s} ELSE published
  /\ UNCHANGED block

\* The chunks first, the topology last, then the snapshot itself.
FreePart(t) ==
  LET s == thread[t].freeing
      p == thread[t].part
  IN /\ thread[t].at = "free"
     /\ block' = ReleasedPart(snapshot[s].table[p])
     /\ IF p = Topology
        THEN /\ snapshot' = [snapshot EXCEPT ![s] = NULL]
             /\ thread' = [thread EXCEPT ![t].at = "ready", ![t].freeing = NULL, ![t].part = NULL]
        ELSE /\ snapshot' = [snapshot EXCEPT ![s].table[p] = NULL]
             /\ thread' = [thread EXCEPT ![t].part = (p + 1) % (ChunkCount + 1)]
     /\ UNCHANGED <<cached, published>>

-----------------------------------------------------------------------------
Init ==
  /\ block = [b \in Blocks |-> NULL] /\ snapshot = [s \in Snapshots |-> NULL]
  /\ cached = {} /\ published = {}
  /\ thread = [t \in Threads |-> Idle]

Step(t) ==
  \/ Build(t) \/ Rebuild(t) \/ CloneBegin(t) \/ ClonePart(t)
  \/ WriteBegin(t) \/ WriteCopy(t) \/ WriteFails(t) \/ WriteLetGo(t) \/ WriteStore(t)
  \/ Lookup(t) \/ Publish(t) \/ Leave(t) \/ Evict(t)
  \/ FreePart(t)

Next == \E t \in Threads : Step(t)

Spec == Init /\ [][Next]_vars

-----------------------------------------------------------------------------
(* Properties. *)

Live == {s \in Snapshots : snapshot[s] # NULL}

TypeOK ==
  /\ block \in [Blocks -> BlockRecords \cup {NULL}]
  /\ snapshot \in [Snapshots -> SnapshotRecords \cup {NULL}]
  /\ cached \subseteq Live /\ published \subseteq Live
  /\ thread \in [Threads -> [at : {"ready", "clone", "copy", "let go", "store", "free"},
                             base : Live \cup {NULL}, mine : Live \cup {NULL},
                             part : Parts \cup {NULL}, old : Blocks \cup {NULL},
                             freeing : Live \cup {NULL}]]

\* A block has as many references as tables have it, one more while a writer
\* still has to let go of it: none is freed while somebody reads it, none is
\* left behind when its last snapshot goes, in whatever order two threads
\* clone, write and let go.
BlocksCounted ==
  \A b \in Blocks :
    LET users == Cardinality({u \in Live \X Parts : snapshot[u[1]].table[u[2]] = b})
                 + Cardinality({t \in Threads : thread[t].old = b})
    IN IF block[b] = NULL THEN users = 0 ELSE block[b].references = users

\* A snapshot has as many references as the cache and threads have it.
SnapshotsCounted ==
  \A s \in Live :
    snapshot[s].references =
      Cardinality({t \in Threads : thread[t].base = s})
      + Cardinality({t \in Threads : thread[t].mine = s})
      + IF s \in cached THEN 1 ELSE 0

\* Counters tell the truth about every user, in every order of the threads.
ReferencesCounted == TypeOK /\ BlocksCounted /\ SnapshotsCounted

\* Records are written in place only where no other thread can read them, though
\* the counter was read some time before: a counter that said 1 cannot rise.
WrittenAlone ==
  \A t \in Threads :
    thread[t].at = "store" =>
      LET b == snapshot[thread[t].mine].table[thread[t].part]
      IN /\ block[b] # NULL
         /\ \A s \in Live \ {thread[t].mine} : \A p \in Parts : snapshot[s].table[p] # b

\* Snapshots share storage and yet are the values that SharedSnapshots promises.
Cloning(s) == \E t \in Threads : thread[t].at = "clone" /\ thread[t].mine = s

Value(s) ==
  IF snapshot[s] = NULL \/ Cloning(s) THEN NULL
  ELSE IF snapshot[s].references = 0 THEN NULL
  ELSE [p \in Parts |-> block[snapshot[s].table[p]].content]

Shareable == INSTANCE SharedSnapshots WITH
             Values <- Values \cup {NULL}, Absent <- NULL,
             value <- [s \in Snapshots |-> Value(s)]

ImplementsShared == Shareable!Spec
=============================================================================
