---------------------------- MODULE ChunksProofs ----------------------------
(***************************************************************************)
(* Snapshots that share blocks behave like independent values: theorems of *)
(* SnapshotChunks for any number of threads, snapshots, blocks and chunks. *)
(*                                                                         *)
(* The counters are right because every step that gains or loses a user of *)
(* a block or of a snapshot, in whatever order the threads take theirs,    *)
(* finds the counter as it left it; and a counter that a writer read as 1  *)
(* stays 1, because whoever could take another reference would have to     *)
(* hold the writer's own snapshot.                                         *)
(***************************************************************************)
EXTENDS SnapshotChunks, TLAPS, FiniteSetTheorems, WellFoundedInduction

\* The tables that have a block, and the writers that still let go of it.
Uses(b) == {u \in Live \X Parts : snapshot[u[1]].table[u[2]] = b}
Owes(b) == {t \in Threads : thread[t].old = b}

Cloned(s) == \E t \in Threads : thread[t].at = "clone" /\ thread[t].mine = s
Freed(s) == \E t \in Threads : thread[t].freeing = s

\* A snapshot that was never shared has one holder.
HeldAlone ==
  \A s \in Snapshots \ published : \A t, u \in Threads :
    /\ thread[t].base = s /\ thread[u].base = s => t = u
    /\ thread[t].mine = s /\ thread[u].mine = s => t = u
    /\ ~(thread[t].base = s /\ thread[u].mine = s)

\* A snapshot without references is being freed, by one thread, and out of reach.
FreedAlone ==
  /\ \A s \in Live : snapshot[s].references = 0 <=> Freed(s)
  /\ \A t, u \in Threads :
       thread[t].freeing # NULL /\ thread[t].freeing = thread[u].freeing => t = u
  /\ \A t \in Threads : thread[t].freeing \notin published

TablesFull ==
  \A s \in Live : ~Cloned(s) /\ ~Freed(s) => \A p \in Parts : snapshot[s].table[p] # NULL

CloneSound(t) ==
  LET me == thread[t]
  IN /\ me.base # NULL /\ me.mine # NULL /\ me.mine \notin published /\ me.part \in Parts
     /\ \A p \in Parts : snapshot[me.mine].table[p] =
                           IF p < me.part THEN snapshot[me.base].table[p] ELSE NULL

WriteSound(t) ==
  LET me == thread[t]
  IN /\ me.mine # NULL /\ me.mine \notin published /\ me.part \in Chunks
     /\ me.at \in {"let go", "store"} =>
          LET b == snapshot[me.mine].table[me.part]
          IN block[b] # NULL /\ block[b].references = 1

\* The chunks before the one it is at are gone; the topology is the last.
FreeSound(t) ==
  LET me == thread[t]
      gone(p) == p # Topology /\ (me.part = Topology \/ p < me.part)
  IN /\ me.part \in Parts
     /\ \A p \in Parts : snapshot[me.freeing].table[p] = NULL <=> gone(p)

ThreadSound(t) ==
  /\ thread[t].at = "clone" => CloneSound(t)
  /\ thread[t].at \in {"copy", "let go", "store"} => WriteSound(t)
  /\ thread[t].at = "free" => FreeSound(t)
  /\ thread[t].at = "free" <=> thread[t].freeing # NULL
  /\ thread[t].at = "let go" <=> thread[t].old # NULL

ChunkInv ==
  /\ ReferencesCounted
  /\ cached \subseteq published
  /\ HeldAlone /\ FreedAlone /\ TablesFull
  /\ \A t \in Threads : ThreadSound(t)

-----------------------------------------------------------------------------
(* Types, and what a step of one thread leaves alone. *)

Places == {"ready", "clone", "copy", "let go", "store", "free"}

ThreadRecords ==
  [at : Places, base : Snapshots \cup {NULL}, mine : Snapshots \cup {NULL},
   part : Parts \cup {NULL}, old : Blocks \cup {NULL}, freeing : Snapshots \cup {NULL}]

Types ==
  /\ block \in [Blocks -> BlockRecords \cup {NULL}]
  /\ snapshot \in [Snapshots -> SnapshotRecords \cup {NULL}]
  /\ cached \subseteq Snapshots /\ published \subseteq Snapshots
  /\ thread \in [Threads -> ThreadRecords]

\* Nobody has a snapshot that is not there.
HeldLive ==
  /\ cached \subseteq Live /\ published \subseteq Live
  /\ \A t \in Threads :
       /\ thread[t].base # NULL => thread[t].base \in Live
       /\ thread[t].mine # NULL => thread[t].mine \in Live
       /\ thread[t].freeing # NULL => thread[t].freeing \in Live

LEMMA Nulls ==
  /\ NULL \notin Snapshots /\ NULL \notin Blocks /\ NULL \notin Parts /\ NULL \notin Nat
  /\ NULL \notin BlockRecords /\ NULL \notin SnapshotRecords
  /\ NULL \notin [Parts -> Values \cup {NULL}]
  /\ Chunks \subseteq Parts /\ Topology \in Parts /\ Topology \notin Chunks
  /\ Parts = 0 .. ChunkCount /\ Parts \subseteq Nat /\ ChunkCount \in Parts
<1>1. ChunkCount \in Nat \ {0} /\ Snapshots \subseteq Nat /\ Blocks \subseteq Nat
      /\ NULL \notin Nat /\ NULL \notin BlockRecords /\ NULL \notin SnapshotRecords
      /\ NULL \notin [Parts -> Values \cup {NULL}]
  BY ChunkAssumption
<1>2. Parts = 0 .. ChunkCount /\ Chunks = 1 .. ChunkCount /\ Topology = 0
  BY <1>1 DEF Parts, Chunks, Topology
<1>3. Parts \subseteq Nat /\ ChunkCount \in Parts /\ Topology \in Parts
      /\ Chunks \subseteq Parts /\ Topology \notin Chunks
  BY <1>1, <1>2
<1>4. NULL \notin Snapshots /\ NULL \notin Blocks /\ NULL \notin Parts
  BY <1>1, <1>3
<1>. QED
  BY <1>1, <1>2, <1>3, <1>4

LEMMA TypesSplit == TypeOK <=> Types /\ HeldLive
<1>1. ASSUME TypeOK PROVE Types /\ HeldLive
  <2>1. \A t \in Threads : thread[t] \in ThreadRecords
    BY <1>1 DEF TypeOK, ThreadRecords, Places, Live
  <2>2. Types
    BY <1>1, <2>1 DEF TypeOK, Types, Live
  <2>3. HeldLive
    BY <1>1 DEF TypeOK, HeldLive
  <2>. QED
    BY <2>2, <2>3
<1>2. ASSUME Types, HeldLive PROVE TypeOK
  <2>1. \A t \in Threads :
          thread[t] \in [at : Places, base : Live \cup {NULL}, mine : Live \cup {NULL},
                         part : Parts \cup {NULL}, old : Blocks \cup {NULL},
                         freeing : Live \cup {NULL}]
    BY <1>2 DEF Types, HeldLive, ThreadRecords
  <2>. QED
    BY <1>2, <2>1 DEF TypeOK, Types, HeldLive, Places
<1>. QED
  BY <1>1, <1>2

-----------------------------------------------------------------------------
(* What an allocation returns. *)

\* As many addresses are below the n-th lowest as there should be.
LEMMA LowestSound ==
  ASSUME NEW S \in SUBSET Nat, IsFiniteSet(S), NEW n \in Nat \ {0}, n <= Cardinality(S)
  PROVE  Lowest(S, n) \in S /\ Cardinality({b \in S : b < Lowest(S, n)}) = n - 1
<1> DEFINE below(a) == {b \in S : b < a}
           f == [a \in S |-> Cardinality(below(a))]
           size == Cardinality(S)
<1>1. size \in Nat
  BY FS_CardinalityType
<1>2. ASSUME NEW a \in S PROVE IsFiniteSet(below(a)) /\ f[a] \in 0 .. (size - 1)
  <2>1. below(a) \in SUBSET (S \ {a})
    OBVIOUS
  <2>2. IsFiniteSet(S \ {a}) /\ Cardinality(S \ {a}) = size - 1
    BY FS_RemoveElement
  <2>3. IsFiniteSet(below(a)) /\ Cardinality(below(a)) <= size - 1
    BY <2>1, <2>2, FS_Subset
  <2>4. Cardinality(below(a)) \in Nat
    BY <2>3, FS_CardinalityType
  <2>. QED
    BY <1>1, <2>3, <2>4
<1>3. ASSUME NEW a \in S, NEW c \in S, a < c PROVE f[a] # f[c]
  <2>1. below(a) \in SUBSET below(c) /\ a \in below(c) /\ a \notin below(a)
    <3>1. \A b \in S : b \in Nat /\ (b < a => b < c)
      BY <1>3
    <3>2. ~(a < a)
      OBVIOUS
    <3>. QED
      BY <1>3, <3>1, <3>2
  <2>2. IsFiniteSet(below(c))
    BY <1>2
  <2>3. Cardinality(below(c)) = Cardinality(below(a)) => below(c) = below(a)
    BY <2>1, <2>2, FS_Subset
  <2>. QED
    BY <2>1, <2>3
<1>4. f \in Injection(S, 0 .. (size - 1))
  <2>1. f \in [S -> 0 .. (size - 1)]
    BY <1>2
  <2>2. \A a, c \in S : f[a] = f[c] => a = c
    BY <1>3
  <2>. QED
    BY <2>1, <2>2 DEF Injection, IsInjective
<1>5. IsFiniteSet(0 .. (size - 1)) /\ Cardinality(0 .. (size - 1)) = size
  <2>1. 0 \in Int /\ size - 1 \in Int
    BY <1>1
  <2>. QED
    BY <1>1, <2>1, FS_Interval
<1>6. f \in Surjection(S, 0 .. (size - 1))
  BY <1>4, <1>5, FS_Injection
<1>7. n - 1 \in 0 .. (size - 1)
  BY <1>1
<1>8. \E a \in S : f[a] = n - 1
  BY <1>6, <1>7 DEF Surjection
<1>9. \E a \in S : Cardinality({b \in S : b < a}) = n - 1
  BY <1>8
<1>. QED
  BY <1>9 DEF Lowest

LEMMA LowestOne ==
  ASSUME NEW S \in SUBSET Nat, IsFiniteSet(S), S # {}
  PROVE  Lowest(S, 1) \in S
<1>1. Cardinality(S) \in Nat /\ Cardinality(S) # 0
  BY FS_CardinalityType, FS_EmptySet
<1>2. 1 \in Nat \ {0} /\ 1 <= Cardinality(S)
  BY <1>1
<1>. QED
  BY <1>2, LowestSound

LEMMA FreeOnes ==
  /\ FreeBlocks \in SUBSET Nat /\ IsFiniteSet(FreeBlocks)
  /\ FreeSnapshots \in SUBSET Nat /\ IsFiniteSet(FreeSnapshots)
  /\ FreeBlocks # {} => Lowest(FreeBlocks, 1) \in FreeBlocks
  /\ FreeSnapshots # {} => Lowest(FreeSnapshots, 1) \in FreeSnapshots
<1>1. FreeBlocks \in SUBSET Blocks /\ FreeSnapshots \in SUBSET Snapshots
  BY DEF FreeBlocks, FreeSnapshots
<1>2. IsFiniteSet(FreeBlocks) /\ IsFiniteSet(FreeSnapshots)
  BY <1>1, ChunkAssumption, FS_Subset
<1>3. FreeBlocks \in SUBSET Nat /\ FreeSnapshots \in SUBSET Nat
  BY <1>1, ChunkAssumption
<1>. QED
  BY <1>2, <1>3, LowestOne

-----------------------------------------------------------------------------
(* Counting. *)

\* Threads that have a snapshot.
BaseOf(s) == {t \in Threads : thread[t].base = s}
MineOf(s) == {t \in Threads : thread[t].mine = s}

LEMMA Counts ==
  /\ \A b : IsFiniteSet(Uses(b)) /\ Cardinality(Uses(b)) \in Nat
  /\ \A b : IsFiniteSet(Owes(b)) /\ Cardinality(Owes(b)) \in Nat
  /\ \A s : IsFiniteSet(BaseOf(s)) /\ Cardinality(BaseOf(s)) \in Nat
  /\ \A s : IsFiniteSet(MineOf(s)) /\ Cardinality(MineOf(s)) \in Nat
<1>1. IsFiniteSet(Live) /\ IsFiniteSet(Parts) /\ IsFiniteSet(Threads)
  <2>1. Live \in SUBSET Snapshots
    BY DEF Live
  <2>2. ChunkCount \in Int /\ 0 \in Int
    BY ChunkAssumption
  <2>. QED
    BY <2>1, <2>2, Nulls, ChunkAssumption, FS_Subset, FS_Interval
<1>2. IsFiniteSet(Live \X Parts)
  BY <1>1, FS_Product
<1>3. \A b : Uses(b) \in SUBSET (Live \X Parts) /\ Owes(b) \in SUBSET Threads
  BY DEF Uses, Owes
<1>4. \A s : BaseOf(s) \in SUBSET Threads /\ MineOf(s) \in SUBSET Threads
  BY DEF BaseOf, MineOf
<1>. QED
  BY <1>1, <1>2, <1>3, <1>4, FS_Subset, FS_CardinalityType

LEMMA CountsNext ==
  (/\ \A b : IsFiniteSet(Uses(b)) /\ Cardinality(Uses(b)) \in Nat
   /\ \A b : IsFiniteSet(Owes(b)) /\ Cardinality(Owes(b)) \in Nat
   /\ \A s : IsFiniteSet(BaseOf(s)) /\ Cardinality(BaseOf(s)) \in Nat
   /\ \A s : IsFiniteSet(MineOf(s)) /\ Cardinality(MineOf(s)) \in Nat)'
BY Counts, PTL

\* A set that gains or loses a member counts one more or one less.
LEMMA CountAdd ==
  ASSUME NEW S, IsFiniteSet(S), NEW x, x \notin S
  PROVE  IsFiniteSet(S \cup {x}) /\ Cardinality(S \cup {x}) = Cardinality(S) + 1
BY FS_AddElement

LEMMA CountRemove ==
  ASSUME NEW S, IsFiniteSet(S), NEW x \in S
  PROVE  IsFiniteSet(S \ {x}) /\ Cardinality(S \ {x}) = Cardinality(S) - 1
BY FS_RemoveElement

LEMMA CountZero ==
  ASSUME NEW S, IsFiniteSet(S)
  PROVE  Cardinality(S) = 0 <=> S = {}
BY FS_EmptySet

LEMMA CountOne ==
  ASSUME NEW S, IsFiniteSet(S), Cardinality(S) = 1, NEW x \in S
  PROVE  S = {x}
BY FS_Singleton

LEMMA OnlyOne ==
  ASSUME NEW m \in Nat, NEW n \in Nat, m + n = 1, m # 0
  PROVE  m = 1 /\ n = 0
OBVIOUS

BlockCounted(b) ==
  LET users == Cardinality(Uses(b)) + Cardinality(Owes(b))
  IN IF block[b] = NULL THEN users = 0 ELSE block[b].references = users

SnapshotCounted(s) ==
  snapshot[s].references =
    Cardinality(BaseOf(s)) + Cardinality(MineOf(s)) + IF s \in cached THEN 1 ELSE 0

LEMMA CountsSplit ==
  /\ BlocksCounted <=> \A b \in Blocks : BlockCounted(b)
  /\ SnapshotsCounted <=> \A s \in Live : SnapshotCounted(s)
BY DEF BlocksCounted, BlockCounted, Uses, Owes, SnapshotsCounted, SnapshotCounted, BaseOf, MineOf

LEMMA InvSplit ==
  ChunkInv <=>
    /\ Types /\ HeldLive
    /\ \A b \in Blocks : BlockCounted(b)
    /\ \A s \in Live : SnapshotCounted(s)
    /\ cached \subseteq published
    /\ HeldAlone /\ FreedAlone /\ TablesFull
    /\ \A t \in Threads : ThreadSound(t)
BY TypesSplit, CountsSplit DEF ChunkInv, ReferencesCounted

LEMMA InvSplitNext ==
  ChunkInv' <=>
    (/\ Types /\ HeldLive
     /\ \A b \in Blocks : BlockCounted(b)
     /\ \A s \in Live : SnapshotCounted(s)
     /\ cached \subseteq published
     /\ HeldAlone /\ FreedAlone /\ TablesFull
     /\ \A t \in Threads : ThreadSound(t))'
BY InvSplit, PTL

-----------------------------------------------------------------------------
(* What a step does to the thread that takes it. *)

Others(t) == \A u \in Threads \ {t} : thread'[u] = thread[u]

\* f is thread, but for what it says of t.
Says(f, t, at, base, mine, part, old, freeing) ==
  /\ f \in [Threads -> ThreadRecords] /\ \A u \in Threads \ {t} : f[u] = thread[u]
  /\ f[t].at = at /\ f[t].part = part
  /\ f[t].base = base /\ f[t].mine = mine
  /\ f[t].old = old /\ f[t].freeing = freeing

LEMMA SetAt ==
  ASSUME NEW t \in Threads, NEW f, NEW at, NEW base, NEW mine, NEW part, NEW old, NEW freeing,
         Says(f, t, at, base, mine, part, old, freeing), NEW x \in Places
  PROVE  Says([f EXCEPT ![t].at = x], t, x, base, mine, part, old, freeing)
<1>1. PICK new : new = [f[t] EXCEPT !.at = x]
  OBVIOUS
<1>2. f \in [Threads -> ThreadRecords] /\ f[t] \in ThreadRecords
  BY DEF Says
<1>3. new \in ThreadRecords
  BY <1>1, <1>2 DEF ThreadRecords
<1>4. PICK g : g = [f EXCEPT ![t].at = x]
  OBVIOUS
<1>5. g = [f EXCEPT ![t] = new]
  BY <1>1, <1>2, <1>4
<1>6. g \in [Threads -> ThreadRecords] /\ g[t] = new /\ \A u \in Threads \ {t} : g[u] = f[u]
  BY <1>2, <1>3, <1>5
<1>7. /\ new.at = x
      /\ new.base = f[t].base
      /\ new.mine = f[t].mine
      /\ new.part = f[t].part
      /\ new.old = f[t].old
      /\ new.freeing = f[t].freeing
  BY <1>1, <1>2 DEF ThreadRecords
<1>8. Says(g, t, x, base, mine, part, old, freeing)
  BY <1>6, <1>7 DEF Says
<1>. QED
  BY <1>4, <1>8

LEMMA SetBase ==
  ASSUME NEW t \in Threads, NEW f, NEW at, NEW base, NEW mine, NEW part, NEW old, NEW freeing,
         Says(f, t, at, base, mine, part, old, freeing), NEW x \in Snapshots \cup {NULL}
  PROVE  Says([f EXCEPT ![t].base = x], t, at, x, mine, part, old, freeing)
<1>1. PICK new : new = [f[t] EXCEPT !.base = x]
  OBVIOUS
<1>2. f \in [Threads -> ThreadRecords] /\ f[t] \in ThreadRecords
  BY DEF Says
<1>3. new \in ThreadRecords
  BY <1>1, <1>2 DEF ThreadRecords
<1>4. PICK g : g = [f EXCEPT ![t].base = x]
  OBVIOUS
<1>5. g = [f EXCEPT ![t] = new]
  BY <1>1, <1>2, <1>4
<1>6. g \in [Threads -> ThreadRecords] /\ g[t] = new /\ \A u \in Threads \ {t} : g[u] = f[u]
  BY <1>2, <1>3, <1>5
<1>7. /\ new.base = x
      /\ new.at = f[t].at
      /\ new.mine = f[t].mine
      /\ new.part = f[t].part
      /\ new.old = f[t].old
      /\ new.freeing = f[t].freeing
  BY <1>1, <1>2 DEF ThreadRecords
<1>8. Says(g, t, at, x, mine, part, old, freeing)
  BY <1>6, <1>7 DEF Says
<1>. QED
  BY <1>4, <1>8

LEMMA SetMine ==
  ASSUME NEW t \in Threads, NEW f, NEW at, NEW base, NEW mine, NEW part, NEW old, NEW freeing,
         Says(f, t, at, base, mine, part, old, freeing), NEW x \in Snapshots \cup {NULL}
  PROVE  Says([f EXCEPT ![t].mine = x], t, at, base, x, part, old, freeing)
<1>1. PICK new : new = [f[t] EXCEPT !.mine = x]
  OBVIOUS
<1>2. f \in [Threads -> ThreadRecords] /\ f[t] \in ThreadRecords
  BY DEF Says
<1>3. new \in ThreadRecords
  BY <1>1, <1>2 DEF ThreadRecords
<1>4. PICK g : g = [f EXCEPT ![t].mine = x]
  OBVIOUS
<1>5. g = [f EXCEPT ![t] = new]
  BY <1>1, <1>2, <1>4
<1>6. g \in [Threads -> ThreadRecords] /\ g[t] = new /\ \A u \in Threads \ {t} : g[u] = f[u]
  BY <1>2, <1>3, <1>5
<1>7. /\ new.mine = x
      /\ new.at = f[t].at
      /\ new.base = f[t].base
      /\ new.part = f[t].part
      /\ new.old = f[t].old
      /\ new.freeing = f[t].freeing
  BY <1>1, <1>2 DEF ThreadRecords
<1>8. Says(g, t, at, base, x, part, old, freeing)
  BY <1>6, <1>7 DEF Says
<1>. QED
  BY <1>4, <1>8

LEMMA SetPart ==
  ASSUME NEW t \in Threads, NEW f, NEW at, NEW base, NEW mine, NEW part, NEW old, NEW freeing,
         Says(f, t, at, base, mine, part, old, freeing), NEW x \in Parts \cup {NULL}
  PROVE  Says([f EXCEPT ![t].part = x], t, at, base, mine, x, old, freeing)
<1>1. PICK new : new = [f[t] EXCEPT !.part = x]
  OBVIOUS
<1>2. f \in [Threads -> ThreadRecords] /\ f[t] \in ThreadRecords
  BY DEF Says
<1>3. new \in ThreadRecords
  BY <1>1, <1>2 DEF ThreadRecords
<1>4. PICK g : g = [f EXCEPT ![t].part = x]
  OBVIOUS
<1>5. g = [f EXCEPT ![t] = new]
  BY <1>1, <1>2, <1>4
<1>6. g \in [Threads -> ThreadRecords] /\ g[t] = new /\ \A u \in Threads \ {t} : g[u] = f[u]
  BY <1>2, <1>3, <1>5
<1>7. /\ new.part = x
      /\ new.at = f[t].at
      /\ new.base = f[t].base
      /\ new.mine = f[t].mine
      /\ new.old = f[t].old
      /\ new.freeing = f[t].freeing
  BY <1>1, <1>2 DEF ThreadRecords
<1>8. Says(g, t, at, base, mine, x, old, freeing)
  BY <1>6, <1>7 DEF Says
<1>. QED
  BY <1>4, <1>8

LEMMA SetOld ==
  ASSUME NEW t \in Threads, NEW f, NEW at, NEW base, NEW mine, NEW part, NEW old, NEW freeing,
         Says(f, t, at, base, mine, part, old, freeing), NEW x \in Blocks \cup {NULL}
  PROVE  Says([f EXCEPT ![t].old = x], t, at, base, mine, part, x, freeing)
<1>1. PICK new : new = [f[t] EXCEPT !.old = x]
  OBVIOUS
<1>2. f \in [Threads -> ThreadRecords] /\ f[t] \in ThreadRecords
  BY DEF Says
<1>3. new \in ThreadRecords
  BY <1>1, <1>2 DEF ThreadRecords
<1>4. PICK g : g = [f EXCEPT ![t].old = x]
  OBVIOUS
<1>5. g = [f EXCEPT ![t] = new]
  BY <1>1, <1>2, <1>4
<1>6. g \in [Threads -> ThreadRecords] /\ g[t] = new /\ \A u \in Threads \ {t} : g[u] = f[u]
  BY <1>2, <1>3, <1>5
<1>7. /\ new.old = x
      /\ new.at = f[t].at
      /\ new.base = f[t].base
      /\ new.mine = f[t].mine
      /\ new.part = f[t].part
      /\ new.freeing = f[t].freeing
  BY <1>1, <1>2 DEF ThreadRecords
<1>8. Says(g, t, at, base, mine, part, x, freeing)
  BY <1>6, <1>7 DEF Says
<1>. QED
  BY <1>4, <1>8

LEMMA SetFreeing ==
  ASSUME NEW t \in Threads, NEW f, NEW at, NEW base, NEW mine, NEW part, NEW old, NEW freeing,
         Says(f, t, at, base, mine, part, old, freeing), NEW x \in Snapshots \cup {NULL}
  PROVE  Says([f EXCEPT ![t].freeing = x], t, at, base, mine, part, old, x)
<1>1. PICK new : new = [f[t] EXCEPT !.freeing = x]
  OBVIOUS
<1>2. f \in [Threads -> ThreadRecords] /\ f[t] \in ThreadRecords
  BY DEF Says
<1>3. new \in ThreadRecords
  BY <1>1, <1>2 DEF ThreadRecords
<1>4. PICK g : g = [f EXCEPT ![t].freeing = x]
  OBVIOUS
<1>5. g = [f EXCEPT ![t] = new]
  BY <1>1, <1>2, <1>4
<1>6. g \in [Threads -> ThreadRecords] /\ g[t] = new /\ \A u \in Threads \ {t} : g[u] = f[u]
  BY <1>2, <1>3, <1>5
<1>7. /\ new.freeing = x
      /\ new.at = f[t].at
      /\ new.base = f[t].base
      /\ new.mine = f[t].mine
      /\ new.part = f[t].part
      /\ new.old = f[t].old
  BY <1>1, <1>2 DEF ThreadRecords
<1>8. Says(g, t, at, base, mine, part, old, x)
  BY <1>6, <1>7 DEF Says
<1>. QED
  BY <1>4, <1>8

\* Where t is, as a place to start from.
LEMMA SaysItself ==
  ASSUME Types, NEW t \in Threads
  PROVE  Says(thread, t, thread[t].at, thread[t].base, thread[t].mine,
              thread[t].part, thread[t].old, thread[t].freeing)
BY DEF Types, Says

LEMMA MovesTo ==
  ASSUME Types, NEW t \in Threads, NEW at \in Places, NEW part \in Parts \cup {NULL},
         thread' = [thread EXCEPT ![t].at = at, ![t].part = part]
  PROVE  Says(thread', t, at, thread[t].base, thread[t].mine, part,
              thread[t].old, thread[t].freeing)
<1>1. PICK f : f = [thread EXCEPT ![t].at = at]
  OBVIOUS
<1>2. Says(f, t, at, thread[t].base, thread[t].mine, thread[t].part,
              thread[t].old, thread[t].freeing)
  BY <1>1, SaysItself, SetAt
<1>3. thread' = [f EXCEPT ![t].part = part]
  BY <1>1
<1>4. Says([f EXCEPT ![t].part = part], t, at, thread[t].base, thread[t].mine, part,
              thread[t].old, thread[t].freeing)
  BY <1>2, SetPart
<1>. QED
  BY <1>3, <1>4

-----------------------------------------------------------------------------
(* What the invariant says of a snapshot that somebody has. *)

Table(s) == snapshot[s].table

LEMMA TableType ==
  ASSUME Types, NEW s \in Live
  PROVE  /\ s \in Snapshots /\ s # NULL /\ snapshot[s] \in SnapshotRecords
         /\ snapshot[s].references \in Nat
         /\ Table(s) \in [Parts -> Blocks \cup {NULL}]
BY Nulls DEF Types, Live, SnapshotRecords, Table

LEMMA ThreadType ==
  ASSUME Types, HeldLive, NEW t \in Threads
  PROVE  /\ thread[t] \in ThreadRecords
         /\ thread[t].at \in Places /\ thread[t].part \in Parts \cup {NULL}
         /\ thread[t].old \in Blocks \cup {NULL}
         /\ thread[t].base \in Live \cup {NULL} /\ thread[t].mine \in Live \cup {NULL}
         /\ thread[t].freeing \in Live \cup {NULL}
BY DEF Types, HeldLive, ThreadRecords

LEMMA BlockType ==
  ASSUME Types, NEW b \in Blocks, block[b] # NULL
  PROVE  block[b] \in BlockRecords /\ block[b].references \in Nat \ {0}
BY DEF Types, BlockRecords

\* A table points to blocks that are there.
LEMMA TableBlock ==
  ASSUME ChunkInv, NEW s \in Live, NEW p \in Parts, Table(s)[p] # NULL
  PROVE  /\ Table(s)[p] \in Blocks /\ block[Table(s)[p]] # NULL
         /\ block[Table(s)[p]].references \in Nat \ {0}
         /\ <<s, p>> \in Uses(Table(s)[p])
<1>1. Types /\ \A c \in Blocks : BlockCounted(c)
  BY InvSplit
<1>2. PICK b : b = Table(s)[p]
  OBVIOUS
<1>3. b \in Blocks
  BY <1>1, <1>2, TableType
<1>4. <<s, p>> \in Uses(b)
  BY <1>2 DEF Uses, Table
<1>5. Cardinality(Uses(b)) # 0 /\ Cardinality(Uses(b)) \in Nat /\ Cardinality(Owes(b)) \in Nat
  BY <1>4, Counts, CountZero
<1>6. block[b] # NULL
  BY <1>1, <1>3, <1>5 DEF BlockCounted
<1>. QED
  BY <1>1, <1>2, <1>3, <1>4, <1>6, BlockType

\* Who is in somebody's hands or in the cache is not being freed.
LEMMA HeldNotFreed ==
  ASSUME ChunkInv, NEW s \in Live,
         s \in cached \/ \E t \in Threads : thread[t].base = s \/ thread[t].mine = s
  PROVE  snapshot[s].references \in Nat \ {0} /\ ~Freed(s)
<1>1. Types /\ SnapshotCounted(s) /\ FreedAlone
  BY InvSplit
<1>2. /\ BaseOf(s) # {} => Cardinality(BaseOf(s)) # 0
      /\ MineOf(s) # {} => Cardinality(MineOf(s)) # 0
      /\ Cardinality(BaseOf(s)) \in Nat /\ Cardinality(MineOf(s)) \in Nat
  BY Counts, CountZero
<1>3. s \in cached \/ BaseOf(s) # {} \/ MineOf(s) # {}
  BY DEF BaseOf, MineOf
<1>4. snapshot[s].references \in Nat /\ snapshot[s].references # 0
  BY <1>1, <1>2, <1>3, TableType DEF SnapshotCounted
<1>. QED
  BY <1>1, <1>4 DEF FreedAlone

\* Nobody has what is not there, or what nobody has a reference to.
LEMMA NobodyHas ==
  ASSUME ChunkInv, NEW s \in Snapshots, s \notin Live \/ snapshot[s].references = 0
  PROVE  /\ s \notin cached /\ BaseOf(s) = {} /\ MineOf(s) = {}
         /\ \A t \in Threads : thread[t].base # s /\ thread[t].mine # s
<1>1. HeldLive /\ Types
  BY InvSplit
<1>2. s # NULL
  BY Nulls
<1>3. CASE s \notin Live
  BY <1>1, <1>2, <1>3 DEF HeldLive, BaseOf, MineOf
<1>4. CASE s \in Live
  BY <1>4, HeldNotFreed DEF BaseOf, MineOf
<1>. QED
  BY <1>3, <1>4

\* A writer's own snapshot is full, and nobody else's.
LEMMA MineFull ==
  ASSUME ChunkInv, NEW t \in Threads, thread[t].mine # NULL, thread[t].mine \notin published,
         thread[t].at # "clone"
  PROVE  \A p \in Parts :
           LET b == Table(thread[t].mine)[p]
           IN b \in Blocks /\ block[b] # NULL /\ block[b].references \in Nat \ {0}
<1>1. Types /\ HeldLive /\ HeldAlone /\ TablesFull
  BY InvSplit
<1>2. PICK s : s = thread[t].mine
  OBVIOUS
<1>3. s \in Live /\ s \in Snapshots
  BY <1>1, <1>2, ThreadType DEF Live
<1>4. ~Freed(s)
  BY <1>2, <1>3, HeldNotFreed
<1>5. ~Cloned(s)
  BY <1>1, <1>2, <1>3 DEF Cloned, HeldAlone
<1>6. \A p \in Parts : Table(s)[p] # NULL
  BY <1>1, <1>3, <1>4, <1>5 DEF TablesFull, Table
<1>. QED
  BY <1>2, <1>3, <1>6, TableBlock

LEMMA NoneElse ==
  ASSUME ChunkInv, NEW t \in Threads, thread[t].mine # NULL, thread[t].mine \notin published,
         NEW u \in Threads
  PROVE  /\ thread[u].base # thread[t].mine /\ thread[u].freeing # thread[t].mine
         /\ u # t => thread[u].mine # thread[t].mine
<1>1. Types /\ HeldLive /\ HeldAlone
  BY InvSplit
<1>2. thread[t].mine \in Live /\ thread[t].mine \in Snapshots
  BY <1>1, ThreadType DEF Live
<1>3. ~Freed(thread[t].mine)
  BY <1>2, HeldNotFreed
<1>. QED
  BY <1>1, <1>2, <1>3 DEF HeldAlone, Freed

-----------------------------------------------------------------------------
(* What a step leaves as it was. *)

LEMMA SameHolders ==
  ASSUME NEW t \in Threads, Others(t)
  PROVE  /\ thread'[t].base = thread[t].base => \A s : BaseOf(s)' = BaseOf(s)
         /\ thread'[t].mine = thread[t].mine => \A s : MineOf(s)' = MineOf(s)
         /\ thread'[t].old = thread[t].old => \A b : Owes(b)' = Owes(b)
         /\ thread'[t].freeing = thread[t].freeing => \A s : Freed(s)' <=> Freed(s)
         /\ thread'[t].at # "clone" /\ thread[t].at # "clone" => \A s : Cloned(s)' <=> Cloned(s)
<1>1. \A u \in Threads : u # t => thread'[u] = thread[u]
  BY DEF Others
<1>. QED
  BY <1>1 DEF BaseOf, MineOf, Owes, Freed, Cloned

LEMMA SameUses ==
  ASSUME Live' = Live, \A s \in Live : Table(s)' = Table(s)
  PROVE  \A b : Uses(b)' = Uses(b)
BY DEF Uses, Table

LEMMA SameBlock ==
  ASSUME NEW b \in Blocks, BlockCounted(b), Uses(b)' = Uses(b), Owes(b)' = Owes(b),
         block'[b] = NULL <=> block[b] = NULL,
         block[b] # NULL => block'[b].references = block[b].references
  PROVE  BlockCounted(b)'
BY DEF BlockCounted

LEMMA SameSnapshot ==
  ASSUME NEW s \in Snapshots, SnapshotCounted(s), BaseOf(s)' = BaseOf(s), MineOf(s)' = MineOf(s),
         s \in cached <=> s \in cached', snapshot'[s].references = snapshot[s].references
  PROVE  SnapshotCounted(s)'
BY DEF SnapshotCounted

\* A thread that takes no step goes on as it can if what it works on stays.
LEMMA OtherSound ==
  ASSUME Types, NEW u \in Threads, ThreadSound(u), thread'[u] = thread[u],
         \A s \in {thread[u].base, thread[u].mine, thread[u].freeing} :
           s # NULL => Table(s)' = Table(s),
         thread[u].mine # NULL /\ thread[u].mine \notin published
           => thread[u].mine \notin published',
         thread[u].at \in {"let go", "store"} =>
           LET b == Table(thread[u].mine)[thread[u].part]
           IN block'[b] # NULL /\ block'[b].references = 1
  PROVE  ThreadSound(u)'
<1>1. thread[u].at = "clone" => CloneSound(u)'
  BY Nulls DEF ThreadSound, CloneSound, Table
<1>2. thread[u].at \in {"copy", "let go", "store"} => WriteSound(u)'
  BY DEF ThreadSound, WriteSound, Table
<1>3. thread[u].at = "free" => FreeSound(u)'
  BY DEF ThreadSound, FreeSound, Table
<1>. QED
  BY <1>1, <1>2, <1>3 DEF ThreadSound

\* The block that a writer has to itself: one table points to it, and nobody owes it.
LEMMA WriterAlone ==
  ASSUME ChunkInv, NEW u \in Threads, thread[u].at \in {"let go", "store"}
  PROVE  LET b == Table(thread[u].mine)[thread[u].part]
         IN /\ b \in Blocks /\ block[b] # NULL /\ block[b].references = 1
            /\ Uses(b) = {<<thread[u].mine, thread[u].part>>} /\ Owes(b) = {}
<1>1. Types /\ HeldLive /\ WriteSound(u) /\ \A c \in Blocks : BlockCounted(c)
  BY InvSplit DEF ThreadSound
<1>2. thread[u].mine # NULL /\ thread[u].mine \notin published /\ thread[u].part \in Parts
  BY <1>1, Nulls DEF WriteSound
<1>3. thread[u].mine \in Live
  BY <1>1, <1>2, ThreadType
<1>4. PICK b : b = Table(thread[u].mine)[thread[u].part]
  OBVIOUS
<1>5. block[b] # NULL /\ block[b].references = 1
  BY <1>1, <1>4 DEF WriteSound, Table
<1>6. b \in Blocks
  BY <1>2, <1>4, MineFull
<1>7. <<thread[u].mine, thread[u].part>> \in Uses(b)
  BY <1>2, <1>3, <1>4 DEF Uses, Table
<1>8. Cardinality(Uses(b)) + Cardinality(Owes(b)) = 1
  BY <1>1, <1>5, <1>6 DEF BlockCounted
<1>9. Cardinality(Uses(b)) # 0
  BY <1>7, Counts, CountZero
<1>10. Cardinality(Uses(b)) = 1 /\ Cardinality(Owes(b)) = 0
  <2>1. Cardinality(Uses(b)) \in Nat /\ Cardinality(Owes(b)) \in Nat
    BY Counts
  <2>. QED
    BY <1>8, <1>9, <2>1, OnlyOne
<1>11. Uses(b) = {<<thread[u].mine, thread[u].part>>}
  BY <1>7, <1>10, Counts, CountOne
<1>12. Owes(b) = {}
  BY <1>10, Counts, CountZero
<1>. QED
  BY <1>4, <1>5, <1>6, <1>11, <1>12

\* Another thread's block is safe from a step that touches what t uses or owes.
LEMMA WriterSafe ==
  ASSUME ChunkInv, NEW t \in Threads, NEW u \in Threads, u # t,
         thread[u].at \in {"let go", "store"}, NEW b \in Blocks,
         \/ thread[t].old = b
         \/ \E s \in {thread[t].base, thread[t].mine, thread[t].freeing}, p \in Parts :
              s # NULL /\ Table(s)[p] = b
  PROVE  Table(thread[u].mine)[thread[u].part] # b
<1>1. Types /\ HeldLive /\ WriteSound(u)
  BY InvSplit DEF ThreadSound
<1>2. thread[u].mine # NULL /\ thread[u].mine \notin published /\ thread[u].mine \in Live
  BY <1>1, ThreadType DEF WriteSound
<1>3. ASSUME Table(thread[u].mine)[thread[u].part] = b PROVE FALSE
  <2>1. Uses(b) = {<<thread[u].mine, thread[u].part>>} /\ Owes(b) = {}
    BY <1>3, WriterAlone
  <2>2. thread[t].old # b
    BY <2>1 DEF Owes
  <2>3. PICK s \in {thread[t].base, thread[t].mine, thread[t].freeing}, p \in Parts :
             s # NULL /\ Table(s)[p] = b
    BY <2>2
  <2>4. s \in Live
    BY <1>1, <2>3, ThreadType
  <2>5. <<s, p>> \in Uses(b)
    BY <2>3, <2>4 DEF Uses, Table
  <2>6. s = thread[u].mine
    <3>1. <<s, p>> = <<thread[u].mine, thread[u].part>>
      BY <2>1, <2>5
    <3>. QED
      BY <3>1
  <2>. QED
    BY <1>2, <2>3, <2>6, NoneElse
<1>. QED
  BY <1>3

-----------------------------------------------------------------------------
(* Steps that leave every counter alone. *)

LEMMA QuietStep ==
  ASSUME ChunkInv, NEW t \in Threads, NEW at, NEW part,
         Says(thread', t, at, thread[t].base, thread[t].mine, part,
              thread[t].old, thread[t].freeing),
         thread[t].at # "clone", at # "clone",
         UNCHANGED <<snapshot, cached, published>>,
         block' \in [Blocks -> BlockRecords \cup {NULL}],
         \A b \in Blocks : block'[b] = NULL <=> block[b] = NULL,
         \A b \in Blocks : block[b] # NULL => block'[b].references = block[b].references,
         ThreadSound(t)'
  PROVE  ChunkInv'
<1>1. /\ Types /\ HeldLive /\ cached \subseteq published
      /\ \A b \in Blocks : BlockCounted(b)
      /\ \A s \in Live : SnapshotCounted(s)
      /\ HeldAlone /\ FreedAlone /\ TablesFull
      /\ \A u \in Threads : ThreadSound(u)
  BY InvSplit
<1>2. Others(t) /\ thread'[t].base = thread[t].base /\ thread'[t].mine = thread[t].mine
      /\ thread'[t].old = thread[t].old /\ thread'[t].freeing = thread[t].freeing
      /\ thread'[t].at = at /\ thread' \in [Threads -> ThreadRecords]
  BY DEF Says, Others
<1>3. /\ \A s : BaseOf(s)' = BaseOf(s) /\ MineOf(s)' = MineOf(s)
      /\ \A b : Owes(b)' = Owes(b)
      /\ \A s : (Freed(s)' <=> Freed(s)) /\ (Cloned(s)' <=> Cloned(s))
  BY <1>2, SameHolders
<1>4. Live' = Live /\ \A s : Table(s)' = Table(s)
  BY DEF Live, Table
<1>5. \A b : Uses(b)' = Uses(b)
  BY <1>4, SameUses
<1>6. \A u \in Threads : /\ thread'[u].base = thread[u].base /\ thread'[u].mine = thread[u].mine
                         /\ thread'[u].freeing = thread[u].freeing
  BY <1>2 DEF Others
<1>7. Types'
  BY <1>1, <1>2 DEF Types
<1>8. HeldLive'
  BY <1>1, <1>4, <1>6 DEF HeldLive
<1>9. \A b \in Blocks : BlockCounted(b)'
  BY <1>1, <1>3, <1>5, SameBlock
<1>10. ASSUME NEW s \in Live' PROVE SnapshotCounted(s)'
  BY <1>1, <1>3, <1>4 DEF SnapshotCounted
<1>11. HeldAlone' /\ FreedAlone' /\ TablesFull'
  <2>1. HeldAlone'
    BY <1>1, <1>6 DEF HeldAlone
  <2>2. FreedAlone'
    BY <1>1, <1>3, <1>4, <1>6 DEF FreedAlone
  <2>3. TablesFull'
    BY <1>1, <1>3, <1>4 DEF TablesFull
  <2>. QED
    BY <2>1, <2>2, <2>3
<1>12. ASSUME NEW u \in Threads \ {t} PROVE ThreadSound(u)'
  <2>1. thread[u].at \in {"let go", "store"} =>
          LET b == Table(thread[u].mine)[thread[u].part]
          IN block'[b] # NULL /\ block'[b].references = 1
    BY WriterAlone
  <2>2. thread'[u] = thread[u]
    BY <1>2 DEF Others
  <2>. QED
    BY <1>1, <1>4, <2>1, <2>2, OtherSound
<1>13. (cached \subseteq published)'
  BY <1>1
<1>. QED
  BY <1>7, <1>8, <1>9, <1>10, <1>11, <1>12, <1>13, InvSplitNext

\* Where a thread is, its three pointers are what they should be.
LEMMA PlaceFacts ==
  ASSUME ChunkInv, NEW t \in Threads
  PROVE  /\ thread[t].at \in {"ready", "clone", "copy", "store", "free"} => thread[t].old = NULL
         /\ thread[t].at \in {"ready", "clone", "copy", "let go", "store"} => thread[t].freeing = NULL
         /\ thread[t].at = "let go" => thread[t].old # NULL
         /\ thread[t].at = "free" => thread[t].freeing # NULL
<1>1. ThreadSound(t)
  BY InvSplit
<1>. QED
  BY <1>1 DEF ThreadSound

LEMMA WriteBeginStep ==
  ASSUME ChunkInv, NEW t \in Threads, WriteBegin(t)
  PROVE  ChunkInv'
<1>1. Types /\ HeldLive
  BY InvSplit
<1>2. thread[t].at = "ready" /\ thread[t].mine # NULL /\ thread[t].mine \notin published
      /\ UNCHANGED <<block, snapshot, cached, published>>
  BY DEF WriteBegin
<1>3. PICK p \in Chunks :
        thread' = [thread EXCEPT
                     ![t].at = IF Shared(snapshot[thread[t].mine].table[p]) THEN "copy" ELSE "store",
                     ![t].part = p]
  BY DEF WriteBegin
<1>4. PICK at : at = IF Shared(snapshot[thread[t].mine].table[p]) THEN "copy" ELSE "store"
  OBVIOUS
<1>5. at \in Places /\ p \in Parts /\ p \in Parts \cup {NULL}
  BY <1>4, Nulls DEF Places
<1>6. thread' = [thread EXCEPT ![t].at = at, ![t].part = p]
  BY <1>3, <1>4
<1>7. Says(thread', t, at, thread[t].base, thread[t].mine, p, thread[t].old, thread[t].freeing)
  BY <1>1, <1>5, <1>6, MovesTo
<1>8. PICK b : b = Table(thread[t].mine)[p]
  OBVIOUS
<1>9. b \in Blocks /\ block[b] # NULL
  BY <1>2, <1>5, <1>8, MineFull
<1>10. at = "store" => block[b].references = 1
  BY <1>4, <1>8 DEF Shared, Table
<1>11. thread[t].old = NULL /\ thread[t].freeing = NULL
  BY <1>2, PlaceFacts
<1>12. ThreadSound(t)'
  <2>1. /\ thread'[t].at = at /\ thread'[t].mine = thread[t].mine /\ thread'[t].part = p
        /\ thread'[t].old = NULL /\ thread'[t].freeing = NULL
    BY <1>7, <1>11 DEF Says
  <2>2. at \in {"copy", "store"}
    BY <1>4
  <2>3. WriteSound(t)'
    <3>1. block' = block /\ snapshot' = snapshot /\ published' = published
      BY <1>2
    <3>2. snapshot'[thread[t].mine].table[p] = b /\ block'[b] # NULL
      BY <1>8, <1>9, <3>1 DEF Table
    <3>3. at = "store" => block'[b].references = 1
      BY <1>10, <3>1
    <3>. QED
      BY <1>2, <1>3, <2>1, <2>2, <3>1, <3>2, <3>3 DEF WriteSound
  <2>. QED
    BY <2>1, <2>2, <2>3 DEF ThreadSound
<1>13. at # "clone" /\ thread[t].at # "clone"
  BY <1>2, <1>4
<1>14. block' \in [Blocks -> BlockRecords \cup {NULL}]
  BY <1>1, <1>2 DEF Types
<1>. QED
  BY <1>2, <1>7, <1>12, <1>13, <1>14, QuietStep

LEMMA WriteFailsStep ==
  ASSUME ChunkInv, NEW t \in Threads, WriteFails(t)
  PROVE  ChunkInv'
<1>1. Types /\ HeldLive
  BY InvSplit
<1>2. thread[t].at = "copy" /\ UNCHANGED <<block, snapshot, cached, published>>
      /\ thread' = [thread EXCEPT ![t].at = "ready", ![t].part = NULL]
  BY DEF WriteFails
<1>3. "ready" \in Places /\ NULL \in Parts \cup {NULL}
  BY DEF Places
<1>4. Says(thread', t, "ready", thread[t].base, thread[t].mine, NULL,
           thread[t].old, thread[t].freeing)
  BY <1>1, <1>2, <1>3, MovesTo
<1>5. ThreadSound(t)'
  BY <1>2, <1>4, PlaceFacts DEF Says, ThreadSound
<1>6. block' \in [Blocks -> BlockRecords \cup {NULL}]
  BY <1>1, <1>2 DEF Types
<1>. QED
  BY <1>2, <1>4, <1>5, <1>6, QuietStep

LEMMA WriteStoreStep ==
  ASSUME ChunkInv, NEW t \in Threads, WriteStore(t)
  PROVE  ChunkInv'
<1>1. Types /\ HeldLive /\ ThreadSound(t)
  BY InvSplit
<1>2. thread[t].at = "store" /\ UNCHANGED <<snapshot, cached, published>>
      /\ thread' = [thread EXCEPT ![t].at = "ready", ![t].part = NULL]
  BY DEF WriteStore
<1>3. PICK b : b = Table(thread[t].mine)[thread[t].part]
  OBVIOUS
<1>4. b \in Blocks /\ block[b] # NULL
  BY <1>2, <1>3, WriterAlone
<1>5. PICK v \in Values : block' = [block EXCEPT ![b].content = v]
  BY <1>3 DEF WriteStore, Table
<1>6. block[b] \in BlockRecords /\ block \in [Blocks -> BlockRecords \cup {NULL}]
  BY <1>1, <1>4, BlockType DEF Types
<1>7. PICK new : new = [block[b] EXCEPT !.content = v]
  OBVIOUS
<1>8. new \in BlockRecords /\ new.references = block[b].references
  BY <1>6, <1>7 DEF BlockRecords
<1>9. block' = [block EXCEPT ![b] = new]
  BY <1>5, <1>6, <1>7
<1>10. block' \in [Blocks -> BlockRecords \cup {NULL}] /\ new # NULL
  BY <1>6, <1>8, <1>9, Nulls
<1>11. /\ \A c \in Blocks : block'[c] = NULL <=> block[c] = NULL
       /\ \A c \in Blocks : block[c] # NULL => block'[c].references = block[c].references
  BY <1>4, <1>6, <1>8, <1>9, <1>10
<1>12. "ready" \in Places /\ NULL \in Parts \cup {NULL}
  BY DEF Places
<1>13. Says(thread', t, "ready", thread[t].base, thread[t].mine, NULL,
           thread[t].old, thread[t].freeing)
  BY <1>1, <1>2, <1>12, MovesTo
<1>14. ThreadSound(t)'
  BY <1>2, <1>13, PlaceFacts DEF Says, ThreadSound
<1>. QED
  BY <1>2, <1>10, <1>11, <1>13, <1>14, QuietStep

-----------------------------------------------------------------------------
(* Steps that take or let go of a snapshot. *)

\* A counter of a snapshot changes, and nothing else about any.
LEMMA Recounted ==
  ASSUME Types, NEW s \in Live, NEW r \in Nat,
         snapshot' = [snapshot EXCEPT ![s].references = r]
  PROVE  /\ snapshot' \in [Snapshots -> SnapshotRecords \cup {NULL}]
         /\ Live' = Live /\ \A x : x \in Live => Table(x)' = Table(x)
         /\ snapshot'[s].references = r
         /\ \A x \in Live \ {s} : snapshot'[x] = snapshot[x]
<1>1. snapshot[s] \in SnapshotRecords /\ s \in Snapshots
  BY TableType
<1>2. PICK new : new = [snapshot[s] EXCEPT !.references = r]
  OBVIOUS
<1>3. new \in SnapshotRecords /\ new.references = r /\ new.table = snapshot[s].table
  BY <1>1, <1>2 DEF SnapshotRecords
<1>4. new # NULL
  BY <1>3, Nulls
<1>5. snapshot' = [snapshot EXCEPT ![s] = new]
  BY <1>1, <1>2 DEF Types
<1>6. snapshot'[s] = new /\ \A x \in Snapshots \ {s} : snapshot'[x] = snapshot[x]
  BY <1>1, <1>5 DEF Types
<1>7. snapshot' \in [Snapshots -> SnapshotRecords \cup {NULL}]
  BY <1>3, <1>5 DEF Types
<1>8. Live' = Live
  BY <1>1, <1>4, <1>6 DEF Live
<1>9. \A x : x \in Live => Table(x)' = Table(x)
  BY <1>3, <1>6 DEF Table, Live
<1>. QED
  BY <1>3, <1>6, <1>7, <1>8, <1>9 DEF Live

\* Where a thread goes that leaves s with r references.
GoesOn(s, r, at, part, freeing) ==
  \/ r # 0 /\ at = "ready" /\ freeing = NULL
  \/ r = 0 /\ at = "free" /\ freeing = s /\ part = 1

\* Only what is published can become another one's.
MayHave(t, base, mine) ==
  /\ base \in {thread[t].base, NULL} \cup published
  /\ mine \in {thread[t].mine, NULL} \cup published

\* What is published stays so, but for s without references; what another
\* thread has not published is not published for it; others keep what they have.
KeepsPublished(s, r) ==
  /\ cached' \subseteq published'
  /\ published' \subseteq published \cup {s} /\ (r = 0 => s \notin published')
  /\ \A x \in published : x \in published' \/ (r = 0 /\ x = s)
KeepsPrivate(t) ==
  \A u \in Threads \ {t} : thread[u].mine # NULL /\ thread[u].mine \notin published
                             => thread[u].mine \notin published'
SameElsewhere(s) ==
  \A x \in Live \ {s} : /\ BaseOf(x)' = BaseOf(x) /\ MineOf(x)' = MineOf(x)
                        /\ x \in cached <=> x \in cached'

LEMMA HoldStep ==
  ASSUME ChunkInv, NEW t \in Threads, thread[t].at = "ready",
         NEW at, NEW base, NEW mine, NEW part, NEW freeing,
         Says(thread', t, at, base, mine, part, NULL, freeing),
         NEW s \in Live, ~Freed(s), NEW r \in Nat,
         snapshot' = [snapshot EXCEPT ![s].references = r], block' = block,
         GoesOn(s, r, at, part, freeing),
         MayHave(t, base, mine), KeepsPublished(s, r), KeepsPrivate(t),
         SnapshotCounted(s)',
         SameElsewhere(s)
  PROVE  ChunkInv'
<1>1. /\ Types /\ HeldLive /\ cached \subseteq published
      /\ \A b \in Blocks : BlockCounted(b)
      /\ \A x \in Live : SnapshotCounted(x)
      /\ HeldAlone /\ FreedAlone /\ TablesFull
      /\ \A u \in Threads : ThreadSound(u)
  BY InvSplit
<1>2. /\ \A u \in Threads \ {t} : thread'[u] = thread[u]
      /\ thread'[t].base = base /\ thread'[t].mine = mine /\ thread'[t].old = NULL
      /\ thread'[t].freeing = freeing /\ thread'[t].part = part
      /\ thread'[t].at = at /\ thread' \in [Threads -> ThreadRecords]
  BY DEF Says
<1>3. thread[t].old = NULL /\ thread[t].freeing = NULL
  BY PlaceFacts
<1>4. /\ snapshot' \in [Snapshots -> SnapshotRecords \cup {NULL}]
      /\ Live' = Live /\ \A x : x \in Live => Table(x)' = Table(x)
      /\ snapshot'[s].references = r
      /\ \A x \in Live \ {s} : snapshot'[x] = snapshot[x]
  BY <1>1, Recounted
<1>may. /\ base \in {thread[t].base, NULL} \cup published
        /\ mine \in {thread[t].mine, NULL} \cup published
  BY DEF MayHave
<1>where. \/ r # 0 /\ at = "ready" /\ freeing = NULL
          \/ r = 0 /\ at = "free" /\ freeing = s /\ part = 1
  BY DEF GoesOn
<1>5. Others(t) /\ at # "clone"
  BY <1>2, <1>where DEF Others
<1>6. /\ \A b : Owes(b)' = Owes(b) /\ \A x : Cloned(x)' <=> Cloned(x)
  BY <1>2, <1>3, <1>5, SameHolders
<1>7. \A b : Uses(b)' = Uses(b)
  BY <1>4, SameUses
<1>8. s \in Snapshots /\ s # NULL /\ NULL \notin Snapshots /\ Live \subseteq Snapshots
  BY <1>1, TableType, Nulls DEF Live
<1>9. \A x \in Live : Freed(x)' <=> Freed(x) \/ (x = s /\ r = 0)
  BY <1>2, <1>3, <1>8, <1>where DEF Freed
<1>pub. published' \subseteq Live /\ cached' \subseteq Live
  BY <1>1 DEF HeldLive, KeepsPublished
<1>10. Types'
  <2>1. cached' \subseteq Snapshots /\ published' \subseteq Snapshots
    BY <1>pub, <1>8
  <2>. QED
    BY <1>1, <1>2, <1>4, <2>1 DEF Types
<1>11. HeldLive'
  <2>1. base # NULL => base \in Live
    BY <1>1, <1>may DEF HeldLive
  <2>2. mine # NULL => mine \in Live
    BY <1>1, <1>may DEF HeldLive
  <2>3. freeing # NULL => freeing \in Live
    BY <1>where
  <2>4. ASSUME NEW u \in Threads
        PROVE  /\ thread'[u].base # NULL => thread'[u].base \in Live
               /\ thread'[u].mine # NULL => thread'[u].mine \in Live
               /\ thread'[u].freeing # NULL => thread'[u].freeing \in Live
    <3>1. CASE u = t
      BY <1>2, <2>1, <2>2, <2>3, <3>1
    <3>2. CASE u # t
      BY <1>1, <1>2, <3>2 DEF HeldLive
    <3>. QED
      BY <3>1, <3>2
  <2>. QED
    BY <1>4, <1>pub, <2>4 DEF HeldLive
<1>12. \A b \in Blocks : BlockCounted(b)'
  BY <1>1, <1>6, <1>7, SameBlock
<1>13. ASSUME NEW x \in Live' PROVE SnapshotCounted(x)'
  <2>1. CASE x = s
    BY <2>1
  <2>2. CASE x # s
    BY <1>1, <1>4, <2>2 DEF SnapshotCounted, SameElsewhere
  <2>. QED
    BY <2>1, <2>2
<1>nobody. r = 0 => \A u \in Threads : thread'[u].base # s /\ thread'[u].mine # s
  <2>1. SUFFICES ASSUME r = 0 PROVE BaseOf(s)' = {} /\ MineOf(s)' = {}
    BY DEF BaseOf, MineOf
  <2>2. \A x : /\ IsFiniteSet(BaseOf(x)') /\ Cardinality(BaseOf(x)') \in Nat
               /\ IsFiniteSet(MineOf(x)') /\ Cardinality(MineOf(x)') \in Nat
    BY CountsNext
  <2>3. Cardinality(BaseOf(s)') = 0 /\ Cardinality(MineOf(s)') = 0
    BY <1>4, <2>1, <2>2 DEF SnapshotCounted
  <2>. QED
    BY <2>2, <2>3, CountZero
<1>14. HeldAlone'
  <2>2. ASSUME NEW x \in Snapshots, x \notin published, NEW u \in Threads
        PROVE  /\ thread'[u].base = x => thread[u].base = x
               /\ thread'[u].mine = x => thread[u].mine = x
    BY <1>2, <1>8, <1>may, <2>2
  <2>3. \A x \in Snapshots : x \notin published' => x \notin published \/ (x = s /\ r = 0)
    BY DEF KeepsPublished
  <2>. QED
    BY <1>1, <1>nobody, <2>2, <2>3 DEF HeldAlone
<1>15. FreedAlone'
  <2>1. ASSUME NEW x \in Live PROVE snapshot'[x].references = 0 <=> Freed(x)'
    BY <1>1, <1>4, <1>9 DEF FreedAlone
  <2>2. \A u \in Threads \ {t} : thread'[u].freeing # s
    BY <1>2 DEF Freed
  <2>3. ASSUME NEW u \in Threads, NEW v \in Threads,
               thread'[u].freeing # NULL, thread'[u].freeing = thread'[v].freeing
        PROVE  u = v
    BY <1>1, <1>2, <1>where, <2>2, <2>3 DEF FreedAlone
  <2>4. ASSUME NEW u \in Threads PROVE thread'[u].freeing \notin published'
    <3>1. CASE u = t
      BY <1>2, <1>8, <1>pub, <1>where, <3>1 DEF KeepsPublished
    <3>2. CASE u # t
      BY <1>1, <1>2, <2>2, <3>2 DEF KeepsPublished, FreedAlone
    <3>. QED
      BY <3>1, <3>2
  <2>. QED
    BY <1>4, <2>1, <2>3, <2>4 DEF FreedAlone
<1>16. TablesFull'
  BY <1>1, <1>4, <1>6, <1>9 DEF TablesFull, Table
<1>17. ASSUME NEW u \in Threads \ {t} PROVE ThreadSound(u)'
  <2>1. thread[u].at \in {"let go", "store"} =>
          LET b == Table(thread[u].mine)[thread[u].part]
          IN block'[b] # NULL /\ block'[b].references = 1
    BY WriterAlone
  <2>2. \A x \in {thread[u].base, thread[u].mine, thread[u].freeing} :
          x # NULL => Table(x)' = Table(x)
    BY <1>1, <1>4, ThreadType
  <2>. QED
    BY <1>1, <1>2, <2>1, <2>2, OtherSound DEF KeepsPrivate
<1>18. ThreadSound(t)'
  <2>1. CASE r # 0
    BY <1>2, <1>where, <2>1 DEF ThreadSound
  <2>2. CASE r = 0
    <3>1. ~Cloned(s)
      BY <1>2, <1>nobody, <2>2 DEF Cloned
    <3>2. \A p \in Parts : snapshot'[s].table[p] # NULL
      BY <1>1, <1>4, <3>1 DEF TablesFull, Table
    <3>3. thread'[t].part = 1 /\ thread'[t].freeing = s /\ thread'[t].at = "free"
          /\ thread'[t].old = NULL
      BY <1>2, <1>8, <1>where, <2>2
    <3>4. FreeSound(t)'
      <4>1. 1 \in Parts /\ Topology = 0 /\ Parts \subseteq Nat
        BY Nulls, ChunkAssumption DEF Topology
      <4>2. \A p \in Parts : ~(p # Topology /\ p < 1)
        BY <4>1
      <4>. QED
        BY <3>2, <3>3, <4>1, <4>2 DEF FreeSound
    <3>. QED
      BY <1>8, <3>3, <3>4 DEF ThreadSound
  <2>. QED
    BY <2>1, <2>2
<1>19. (cached \subseteq published)'
  BY DEF KeepsPublished
<1>. QED
  BY <1>10, <1>11, <1>12, <1>13, <1>14, <1>15, <1>16, <1>17, <1>18, <1>19, InvSplitNext

\* Who has a snapshot when t has moved.
LEMMA Holders ==
  ASSUME NEW t \in Threads, \A u \in Threads \ {t} : thread'[u] = thread[u]
  PROVE  /\ \A s : BaseOf(s)' = IF thread'[t].base = s THEN BaseOf(s) \cup {t} ELSE BaseOf(s) \ {t}
         /\ \A s : MineOf(s)' = IF thread'[t].mine = s THEN MineOf(s) \cup {t} ELSE MineOf(s) \ {t}
         /\ \A b : Owes(b)' = IF thread'[t].old = b THEN Owes(b) \cup {t} ELSE Owes(b) \ {t}
BY DEF BaseOf, MineOf, Owes

LEMMA FreeingSays ==
  ASSUME Types, NEW t \in Threads, NEW s \in Live
  PROVE  Says(Freeing(t, s), t, IF Last(s) THEN "free" ELSE thread[t].at,
              thread[t].base, thread[t].mine, IF Last(s) THEN 1 ELSE thread[t].part,
              thread[t].old, IF Last(s) THEN s ELSE thread[t].freeing)
<1>1. CASE ~Last(s)
  BY <1>1, SaysItself DEF Freeing
<1>2. CASE Last(s)
  <2>1. "free" \in Places /\ 1 \in Parts \cup {NULL} /\ s \in Snapshots \cup {NULL}
    BY Nulls, ChunkAssumption DEF Places, Live
  <2>2. PICK f : f = [thread EXCEPT ![t].at = "free"]
    OBVIOUS
  <2>3. Says(f, t, "free", thread[t].base, thread[t].mine, thread[t].part,
             thread[t].old, thread[t].freeing)
    BY <2>1, <2>2, SaysItself, SetAt
  <2>4. PICK g : g = [f EXCEPT ![t].freeing = s]
    OBVIOUS
  <2>5. Says(g, t, "free", thread[t].base, thread[t].mine, thread[t].part, thread[t].old, s)
    BY <2>1, <2>3, <2>4, SetFreeing
  <2>6. PICK h : h = [g EXCEPT ![t].part = 1]
    OBVIOUS
  <2>7. Says(h, t, "free", thread[t].base, thread[t].mine, 1, thread[t].old, s)
    BY <2>1, <2>5, <2>6, SetPart
  <2>8. Freeing(t, s) = h
    BY <1>2, <2>2, <2>4, <2>6 DEF Freeing
  <2>. QED
    BY <1>2, <2>7, <2>8
<1>. QED
  BY <1>1, <1>2

LEMMA LookupStep ==
  ASSUME ChunkInv, NEW t \in Threads, Lookup(t)
  PROVE  ChunkInv'
<1>1. /\ Types /\ HeldLive /\ cached \subseteq published
      /\ \A x \in Live : SnapshotCounted(x)
  BY InvSplit
<1>2. thread[t].at = "ready" /\ thread[t].base = NULL /\ thread[t].mine = NULL
      /\ UNCHANGED <<block, cached, published>>
  BY DEF Lookup
<1>3. PICK s \in cached : snapshot' = Retained(s) /\ thread' = [thread EXCEPT ![t].base = s]
  BY DEF Lookup
<1>4. s \in Live /\ s \in published /\ s \in Snapshots \cup {NULL} /\ s # NULL
  BY <1>1, Nulls DEF HeldLive, Live
<1>5. ~Freed(s) /\ snapshot[s].references \in Nat \ {0}
  BY <1>4, HeldNotFreed
<1>6. PICK r : r = snapshot[s].references + 1
  OBVIOUS
<1>7. r \in Nat /\ r # 0 /\ snapshot' = [snapshot EXCEPT ![s].references = r]
  BY <1>3, <1>5, <1>6 DEF Retained
<1>8. thread[t].old = NULL /\ thread[t].freeing = NULL
  BY <1>2, PlaceFacts
<1>9. Says(thread', t, "ready", s, thread[t].mine, thread[t].part, NULL, NULL)
  <2>1. Says(thread, t, "ready", NULL, thread[t].mine, thread[t].part, NULL, NULL)
    BY <1>1, <1>2, <1>8, SaysItself
  <2>2. Says([thread EXCEPT ![t].base = s], t, "ready", s, thread[t].mine, thread[t].part, NULL, NULL)
    BY <1>4, <2>1, SetBase
  <2>. QED
    BY <1>3, <2>2
<1>10. thread'[t].base = s /\ thread'[t].mine = NULL
       /\ \A u \in Threads \ {t} : thread'[u] = thread[u]
  BY <1>2, <1>9 DEF Says
<1>11. /\ \A x : x # s /\ x # NULL => BaseOf(x)' = BaseOf(x)
       /\ \A x : x # NULL => MineOf(x)' = MineOf(x)
       /\ BaseOf(s)' = BaseOf(s) \cup {t} /\ t \notin BaseOf(s)
  BY <1>2, <1>4, <1>10, Holders DEF BaseOf, MineOf
<1>12. SnapshotCounted(s)'
  <2>1. Cardinality(BaseOf(s)') = Cardinality(BaseOf(s)) + 1
    BY <1>11, Counts, CountAdd
  <2>2. Cardinality(MineOf(s)') = Cardinality(MineOf(s))
    BY <1>4, <1>11
  <2>3. snapshot'[s].references = snapshot[s].references + 1
    BY <1>1, <1>4, <1>6, <1>7, Recounted
  <2>4. s \in cached /\ s \in cached'
    BY <1>2
  <2>. QED
    BY <1>1, <1>4, <2>1, <2>2, <2>3, <2>4, Counts DEF SnapshotCounted
<1>13. SameElsewhere(s)
  BY <1>1, <1>2, <1>11, TableType DEF SameElsewhere
<1>14. block' = block /\ KeepsPublished(s, r) /\ KeepsPrivate(t)
  BY <1>1, <1>2, <1>7 DEF KeepsPublished, KeepsPrivate
<1>15. GoesOn(s, r, "ready", thread[t].part, NULL)
  BY <1>7 DEF GoesOn
<1>16. MayHave(t, s, thread[t].mine)
  BY <1>4 DEF MayHave
<1>. QED
  BY <1>2, <1>4, <1>5, <1>7, <1>9, <1>12, <1>13, <1>14, <1>15, <1>16, HoldStep

LEMMA PublishStep ==
  ASSUME ChunkInv, NEW t \in Threads, Publish(t)
  PROVE  ChunkInv'
<1>1. /\ Types /\ HeldLive /\ cached \subseteq published /\ HeldAlone
      /\ \A x \in Live : SnapshotCounted(x)
  BY InvSplit
<1>2. thread[t].at = "ready" /\ UNCHANGED <<block, thread>>
  BY DEF Publish
<1>3. PICK s \in {thread[t].base, thread[t].mine} \ (published \cup {NULL}) :
        /\ snapshot' = Retained(s)
        /\ cached' = cached \cup {s} /\ published' = published \cup {s}
  BY DEF Publish
<1>4. s \in Live /\ s # NULL /\ s \notin published /\ s \notin cached /\ s \in Snapshots
  BY <1>1, <1>3, ThreadType DEF Live
<1>5. ~Freed(s) /\ snapshot[s].references \in Nat \ {0}
  BY <1>3, <1>4, HeldNotFreed
<1>6. PICK r : r = snapshot[s].references + 1
  OBVIOUS
<1>7. r \in Nat /\ r # 0 /\ snapshot' = [snapshot EXCEPT ![s].references = r]
  BY <1>3, <1>5, <1>6 DEF Retained
<1>8. thread[t].old = NULL /\ thread[t].freeing = NULL
  BY <1>2, PlaceFacts
<1>9. Says(thread', t, "ready", thread[t].base, thread[t].mine, thread[t].part, NULL, NULL)
  BY <1>1, <1>2, <1>8, SaysItself
<1>10. \A x : BaseOf(x)' = BaseOf(x) /\ MineOf(x)' = MineOf(x)
  BY <1>2 DEF BaseOf, MineOf
<1>11. SnapshotCounted(s)'
  <2>1. snapshot'[s].references = snapshot[s].references + 1
    BY <1>1, <1>4, <1>6, <1>7, Recounted
  <2>2. s \notin cached /\ s \in cached'
    BY <1>3, <1>4
  <2>3. SnapshotCounted(s)
    BY <1>1, <1>4
  <2>. QED
    BY <1>10, <2>1, <2>2, <2>3, Counts DEF SnapshotCounted
<1>12. SameElsewhere(s)
  BY <1>3, <1>10 DEF SameElsewhere
<1>13. block' = block /\ KeepsPublished(s, r)
  BY <1>1, <1>2, <1>3, <1>4, <1>7 DEF KeepsPublished
<1>14. KeepsPrivate(t)
  BY <1>1, <1>3, <1>4 DEF HeldAlone, KeepsPrivate
<1>15. GoesOn(s, r, "ready", thread[t].part, NULL)
  BY <1>7 DEF GoesOn
<1>16. MayHave(t, thread[t].base, thread[t].mine)
  BY <1>4 DEF MayHave
<1>. QED
  BY <1>2, <1>4, <1>5, <1>7, <1>9, <1>10, <1>11, <1>12, <1>13, <1>14, <1>15, <1>16, HoldStep

\* What letting go of s comes to, for whoever had it.
LEMMA LetGoStep ==
  ASSUME ChunkInv, NEW t \in Threads, thread[t].at = "ready",
         NEW s \in Live, s \in cached \/ thread[t].base = s \/ thread[t].mine = s,
         snapshot' = LetGo(snapshot, s), block' = block,
         published' = IF Last(s) THEN published \ {s} ELSE published,
         NEW base \in {thread[t].base, NULL}, NEW mine \in {thread[t].mine, NULL},
         Says(thread', t, IF Last(s) THEN "free" ELSE "ready", base, mine,
              IF Last(s) THEN 1 ELSE thread[t].part, NULL, IF Last(s) THEN s ELSE NULL),
         cached' \subseteq cached,
         NEW n \in Nat,
         Cardinality(BaseOf(s)) + Cardinality(MineOf(s)) + (IF s \in cached THEN 1 ELSE 0) = n + 1,
         Cardinality(BaseOf(s)') + Cardinality(MineOf(s)') + (IF s \in cached' THEN 1 ELSE 0) = n,
         SameElsewhere(s)
  PROVE  ChunkInv'
<1>1. /\ Types /\ HeldLive /\ cached \subseteq published
      /\ SnapshotCounted(s)
  BY InvSplit
<1>2. ~Freed(s)
  BY HeldNotFreed
<1>3. snapshot[s].references = n + 1
  BY <1>1 DEF SnapshotCounted
<1>4. snapshot' = [snapshot EXCEPT ![s].references = n] /\ (n = 0 <=> Last(s))
  <2>1. PICK r : r = snapshot[s].references - 1
    OBVIOUS
  <2>2. snapshot' = [snapshot EXCEPT ![s].references = r]
    BY <2>1 DEF LetGo
  <2>3. r = n /\ (snapshot[s].references = 1 <=> n = 0)
    BY <1>3, <2>1
  <2>. QED
    BY <2>2, <2>3 DEF Last
<1>5. SnapshotCounted(s)'
  <2>1. snapshot'[s].references = n
    BY <1>1, <1>4, Recounted
  <2>. QED
    BY <2>1 DEF SnapshotCounted
<1>6. PICK at, part, freeing : /\ at = IF Last(s) THEN "free" ELSE "ready"
                               /\ part = IF Last(s) THEN 1 ELSE thread[t].part
                               /\ freeing = IF Last(s) THEN s ELSE NULL
  OBVIOUS
<1>7. Says(thread', t, at, base, mine, part, NULL, freeing)
  BY <1>6
<1>8. GoesOn(s, n, at, part, freeing)
  BY <1>4, <1>6 DEF GoesOn
<1>9. MayHave(t, base, mine)
  BY DEF MayHave
<1>10. Last(s) => s \notin cached'
  <2>1. SUFFICES ASSUME Last(s), s \in cached' PROVE FALSE
    OBVIOUS
  <2>2. Cardinality(BaseOf(s)') + Cardinality(MineOf(s)') + 1 = 0
    BY <1>4, <2>1
  <2>3. Cardinality(BaseOf(s)') \in Nat /\ Cardinality(MineOf(s)') \in Nat
    BY CountsNext
  <2>. QED
    BY <2>2, <2>3
<1>11. KeepsPublished(s, n)
  BY <1>1, <1>4, <1>10 DEF HeldLive, KeepsPublished
<1>12. KeepsPrivate(t)
  BY DEF KeepsPrivate
<1>. QED
  BY <1>2, <1>4, <1>5, <1>7, <1>8, <1>9, <1>11, <1>12, HoldStep

LEMMA LeaveStep ==
  ASSUME ChunkInv, NEW t \in Threads, Leave(t)
  PROVE  ChunkInv'
<1>1. Types /\ HeldLive
  BY InvSplit
<1>2. thread[t].at = "ready" /\ UNCHANGED <<block, cached>>
  BY DEF Leave
<1>3. PICK has \in {"mine", "base"} :
        /\ thread[t][has] # NULL /\ (has = "base" => thread[t].mine = NULL)
        /\ snapshot' = LetGo(snapshot, thread[t][has])
        /\ thread' = [Freeing(t, thread[t][has]) EXCEPT ![t][has] = NULL]
        /\ published' = IF Last(thread[t][has]) THEN published \ {thread[t][has]} ELSE published
  BY DEF Leave
<1>4. thread[t].old = NULL /\ thread[t].freeing = NULL
  BY <1>2, PlaceFacts
<1>5. CASE has = "mine"
  <2>1. PICK s : s = thread[t].mine
    OBVIOUS
  <2>2. s \in Live /\ s # NULL
    BY <1>1, <1>3, <1>5, <2>1, ThreadType
  <2>3. PICK f : f = Freeing(t, s)
    OBVIOUS
  <2>4. Says(f, t, IF Last(s) THEN "free" ELSE "ready", thread[t].base, s,
             IF Last(s) THEN 1 ELSE thread[t].part, NULL, IF Last(s) THEN s ELSE NULL)
    BY <1>1, <1>2, <1>4, <2>1, <2>2, <2>3, FreeingSays
  <2>5. Says([f EXCEPT ![t].mine = NULL], t, IF Last(s) THEN "free" ELSE "ready", thread[t].base,
             NULL, IF Last(s) THEN 1 ELSE thread[t].part, NULL, IF Last(s) THEN s ELSE NULL)
    BY <2>4, SetMine
  <2>6. thread' = [f EXCEPT ![t].mine = NULL]
    BY <1>3, <1>5, <2>1, <2>3
  <2>7. Says(thread', t, IF Last(s) THEN "free" ELSE "ready", thread[t].base, NULL,
             IF Last(s) THEN 1 ELSE thread[t].part, NULL, IF Last(s) THEN s ELSE NULL)
    BY <2>5, <2>6
  <2>8. thread'[t].base = thread[t].base /\ thread'[t].mine = NULL
        /\ \A u \in Threads \ {t} : thread'[u] = thread[u]
    BY <2>7 DEF Says
  <2>9. /\ \A x : BaseOf(x)' = BaseOf(x)
        /\ \A x : x # s /\ x # NULL => MineOf(x)' = MineOf(x)
        /\ MineOf(s)' = MineOf(s) \ {t} /\ t \in MineOf(s)
    BY <2>1, <2>2, <2>8, Holders DEF BaseOf, MineOf
  <2>10. Cardinality(MineOf(s)') = Cardinality(MineOf(s)) - 1
    BY <2>9, Counts, CountRemove
  <2>11. cached' = cached /\ block' = block
    BY <1>2
  <2>12. PICK n \in Nat :
           /\ Cardinality(BaseOf(s)) + Cardinality(MineOf(s)) + (IF s \in cached THEN 1 ELSE 0) = n + 1
           /\ Cardinality(BaseOf(s)') + Cardinality(MineOf(s)') + (IF s \in cached' THEN 1 ELSE 0) = n
    BY <2>9, <2>10, <2>11, Counts, CountZero
  <2>13. SameElsewhere(s)
    BY <1>1, <2>9, <2>11, TableType DEF SameElsewhere
  <2>14. snapshot' = LetGo(snapshot, s)
         /\ published' = IF Last(s) THEN published \ {s} ELSE published
    BY <1>3, <1>5, <2>1
  <2>. QED
    BY <1>2, <2>1, <2>2, <2>7, <2>11, <2>12, <2>13, <2>14, LetGoStep
<1>6. CASE has = "base"
  <2>1. PICK s : s = thread[t].base
    OBVIOUS
  <2>2. s \in Live /\ s # NULL
    BY <1>1, <1>3, <1>6, <2>1, ThreadType
  <2>3. PICK f : f = Freeing(t, s)
    OBVIOUS
  <2>4. Says(f, t, IF Last(s) THEN "free" ELSE "ready", s, thread[t].mine,
             IF Last(s) THEN 1 ELSE thread[t].part, NULL, IF Last(s) THEN s ELSE NULL)
    BY <1>1, <1>2, <1>4, <2>1, <2>2, <2>3, FreeingSays
  <2>5. Says([f EXCEPT ![t].base = NULL], t, IF Last(s) THEN "free" ELSE "ready", NULL,
             thread[t].mine, IF Last(s) THEN 1 ELSE thread[t].part, NULL, IF Last(s) THEN s ELSE NULL)
    BY <2>4, SetBase
  <2>6. thread' = [f EXCEPT ![t].base = NULL]
    BY <1>3, <1>6, <2>1, <2>3
  <2>7. Says(thread', t, IF Last(s) THEN "free" ELSE "ready", NULL, thread[t].mine,
             IF Last(s) THEN 1 ELSE thread[t].part, NULL, IF Last(s) THEN s ELSE NULL)
    BY <2>5, <2>6
  <2>8. thread'[t].base = NULL /\ thread'[t].mine = thread[t].mine
        /\ \A u \in Threads \ {t} : thread'[u] = thread[u]
    BY <2>7 DEF Says
  <2>9. /\ \A x : MineOf(x)' = MineOf(x)
        /\ \A x : x # s /\ x # NULL => BaseOf(x)' = BaseOf(x)
        /\ BaseOf(s)' = BaseOf(s) \ {t} /\ t \in BaseOf(s)
    BY <2>1, <2>2, <2>8, Holders DEF BaseOf, MineOf
  <2>10. Cardinality(BaseOf(s)') = Cardinality(BaseOf(s)) - 1
    BY <2>9, Counts, CountRemove
  <2>11. cached' = cached /\ block' = block
    BY <1>2
  <2>12. PICK n \in Nat :
           /\ Cardinality(BaseOf(s)) + Cardinality(MineOf(s)) + (IF s \in cached THEN 1 ELSE 0) = n + 1
           /\ Cardinality(BaseOf(s)') + Cardinality(MineOf(s)') + (IF s \in cached' THEN 1 ELSE 0) = n
    BY <2>9, <2>10, <2>11, Counts, CountZero
  <2>13. SameElsewhere(s)
    BY <1>1, <2>9, <2>11, TableType DEF SameElsewhere
  <2>14. snapshot' = LetGo(snapshot, s)
         /\ published' = IF Last(s) THEN published \ {s} ELSE published
    BY <1>3, <1>6, <2>1
  <2>. QED
    BY <1>2, <2>1, <2>2, <2>7, <2>11, <2>12, <2>13, <2>14, LetGoStep
<1>. QED
  BY <1>5, <1>6

LEMMA EvictStep ==
  ASSUME ChunkInv, NEW t \in Threads, Evict(t)
  PROVE  ChunkInv'
<1>1. Types /\ HeldLive
  BY InvSplit
<1>2. thread[t].at = "ready" /\ block' = block
  BY DEF Evict
<1>3. PICK s \in cached :
        /\ cached' = cached \ {s}
        /\ snapshot' = LetGo(snapshot, s)
        /\ thread' = Freeing(t, s)
        /\ published' = IF Last(s) THEN published \ {s} ELSE published
  BY DEF Evict
<1>4. s \in Live
  BY <1>1 DEF HeldLive
<1>5. thread[t].old = NULL /\ thread[t].freeing = NULL
  BY <1>2, PlaceFacts
<1>6. Says(thread', t, IF Last(s) THEN "free" ELSE "ready", thread[t].base, thread[t].mine,
           IF Last(s) THEN 1 ELSE thread[t].part, NULL, IF Last(s) THEN s ELSE NULL)
  BY <1>1, <1>2, <1>3, <1>4, <1>5, FreeingSays
<1>7. Others(t) /\ thread'[t].base = thread[t].base /\ thread'[t].mine = thread[t].mine
  BY <1>6 DEF Says, Others
<1>8. \A x : BaseOf(x)' = BaseOf(x) /\ MineOf(x)' = MineOf(x)
  BY <1>7, SameHolders
<1>9. s \in cached /\ s \notin cached'
  BY <1>3
<1>10. PICK n \in Nat :
         /\ Cardinality(BaseOf(s)) + Cardinality(MineOf(s)) + (IF s \in cached THEN 1 ELSE 0) = n + 1
         /\ Cardinality(BaseOf(s)') + Cardinality(MineOf(s)') + (IF s \in cached' THEN 1 ELSE 0) = n
  BY <1>8, <1>9, Counts
<1>11. SameElsewhere(s)
  BY <1>3, <1>8 DEF SameElsewhere
<1>12. thread[t].base \in {thread[t].base, NULL} /\ thread[t].mine \in {thread[t].mine, NULL}
       /\ cached' \subseteq cached
  BY <1>3
<1>. QED
  BY <1>2, <1>3, <1>4, <1>6, <1>10, <1>11, <1>12, LetGoStep

-----------------------------------------------------------------------------
(* Steps that count, copy or free blocks. *)

LEMMA ReleasedEffect ==
  ASSUME Types, NEW b \in Blocks, block[b] # NULL, block' = ReleasedPart(b)
  PROVE  /\ block' \in [Blocks -> BlockRecords \cup {NULL}]
         /\ \A c \in Blocks \ {b} : block'[c] = block[c]
         /\ IF block[b].references = 1 THEN block'[b] = NULL
            ELSE block'[b] # NULL /\ block'[b].references = block[b].references - 1
<1>1. block[b] \in BlockRecords /\ block[b].references \in Nat \ {0}
      /\ block \in [Blocks -> BlockRecords \cup {NULL}]
  BY BlockType DEF Types
<1>2. CASE block[b].references = 1
  <2>1. block' = [block EXCEPT ![b] = NULL]
    BY <1>2 DEF ReleasedPart
  <2>. QED
    BY <1>1, <1>2, <2>1
<1>3. CASE block[b].references # 1
  <2>1. PICK r : r = block[b].references - 1
    OBVIOUS
  <2>2. r \in Nat \ {0}
    BY <1>1, <1>3, <2>1
  <2>3. PICK new : new = [block[b] EXCEPT !.references = r]
    OBVIOUS
  <2>4. new \in BlockRecords /\ new.references = r
    BY <1>1, <2>2, <2>3 DEF BlockRecords
  <2>5. block' = [block EXCEPT ![b].references = r]
    BY <1>3, <2>1 DEF ReleasedPart
  <2>6. block' = [block EXCEPT ![b] = new]
    BY <1>1, <2>3, <2>5
  <2>7. new # NULL
    BY <2>4, Nulls
  <2>. QED
    BY <1>1, <1>3, <2>1, <2>4, <2>6, <2>7
<1>. QED
  BY <1>2, <1>3

LEMMA RetainedEffect ==
  ASSUME Types, NEW b \in Blocks, block[b] # NULL, block' = RetainedPart(b)
  PROVE  /\ block' \in [Blocks -> BlockRecords \cup {NULL}]
         /\ \A c \in Blocks \ {b} : block'[c] = block[c]
         /\ block'[b] # NULL /\ block'[b].references = block[b].references + 1
<1>1. block[b] \in BlockRecords /\ block[b].references \in Nat \ {0}
      /\ block \in [Blocks -> BlockRecords \cup {NULL}]
  BY BlockType DEF Types
<1>2. PICK r : r = block[b].references + 1
  OBVIOUS
<1>3. r \in Nat \ {0}
  BY <1>1, <1>2
<1>4. PICK new : new = [block[b] EXCEPT !.references = r]
  OBVIOUS
<1>5. new \in BlockRecords /\ new.references = r
  BY <1>1, <1>3, <1>4 DEF BlockRecords
<1>6. block' = [block EXCEPT ![b].references = r]
  BY <1>2 DEF RetainedPart
<1>7. block' = [block EXCEPT ![b] = new]
  BY <1>1, <1>4, <1>6
<1>8. new # NULL
  BY <1>5, Nulls
<1>. QED
  BY <1>1, <1>2, <1>5, <1>7, <1>8

\* One entry of a table changes.
SetsPart(s, p, b) == snapshot' = [snapshot EXCEPT ![s].table[p] = b]

LEMMA TableSet ==
  ASSUME Types, NEW s \in Live, NEW p \in Parts, NEW b \in Blocks \cup {NULL}, SetsPart(s, p, b)
  PROVE  /\ snapshot' \in [Snapshots -> SnapshotRecords \cup {NULL}]
         /\ Live' = Live
         /\ \A x \in Live : snapshot'[x].references = snapshot[x].references
         /\ \A x \in Live \ {s} : Table(x)' = Table(x)
         /\ Table(s)' = [Table(s) EXCEPT ![p] = b]
<1>1. snapshot[s] \in SnapshotRecords /\ s \in Snapshots
      /\ Table(s) \in [Parts -> Blocks \cup {NULL}]
  BY TableType
<1>2. PICK table : table = [Table(s) EXCEPT ![p] = b]
  OBVIOUS
<1>3. table \in [Parts -> Blocks \cup {NULL}]
  BY <1>1, <1>2
<1>4. PICK new : new = [snapshot[s] EXCEPT !.table = table]
  OBVIOUS
<1>5. new \in SnapshotRecords /\ new.references = snapshot[s].references /\ new.table = table
  BY <1>1, <1>3, <1>4 DEF SnapshotRecords
<1>6. new # NULL
  BY <1>5, Nulls
<1>7. snapshot' = [snapshot EXCEPT ![s] = new]
  BY <1>1, <1>2, <1>4 DEF Types, Table, SnapshotRecords, SetsPart
<1>8. snapshot'[s] = new /\ \A x \in Snapshots \ {s} : snapshot'[x] = snapshot[x]
  BY <1>1, <1>7 DEF Types
<1>9. snapshot' \in [Snapshots -> SnapshotRecords \cup {NULL}]
  BY <1>5, <1>7 DEF Types
<1>10. Live' = Live
  BY <1>1, <1>6, <1>8 DEF Live
<1>. QED
  BY <1>2, <1>5, <1>8, <1>9, <1>10 DEF Table, Live

\* The users of a block when an entry changes from old to b.
LEMMA UsesSet ==
  ASSUME Types, NEW s \in Live, NEW p \in Parts, NEW b, NEW old, old = Table(s)[p], Live' = Live,
         \A x \in Live \ {s} : Table(x)' = Table(x),
         Table(s)' = [Table(s) EXCEPT ![p] = b]
  PROVE  /\ Uses(b)' = Uses(b) \cup {<<s, p>>}
         /\ old # b => Uses(old)' = Uses(old) \ {<<s, p>>}
         /\ \A c : c # b /\ c # old => Uses(c)' = Uses(c)
<1>1. Table(s) \in [Parts -> Blocks \cup {NULL}]
  BY TableType
<1>2. ASSUME NEW x \in Live, NEW q \in Parts
      PROVE  Table(x)'[q] = IF x = s /\ q = p THEN b ELSE Table(x)[q]
  BY <1>1
<1>3. ASSUME NEW c PROVE Uses(c)' = {u \in Live \X Parts :
         (IF u[1] = s /\ u[2] = p THEN b ELSE Table(u[1])[u[2]]) = c}
  BY <1>2 DEF Uses, Table
<1>4. \A u \in Live \X Parts : u = <<s, p>> <=> u[1] = s /\ u[2] = p
  OBVIOUS
<1>5. \A c : Uses(c) = {u \in Live \X Parts : Table(u[1])[u[2]] = c}
  BY DEF Uses, Table
<1>6. <<s, p>> \in Live \X Parts
  OBVIOUS
<1>7. Uses(b)' = Uses(b) \cup {<<s, p>>}
  BY <1>3, <1>4, <1>5, <1>6
<1>8. ASSUME old # b PROVE Uses(old)' = Uses(old) \ {<<s, p>>}
  <2>1. \A u \in Live \X Parts :
          (IF u[1] = s /\ u[2] = p THEN b ELSE Table(u[1])[u[2]]) = old
            <=> Table(u[1])[u[2]] = old /\ u # <<s, p>>
    BY <1>4, <1>8
  <2>. QED
    BY <1>3, <1>5, <2>1
<1>9. ASSUME NEW c, c # b, c # old PROVE Uses(c)' = Uses(c)
  <2>1. \A u \in Live \X Parts :
          (IF u[1] = s /\ u[2] = p THEN b ELSE Table(u[1])[u[2]]) = c <=> Table(u[1])[u[2]] = c
    BY <1>9
  <2>. QED
    BY <1>3, <1>5, <2>1
<1>. QED
  BY <1>7, <1>8, <1>9

SameSnapshots == Live' = Live /\ \A x \in Live : snapshot'[x].references = snapshot[x].references
KeepsTables(t) ==
  \A u \in Threads \ {t} : \A s \in {thread[u].base, thread[u].mine, thread[u].freeing} :
    s # NULL => Table(s)' = Table(s)
KeepsWriters(t) ==
  \A u \in Threads \ {t} : thread[u].at \in {"let go", "store"} =>
    LET b == Table(thread[u].mine)[thread[u].part]
    IN block'[b] # NULL /\ block'[b].references = 1
AllCounted == \A b \in Blocks : BlockCounted(b)

\* A step that changes blocks and what points to them, and holds what it held.
LEMMA BlockStep ==
  ASSUME ChunkInv, NEW t \in Threads, NEW at, NEW part, NEW old,
         Says(thread', t, at, thread[t].base, thread[t].mine, part, old, thread[t].freeing),
         snapshot' \in [Snapshots -> SnapshotRecords \cup {NULL}],
         block' \in [Blocks -> BlockRecords \cup {NULL}],
         UNCHANGED <<cached, published>>,
         SameSnapshots, KeepsTables(t), KeepsWriters(t),
         AllCounted', TablesFull', ThreadSound(t)'
  PROVE  ChunkInv'
<1>1. /\ Types /\ HeldLive /\ cached \subseteq published
      /\ \A s \in Live : SnapshotCounted(s)
      /\ HeldAlone /\ FreedAlone /\ TablesFull
      /\ \A u \in Threads : ThreadSound(u)
  BY InvSplit
<1>2. Others(t) /\ thread'[t].base = thread[t].base /\ thread'[t].mine = thread[t].mine
      /\ thread'[t].freeing = thread[t].freeing
      /\ thread' \in [Threads -> ThreadRecords]
  BY DEF Says, Others
<1>3. /\ \A s : BaseOf(s)' = BaseOf(s) /\ MineOf(s)' = MineOf(s)
      /\ \A s : Freed(s)' <=> Freed(s)
  BY <1>2, SameHolders
<1>4. Live' = Live /\ \A x \in Live : snapshot'[x].references = snapshot[x].references
  BY DEF SameSnapshots
<1>5. \A u \in Threads : /\ thread'[u].base = thread[u].base /\ thread'[u].mine = thread[u].mine
                         /\ thread'[u].freeing = thread[u].freeing
  BY <1>2 DEF Others
<1>6. Types'
  BY <1>1, <1>2 DEF Types
<1>7. HeldLive'
  BY <1>1, <1>4, <1>5 DEF HeldLive
<1>8. \A b \in Blocks : BlockCounted(b)'
  BY DEF AllCounted
<1>9. ASSUME NEW s \in Live' PROVE SnapshotCounted(s)'
  BY <1>1, <1>3, <1>4 DEF SnapshotCounted
<1>10. HeldAlone'
  BY <1>1, <1>5 DEF HeldAlone
<1>11. FreedAlone'
  BY <1>1, <1>3, <1>4, <1>5 DEF FreedAlone
<1>12. ASSUME NEW u \in Threads \ {t} PROVE ThreadSound(u)'
  <2>1. thread'[u] = thread[u]
    BY <1>2 DEF Others
  <2>2. thread[u].at \in {"let go", "store"} =>
          LET b == Table(thread[u].mine)[thread[u].part]
          IN block'[b] # NULL /\ block'[b].references = 1
    BY DEF KeepsWriters
  <2>3. \A s \in {thread[u].base, thread[u].mine, thread[u].freeing} :
          s # NULL => Table(s)' = Table(s)
    BY DEF KeepsTables
  <2>. QED
    BY <1>1, <2>1, <2>2, <2>3, OtherSound
<1>13. (cached \subseteq published)'
  BY <1>1
<1>. QED
  BY <1>6, <1>7, <1>8, <1>9, <1>10, <1>11, <1>12, <1>13, InvSplitNext

\* Only the writer's own table changes, which nobody else has.
LEMMA MineKept ==
  ASSUME ChunkInv, NEW t \in Threads, NEW s \in Live,
         \/ s = thread[t].mine /\ s \notin published
         \/ s = thread[t].freeing,
         \A x \in Live \ {s} : Table(x)' = Table(x)
  PROVE  KeepsTables(t)
<1>1. Types /\ HeldLive /\ FreedAlone
  BY InvSplit
<1>2. ASSUME NEW u \in Threads \ {t}
      PROVE  thread[u].base # s /\ thread[u].mine # s /\ thread[u].freeing # s
  <2>1. CASE s = thread[t].mine /\ s \notin published
    BY <1>1, <2>1, NoneElse, TableType
  <2>2. CASE s = thread[t].freeing
    <3>1. Freed(s) /\ s \in Snapshots /\ s # NULL
      BY <1>1, <2>2, TableType DEF Freed
    <3>2. snapshot[s].references = 0
      BY <1>1, <3>1 DEF FreedAlone
    <3>. QED
      BY <1>1, <2>2, <3>1, <3>2, NobodyHas DEF FreedAlone
  <2>. QED
    BY <2>1, <2>2
<1>. QED
  BY <1>1, <1>2, ThreadType DEF KeepsTables

LEMMA ClonePartStep ==
  ASSUME ChunkInv, NEW t \in Threads, ClonePart(t)
  PROVE  ChunkInv'
<1>1. /\ Types /\ HeldLive /\ HeldAlone /\ TablesFull /\ ThreadSound(t)
      /\ \A c \in Blocks : BlockCounted(c)
  BY InvSplit
<1>2. PICK p, mine, base : p = thread[t].part /\ mine = thread[t].mine /\ base = thread[t].base
  OBVIOUS
<1>3. PICK b : b = Table(base)[p]
  OBVIOUS
<1>4. /\ thread[t].at = "clone" /\ UNCHANGED <<cached, published>>
      /\ snapshot' = [snapshot EXCEPT ![mine].table[p] = b]
      /\ block' = RetainedPart(b)
      /\ thread' = IF p = ChunkCount
                   THEN [thread EXCEPT ![t].at = "ready", ![t].part = NULL]
                   ELSE [thread EXCEPT ![t].part = p + 1]
  BY <1>2, <1>3 DEF ClonePart, Table
<1>5. /\ base # NULL /\ mine # NULL /\ mine \notin published /\ p \in Parts
      /\ \A q \in Parts : Table(mine)[q] = IF q < p THEN Table(base)[q] ELSE NULL
  BY <1>1, <1>2, <1>4 DEF ThreadSound, CloneSound, Table
<1>6. mine \in Live /\ base \in Live /\ mine # base
  BY <1>1, <1>2, <1>5, ThreadType, NoneElse
<1>7. thread[t].old = NULL /\ thread[t].freeing = NULL
  BY <1>4, PlaceFacts
<1>8. \A q \in Parts : Table(base)[q] # NULL
  <2>1. ~Freed(base)
    BY <1>2, <1>6, HeldNotFreed
  <2>2. ASSUME NEW u \in Threads, thread[u].at = "clone", thread[u].mine = base PROVE FALSE
    <3>1. CloneSound(u)
      BY <2>2, InvSplit DEF ThreadSound
    <3>2. base \notin published /\ base \in Snapshots
      BY <1>1, <1>6, <2>2, <3>1, TableType DEF CloneSound
    <3>. QED
      BY <1>1, <1>2, <2>2, <3>2 DEF HeldAlone
  <2>3. ~Cloned(base)
    BY <2>2 DEF Cloned
  <2>. QED
    BY <1>1, <1>6, <2>1, <2>3 DEF TablesFull, Table
<1>9. b \in Blocks /\ block[b] # NULL /\ b # NULL
  BY <1>3, <1>5, <1>6, <1>8, TableBlock
<1>10. /\ block' \in [Blocks -> BlockRecords \cup {NULL}]
       /\ \A c \in Blocks \ {b} : block'[c] = block[c]
       /\ block'[b] # NULL /\ block'[b].references = block[b].references + 1
  BY <1>1, <1>4, <1>9, RetainedEffect
<1>11. b \in Blocks \cup {NULL} /\ SetsPart(mine, p, b)
  BY <1>4, <1>9 DEF SetsPart
<1>12. /\ snapshot' \in [Snapshots -> SnapshotRecords \cup {NULL}]
       /\ Live' = Live
       /\ \A x \in Live : snapshot'[x].references = snapshot[x].references
       /\ \A x \in Live \ {mine} : Table(x)' = Table(x)
       /\ Table(mine)' = [Table(mine) EXCEPT ![p] = b]
  BY <1>1, <1>5, <1>6, <1>11, TableSet
<1>13. ~(p < p) /\ Table(mine)[p] = NULL
  BY <1>5, Nulls
<1>14. /\ Uses(b)' = Uses(b) \cup {<<mine, p>>} /\ <<mine, p>> \notin Uses(b)
       /\ \A c \in Blocks : c # b => Uses(c)' = Uses(c)
  <2>1. <<mine, p>> \notin Uses(b)
    BY <1>9, <1>13 DEF Uses, Table
  <2>2. \A c \in Blocks : c # Table(mine)[p]
    BY <1>13, Nulls
  <2>. QED
    BY <1>1, <1>5, <1>6, <1>12, <2>1, <2>2, UsesSet
<1>15. PICK at, part : /\ at = IF p = ChunkCount THEN "ready" ELSE "clone"
                       /\ part = IF p = ChunkCount THEN NULL ELSE p + 1
  OBVIOUS
<1>16. Says(thread', t, at, base, mine, part, NULL, NULL)
  <2>1. CASE p = ChunkCount
    <3>1. "ready" \in Places /\ NULL \in Parts \cup {NULL}
      BY DEF Places
    <3>. QED
      BY <1>1, <1>2, <1>4, <1>7, <1>15, <2>1, <3>1, MovesTo
  <2>2. CASE p # ChunkCount
    <3>1. p + 1 \in Parts \cup {NULL}
      BY <1>5, <2>2, Nulls, ChunkAssumption
    <3>2. Says(thread, t, "clone", base, mine, p, NULL, NULL)
      BY <1>1, <1>2, <1>4, <1>7, SaysItself
    <3>3. Says([thread EXCEPT ![t].part = p + 1], t, "clone", base, mine, p + 1, NULL, NULL)
      BY <3>1, <3>2, SetPart
    <3>. QED
      BY <1>4, <1>15, <2>2, <3>3
  <2>. QED
    BY <2>1, <2>2
<1>17. /\ thread'[t].at = at /\ thread'[t].part = part
       /\ thread'[t].base = base /\ thread'[t].mine = mine
       /\ thread'[t].old = NULL /\ thread'[t].freeing = NULL
       /\ \A u \in Threads \ {t} : thread'[u] = thread[u]
  BY <1>16 DEF Says
<1>18. SameSnapshots
  BY <1>12 DEF SameSnapshots
<1>19. KeepsTables(t)
  BY <1>2, <1>5, <1>6, <1>12, MineKept
<1>20. KeepsWriters(t)
  <2>1. ASSUME NEW u \in Threads \ {t}, thread[u].at \in {"let go", "store"}
        PROVE  LET c == Table(thread[u].mine)[thread[u].part]
               IN block'[c] # NULL /\ block'[c].references = 1
    <3>1. PICK c : c = Table(thread[u].mine)[thread[u].part]
      OBVIOUS
    <3>2. c \in Blocks /\ block[c] # NULL /\ block[c].references = 1
      BY <2>1, <3>1, WriterAlone
    <3>3. \E s \in {thread[t].base, thread[t].mine, thread[t].freeing}, q \in Parts :
            s # NULL /\ Table(s)[q] = b
      BY <1>2, <1>3, <1>5
    <3>4. c # b
      BY <1>9, <2>1, <3>1, <3>3, WriterSafe
    <3>. QED
      BY <1>10, <3>1, <3>2, <3>4
  <2>. QED
    BY <2>1 DEF KeepsWriters
<1>21. AllCounted'
  <2>1. \A c : Owes(c)' = Owes(c)
    BY <1>7, <1>17, SameHolders DEF Others
  <2>2. ASSUME NEW c \in Blocks, c # b PROVE BlockCounted(c)'
    BY <1>1, <1>10, <1>14, <2>1, <2>2, SameBlock
  <2>3. BlockCounted(b)'
    <3>1. Cardinality(Uses(b)') = Cardinality(Uses(b)) + 1
      BY <1>14, Counts, CountAdd
    <3>2. Cardinality(Owes(b)') = Cardinality(Owes(b))
      BY <2>1
    <3>3. block[b].references = Cardinality(Uses(b)) + Cardinality(Owes(b))
      BY <1>1, <1>9 DEF BlockCounted
    <3>4. block'[b].references = Cardinality(Uses(b)') + Cardinality(Owes(b)')
      BY <1>10, <3>1, <3>2, <3>3, Counts
    <3>. QED
      BY <1>10, <3>4 DEF BlockCounted
  <2>. QED
    BY <2>2, <2>3 DEF AllCounted
<1>22. ASSUME NEW q \in Parts
       PROVE  Table(mine)'[q] = IF q < p \/ q = p THEN Table(base)[q] ELSE NULL
  BY <1>1, <1>3, <1>5, <1>6, <1>12, TableType
<1>23. TablesFull'
  <2>1. \A x : Freed(x)' <=> Freed(x)
    BY <1>7, <1>17, SameHolders DEF Others
  <2>2. \A x \in Live : x # mine /\ ~Cloned(x)' => ~Cloned(x)
    BY <1>2, <1>17 DEF Cloned
  <2>3. ASSUME ~Cloned(mine)' PROVE \A q \in Parts : Table(mine)'[q] # NULL
    <3>1. at # "clone"
      BY <1>17, <2>3 DEF Cloned
    <3>2. p = ChunkCount
      BY <1>15, <3>1
    <3>3. \A q \in Parts : q < p \/ q = p
      BY <3>2, Nulls, ChunkAssumption
    <3>. QED
      BY <1>8, <1>22, <3>3
  <2>4. ASSUME NEW x \in Live, ~Cloned(x)', ~Freed(x)', NEW q \in Parts
        PROVE  Table(x)'[q] # NULL
    BY <1>1, <1>12, <2>1, <2>2, <2>3, <2>4 DEF TablesFull, Table
  <2>. QED
    BY <1>12, <2>4 DEF TablesFull, Table
<1>24. ThreadSound(t)'
  <2>1. CASE p = ChunkCount
    BY <1>15, <1>17, <2>1 DEF ThreadSound
  <2>2. CASE p # ChunkCount
    <3>1. p + 1 \in Parts /\ \A q \in Parts : q < p + 1 <=> q < p \/ q = p
      BY <1>5, <2>2, Nulls, ChunkAssumption
    <3>2. Table(base)' = Table(base)
      BY <1>6, <1>12
    <3>3. ASSUME NEW q \in Parts
          PROVE  Table(mine)'[q] = IF q < p + 1 THEN Table(base)'[q] ELSE NULL
      BY <1>22, <3>1, <3>2
    <3>4. CloneSound(t)'
      BY <1>4, <1>5, <1>15, <1>17, <2>2, <3>1, <3>3 DEF CloneSound, Table
    <3>. QED
      BY <1>15, <1>17, <2>2, <3>4 DEF ThreadSound
  <2>. QED
    BY <2>1, <2>2
<1>25. Says(thread', t, at, thread[t].base, thread[t].mine, part, NULL, thread[t].freeing)
  BY <1>2, <1>7, <1>16
<1>. QED
  BY <1>4, <1>10, <1>12, <1>18, <1>19, <1>20, <1>21, <1>23, <1>24, <1>25, BlockStep

\* What somebody counts on is there.
LEMMA CountedBlock ==
  ASSUME ChunkInv, NEW b \in Blocks, Uses(b) # {} \/ Owes(b) # {}
  PROVE  /\ block[b] # NULL /\ block[b].references \in Nat \ {0}
         /\ block[b].references = Cardinality(Uses(b)) + Cardinality(Owes(b))
<1>1. Types /\ BlockCounted(b)
  BY InvSplit
<1>2. /\ Cardinality(Uses(b)) \in Nat /\ Cardinality(Owes(b)) \in Nat
      /\ Uses(b) # {} => Cardinality(Uses(b)) # 0
      /\ Owes(b) # {} => Cardinality(Owes(b)) # 0
  BY Counts, CountZero
<1>3. block[b] # NULL
  BY <1>1, <1>2 DEF BlockCounted
<1>. QED
  BY <1>1, <1>3, BlockType DEF BlockCounted

\* A free address is in no table, and no writer owes it.
LEMMA FreeUnused ==
  ASSUME ChunkInv, NEW b \in FreeBlocks
  PROVE  b \in Blocks /\ block[b] = NULL /\ Uses(b) = {} /\ Owes(b) = {}
<1>1. b \in Blocks /\ block[b] = NULL
  BY DEF FreeBlocks
<1>. QED
  BY <1>1, CountedBlock

\* A block that loses one of its users.
LEMMA OneLess ==
  ASSUME ChunkInv, NEW b \in Blocks, block[b] # NULL,
         IF block[b].references = 1 THEN block'[b] = NULL
         ELSE block'[b] # NULL /\ block'[b].references = block[b].references - 1,
         Cardinality(Uses(b)') + Cardinality(Owes(b)') =
           Cardinality(Uses(b)) + Cardinality(Owes(b)) - 1
  PROVE  BlockCounted(b)'
<1>1. BlockCounted(b) /\ Types
  BY InvSplit
<1>2. PICK m : m = Cardinality(Uses(b)) + Cardinality(Owes(b))
  OBVIOUS
<1>3. block[b].references = m
  BY <1>1, <1>2 DEF BlockCounted
<1>4. m \in Nat
  BY <1>1, <1>3, BlockType
<1>5. Cardinality(Uses(b)') + Cardinality(Owes(b)') = m - 1
  <2>1. Cardinality(Uses(b)) \in Nat /\ Cardinality(Owes(b)) \in Nat
    BY Counts
  <2>. QED
    BY <1>2, <2>1
<1>6. CASE m = 1
  BY <1>3, <1>5, <1>6 DEF BlockCounted
<1>7. CASE m # 1
  BY <1>3, <1>5, <1>7 DEF BlockCounted
<1>. QED
  BY <1>6, <1>7

LEMMA WriteLetGoStep ==
  ASSUME ChunkInv, NEW t \in Threads, WriteLetGo(t)
  PROVE  ChunkInv'
<1>1. /\ Types /\ HeldLive /\ TablesFull /\ ThreadSound(t)
      /\ \A c \in Blocks : BlockCounted(c)
  BY InvSplit
<1>2. PICK b, p, mine : b = thread[t].old /\ p = thread[t].part /\ mine = thread[t].mine
  OBVIOUS
<1>3. /\ thread[t].at = "let go" /\ UNCHANGED <<snapshot, cached, published>>
      /\ block' = ReleasedPart(b)
      /\ thread' = [thread EXCEPT ![t].at = "store", ![t].old = NULL]
  BY <1>2 DEF WriteLetGo
<1>4. b # NULL /\ b \in Blocks /\ t \in Owes(b) /\ thread[t].freeing = NULL
  BY <1>1, <1>2, <1>3, PlaceFacts, ThreadType DEF Owes
<1>5. block[b] # NULL
  BY <1>4, CountedBlock
<1>6. /\ block' \in [Blocks -> BlockRecords \cup {NULL}]
      /\ \A c \in Blocks \ {b} : block'[c] = block[c]
      /\ IF block[b].references = 1 THEN block'[b] = NULL
         ELSE block'[b] # NULL /\ block'[b].references = block[b].references - 1
  BY <1>1, <1>3, <1>4, <1>5, ReleasedEffect
<1>7. Says(thread', t, "store", thread[t].base, thread[t].mine, p, NULL, thread[t].freeing)
  <2>1. "store" \in Places /\ NULL \in Blocks \cup {NULL}
    BY DEF Places
  <2>2. PICK f : f = [thread EXCEPT ![t].at = "store"]
    OBVIOUS
  <2>3. Says(f, t, "store", thread[t].base, thread[t].mine, thread[t].part,
             thread[t].old, thread[t].freeing)
    BY <1>1, <2>1, <2>2, SaysItself, SetAt
  <2>4. Says([f EXCEPT ![t].old = NULL], t, "store", thread[t].base, thread[t].mine,
             thread[t].part, NULL, thread[t].freeing)
    BY <2>1, <2>3, SetOld
  <2>5. thread' = [f EXCEPT ![t].old = NULL]
    BY <1>3, <2>2
  <2>. QED
    BY <1>2, <2>4, <2>5
<1>8. /\ thread'[t].at = "store" /\ thread'[t].part = p /\ thread'[t].mine = mine
      /\ thread'[t].old = NULL /\ thread'[t].freeing = NULL
      /\ thread'[t].freeing = thread[t].freeing
      /\ \A u \in Threads \ {t} : thread'[u] = thread[u]
  BY <1>2, <1>4, <1>7 DEF Says
<1>9. Live' = Live /\ snapshot' = snapshot /\ \A x : Table(x)' = Table(x)
  BY <1>3 DEF Live, Table
<1>10. SameSnapshots /\ KeepsTables(t)
  BY <1>9 DEF SameSnapshots, KeepsTables
<1>11. KeepsWriters(t)
  <2>1. ASSUME NEW u \in Threads \ {t}, thread[u].at \in {"let go", "store"}
        PROVE  LET c == Table(thread[u].mine)[thread[u].part]
               IN block'[c] # NULL /\ block'[c].references = 1
    <3>1. PICK c : c = Table(thread[u].mine)[thread[u].part]
      OBVIOUS
    <3>2. c \in Blocks /\ block[c] # NULL /\ block[c].references = 1
      BY <2>1, <3>1, WriterAlone
    <3>3. c # b
      BY <1>2, <1>4, <2>1, <3>1, WriterSafe
    <3>. QED
      BY <1>6, <3>1, <3>2, <3>3
  <2>. QED
    BY <2>1 DEF KeepsWriters
<1>12. AllCounted'
  <2>1. \A c : Uses(c)' = Uses(c)
    BY <1>9, SameUses
  <2>2. /\ \A c \in Blocks : c # b => Owes(c)' = Owes(c)
        /\ Owes(b)' = Owes(b) \ {t}
    BY <1>2, <1>4, <1>8, Holders, Nulls DEF Owes
  <2>3. ASSUME NEW c \in Blocks, c # b PROVE BlockCounted(c)'
    BY <1>1, <1>6, <2>1, <2>2, <2>3, SameBlock
  <2>4. Cardinality(Owes(b)') = Cardinality(Owes(b)) - 1
    BY <1>4, <2>2, Counts, CountRemove
  <2>5. Cardinality(Uses(b)') + Cardinality(Owes(b)') =
          Cardinality(Uses(b)) + Cardinality(Owes(b)) - 1
    BY <2>1, <2>4, Counts
  <2>6. BlockCounted(b)'
    BY <1>4, <1>5, <1>6, <2>5, OneLess
  <2>. QED
    BY <2>3, <2>6 DEF AllCounted
<1>13. TablesFull'
  <2>1. \A x : (Freed(x)' <=> Freed(x)) /\ (Cloned(x)' <=> Cloned(x))
    BY <1>3, <1>8, SameHolders DEF Others
  <2>. QED
    BY <1>1, <1>9, <2>1 DEF TablesFull
<1>14. ThreadSound(t)'
  <2>1. PICK c : c = Table(mine)[p]
    OBVIOUS
  <2>2. c \in Blocks /\ block[c] # NULL /\ block[c].references = 1 /\ Owes(c) = {}
    BY <1>2, <1>3, <2>1, WriterAlone
  <2>3. c # b
    BY <1>4, <2>2
  <2>4. block'[c] # NULL /\ block'[c].references = 1
    BY <1>6, <2>2, <2>3
  <2>5. mine # NULL /\ mine \notin published' /\ p \in Chunks
    BY <1>1, <1>2, <1>3 DEF ThreadSound, WriteSound
  <2>6. WriteSound(t)'
    BY <1>8, <1>9, <2>1, <2>4, <2>5 DEF WriteSound, Table
  <2>. QED
    BY <1>8, <2>6 DEF ThreadSound
<1>15. snapshot' \in [Snapshots -> SnapshotRecords \cup {NULL}]
  BY <1>1, <1>9 DEF Types
<1>. QED
  BY <1>3, <1>6, <1>7, <1>10, <1>11, <1>12, <1>13, <1>14, <1>15, BlockStep

LEMMA WriteCopyStep ==
  ASSUME ChunkInv, NEW t \in Threads, WriteCopy(t)
  PROVE  ChunkInv'
<1>1. /\ Types /\ HeldLive /\ TablesFull /\ ThreadSound(t)
      /\ \A c \in Blocks : BlockCounted(c)
  BY InvSplit
<1>2. PICK p, mine : p = thread[t].part /\ mine = thread[t].mine
  OBVIOUS
<1>3. PICK b : b = Table(mine)[p]
  OBVIOUS
<1>4. PICK copy \in {Lowest(FreeBlocks, 1)} :
        /\ block' = [block EXCEPT ![copy] = Copied(b)]
        /\ snapshot' = [snapshot EXCEPT ![mine].table[p] = copy]
  BY <1>2, <1>3 DEF WriteCopy, Table
<1>5. /\ thread[t].at = "copy" /\ UNCHANGED <<cached, published>> /\ FreeBlocks # {}
      /\ thread' = [thread EXCEPT ![t].at = "let go", ![t].old = b]
  BY <1>2, <1>3 DEF WriteCopy, Table
<1>6. copy \in FreeBlocks
  BY <1>4, <1>5, FreeOnes
<1>7. copy \in Blocks /\ block[copy] = NULL /\ Uses(copy) = {} /\ Owes(copy) = {} /\ copy # NULL
  BY <1>6, FreeUnused, Nulls
<1>8. /\ mine # NULL /\ mine \notin published /\ p \in Chunks /\ p \in Parts
      /\ thread[t].old = NULL /\ thread[t].freeing = NULL
  BY <1>1, <1>2, <1>5, PlaceFacts, Nulls DEF ThreadSound, WriteSound
<1>9. mine \in Live /\ b \in Blocks /\ block[b] # NULL /\ block[b].references \in Nat \ {0}
      /\ b # NULL /\ b # copy
  <2>1. mine \in Live
    BY <1>1, <1>2, <1>8, ThreadType
  <2>2. b \in Blocks /\ block[b] # NULL /\ block[b].references \in Nat \ {0}
    BY <1>2, <1>3, <1>5, <1>8, MineFull
  <2>. QED
    BY <1>7, <2>1, <2>2, Nulls
<1>10. PICK new : new = Copied(b)
  OBVIOUS
<1>11. new \in BlockRecords /\ new # NULL /\ new.references = 1
  BY <1>1, <1>9, <1>10, BlockType, Nulls DEF Copied, New, BlockRecords
<1>12. /\ block' \in [Blocks -> BlockRecords \cup {NULL}]
       /\ block'[copy] = new /\ \A c \in Blocks \ {copy} : block'[c] = block[c]
  BY <1>1, <1>4, <1>7, <1>10, <1>11 DEF Types
<1>13. /\ snapshot' \in [Snapshots -> SnapshotRecords \cup {NULL}]
       /\ Live' = Live
       /\ \A x \in Live : snapshot'[x].references = snapshot[x].references
       /\ \A x \in Live \ {mine} : Table(x)' = Table(x)
       /\ Table(mine)' = [Table(mine) EXCEPT ![p] = copy]
  <2>1. copy \in Blocks \cup {NULL} /\ SetsPart(mine, p, copy)
    BY <1>4, <1>7 DEF SetsPart
  <2>. QED
    BY <1>1, <1>8, <1>9, <2>1, TableSet
<1>14. /\ Uses(copy)' = {<<mine, p>>} /\ Uses(b)' = Uses(b) \ {<<mine, p>>}
       /\ <<mine, p>> \in Uses(b)
       /\ \A c \in Blocks : c # copy /\ c # b => Uses(c)' = Uses(c)
  <2>1. <<mine, p>> \in Uses(b)
    BY <1>3, <1>8, <1>9 DEF Uses, Table
  <2>2. /\ Uses(copy)' = Uses(copy) \cup {<<mine, p>>}
        /\ b # copy => Uses(b)' = Uses(b) \ {<<mine, p>>}
        /\ \A c : c # copy /\ c # b => Uses(c)' = Uses(c)
    BY <1>1, <1>3, <1>8, <1>9, <1>13, UsesSet
  <2>. QED
    BY <1>7, <1>9, <2>1, <2>2
<1>15. Says(thread', t, "let go", thread[t].base, thread[t].mine, p, b, thread[t].freeing)
  <2>1. "let go" \in Places /\ b \in Blocks \cup {NULL}
    BY <1>9 DEF Places
  <2>2. PICK f : f = [thread EXCEPT ![t].at = "let go"]
    OBVIOUS
  <2>3. Says(f, t, "let go", thread[t].base, thread[t].mine, thread[t].part,
             thread[t].old, thread[t].freeing)
    BY <1>1, <2>1, <2>2, SaysItself, SetAt
  <2>4. Says([f EXCEPT ![t].old = b], t, "let go", thread[t].base, thread[t].mine,
             thread[t].part, b, thread[t].freeing)
    BY <2>1, <2>3, SetOld
  <2>5. thread' = [f EXCEPT ![t].old = b]
    BY <1>5, <2>2
  <2>. QED
    BY <1>2, <2>4, <2>5
<1>16. /\ thread'[t].at = "let go" /\ thread'[t].part = p /\ thread'[t].mine = mine
       /\ thread'[t].old = b /\ thread'[t].freeing = NULL
       /\ thread'[t].freeing = thread[t].freeing
       /\ \A u \in Threads \ {t} : thread'[u] = thread[u]
  BY <1>2, <1>8, <1>15 DEF Says
<1>17. SameSnapshots
  BY <1>13 DEF SameSnapshots
<1>18. KeepsTables(t)
  BY <1>2, <1>8, <1>9, <1>13, MineKept
<1>19. KeepsWriters(t)
  <2>1. ASSUME NEW u \in Threads \ {t}, thread[u].at \in {"let go", "store"}
        PROVE  LET c == Table(thread[u].mine)[thread[u].part]
               IN block'[c] # NULL /\ block'[c].references = 1
    <3>1. PICK c : c = Table(thread[u].mine)[thread[u].part]
      OBVIOUS
    <3>2. c \in Blocks /\ block[c] # NULL /\ block[c].references = 1
      BY <2>1, <3>1, WriterAlone
    <3>. QED
      BY <1>7, <1>12, <3>1, <3>2
  <2>. QED
    BY <2>1 DEF KeepsWriters
<1>20. AllCounted'
  <2>1. /\ \A c \in Blocks : c # b => Owes(c)' = Owes(c)
        /\ Owes(b)' = Owes(b) \cup {t} /\ t \notin Owes(b)
    <3>1. \A c \in Blocks : t \notin Owes(c)
      BY <1>8, Nulls DEF Owes
    <3>2. \A c : Owes(c)' = IF b = c THEN Owes(c) \cup {t} ELSE Owes(c) \ {t}
      BY <1>16, Holders
    <3>. QED
      BY <1>9, <3>1, <3>2
  <2>2. ASSUME NEW c \in Blocks, c # b, c # copy PROVE BlockCounted(c)'
    BY <1>1, <1>12, <1>14, <2>1, <2>2, SameBlock
  <2>3. BlockCounted(copy)'
    <3>1. Cardinality(Uses(copy)') = 1
      BY <1>14, FS_Singleton
    <3>2. Cardinality(Owes(copy)') = 0
      BY <1>7, <1>9, <2>1, FS_EmptySet
    <3>. QED
      BY <1>11, <1>12, <3>1, <3>2 DEF BlockCounted
  <2>4. BlockCounted(b)'
    <3>1. Cardinality(Uses(b)') = Cardinality(Uses(b)) - 1
      BY <1>14, Counts, CountRemove
    <3>2. Cardinality(Owes(b)') = Cardinality(Owes(b)) + 1
      BY <2>1, Counts, CountAdd
    <3>3. Cardinality(Uses(b)') + Cardinality(Owes(b)') = Cardinality(Uses(b)) + Cardinality(Owes(b))
      BY <3>1, <3>2, Counts
    <3>4. block'[b] = block[b]
      BY <1>9, <1>12
    <3>. QED
      BY <1>1, <1>9, <3>3, <3>4 DEF BlockCounted
  <2>. QED
    BY <2>2, <2>3, <2>4 DEF AllCounted
<1>21. \A q \in Parts : Table(mine)'[q] = IF q = p THEN copy ELSE Table(mine)[q]
  BY <1>1, <1>8, <1>9, <1>13, TableType
<1>22. TablesFull'
  <2>1. \A x : (Freed(x)' <=> Freed(x)) /\ (Cloned(x)' <=> Cloned(x))
    BY <1>5, <1>16, SameHolders DEF Others
  <2>2. ASSUME NEW x \in Live, ~Cloned(x)', ~Freed(x)', NEW q \in Parts
        PROVE  Table(x)'[q] # NULL
    <3>1. Table(x)[q] # NULL
      BY <1>1, <2>1, <2>2 DEF TablesFull, Table
    <3>. QED
      BY <1>7, <1>13, <1>21, <3>1
  <2>. QED
    BY <1>13, <2>2 DEF TablesFull, Table
<1>23. ThreadSound(t)'
  <2>1. Table(mine)'[p] = copy
    BY <1>8, <1>21
  <2>2. published' = published
    BY <1>5
  <2>3. WriteSound(t)'
    BY <1>8, <1>11, <1>12, <1>16, <2>1, <2>2 DEF WriteSound, Table
  <2>. QED
    BY <1>9, <1>16, <2>3 DEF ThreadSound
<1>. QED
  BY <1>5, <1>12, <1>13, <1>15, <1>17, <1>18, <1>19, <1>20, <1>22, <1>23, BlockStep

\* Facts of a thread that frees: what it has reached, and that nobody else has it.
LEMMA FreeFacts ==
  ASSUME ChunkInv, NEW t \in Threads, thread[t].at = "free"
  PROVE  /\ thread[t].freeing \in Live /\ thread[t].freeing \notin published
         /\ snapshot[thread[t].freeing].references = 0
         /\ thread[t].part \in Parts /\ thread[t].old = NULL
         /\ \A p \in Parts : Table(thread[t].freeing)[p] = NULL
                               <=> p # Topology /\ (thread[t].part = Topology \/ p < thread[t].part)
<1>1. Types /\ HeldLive /\ FreedAlone /\ FreeSound(t)
  BY InvSplit DEF ThreadSound
<1>2. thread[t].freeing # NULL /\ thread[t].old = NULL
  BY PlaceFacts
<1>3. thread[t].freeing \in Live
  BY <1>1, <1>2, ThreadType
<1>4. snapshot[thread[t].freeing].references = 0 /\ thread[t].freeing \notin published
  BY <1>1, <1>3 DEF FreedAlone, Freed
<1>. QED
  BY <1>1, <1>2, <1>3, <1>4 DEF FreeSound, Table

\* What letting go of a block of s does to the other threads.
LEMMA FreeSafe ==
  ASSUME ChunkInv, NEW t \in Threads, thread[t].at = "free", NEW p \in Parts, NEW b \in Blocks,
         b = Table(thread[t].freeing)[p], block' = ReleasedPart(b)
  PROVE  /\ block[b] # NULL /\ <<thread[t].freeing, p>> \in Uses(b)
         /\ block' \in [Blocks -> BlockRecords \cup {NULL}]
         /\ \A c \in Blocks \ {b} : block'[c] = block[c]
         /\ IF block[b].references = 1 THEN block'[b] = NULL
            ELSE block'[b] # NULL /\ block'[b].references = block[b].references - 1
         /\ KeepsWriters(t)
<1>1. Types
  BY InvSplit
<1>2. thread[t].freeing \in Live /\ b # NULL /\ thread[t].freeing # NULL
  BY <1>1, FreeFacts, Nulls, TableType
<1>3. <<thread[t].freeing, p>> \in Uses(b)
  BY <1>2 DEF Uses, Table
<1>4. block[b] # NULL
  BY <1>3, CountedBlock
<1>5. /\ block' \in [Blocks -> BlockRecords \cup {NULL}]
      /\ \A c \in Blocks \ {b} : block'[c] = block[c]
      /\ IF block[b].references = 1 THEN block'[b] = NULL
         ELSE block'[b] # NULL /\ block'[b].references = block[b].references - 1
  BY <1>1, <1>4, ReleasedEffect
<1>6. KeepsWriters(t)
  <2>1. ASSUME NEW u \in Threads \ {t}, thread[u].at \in {"let go", "store"}
        PROVE  LET c == Table(thread[u].mine)[thread[u].part]
               IN block'[c] # NULL /\ block'[c].references = 1
    <3>1. PICK c : c = Table(thread[u].mine)[thread[u].part]
      OBVIOUS
    <3>2. c \in Blocks /\ block[c] # NULL /\ block[c].references = 1
      BY <2>1, <3>1, WriterAlone
    <3>3. \E s \in {thread[t].base, thread[t].mine, thread[t].freeing}, q \in Parts :
            s # NULL /\ Table(s)[q] = b
      BY <1>2
    <3>4. c # b
      BY <2>1, <3>1, <3>3, WriterSafe
    <3>. QED
      BY <1>5, <3>1, <3>2, <3>4
  <2>. QED
    BY <2>1 DEF KeepsWriters
<1>. QED
  BY <1>3, <1>4, <1>5, <1>6

LEMMA FreeChunkStep ==
  ASSUME ChunkInv, NEW t \in Threads, FreePart(t), thread[t].part # Topology
  PROVE  ChunkInv'
<1>1. /\ Types /\ HeldLive /\ TablesFull
      /\ \A c \in Blocks : BlockCounted(c)
  BY InvSplit
<1>2. PICK p, s : p = thread[t].part /\ s = thread[t].freeing
  OBVIOUS
<1>3. PICK b : b = Table(s)[p]
  OBVIOUS
<1>4. /\ thread[t].at = "free" /\ UNCHANGED <<cached, published>>
      /\ block' = ReleasedPart(b) /\ snapshot' = [snapshot EXCEPT ![s].table[p] = NULL]
      /\ thread' = [thread EXCEPT ![t].part = (p + 1) % (ChunkCount + 1)]
  BY <1>2, <1>3 DEF FreePart, Table
<1>5. /\ s \in Live /\ s \notin published /\ p \in Parts /\ thread[t].old = NULL /\ p # Topology
      /\ \A q \in Parts : Table(s)[q] = NULL <=> q # Topology /\ (p = Topology \/ q < p)
  BY <1>2, <1>4, FreeFacts
<1>6. b # NULL /\ b \in Blocks
  <2>1. ~(p < p)
    BY <1>5, Nulls
  <2>. QED
    BY <1>1, <1>3, <1>5, <2>1, TableType
<1>7. /\ block[b] # NULL /\ <<s, p>> \in Uses(b)
      /\ block' \in [Blocks -> BlockRecords \cup {NULL}]
      /\ \A c \in Blocks \ {b} : block'[c] = block[c]
      /\ IF block[b].references = 1 THEN block'[b] = NULL
         ELSE block'[b] # NULL /\ block'[b].references = block[b].references - 1
      /\ KeepsWriters(t)
  <2>1. b = Table(thread[t].freeing)[p] /\ thread[t].freeing = s
    BY <1>2, <1>3
  <2>. QED
    BY <1>4, <1>5, <1>6, <2>1, FreeSafe
<1>8. /\ snapshot' \in [Snapshots -> SnapshotRecords \cup {NULL}]
      /\ Live' = Live
      /\ \A x \in Live : snapshot'[x].references = snapshot[x].references
      /\ \A x \in Live \ {s} : Table(x)' = Table(x)
      /\ Table(s)' = [Table(s) EXCEPT ![p] = NULL]
  <2>1. PICK v \in Blocks \cup {NULL} : v = NULL
    OBVIOUS
  <2>2. SetsPart(s, p, v)
    BY <1>4, <2>1 DEF SetsPart
  <2>3. /\ snapshot' \in [Snapshots -> SnapshotRecords \cup {NULL}]
        /\ Live' = Live
        /\ \A x \in Live : snapshot'[x].references = snapshot[x].references
        /\ \A x \in Live \ {s} : Table(x)' = Table(x)
        /\ Table(s)' = [Table(s) EXCEPT ![p] = v]
    BY <1>1, <1>5, <2>2, TableSet
  <2>. QED
    BY <2>1, <2>3
<1>9. /\ Uses(b)' = Uses(b) \ {<<s, p>>}
      /\ \A c \in Blocks : c # b => Uses(c)' = Uses(c)
  <2>1. /\ b # NULL => Uses(b)' = Uses(b) \ {<<s, p>>}
        /\ \A c : c # NULL /\ c # b => Uses(c)' = Uses(c)
    BY <1>1, <1>3, <1>5, <1>8, UsesSet
  <2>. QED
    BY <1>6, <2>1, Nulls
<1>10. PICK part : part = (p + 1) % (ChunkCount + 1)
  OBVIOUS
<1>11. part = (IF p = ChunkCount THEN 0 ELSE p + 1) /\ part \in Parts
  <2>1. p \in 0 .. ChunkCount /\ ChunkCount \in Nat \ {0}
    BY <1>5, Nulls, ChunkAssumption
  <2>2. CASE p = ChunkCount
    BY <1>10, <2>1, <2>2, Nulls
  <2>3. CASE p # ChunkCount
    BY <1>10, <2>1, <2>3, Nulls
  <2>. QED
    BY <2>2, <2>3
<1>12. Says(thread', t, "free", thread[t].base, thread[t].mine, part, NULL, thread[t].freeing)
  <2>1. Says(thread, t, "free", thread[t].base, thread[t].mine, p, NULL, thread[t].freeing)
    BY <1>1, <1>2, <1>4, <1>5, SaysItself
  <2>2. Says([thread EXCEPT ![t].part = part], t, "free", thread[t].base, thread[t].mine,
             part, NULL, thread[t].freeing)
    BY <1>11, <2>1, SetPart
  <2>. QED
    BY <1>4, <1>10, <2>2
<1>13. /\ thread'[t].at = "free" /\ thread'[t].part = part
       /\ thread'[t].old = NULL /\ thread'[t].freeing = s
       /\ thread'[t].freeing = thread[t].freeing
       /\ \A u \in Threads \ {t} : thread'[u] = thread[u]
  BY <1>2, <1>12 DEF Says
<1>14. SameSnapshots
  BY <1>8 DEF SameSnapshots
<1>15. KeepsTables(t)
  BY <1>2, <1>5, <1>8, MineKept
<1>16. AllCounted'
  <2>1. \A c : Owes(c)' = Owes(c)
    BY <1>5, <1>13, SameHolders DEF Others
  <2>2. ASSUME NEW c \in Blocks, c # b PROVE BlockCounted(c)'
    BY <1>1, <1>7, <1>9, <2>1, <2>2, SameBlock
  <2>3. Cardinality(Uses(b)') = Cardinality(Uses(b)) - 1
    BY <1>7, <1>9, Counts, CountRemove
  <2>4. Cardinality(Uses(b)') + Cardinality(Owes(b)') =
          Cardinality(Uses(b)) + Cardinality(Owes(b)) - 1
    BY <2>1, <2>3, Counts
  <2>5. BlockCounted(b)'
    BY <1>6, <1>7, <2>4, OneLess
  <2>. QED
    BY <2>2, <2>5 DEF AllCounted
<1>17. TablesFull'
  <2>1. \A x : (Freed(x)' <=> Freed(x)) /\ (Cloned(x)' <=> Cloned(x))
    BY <1>4, <1>13, SameHolders DEF Others
  <2>2. Freed(s)
    BY <1>2 DEF Freed
  <2>3. ASSUME NEW x \in Live, ~Cloned(x)', ~Freed(x)', NEW q \in Parts
        PROVE  Table(x)'[q] # NULL
    BY <1>1, <1>8, <2>1, <2>2, <2>3 DEF TablesFull, Table
  <2>. QED
    BY <1>8, <2>3 DEF TablesFull, Table
<1>18. ThreadSound(t)'
  <2>1. \A q \in Parts : Table(s)'[q] = IF q = p THEN NULL ELSE Table(s)[q]
    BY <1>1, <1>5, <1>8, TableType
  <2>2. ASSUME NEW q \in Parts
        PROVE  Table(s)'[q] = NULL <=> q # Topology /\ (part = Topology \/ q < part)
    <3>1. p \in 0 .. ChunkCount /\ q \in 0 .. ChunkCount /\ Topology = 0 /\ ChunkCount \in Nat
      BY <1>5, Nulls, ChunkAssumption DEF Topology
    <3>2. q # Topology /\ (part = Topology \/ q < part) <=> q = p \/ (q # Topology /\ q < p)
      <4>1. CASE p = ChunkCount
        BY <1>5, <1>11, <3>1, <4>1
      <4>2. CASE p # ChunkCount
        BY <1>5, <1>11, <3>1, <4>2
      <4>. QED
        BY <4>1, <4>2
    <3>. QED
      BY <1>5, <2>1, <3>2
  <2>3. FreeSound(t)'
    BY <1>11, <1>13, <2>2 DEF FreeSound, Table
  <2>4. s # NULL
    BY <1>1, <1>5, TableType
  <2>. QED
    BY <1>13, <2>3, <2>4 DEF ThreadSound
<1>. QED
  BY <1>4, <1>7, <1>8, <1>12, <1>14, <1>15, <1>16, <1>17, <1>18, BlockStep

LEMMA FreeTopologyStep ==
  ASSUME ChunkInv, NEW t \in Threads, FreePart(t), thread[t].part = Topology
  PROVE  ChunkInv'
<1>1. /\ Types /\ HeldLive /\ cached \subseteq published
      /\ HeldAlone /\ FreedAlone /\ TablesFull
      /\ \A c \in Blocks : BlockCounted(c)
      /\ \A x \in Live : SnapshotCounted(x)
      /\ \A u \in Threads : ThreadSound(u)
  BY InvSplit
<1>2. PICK s : s = thread[t].freeing
  OBVIOUS
<1>3. PICK b : b = Table(s)[Topology]
  OBVIOUS
<1>4. /\ thread[t].at = "free" /\ UNCHANGED <<cached, published>>
      /\ block' = ReleasedPart(b) /\ snapshot' = [snapshot EXCEPT ![s] = NULL]
      /\ thread' = [thread EXCEPT ![t].at = "ready", ![t].freeing = NULL, ![t].part = NULL]
  BY <1>2, <1>3 DEF FreePart, Table
<1>5. /\ s \in Live /\ s \notin published /\ Topology \in Parts /\ thread[t].old = NULL
      /\ snapshot[s].references = 0
      /\ \A q \in Parts : Table(s)[q] = NULL <=> q # Topology
  BY <1>2, <1>4, FreeFacts, Nulls
<1>6. b # NULL /\ b \in Blocks /\ s \in Snapshots /\ s # NULL
  BY <1>1, <1>3, <1>5, TableType
<1>7. /\ block[b] # NULL /\ <<s, Topology>> \in Uses(b)
      /\ block' \in [Blocks -> BlockRecords \cup {NULL}]
      /\ \A c \in Blocks \ {b} : block'[c] = block[c]
      /\ IF block[b].references = 1 THEN block'[b] = NULL
         ELSE block'[b] # NULL /\ block'[b].references = block[b].references - 1
      /\ KeepsWriters(t)
  BY <1>2, <1>3, <1>4, <1>5, <1>6, FreeSafe
<1>8. /\ s \notin cached
      /\ \A u \in Threads : thread[u].base # s /\ thread[u].mine # s
      /\ \A u \in Threads \ {t} : thread[u].freeing # s
  BY <1>1, <1>2, <1>5, <1>6, NobodyHas DEF FreedAlone
<1>9. /\ snapshot' \in [Snapshots -> SnapshotRecords \cup {NULL}]
      /\ snapshot'[s] = NULL /\ \A x \in Snapshots \ {s} : snapshot'[x] = snapshot[x]
  BY <1>1, <1>4, <1>6 DEF Types
<1>10. Live' = Live \ {s} /\ Live \subseteq Snapshots
  BY <1>6, <1>9 DEF Live
<1>11. \A x \in Live \ {s} : Table(x)' = Table(x) /\ snapshot'[x] = snapshot[x]
  BY <1>9, <1>10 DEF Table
<1>12. /\ Uses(b)' = Uses(b) \ {<<s, Topology>>}
       /\ \A c \in Blocks : c # b => Uses(c)' = Uses(c)
  <2>1. ASSUME NEW c \in Blocks
        PROVE  Uses(c)' = {u \in Live \X Parts : u[1] # s /\ Table(u[1])[u[2]] = c}
    BY <1>10, <1>11 DEF Uses, Table
  <2>2. ASSUME NEW c \in Blocks
        PROVE  Uses(c) = {u \in Live \X Parts : Table(u[1])[u[2]] = c}
    BY DEF Uses, Table
  <2>3. ASSUME NEW u \in Live \X Parts, NEW c \in Blocks, Table(u[1])[u[2]] = c, u[1] = s
        PROVE  u = <<s, Topology>> /\ c = b
    <3>1. c # NULL
      BY Nulls
    <3>2. u[2] = Topology /\ u = <<u[1], u[2]>>
      BY <1>5, <2>3, <3>1
    <3>. QED
      BY <1>3, <2>3, <3>2
  <2>4. Uses(b)' = Uses(b) \ {<<s, Topology>>}
    <3>1. \A u \in Live \X Parts : u[1] # s /\ Table(u[1])[u[2]] = b
                                   <=> Table(u[1])[u[2]] = b /\ u # <<s, Topology>>
      BY <1>6, <2>3
    <3>. QED
      BY <1>6, <2>1, <2>2, <3>1
  <2>5. ASSUME NEW c \in Blocks, c # b PROVE Uses(c)' = Uses(c)
    <3>1. \A u \in Live \X Parts : u[1] # s /\ Table(u[1])[u[2]] = c <=> Table(u[1])[u[2]] = c
      BY <2>3, <2>5
    <3>. QED
      BY <2>1, <2>2, <3>1
  <2>. QED
    BY <2>4, <2>5
<1>13. Says(thread', t, "ready", thread[t].base, thread[t].mine, NULL, NULL, NULL)
  <2>1. "ready" \in Places /\ NULL \in Snapshots \cup {NULL} /\ NULL \in Parts \cup {NULL}
    BY DEF Places
  <2>2. PICK f : f = [thread EXCEPT ![t].at = "ready"]
    OBVIOUS
  <2>3. Says(f, t, "ready", thread[t].base, thread[t].mine, thread[t].part,
             thread[t].old, thread[t].freeing)
    BY <1>1, <2>1, <2>2, SaysItself, SetAt
  <2>4. PICK g : g = [f EXCEPT ![t].freeing = NULL]
    OBVIOUS
  <2>5. Says(g, t, "ready", thread[t].base, thread[t].mine, thread[t].part, thread[t].old, NULL)
    BY <2>1, <2>3, <2>4, SetFreeing
  <2>6. Says([g EXCEPT ![t].part = NULL], t, "ready", thread[t].base, thread[t].mine, NULL,
             thread[t].old, NULL)
    BY <2>1, <2>5, SetPart
  <2>7. thread' = [g EXCEPT ![t].part = NULL]
    BY <1>4, <2>2, <2>4
  <2>. QED
    BY <1>5, <2>6, <2>7
<1>14. /\ thread'[t].at = "ready" /\ thread'[t].base = thread[t].base
       /\ thread'[t].mine = thread[t].mine /\ thread'[t].old = NULL /\ thread'[t].freeing = NULL
       /\ thread' \in [Threads -> ThreadRecords]
       /\ \A u \in Threads \ {t} : thread'[u] = thread[u]
  BY <1>13 DEF Says
<1>15. /\ \A x : BaseOf(x)' = BaseOf(x) /\ MineOf(x)' = MineOf(x) /\ (Cloned(x)' <=> Cloned(x))
       /\ \A c : Owes(c)' = Owes(c)
  BY <1>4, <1>5, <1>14, SameHolders DEF Others
<1>16. \A x \in Live \ {s} : Freed(x)' <=> Freed(x)
  BY <1>2, <1>10, <1>14, Nulls DEF Freed
<1>17. Types'
  BY <1>1, <1>4, <1>7, <1>9, <1>14 DEF Types
<1>18. HeldLive'
  <2>1. cached' \subseteq Live' /\ published' \subseteq Live'
    BY <1>1, <1>4, <1>5, <1>8, <1>10 DEF HeldLive
  <2>2. ASSUME NEW u \in Threads
        PROVE  /\ thread'[u].base # NULL => thread'[u].base \in Live'
               /\ thread'[u].mine # NULL => thread'[u].mine \in Live'
               /\ thread'[u].freeing # NULL => thread'[u].freeing \in Live'
    BY <1>1, <1>8, <1>10, <1>14 DEF HeldLive
  <2>. QED
    BY <2>1, <2>2 DEF HeldLive
<1>19. \A c \in Blocks : BlockCounted(c)'
  <2>1. ASSUME NEW c \in Blocks, c # b PROVE BlockCounted(c)'
    BY <1>1, <1>7, <1>12, <1>15, <2>1, SameBlock
  <2>2. Cardinality(Uses(b)') = Cardinality(Uses(b)) - 1
    BY <1>7, <1>12, Counts, CountRemove
  <2>3. Cardinality(Uses(b)') + Cardinality(Owes(b)') =
          Cardinality(Uses(b)) + Cardinality(Owes(b)) - 1
    BY <1>15, <2>2, Counts
  <2>4. BlockCounted(b)'
    BY <1>6, <1>7, <2>3, OneLess
  <2>. QED
    BY <2>1, <2>4
<1>20. ASSUME NEW x \in Live' PROVE SnapshotCounted(x)'
  BY <1>1, <1>4, <1>10, <1>11, <1>15 DEF SnapshotCounted
<1>21. HeldAlone'
  <2>1. \A u \in Threads : thread'[u].base = thread[u].base /\ thread'[u].mine = thread[u].mine
    BY <1>14
  <2>2. published' = published
    BY <1>4
  <2>. QED
    BY <1>1, <2>1, <2>2 DEF HeldAlone
<1>22. FreedAlone'
  <2>1. ASSUME NEW x \in Live' PROVE snapshot'[x].references = 0 <=> Freed(x)'
    BY <1>1, <1>10, <1>11, <1>16 DEF FreedAlone
  <2>2. ASSUME NEW u \in Threads, NEW v \in Threads,
               thread'[u].freeing # NULL, thread'[u].freeing = thread'[v].freeing
        PROVE  u = v
    BY <1>1, <1>14, <2>2 DEF FreedAlone
  <2>3. NULL \notin published'
    BY <1>1, <1>4, Nulls DEF Types
  <2>4. ASSUME NEW u \in Threads PROVE thread'[u].freeing \notin published'
    BY <1>1, <1>4, <1>14, <2>3 DEF FreedAlone
  <2>. QED
    BY <2>1, <2>2, <2>4 DEF FreedAlone
<1>23. TablesFull'
  BY <1>1, <1>10, <1>11, <1>15, <1>16 DEF TablesFull
<1>24. ASSUME NEW u \in Threads \ {t} PROVE ThreadSound(u)'
  <2>1. thread[u].at \in {"let go", "store"} =>
          LET c == Table(thread[u].mine)[thread[u].part]
          IN block'[c] # NULL /\ block'[c].references = 1
    BY <1>7 DEF KeepsWriters
  <2>2. \A x \in {thread[u].base, thread[u].mine, thread[u].freeing} :
          x # NULL => Table(x)' = Table(x)
    BY <1>1, <1>8, <1>11, ThreadType
  <2>3. thread'[u] = thread[u] /\ published' = published
    BY <1>4, <1>14
  <2>. QED
    BY <1>1, <2>1, <2>2, <2>3, OtherSound
<1>25. ThreadSound(t)'
  BY <1>14 DEF ThreadSound
<1>26. (cached \subseteq published)'
  BY <1>1, <1>4
<1>. QED
  BY <1>17, <1>18, <1>19, <1>20, <1>21, <1>22, <1>23, <1>24, <1>25, <1>26, InvSplitNext

-----------------------------------------------------------------------------
(* Steps that make a snapshot. *)

\* Every part gets a block of its own, from the free ones.
Gives(s, v, table) ==
  /\ table \in [Parts -> FreeBlocks] /\ \A p, q \in Parts : table[p] = table[q] => p = q
  /\ Allocate(s, v).snapshots = [snapshot EXCEPT ![s] = [references |-> 1, table |-> table]]
  /\ Allocate(s, v).blocks \in [Blocks -> BlockRecords \cup {NULL}]
  /\ \A p \in Parts : Allocate(s, v).blocks[table[p]] = New(v[p])
  /\ \A c \in Blocks : (\A p \in Parts : table[p] # c)
                         => Allocate(s, v).blocks[c] = block[c]

LEMMA Allocated ==
  ASSUME Types, Room, NEW s, NEW v \in Contents
  PROVE  \E table : Gives(s, v, table)
<1>1. PICK table : table = [p \in Parts |-> Lowest(FreeBlocks, p + 1)]
  OBVIOUS
<1>2. /\ FreeBlocks \in SUBSET Nat /\ IsFiniteSet(FreeBlocks)
      /\ Cardinality(FreeBlocks) \in Nat /\ FreeBlocks \subseteq Blocks
  BY FreeOnes, FS_CardinalityType DEF FreeBlocks
<1>3. Cardinality(Parts) = ChunkCount + 1
  <2>1. 0 \in Int /\ ChunkCount \in Int /\ ~(0 > ChunkCount)
    BY ChunkAssumption
  <2>2. Cardinality(0 .. ChunkCount) = ChunkCount - 0 + 1
    BY <2>1, FS_Interval
  <2>. QED
    BY <2>1, <2>2, Nulls
<1>4. ASSUME NEW p \in Parts
      PROVE  table[p] \in FreeBlocks /\ Cardinality({b \in FreeBlocks : b < table[p]}) = p
  <2>1. p \in Nat /\ p + 1 \in Nat \ {0} /\ p + 1 - 1 = p /\ p <= ChunkCount
    BY Nulls, ChunkAssumption
  <2>2. p + 1 <= Cardinality(FreeBlocks)
    BY <1>2, <1>3, <2>1, ChunkAssumption DEF Room
  <2>3. PICK n \in Nat \ {0} : n = p + 1
    BY <2>1
  <2>4. /\ Lowest(FreeBlocks, n) \in FreeBlocks
        /\ Cardinality({b \in FreeBlocks : b < Lowest(FreeBlocks, n)}) = n - 1
    BY <1>2, <2>2, <2>3, LowestSound
  <2>5. table[p] = Lowest(FreeBlocks, n)
    BY <1>1, <2>3
  <2>. QED
    BY <2>1, <2>3, <2>4, <2>5
<1>5. table \in [Parts -> FreeBlocks]
  BY <1>1, <1>4
<1>6. \A p, q \in Parts : table[p] = table[q] => p = q
  BY <1>4
<1>7. PICK of : of = [b \in Blocks |-> CHOOSE p \in Parts : table[p] = b]
  OBVIOUS
<1>8. ASSUME NEW p \in Parts PROVE of[table[p]] = p /\ table[p] \in Blocks
  <2>1. table[p] \in Blocks
    BY <1>2, <1>4
  <2>2. of[table[p]] = CHOOSE q \in Parts : table[q] = table[p]
    BY <1>7, <2>1
  <2>3. of[table[p]] \in Parts /\ table[of[table[p]]] = table[p]
    BY <2>2
  <2>. QED
    BY <1>6, <2>1, <2>3
<1>9. Range(table) = {table[p] : p \in Parts}
  BY <1>5 DEF Range
<1>10. PICK made : made = Allocate(s, v).blocks
  OBVIOUS
<1>11. made = [b \in Blocks |-> IF b \in Range(table) THEN New(v[of[b]]) ELSE block[b]]
  BY <1>1, <1>7, <1>10 DEF Allocate
<1>12. Allocate(s, v).snapshots = [snapshot EXCEPT ![s] = [references |-> 1, table |-> table]]
  BY <1>1 DEF Allocate
<1>13. \A p \in Parts : v[p] \in Values \cup {NULL}
  BY DEF Contents, Parts
<1>14. \A p \in Parts : New(v[p]) \in BlockRecords
  BY <1>13 DEF New, BlockRecords
<1>15. \A p \in Parts : made[table[p]] = New(v[p])
  BY <1>8, <1>9, <1>11
<1>16. \A c \in Blocks : (\A p \in Parts : table[p] # c) => made[c] = block[c]
  BY <1>9, <1>11
<1>17. made \in [Blocks -> BlockRecords \cup {NULL}]
  <2>1. ASSUME NEW c \in Blocks PROVE made[c] \in BlockRecords \cup {NULL}
    <3>1. CASE \E p \in Parts : table[p] = c
      BY <1>14, <1>15, <3>1
    <3>2. CASE \A p \in Parts : table[p] # c
      BY <1>16, <3>2 DEF Types
    <3>. QED
      BY <3>1, <3>2
  <2>. QED
    BY <1>11, <2>1
<1>18. Gives(s, v, table)
  BY <1>5, <1>6, <1>10, <1>12, <1>15, <1>16, <1>17 DEF Gives
<1>. QED
  BY <1>18

\* A snapshot comes to be at a free address, and the others stay.
Adds(s) ==
  /\ snapshot' \in [Snapshots -> SnapshotRecords \cup {NULL}]
  /\ Live' = Live \cup {s} /\ snapshot'[s].references = 1
  /\ \A x \in Live : Table(x)' = Table(x)
KeepsBlocks == \A b \in Blocks : block[b] # NULL => block'[b] = block[b]
AllSnapshotsCounted == \A x \in Live : SnapshotCounted(x)
GetsNew(t, s, base, mine) ==
  /\ base \in {thread[t].base, s} /\ mine \in {thread[t].mine, s}
  /\ ~(base = s /\ mine = s)

LEMMA FreshStep ==
  ASSUME ChunkInv, NEW t \in Threads,
         NEW at, NEW base, NEW mine, NEW part, NEW freeing,
         Says(thread', t, at, base, mine, part, NULL, freeing),
         NEW s \in FreeSnapshots, Adds(s), KeepsBlocks, GetsNew(t, s, base, mine),
         freeing \in Live \cup {NULL},
         block' \in [Blocks -> BlockRecords \cup {NULL}],
         UNCHANGED <<cached, published>>,
         AllCounted', AllSnapshotsCounted', FreedAlone', TablesFull', ThreadSound(t)'
  PROVE  ChunkInv'
<1>1. /\ Types /\ HeldLive /\ cached \subseteq published /\ HeldAlone
      /\ \A u \in Threads : ThreadSound(u)
  BY InvSplit
<1>2. s \in Snapshots /\ s \notin Live /\ s # NULL
  BY Nulls DEF FreeSnapshots, Live
<1>3. /\ thread'[t].base = base /\ thread'[t].mine = mine /\ thread'[t].freeing = freeing
      /\ thread' \in [Threads -> ThreadRecords]
      /\ \A u \in Threads \ {t} : thread'[u] = thread[u]
  BY DEF Says
<1>4. \A u \in Threads : thread[u].base # s /\ thread[u].mine # s
  BY <1>2, NobodyHas
<1>5. /\ snapshot' \in [Snapshots -> SnapshotRecords \cup {NULL}]
      /\ Live' = Live \cup {s} /\ \A x \in Live : Table(x)' = Table(x)
  BY DEF Adds
<1>6. /\ base \in {thread[t].base, s} /\ mine \in {thread[t].mine, s}
      /\ ~(base = s /\ mine = s)
  BY DEF GetsNew
<1>7. Types'
  BY <1>1, <1>3, <1>5 DEF Types
<1>8. HeldLive'
  <2>1. ASSUME NEW u \in Threads
        PROVE  /\ thread'[u].base # NULL => thread'[u].base \in Live'
               /\ thread'[u].mine # NULL => thread'[u].mine \in Live'
               /\ thread'[u].freeing # NULL => thread'[u].freeing \in Live'
    <3>1. CASE u = t
      BY <1>1, <1>3, <1>5, <1>6, <3>1 DEF HeldLive
    <3>2. CASE u # t
      BY <1>1, <1>3, <1>5, <3>2 DEF HeldLive
    <3>. QED
      BY <3>1, <3>2
  <2>2. cached' \subseteq Live' /\ published' \subseteq Live'
    BY <1>1, <1>5 DEF HeldLive
  <2>. QED
    BY <2>1, <2>2 DEF HeldLive
<1>9. HeldAlone'
  <2>1. ASSUME NEW x \in Snapshots, x # s, NEW u \in Threads
        PROVE  /\ thread'[u].base = x => thread[u].base = x
               /\ thread'[u].mine = x => thread[u].mine = x
    BY <1>3, <1>6, <2>1
  <2>2. \A u \in Threads : thread'[u].base = s \/ thread'[u].mine = s => u = t
    BY <1>3, <1>4
  <2>3. published' = published
    OBVIOUS
  <2>4. ASSUME NEW x \in Snapshots \ published', NEW u \in Threads, NEW w \in Threads
        PROVE  /\ thread'[u].base = x /\ thread'[w].base = x => u = w
               /\ thread'[u].mine = x /\ thread'[w].mine = x => u = w
               /\ ~(thread'[u].base = x /\ thread'[w].mine = x)
    <3>1. CASE x = s
      BY <1>3, <1>6, <2>2, <3>1
    <3>2. CASE x # s
      BY <1>1, <2>1, <2>3, <3>2 DEF HeldAlone
    <3>. QED
      BY <3>1, <3>2
  <2>. QED
    BY <2>4 DEF HeldAlone
<1>10. ASSUME NEW u \in Threads \ {t} PROVE ThreadSound(u)'
  <2>1. thread[u].at \in {"let go", "store"} =>
          LET c == Table(thread[u].mine)[thread[u].part]
          IN block'[c] # NULL /\ block'[c].references = 1
    BY WriterAlone DEF KeepsBlocks
  <2>2. \A x \in {thread[u].base, thread[u].mine, thread[u].freeing} :
          x # NULL => Table(x)' = Table(x)
    BY <1>1, <1>5, ThreadType
  <2>. QED
    BY <1>1, <1>3, <2>1, <2>2, OtherSound
<1>11. /\ \A c \in Blocks : BlockCounted(c)'
       /\ \A x \in Live' : SnapshotCounted(x)'
  BY DEF AllCounted, AllSnapshotsCounted
<1>12. (cached \subseteq published)'
  BY <1>1
<1>. QED
  BY <1>7, <1>8, <1>9, <1>10, <1>11, <1>12, InvSplitNext

\* The users of a block when s has come to be.
LEMMA UsesAdd ==
  ASSUME NEW s, s \notin Live, Live' = Live \cup {s}, \A x \in Live : Table(x)' = Table(x)
  PROVE  \A c : Uses(c)' = Uses(c) \cup {u \in {s} \X Parts : Table(s)'[u[2]] = c}
BY DEF Uses, Table

LEMMA AddsNew ==
  ASSUME Types, NEW s \in FreeSnapshots, NEW table \in [Parts -> Blocks \cup {NULL}],
         snapshot' = [snapshot EXCEPT ![s] = [references |-> 1, table |-> table]]
  PROVE  /\ Adds(s) /\ Table(s)' = table
         /\ \A x \in Live : snapshot'[x] = snapshot[x]
<1>1. s \in Snapshots /\ s \notin Live
  BY DEF FreeSnapshots, Live
<1>2. PICK new : new = [references |-> 1, table |-> table]
  OBVIOUS
<1>3. new \in SnapshotRecords /\ new.references = 1 /\ new.table = table
  BY <1>2 DEF SnapshotRecords
<1>4. new # NULL
  BY <1>3, Nulls
<1>5. snapshot' = [snapshot EXCEPT ![s] = new]
  BY <1>2
<1>6. snapshot'[s] = new /\ \A x \in Snapshots \ {s} : snapshot'[x] = snapshot[x]
  BY <1>1, <1>5 DEF Types
<1>7. snapshot' \in [Snapshots -> SnapshotRecords \cup {NULL}]
  BY <1>3, <1>5 DEF Types
<1>8. Live' = Live \cup {s}
  BY <1>1, <1>4, <1>6 DEF Live
<1>9. \A x \in Live : snapshot'[x] = snapshot[x] /\ Table(x)' = Table(x)
  BY <1>1, <1>6 DEF Live, Table
<1>. QED
  BY <1>3, <1>6, <1>7, <1>8, <1>9 DEF Adds, Table

\* The one who made s has it, and all else is held as it was.
LEMMA FreshHeld ==
  ASSUME ChunkInv, NEW t \in Threads, NEW at, NEW base, NEW mine, NEW part,
         Says(thread', t, at, base, mine, part, NULL, NULL), thread[t].freeing = NULL,
         NEW s \in FreeSnapshots, Adds(s), GetsNew(t, s, base, mine), base = s \/ mine = s,
         thread[t].base # base => thread[t].base = NULL,
         thread[t].mine # mine => thread[t].mine = NULL,
         \A x \in Live : snapshot'[x] = snapshot[x],
         UNCHANGED <<cached, published>>
  PROVE  AllSnapshotsCounted' /\ FreedAlone'
<1>1. /\ Types /\ HeldLive /\ cached \subseteq published /\ FreedAlone
      /\ \A x \in Live : SnapshotCounted(x)
  BY InvSplit
<1>2. s \in Snapshots /\ s \notin Live /\ s # NULL
  BY Nulls DEF FreeSnapshots, Live
<1>3. /\ thread'[t].base = base /\ thread'[t].mine = mine /\ thread'[t].freeing = NULL
      /\ \A u \in Threads \ {t} : thread'[u] = thread[u]
  BY DEF Says
<1>4. s \notin cached /\ BaseOf(s) = {} /\ MineOf(s) = {} /\ s \notin cached'
  BY <1>2, NobodyHas
<1>5. Live' = Live \cup {s} /\ snapshot'[s].references = 1
  BY DEF Adds
<1>6. /\ base \in {thread[t].base, s} /\ mine \in {thread[t].mine, s}
      /\ ~(base = s /\ mine = s)
  BY DEF GetsNew
<1>7. /\ \A x : BaseOf(x)' = IF base = x THEN BaseOf(x) \cup {t} ELSE BaseOf(x) \ {t}
      /\ \A x : MineOf(x)' = IF mine = x THEN MineOf(x) \cup {t} ELSE MineOf(x) \ {t}
  BY <1>3, Holders
<1>8. ASSUME NEW x \in Live PROVE SnapshotCounted(x)'
  <2>1. x # s /\ x # NULL
    BY <1>1, <1>2, TableType
  <2>2. BaseOf(x)' = BaseOf(x) /\ MineOf(x)' = MineOf(x)
    BY <1>6, <1>7, <2>1 DEF BaseOf, MineOf
  <2>3. snapshot'[x] = snapshot[x] /\ cached' = cached
    OBVIOUS
  <2>. QED
    BY <1>1, <2>2, <2>3 DEF SnapshotCounted
<1>9. SnapshotCounted(s)'
  <2>1. CASE base = s
    <3>1. BaseOf(s)' = {t} /\ MineOf(s)' = {}
      BY <1>4, <1>6, <1>7, <2>1
    <3>2. Cardinality(BaseOf(s)') = 1 /\ Cardinality(MineOf(s)') = 0
      BY <3>1, FS_Singleton, FS_EmptySet
    <3>. QED
      BY <1>4, <1>5, <3>2 DEF SnapshotCounted
  <2>2. CASE mine = s
    <3>1. BaseOf(s)' = {} /\ MineOf(s)' = {t}
      BY <1>4, <1>6, <1>7, <2>2
    <3>2. Cardinality(BaseOf(s)') = 0 /\ Cardinality(MineOf(s)') = 1
      BY <3>1, FS_Singleton, FS_EmptySet
    <3>. QED
      BY <1>4, <1>5, <3>2 DEF SnapshotCounted
  <2>. QED
    BY <2>1, <2>2
<1>10. \A u \in Threads : thread'[u].freeing = thread[u].freeing
  BY <1>3
<1>11. \A u \in Threads : thread[u].freeing # s
  BY <1>1, <1>2 DEF HeldLive
<1>12. FreedAlone'
  <2>1. ASSUME NEW x \in Live' PROVE snapshot'[x].references = 0 <=> Freed(x)'
    <3>1. CASE x = s
      BY <1>5, <1>10, <1>11, <3>1 DEF Freed
    <3>2. CASE x # s
      BY <1>1, <1>5, <1>10, <3>2 DEF FreedAlone, Freed
    <3>. QED
      BY <3>1, <3>2
  <2>2. published' = published
    OBVIOUS
  <2>. QED
    BY <1>1, <1>10, <2>1, <2>2 DEF FreedAlone
<1>13. AllSnapshotsCounted'
  BY <1>5, <1>8, <1>9 DEF AllSnapshotsCounted
<1>. QED
  BY <1>12, <1>13

LEMMA CloneBeginStep ==
  ASSUME ChunkInv, NEW t \in Threads, CloneBegin(t)
  PROVE  ChunkInv'
<1>1. /\ Types /\ HeldLive /\ TablesFull
      /\ \A c \in Blocks : BlockCounted(c)
  BY InvSplit
<1>2. /\ thread[t].at = "ready" /\ thread[t].base # NULL /\ thread[t].mine = NULL
      /\ FreeSnapshots # {} /\ UNCHANGED <<block, cached, published>>
  BY DEF CloneBegin
<1>3. PICK s \in {Lowest(FreeSnapshots, 1)} :
        /\ snapshot' = [snapshot EXCEPT ![s] = [references |-> 1, table |-> [p \in Parts |-> NULL]]]
        /\ thread' = [thread EXCEPT ![t].mine = s, ![t].at = "clone", ![t].part = Topology]
  BY DEF CloneBegin
<1>4. s \in FreeSnapshots
  BY <1>2, <1>3, FreeOnes
<1>5. s \in Snapshots /\ s \notin Live /\ s # NULL /\ s \notin published
  BY <1>1, <1>4, Nulls DEF FreeSnapshots, Live, HeldLive
<1>6. thread[t].old = NULL /\ thread[t].freeing = NULL
  BY <1>2, PlaceFacts
<1>7. PICK table : table = [p \in Parts |-> NULL]
  OBVIOUS
<1>8. /\ Adds(s) /\ Table(s)' = table
      /\ \A x \in Live : snapshot'[x] = snapshot[x]
  <2>1. table \in [Parts -> Blocks \cup {NULL}]
    BY <1>7
  <2>2. snapshot' = [snapshot EXCEPT ![s] = [references |-> 1, table |-> table]]
    BY <1>3, <1>7
  <2>. QED
    BY <1>1, <1>4, <2>1, <2>2, AddsNew
<1>9. PICK base : base = thread[t].base
  OBVIOUS
<1>10. Says(thread', t, "clone", base, s, Topology, NULL, NULL)
  <2>1. "clone" \in Places /\ s \in Snapshots \cup {NULL} /\ Topology \in Parts \cup {NULL}
    BY <1>5, Nulls DEF Places
  <2>2. Says(thread, t, "ready", base, NULL, thread[t].part, NULL, NULL)
    BY <1>1, <1>2, <1>6, <1>9, SaysItself
  <2>3. PICK f : f = [thread EXCEPT ![t].mine = s]
    OBVIOUS
  <2>4. Says(f, t, "ready", base, s, thread[t].part, NULL, NULL)
    BY <2>1, <2>2, <2>3, SetMine
  <2>5. PICK g : g = [f EXCEPT ![t].at = "clone"]
    OBVIOUS
  <2>6. Says(g, t, "clone", base, s, thread[t].part, NULL, NULL)
    BY <2>1, <2>4, <2>5, SetAt
  <2>7. Says([g EXCEPT ![t].part = Topology], t, "clone", base, s, Topology, NULL, NULL)
    BY <2>1, <2>6, SetPart
  <2>8. thread' = [g EXCEPT ![t].part = Topology]
    BY <1>3, <2>3, <2>5
  <2>. QED
    BY <2>7, <2>8
<1>11. /\ thread'[t].at = "clone" /\ thread'[t].part = Topology /\ thread'[t].base = base
       /\ thread'[t].mine = s /\ thread'[t].old = NULL /\ thread'[t].freeing = NULL
       /\ \A u \in Threads \ {t} : thread'[u] = thread[u]
  BY <1>10 DEF Says
<1>12. base # s /\ base # NULL /\ base \in Live
  BY <1>1, <1>2, <1>5, <1>9, ThreadType
<1>13. GetsNew(t, s, base, s)
  BY <1>9, <1>12 DEF GetsNew
<1>14. AllSnapshotsCounted' /\ FreedAlone'
  BY <1>2, <1>4, <1>6, <1>8, <1>9, <1>10, <1>13, FreshHeld
<1>15. KeepsBlocks /\ block' \in [Blocks -> BlockRecords \cup {NULL}]
  BY <1>1, <1>2 DEF KeepsBlocks, Types
<1>16. Live' = Live \cup {s} /\ \A x \in Live : Table(x)' = Table(x)
  BY <1>8 DEF Adds
<1>17. AllCounted'
  <2>1. \A c : Uses(c)' = Uses(c) \cup {u \in {s} \X Parts : Table(s)'[u[2]] = c}
    BY <1>5, <1>16, UsesAdd
  <2>2. ASSUME NEW c \in Blocks PROVE Uses(c)' = Uses(c)
    <3>1. \A u \in {s} \X Parts : Table(s)'[u[2]] # c
      BY <1>7, <1>8, Nulls
    <3>. QED
      BY <2>1, <3>1
  <2>3. \A c : Owes(c)' = Owes(c)
    BY <1>6, <1>11, SameHolders DEF Others
  <2>4. ASSUME NEW c \in Blocks PROVE BlockCounted(c)'
    BY <1>1, <1>2, <2>2, <2>3, SameBlock
  <2>. QED
    BY <2>4 DEF AllCounted
<1>18. TablesFull'
  <2>1. \A x \in Live : (Freed(x)' <=> Freed(x)) /\ (Cloned(x) => Cloned(x)')
    BY <1>2, <1>6, <1>11 DEF Freed, Cloned
  <2>2. Cloned(s)'
    BY <1>11 DEF Cloned
  <2>3. ASSUME NEW x \in Live', ~Cloned(x)', ~Freed(x)', NEW q \in Parts
        PROVE  Table(x)'[q] # NULL
    BY <1>1, <1>16, <2>1, <2>2, <2>3 DEF TablesFull, Table
  <2>. QED
    BY <2>3 DEF TablesFull, Table
<1>19. ThreadSound(t)'
  <2>1. ASSUME NEW q \in Parts
        PROVE  Table(s)'[q] = IF q < Topology THEN Table(base)'[q] ELSE NULL
    <3>1. ~(q < Topology)
      BY Nulls DEF Topology
    <3>. QED
      BY <1>7, <1>8, <3>1
  <2>2. published' = published
    BY <1>2
  <2>3. CloneSound(t)'
    BY <1>5, <1>11, <1>12, <2>1, <2>2, Nulls DEF CloneSound, Table
  <2>. QED
    BY <1>11, <2>3 DEF ThreadSound
<1>. QED
  BY <1>2, <1>4, <1>8, <1>10, <1>13, <1>14, <1>15, <1>17, <1>18, <1>19, FreshStep
\* The blocks of the table are new, with the contents v, and the others stay.
Fills(table, v) ==
  /\ v \in Contents /\ table \in [Parts -> FreeBlocks]
  /\ \A p, q \in Parts : table[p] = table[q] => p = q
  /\ block' \in [Blocks -> BlockRecords \cup {NULL}]
  /\ \A p \in Parts : block'[table[p]] = New(v[p])
  /\ \A c \in Blocks : (\A p \in Parts : table[p] # c) => block'[c] = block[c]

\* The parts of a snapshot that comes to be are its own.
LEMMA FilledCounted ==
  ASSUME ChunkInv, NEW t \in Threads, Others(t), thread'[t].old = thread[t].old,
         NEW s \in FreeSnapshots, Live' = Live \cup {s}, \A x \in Live : Table(x)' = Table(x),
         NEW table, NEW v, Fills(table, v), Table(s)' = table
  PROVE  /\ AllCounted' /\ KeepsBlocks
         /\ \A p \in Parts : table[p] \in Blocks /\ table[p] # NULL
<1>1. \A c \in Blocks : BlockCounted(c)
  BY InvSplit
<1>2. s \notin Live
  BY DEF FreeSnapshots, Live
<1>3. /\ \A p \in Parts : table[p] \in FreeBlocks /\ block'[table[p]] = New(v[p])
      /\ \A p, q \in Parts : table[p] = table[q] => p = q
      /\ \A c \in Blocks : (\A p \in Parts : table[p] # c) => block'[c] = block[c]
  BY DEF Fills
<1>4. \A c : Uses(c)' = Uses(c) \cup {u \in {s} \X Parts : table[u[2]] = c}
  BY <1>2, UsesAdd
<1>5. \A c : Owes(c)' = Owes(c)
  BY SameHolders
<1>6. ASSUME NEW c \in Blocks, \A p \in Parts : table[p] # c PROVE BlockCounted(c)'
  <2>1. \A u \in {s} \X Parts : table[u[2]] # c
    BY <1>6
  <2>2. Uses(c)' = Uses(c)
    BY <1>4, <2>1
  <2>3. block'[c] = block[c]
    BY <1>3, <1>6
  <2>. QED
    BY <1>1, <1>5, <2>2, <2>3, SameBlock
<1>7. ASSUME NEW p \in Parts PROVE BlockCounted(table[p])' /\ block[table[p]] = NULL
  <2>1. PICK c : c = table[p]
    OBVIOUS
  <2>2. c \in Blocks /\ block[c] = NULL /\ Uses(c) = {} /\ Owes(c) = {}
    BY <1>3, <2>1, FreeUnused
  <2>3. {u \in {s} \X Parts : table[u[2]] = c} = {<<s, p>>}
    BY <1>3, <2>1
  <2>4. Uses(c)' = {<<s, p>>} /\ Owes(c)' = {}
    BY <1>4, <1>5, <2>2, <2>3
  <2>5. Cardinality(Uses(c)') = 1 /\ Cardinality(Owes(c)') = 0
    BY <2>4, FS_Singleton, FS_EmptySet
  <2>6. block'[c] # NULL /\ block'[c].references = 1
    <3>1. block'[c] = New(v[p])
      BY <1>3, <2>1
    <3>2. v[p] \in Values \cup {NULL}
      BY DEF Fills, Contents, Parts
    <3>3. New(v[p]) \in BlockRecords /\ New(v[p]).references = 1
      BY <3>2 DEF New, BlockRecords
    <3>. QED
      BY <3>1, <3>3, Nulls
  <2>7. BlockCounted(c)'
    BY <2>5, <2>6 DEF BlockCounted
  <2>. QED
    BY <2>1, <2>2, <2>7
<1>8. AllCounted'
  BY <1>6, <1>7 DEF AllCounted
<1>9. KeepsBlocks
  <2>1. ASSUME NEW b \in Blocks, block[b] # NULL PROVE \A p \in Parts : table[p] # b
    BY <1>7, <2>1
  <2>. QED
    BY <1>3, <2>1 DEF KeepsBlocks
<1>10. \A p \in Parts : table[p] \in Blocks /\ table[p] # NULL
  BY <1>3, Nulls DEF FreeBlocks
<1>. QED
  BY <1>8, <1>9, <1>10

LEMMA BuildStep ==
  ASSUME ChunkInv, NEW t \in Threads, Build(t)
  PROVE  ChunkInv'
<1>1. Types /\ HeldLive /\ TablesFull
  BY InvSplit
<1>2. /\ thread[t].at = "ready" /\ thread[t].base = NULL /\ thread[t].mine = NULL
      /\ Room /\ FreeSnapshots # {} /\ UNCHANGED <<cached, published>>
  BY DEF Build, Room
<1>3. PICK s \in {Lowest(FreeSnapshots, 1)}, v \in Contents :
        /\ block' = Allocate(s, v).blocks /\ snapshot' = Allocate(s, v).snapshots
        /\ thread' = [thread EXCEPT ![t].base = s]
  BY DEF Build
<1>4. s \in FreeSnapshots
  BY <1>2, <1>3, FreeOnes
<1>5. s \in Snapshots /\ s \notin Live /\ s # NULL
  BY <1>4, Nulls DEF FreeSnapshots, Live
<1>6. thread[t].old = NULL /\ thread[t].freeing = NULL
  BY <1>2, PlaceFacts
<1>7. PICK table : /\ Fills(table, v)
                   /\ snapshot' = [snapshot EXCEPT ![s] = [references |-> 1, table |-> table]]
  <2>1. PICK table : Gives(s, v, table)
    BY <1>1, <1>2, Allocated
  <2>2. Fills(table, v)
    BY <1>3, <2>1 DEF Gives, Fills
  <2>. QED
    BY <1>3, <2>1, <2>2 DEF Gives
<1>8. /\ Adds(s) /\ Table(s)' = table
      /\ \A x \in Live : snapshot'[x] = snapshot[x]
  <2>1. table \in [Parts -> Blocks \cup {NULL}]
    BY <1>7 DEF Fills, FreeBlocks
  <2>. QED
    BY <1>1, <1>4, <1>7, <2>1, AddsNew
<1>9. Live' = Live \cup {s} /\ \A x \in Live : Table(x)' = Table(x)
  BY <1>8 DEF Adds
<1>10. Says(thread', t, "ready", s, NULL, thread[t].part, NULL, NULL)
  <2>1. Says(thread, t, "ready", NULL, NULL, thread[t].part, NULL, NULL)
    BY <1>1, <1>2, <1>6, SaysItself
  <2>2. Says([thread EXCEPT ![t].base = s], t, "ready", s, NULL, thread[t].part, NULL, NULL)
    BY <1>5, <2>1, SetBase
  <2>. QED
    BY <1>3, <2>2
<1>11. /\ thread'[t].at = "ready" /\ thread'[t].base = s /\ thread'[t].mine = NULL
       /\ thread'[t].old = NULL /\ thread'[t].freeing = NULL
       /\ \A u \in Threads \ {t} : thread'[u] = thread[u]
  BY <1>10 DEF Says
<1>12. GetsNew(t, s, s, NULL)
  BY <1>2, <1>5 DEF GetsNew
<1>13. AllSnapshotsCounted' /\ FreedAlone'
  BY <1>2, <1>4, <1>6, <1>8, <1>10, <1>12, FreshHeld
<1>14. /\ AllCounted' /\ KeepsBlocks
       /\ \A p \in Parts : table[p] \in Blocks /\ table[p] # NULL
  <2>1. Others(t) /\ thread'[t].old = thread[t].old
    BY <1>6, <1>11 DEF Others
  <2>. QED
    BY <1>4, <1>7, <1>8, <1>9, <2>1, FilledCounted
<1>15. TablesFull'
  <2>1. \A x : (Freed(x)' <=> Freed(x)) /\ (Cloned(x)' <=> Cloned(x))
    BY <1>2, <1>6, <1>11 DEF Freed, Cloned
  <2>2. ASSUME NEW x \in Live', ~Cloned(x)', ~Freed(x)', NEW q \in Parts
        PROVE  Table(x)'[q] # NULL
    <3>1. CASE x = s
      BY <1>8, <1>14, <3>1
    <3>2. CASE x # s
      BY <1>1, <1>9, <2>1, <2>2, <3>2 DEF TablesFull, Table
    <3>. QED
      BY <3>1, <3>2
  <2>. QED
    BY <2>2 DEF TablesFull, Table
<1>16. ThreadSound(t)'
  BY <1>11 DEF ThreadSound
<1>17. block' \in [Blocks -> BlockRecords \cup {NULL}] /\ NULL \in Live \cup {NULL}
  BY <1>7 DEF Fills
<1>. QED
  BY <1>2, <1>4, <1>8, <1>10, <1>12, <1>13, <1>14, <1>15, <1>16, <1>17, FreshStep

\* A new snapshot takes the place of one that nobody has any more.
LEMMA SwapsNew ==
  ASSUME Types, NEW s \in FreeSnapshots, NEW table \in [Parts -> Blocks \cup {NULL}],
         NEW m \in Live, snapshot[m].references = 1,
         snapshot' = LetGo([snapshot EXCEPT ![s] = [references |-> 1, table |-> table]], m)
  PROVE  /\ Adds(s) /\ Table(s)' = table /\ snapshot'[m].references = 0
         /\ \A x \in Live \ {m} : snapshot'[x] = snapshot[x]
<1>1. s \in Snapshots /\ s \notin Live /\ m # s /\ m \in Snapshots /\ snapshot[m] \in SnapshotRecords
  BY TableType DEF FreeSnapshots, Live
<1>2. PICK new : new = [references |-> 1, table |-> table]
  OBVIOUS
<1>3. new \in SnapshotRecords /\ new.references = 1 /\ new.table = table /\ new # NULL
  BY <1>2, Nulls DEF SnapshotRecords
<1>4. PICK g : g = [snapshot EXCEPT ![s] = new]
  OBVIOUS
<1>5. /\ g \in [Snapshots -> SnapshotRecords \cup {NULL}] /\ g[s] = new
      /\ \A x \in Snapshots \ {s} : g[x] = snapshot[x]
  BY <1>1, <1>3, <1>4 DEF Types
<1>6. PICK gone : gone = [snapshot[m] EXCEPT !.references = 0]
  OBVIOUS
<1>7. /\ gone \in SnapshotRecords /\ gone.references = 0 /\ gone.table = snapshot[m].table
      /\ gone # NULL
  BY <1>1, <1>6, Nulls DEF SnapshotRecords
<1>8. snapshot' = [g EXCEPT ![m] = gone]
  <2>1. snapshot' = LetGo(g, m)
    BY <1>2, <1>4
  <2>2. g[m] = snapshot[m] /\ g[m].references - 1 = 0
    BY <1>1, <1>5
  <2>3. snapshot' = [g EXCEPT ![m].references = 0]
    BY <2>1, <2>2 DEF LetGo
  <2>. QED
    BY <1>1, <1>5, <1>6, <2>2, <2>3
<1>9. /\ snapshot' \in [Snapshots -> SnapshotRecords \cup {NULL}]
      /\ snapshot'[s] = new /\ snapshot'[m] = gone
      /\ \A x \in Snapshots \ {s, m} : snapshot'[x] = snapshot[x]
  BY <1>1, <1>5, <1>7, <1>8
<1>10. Live' = Live \cup {s}
  BY <1>1, <1>3, <1>7, <1>9 DEF Live
<1>11. \A x \in Live \ {m} : snapshot'[x] = snapshot[x]
  BY <1>1, <1>9 DEF Live
<1>12. \A x \in Live : Table(x)' = Table(x)
  BY <1>7, <1>9, <1>11 DEF Table
<1>. QED
  BY <1>3, <1>7, <1>9, <1>10, <1>11, <1>12 DEF Adds, Table

\* What is not published yet has one reference: the one of the thread that made it.
LEMMA MineOnly ==
  ASSUME ChunkInv, NEW t \in Threads, thread[t].mine # NULL, thread[t].mine \notin published
  PROVE  /\ thread[t].mine \in Live /\ snapshot[thread[t].mine].references = 1
         /\ thread[t].mine \notin cached
         /\ BaseOf(thread[t].mine) = {} /\ MineOf(thread[t].mine) = {t}
<1>1. Types /\ HeldLive /\ cached \subseteq published /\ \A x \in Live : SnapshotCounted(x)
  BY InvSplit
<1>2. PICK m : m = thread[t].mine
  OBVIOUS
<1>3. m \in Live /\ m \notin cached
  BY <1>1, <1>2, ThreadType
<1>4. BaseOf(m) = {} /\ MineOf(m) = {t}
  BY <1>2, NoneElse DEF BaseOf, MineOf
<1>5. Cardinality(BaseOf(m)) = 0 /\ Cardinality(MineOf(m)) = 1
  BY <1>4, FS_EmptySet, FS_Singleton
<1>6. snapshot[m].references = 1
  BY <1>1, <1>3, <1>5 DEF SnapshotCounted
<1>. QED
  BY <1>2, <1>3, <1>4, <1>6

LEMMA RebuildStep ==
  ASSUME ChunkInv, NEW t \in Threads, Rebuild(t)
  PROVE  ChunkInv'
<1>1. /\ Types /\ HeldLive /\ TablesFull /\ FreedAlone
      /\ \A x \in Live : SnapshotCounted(x)
  BY InvSplit
<1>2. PICK m, base : m = thread[t].mine /\ base = thread[t].base
  OBVIOUS
<1>3. /\ thread[t].at = "ready" /\ m # NULL /\ m \notin published
      /\ Room /\ FreeSnapshots # {} /\ UNCHANGED <<cached, published>>
  BY <1>2 DEF Rebuild, Room
<1>4. PICK s \in {Lowest(FreeSnapshots, 1)}, v \in Contents :
        /\ block' = Allocate(s, v).blocks
        /\ snapshot' = LetGo(Allocate(s, v).snapshots, m)
        /\ thread' = [Freeing(t, m) EXCEPT ![t].mine = s]
  BY <1>2 DEF Rebuild
<1>5. s \in FreeSnapshots
  BY <1>3, <1>4, FreeOnes
<1>6. s \in Snapshots /\ s \notin Live /\ s # NULL
  BY <1>5, Nulls DEF FreeSnapshots, Live
<1>7. thread[t].old = NULL /\ thread[t].freeing = NULL
  BY <1>3, PlaceFacts
<1>8. /\ m \in Live /\ snapshot[m].references = 1 /\ m \notin cached /\ m # s
      /\ BaseOf(m) = {} /\ MineOf(m) = {t}
  BY <1>2, <1>3, <1>6, MineOnly
<1>9. PICK table : /\ Fills(table, v)
                   /\ snapshot' = LetGo([snapshot EXCEPT
                                           ![s] = [references |-> 1, table |-> table]], m)
  <2>1. PICK table : Gives(s, v, table)
    BY <1>1, <1>3, Allocated
  <2>2. Fills(table, v)
    BY <1>4, <2>1 DEF Gives, Fills
  <2>. QED
    BY <1>4, <2>1, <2>2 DEF Gives
<1>10. /\ Adds(s) /\ Table(s)' = table /\ snapshot'[m].references = 0
       /\ \A x \in Live \ {m} : snapshot'[x] = snapshot[x]
  <2>1. table \in [Parts -> Blocks \cup {NULL}]
    BY <1>9 DEF Fills, FreeBlocks
  <2>. QED
    BY <1>1, <1>5, <1>8, <1>9, <2>1, SwapsNew
<1>11. /\ Live' = Live \cup {s} /\ \A x \in Live : Table(x)' = Table(x)
       /\ snapshot'[s].references = 1
  BY <1>10 DEF Adds
<1>12. Says(thread', t, "free", base, s, 1, NULL, m)
  <2>1. PICK f : f = Freeing(t, m)
    OBVIOUS
  <2>2. Says(f, t, "free", base, m, 1, NULL, m)
    BY <1>1, <1>2, <1>7, <1>8, <2>1, FreeingSays DEF Last
  <2>3. Says([f EXCEPT ![t].mine = s], t, "free", base, s, 1, NULL, m)
    BY <1>6, <2>2, SetMine
  <2>4. thread' = [f EXCEPT ![t].mine = s]
    BY <1>4, <2>1
  <2>. QED
    BY <2>3, <2>4
<1>13. /\ thread'[t].at = "free" /\ thread'[t].base = base /\ thread'[t].mine = s
       /\ thread'[t].part = 1 /\ thread'[t].old = NULL /\ thread'[t].freeing = m
       /\ \A u \in Threads \ {t} : thread'[u] = thread[u]
  BY <1>12 DEF Says
<1>14. base # s
  BY <1>1, <1>2, <1>6, ThreadType
<1>15. GetsNew(t, s, base, s)
  BY <1>2, <1>14 DEF GetsNew
<1>16. /\ \A x : BaseOf(x)' = BaseOf(x)
       /\ \A x : MineOf(x)' = IF x = s THEN MineOf(x) \cup {t} ELSE MineOf(x) \ {t}
  BY <1>2, <1>13, Holders DEF BaseOf
<1>17. AllSnapshotsCounted'
  <2>1. SnapshotCounted(s)'
    <3>1. s \notin cached' /\ BaseOf(s)' = {} /\ MineOf(s)' = {t}
      BY <1>3, <1>6, <1>16, NobodyHas
    <3>2. Cardinality(BaseOf(s)') = 0 /\ Cardinality(MineOf(s)') = 1
      BY <3>1, FS_EmptySet, FS_Singleton
    <3>. QED
      BY <1>11, <3>1, <3>2 DEF SnapshotCounted
  <2>2. SnapshotCounted(m)'
    <3>1. m \notin cached' /\ BaseOf(m)' = {} /\ MineOf(m)' = {}
      BY <1>3, <1>8, <1>16
    <3>2. Cardinality(BaseOf(m)') = 0 /\ Cardinality(MineOf(m)') = 0
      BY <3>1, FS_EmptySet
    <3>. QED
      BY <1>10, <3>1, <3>2 DEF SnapshotCounted
  <2>3. ASSUME NEW x \in Live, x # m PROVE SnapshotCounted(x)'
    <3>1. x # s /\ MineOf(x)' = MineOf(x)
      BY <1>2, <1>6, <1>16, <2>3 DEF MineOf
    <3>2. snapshot'[x] = snapshot[x] /\ cached' = cached
      BY <1>3, <1>10, <2>3
    <3>. QED
      BY <1>1, <1>16, <3>1, <3>2 DEF SnapshotCounted
  <2>. QED
    BY <1>11, <2>1, <2>2, <2>3 DEF AllSnapshotsCounted
<1>18. FreedAlone'
  <2>1. \A u \in Threads : thread[u].freeing # s /\ thread[u].freeing # m
    BY <1>1, <1>2, <1>3, <1>6, NoneElse DEF HeldLive
  <2>2. Freed(m)' /\ \A x : x # m /\ x # NULL => (Freed(x)' <=> Freed(x))
    BY <1>7, <1>13 DEF Freed
  <2>3. ASSUME NEW x \in Live' PROVE snapshot'[x].references = 0 <=> Freed(x)'
    <3>1. CASE x = s
      BY <1>6, <1>8, <1>11, <2>1, <2>2, <3>1 DEF Freed
    <3>2. CASE x = m
      BY <1>10, <2>2, <3>2
    <3>3. CASE x # s /\ x # m
      <4>1. x \in Live /\ snapshot'[x] = snapshot[x] /\ x # NULL
        BY <1>1, <1>10, <1>11, <3>3, TableType
      <4>. QED
        BY <1>1, <2>2, <3>3, <4>1 DEF FreedAlone
    <3>. QED
      BY <3>1, <3>2, <3>3
  <2>4. ASSUME NEW u \in Threads, NEW w \in Threads,
               thread'[u].freeing # NULL, thread'[u].freeing = thread'[w].freeing
        PROVE  u = w
    BY <1>1, <1>13, <2>1, <2>4 DEF FreedAlone
  <2>5. ASSUME NEW u \in Threads PROVE thread'[u].freeing \notin published'
    BY <1>1, <1>3, <1>13 DEF FreedAlone
  <2>. QED
    BY <2>3, <2>4, <2>5 DEF FreedAlone
<1>19. /\ AllCounted' /\ KeepsBlocks
       /\ \A p \in Parts : table[p] \in Blocks /\ table[p] # NULL
  <2>1. Others(t) /\ thread'[t].old = thread[t].old
    BY <1>7, <1>13 DEF Others
  <2>. QED
    BY <1>5, <1>9, <1>10, <1>11, <2>1, FilledCounted
<1>20. TablesFull'
  <2>1. \A x : (Freed(x) /\ x # NULL => Freed(x)') /\ (Cloned(x)' <=> Cloned(x))
    BY <1>3, <1>7, <1>13 DEF Freed, Cloned
  <2>2. ASSUME NEW x \in Live', ~Cloned(x)', ~Freed(x)', NEW q \in Parts
        PROVE  Table(x)'[q] # NULL
    <3>1. CASE x = s
      BY <1>10, <1>19, <3>1
    <3>2. CASE x # s
      <4>1. x \in Live /\ x # NULL
        BY <1>1, <1>11, <3>2, TableType
      <4>. QED
        BY <1>1, <1>11, <2>1, <2>2, <4>1 DEF TablesFull, Table
    <3>. QED
      BY <3>1, <3>2
  <2>. QED
    BY <2>2 DEF TablesFull, Table
<1>21. ThreadSound(t)'
  <2>1. \A p \in Parts : Table(m)[p] # NULL
    BY <1>2, <1>3, MineFull, Nulls
  <2>2. ASSUME NEW p \in Parts
        PROVE  ~(p # Topology /\ (1 = Topology \/ p < 1))
    BY Nulls DEF Topology
  <2>3. FreeSound(t)'
    BY <1>8, <1>11, <1>13, <2>1, <2>2, Nulls, ChunkAssumption DEF FreeSound, Table
  <2>4. m # NULL
    BY <1>3
  <2>. QED
    BY <1>13, <2>3, <2>4 DEF ThreadSound
<1>22. block' \in [Blocks -> BlockRecords \cup {NULL}] /\ m \in Live \cup {NULL}
  BY <1>8, <1>9 DEF Fills
<1>. QED
  BY <1>3, <1>5, <1>10, <1>12, <1>15, <1>17, <1>18, <1>19, <1>20, <1>21, <1>22, FreshStep

LEMMA FreePartStep ==
  ASSUME ChunkInv, NEW t \in Threads, FreePart(t)
  PROVE  ChunkInv'
BY FreeChunkStep, FreeTopologyStep

-----------------------------------------------------------------------------
(* The invariant, and what it says of the counters and of writing. *)

LEMMA InitSound == Init => ChunkInv
<1>. SUFFICES ASSUME Init PROVE ChunkInv
  OBVIOUS
<1>1. /\ block = [b \in Blocks |-> NULL] /\ snapshot = [s \in Snapshots |-> NULL]
      /\ cached = {} /\ published = {} /\ thread = [t \in Threads |-> Idle]
  BY DEF Init
<1>2. Live = {}
  BY <1>1 DEF Live
<1>3. Idle \in ThreadRecords
  BY DEF Idle, ThreadRecords, Places
<1>4. /\ Idle.at = "ready" /\ Idle.base = NULL /\ Idle.mine = NULL
      /\ Idle.old = NULL /\ Idle.freeing = NULL
  BY DEF Idle
<1>5. \A t \in Threads : thread[t] = Idle
  BY <1>1
<1>6. Types
  BY <1>1, <1>3 DEF Types
<1>7. HeldLive
  BY <1>1, <1>4, <1>5 DEF HeldLive
<1>8. ASSUME NEW b \in Blocks PROVE BlockCounted(b)
  <2>1. b # NULL /\ block[b] = NULL
    BY <1>1, Nulls
  <2>2. Uses(b) = {} /\ Owes(b) = {}
    BY <1>2, <1>4, <1>5, <2>1 DEF Uses, Owes
  <2>3. Cardinality(Uses(b)) = 0 /\ Cardinality(Owes(b)) = 0
    BY <2>2, FS_EmptySet
  <2>. QED
    BY <2>1, <2>3 DEF BlockCounted
<1>9. \A s \in Live : SnapshotCounted(s)
  BY <1>2
<1>10. HeldAlone
  BY <1>4, <1>5, Nulls DEF HeldAlone
<1>11. FreedAlone
  BY <1>1, <1>2, <1>4, <1>5 DEF FreedAlone
<1>12. TablesFull
  BY <1>2 DEF TablesFull
<1>13. \A t \in Threads : ThreadSound(t)
  BY <1>4, <1>5 DEF ThreadSound
<1>14. cached \subseteq published
  BY <1>1
<1>. QED
  BY <1>6, <1>7, <1>8, <1>9, <1>10, <1>11, <1>12, <1>13, <1>14, InvSplit

LEMMA StepSound == ChunkInv /\ [Next]_vars => ChunkInv'
<1>. SUFFICES ASSUME ChunkInv, [Next]_vars PROVE ChunkInv'
  OBVIOUS
<1>1. ASSUME NEW t \in Threads, Step(t) PROVE ChunkInv'
  <2>1. CASE Build(t)
    BY <2>1, BuildStep
  <2>2. CASE Rebuild(t)
    BY <2>2, RebuildStep
  <2>3. CASE CloneBegin(t)
    BY <2>3, CloneBeginStep
  <2>4. CASE ClonePart(t)
    BY <2>4, ClonePartStep
  <2>5. CASE WriteBegin(t)
    BY <2>5, WriteBeginStep
  <2>6. CASE WriteCopy(t)
    BY <2>6, WriteCopyStep
  <2>7. CASE WriteFails(t)
    BY <2>7, WriteFailsStep
  <2>8. CASE WriteLetGo(t)
    BY <2>8, WriteLetGoStep
  <2>9. CASE WriteStore(t)
    BY <2>9, WriteStoreStep
  <2>10. CASE Lookup(t)
    BY <2>10, LookupStep
  <2>11. CASE Publish(t)
    BY <2>11, PublishStep
  <2>12. CASE Leave(t)
    BY <2>12, LeaveStep
  <2>13. CASE Evict(t)
    BY <2>13, EvictStep
  <2>14. CASE FreePart(t)
    BY <2>14, FreePartStep
  <2>. QED
    BY <1>1, <2>1, <2>2, <2>3, <2>4, <2>5, <2>6, <2>7, <2>8, <2>9, <2>10, <2>11, <2>12,
       <2>13, <2>14 DEF Step
<1>2. CASE UNCHANGED vars
  <2>1. /\ block' = block /\ snapshot' = snapshot /\ cached' = cached
        /\ published' = published /\ thread' = thread
    BY <1>2 DEF vars
  <2>2. Types' /\ HeldLive' /\ (cached \subseteq published)' /\ HeldAlone' /\ FreedAlone' /\ TablesFull'
    BY <2>1, InvSplit DEF Types, HeldLive, HeldAlone, FreedAlone, TablesFull, Live, Freed, Cloned
  <2>3. ASSUME NEW b \in Blocks PROVE BlockCounted(b)'
    BY <2>1, InvSplit DEF BlockCounted, Uses, Owes, Live
  <2>4. ASSUME NEW s \in Live' PROVE SnapshotCounted(s)'
    BY <2>1, InvSplit DEF SnapshotCounted, BaseOf, MineOf, Live
  <2>5. ASSUME NEW t \in Threads PROVE ThreadSound(t)'
    BY <2>1, InvSplit DEF ThreadSound, CloneSound, WriteSound, FreeSound
  <2>. QED
    BY <2>2, <2>3, <2>4, <2>5, InvSplitNext
<1>. QED
  BY <1>1, <1>2 DEF Next

LEMMA ChunkInvAlways == Spec => []ChunkInv
BY InitSound, StepSound, PTL DEF Spec

\* The counters of blocks and of snapshots say how many have them, whatever
\* the order in which any number of threads clone, write, publish and let go:
\* sg_record_chunk_release and sg_pair_snapshot_release free what nobody has.
THEOREM ReferencesAlwaysCounted == Spec => []ReferencesCounted
<1>1. ChunkInv => ReferencesCounted
  BY DEF ChunkInv
<1>. QED
  BY <1>1, ChunkInvAlways, PTL

\* When a thread stores a record, no snapshot but its own has the block, however
\* long ago sg_snapshot_record_mutable read the counter.
THEOREM AlwaysWrittenAlone == Spec => []WrittenAlone
<1>1. ChunkInv => WrittenAlone
  <2>. SUFFICES ASSUME ChunkInv, NEW t \in Threads, thread[t].at = "store",
                       NEW b, b = Table(thread[t].mine)[thread[t].part]
                PROVE  /\ block[b] # NULL
                       /\ \A s \in Live \ {thread[t].mine} : \A p \in Parts : Table(s)[p] # b
    BY DEF WrittenAlone, Table
  <2>1. block[b] # NULL /\ Uses(b) = {<<thread[t].mine, thread[t].part>>}
    BY WriterAlone
  <2>2. ASSUME NEW s \in Live \ {thread[t].mine}, NEW p \in Parts, Table(s)[p] = b PROVE FALSE
    <3>1. <<s, p>> \in Uses(b)
      BY <2>2 DEF Uses, Table
    <3>2. <<s, p>> = <<thread[t].mine, thread[t].part>>
      BY <2>1, <3>1
    <3>. QED
      BY <2>2, <3>2
  <2>. QED
    BY <2>1, <2>2
<1>. QED
  BY <1>1, ChunkInvAlways, PTL

-----------------------------------------------------------------------------
(* Snapshots that share blocks are the values that SharedSnapshots promises. *)

Present(s) == s \in Live /\ ~Cloned(s) /\ snapshot[s].references # 0

LEMMA ValueOf ==
  ASSUME NEW s \in Snapshots
  PROVE  /\ Present(s) => Value(s) = [p \in Parts |-> block[Table(s)[p]].content]
         /\ ~Present(s) => Value(s) = NULL
BY DEF Present, Value, Cloning, Cloned, Live, Table

LEMMA ValueOfNext ==
  ASSUME NEW s \in Snapshots
  PROVE  /\ Present(s)' => Value(s)' = [p \in Parts |-> block'[Table(s)'[p]].content]
         /\ ~Present(s)' => Value(s)' = NULL
BY DEF Present, Value, Cloning, Cloned, Live, Table

\* A snapshot that can be read has all its parts.
LEMMA ValueType ==
  ASSUME ChunkInv, NEW s \in Snapshots, Present(s)
  PROVE  /\ \A p \in Parts : Table(s)[p] \in Blocks /\ block[Table(s)[p]] # NULL
         /\ Value(s) \in [Parts -> Values \cup {NULL}] /\ Value(s) # NULL
<1>1. Types /\ TablesFull /\ FreedAlone /\ s \in Live /\ ~Cloned(s) /\ snapshot[s].references # 0
  BY InvSplit DEF Present
<1>2. ~Freed(s)
  BY <1>1 DEF FreedAlone
<1>3. \A p \in Parts : Table(s)[p] # NULL
  BY <1>1, <1>2 DEF TablesFull, Table
<1>4. \A p \in Parts : Table(s)[p] \in Blocks /\ block[Table(s)[p]] # NULL
  BY <1>1, <1>3, TableBlock
<1>5. \A p \in Parts : block[Table(s)[p]].content \in Values \cup {NULL}
  BY <1>1, <1>4, BlockType DEF BlockRecords
<1>6. Value(s) \in [Parts -> Values \cup {NULL}]
  BY <1>5, ValueOf
<1>. QED
  BY <1>4, <1>6, Nulls

LEMMA ValueTypeNext ==
  (ChunkInv => \A s \in Snapshots : Present(s) =>
     /\ \A p \in Parts : Table(s)[p] \in Blocks /\ block[Table(s)[p]] # NULL
     /\ Value(s) \in [Parts -> Values \cup {NULL}] /\ Value(s) # NULL)'
<1>1. ChunkInv => \A s \in Snapshots : Present(s) =>
         /\ \A p \in Parts : Table(s)[p] \in Blocks /\ block[Table(s)[p]] # NULL
         /\ Value(s) \in [Parts -> Values \cup {NULL}] /\ Value(s) # NULL
  BY ValueType
<1>. QED
  BY <1>1, PTL

KeepsContent ==
  \A b \in Blocks : block[b] # NULL /\ block'[b] # NULL => block'[b].content = block[b].content

\* What can be read before and after a step that does not store reads the same.
LEMMA ReadsTheSame ==
  ASSUME ChunkInv, ChunkInv', KeepsContent, NEW s \in Snapshots,
         Present(s)' <=> Present(s), Present(s) => Table(s)' = Table(s)
  PROVE  Value(s)' = Value(s)
<1>1. CASE ~Present(s)
  BY <1>1, ValueOf, ValueOfNext
<1>2. CASE Present(s)
  <2>1. \A p \in Parts : Table(s)[p] \in Blocks /\ block[Table(s)[p]] # NULL
    BY <1>2, ValueType
  <2>2. \A p \in Parts : block'[Table(s)'[p]] # NULL
    BY <1>2, ValueTypeNext
  <2>3. \A p \in Parts : block'[Table(s)'[p]].content = block[Table(s)[p]].content
    BY <1>2, <2>1, <2>2 DEF KeepsContent
  <2>. QED
    BY <1>2, <2>3, ValueOf, ValueOfNext
<1>. QED
  BY <1>1, <1>2

LEMMA CountKeepsContent ==
  ASSUME Types, NEW b, NEW r, block' = [block EXCEPT ![b].references = r]
  PROVE  KeepsContent
<1>1. ASSUME NEW c \in Blocks, block[c] # NULL PROVE block'[c].content = block[c].content
  <2>1. block[c] \in BlockRecords
    BY <1>1, BlockType
  <2>2. PICK new : new = [block[c] EXCEPT !.references = r]
    OBVIOUS
  <2>3. new.content = block[c].content
    BY <2>1, <2>2 DEF BlockRecords
  <2>4. block'[c] = IF b = c THEN new ELSE block[c]
    BY <2>2 DEF Types
  <2>. QED
    BY <2>3, <2>4
<1>. QED
  BY <1>1 DEF KeepsContent

LEMMA ReleaseKeepsContent ==
  ASSUME Types, NEW b, block' = ReleasedPart(b)
  PROVE  KeepsContent
<1>1. CASE block[b].references = 1
  <2>1. block' = [block EXCEPT ![b] = NULL]
    BY <1>1 DEF ReleasedPart
  <2>2. \A c \in Blocks : block'[c] = IF b = c THEN NULL ELSE block[c]
    BY <2>1 DEF Types
  <2>. QED
    BY <2>2 DEF KeepsContent
<1>2. CASE block[b].references # 1
  <2>1. PICK r : r = block[b].references - 1
    OBVIOUS
  <2>2. block' = [block EXCEPT ![b].references = r]
    BY <1>2, <2>1 DEF ReleasedPart
  <2>. QED
    BY <2>2, CountKeepsContent
<1>. QED
  BY <1>1, <1>2

LEMMA FillKeepsContent ==
  ASSUME NEW table, NEW v, Fills(table, v)
  PROVE  KeepsContent
<1>1. ASSUME NEW c \in Blocks, block[c] # NULL PROVE block'[c] = block[c]
  <2>1. \A p \in Parts : table[p] # c
    BY <1>1 DEF Fills, FreeBlocks
  <2>. QED
    BY <2>1 DEF Fills
<1>. QED
  BY <1>1 DEF KeepsContent

Promised == [Shareable!Next]_(Shareable!vars)
SameValues(S) == \A x \in Snapshots \ S : Value(x)' = Value(x)

LEMMA MapsToStutter ==
  ASSUME SameValues({}), published' = published
  PROVE  Promised
<1>1. [s \in Snapshots |-> Value(s)]' = [s \in Snapshots |-> Value(s)]
  BY DEF SameValues
<1>. QED
  BY <1>1 DEF Promised, Shareable!vars

LEMMA MapsToMake ==
  ASSUME NEW s \in Snapshots, Value(s) = NULL, Value(s)' \in [Parts -> Values \cup {NULL}],
         SameValues({s}), published' = published
  PROVE  Promised
<1>1. Shareable!Make(s)
  BY DEF SameValues, Shareable!Make
<1>. QED
  BY <1>1 DEF Promised, Shareable!Next

LEMMA MapsToCopy ==
  ASSUME NEW s \in Snapshots, NEW source \in Snapshots, Value(s) = NULL, Value(source) # NULL,
         Value(s)' = Value(source), SameValues({s}), published' = published
  PROVE  Promised
<1>1. Shareable!Copy(s, source)
  BY DEF SameValues, Shareable!Copy
<1>. QED
  BY <1>1 DEF Promised, Shareable!Next

LEMMA MapsToReplace ==
  ASSUME NEW s \in Snapshots, NEW new \in Snapshots, s # new, s \notin published,
         Value(s) # NULL, Value(new) = NULL,
         Value(s)' = NULL, Value(new)' \in [Parts -> Values \cup {NULL}],
         SameValues({s, new}), published' = published
  PROVE  Promised
<1>1. Shareable!Replace(s, new)
  BY DEF SameValues, Shareable!Replace
<1>. QED
  BY <1>1 DEF Promised, Shareable!Next

LEMMA MapsToWrite ==
  ASSUME NEW s \in Snapshots, NEW p \in Parts, s \notin published, Value(s) # NULL,
         Value(s) \in [Parts -> Values \cup {NULL}], Value(s)' \in [Parts -> Values \cup {NULL}],
         \A q \in Parts \ {p} : Value(s)'[q] = Value(s)[q],
         SameValues({s}), published' = published
  PROVE  Promised
<1>1. PICK new : new = [Value(s) EXCEPT ![p] = Value(s)'[p]]
  OBVIOUS
<1>2. Value(s)' = new
  BY <1>1
<1>3. Shareable!Write(s, p)
  BY <1>1, <1>2 DEF SameValues, Shareable!Write
<1>. QED
  BY <1>3 DEF Promised, Shareable!Next

LEMMA MapsToPublish ==
  ASSUME NEW s \in Snapshots, s \notin published, Value(s) # NULL,
         SameValues({}), published' = published \cup {s}
  PROVE  Promised
<1>1. [x \in Snapshots |-> Value(x)]' = [x \in Snapshots |-> Value(x)]
  BY DEF SameValues
<1>2. Shareable!Publish(s)
  BY <1>1 DEF Shareable!Publish
<1>. QED
  BY <1>2 DEF Promised, Shareable!Next

LEMMA MapsToDiscard ==
  ASSUME NEW s \in Snapshots, Value(s) # NULL, Value(s)' = NULL,
         SameValues({s}), published' = published \ {s}
  PROVE  Promised
<1>1. [x \in Snapshots |-> Value(x)]' = [[x \in Snapshots |-> Value(x)] EXCEPT ![s] = NULL]
  <2>1. \A x \in Snapshots : Value(x)' = IF x = s THEN NULL ELSE Value(x)
    BY DEF SameValues
  <2>2. PICK f : f = [x \in Snapshots |-> Value(x)]
    OBVIOUS
  <2>3. [x \in Snapshots |-> Value(x)]' = [x \in Snapshots |-> IF x = s THEN NULL ELSE Value(x)]
    BY <2>1
  <2>4. [f EXCEPT ![s] = NULL] = [x \in Snapshots |-> IF x = s THEN NULL ELSE Value(x)]
    BY <2>2
  <2>. QED
    BY <2>2, <2>3, <2>4
<1>2. Shareable!Discard(s)
  BY <1>1 DEF Shareable!Discard
<1>. QED
  BY <1>2 DEF Promised, Shareable!Next

\* Which steps begin or end a clone.
LEMMA StaysOut ==
  ASSUME Types, NEW t \in Threads,
         WriteBegin(t) \/ WriteFails(t) \/ WriteLetGo(t) \/ WriteCopy(t) \/ WriteStore(t)
         \/ Lookup(t) \/ FreePart(t) \/ Build(t) \/ Publish(t)
  PROVE  \A x : Cloned(x)' <=> Cloned(x)
<1>. SUFFICES Others(t) /\ thread[t].at # "clone" /\ thread'[t].at # "clone"
  BY SameHolders
<1>1. thread \in [Threads -> ThreadRecords]
  BY DEF Types
<1>2. CASE WriteBegin(t)
  <2>1. PICK x \in {"copy", "store"}, p \in Chunks :
          /\ thread[t].at = "ready"
          /\ thread' = [thread EXCEPT ![t].at = x, ![t].part = p]
    <3>1. PICK p \in Chunks :
            thread' = [thread EXCEPT
                         ![t].at = IF Shared(snapshot[thread[t].mine].table[p])
                                   THEN "copy" ELSE "store",
                         ![t].part = p]
      BY <1>2 DEF WriteBegin
    <3>2. PICK x \in {"copy", "store"} :
            x = IF Shared(snapshot[thread[t].mine].table[p]) THEN "copy" ELSE "store"
      OBVIOUS
    <3>3. thread' = [thread EXCEPT ![t].at = x, ![t].part = p]
      BY <3>1, <3>2
    <3>. QED
      BY <1>2, <3>3 DEF WriteBegin
  <2>. QED
    BY <1>1, <2>1 DEF Others, ThreadRecords
<1>3. CASE WriteFails(t)
  BY <1>1, <1>3 DEF WriteFails, Others, ThreadRecords
<1>4. CASE WriteLetGo(t)
  BY <1>1, <1>4 DEF WriteLetGo, Others, ThreadRecords
<1>5. CASE WriteCopy(t)
  <2>1. PICK b : /\ thread[t].at = "copy"
                 /\ thread' = [thread EXCEPT ![t].at = "let go", ![t].old = b]
    BY <1>5 DEF WriteCopy
  <2>. QED
    BY <1>1, <2>1 DEF Others, ThreadRecords
<1>6. CASE WriteStore(t)
  BY <1>1, <1>6 DEF WriteStore, Others, ThreadRecords
<1>7. CASE Lookup(t)
  BY <1>1, <1>7 DEF Lookup, Others, ThreadRecords
<1>8. CASE FreePart(t)
  BY <1>1, <1>8 DEF FreePart, Others, ThreadRecords
<1>9. CASE Build(t)
  BY <1>1, <1>9 DEF Build, Others, ThreadRecords
<1>10. CASE Publish(t)
  BY <1>1, <1>10 DEF Publish, Others, ThreadRecords
<1>. QED
  BY <1>2, <1>3, <1>4, <1>5, <1>6, <1>7, <1>8, <1>9, <1>10

LEMMA LettingGoStaysOut ==
  ASSUME Types, NEW t \in Threads, Leave(t) \/ Evict(t) \/ Rebuild(t)
  PROVE  \A x : Cloned(x)' <=> Cloned(x)
<1>. SUFFICES Others(t) /\ thread[t].at # "clone" /\ thread'[t].at # "clone"
  BY SameHolders
<1>1. thread \in [Threads -> ThreadRecords]
  BY DEF Types
<1>2. CASE Leave(t)
  BY <1>1, <1>2 DEF Leave, Freeing, Others, ThreadRecords
<1>3. CASE Evict(t)
  <2>1. PICK s : thread' = Freeing(t, s)
    BY <1>3 DEF Evict
  <2>2. thread[t].at = "ready"
    BY <1>3 DEF Evict
  <2>3. CASE Last(s)
    BY <1>1, <2>1, <2>2, <2>3 DEF Freeing, Others, ThreadRecords
  <2>4. CASE ~Last(s)
    BY <1>1, <2>1, <2>2, <2>4 DEF Freeing, Others, ThreadRecords
  <2>. QED
    BY <2>3, <2>4
<1>4. CASE Rebuild(t)
  BY <1>1, <1>4 DEF Rebuild, Freeing, Others, ThreadRecords
<1>. QED
  BY <1>2, <1>3, <1>4

\* Nobody clones into what somebody else has.
LEMMA NotCloned ==
  ASSUME ChunkInv, NEW t \in Threads, NEW s \in Live,
         s = thread[t].base \/ (s = thread[t].mine /\ thread[t].at # "clone") \/ s \in cached
  PROVE  Present(s)
<1>1. HeldAlone /\ cached \subseteq published /\ \A u \in Threads : ThreadSound(u)
  BY InvSplit
<1>2. snapshot[s].references # 0
  BY HeldNotFreed
<1>3. ASSUME NEW u \in Threads, thread[u].at = "clone", thread[u].mine = s PROVE FALSE
  <2>1. s \notin published /\ s \in Snapshots
    BY <1>1, <1>3 DEF ThreadSound, CloneSound, Live
  <2>2. s \notin cached
    BY <1>1, <2>1
  <2>. QED
    BY <1>1, <1>3, <2>1, <2>2 DEF HeldAlone
<1>. QED
  BY <1>2, <1>3 DEF Present, Cloned

\* What no step of t touches reads the same.
LEMMA OthersRead ==
  ASSUME ChunkInv, ChunkInv', KeepsContent, NEW S,
         \A x \in Snapshots \ S : Cloned(x)' <=> Cloned(x),
         \A x \in Snapshots \ S : x \in Live' <=> x \in Live,
         \A x \in Live \ S : snapshot'[x].references = 0 <=> snapshot[x].references = 0,
         \A x \in Live \ S : Table(x)' = Table(x)
  PROVE  SameValues(S)
<1>1. ASSUME NEW x \in Snapshots \ S PROVE Value(x)' = Value(x)
  <2>1. Present(x)' <=> Present(x)
    BY DEF Present
  <2>2. Present(x) => Table(x)' = Table(x)
    BY DEF Present
  <2>. QED
    BY <2>1, <2>2, ReadsTheSame
<1>. QED
  BY <1>1 DEF SameValues

\* Deciding how to write, giving up, and letting go of the old block.
LEMMA QuietMaps ==
  ASSUME ChunkInv, ChunkInv', NEW t \in Threads,
         WriteBegin(t) \/ WriteFails(t) \/ WriteLetGo(t)
  PROVE  Promised
<1>1. Types
  BY InvSplit
<1>2. snapshot' = snapshot /\ published' = published
  BY DEF WriteBegin, WriteFails, WriteLetGo
<1>3. \A x : Cloned(x)' <=> Cloned(x)
  BY <1>1, StaysOut
<1>4. KeepsContent
  <2>1. CASE WriteLetGo(t)
    <3>1. PICK b : block' = ReleasedPart(b)
      BY <2>1 DEF WriteLetGo
    <3>. QED
      BY <1>1, <3>1, ReleaseKeepsContent
  <2>2. CASE WriteBegin(t) \/ WriteFails(t)
    BY <2>2 DEF WriteBegin, WriteFails, KeepsContent
  <2>. QED
    BY <2>1, <2>2
<1>5. Live' = Live /\ \A x : Table(x)' = Table(x)
  BY <1>2 DEF Live, Table
<1>6. SameValues({})
  BY <1>2, <1>3, <1>4, <1>5, OthersRead
<1>. QED
  BY <1>2, <1>6, MapsToStutter

LEMMA LookupMaps ==
  ASSUME ChunkInv, ChunkInv', NEW t \in Threads, Lookup(t)
  PROVE  Promised
<1>1. Types /\ HeldLive
  BY InvSplit
<1>2. PICK s \in cached : snapshot' = Retained(s)
  BY DEF Lookup
<1>3. s \in Live /\ snapshot[s].references \in Nat \ {0}
  BY <1>1, HeldNotFreed DEF HeldLive
<1>4. PICK r : r = snapshot[s].references + 1
  OBVIOUS
<1>5. r \in Nat /\ r # 0 /\ snapshot' = [snapshot EXCEPT ![s].references = r]
  BY <1>2, <1>3, <1>4 DEF Retained
<1>6. /\ Live' = Live /\ \A x \in Live : Table(x)' = Table(x)
      /\ snapshot'[s].references = r /\ \A x \in Live \ {s} : snapshot'[x] = snapshot[x]
  BY <1>1, <1>3, <1>5, Recounted
<1>7. \A x : Cloned(x)' <=> Cloned(x)
  BY <1>1, StaysOut
<1>8. KeepsContent /\ published' = published
  BY DEF Lookup, KeepsContent
<1>9. \A x \in Live : snapshot'[x].references = 0 <=> snapshot[x].references = 0
  BY <1>3, <1>5, <1>6
<1>10. SameValues({})
  BY <1>6, <1>7, <1>8, <1>9, OthersRead
<1>. QED
  BY <1>8, <1>10, MapsToStutter

LEMMA PublishMaps ==
  ASSUME ChunkInv, ChunkInv', NEW t \in Threads, Publish(t)
  PROVE  Promised
<1>1. Types /\ HeldLive
  BY InvSplit
<1>2. thread[t].at = "ready" /\ UNCHANGED <<block, thread>>
  BY DEF Publish
<1>3. PICK s \in {thread[t].base, thread[t].mine} \ (published \cup {NULL}) :
        snapshot' = Retained(s) /\ published' = published \cup {s}
  BY DEF Publish
<1>4. s \in Live /\ s \in Snapshots /\ s \notin published
  BY <1>1, <1>3, ThreadType DEF Live
<1>5. Present(s) /\ snapshot[s].references \in Nat \ {0}
  BY <1>2, <1>3, <1>4, NotCloned, HeldNotFreed
<1>6. PICK r : r = snapshot[s].references + 1
  OBVIOUS
<1>7. r \in Nat /\ r # 0 /\ snapshot' = [snapshot EXCEPT ![s].references = r]
  BY <1>3, <1>5, <1>6 DEF Retained
<1>8. /\ Live' = Live /\ \A x \in Live : Table(x)' = Table(x)
      /\ snapshot'[s].references = r /\ \A x \in Live \ {s} : snapshot'[x] = snapshot[x]
  BY <1>1, <1>4, <1>7, Recounted
<1>9. (\A x : Cloned(x)' <=> Cloned(x)) /\ KeepsContent
  BY <1>1, <1>2, StaysOut DEF KeepsContent
<1>10. \A x \in Live : snapshot'[x].references = 0 <=> snapshot[x].references = 0
  BY <1>5, <1>7, <1>8
<1>11. SameValues({})
  BY <1>8, <1>9, <1>10, OthersRead
<1>12. Value(s) # NULL
  BY <1>4, <1>5, ValueType
<1>. QED
  BY <1>3, <1>4, <1>11, <1>12, MapsToPublish

\* The last one who lets go of a snapshot takes its value away.
LEMMA LetGoMaps ==
  ASSUME ChunkInv, ChunkInv', NEW s \in Live, Present(s), snapshot' = LetGo(snapshot, s),
         block' = block, published' = IF Last(s) THEN published \ {s} ELSE published,
         \A x : Cloned(x)' <=> Cloned(x)
  PROVE  Promised
<1>1. Types /\ s \in Snapshots
  BY InvSplit DEF Live
<1>2. snapshot[s].references \in Nat \ {0}
  BY <1>1, TableType DEF Present
<1>3. PICK r : r = snapshot[s].references - 1
  OBVIOUS
<1>4. r \in Nat /\ (r = 0 <=> Last(s)) /\ snapshot' = [snapshot EXCEPT ![s].references = r]
  BY <1>2, <1>3 DEF LetGo, Last
<1>5. /\ Live' = Live /\ \A x \in Live : Table(x)' = Table(x)
      /\ snapshot'[s].references = r /\ \A x \in Live \ {s} : snapshot'[x] = snapshot[x]
  BY <1>1, <1>4, Recounted
<1>6. KeepsContent
  BY DEF KeepsContent
<1>7. CASE ~Last(s)
  <2>1. \A x \in Live : snapshot'[x].references = 0 <=> snapshot[x].references = 0
    BY <1>2, <1>4, <1>5, <1>7
  <2>2. SameValues({})
    BY <1>5, <1>6, <2>1, OthersRead
  <2>. QED
    BY <1>7, <2>2, MapsToStutter
<1>8. CASE Last(s)
  <2>1. SameValues({s})
    BY <1>5, <1>6, OthersRead
  <2>2. Value(s) # NULL
    BY <1>1, ValueType
  <2>3. Value(s)' = NULL
    <3>1. ~Present(s)'
      BY <1>4, <1>5, <1>8 DEF Present
    <3>. QED
      BY <1>1, <3>1, ValueOfNext
  <2>. QED
    BY <1>1, <1>8, <2>1, <2>2, <2>3, MapsToDiscard
<1>. QED
  BY <1>7, <1>8

LEMMA LeaveMaps ==
  ASSUME ChunkInv, ChunkInv', NEW t \in Threads, Leave(t)
  PROVE  Promised
<1>1. Types /\ HeldLive
  BY InvSplit
<1>2. thread[t].at = "ready" /\ block' = block
  BY DEF Leave
<1>3. PICK s \in {thread[t].mine, thread[t].base} :
        /\ s # NULL /\ snapshot' = LetGo(snapshot, s)
        /\ published' = IF Last(s) THEN published \ {s} ELSE published
  BY DEF Leave
<1>4. s \in Live
  BY <1>1, <1>3, ThreadType
<1>5. Present(s)
  BY <1>2, <1>3, <1>4, NotCloned
<1>6. \A x : Cloned(x)' <=> Cloned(x)
  BY <1>1, LettingGoStaysOut
<1>. QED
  BY <1>2, <1>3, <1>4, <1>5, <1>6, LetGoMaps

LEMMA EvictMaps ==
  ASSUME ChunkInv, ChunkInv', NEW t \in Threads, Evict(t)
  PROVE  Promised
<1>1. Types /\ HeldLive
  BY InvSplit
<1>2. PICK s \in cached : /\ snapshot' = LetGo(snapshot, s)
                          /\ published' = IF Last(s) THEN published \ {s} ELSE published
  BY DEF Evict
<1>3. s \in Live /\ block' = block
  BY <1>1 DEF HeldLive, Evict
<1>4. Present(s)
  BY <1>3, NotCloned
<1>5. \A x : Cloned(x)' <=> Cloned(x)
  BY <1>1, LettingGoStaysOut
<1>. QED
  BY <1>2, <1>3, <1>4, <1>5, LetGoMaps

\* A snapshot that is being freed has no value any more.
LEMMA FreePartMaps ==
  ASSUME ChunkInv, ChunkInv', NEW t \in Threads, FreePart(t)
  PROVE  Promised
<1>1. Types
  BY InvSplit
<1>2. PICK s, p : s = thread[t].freeing /\ p = thread[t].part
  OBVIOUS
<1>3. /\ thread[t].at = "free" /\ published' = published
      /\ block' = ReleasedPart(snapshot[s].table[p])
  BY <1>2 DEF FreePart
<1>4. s \in Live /\ s \in Snapshots /\ p \in Parts /\ snapshot[s].references = 0
  BY <1>2, <1>3, FreeFacts DEF Live
<1>5. (\A x : Cloned(x)' <=> Cloned(x)) /\ KeepsContent
  BY <1>1, <1>3, StaysOut, ReleaseKeepsContent
<1>6. /\ Live' \ {s} = Live \ {s} /\ \A x \in Live \ {s} : Table(x)' = Table(x)
      /\ \A x \in Live \ {s} : snapshot'[x].references = snapshot[x].references
      /\ s \in Live' => snapshot'[s].references = 0
  <2>1. CASE p = Topology
    <3>1. snapshot' = [snapshot EXCEPT ![s] = NULL]
      BY <1>2, <2>1 DEF FreePart
    <3>2. snapshot'[s] = NULL /\ \A x \in Snapshots \ {s} : snapshot'[x] = snapshot[x]
      BY <1>1, <1>4, <3>1 DEF Types
    <3>. QED
      BY <1>4, <3>2 DEF Live, Table
  <2>2. CASE p # Topology
    <3>1. PICK v \in Blocks \cup {NULL} : v = NULL
      OBVIOUS
    <3>2. SetsPart(s, p, v)
      BY <1>2, <2>2, <3>1 DEF FreePart, SetsPart
    <3>3. /\ Live' = Live
          /\ \A x \in Live : snapshot'[x].references = snapshot[x].references
          /\ \A x \in Live \ {s} : Table(x)' = Table(x)
      BY <1>1, <1>4, <3>2, TableSet
    <3>. QED
      BY <1>4, <3>3
  <2>. QED
    BY <2>1, <2>2
<1>7. SameValues({s})
  BY <1>5, <1>6, OthersRead
<1>8. Value(s)' = Value(s)
  <2>1. ~Present(s) /\ ~Present(s)'
    BY <1>4, <1>6 DEF Present
  <2>. QED
    BY <1>4, <2>1, ValueOf, ValueOfNext
<1>9. SameValues({})
  BY <1>7, <1>8 DEF SameValues
<1>. QED
  BY <1>3, <1>9, MapsToStutter

\* The copy of a block says the same.
LEMMA WriteCopyMaps ==
  ASSUME ChunkInv, ChunkInv', NEW t \in Threads, WriteCopy(t)
  PROVE  Promised
<1>1. Types /\ HeldLive /\ ThreadSound(t)
  BY InvSplit
<1>2. PICK p, mine : p = thread[t].part /\ mine = thread[t].mine
  OBVIOUS
<1>3. PICK b : b = Table(mine)[p]
  OBVIOUS
<1>4. PICK copy \in {Lowest(FreeBlocks, 1)} :
        /\ block' = [block EXCEPT ![copy] = Copied(b)]
        /\ snapshot' = [snapshot EXCEPT ![mine].table[p] = copy]
  BY <1>2, <1>3 DEF WriteCopy, Table
<1>5. thread[t].at = "copy" /\ published' = published /\ FreeBlocks # {}
  BY DEF WriteCopy
<1>6. copy \in Blocks /\ block[copy] = NULL
  BY <1>4, <1>5, FreeOnes, FreeUnused
<1>7. mine # NULL /\ mine \notin published /\ p \in Parts
  BY <1>1, <1>2, <1>5, Nulls DEF ThreadSound, WriteSound
<1>8. mine \in Live /\ mine \in Snapshots
  BY <1>1, <1>2, <1>7, ThreadType DEF Live
<1>9. /\ Live' = Live
      /\ \A x \in Live : snapshot'[x].references = snapshot[x].references
      /\ \A x \in Live \ {mine} : Table(x)' = Table(x)
      /\ Table(mine)' = [Table(mine) EXCEPT ![p] = copy]
  <2>1. copy \in Blocks \cup {NULL} /\ SetsPart(mine, p, copy)
    BY <1>4, <1>6 DEF SetsPart
  <2>. QED
    BY <1>1, <1>7, <1>8, <2>1, TableSet
<1>10. \A c \in Blocks : block'[c] = IF c = copy THEN Copied(b) ELSE block[c]
  BY <1>1, <1>4 DEF Types
<1>11. (\A x : Cloned(x)' <=> Cloned(x)) /\ KeepsContent
  BY <1>1, <1>6, <1>10, StaysOut DEF KeepsContent
<1>12. SameValues({mine})
  BY <1>9, <1>11, OthersRead
<1>13. Value(mine)' = Value(mine)
  <2>1. Present(mine) /\ Present(mine)'
    <3>1. Present(mine)
      BY <1>2, <1>5, <1>8, NotCloned
    <3>. QED
      BY <1>8, <1>9, <1>11, <3>1 DEF Present
  <2>2. \A q \in Parts : Table(mine)'[q] = IF q = p THEN copy ELSE Table(mine)[q]
    BY <1>1, <1>7, <1>8, <1>9, TableType
  <2>3. \A q \in Parts : Table(mine)[q] \in Blocks /\ block[Table(mine)[q]] # NULL
    BY <1>8, <2>1, ValueType
  <2>4. Copied(b).content = block[b].content
    BY DEF Copied, New
  <2>5. ASSUME NEW q \in Parts
        PROVE  block'[Table(mine)'[q]].content = block[Table(mine)[q]].content
    <3>1. CASE q = p
      BY <1>3, <1>6, <1>10, <2>2, <2>4, <3>1
    <3>2. CASE q # p
      BY <1>6, <1>10, <2>2, <2>3, <3>2
    <3>. QED
      BY <3>1, <3>2
  <2>. QED
    BY <1>8, <2>1, <2>5, ValueOf, ValueOfNext
<1>14. SameValues({})
  BY <1>12, <1>13 DEF SameValues
<1>. QED
  BY <1>5, <1>14, MapsToStutter

LEMMA WriteStoreMaps ==
  ASSUME ChunkInv, ChunkInv', NEW t \in Threads, WriteStore(t)
  PROVE  Promised
<1>1. Types /\ HeldLive /\ ThreadSound(t)
  BY InvSplit
<1>2. PICK p, mine : p = thread[t].part /\ mine = thread[t].mine
  OBVIOUS
<1>3. PICK b : b = Table(mine)[p]
  OBVIOUS
<1>4. thread[t].at = "store" /\ snapshot' = snapshot /\ published' = published
  BY DEF WriteStore
<1>5. PICK v \in Values : block' = [block EXCEPT ![b].content = v]
  BY <1>2, <1>3 DEF WriteStore, Table
<1>6. mine # NULL /\ mine \notin published /\ p \in Parts
  BY <1>1, <1>2, <1>4, Nulls DEF ThreadSound, WriteSound
<1>7. mine \in Live /\ mine \in Snapshots
  BY <1>1, <1>2, <1>6, ThreadType DEF Live
<1>8. \A c \in Blocks : c # b => block'[c] = block[c]
  BY <1>1, <1>5 DEF Types
<1>9. \A x \in Live, q \in Parts : Table(x)[q] = b => x = mine /\ q = p
  <2>1. Uses(b) = {<<mine, p>>}
    BY <1>2, <1>3, <1>4, WriterAlone
  <2>2. ASSUME NEW x \in Live, NEW q \in Parts, Table(x)[q] = b PROVE x = mine /\ q = p
    <3>1. <<x, q>> \in Uses(b)
      BY <2>2 DEF Uses, Table
    <3>2. <<x, q>> = <<mine, p>>
      BY <2>1, <3>1
    <3>. QED
      BY <3>2
  <2>. QED
    BY <2>2
<1>10. Live' = Live /\ \A x : Table(x)' = Table(x)
  BY <1>4 DEF Live, Table
<1>11. \A x : Cloned(x)' <=> Cloned(x)
  BY <1>1, StaysOut
<1>12. \A x : Present(x)' <=> Present(x)
  BY <1>4, <1>10, <1>11 DEF Present
<1>13. ASSUME NEW x \in Snapshots, x # mine PROVE Value(x)' = Value(x)
  <2>1. CASE ~Present(x)
    BY <1>12, <2>1, ValueOf, ValueOfNext
  <2>2. CASE Present(x)
    <3>1. \A q \in Parts : Table(x)[q] \in Blocks /\ Table(x)[q] # b
      BY <1>9, <1>13, <2>2, ValueType DEF Present
    <3>2. \A q \in Parts : block'[Table(x)'[q]].content = block[Table(x)[q]].content
      BY <1>8, <1>10, <3>1
    <3>. QED
      BY <1>12, <2>2, <3>2, ValueOf, ValueOfNext
  <2>. QED
    BY <2>1, <2>2
<1>14. SameValues({mine})
  BY <1>13 DEF SameValues
<1>15. Present(mine) /\ Present(mine)'
  BY <1>2, <1>4, <1>7, <1>12, NotCloned
<1>16. /\ Value(mine) # NULL /\ Value(mine) \in [Parts -> Values \cup {NULL}]
       /\ Value(mine)' \in [Parts -> Values \cup {NULL}]
  BY <1>7, <1>15, ValueType, ValueTypeNext
<1>17. ASSUME NEW q \in Parts \ {p} PROVE Value(mine)'[q] = Value(mine)[q]
  <2>1. Table(mine)[q] \in Blocks /\ Table(mine)[q] # b
    BY <1>7, <1>9, <1>15, ValueType
  <2>2. block'[Table(mine)'[q]].content = block[Table(mine)[q]].content
    BY <1>8, <1>10, <2>1
  <2>. QED
    BY <1>7, <1>15, <2>2, ValueOf, ValueOfNext
<1>. QED
  BY <1>4, <1>6, <1>7, <1>14, <1>16, <1>17, MapsToWrite

\* A snapshot that is being made has no value before its last part.
LEMMA CloneBeginMaps ==
  ASSUME ChunkInv, ChunkInv', NEW t \in Threads, CloneBegin(t)
  PROVE  Promised
<1>1. Types
  BY InvSplit
<1>2. /\ thread[t].at = "ready" /\ FreeSnapshots # {}
      /\ block' = block /\ published' = published
  BY DEF CloneBegin
<1>3. PICK s \in {Lowest(FreeSnapshots, 1)} :
        /\ snapshot' = [snapshot EXCEPT ![s] = [references |-> 1, table |-> [p \in Parts |-> NULL]]]
        /\ thread' = [thread EXCEPT ![t].mine = s, ![t].at = "clone", ![t].part = Topology]
  BY DEF CloneBegin
<1>4. s \in FreeSnapshots /\ s \in Snapshots /\ s \notin Live
  BY <1>2, <1>3, FreeOnes DEF FreeSnapshots, Live
<1>5. PICK table : table = [p \in Parts |-> NULL]
  OBVIOUS
<1>6. Adds(s) /\ \A x \in Live : snapshot'[x] = snapshot[x]
  <2>1. table \in [Parts -> Blocks \cup {NULL}]
    BY <1>5
  <2>. QED
    BY <1>1, <1>3, <1>4, <1>5, <2>1, AddsNew
<1>7. Live' = Live \cup {s} /\ \A x \in Live : Table(x)' = Table(x)
  BY <1>6 DEF Adds
<1>8. /\ thread'[t].at = "clone" /\ thread'[t].mine = s
      /\ \A u \in Threads \ {t} : thread'[u] = thread[u]
  BY <1>1, <1>3 DEF Types, ThreadRecords
<1>9. Cloned(s)' /\ \A x \in Snapshots \ {s} : Cloned(x)' <=> Cloned(x)
  BY <1>2, <1>8 DEF Cloned
<1>10. SameValues({s})
  BY <1>2, <1>6, <1>7, <1>9, OthersRead DEF KeepsContent
<1>11. Value(s)' = Value(s)
  <2>1. ~Present(s) /\ ~Present(s)'
    BY <1>4, <1>9 DEF Present
  <2>. QED
    BY <1>4, <2>1, ValueOf, ValueOfNext
<1>12. SameValues({})
  BY <1>10, <1>11 DEF SameValues
<1>. QED
  BY <1>2, <1>12, MapsToStutter

\* With the last part, the clone is a copy of its source.
LEMMA ClonePartMaps ==
  ASSUME ChunkInv, ChunkInv', NEW t \in Threads, ClonePart(t)
  PROVE  Promised
<1>1. Types /\ HeldLive /\ ThreadSound(t)
  BY InvSplit
<1>2. PICK p, mine, base : p = thread[t].part /\ mine = thread[t].mine /\ base = thread[t].base
  OBVIOUS
<1>3. PICK b : b = Table(base)[p]
  OBVIOUS
<1>4. /\ thread[t].at = "clone" /\ published' = published
      /\ snapshot' = [snapshot EXCEPT ![mine].table[p] = b]
      /\ block' = RetainedPart(b)
      /\ thread' = IF p = ChunkCount
                   THEN [thread EXCEPT ![t].at = "ready", ![t].part = NULL]
                   ELSE [thread EXCEPT ![t].part = p + 1]
  BY <1>2, <1>3 DEF ClonePart, Table
<1>5. /\ base # NULL /\ mine # NULL /\ mine \notin published /\ p \in Parts
      /\ \A q \in Parts : Table(mine)[q] = IF q < p THEN Table(base)[q] ELSE NULL
  BY <1>1, <1>2, <1>4 DEF ThreadSound, CloneSound, Table
<1>6. mine \in Live /\ mine \in Snapshots /\ base \in Live /\ base \in Snapshots /\ mine # base
  BY <1>1, <1>2, <1>5, ThreadType, NoneElse DEF Live
<1>7. Present(base) /\ snapshot[mine].references # 0
  BY <1>2, <1>6, NotCloned, HeldNotFreed
<1>8. /\ b \in Blocks /\ Value(base) # NULL
      /\ \A q \in Parts : Table(base)[q] \in Blocks /\ block[Table(base)[q]] # NULL
  BY <1>3, <1>5, <1>6, <1>7, ValueType
<1>9. /\ Live' = Live
      /\ \A x \in Live : snapshot'[x].references = snapshot[x].references
      /\ \A x \in Live \ {mine} : Table(x)' = Table(x)
      /\ Table(mine)' = [Table(mine) EXCEPT ![p] = b]
  <2>1. b \in Blocks \cup {NULL} /\ SetsPart(mine, p, b)
    BY <1>4, <1>8 DEF SetsPart
  <2>. QED
    BY <1>1, <1>5, <1>6, <2>1, TableSet
<1>10. KeepsContent
  <2>1. PICK r : r = block[b].references + 1
    OBVIOUS
  <2>2. block' = [block EXCEPT ![b].references = r]
    BY <1>4, <2>1 DEF RetainedPart
  <2>. QED
    BY <1>1, <2>2, CountKeepsContent
<1>11. /\ thread'[t].at = IF p = ChunkCount THEN "ready" ELSE "clone"
       /\ thread'[t].mine = mine /\ \A u \in Threads \ {t} : thread'[u] = thread[u]
  BY <1>1, <1>2, <1>4 DEF Types, ThreadRecords
<1>12. /\ \A x : x # mine => (Cloned(x)' <=> Cloned(x))
       /\ Cloned(mine) /\ (Cloned(mine)' <=> p # ChunkCount)
  <2>1. \A u \in Threads \ {t} : thread[u].mine # mine
    BY <1>2, <1>5, NoneElse
  <2>2. Cloned(mine)
    BY <1>2, <1>4 DEF Cloned
  <2>3. Cloned(mine)' <=> p # ChunkCount
    BY <1>11, <2>1 DEF Cloned
  <2>4. ASSUME NEW x, x # mine PROVE Cloned(x)' <=> Cloned(x)
    BY <1>2, <1>11, <2>4 DEF Cloned
  <2>. QED
    BY <2>2, <2>3, <2>4
<1>13. SameValues({mine})
  BY <1>9, <1>10, <1>12, OthersRead
<1>14. Value(mine) = NULL
  BY <1>6, <1>12, ValueOf DEF Present
<1>15. CASE p # ChunkCount
  <2>1. Value(mine)' = NULL
    BY <1>6, <1>12, <1>15, ValueOfNext DEF Present
  <2>2. SameValues({})
    BY <1>13, <1>14, <2>1 DEF SameValues
  <2>. QED
    BY <1>4, <2>2, MapsToStutter
<1>16. CASE p = ChunkCount
  <2>1. Present(mine)'
    BY <1>6, <1>7, <1>9, <1>12, <1>16 DEF Present
  <2>2. ASSUME NEW q \in Parts PROVE Table(mine)'[q] = Table(base)[q]
    <3>1. q < p \/ q = p
      BY <1>16, Nulls, ChunkAssumption
    <3>. QED
      BY <1>1, <1>3, <1>5, <1>6, <1>9, <3>1, TableType
  <2>3. ASSUME NEW q \in Parts
        PROVE  block'[Table(mine)'[q]].content = block[Table(base)[q]].content
    <3>1. block'[Table(mine)'[q]] # NULL
      BY <1>6, <2>1, ValueTypeNext
    <3>. QED
      BY <1>8, <1>10, <2>2, <3>1 DEF KeepsContent
  <2>4. Value(mine)' = Value(base)
    BY <1>6, <1>7, <2>1, <2>3, ValueOf, ValueOfNext
  <2>. QED
    BY <1>4, <1>6, <1>8, <1>13, <1>14, <2>4, MapsToCopy
<1>. QED
  BY <1>15, <1>16

LEMMA BuildMaps ==
  ASSUME ChunkInv, ChunkInv', NEW t \in Threads, Build(t)
  PROVE  Promised
<1>1. Types
  BY InvSplit
<1>2. Room /\ FreeSnapshots # {} /\ published' = published
  BY DEF Build, Room
<1>3. PICK s \in {Lowest(FreeSnapshots, 1)}, v \in Contents :
        block' = Allocate(s, v).blocks /\ snapshot' = Allocate(s, v).snapshots
  BY DEF Build
<1>4. s \in FreeSnapshots /\ s \in Snapshots /\ s \notin Live
  BY <1>2, <1>3, FreeOnes DEF FreeSnapshots, Live
<1>5. PICK table : /\ Fills(table, v)
                   /\ snapshot' = [snapshot EXCEPT ![s] = [references |-> 1, table |-> table]]
  <2>1. PICK table : Gives(s, v, table)
    BY <1>1, <1>2, Allocated
  <2>2. Fills(table, v)
    BY <1>3, <2>1 DEF Gives, Fills
  <2>. QED
    BY <1>3, <2>1, <2>2 DEF Gives
<1>6. Adds(s) /\ \A x \in Live : snapshot'[x] = snapshot[x]
  <2>1. table \in [Parts -> Blocks \cup {NULL}]
    BY <1>5 DEF Fills, FreeBlocks
  <2>. QED
    BY <1>1, <1>4, <1>5, <2>1, AddsNew
<1>7. /\ Live' = Live \cup {s} /\ snapshot'[s].references = 1
      /\ \A x \in Live : Table(x)' = Table(x)
  BY <1>6 DEF Adds
<1>8. \A x : Cloned(x)' <=> Cloned(x)
  BY <1>1, StaysOut
<1>9. SameValues({s})
  <2>1. KeepsContent
    BY <1>5, FillKeepsContent
  <2>. QED
    BY <1>6, <1>7, <1>8, <2>1, OthersRead
<1>10. Value(s) = NULL
  BY <1>4, ValueOf DEF Present
<1>11. Value(s)' \in [Parts -> Values \cup {NULL}]
  <2>1. ~Cloned(s)
    BY <1>4, InvSplit, Nulls DEF Cloned, HeldLive
  <2>2. Present(s)'
    BY <1>7, <1>8, <2>1 DEF Present
  <2>. QED
    BY <1>4, <2>2, ValueTypeNext
<1>. QED
  BY <1>2, <1>4, <1>9, <1>10, <1>11, MapsToMake

\* The candidate that is given up has no other reference, and goes at once.
LEMMA RebuildMaps ==
  ASSUME ChunkInv, ChunkInv', NEW t \in Threads, Rebuild(t)
  PROVE  Promised
<1>1. Types
  BY InvSplit
<1>2. PICK m : m = thread[t].mine
  OBVIOUS
<1>3. /\ thread[t].at = "ready" /\ m # NULL /\ m \notin published
      /\ Room /\ FreeSnapshots # {} /\ published' = published
  BY <1>2 DEF Rebuild, Room
<1>4. PICK s \in {Lowest(FreeSnapshots, 1)}, v \in Contents :
        /\ block' = Allocate(s, v).blocks
        /\ snapshot' = LetGo(Allocate(s, v).snapshots, m)
  BY <1>2 DEF Rebuild
<1>5. s \in FreeSnapshots /\ s \in Snapshots /\ s \notin Live
  BY <1>3, <1>4, FreeOnes DEF FreeSnapshots, Live
<1>6. m \in Live /\ m \in Snapshots /\ snapshot[m].references = 1 /\ m # s
  BY <1>2, <1>3, <1>5, MineOnly DEF Live
<1>7. PICK table : /\ Fills(table, v)
                   /\ snapshot' = LetGo([snapshot EXCEPT
                                           ![s] = [references |-> 1, table |-> table]], m)
  <2>1. PICK table : Gives(s, v, table)
    BY <1>1, <1>3, Allocated
  <2>2. Fills(table, v)
    BY <1>4, <2>1 DEF Gives, Fills
  <2>. QED
    BY <1>4, <2>1, <2>2 DEF Gives
<1>8. /\ Adds(s) /\ snapshot'[m].references = 0
      /\ \A x \in Live \ {m} : snapshot'[x] = snapshot[x]
  <2>1. table \in [Parts -> Blocks \cup {NULL}]
    BY <1>7 DEF Fills, FreeBlocks
  <2>. QED
    BY <1>1, <1>5, <1>6, <1>7, <2>1, SwapsNew
<1>9. /\ Live' = Live \cup {s} /\ snapshot'[s].references = 1
      /\ \A x \in Live : Table(x)' = Table(x)
  BY <1>8 DEF Adds
<1>10. \A x : Cloned(x)' <=> Cloned(x)
  BY <1>1, LettingGoStaysOut
<1>11. SameValues({m, s})
  <2>1. KeepsContent
    BY <1>7, FillKeepsContent
  <2>. QED
    BY <1>8, <1>9, <1>10, <2>1, OthersRead
<1>12. Value(s) = NULL
  BY <1>5, ValueOf DEF Present
<1>13. Value(s)' \in [Parts -> Values \cup {NULL}]
  <2>1. ~Cloned(s)
    BY <1>5, InvSplit, Nulls DEF Cloned, HeldLive
  <2>2. Present(s)'
    BY <1>9, <1>10, <2>1 DEF Present
  <2>. QED
    BY <1>5, <2>2, ValueTypeNext
<1>14. Value(m) # NULL
  BY <1>2, <1>3, <1>6, NotCloned, ValueType
<1>15. Value(m)' = NULL
  <2>1. ~Present(m)'
    BY <1>8 DEF Present
  <2>. QED
    BY <1>6, <2>1, ValueOfNext
<1>. QED
  BY <1>3, <1>5, <1>6, <1>11, <1>12, <1>13, <1>14, <1>15, MapsToReplace

LEMMA StepMaps == ChunkInv /\ ChunkInv' /\ [Next]_vars => Promised
<1>. SUFFICES ASSUME ChunkInv, ChunkInv', [Next]_vars PROVE Promised
  OBVIOUS
<1>1. ASSUME NEW t \in Threads, Step(t) PROVE Promised
  <2>1. CASE Build(t)
    BY <2>1, BuildMaps
  <2>2. CASE Rebuild(t)
    BY <2>2, RebuildMaps
  <2>3. CASE CloneBegin(t)
    BY <2>3, CloneBeginMaps
  <2>4. CASE ClonePart(t)
    BY <2>4, ClonePartMaps
  <2>5. CASE WriteBegin(t) \/ WriteFails(t) \/ WriteLetGo(t)
    BY <2>5, QuietMaps
  <2>6. CASE WriteCopy(t)
    BY <2>6, WriteCopyMaps
  <2>7. CASE WriteStore(t)
    BY <2>7, WriteStoreMaps
  <2>8. CASE Lookup(t)
    BY <2>8, LookupMaps
  <2>9. CASE Publish(t)
    BY <2>9, PublishMaps
  <2>10. CASE Leave(t)
    BY <2>10, LeaveMaps
  <2>11. CASE Evict(t)
    BY <2>11, EvictMaps
  <2>12. CASE FreePart(t)
    BY <2>12, FreePartMaps
  <2>. QED
    BY <1>1, <2>1, <2>2, <2>3, <2>4, <2>5, <2>6, <2>7, <2>8, <2>9, <2>10, <2>11, <2>12 DEF Step
<1>2. CASE UNCHANGED vars
  <2>1. SameValues({}) /\ published' = published
    BY <1>2 DEF vars, SameValues, Value, Cloning
  <2>. QED
    BY <2>1, MapsToStutter
<1>. QED
  BY <1>1, <1>2 DEF Next

LEMMA InitMaps == Init => Shareable!Init
<1>. SUFFICES ASSUME Init PROVE Shareable!Init
  OBVIOUS
<1>1. \A s \in Snapshots : Value(s) = NULL
  BY DEF Init, Value
<1>2. [s \in Snapshots |-> Value(s)] = [s \in Snapshots |-> NULL] /\ published = {}
  BY <1>1 DEF Init
<1>. QED
  BY <1>2 DEF Shareable!Init

\* Snapshots that share their blocks behave as the values of their own that
\* SharedSnapshots promises: a copy is its source, only the thread that made a
\* snapshot changes it, and nobody changes what is published, whatever becomes
\* of the snapshots that have the same blocks.
THEOREM SharingIsInvisible == Spec => ImplementsShared
<1>1. Init => Shareable!Init
  BY InitMaps
<1>2. ChunkInv /\ ChunkInv' /\ [Next]_vars => [Shareable!Next]_(Shareable!vars)
  BY StepMaps DEF Promised
<1>. QED
  BY <1>1, <1>2, ChunkInvAlways, PTL DEF Spec, ImplementsShared, Shareable!Spec

=============================================================================
