---------------------------- MODULE SnapshotCache ----------------------------
(***************************************************************************)
(* The cache of prepared snapshots (snapshot_cache.c) under the procedures *)
(* of sync_module.c that run on several threads: a doubly linked list from *)
(* the newest entry to the oldest, the bytes it holds, and the reference   *)
(* counts that keep a snapshot while an entry or a procedure has it.       *)
(*                                                                         *)
(* A lookup is one step, for it does everything under the mutex.  An       *)
(* insertion makes its entry before it takes the mutex, evicts one entry   *)
(* after another, and frees the entry it replaced after it let go of it.   *)
(***************************************************************************)
EXTENDS Integers, FiniteSets, SequencesExt

CONSTANTS
  Clients,       \* threads that run procedures
  Keys,          \* <<model, oracle_epoch, generation, token>>
  Snapshots,     \* addresses of snapshots
  Entries,       \* addresses of entries
  Bytes,         \* sg_pair_snapshot_memory_bytes of each snapshot
  MaximumBytes,  \* maximum_bytes of the cache
  NULL

\* sg_snapshot_cache_entry: the links and the bytes are kept apart.
EntryRecords == [key : Keys, snap : Snapshots]

ASSUME CacheAssumption ==
  /\ IsFiniteSet(Entries) /\ IsFiniteSet(Clients)
  /\ NULL \notin Snapshots \cup Entries \cup Clients \cup EntryRecords
  /\ Bytes \in [Snapshots -> Nat \ {0}] /\ MaximumBytes \in Nat

VARIABLES
  entry,       \* what is allocated at each address, or NULL
  list,        \* newest, oldest and the links of the entries
  bytes,       \* bytes of the cache
  mutex,       \* the client that holds it, or NULL
  references,  \* per snapshot: its reference count, 0 when it is freed
  calls,       \* per client: where its procedure is and what it holds
  recent       \* history: keys in the order of their last use, newest first

vars == <<entry, list, bytes, mutex, references, calls, recent>>

NoLinks == [e \in Entries |-> NULL]
EmptyList == [newest |-> NULL, oldest |-> NULL, newer |-> NoLinks, older |-> NoLinks]

-----------------------------------------------------------------------------
(* The linked list. *)

\* Mutant of Unlink: the neighbor on the side of the newest keeps its link.
UnlinkOneSide(l, e) ==
  [newest |-> IF l.newer[e] = NULL THEN l.older[e] ELSE l.newest,
   oldest |-> IF l.older[e] = NULL THEN l.newer[e] ELSE l.oldest,
   newer |-> [f \in Entries |-> IF f = e THEN NULL
                                ELSE IF f = l.older[e] THEN l.newer[e] ELSE l.newer[f]],
   older |-> [l.older EXCEPT ![e] = NULL]]

Unlink(l, e) ==
  [newest |-> IF l.newer[e] = NULL THEN l.older[e] ELSE l.newest,
   oldest |-> IF l.older[e] = NULL THEN l.newer[e] ELSE l.oldest,
   newer |-> [f \in Entries |-> IF f = e THEN NULL
                                ELSE IF f = l.older[e] THEN l.newer[e] ELSE l.newer[f]],
   older |-> [f \in Entries |-> IF f = e THEN NULL
                                ELSE IF f = l.newer[e] THEN l.older[e] ELSE l.older[f]]]

LinkNewest(l, e) ==
  [newest |-> e,
   oldest |-> IF l.newest = NULL THEN e ELSE l.oldest,
   newer |-> [f \in Entries |-> IF f = e THEN NULL
                                ELSE IF f = l.newest THEN e ELSE l.newer[f]],
   older |-> [l.older EXCEPT ![e] = l.newest]]

PopOldest(l) ==
  LET next == l.newer[l.oldest]
  IN [newest |-> IF next = NULL THEN NULL ELSE l.newest,
      oldest |-> next,
      newer |-> [l.newer EXCEPT ![l.oldest] = NULL],
      older |-> [f \in Entries |-> IF f \in {next, l.oldest} THEN NULL ELSE l.older[f]]]

\* The first n entries on the way from e along link.
Walk(link, e) ==
  LET walk[n \in 0 .. Cardinality(Entries)] ==
        IF n = 0 \/ e = NULL THEN <<>>
        ELSE LET before == walk[n - 1]
                 at == IF before = <<>> THEN e ELSE link[Last(before)]
             IN IF at = NULL THEN before ELSE Append(before, at)
  IN walk[Cardinality(Entries)]

\* The entries of the cache, newest first.
Chain == Walk(list.older, list.newest)

\* Mutant of KeyEqual: the token is not compared.
KeyEqualNoToken(k, m) == SubSeq(k, 1, 3) = SubSeq(m, 1, 3)

KeyEqual(k, m) == k = m

\* The first entry from the newest on that has the key, or NULL.
Find(k) ==
  LET hits == {i \in DOMAIN Chain : KeyEqual(entry[Chain[i]].key, k)}
  IN IF hits = {} THEN NULL ELSE Chain[Min(hits)]

-----------------------------------------------------------------------------
(* Procedures and reference counts. *)

Idle ==
  [at |-> "ready", held |-> {}, fresh |-> NULL, created |-> NULL,
   existing |-> NULL, found |-> <<>>]

\* sg_pair_snapshot_release by sg_cache_entry_free
Freed(e) == [references EXCEPT ![entry[e].snap] = @ - 1]

\* The keys that were used, without one of them.
Besides(k) ==
  LET uses == {i \in DOMAIN recent : recent[i] = k}
  IN IF uses = {} THEN recent ELSE RemoveAt(recent, Min(uses))

Used(k) == <<k>> \o Besides(k)

\* Mutant of Touch: a hit leaves the entry where it is.
TouchNothing(l, e) == l

\* A hit becomes the newest entry.
Touch(l, e) == IF e = l.newest THEN l ELSE LinkNewest(Unlink(l, e), e)

\* Mutant of Retained: a lookup gives away the reference of the entry.
RetainedNot(s) == references

Retained(s) == [references EXCEPT ![s] = @ + 1]

Hit(c, k, e) ==
  LET snap == entry[e].snap
  IN /\ list' = Touch(list, e)
     /\ references' = Retained(snap)
     /\ calls' = [calls EXCEPT ![c].held = {snap}, ![c].found = <<k, snap>>]
     /\ recent' = Used(entry[e].key)

Miss(c, k) ==
  /\ calls' = [calls EXCEPT ![c].found = <<k, NULL>>]
  /\ UNCHANGED <<list, references, recent>>

\* sg_snapshot_cache_lookup, which a procedure calls before it holds anything
Lookup(c, k) ==
  /\ calls[c].at = "ready" /\ calls[c].held = {} /\ mutex = NULL
  /\ IF Find(k) = NULL THEN Miss(c, k) ELSE Hit(c, k, Find(k))
  /\ UNCHANGED <<entry, bytes, mutex>>

\* A procedure makes a snapshot: it hydrates or prepares one, and an update
\* clones the one it holds.
Create(c, s) ==
  /\ calls[c].at = "ready" /\ calls[c].fresh = NULL
  /\ Cardinality(calls[c].held) < 2 /\ references[s] = 0
  /\ references' = [references EXCEPT ![s] = 1]
  /\ calls' = [calls EXCEPT ![c].held = @ \cup {s}, ![c].fresh = s,
                            ![c].found = <<>>]
  /\ UNCHANGED <<entry, list, bytes, mutex, recent>>

\* A procedure is done with a snapshot, or gives it up after an error.
Release(c, s) ==
  /\ calls[c].at = "ready" /\ s \in calls[c].held
  /\ references' = [references EXCEPT ![s] = @ - 1]
  /\ calls' = [calls EXCEPT ![c].held = @ \ {s}, ![c].found = <<>>,
                            ![c].fresh = IF @ = s THEN NULL ELSE @]
  /\ UNCHANGED <<entry, list, bytes, mutex, recent>>

-----------------------------------------------------------------------------
(* sg_snapshot_cache_insert *)

Fits(s) == MaximumBytes # 0 /\ Bytes[s] <= MaximumBytes

\* A snapshot that cannot fit is not stored, and nothing is evicted for it.
InsertTooLarge(c) ==
  /\ calls[c].at = "ready" /\ calls[c].fresh # NULL /\ ~Fits(calls[c].fresh)
  /\ calls' = [calls EXCEPT ![c].fresh = NULL]
  /\ UNCHANGED <<entry, list, bytes, mutex, references, recent>>

InsertBegin(c, k) ==
  LET snap == calls[c].fresh
  IN /\ calls[c].at = "ready" /\ snap # NULL /\ Fits(snap)
     /\ \E e \in Entries :
          /\ entry[e] = NULL
          /\ entry' = [entry EXCEPT ![e] = [key |-> k, snap |-> snap]]
          /\ calls' = [calls EXCEPT ![c].at = "lock", ![c].fresh = NULL,
                                    ![c].created = e]
     /\ references' = [references EXCEPT ![snap] = @ + 1]
     /\ UNCHANGED <<list, bytes, mutex, recent>>

Size(e) == Bytes[entry[e].snap]

InsertLock(c) ==
  LET existing == Find(entry[calls[c].created].key)
  IN /\ calls[c].at = "lock" /\ mutex = NULL
     /\ mutex' = c
     /\ list' = IF existing = NULL THEN list ELSE Unlink(list, existing)
     /\ bytes' = IF existing = NULL THEN bytes ELSE bytes - Size(existing)
     /\ calls' = [calls EXCEPT ![c].at = "evict", ![c].existing = existing]
     /\ UNCHANGED <<entry, references, recent>>

\* Mutant of Crowded: an entry is evicted only when the cache alone is full.
CrowdedAlone(e) == bytes > MaximumBytes

Crowded(e) == bytes > MaximumBytes - Size(e)

InsertEvict(c) ==
  LET evicted == list.oldest
  IN /\ calls[c].at = "evict" /\ Crowded(calls[c].created) /\ evicted # NULL
     /\ list' = PopOldest(list)
     /\ bytes' = bytes - Size(evicted)
     /\ references' = Freed(evicted)
     /\ entry' = [entry EXCEPT ![evicted] = NULL]
     /\ UNCHANGED <<mutex, calls, recent>>

InsertLink(c) ==
  LET created == calls[c].created
  IN /\ calls[c].at = "evict" /\ (Crowded(created) => list.oldest = NULL)
     /\ list' = LinkNewest(list, created)
     /\ bytes' = bytes + Size(created)
     /\ mutex' = NULL
     /\ calls' = [calls EXCEPT ![c].at = "free", ![c].created = NULL]
     /\ recent' = Used(entry[created].key)
     /\ UNCHANGED <<entry, references>>

InsertReturn(c) ==
  LET existing == calls[c].existing
  IN /\ calls[c].at = "free"
     /\ references' = IF existing = NULL THEN references ELSE Freed(existing)
     /\ entry' = IF existing = NULL THEN entry ELSE [entry EXCEPT ![existing] = NULL]
     /\ calls' = [calls EXCEPT ![c].at = "ready", ![c].existing = NULL]
     /\ UNCHANGED <<list, bytes, mutex, recent>>

\* sg_snapshot_cache_free when the module is unloaded, which Memgraph does when
\* no procedure runs, and sg_snapshot_cache_create when it is loaded again
Reload ==
  /\ \A c \in Clients : calls[c].at = "ready" /\ calls[c].held = {}
  /\ entry' = [e \in Entries |-> NULL] /\ list' = EmptyList /\ bytes' = 0
  /\ references' = [s \in Snapshots |->
       references[s] - Cardinality({e \in Entries : entry[e] # NULL /\ entry[e].snap = s})]
  /\ recent' = <<>>
  /\ UNCHANGED <<mutex, calls>>

-----------------------------------------------------------------------------
Init ==
  /\ entry = [e \in Entries |-> NULL] /\ list = EmptyList /\ bytes = 0
  /\ mutex = NULL /\ references = [s \in Snapshots |-> 0]
  /\ calls = [c \in Clients |-> Idle] /\ recent = <<>>

Insertion(c) ==
  \/ InsertTooLarge(c) \/ InsertLock(c) \/ InsertEvict(c)
  \/ InsertLink(c) \/ InsertReturn(c)
  \/ \E k \in Keys : InsertBegin(c, k)

Procedure(c) ==
  \/ \E k \in Keys : Lookup(c, k)
  \/ \E s \in Snapshots : Create(c, s) \/ Release(c, s)
  \/ Insertion(c)

Next == Reload \/ \E c \in Clients : Procedure(c)

Spec == Init /\ [][Next]_vars

-----------------------------------------------------------------------------
(* Properties. *)

Allocated == {e \in Entries : entry[e] # NULL}
Pending(c) == {calls[c].created, calls[c].existing} \ {NULL}

Calls ==
  [at : {"ready", "lock", "evict", "free"}, held : SUBSET Snapshots,
   fresh : Snapshots \cup {NULL}, created : Entries \cup {NULL},
   existing : Entries \cup {NULL}, found : {<<>>} \cup (Keys \X (Snapshots \cup {NULL}))]

Lists ==
  [newest : Entries \cup {NULL}, oldest : Entries \cup {NULL},
   newer : [Entries -> Entries \cup {NULL}], older : [Entries -> Entries \cup {NULL}]]

TypeOK ==
  /\ entry \in [Entries -> EntryRecords \cup {NULL}]
  /\ list \in Lists /\ bytes \in Nat /\ mutex \in Clients \cup {NULL}
  /\ references \in [Snapshots -> Nat]
  /\ calls \in [Clients -> Calls] /\ recent \in Seq(Keys)

\* The list of sg_cache_unlink, sg_cache_link_newest and sg_cache_pop_oldest is
\* one chain, the same from both ends, of exactly the allocated entries that no
\* insertion has in its hands; no two entries have one key.
ListSound ==
  /\ Walk(list.newer, list.oldest) = Reverse(Chain)
  /\ Range(Chain) = Allocated \ UNION {Pending(c) : c \in Clients}
  /\ \A i, j \in DOMAIN Chain : entry[Chain[i]].key = entry[Chain[j]].key => i = j

\* The bytes that entries hold, each with its entry.
EachByte(entries) == UNION {{e} \X (1 .. Size(e)) : e \in entries}

\* bytes is what the entries of the list hold, and never more than the limit
\* that SYNC_MODULE_CACHE_BYTES sets, also while an insertion evicts.
BytesWithinLimit ==
  /\ bytes = Cardinality(EachByte(Range(Chain)))
  /\ bytes <= MaximumBytes

\* A snapshot has as many references as entries and procedures have it: none
\* is freed while one of them may read it, though another thread evicts or
\* replaces its entry meanwhile, and none is left behind.
ReferencesCounted ==
  \A s \in Snapshots :
    references[s] = Cardinality({e \in Allocated : entry[e].snap = s})
                    + Cardinality({c \in Clients : s \in calls[c].held})

\* What is in the cache was used after everything that is not.
LeastRecentlyUsed ==
  LET kept == [i \in DOMAIN Chain |-> entry[Chain[i]].key]
  IN mutex = NULL => IsPrefix(kept, recent)

\* The map that the list stands for implements KeyedCache.
Linked == {e \in Entries : e = list.newest \/ list.newer[e] # NULL}

Stored ==
  LET With(k) == {e \in Linked : entry[e].key = k}
  IN [k \in Keys |-> IF With(k) = {} THEN NULL
                     ELSE entry[CHOOSE e \in With(k) : TRUE].snap]

Map == INSTANCE KeyedCache WITH
         Absent <- NULL,
         store <- Stored,
         answer <- [c \in Clients |-> calls[c].found]

ImplementsKeyed == Map!Spec

\* The structure that the mutex protects: whoever takes it finds one chain whose
\* entries make up bytes, whatever calls were interrupted at their other steps.
StructureSound == TypeOK /\ ListSound /\ BytesWithinLimit
=============================================================================
