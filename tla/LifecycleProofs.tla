--------------------------- MODULE LifecycleProofs ---------------------------
(***************************************************************************)
(* Cached and uncached readers agree: theorems of ModelLifecycle for every *)
(* number of sessions, cells, values, generations, epochs and tokens.      *)
(*                                                                         *)
(* The argument is about what a token stands for.  Entries of the cache,   *)
(* prepared states of the model and updates that wait to be written each   *)
(* pair a token with a snapshot.  Steps only pass on such pairs, or make   *)
(* one with a token that nobody has had; so a token stands for one         *)
(* snapshot, whichever transactions commit, conflict or abort.             *)
(*                                                                         *)
(* That committed answers agree on what a generation is has nothing to do  *)
(* with tokens: what a session would commit is ahead of all that it has    *)
(* answered and of all that is committed, unless it will be refused.       *)
(*                                                                         *)
(* The last part is about how an automaton gets from the database into     *)
(* memory, AutomatonLoader, for any rows: the builder holds what was read, *)
(* so the reason it names is one of the graph, and the columns of a        *)
(* snapshot follow the cells that are changed.                             *)
(***************************************************************************)
EXTENDS ModelLifecycle, AutomatonLoader, TLAPS, FiniteSetTheorems

Transactions ==
  [open : BOOLEAN, calls : Nat, view : ModelStates, wrote : BOOLEAN, lost : BOOLEAN,
   told : SUBSET Versions, stage : Stages \cup {NoStage}]

Types ==
  /\ db \in ModelStates /\ cache \subseteq Entries
  /\ incarnation \in Nat /\ counter \in Nat
  /\ tx \in [Clients -> Transactions] /\ named \subseteq Versions

\* The snapshot that a prepared state of the model stands for.
Content(view) == [gen |-> view.gen, base |-> view.base, recs |-> {view.base}]

Waiting == {c \in Clients : tx[c].open /\ tx[c].stage # NoStage}

Cached == {<<e.token, e.snap>> : e \in cache}
Read == {<<view.token, Content(view)>> : view \in {v \in Views : Prepared(v)}}
Staged == {<<tx[c].stage.token, tx[c].stage.snap>> : c \in Waiting}

\* What tokens stand for.
Meanings == Cached \cup Read \cup Staged

\* A token that this process or an earlier one has made.
Made(token) ==
  /\ token \in Tokens
  /\ token[1] < incarnation \/ (token[1] = incarnation /\ token[2] < counter)

Naming ==
  /\ \A m \in Meanings : Made(m[1])
  /\ \A m, n \in Meanings : m[1] = n[1] => m[2] = n[2]

\* An update changes a prepared state, into one with records of its own.
StageSound ==
  \A c \in Waiting :
    /\ Prepared(tx[c].view) /\ tx[c].stage.from = tx[c].view.base
    /\ tx[c].stage.snap.recs = {tx[c].stage.snap.base}

LifeInv == Types /\ Naming /\ RecordsDescribeBase /\ StageSound

-----------------------------------------------------------------------------
(* Tokens. *)

\* Nothing new is named, and no token is forgotten.
LEMMA NamingKept ==
  ASSUME Naming, Meanings' \subseteq Meanings,
         incarnation' = incarnation, counter' = counter
  PROVE  Naming'
BY DEF Naming, Made

\* A restart forgets the counter, but tells tokens by the process.
LEMMA NamingRestarted ==
  ASSUME Naming, Meanings' \subseteq Meanings,
         incarnation \in Nat, incarnation' = incarnation + 1
  PROVE  Naming'
BY DEF Naming, Made, Tokens

\* The next token of the process is given a meaning.
LEMMA NamingExtended ==
  ASSUME Naming, incarnation \in Nat, counter \in Nat, NEW token, token = Token,
         NEW snap, Meanings' \subseteq Meanings \cup {<<token, snap>>},
         incarnation' = incarnation, counter' = counter + 1
  PROVE  Naming'
<1>1. ~Made(token)
  BY DEF Made, Token
<1>2. \A t : Made(t) \/ t = token => Made(t)'
  BY DEF Made, Token, Tokens
<1>3. ASSUME NEW m \in Meanings' PROVE m \in Meanings \/ m = <<token, snap>>
  OBVIOUS
<1>4. \A m \in Meanings' : Made(m[1])'
  BY <1>2, <1>3 DEF Naming
<1>5. ASSUME NEW m \in Meanings', NEW n \in Meanings', m[1] = n[1]
      PROVE  m[2] = n[2]
  BY <1>1, <1>3, <1>5 DEF Naming
<1>. QED
  BY <1>4, <1>5 DEF Naming

-----------------------------------------------------------------------------
(* States of the model. *)

\* What a prepared state has been given is a state, and describes itself.
LEMMA MaterializedSound ==
  ASSUME NEW view \in ModelStates, NEW edges \in BOOLEAN, NEW incremental \in BOOLEAN,
         NEW token \in Tokens
  PROVE  LET new == Materialized(view, edges, incremental, token)
         IN /\ new \in ModelStates
            /\ new.recs = {new.base} /\ new.edges \subseteq {new.base}
            /\ new.token = token /\ Content(new) = Content(view)
<1>1. /\ view.base \in Automata /\ view.gen \in Nat \cup {-1} /\ view.epoch + 1 \in Nat
      /\ TRUE \in BOOLEAN /\ FALSE \in BOOLEAN
  BY DEF ModelStates
<1>2. /\ {view.base} \in Derived
      /\ (IF edges THEN {view.base} ELSE {}) \in Derived
  BY <1>1 DEF Derived
<1>3. Materialized(view, edges, incremental, token) \in ModelStates
  BY <1>1, <1>2 DEF Materialized, ModelStates
<1>4. LET new == Materialized(view, edges, incremental, token)
      IN /\ new.base = view.base /\ new.gen = view.gen /\ new.token = token
         /\ new.recs = {view.base}
         /\ new.edges = IF edges THEN {view.base} ELSE {}
  BY DEF Materialized, ModelStates
<1>. QED
  BY <1>3, <1>4 DEF Content

\* A marked model is a state, and not prepared.
LEMMA MarkedSound ==
  ASSUME NEW view \in ModelStates
  PROVE  Marked(view) \in ModelStates /\ ~Prepared(Marked(view))
<1>1. view.gen + 1 \in Nat /\ TRUE \in BOOLEAN
  BY DEF ModelStates
<1>2. Marked(view) \in ModelStates
  BY <1>1 DEF Marked, ModelStates
<1>3. Marked(view).dirty = TRUE
  BY DEF Marked, ModelStates
<1>. QED
  BY <1>2, <1>3 DEF Prepared

\* A model that was just loaded is a state, and not prepared.
LEMMA FreshSound ==
  ASSUME NEW base \in Automata, NEW load \in Nat
  PROVE  Fresh(base, load) \in ModelStates /\ ~Prepared(Fresh(base, load))
BY DEF Fresh, ModelStates, Prepared, Tokens, NoToken, Derived

\* An update of a prepared state writes just the snapshot that it staged.
LEMMA UpdatedSound ==
  ASSUME NEW view \in ModelStates, NEW edit \in Stages,
         view.recs = {view.base}, view.edges \subseteq {view.base},
         edit.from = view.base, edit.snap.recs = {edit.snap.base}
  PROVE  LET new == Updated(view, edit)
         IN /\ new \in ModelStates
            /\ new.recs = {new.base} /\ new.edges \subseteq {new.base}
            /\ new.token = edit.token /\ Content(new) = edit.snap
<1>1. /\ edit.snap \in Snapshots /\ edit.snap.base \in Automata
      /\ edit.snap.gen \in Nat /\ edit.token \in Tokens /\ view.base \in Automata
  BY DEF Stages, Snapshots, ModelStates
<1>2. Changed(view, edit) = edit.snap.base
  BY <1>1 DEF Changed, Automata
<1>3. ChangedRecords(view, edit) = {edit.snap.base}
  BY DEF ChangedRecords
<1>4. ChangedEdges(view, edit) \subseteq {edit.snap.base}
  BY DEF ChangedEdges
<1>5. Updated(view, edit) =
        [view EXCEPT !.base = edit.snap.base, !.edges = ChangedEdges(view, edit),
                     !.recs = {edit.snap.base},
                     !.gen = edit.snap.gen, !.pgen = edit.snap.gen,
                     !.dirty = FALSE, !.incremental = TRUE, !.token = edit.token]
  BY <1>2, <1>3 DEF Updated
<1>6. Updated(view, edit) =
        [base |-> edit.snap.base, load |-> view.load, gen |-> edit.snap.gen,
         epoch |-> view.epoch, dirty |-> FALSE, pgen |-> edit.snap.gen,
         incremental |-> TRUE, token |-> edit.token,
         recs |-> {edit.snap.base}, edges |-> ChangedEdges(view, edit)]
  BY <1>5 DEF ModelStates
<1>7. Updated(view, edit) \in ModelStates
  <2>1. ChangedEdges(view, edit) \in Derived /\ {edit.snap.base} \in Derived
    BY <1>1, <1>4 DEF Derived
  <2>. QED
    BY <1>1, <1>6, <2>1 DEF ModelStates
<1>8. edit.snap = [gen |-> edit.snap.gen, base |-> edit.snap.base,
                    recs |-> {edit.snap.base}]
  BY <1>1 DEF Snapshots
<1>. QED
  BY <1>4, <1>6, <1>7, <1>8 DEF Content

-----------------------------------------------------------------------------
(* What a step of one session leaves of the transactions. *)

Others(c) == \A d \in Clients \ {c} : tx'[d] = tx[d]

\* A transaction that is closed or just begun.
LEMMA ClosedType ==
  ASSUME db \in ModelStates
  PROVE  /\ Closed \in Transactions /\ Closed.stage = NoStage /\ ~Closed.open
         /\ [Closed EXCEPT !.open = TRUE] \in Transactions
         /\ [Closed EXCEPT !.open = TRUE].view = db
         /\ [Closed EXCEPT !.open = TRUE].stage = NoStage
BY DEF Closed, Transactions, Versions

\* A call that answers leaves the view and what waits to be written.
LEMMA TellKeeps ==
  ASSUME Types, NEW c \in Clients, NEW v \in Versions, Tell(c, v)
  PROVE  /\ tx' \in [Clients -> Transactions] /\ Others(c)
         /\ tx'[c].view = tx[c].view /\ tx'[c].open = tx[c].open
         /\ tx'[c].stage = tx[c].stage
<1>1. tx[c] \in Transactions /\ tx \in [Clients -> Transactions]
  BY DEF Types
<1>2. tx[c].calls + 1 \in Nat /\ tx[c].told \cup {v} \in SUBSET Versions
  BY <1>1 DEF Transactions
<1>3. DEFINE new == [tx[c] EXCEPT !.calls = @ + 1, !.told = @ \cup {v}]
<1>4. new \in Transactions
  BY <1>1, <1>2 DEF Transactions
<1>5. new.view = tx[c].view /\ new.open = tx[c].open /\ new.stage = tx[c].stage
  BY <1>1 DEF Transactions
<1>6. tx' = [tx EXCEPT ![c] = new]
  BY <1>1 DEF Tell
<1>. QED
  BY <1>1, <1>4, <1>5, <1>6 DEF Others

\* A call that writes replaces the view, and nothing waits any more.
LEMMA StoreReplaces ==
  ASSUME Types, NEW c \in Clients, NEW view \in ModelStates, Store(c, view)
  PROVE  /\ tx' \in [Clients -> Transactions] /\ Others(c)
         /\ tx'[c].view = view /\ tx'[c].open = tx[c].open
         /\ tx'[c].stage = NoStage
<1>1. tx[c] \in Transactions /\ tx \in [Clients -> Transactions]
  BY DEF Types
<1>2. tx[c].calls + 1 \in Nat /\ TRUE \in BOOLEAN
  BY <1>1 DEF Transactions
<1>3. DEFINE new == [tx[c] EXCEPT !.calls = @ + 1, !.view = view, !.wrote = TRUE,
                                  !.stage = NoStage]
<1>4. new \in Transactions
  BY <1>1, <1>2 DEF Transactions
<1>5. new.view = view /\ new.open = tx[c].open /\ new.stage = NoStage
  BY <1>1 DEF Transactions
<1>6. tx' = [tx EXCEPT ![c] = new]
  BY <1>1 DEF Store
<1>. QED
  BY <1>1, <1>4, <1>5, <1>6 DEF Others

\* After a step of one session prepared states and staged updates mean what is
\* known, if those of that session do.
LEMMA SessionStep ==
  ASSUME LifeInv, NEW c \in Clients, db' = db,
         tx' \in [Clients -> Transactions], Others(c),
         NEW known, Meanings \subseteq known,
         tx'[c].open /\ Prepared(tx'[c].view) =>
           /\ <<tx'[c].view.token, Content(tx'[c].view)>> \in known
           /\ tx'[c].view.recs = {tx'[c].view.base}
           /\ tx'[c].view.edges \subseteq {tx'[c].view.base},
         tx'[c].open /\ tx'[c].stage # NoStage =>
           /\ <<tx'[c].stage.token, tx'[c].stage.snap>> \in known
           /\ Prepared(tx'[c].view) /\ tx'[c].stage.from = tx'[c].view.base
           /\ tx'[c].stage.snap.recs = {tx'[c].stage.snap.base}
  PROVE  /\ Read' \subseteq known /\ Staged' \subseteq known
         /\ RecordsDescribeBase' /\ StageSound'
<1>1. RecordsDescribeBase /\ StageSound
  BY DEF LifeInv
<1>2. ASSUME NEW view \in Views'
      PROVE  view \in Views \/ (view = tx'[c].view /\ tx'[c].open)
  BY DEF Views, Others
<1>3. ASSUME NEW view \in Views', Prepared(view)
      PROVE  /\ <<view.token, Content(view)>> \in known
             /\ view.recs = {view.base} /\ view.edges \subseteq {view.base}
  <2>1. CASE view \in Views
    <3>1. <<view.token, Content(view)>> \in Meanings
      BY <1>3, <2>1 DEF Meanings, Read
    <3>. QED
      BY <1>1, <1>3, <2>1, <3>1 DEF RecordsDescribeBase
  <2>2. CASE view = tx'[c].view /\ tx'[c].open
    BY <1>3, <2>2
  <2>. QED
    BY <1>2, <2>1, <2>2
<1>4. Read' \subseteq known
  BY <1>3 DEF Read, Prepared, Content
<1>5. RecordsDescribeBase'
  BY <1>3 DEF RecordsDescribeBase, Prepared
<1>6. ASSUME NEW d \in Waiting'
      PROVE  /\ <<tx'[d].stage.token, tx'[d].stage.snap>> \in known
             /\ Prepared(tx'[d].view) /\ tx'[d].stage.from = tx'[d].view.base
             /\ tx'[d].stage.snap.recs = {tx'[d].stage.snap.base}
  <2>1. d \in Clients /\ tx'[d].open /\ tx'[d].stage # NoStage
    BY DEF Waiting, NoStage
  <2>2. CASE d = c
    BY <2>1, <2>2
  <2>3. CASE d # c
    <3>1. tx'[d] = tx[d] /\ d \in Waiting
      BY <2>1, <2>3 DEF Waiting, Others
    <3>2. <<tx[d].stage.token, tx[d].stage.snap>> \in Meanings
      BY <3>1 DEF Meanings, Staged
    <3>. QED
      BY <1>1, <3>1, <3>2 DEF StageSound
  <2>. QED
    BY <2>2, <2>3
<1>7. Staged' \subseteq known
  BY <1>6 DEF Staged
<1>8. StageSound'
  BY <1>6 DEF StageSound, Prepared
<1>. QED
  BY <1>4, <1>5, <1>7, <1>8

\* A step after which nothing means anything that it did not mean before.
LEMMA QuietStep ==
  ASSUME LifeInv, NEW c \in Clients, Types', db' = db, Others(c),
         incarnation' = incarnation, counter' = counter, Cached' \subseteq Meanings,
         tx'[c].open /\ Prepared(tx'[c].view) =>
           /\ <<tx'[c].view.token, Content(tx'[c].view)>> \in Meanings
           /\ tx'[c].view.recs = {tx'[c].view.base}
           /\ tx'[c].view.edges \subseteq {tx'[c].view.base},
         tx'[c].open /\ tx'[c].stage # NoStage =>
           /\ <<tx'[c].stage.token, tx'[c].stage.snap>> \in Meanings
           /\ Prepared(tx'[c].view) /\ tx'[c].stage.from = tx'[c].view.base
           /\ tx'[c].stage.snap.recs = {tx'[c].stage.snap.base}
  PROVE  LifeInv'
<1>1. tx' \in [Clients -> Transactions]
  BY DEF Types
<1>2. /\ Read' \subseteq Meanings /\ Staged' \subseteq Meanings
      /\ RecordsDescribeBase' /\ StageSound'
  BY <1>1, SessionStep
<1>3. Meanings' \subseteq Meanings
  BY <1>2 DEF Meanings
<1>4. Naming'
  BY <1>3, NamingKept DEF LifeInv
<1>. QED
  BY <1>2, <1>4 DEF LifeInv

\* A step that makes a token for a snapshot.
LEMMA NamingStep ==
  ASSUME LifeInv, NEW c \in Clients, Types', db' = db, Others(c),
         incarnation' = incarnation, counter' = counter + 1,
         NEW token, token = Token, NEW snap, NEW known,
         known = Meanings \cup {<<token, snap>>}, Cached' \subseteq known,
         tx'[c].open /\ Prepared(tx'[c].view) =>
           /\ <<tx'[c].view.token, Content(tx'[c].view)>> \in known
           /\ tx'[c].view.recs = {tx'[c].view.base}
           /\ tx'[c].view.edges \subseteq {tx'[c].view.base},
         tx'[c].open /\ tx'[c].stage # NoStage =>
           /\ <<tx'[c].stage.token, tx'[c].stage.snap>> \in known
           /\ Prepared(tx'[c].view) /\ tx'[c].stage.from = tx'[c].view.base
           /\ tx'[c].stage.snap.recs = {tx'[c].stage.snap.base}
  PROVE  LifeInv'
<1>1. tx' \in [Clients -> Transactions] /\ incarnation \in Nat /\ counter \in Nat
  BY DEF Types, LifeInv
<1>2. /\ Read' \subseteq known /\ Staged' \subseteq known
      /\ RecordsDescribeBase' /\ StageSound'
  BY <1>1, SessionStep
<1>3. Meanings' \subseteq Meanings \cup {<<token, snap>>}
  BY <1>2 DEF Meanings
<1>4. Naming'
  BY <1>1, <1>3, NamingExtended DEF LifeInv
<1>. QED
  BY <1>2, <1>4 DEF LifeInv

-----------------------------------------------------------------------------
(* What sessions and the cache hold. *)

\* A prepared state that somebody can read is described by its own records.
LEMMA ViewKnown ==
  ASSUME LifeInv, NEW view \in Views, Prepared(view)
  PROVE  /\ <<view.token, Content(view)>> \in Meanings
         /\ view.recs = {view.base} /\ view.edges \subseteq {view.base}
BY DEF LifeInv, RecordsDescribeBase, Meanings, Read

LEMMA StageKnown ==
  ASSUME LifeInv, NEW c \in Clients, tx[c].open, tx[c].stage # NoStage
  PROVE  /\ <<tx[c].stage.token, tx[c].stage.snap>> \in Meanings
         /\ Prepared(tx[c].view) /\ tx[c].stage.from = tx[c].view.base
         /\ tx[c].stage.snap.recs = {tx[c].stage.snap.base}
<1>1. c \in Waiting
  BY DEF Waiting
<1>. QED
  BY <1>1 DEF LifeInv, StageSound, Meanings, Staged

\* The transaction of a session.
LEMMA SessionTypes ==
  ASSUME LifeInv, NEW c \in Clients
  PROVE  /\ tx[c].view \in ModelStates /\ tx[c].stage \in Stages \cup {NoStage}
         /\ tx[c].open => tx[c].view \in Views
BY DEF LifeInv, Types, Transactions, Views

LEMMA CacheKnown ==
  ASSUME LifeInv
  PROVE  Cached \subseteq Meanings /\ cache \subseteq Entries
BY DEF LifeInv, Types, Meanings

\* An entry that a prepared state hits is the snapshot of that state.
LEMMA HitSound ==
  ASSUME LifeInv, NEW view \in Views, Prepared(view), NEW e \in Hits(view)
  PROVE  e.snap = Content(view)
<1>1. e \in cache /\ e.token = view.token
  BY DEF Hits, SameKey
<1>2. <<e.token, e.snap>> \in Meanings
  BY <1>1 DEF Meanings, Cached
<1>3. <<view.token, Content(view)>> \in Meanings
  BY ViewKnown
<1>4. \A m, n \in Meanings : m[1] = n[1] => m[2] = n[2]
  BY DEF LifeInv, Naming
<1>. QED
  BY <1>1, <1>2, <1>3, <1>4

\* What a reader loads is the snapshot of its own view, and what it leaves in the
\* cache means what was known.
LEMMA LoadSound ==
  ASSUME LifeInv, NEW view \in Views, view \in ModelStates, Prepared(view),
         NEW snap \in Loaded(view)
  PROVE  /\ snap = Content(view) /\ snap \in Snapshots
         /\ Filled(view, snap) \subseteq Entries
         /\ \A e \in Filled(view, snap) : <<e.token, e.snap>> \in Meanings
<1>1. /\ <<view.token, Content(view)>> \in Meanings /\ view.recs = {view.base}
  BY ViewKnown
<1>2. snap = Content(view)
  <2>1. CASE Hits(view) # {}
    BY <2>1, HitSound DEF Loaded
  <2>2. CASE Hits(view) = {}
    BY <1>1, <2>2 DEF Loaded, Content
  <2>. QED
    BY <2>1, <2>2
<1>3. Content(view) \in Snapshots
  BY DEF Content, Snapshots, ModelStates, Derived
<1>4. Entry(view.epoch, view.gen, view.token, snap) \in Entries
  BY <1>2, <1>3 DEF Entry, Entries, ModelStates
<1>5. ASSUME NEW e \in Filled(view, snap)
      PROVE  e \in cache \/ e = Entry(view.epoch, view.gen, view.token, snap)
  BY DEF Filled, Insert
<1>6. ASSUME NEW e \in Filled(view, snap)
      PROVE  e \in Entries /\ <<e.token, e.snap>> \in Meanings
  <2>1. CASE e \in cache
    BY <2>1, CacheKnown DEF Cached
  <2>2. CASE e = Entry(view.epoch, view.gen, view.token, snap)
    BY <1>1, <1>2, <1>4, <2>2 DEF Entry
  <2>. QED
    BY <1>5, <2>1, <2>2
<1>. QED
  BY <1>2, <1>3, <1>6

-----------------------------------------------------------------------------
(* Every action. *)

\* A transaction begins with what is committed.
LEMMA BeginSound ==
  ASSUME LifeInv, NEW c \in Clients, Begin(c)
  PROVE  LifeInv'
<1>1. Types /\ tx \in [Clients -> Transactions] /\ db \in ModelStates
  BY DEF LifeInv, Types
<1>2. DEFINE new == [Closed EXCEPT !.open = TRUE]
<1>3. new \in Transactions /\ new.view = db /\ new.stage = NoStage
  BY <1>1, ClosedType
<1>4. tx' = [tx EXCEPT ![c] = new] /\ UNCHANGED <<db, cache, incarnation, counter, named>>
  BY DEF Begin
<1>5. tx'[c] = new /\ Others(c) /\ Types'
  BY <1>1, <1>3, <1>4 DEF Others, Types
<1>6. db \in Views
  BY DEF Views
<1>7. Prepared(db) => /\ <<db.token, Content(db)>> \in Meanings
                      /\ db.recs = {db.base} /\ db.edges \subseteq {db.base}
  BY <1>6, ViewKnown
<1>8. Cached' \subseteq Meanings
  BY <1>4, CacheKnown DEF Cached
<1>. QED
  BY <1>3, <1>4, <1>5, <1>7, <1>8, QuietStep

\* An abort leaves the cache as it is.
LEMMA AbortSound ==
  ASSUME LifeInv, NEW c \in Clients, Abort(c)
  PROVE  LifeInv'
<1>1. Types /\ tx \in [Clients -> Transactions] /\ db \in ModelStates
  BY DEF LifeInv, Types
<1>2. Closed \in Transactions /\ ~Closed.open
  BY <1>1, ClosedType
<1>3. tx' = [tx EXCEPT ![c] = Closed] /\ UNCHANGED <<db, cache, incarnation, counter, named>>
  BY DEF Abort
<1>4. tx'[c] = Closed /\ Others(c) /\ Types'
  BY <1>1, <1>2, <1>3 DEF Others, Types
<1>5. Cached' \subseteq Meanings
  BY <1>3, CacheKnown DEF Cached
<1>. QED
  BY <1>2, <1>3, <1>4, <1>5, QuietStep

\* A call that answers, and may leave what it loaded in the cache.
LEMMA AnswerSound ==
  ASSUME LifeInv, NEW c \in Clients, tx[c].open, tx[c].stage = NoStage,
         tx' \in [Clients -> Transactions], Others(c),
         tx'[c].view = tx[c].view, tx'[c].open = tx[c].open, tx'[c].stage = tx[c].stage,
         UNCHANGED <<db, incarnation, counter, named>>,
         cache' \subseteq Entries, \A e \in cache' : <<e.token, e.snap>> \in Meanings
  PROVE  LifeInv'
<1>1. Types'
  BY DEF LifeInv, Types
<1>2. Cached' \subseteq Meanings
  BY DEF Cached
<1>3. tx[c].view \in Views
  BY SessionTypes
<1>. QED
  BY <1>1, <1>2, <1>3, ViewKnown, QuietStep

\* plan_sync and plan_disambiguate pass on the snapshot of their own view.
LEMMA PlanSound ==
  ASSUME LifeInv, NEW c \in Clients, Plan(c)
  PROVE  LifeInv'
<1>1. DEFINE view == tx[c].view
<1>2. /\ tx[c].open /\ tx[c].stage = NoStage /\ Prepared(view)
      /\ UNCHANGED <<db, incarnation, counter, named>>
  BY DEF Plan, Ready
<1>3. view \in Views /\ view \in ModelStates /\ view.load \in Nat
  BY <1>2, SessionTypes DEF ModelStates
<1>4. PICK snap \in Loaded(view) :
        /\ Tell(c, [load |-> view.load, gen |-> snap.gen, base |-> snap.base])
        /\ cache' = Filled(view, snap)
  BY DEF Plan
<1>5. /\ snap \in Snapshots /\ Filled(view, snap) \subseteq Entries
      /\ \A e \in Filled(view, snap) : <<e.token, e.snap>> \in Meanings
  BY <1>2, <1>3, LoadSound
<1>6. [load |-> view.load, gen |-> snap.gen, base |-> snap.base] \in Versions
  BY <1>3, <1>5 DEF Versions, Snapshots
<1>7. Types
  BY DEF LifeInv
<1>8. /\ tx' \in [Clients -> Transactions] /\ Others(c)
      /\ tx'[c].view = view /\ tx'[c].open = tx[c].open /\ tx'[c].stage = tx[c].stage
  BY <1>4, <1>6, <1>7, TellKeeps
<1>. QED
  BY <1>2, <1>4, <1>5, <1>8, AnswerSound

\* The planners and monitors that read the base view leave the cache alone.
LEMMA ConsultSound ==
  ASSUME LifeInv, NEW c \in Clients, PlanUncached(c) \/ Consult(c)
  PROVE  LifeInv'
<1>1. /\ tx[c].open /\ tx[c].stage = NoStage /\ Tell(c, Version(tx[c].view))
      /\ UNCHANGED <<db, cache, incarnation, counter, named>>
  BY DEF PlanUncached, Consult, Ready
<1>2. Version(tx[c].view) \in Versions
  BY SessionTypes DEF Version, Versions, ModelStates
<1>3. Types
  BY DEF LifeInv
<1>4. /\ tx' \in [Clients -> Transactions] /\ Others(c)
      /\ tx'[c].view = tx[c].view /\ tx'[c].open = tx[c].open
      /\ tx'[c].stage = tx[c].stage
  BY <1>1, <1>2, <1>3, TellKeeps
<1>5. cache' \subseteq Entries /\ \A e \in cache' : <<e.token, e.snap>> \in Meanings
  BY <1>1, CacheKnown DEF Cached
<1>. QED
  BY <1>1, <1>4, <1>5, AnswerSound

\* An update without changes has filled the cache.
LEMMA UnchangedSound ==
  ASSUME LifeInv, NEW c \in Clients, UpdateUnchanged(c)
  PROVE  LifeInv'
<1>1. DEFINE view == tx[c].view
<1>2. /\ tx[c].open /\ tx[c].stage = NoStage /\ Prepared(view)
      /\ tx' = [tx EXCEPT ![c].calls = @ + 1]
      /\ UNCHANGED <<db, incarnation, counter, named>>
  BY DEF UpdateUnchanged, Ready
<1>3. view \in Views /\ view \in ModelStates
  BY <1>2, SessionTypes
<1>4. PICK snap \in Loaded(view) : cache' = Filled(view, snap)
  BY DEF UpdateUnchanged
<1>5. /\ Filled(view, snap) \subseteq Entries
      /\ \A e \in Filled(view, snap) : <<e.token, e.snap>> \in Meanings
  BY <1>2, <1>3, LoadSound
<1>6. tx \in [Clients -> Transactions] /\ tx[c] \in Transactions
  BY DEF LifeInv, Types
<1>7. tx[c].calls + 1 \in Nat
  BY <1>6 DEF Transactions
<1>8. DEFINE new == [tx[c] EXCEPT !.calls = @ + 1]
<1>9. new \in Transactions
  BY <1>6, <1>7 DEF Transactions
<1>10. new.view = view /\ new.open = tx[c].open /\ new.stage = tx[c].stage
  BY <1>6 DEF Transactions
<1>11. tx' = [tx EXCEPT ![c] = new]
  BY <1>2, <1>6
<1>12. /\ tx' \in [Clients -> Transactions] /\ Others(c)
       /\ tx'[c].view = view /\ tx'[c].open = tx[c].open /\ tx'[c].stage = tx[c].stage
  BY <1>6, <1>9, <1>10, <1>11 DEF Others
<1>. QED
  BY <1>2, <1>4, <1>5, <1>12, AnswerSound

\* mark_dirty, edits and loads leave a model that is not prepared.
LEMMA DirtySound ==
  ASSUME LifeInv, NEW c \in Clients, MarkDirty(c) \/ Edit(c) \/ Reload(c)
  PROVE  LifeInv'
<1>1. tx[c].view \in ModelStates /\ Types
  BY SessionTypes DEF LifeInv
<1>2. UNCHANGED <<db, cache, incarnation, counter, named>>
  BY DEF MarkDirty, Edit, Reload
<1>3. PICK view \in ModelStates : Store(c, view) /\ ~Prepared(view)
  <2>1. CASE MarkDirty(c)
    BY <1>1, <2>1, MarkedSound DEF MarkDirty
  <2>2. CASE Edit(c)
    <3>1. PICK new \in Automata : Store(c, Marked([tx[c].view EXCEPT !.base = new]))
      BY <2>2 DEF Edit
    <3>2. [tx[c].view EXCEPT !.base = new] \in ModelStates
      BY <1>1 DEF ModelStates
    <3>. QED
      BY <3>1, <3>2, MarkedSound
  <2>3. CASE Reload(c)
    <3>1. PICK base \in Automata : Store(c, Fresh(base, tx[c].view.load + 1))
      BY <2>3 DEF Reload
    <3>2. tx[c].view.load + 1 \in Nat
      BY <1>1 DEF ModelStates
    <3>. QED
      BY <3>1, <3>2, FreshSound
  <2>. QED
    BY <2>1, <2>2, <2>3
<1>4. /\ tx' \in [Clients -> Transactions] /\ Others(c)
      /\ tx'[c].view = view /\ tx'[c].open = tx[c].open /\ tx'[c].stage = NoStage
  BY <1>1, <1>3, StoreReplaces
<1>5. Types'
  BY <1>1, <1>2, <1>4 DEF Types
<1>6. Cached' \subseteq Meanings
  BY <1>2, CacheKnown DEF Cached
<1>. QED
  BY <1>2, <1>3, <1>4, <1>5, <1>6, QuietStep

\* prepare_model makes a token for the state that it writes and caches.
LEMMA PrepareSound ==
  ASSUME LifeInv, NEW c \in Clients, Prepare(c)
  PROVE  LifeInv'
<1>1. DEFINE old == tx[c].view
<1>2. old \in ModelStates /\ Types /\ incarnation \in Nat /\ counter \in Nat
  BY SessionTypes DEF LifeInv, Types
<1>3. PICK token : token = Token
  OBVIOUS
<1>4. token \in Tokens
  BY <1>2, <1>3 DEF Token, Tokens
<1>5. PICK snap : snap = [gen |-> old.gen, base |-> old.base, recs |-> {old.base}]
  OBVIOUS
<1>6. PICK opt \in PrepareOptions :
        /\ Store(c, Materialized(old, opt[1], opt[2], token))
        /\ cache' = Insert(cache, Entry(Materialized(old, opt[1], opt[2], token).epoch,
                                        old.gen, token, snap))
  BY <1>3, <1>5 DEF Prepare
<1>7. counter' = counter + 1 /\ UNCHANGED <<db, incarnation, named>>
  BY DEF Prepare, MakeToken
<1>8. opt[1] \in BOOLEAN /\ opt[2] \in BOOLEAN
  BY LifecycleAssumption
<1>9. PICK new : new = Materialized(old, opt[1], opt[2], token)
  OBVIOUS
<1>10. /\ new \in ModelStates /\ new.recs = {new.base} /\ new.edges \subseteq {new.base}
      /\ new.token = token /\ Content(new) = Content(old)
  BY <1>2, <1>4, <1>8, <1>9, MaterializedSound
<1>11. Content(new) = snap /\ snap \in Snapshots
  BY <1>2, <1>5, <1>10 DEF Content, Snapshots, ModelStates, Derived
<1>12. /\ tx' \in [Clients -> Transactions] /\ Others(c)
       /\ tx'[c].view = new /\ tx'[c].stage = NoStage
  BY <1>2, <1>6, <1>9, <1>10, StoreReplaces
<1>13. PICK e : e = Entry(new.epoch, old.gen, token, snap)
  OBVIOUS
<1>14. e \in Entries /\ e.token = token /\ e.snap = snap
  BY <1>2, <1>4, <1>10, <1>11, <1>13 DEF Entry, Entries, ModelStates
<1>15. cache' \subseteq cache \cup {e}
  BY <1>6, <1>9, <1>13 DEF Insert
<1>16. Types'
  BY <1>2, <1>7, <1>12, <1>14, <1>15 DEF Types
<1>17. PICK known : known = Meanings \cup {<<token, snap>>}
  OBVIOUS
<1>18. Cached' \subseteq known
  BY <1>14, <1>15, <1>17, CacheKnown DEF Cached
<1>19. /\ <<tx'[c].view.token, Content(tx'[c].view)>> \in known
       /\ tx'[c].view.recs = {tx'[c].view.base}
       /\ tx'[c].view.edges \subseteq {tx'[c].view.base}
  BY <1>10, <1>11, <1>12, <1>17
<1>20. db' = db /\ incarnation' = incarnation
  BY <1>7
<1>. QED
  BY <1>3, <1>7, <1>12, <1>16, <1>17, <1>18, <1>19, <1>20, NamingStep

\* update_cells makes a token for its candidate, before anything is written.
LEMMA UpdateStageSound ==
  ASSUME LifeInv, NEW c \in Clients, UpdateStage(c)
  PROVE  LifeInv'
<1>1. DEFINE view == tx[c].view
<1>2. /\ tx[c].open /\ Prepared(view) /\ counter' = counter + 1
      /\ UNCHANGED <<db, incarnation, named>>
  BY DEF UpdateStage, Ready, MakeToken
<1>3. /\ view \in ModelStates /\ view \in Views /\ view.gen + 1 \in Nat
      /\ Types /\ incarnation \in Nat /\ counter \in Nat
      /\ view.base \in Automata /\ view.epoch \in Nat
  BY <1>2, SessionTypes DEF LifeInv, Types, ModelStates
<1>4. PICK token : token = Token
  OBVIOUS
<1>5. token \in Tokens
  BY <1>3, <1>4 DEF Token, Tokens
<1>6. PICK old \in Loaded(view), new \in Automata, full \in BOOLEAN :
        LET kept == IF full THEN {} ELSE old.recs \ {old.base}
            snap == [gen |-> view.gen + 1, base |-> new, recs |-> kept \cup {new}]
        IN /\ cache' = Insert(Filled(view, old),
                              Entry(view.epoch, view.gen + 1, token, snap))
           /\ tx' = [tx EXCEPT ![c].stage = [token |-> token, snap |-> snap,
                                             from |-> old.base, full |-> full]]
  BY <1>4 DEF UpdateStage
<1>7. /\ old = Content(view) /\ Filled(view, old) \subseteq Entries
      /\ \A e \in Filled(view, old) : <<e.token, e.snap>> \in Meanings
  BY <1>2, <1>3, LoadSound
<1>8. old.base = view.base /\ (IF full THEN {} ELSE old.recs \ {old.base}) = {}
  BY <1>7 DEF Content
<1>9. PICK snap : snap = [gen |-> view.gen + 1, base |-> new, recs |-> {new}]
  OBVIOUS
<1>10. snap \in Snapshots /\ snap.recs = {snap.base}
  BY <1>3, <1>9 DEF Snapshots, Derived
<1>11. PICK e : e = Entry(view.epoch, view.gen + 1, token, snap)
  OBVIOUS
<1>12. PICK edit : edit = [token |-> token, snap |-> snap, from |-> view.base, full |-> full]
  OBVIOUS
<1>13. cache' = Insert(Filled(view, old), e) /\ tx' = [tx EXCEPT ![c].stage = edit]
  BY <1>6, <1>8, <1>9, <1>11, <1>12
<1>14. edit \in Stages /\ edit.token = token /\ edit.snap = snap /\ edit.from = view.base
  BY <1>3, <1>5, <1>10, <1>12 DEF Stages
<1>15. e \in Entries /\ e.token = token /\ e.snap = snap
  BY <1>3, <1>5, <1>10, <1>11 DEF Entry, Entries
<1>16. tx \in [Clients -> Transactions] /\ tx[c] \in Transactions
  BY <1>3 DEF Types
<1>17. PICK after : after = [tx[c] EXCEPT !.stage = edit]
  OBVIOUS
<1>18. after \in Transactions
  BY <1>14, <1>16, <1>17 DEF Transactions
<1>19. after.view = view /\ after.stage = edit
  BY <1>16, <1>17 DEF Transactions
<1>20. tx' = [tx EXCEPT ![c] = after]
  BY <1>13, <1>16, <1>17
<1>21. /\ tx' \in [Clients -> Transactions] /\ Others(c)
       /\ tx'[c].view = view /\ tx'[c].stage = edit
  BY <1>16, <1>18, <1>19, <1>20 DEF Others
<1>22. cache' \subseteq Filled(view, old) \cup {e}
  BY <1>13 DEF Insert
<1>23. Types'
  BY <1>2, <1>3, <1>7, <1>15, <1>21, <1>22 DEF Types
<1>24. PICK known : known = Meanings \cup {<<token, snap>>}
  OBVIOUS
<1>25. Cached' \subseteq known
  BY <1>7, <1>15, <1>22, <1>24 DEF Cached
<1>26. /\ <<view.token, Content(view)>> \in known
       /\ view.recs = {view.base} /\ view.edges \subseteq {view.base}
  BY <1>2, <1>3, <1>24, ViewKnown
<1>27. <<edit.token, edit.snap>> \in known /\ edit.snap.recs = {edit.snap.base}
  BY <1>10, <1>14, <1>24
<1>28. /\ <<tx'[c].view.token, Content(tx'[c].view)>> \in known
       /\ tx'[c].view.recs = {tx'[c].view.base}
       /\ tx'[c].view.edges \subseteq {tx'[c].view.base}
  BY <1>21, <1>26
<1>29. /\ <<tx'[c].stage.token, tx'[c].stage.snap>> \in known
       /\ Prepared(tx'[c].view) /\ tx'[c].stage.from = tx'[c].view.base
       /\ tx'[c].stage.snap.recs = {tx'[c].stage.snap.base}
  BY <1>2, <1>14, <1>21, <1>27
<1>30. db' = db /\ incarnation' = incarnation /\ counter' = counter + 1
  BY <1>2
<1>. QED
  BY <1>4, <1>21, <1>23, <1>24, <1>25, <1>28, <1>29, <1>30, NamingStep

\* What is written then is what the token stands for.
LEMMA UpdateWriteSound ==
  ASSUME LifeInv, NEW c \in Clients, UpdateWrite(c)
  PROVE  LifeInv'
<1>1. /\ tx[c].open /\ tx[c].stage # NoStage
      /\ Store(c, Updated(tx[c].view, tx[c].stage))
      /\ UNCHANGED <<db, cache, incarnation, counter, named>>
  BY DEF UpdateWrite
<1>2. /\ tx[c].view \in ModelStates /\ tx[c].view \in Views /\ tx[c].stage \in Stages /\ Types
  BY <1>1, SessionTypes DEF LifeInv
<1>3. /\ <<tx[c].stage.token, tx[c].stage.snap>> \in Meanings
      /\ Prepared(tx[c].view) /\ tx[c].stage.from = tx[c].view.base
      /\ tx[c].stage.snap.recs = {tx[c].stage.snap.base}
  BY <1>1, StageKnown
<1>4. tx[c].view.recs = {tx[c].view.base} /\ tx[c].view.edges \subseteq {tx[c].view.base}
  BY <1>2, <1>3, ViewKnown
<1>5. PICK new : new = Updated(tx[c].view, tx[c].stage)
  OBVIOUS
<1>6. /\ new \in ModelStates /\ new.recs = {new.base} /\ new.edges \subseteq {new.base}
      /\ new.token = tx[c].stage.token /\ Content(new) = tx[c].stage.snap
  BY <1>2, <1>3, <1>4, <1>5, UpdatedSound
<1>7. /\ tx' \in [Clients -> Transactions] /\ Others(c)
      /\ tx'[c].view = new /\ tx'[c].stage = NoStage
  BY <1>1, <1>2, <1>5, <1>6, StoreReplaces
<1>8. Types'
  BY <1>1, <1>2, <1>7 DEF Types
<1>9. Cached' \subseteq Meanings
  BY <1>1, CacheKnown DEF Cached
<1>. QED
  BY <1>1, <1>3, <1>6, <1>7, <1>8, <1>9, QuietStep

\* A step after which sessions, if anything, read and write less.
LEMMA Shrinks ==
  ASSUME LifeInv, Views' \subseteq Views, Cached' \subseteq Meanings,
         \A d \in Clients : tx'[d].open /\ tx'[d].stage # NoStage =>
           tx[d].open /\ tx'[d].stage = tx[d].stage /\ tx'[d].view = tx[d].view
  PROVE  Meanings' \subseteq Meanings /\ RecordsDescribeBase' /\ StageSound'
<1>1. ASSUME NEW view \in Views', Prepared(view)
      PROVE  /\ <<view.token, Content(view)>> \in Meanings
             /\ view.recs = {view.base} /\ view.edges \subseteq {view.base}
  BY <1>1, ViewKnown
<1>2. Read' \subseteq Meanings
  BY <1>1 DEF Read, Prepared, Content
<1>3. RecordsDescribeBase'
  BY <1>1 DEF RecordsDescribeBase, Prepared
<1>4. ASSUME NEW d \in Waiting'
      PROVE  /\ <<tx'[d].stage.token, tx'[d].stage.snap>> \in Meanings
             /\ Prepared(tx'[d].view) /\ tx'[d].stage.from = tx'[d].view.base
             /\ tx'[d].stage.snap.recs = {tx'[d].stage.snap.base}
  <2>1. d \in Clients /\ tx'[d].open /\ tx'[d].stage # NoStage
    BY DEF Waiting, NoStage
  <2>. QED
    BY <2>1, StageKnown
<1>5. Staged' \subseteq Meanings
  BY <1>4 DEF Staged
<1>6. StageSound'
  BY <1>4 DEF StageSound, Prepared
<1>. QED
  BY <1>2, <1>3, <1>5, <1>6 DEF Meanings

\* A commit passes the view of the session on, or what was committed before.
LEMMA CommitSound ==
  ASSUME LifeInv, NEW c \in Clients, Commit(c)
  PROVE  LifeInv'
<1>1. /\ tx[c].open /\ UNCHANGED <<cache, incarnation, counter>>
      /\ db' = IF tx[c].wrote THEN tx[c].view ELSE db
      /\ named' = named \cup tx[c].told \cup {Version(db')}
      /\ tx' = [d \in Clients |->
                  IF d = c \/ ~tx[d].open THEN [Closed EXCEPT !.view = db']
                  ELSE [tx[d] EXCEPT !.lost = @ \/ tx[c].wrote]]
  BY DEF Commit
<1>2. /\ db \in ModelStates /\ cache \subseteq Entries /\ named \subseteq Versions
      /\ tx \in [Clients -> Transactions] /\ incarnation \in Nat /\ counter \in Nat
  BY DEF LifeInv, Types
<1>3. db' \in ModelStates /\ db' \in Views
  BY <1>1, <1>2, SessionTypes DEF Views
<1>4. PICK new : new = [Closed EXCEPT !.view = db']
  OBVIOUS
<1>5. new \in Transactions /\ ~new.open /\ new.stage = NoStage
  BY <1>2, <1>3, <1>4 DEF Closed, Transactions, Versions
<1>6. ASSUME NEW d \in Clients, d # c, tx[d].open
      PROVE  /\ tx'[d] \in Transactions
             /\ tx'[d].view = tx[d].view /\ tx'[d].stage = tx[d].stage
  <2>1. tx[d] \in Transactions /\ tx[c].wrote \in BOOLEAN /\ tx[d].lost \in BOOLEAN
    BY <1>2 DEF Transactions
  <2>2. PICK lost \in BOOLEAN : lost = (tx[d].lost \/ tx[c].wrote)
    BY <2>1
  <2>3. tx'[d] = [tx[d] EXCEPT !.lost = lost]
    BY <1>1, <1>6, <2>1, <2>2
  <2>. QED
    BY <2>1, <2>3 DEF Transactions
<1>7. \A d \in Clients : d = c \/ ~tx[d].open => tx'[d] = new
  BY <1>1, <1>4
<1>8. tx' \in [Clients -> Transactions]
  <2>1. \A d \in Clients : tx'[d] \in Transactions
    BY <1>5, <1>6, <1>7
  <2>. QED
    BY <1>1, <2>1
<1>9. Version(db') \in Versions
  BY <1>3 DEF Version, Versions, ModelStates
<1>10. tx[c].told \subseteq Versions
  BY <1>2 DEF Transactions
<1>11. Types'
  BY <1>1, <1>2, <1>3, <1>8, <1>9, <1>10 DEF Types
<1>12. \A d \in Clients : tx'[d].open =>
         tx[d].open /\ tx'[d].stage = tx[d].stage /\ tx'[d].view = tx[d].view
  BY <1>5, <1>6, <1>7
<1>13. Views' \subseteq Views
  BY <1>3, <1>12 DEF Views
<1>14. Cached' \subseteq Meanings
  BY <1>1, CacheKnown DEF Cached
<1>15. Meanings' \subseteq Meanings /\ RecordsDescribeBase' /\ StageSound'
  BY <1>12, <1>13, <1>14, Shrinks
<1>. QED
  BY <1>1, <1>11, <1>15, NamingKept DEF LifeInv

\* An eviction, or no step at all.
LEMMA EvictSound ==
  ASSUME LifeInv, Evict \/ UNCHANGED vars
  PROVE  LifeInv'
<1>1. cache' \subseteq cache /\ UNCHANGED <<db, incarnation, counter, tx, named>>
  BY DEF Evict, vars
<1>2. Types'
  BY <1>1 DEF LifeInv, Types
<1>3. Views' \subseteq Views
  BY <1>1 DEF Views
<1>4. Cached' \subseteq Meanings
  BY <1>1, CacheKnown DEF Cached
<1>5. Meanings' \subseteq Meanings /\ RecordsDescribeBase' /\ StageSound'
  BY <1>1, <1>3, <1>4, Shrinks
<1>. QED
  BY <1>1, <1>2, <1>5, NamingKept DEF LifeInv

\* After a restart nobody uses a token but the committed state.
LEMMA RestartSound ==
  ASSUME LifeInv, Restart
  PROVE  LifeInv'
<1>1. /\ incarnation' = incarnation + 1 /\ counter' = 1 /\ cache' = {}
      /\ tx' = [c \in Clients |-> Closed] /\ UNCHANGED <<db, named>>
  BY DEF Restart, NewIncarnation
<1>2. db \in ModelStates /\ incarnation \in Nat /\ named \subseteq Versions
  BY DEF LifeInv, Types
<1>3. Closed \in Transactions /\ ~Closed.open
  BY <1>2, ClosedType
<1>4. Types'
  BY <1>1, <1>2, <1>3 DEF Types
<1>5. \A d \in Clients : ~tx'[d].open
  BY <1>1, <1>3
<1>6. Views' \subseteq Views
  BY <1>1, <1>5 DEF Views
<1>7. Cached' \subseteq Meanings
  BY <1>1 DEF Cached
<1>8. Meanings' \subseteq Meanings /\ RecordsDescribeBase' /\ StageSound'
  BY <1>5, <1>6, <1>7, Shrinks
<1>. QED
  BY <1>1, <1>2, <1>4, <1>8, NamingRestarted DEF LifeInv

LEMMA InitSound ==
  ASSUME Init
  PROVE  LifeInv
<1>1. PICK base \in Automata : db = Fresh(base, 1)
  BY DEF Init
<1>2. /\ cache = {} /\ incarnation = 1 /\ counter = 1
      /\ tx = [c \in Clients |-> Closed] /\ named = {Version(db)}
  BY DEF Init
<1>3. db \in ModelStates /\ ~Prepared(db)
  BY <1>1, FreshSound
<1>4. Closed \in Transactions /\ ~Closed.open
  BY <1>3, ClosedType
<1>5. Version(db) \in Versions
  BY <1>3 DEF Version, Versions, ModelStates
<1>6. Types
  BY <1>2, <1>3, <1>4, <1>5 DEF Types
<1>7. \A c \in Clients : ~tx[c].open
  BY <1>2, <1>4
<1>8. Views = {db} /\ Waiting = {}
  BY <1>7 DEF Views, Waiting
<1>9. Meanings = {}
  BY <1>2, <1>3, <1>8 DEF Meanings, Cached, Read, Staged
<1>10. Naming
  BY <1>9 DEF Naming
<1>11. RecordsDescribeBase /\ StageSound
  BY <1>3, <1>8 DEF RecordsDescribeBase, StageSound
<1>. QED
  BY <1>6, <1>10, <1>11 DEF LifeInv

LEMMA StepSound ==
  ASSUME LifeInv, [Next]_vars
  PROVE  LifeInv'
<1>1. ASSUME NEW c \in Clients, Begin(c) \/ Call(c) \/ Commit(c) \/ Abort(c)
      PROVE  LifeInv'
  <2>1. CASE Begin(c)
    BY <2>1, BeginSound
  <2>2. CASE Call(c)
    <3>1. CASE Prepare(c)
      BY <3>1, PrepareSound
    <3>2. CASE Plan(c)
      BY <3>2, PlanSound
    <3>3. CASE PlanUncached(c) \/ Consult(c)
      BY <3>3, ConsultSound
    <3>4. CASE UpdateStage(c)
      BY <3>4, UpdateStageSound
    <3>5. CASE UpdateUnchanged(c)
      BY <3>5, UnchangedSound
    <3>6. CASE UpdateWrite(c)
      BY <3>6, UpdateWriteSound
    <3>7. CASE MarkDirty(c) \/ Edit(c) \/ Reload(c)
      BY <3>7, DirtySound
    <3>. QED
      BY <2>2, <3>1, <3>2, <3>3, <3>4, <3>5, <3>6, <3>7 DEF Call
  <2>3. CASE Commit(c)
    BY <2>3, CommitSound
  <2>4. CASE Abort(c)
    BY <2>4, AbortSound
  <2>. QED
    BY <1>1, <2>1, <2>2, <2>3, <2>4
<1>2. CASE Evict \/ UNCHANGED vars
  BY <1>2, EvictSound
<1>3. CASE Restart
  BY <1>3, RestartSound
<1>. QED
  BY <1>1, <1>2, <1>3 DEF Next

-----------------------------------------------------------------------------
(* The theorems. *)

\* However the procedures of any number of sessions, conflicts, evictions and
\* restarts interleave, every token that the cache, a state of the model or an
\* update in progress holds stands for one snapshot, and was made before.
THEOREM LifeSound == Spec => []LifeInv
<1>. QED
  BY InitSound, StepSound, PTL DEF Spec

\* Cached and uncached planners agree for every model and number of sessions:
\* the entry that load_prepared_snapshot finds for a prepared model is the
\* automaton of that model, with its own records.
THEOREM CachedAgrees == Spec => []CacheSound
<1>1. ASSUME LifeInv
      PROVE  CacheSound
  <2>1. SUFFICES ASSUME NEW view \in Views, Prepared(view), NEW e \in Hits(view)
                 PROVE  /\ e.snap.gen = view.gen
                        /\ e.snap.base = view.base /\ e.snap.recs = {view.base}
    BY DEF CacheSound
  <2>2. e.snap = Content(view)
    BY <1>1, <2>1, HitSound
  <2>. QED
    BY <2>2 DEF Content
<1>. QED
  BY <1>1, LifeSound, PTL

\* make_snapshot_token never lets one token stand for two snapshots in the
\* cache, although aborted updates leave theirs there and restarts begin to
\* count again.
THEOREM TokensAreNames == Spec => []TokenNamesSnapshot
<1>1. ASSUME LifeInv
      PROVE  TokenNamesSnapshot
  <2>1. SUFFICES ASSUME NEW e \in cache, NEW f \in cache, e.token = f.token
                 PROVE  e.snap = f.snap
    BY DEF TokenNamesSnapshot
  <2>2. <<e.token, e.snap>> \in Meanings /\ <<f.token, f.snap>> \in Meanings
    BY DEF Meanings, Cached
  <2>3. \A m, n \in Meanings : m[1] = n[1] => m[2] = n[2]
    BY <1>1 DEF LifeInv, Naming
  <2>. QED
    BY <2>1, <2>2, <2>3
<1>. QED
  BY <1>1, LifeSound, PTL

\* Whatever a session reads is a well-formed state of the model, and one that
\* passes load_metadata as prepared has the records and the relationships of
\* its own cells, after any sequence of prepare_model, update_cells,
\* mark_dirty, edits and loads.
THEOREM StatesAreSound == Spec => []StateSound
<1>1. ASSUME LifeInv
      PROVE  StateSound
  <2>1. Types /\ RecordsDescribeBase
    BY <1>1 DEF LifeInv
  <2>2. ASSUME NEW c \in Clients
        PROVE  /\ tx[c].view \in ModelStates /\ tx[c].told \subseteq Versions
               /\ tx[c].stage = NoStage \/ tx[c].stage \in Stages
    BY <2>1 DEF Types, Transactions
  <2>3. TypeOK
    BY <2>1, <2>2 DEF Types, TypeOK
  <2>. QED
    BY <2>1, <2>3 DEF StateSound
<1>. QED
  BY <1>1, LifeSound, PTL

-----------------------------------------------------------------------------
(* The refinement of PreparedModel. *)

Later(new, old) ==
  new = old \/ (new.load = old.load /\ new.gen > old.gen) \/ new.load > old.load

OneEach(V) == \A v, w \in V : v.load = w.load /\ v.gen = w.gen => v = w

\* A version that may be committed after those of V.
Ahead(v, V) == OneEach(V \cup {v}) /\ \A w \in V : Later(v, w)

\* What a transaction would commit is ahead of what it answered and of what is
\* committed, unless it lost; and one that wrote nothing knows nothing new.
HistorySound(t) ==
  t.open =>
    /\ ~t.lost => Ahead(Version(t.view), named \cup t.told)
    /\ ~t.wrote => t.told \subseteq named /\ Version(t.view) \in named
    /\ t.stage # NoStage => t.stage.snap.gen = t.view.gen + 1

HistoryInv ==
  /\ Version(db) \in named /\ Ahead(Version(db), named)
  /\ \A c \in Clients : HistorySound(tx[c])

\* The version of a state.
LEMMA VersionFits ==
  ASSUME NEW view \in ModelStates
  PROVE  /\ Version(view) \in Versions
         /\ Version(view).load = view.load /\ Version(view).gen = view.gen
BY DEF Version, Versions, ModelStates

\* An answer about a version adds nothing that it is not ahead of.
LEMMA AheadTold ==
  ASSUME NEW v, NEW V, Ahead(v, V)
  PROVE  Ahead(v, V \cup {v})
BY DEF Ahead, OneEach, Later

\* A later version is ahead of all that an earlier one is ahead of.
LEMMA AheadLater ==
  ASSUME NEW v \in Versions, NEW V \in SUBSET Versions, Ahead(v, V),
         NEW new \in Versions, Later(new, v)
  PROVE  Ahead(new, V)
<1>1. \A w \in Versions : w.load \in Nat /\ w.gen \in Nat
  BY DEF Versions
<1>2. CASE new = v
  BY <1>2
<1>3. CASE new # v
  <2>1. (new.load = v.load /\ new.gen > v.gen) \/ new.load > v.load
    BY <1>3 DEF Later
  <2>2. ASSUME NEW w \in V
        PROVE  (new.load = w.load /\ new.gen > w.gen) \/ new.load > w.load
    <3>1. w = v \/ (v.load = w.load /\ v.gen > w.gen) \/ v.load > w.load
      BY DEF Ahead, Later
    <3>2. w \in Versions
      OBVIOUS
    <3>. QED
      BY <1>1, <2>1, <3>1, <3>2
  <2>3. \A w \in V : ~(new.load = w.load /\ new.gen = w.gen)
    BY <1>1, <2>2
  <2>4. \A w \in V : Later(new, w)
    BY <2>2 DEF Later
  <2>5. OneEach(V \cup {new})
    BY <2>3 DEF Ahead, OneEach
  <2>. QED
    BY <2>4, <2>5 DEF Ahead
<1>. QED
  BY <1>2, <1>3

\* A session's step that leaves the committed state alone.
LEMMA HistoryStep ==
  ASSUME HistoryInv, NEW c \in Clients, Others(c), UNCHANGED <<db, named>>,
         HistorySound(tx'[c])
  PROVE  HistoryInv'
<1>1. \A t : HistorySound(t)' <=> HistorySound(t)
  BY DEF HistorySound
<1>2. ASSUME NEW d \in Clients PROVE HistorySound(tx'[d])
  BY DEF Others, HistoryInv
<1>. QED
  BY <1>2 DEF HistoryInv, HistorySound, Ahead

\* What a call that answers, or one that writes, leaves of the history.
LEMMA TellHistory ==
  ASSUME LifeInv, HistoryInv, NEW c \in Clients, tx[c].open,
         Tell(c, Version(tx[c].view)), UNCHANGED <<db, named>>
  PROVE  HistoryInv'
<1>1. tx[c] \in Transactions /\ tx \in [Clients -> Transactions] /\ Types
  BY DEF LifeInv, Types
<1>2. PICK v : v = Version(tx[c].view)
  OBVIOUS
<1>3. v \in Versions
  BY <1>2, SessionTypes, VersionFits
<1>4. PICK new : new = [tx[c] EXCEPT !.calls = @ + 1, !.told = @ \cup {v}]
  OBVIOUS
<1>5. /\ new.open = tx[c].open /\ new.view = tx[c].view /\ new.wrote = tx[c].wrote
      /\ new.lost = tx[c].lost /\ new.told = tx[c].told \cup {v}
      /\ new.stage = tx[c].stage
  BY <1>1, <1>4 DEF Transactions
<1>6. tx' = [tx EXCEPT ![c] = new]
  BY <1>1, <1>2, <1>4 DEF Tell
<1>7. tx'[c] = new /\ Others(c)
  BY <1>1, <1>6 DEF Others
<1>8. HistorySound(tx[c])
  BY DEF HistoryInv
<1>9. ASSUME ~tx[c].lost
      PROVE  Ahead(v, named \cup new.told)
  <2>1. Ahead(v, named \cup tx[c].told)
    BY <1>2, <1>8, <1>9 DEF HistorySound
  <2>2. named \cup new.told = (named \cup tx[c].told) \cup {v}
    BY <1>5
  <2>. QED
    BY <2>1, <2>2, AheadTold
<1>10. ~tx[c].wrote => new.told \subseteq named /\ v \in named
  BY <1>2, <1>5, <1>8 DEF HistorySound
<1>11. HistorySound(new)
  BY <1>2, <1>5, <1>8, <1>9, <1>10 DEF HistorySound
<1>. QED
  BY <1>7, <1>11, HistoryStep

LEMMA StoreHistory ==
  ASSUME LifeInv, HistoryInv, NEW c \in Clients, tx[c].open,
         NEW view \in ModelStates, Store(c, view),
         Later(Version(view), Version(tx[c].view)), UNCHANGED <<db, named>>
  PROVE  HistoryInv'
<1>1. tx[c] \in Transactions /\ tx \in [Clients -> Transactions] /\ named \subseteq Versions
  BY DEF LifeInv, Types
<1>2. PICK new : new = [tx[c] EXCEPT !.calls = @ + 1, !.view = view, !.wrote = TRUE,
                                     !.stage = NoStage]
  OBVIOUS
<1>3. /\ new.view = view /\ new.wrote = TRUE /\ new.lost = tx[c].lost
      /\ new.told = tx[c].told /\ new.stage = NoStage
  BY <1>1, <1>2 DEF Transactions
<1>4. tx' = [tx EXCEPT ![c] = new]
  BY <1>1, <1>2 DEF Store
<1>5. tx'[c] = new /\ Others(c)
  BY <1>1, <1>4 DEF Others
<1>6. HistorySound(tx[c])
  BY DEF HistoryInv
<1>7. tx[c].view \in ModelStates /\ tx[c].told \subseteq Versions
  BY <1>1 DEF Transactions
<1>8. Version(view) \in Versions /\ Version(tx[c].view) \in Versions
  BY <1>7, VersionFits
<1>9. ASSUME ~tx[c].lost
      PROVE  Ahead(Version(view), named \cup tx[c].told)
  <2>1. Ahead(Version(tx[c].view), named \cup tx[c].told)
    BY <1>6, <1>9 DEF HistorySound
  <2>2. named \cup tx[c].told \in SUBSET Versions
    BY <1>1, <1>7
  <2>. QED
    BY <1>8, <2>1, <2>2, AheadLater
<1>10. HistorySound(new)
  BY <1>3, <1>9 DEF HistorySound
<1>. QED
  BY <1>5, <1>10, HistoryStep

\* A transaction begins where everybody else is, or ends.
LEMMA BeginHistory ==
  ASSUME LifeInv, HistoryInv, NEW c \in Clients, Begin(c) \/ Abort(c)
  PROVE  HistoryInv'
<1>1. tx \in [Clients -> Transactions] /\ db \in ModelStates
  BY DEF LifeInv, Types
<1>2. UNCHANGED <<db, named>>
  BY DEF Begin, Abort
<1>3. PICK new : new = [Closed EXCEPT !.open = TRUE]
  OBVIOUS
<1>4. /\ new.view = db /\ new.lost = FALSE /\ new.told = {} /\ new.stage = NoStage
      /\ Closed.open = FALSE
  BY <1>3 DEF Closed
<1>5. HistorySound(new) /\ HistorySound(Closed)
  <2>1. named \cup {} = named
    OBVIOUS
  <2>. QED
    BY <1>4, <2>1 DEF HistorySound, HistoryInv
<1>6. tx' = [tx EXCEPT ![c] = new] \/ tx' = [tx EXCEPT ![c] = Closed]
  BY <1>3 DEF Begin, Abort
<1>7. Others(c) /\ (tx'[c] = new \/ tx'[c] = Closed)
  BY <1>1, <1>6 DEF Others
<1>. QED
  BY <1>2, <1>5, <1>7, HistoryStep

\* The planners and monitors answer for the version of their view, whether they
\* take it from the cache or from the database.
LEMMA AnswerHistory ==
  ASSUME LifeInv, HistoryInv, NEW c \in Clients, Plan(c) \/ PlanUncached(c) \/ Consult(c)
  PROVE  HistoryInv'
<1>1. tx[c].open /\ UNCHANGED <<db, named>>
  BY DEF Plan, PlanUncached, Consult, Ready
<1>2. Tell(c, Version(tx[c].view))
  <2>1. CASE Plan(c)
    <3>1. /\ Prepared(tx[c].view) /\ tx[c].view \in Views /\ tx[c].view \in ModelStates
      BY <1>1, <2>1, SessionTypes DEF Plan
    <3>2. PICK snap \in Loaded(tx[c].view) :
            Tell(c, [load |-> tx[c].view.load, gen |-> snap.gen, base |-> snap.base])
      BY <2>1 DEF Plan
    <3>3. snap = Content(tx[c].view)
      BY <3>1, LoadSound
    <3>4. snap.gen = tx[c].view.gen /\ snap.base = tx[c].view.base
      BY <3>3 DEF Content
    <3>. QED
      BY <3>2, <3>4 DEF Version
  <2>2. CASE PlanUncached(c) \/ Consult(c)
    BY <2>2 DEF PlanUncached, Consult
  <2>. QED
    BY <2>1, <2>2
<1>. QED
  BY <1>1, <1>2, TellHistory

\* A candidate that is staged will be the next generation.
LEMMA StageHistory ==
  ASSUME LifeInv, HistoryInv, NEW c \in Clients, UpdateStage(c) \/ UpdateUnchanged(c)
  PROVE  HistoryInv'
<1>1. /\ tx[c].open /\ tx[c].stage = NoStage /\ UNCHANGED <<db, named>>
  BY DEF UpdateStage, UpdateUnchanged, Ready
<1>2. tx[c] \in Transactions /\ tx \in [Clients -> Transactions]
  BY DEF LifeInv, Types
<1>3. HistorySound(tx[c])
  BY DEF HistoryInv
<1>4. PICK new : /\ tx' = [tx EXCEPT ![c] = new]
                 /\ new.open = tx[c].open /\ new.view = tx[c].view
                 /\ new.wrote = tx[c].wrote /\ new.lost = tx[c].lost
                 /\ new.told = tx[c].told
                 /\ new.stage # NoStage => new.stage.snap.gen = tx[c].view.gen + 1
  <2>1. CASE UpdateUnchanged(c)
    <3>1. PICK same : same = [tx[c] EXCEPT !.calls = @ + 1]
      OBVIOUS
    <3>2. tx' = [tx EXCEPT ![c] = same]
      BY <1>2, <2>1, <3>1 DEF UpdateUnchanged
    <3>3. /\ same.open = tx[c].open /\ same.view = tx[c].view
          /\ same.wrote = tx[c].wrote /\ same.lost = tx[c].lost
          /\ same.told = tx[c].told /\ same.stage = tx[c].stage
      BY <1>2, <3>1 DEF Transactions
    <3>. QED
      BY <1>1, <3>2, <3>3
  <2>2. CASE UpdateStage(c)
    <3>1. PICK edit : /\ tx' = [tx EXCEPT ![c].stage = edit]
                       /\ edit.snap.gen = tx[c].view.gen + 1
      <4>1. PICK old \in Loaded(tx[c].view), new \in Automata, full \in BOOLEAN :
              LET gen == tx[c].view.gen + 1
                  kept == IF full THEN {} ELSE old.recs \ {old.base}
                  snap == [gen |-> gen, base |-> new, recs |-> kept \cup {new}]
              IN tx' = [tx EXCEPT ![c].stage = [token |-> Token, snap |-> snap,
                                                from |-> old.base, full |-> full]]
        BY <2>2 DEF UpdateStage
      <4>2. PICK snap : /\ snap.gen = tx[c].view.gen + 1
                        /\ tx' = [tx EXCEPT ![c].stage = [token |-> Token, snap |-> snap,
                                                          from |-> old.base, full |-> full]]
        BY <4>1
      <4>3. PICK edit : edit = [token |-> Token, snap |-> snap,
                                  from |-> old.base, full |-> full]
        OBVIOUS
      <4>4. edit.snap = snap
        BY <4>3
      <4>5. tx' = [tx EXCEPT ![c].stage = edit]
        BY <4>2, <4>3
      <4>. QED
        BY <4>2, <4>4, <4>5
    <3>2. PICK after : after = [tx[c] EXCEPT !.stage = edit]
      OBVIOUS
    <3>3. tx' = [tx EXCEPT ![c] = after]
      BY <1>2, <3>1, <3>2
    <3>4. /\ after.open = tx[c].open /\ after.view = tx[c].view
          /\ after.wrote = tx[c].wrote /\ after.lost = tx[c].lost
          /\ after.told = tx[c].told /\ after.stage = edit
      BY <1>2, <3>2 DEF Transactions
    <3>. QED
      BY <3>1, <3>3, <3>4
  <2>. QED
    BY <2>1, <2>2
<1>5. tx'[c] = new /\ Others(c)
  BY <1>2, <1>4 DEF Others
<1>6. HistorySound(new)
  BY <1>3, <1>4 DEF HistorySound
<1>. QED
  BY <1>1, <1>5, <1>6, HistoryStep

\* Whatever is written has the version that was read, or a later one.
LEMMA WriteHistory ==
  ASSUME LifeInv, HistoryInv, NEW c \in Clients,
         Prepare(c) \/ UpdateWrite(c) \/ MarkDirty(c) \/ Edit(c) \/ Reload(c)
  PROVE  HistoryInv'
<1>1. DEFINE old == tx[c].view
<1>2. tx[c].open /\ UNCHANGED <<db, named>>
  BY DEF Prepare, UpdateWrite, MarkDirty, Edit, Reload, Ready
<1>3. /\ old \in ModelStates /\ tx[c].stage \in Stages \cup {NoStage}
      /\ tx[c].open => old \in Views
  BY SessionTypes
<1>4. old.load \in Nat /\ old.gen \in Nat /\ old.base \in Automata
  BY <1>3 DEF ModelStates
<1>5. PICK view \in ModelStates :
        Store(c, view) /\ Later(Version(view), Version(old))
  <2>1. CASE Prepare(c)
    <3>1. PICK opt \in PrepareOptions : Store(c, Materialized(old, opt[1], opt[2], Token))
      BY <2>1 DEF Prepare
    <3>2. opt[1] \in BOOLEAN /\ opt[2] \in BOOLEAN /\ Token \in Tokens
      BY LifecycleAssumption DEF LifeInv, Types, Token, Tokens
    <3>3. PICK new : new = Materialized(old, opt[1], opt[2], Token)
      OBVIOUS
    <3>4. new \in ModelStates
      BY <1>3, <3>2, <3>3, MaterializedSound
    <3>5. new.load = old.load /\ new.gen = old.gen /\ new.base = old.base
      BY <1>3, <3>3 DEF Materialized, ModelStates
    <3>6. Version(new) = Version(old)
      BY <3>5 DEF Version
    <3>. QED
      BY <3>1, <3>3, <3>4, <3>6 DEF Later
  <2>2. CASE UpdateWrite(c)
    <3>1. tx[c].stage # NoStage /\ Store(c, Updated(old, tx[c].stage))
      BY <2>2 DEF UpdateWrite
    <3>2. /\ tx[c].stage \in Stages /\ old.recs = {old.base} /\ old.edges \subseteq {old.base}
          /\ tx[c].stage.from = old.base /\ tx[c].stage.snap.recs = {tx[c].stage.snap.base}
      BY <1>2, <1>3, <3>1, StageKnown, ViewKnown
    <3>3. tx[c].stage.snap.gen = old.gen + 1
      BY <1>2, <3>1 DEF HistoryInv, HistorySound
    <3>4. PICK new : new = Updated(old, tx[c].stage)
      OBVIOUS
    <3>5. new \in ModelStates /\ Content(new) = tx[c].stage.snap
      BY <1>3, <3>2, <3>4, UpdatedSound
    <3>6. new.load = old.load /\ new.gen = old.gen + 1
      BY <1>3, <3>3, <3>4 DEF Updated, ModelStates
    <3>7. Later(Version(new), Version(old))
      BY <1>3, <1>4, <3>5, <3>6, VersionFits DEF Later
    <3>. QED
      BY <3>1, <3>4, <3>5, <3>7
  <2>3. ASSUME NEW same \in ModelStates, same.load = old.load, same.gen = old.gen
        PROVE  Marked(same) \in ModelStates /\ Later(Version(Marked(same)), Version(old))
    <3>1. Marked(same) \in ModelStates
      BY MarkedSound
    <3>2. Marked(same).load = old.load /\ Marked(same).gen = old.gen + 1
      BY <2>3 DEF Marked, ModelStates
    <3>. QED
      BY <1>3, <1>4, <3>1, <3>2, VersionFits DEF Later
  <2>4. CASE MarkDirty(c)
    BY <1>3, <2>3, <2>4 DEF MarkDirty
  <2>5. CASE Edit(c)
    <3>1. PICK new \in Automata : Store(c, Marked([old EXCEPT !.base = new]))
      BY <2>5 DEF Edit
    <3>2. PICK edited : edited = [old EXCEPT !.base = new]
      OBVIOUS
    <3>3. edited \in ModelStates /\ edited.load = old.load /\ edited.gen = old.gen
      BY <1>3, <3>2 DEF ModelStates
    <3>. QED
      BY <2>3, <3>1, <3>2, <3>3
  <2>6. CASE Reload(c)
    <3>1. PICK base \in Automata : Store(c, Fresh(base, old.load + 1))
      BY <2>6 DEF Reload
    <3>2. old.load + 1 \in Nat
      BY <1>4
    <3>3. PICK new : new = Fresh(base, old.load + 1)
      OBVIOUS
    <3>4. new \in ModelStates /\ new.load = old.load + 1
      BY <3>2, <3>3, FreshSound DEF Fresh
    <3>5. Later(Version(new), Version(old))
      BY <1>3, <1>4, <3>4, VersionFits DEF Later
    <3>. QED
      BY <3>1, <3>3, <3>4, <3>5
  <2>. QED
    BY <2>1, <2>2, <2>4, <2>5, <2>6
<1>. QED
  BY <1>2, <1>5, StoreHistory

\* A commit makes known what is ahead of all that is known; whoever could have
\* committed something else is not let.
LEMMA CommitHistory ==
  ASSUME LifeInv, HistoryInv, NEW c \in Clients, Commit(c)
  PROVE  HistoryInv' /\ named \subseteq named' /\ Later(Version(db'), Version(db))
<1>1. /\ tx[c].open /\ (tx[c].wrote => ~tx[c].lost)
      /\ db' = IF tx[c].wrote THEN tx[c].view ELSE db
      /\ named' = named \cup tx[c].told \cup {Version(db')}
      /\ tx' = [d \in Clients |->
                  IF d = c \/ ~tx[d].open THEN [Closed EXCEPT !.view = db']
                  ELSE [tx[d] EXCEPT !.lost = @ \/ tx[c].wrote]]
  BY DEF Commit
<1>2. tx \in [Clients -> Transactions] /\ HistorySound(tx[c])
  BY DEF LifeInv, Types, HistoryInv
<1>3. /\ Ahead(Version(db'), named \cup tx[c].told)
      /\ ~tx[c].wrote => named' = named /\ db' = db
  <2>1. CASE tx[c].wrote
    BY <1>1, <1>2, <2>1 DEF HistorySound
  <2>2. CASE ~tx[c].wrote
    <3>1. db' = db /\ tx[c].told \subseteq named /\ Version(db) \in named
      BY <1>1, <1>2, <2>2 DEF HistorySound, HistoryInv
    <3>2. named \cup tx[c].told = named /\ named' = named
      BY <1>1, <3>1
    <3>. QED
      BY <3>1, <3>2 DEF HistoryInv
  <2>. QED
    BY <2>1, <2>2
<1>4. PICK v : v = Version(db')
  OBVIOUS
<1>5. Ahead(v, named') /\ v \in named' /\ named \subseteq named'
  <2>1. named' = (named \cup tx[c].told) \cup {v}
    BY <1>1, <1>4
  <2>. QED
    BY <1>3, <1>4, <2>1, AheadTold
<1>6. ASSUME NEW d \in Clients, tx'[d].open
      PROVE  HistorySound(tx[d])'
  <2>1. PICK closed : closed = [Closed EXCEPT !.view = db']
    OBVIOUS
  <2>2. ~closed.open
    BY <2>1 DEF Closed
  <2>3. d # c /\ tx[d].open
    BY <1>1, <1>6, <2>1, <2>2
  <2>4. tx[d] \in Transactions /\ tx[c] \in Transactions
    BY <1>2
  <2>5. PICK lost \in BOOLEAN : lost = (tx[d].lost \/ tx[c].wrote)
    BY <2>4 DEF Transactions
  <2>6. tx'[d] = [tx[d] EXCEPT !.lost = lost]
    BY <1>1, <2>3, <2>4, <2>5
  <2>7. /\ tx'[d].view = tx[d].view /\ tx'[d].wrote = tx[d].wrote /\ tx'[d].told = tx[d].told
        /\ tx'[d].stage = tx[d].stage /\ tx'[d].lost = lost
    BY <2>4, <2>6 DEF Transactions
  <2>8. HistorySound(tx[d])
    BY DEF HistoryInv
  <2>9. ASSUME ~lost PROVE Ahead(Version(tx[d].view), named' \cup tx[d].told)
    BY <1>3, <2>3, <2>5, <2>8, <2>9 DEF HistorySound
  <2>10. ~tx[d].wrote => tx[d].told \subseteq named' /\ Version(tx[d].view) \in named'
    BY <1>5, <2>3, <2>8 DEF HistorySound
  <2>. QED
    BY <2>3, <2>7, <2>8, <2>9, <2>10 DEF HistorySound
<1>7. HistoryInv'
  BY <1>4, <1>5, <1>6 DEF HistoryInv, HistorySound
<1>8. Later(v, Version(db))
  BY <1>5 DEF Ahead, HistoryInv
<1>. QED
  BY <1>4, <1>5, <1>7, <1>8

\* Evictions and restarts commit nothing.
LEMMA QuietHistory ==
  ASSUME LifeInv, HistoryInv, Evict \/ Restart \/ UNCHANGED vars
  PROVE  HistoryInv' /\ UNCHANGED <<db, named>>
<1>1. UNCHANGED <<db, named>>
  BY DEF Evict, Restart, vars
<1>2. tx' = tx \/ tx' = [c \in Clients |-> Closed]
  BY DEF Evict, Restart, vars
<1>3. ~Closed.open
  BY DEF Closed
<1>4. ASSUME NEW d \in Clients PROVE HistorySound(tx'[d])
  BY <1>2, <1>3 DEF HistorySound, HistoryInv
<1>. QED
  BY <1>1, <1>4 DEF HistoryInv, HistorySound, Ahead

LEMMA InitHistory ==
  ASSUME Init
  PROVE  HistoryInv
<1>1. named = {Version(db)} /\ tx = [c \in Clients |-> Closed]
  BY DEF Init
<1>2. \A c \in Clients : ~tx[c].open
  BY <1>1 DEF Closed
<1>. QED
  BY <1>1, <1>2 DEF HistoryInv, HistorySound, Ahead, OneEach, Later

\* A step commits nothing, or what is ahead of everything that was known.
LEMMA StepHistory ==
  ASSUME LifeInv, HistoryInv, [Next]_vars
  PROVE  /\ HistoryInv'
         /\ \/ UNCHANGED <<db, named>>
            \/ named \subseteq named' /\ Later(Version(db'), Version(db))
<1>1. ASSUME NEW c \in Clients, Begin(c) \/ Call(c) \/ Commit(c) \/ Abort(c)
      PROVE  /\ HistoryInv'
             /\ \/ UNCHANGED <<db, named>>
                \/ named \subseteq named' /\ Later(Version(db'), Version(db))
  <2>1. CASE Begin(c) \/ Abort(c)
    BY <2>1, BeginHistory DEF Begin, Abort
  <2>2. CASE Plan(c) \/ PlanUncached(c) \/ Consult(c)
    BY <2>2, AnswerHistory DEF Plan, PlanUncached, Consult
  <2>3. CASE UpdateStage(c) \/ UpdateUnchanged(c)
    BY <2>3, StageHistory DEF UpdateStage, UpdateUnchanged
  <2>4. CASE Prepare(c) \/ UpdateWrite(c) \/ MarkDirty(c) \/ Edit(c) \/ Reload(c)
    BY <2>4, WriteHistory DEF Prepare, UpdateWrite, MarkDirty, Edit, Reload
  <2>5. CASE Commit(c)
    BY <2>5, CommitHistory
  <2>. QED
    BY <1>1, <2>1, <2>2, <2>3, <2>4, <2>5 DEF Call
<1>2. CASE Evict \/ Restart \/ UNCHANGED vars
  BY <1>2, QuietHistory
<1>. QED
  BY <1>1, <1>2 DEF Next

\* A generation names one automaton in all answers that were committed, and
\* what is committed has a later generation than anything before it or is the
\* same: first-committer-wins, with the generations that mark_dirty, an edit and
\* update_cells count up and the lineage that a load begins, implements
\* PreparedModel for every number of sessions and calls.
THEOREM LifecycleImplementsPrepared == Spec => ImplementsPrepared
<1>1. ASSUME LifeInv, Init
      PROVE  Promised!Init
  <2>1. Version(db) \in Promised!Versions
    BY <1>1, VersionFits DEF LifeInv, Types, Versions, Promised!Versions, Automata
  <2>. QED
    BY <1>1, <2>1 DEF Init, Promised!Init
<1>2. ASSUME LifeInv, LifeInv', HistoryInv, [Next]_vars
      PROVE  [Promised!Commit]_(Promised!vars) /\ HistoryInv'
  <2>1. HistoryInv'
    BY <1>2, StepHistory
  <2>2. CASE UNCHANGED <<db, named>>
    BY <2>1, <2>2 DEF Promised!vars, Version
  <2>3. CASE named \subseteq named' /\ Later(Version(db'), Version(db))
    <3>1. Versions = Promised!Versions
      BY DEF Versions, Promised!Versions, Automata
    <3>2. db' \in ModelStates /\ named' \subseteq Promised!Versions
      BY <1>2, <3>1 DEF LifeInv, Types, Versions, Automata
    <3>3. Version(db)' = Version(db')
      BY DEF Version
    <3>4. Version(db') \in Promised!Versions
      BY <3>1, <3>2, VersionFits
    <3>5. Version(db') \in named' /\ Promised!Unambiguous(named')
      BY <2>1, <3>3 DEF HistoryInv, Ahead, OneEach, Promised!Unambiguous, Version
    <3>6. Promised!Follows(Version(db'), Version(db))
      BY <2>3 DEF Later, Promised!Follows
    <3>7. named \cup {Version(db')} \subseteq named'
      BY <2>3, <3>5
    <3>. QED
      BY <2>1, <3>2, <3>3, <3>4, <3>5, <3>6, <3>7 DEF Promised!Commit
  <2>. QED
    BY <1>2, <2>2, <2>3, StepHistory
<1>. QED
  BY <1>1, <1>2, LifeSound, InitHistory, PTL DEF Spec, ImplementsPrepared, Promised!Spec

-----------------------------------------------------------------------------
(* Loading an automaton: AutomatonLoader. *)

\* How many rows of the n-th query are in the builder.
Consumed(n) ==
  IF n < stage THEN Len(graph[Queries[n]]) ELSE IF n = stage THEN row - 1 ELSE 0

\* The rows of a query in the builder are the first of those in the graph.
Prefix(q, count) ==
  /\ builder[q] \in Seq(Range(graph[q])) /\ Len(builder[q]) = count
  /\ \A m \in 1 .. count : builder[q][m] = graph[q][m]

\* The builder holds the rows that were read, as they are in the graph.
Reads ==
  /\ graph \in Graphs
  /\ stage \in 1 .. 6 /\ row \in Nat \ {0}
  /\ Loading => row <= Len(graph[Query]) + 1
  /\ builder = [q \in Range(Queries) |-> builder[q]]
  /\ \A n \in 1 .. 5 : Prefix(Queries[n], Consumed(n))

\* Nothing that is not a key is in it, and no key twice.
Clean ==
  /\ \A d \in Domains :
       IsInjective(builder[d]) /\ Range(builder[d]) \cap {Empty, NotString} = {}
  /\ \A table \in Tables : \A entry \in Range(builder[table]) :
       Range(entry) \cap {Empty, NotString} = {}

\* The automaton has the keys of the builder, and at first its entries.
Builds ==
  /\ status # "OK" => automaton = <<>> /\ columns = <<>> /\ changes = 0
  /\ status = "OK" =>
       /\ stage = 6
       /\ automaton = [states |-> builder.states, actions |-> builder.actions,
                       outputs |-> builder.outputs, delta |-> automaton.delta,
                       eta |-> automaton.eta]
       /\ automaton.delta \in [CellsOf(automaton) -> Indices(automaton.states)]
       /\ automaton.eta \in [CellsOf(automaton) -> Indices(automaton.outputs)]
       /\ changes = 0 => /\ automaton.delta = Resolved("transitions")
                         /\ automaton.eta = Resolved("observations")

\* Columns that hold the states that their action leads to their target.
ColumnsOf(delta) ==
  [c \in Sides |-> {s \in Indices(automaton.states) : delta[<<s, c[1]>>] = c[2]}]

ColumnsMatch ==
  columns # <<>> => status = "OK" /\ columns = ColumnsOf(automaton.delta)

Statuses ==
  {"NONE", "OK", "INVALID_MODEL", "INVALID_ARGUMENT", "DUPLICATE", "NOT_FOUND",
   "NONDETERMINISTIC", "INCOMPLETE"}

LoaderInv ==
  /\ Reads /\ Clean /\ Builds /\ ColumnsMatch
  /\ AcceptsAutomata /\ FaultNamed
  /\ status \in Statuses /\ changes \in 0 .. MaxChanges

-----------------------------------------------------------------------------
(* Sequences and tables. *)

\* The queries by name.
LEMMA QueryNames ==
  /\ Queries \in Seq({"states", "actions", "outputs", "transitions", "observations"})
  /\ Len(Queries) = 5 /\ DOMAIN Queries = 1 .. 5
  /\ Queries[1] = "states" /\ Queries[2] = "actions" /\ Queries[3] = "outputs"
  /\ Queries[4] = "transitions" /\ Queries[5] = "observations"
BY DEF Queries

\* The queries are the domains and then the tables.
LEMMA QueryRange ==
  /\ Range(Queries) = {"states", "actions", "outputs", "transitions", "observations"}
  /\ Range(Queries) = Domains \cup Tables /\ Domains \cap Tables = {}
  /\ \A n \in 1 .. 5 : Queries[n] \in Range(Queries)
  /\ \A m, n \in 1 .. 5 : Queries[m] = Queries[n] => m = n
  /\ \A n \in 1 .. 5 : /\ n <= 3 <=> Queries[n] \in Domains
                       /\ n >= 4 <=> Queries[n] \in Tables
<1>1. \A n \in 1 .. 5 : n = 1 \/ n = 2 \/ n = 3 \/ n = 4 \/ n = 5
  OBVIOUS
<1>2. Range(Queries) = {"states", "actions", "outputs", "transitions", "observations"}
  BY <1>1, QueryNames DEF Range
<1>3. \A m, n \in 1 .. 5 : Queries[m] = Queries[n] => m = n
  BY <1>1, QueryNames
<1>4. \A n \in 1 .. 5 : /\ n <= 3 <=> Queries[n] \in Domains
                        /\ n >= 4 <=> Queries[n] \in Tables
  BY <1>1, QueryNames DEF Domains, Tables
<1>. QED
  BY <1>1, <1>2, <1>3, <1>4, QueryNames DEF Domains, Tables

\* A query has a place.
LEMMA QueryPlace ==
  ASSUME NEW q \in Range(Queries)
  PROVE  \E n \in 1 .. 5 : Queries[n] = q
BY QueryNames, QueryRange

\* The range of a sequence is finite.
LEMMA RangeFinite ==
  ASSUME NEW S, NEW s \in Seq(S)
  PROVE  IsFiniteSet(Range(s))
<1>1. IsFiniteSet(1 .. Len(s))
  BY FS_Interval
<1>2. s \in Surjection(1 .. Len(s), Range(s))
  BY DEF Surjection, Range
<1>. QED
  BY <1>1, <1>2, FS_Surjection

\* Sequences of one length with the same elements are the same.
LEMMA SameElements ==
  ASSUME NEW S, NEW s \in Seq(S), NEW t \in Seq(S), Len(s) = Len(t),
         \A n \in 1 .. Len(s) : s[n] = t[n]
  PROVE  s = t
OBVIOUS

\* Every cell has one row, and every row is of some cell.
CellsFilled(rows, cells) ==
  /\ \A n \in DOMAIN rows : CellOf(rows[n]) \in cells
  /\ \A m, n \in DOMAIN rows : CellOf(rows[m]) = CellOf(rows[n]) => m = n
  /\ \A c \in cells : \E n \in DOMAIN rows : CellOf(rows[n]) = c

\* That each cell has just one row, and that there are as many rows as cells,
\* leaves no row for anything else.
LEMMA FilledWhenCounted ==
  ASSUME NEW S, NEW rows \in Seq(S), NEW cells, IsFiniteSet(cells),
         \A c \in cells : Cardinality({n \in DOMAIN rows : CellOf(rows[n]) = c}) = 1,
         Len(rows) = Cardinality(cells)
  PROVE  CellsFilled(rows, cells)
<1> DEFINE Of(c) == {n \in DOMAIN rows : CellOf(rows[n]) = c}
           place == [c \in cells |-> CHOOSE n \in DOMAIN rows : CellOf(rows[n]) = c]
<1>1. DOMAIN rows = 1 .. Len(rows) /\ IsFiniteSet(1 .. Len(rows))
      /\ Cardinality(1 .. Len(rows)) = Len(rows) /\ Len(rows) \in Nat
  BY FS_Interval
<1>2. \A c \in cells : \E n : Of(c) = {n}
  <2>1. TAKE c \in cells
  <2>2. IsFiniteSet(Of(c))
    BY <1>1, FS_Subset
  <2>3. Cardinality(Of(c)) = 1
    OBVIOUS
  <2>. QED
    BY <2>2, <2>3, FS_Singleton
<1>3. \A c \in cells : place[c] \in DOMAIN rows /\ CellOf(rows[place[c]]) = c /\ Of(c) = {place[c]}
  <2>1. TAKE c \in cells
  <2>2. PICK n : Of(c) = {n}
    BY <1>2
  <2>3. n \in DOMAIN rows /\ CellOf(rows[n]) = c
    BY <2>2
  <2>4. place[c] \in Of(c)
    BY <2>3
  <2>. QED
    BY <2>2, <2>4
<1>4. place \in Injection(cells, DOMAIN rows)
  <2>1. place \in [cells -> DOMAIN rows]
    BY <1>3
  <2>2. ASSUME NEW b \in cells, NEW c \in cells, place[b] = place[c]
        PROVE  b = c
    BY <1>3, <2>2
  <2>. QED
    BY <2>1, <2>2 DEF Injection, IsInjective
<1>5. place \in Surjection(cells, DOMAIN rows)
  BY <1>1, <1>4, FS_Injection
<1>6. \A n \in DOMAIN rows : \E c \in cells : place[c] = n
  BY <1>5 DEF Surjection
<1> HIDE DEF place
<1>7. \A n \in DOMAIN rows : CellOf(rows[n]) \in cells
  BY <1>3, <1>6
<1>8. ASSUME NEW m \in DOMAIN rows, NEW n \in DOMAIN rows, CellOf(rows[m]) = CellOf(rows[n])
      PROVE  m = n
  BY <1>3, <1>7, <1>8
<1>. QED
  BY <1>3, <1>7, <1>8 DEF CellsFilled

\* And the other way round.
LEMMA CountedWhenFilled ==
  ASSUME NEW S, NEW rows \in Seq(S), NEW cells, CellsFilled(rows, cells)
  PROVE  /\ \A c \in cells : Cardinality({n \in DOMAIN rows : CellOf(rows[n]) = c}) = 1
         /\ Len(rows) = Cardinality(cells)
<1> DEFINE cell == [n \in DOMAIN rows |-> CellOf(rows[n])]
<1>1. DOMAIN rows = 1 .. Len(rows) /\ IsFiniteSet(1 .. Len(rows))
      /\ Cardinality(1 .. Len(rows)) = Len(rows) /\ Len(rows) \in Nat
  BY FS_Interval
<1>2. ASSUME NEW c \in cells
      PROVE  Cardinality({n \in DOMAIN rows : CellOf(rows[n]) = c}) = 1
  <2>1. PICK n \in DOMAIN rows : CellOf(rows[n]) = c
    BY <1>2 DEF CellsFilled
  <2>2. {m \in DOMAIN rows : CellOf(rows[m]) = c} = {n}
    BY <2>1 DEF CellsFilled
  <2>. QED
    BY <2>2, FS_Singleton
<1>3. cell \in [DOMAIN rows -> cells]
  BY DEF CellsFilled
<1>4. cell \in Bijection(DOMAIN rows, cells)
  <2>1. IsInjective(cell)
    BY DEF IsInjective, CellsFilled
  <2>2. \A c \in cells : \E n \in DOMAIN rows : cell[n] = c
    BY DEF CellsFilled
  <2>. QED
    BY <1>3, <2>1, <2>2 DEF Bijection, Injection, Surjection
<1>5. Cardinality(cells) = Cardinality(DOMAIN rows)
  BY <1>1, <1>4, FS_Bijection DEF ExistsBijection
<1>. QED
  BY <1>1, <1>2, <1>5

\* What the database returns are sequences of keys and of triples.
LEMMA GraphRows ==
  ASSUME graph \in Graphs
  PROVE  /\ \A q \in Range(Queries) : graph[q] \in Seq(Range(graph[q]))
         /\ \A table \in Tables : \A entry \in Range(graph[table]) :
              /\ entry = <<entry[1], entry[2], entry[3]>>
              /\ CellOf(entry) = <<entry[1], entry[2]>>
              /\ Range(entry) = {entry[1], entry[2], entry[3]}
<1>1. \A q \in Range(Queries) : graph[q] \in Seq(Range(graph[q]))
  BY LoaderAssumption
<1>2. ASSUME NEW table \in Tables, NEW entry \in Range(graph[table])
      PROVE  /\ entry = <<entry[1], entry[2], entry[3]>>
             /\ CellOf(entry) = <<entry[1], entry[2]>>
             /\ Range(entry) = {entry[1], entry[2], entry[3]}
  <2>1. entry = <<entry[1], entry[2], entry[3]>>
    BY LoaderAssumption
  <2>2. PICK x, y, z : entry = <<x, y, z>>
    BY <2>1
  <2>3. SubSeq(<<x, y, z>>, 1, 2) = <<x, y>>
    <3>1. PICK s : s = <<x, y, z>>
      OBVIOUS
    <3>2. s[1] = x /\ s[2] = y /\ s \in Seq({x, y, z}) /\ Len(s) = 3
      BY <3>1
    <3>3. /\ SubSeq(s, 1, 2) \in Seq({x, y, z}) /\ Len(SubSeq(s, 1, 2)) = 2
          /\ SubSeq(s, 1, 2)[1] = s[1] /\ SubSeq(s, 1, 2)[2] = s[2]
      BY <3>2
    <3>4. <<x, y>> \in Seq({x, y, z}) /\ Len(<<x, y>>) = 2
          /\ <<x, y>>[1] = x /\ <<x, y>>[2] = y
      OBVIOUS
    <3>5. \A n \in 1 .. 2 : n = 1 \/ n = 2
      OBVIOUS
    <3>6. \A n \in 1 .. 2 : SubSeq(s, 1, 2)[n] = <<x, y>>[n]
      BY <3>2, <3>3, <3>4, <3>5
    <3>7. SubSeq(s, 1, 2) = <<x, y>>
      BY <3>3, <3>4, <3>6, SameElements
    <3>. QED
      BY <3>1, <3>7
  <2>4. Range(<<x, y, z>>) = {x, y, z}
    <3>1. DOMAIN <<x, y, z>> = {1, 2, 3}
      OBVIOUS
    <3>. QED
      BY <3>1 DEF Range
  <2>. QED
    BY <2>1, <2>2, <2>3, <2>4 DEF CellOf
<1>. QED
  BY <1>1, <1>2

\* The cells of the graph.
GraphCells == Range(graph.states) \X Range(graph.actions)

\* What a table of an automaton names.
GraphValues(table) == IF table = "transitions" THEN Range(graph.states) ELSE Range(graph.outputs)

\* An automaton by its rows: every key is a key and is there once, every cell
\* has its row, and every row has its cell and a value that is named.
LEMMA AutomatonByRows ==
  ASSUME graph \in Graphs
  PROVE  IsAutomaton <=>
           /\ \A d \in Domains : /\ graph[d] # <<>> /\ IsInjective(graph[d])
                                 /\ Range(graph[d]) \cap {Empty, NotString} = {}
           /\ \A table \in Tables :
                /\ CellsFilled(graph[table], GraphCells)
                /\ \A entry \in Range(graph[table]) : entry[3] \in GraphValues(table)
<1>1. \A q \in Range(Queries) : graph[q] \in Seq(Range(graph[q])) /\ IsFiniteSet(Range(graph[q]))
  BY GraphRows, RangeFinite
<1>2. IsFiniteSet(GraphCells)
  BY <1>1, QueryRange, FS_Product DEF GraphCells
<1>3. ASSUME NEW table \in Tables
      PROVE  CellsFilled(graph[table], GraphCells) <=>
               /\ \A c \in GraphCells : Cardinality(Rows(table, c[1], c[2])) = 1
               /\ Len(graph[table]) = Cardinality(GraphCells)
  <2>1. graph[table] \in Seq(Range(graph[table]))
    BY <1>1, QueryRange
  <2>2. \A c \in GraphCells : /\ c = <<c[1], c[2]>>
                              /\ Rows(table, c[1], c[2]) =
                                   {n \in DOMAIN graph[table] : CellOf(graph[table][n]) = c}
    BY DEF GraphCells, Rows
  <2>3. (\A c \in GraphCells : Cardinality(Rows(table, c[1], c[2])) = 1) <=>
          \A c \in GraphCells :
            Cardinality({n \in DOMAIN graph[table] : CellOf(graph[table][n]) = c}) = 1
    BY <2>2
  <2>4. CellsFilled(graph[table], GraphCells) =>
          /\ \A c \in GraphCells :
               Cardinality({n \in DOMAIN graph[table] : CellOf(graph[table][n]) = c}) = 1
          /\ Len(graph[table]) = Cardinality(GraphCells)
    BY <2>1, CountedWhenFilled
  <2>. QED
    BY <1>2, <2>1, <2>3, <2>4, FilledWhenCounted
<1>4. ASSUME NEW d \in Domains
      PROVE  Range(graph[d]) \cap {Empty, NotString} = {} <=>
               \A key \in Range(graph[d]) : key \notin {Empty, NotString}
  OBVIOUS
<1>5. /\ \A entry \in Range(graph.transitions) :
           entry[3] \in Range(graph.states) <=> entry[3] \in GraphValues("transitions")
      /\ \A entry \in Range(graph.observations) :
           entry[3] \in Range(graph.outputs) <=> entry[3] \in GraphValues("observations")
  BY DEF GraphValues
<1>6. Tables = {"transitions", "observations"}
  BY DEF Tables
<1>. QED
  BY <1>3, <1>4, <1>5, <1>6 DEF IsAutomaton, GraphCells

\* Of an automaton no row is malformed.
LEMMA RowsOfAutomaton ==
  ASSUME graph \in Graphs, IsAutomaton, NEW table \in Tables, NEW entry \in Range(graph[table])
  PROVE  /\ Range(entry) \cap {Empty, NotString} = {}
         /\ entry[1] \in Range(graph.states) /\ entry[2] \in Range(graph.actions)
         /\ entry[3] \in GraphValues(table)
<1>1. PICK n \in DOMAIN graph[table] : graph[table][n] = entry
  BY DEF Range
<1>2. CellOf(entry) \in GraphCells /\ entry[3] \in GraphValues(table)
  BY <1>1, AutomatonByRows DEF CellsFilled
<1>3. CellOf(entry) = <<entry[1], entry[2]>> /\ Range(entry) = {entry[1], entry[2], entry[3]}
  BY GraphRows
<1>4. entry[1] \in Range(graph.states) /\ entry[2] \in Range(graph.actions)
  BY <1>2, <1>3 DEF GraphCells
<1>5. \A d \in Domains : Range(graph[d]) \cap {Empty, NotString} = {}
  BY AutomatonByRows
<1>6. entry[1] \notin {Empty, NotString} /\ entry[2] \notin {Empty, NotString}
  BY <1>4, <1>5 DEF Domains
<1>7. entry[3] \notin {Empty, NotString}
  BY <1>2, <1>5 DEF GraphValues, Domains
<1>. QED
  BY <1>2, <1>3, <1>4, <1>6, <1>7

-----------------------------------------------------------------------------
(* Rows are read. *)

\* Whether a graph is an automaton depends on the graph.
LEMMA SameGraph ==
  ASSUME graph' = graph
  PROVE  IsAutomaton' <=> IsAutomaton
BY DEF IsAutomaton, Rows, CellOf

\* Nothing that decides about the graph changes when only the status does.
LEMMA FailKeeps ==
  ASSUME LoaderInv, status = "NONE", NEW s \in Statuses \ {"NONE", "OK"}, Fail(s),
         ~IsAutomaton, FaultNamed'
  PROVE  LoaderInv'
<1>1. /\ status' = s /\ s \notin {"NONE", "OK"}
      /\ UNCHANGED <<graph, stage, row, builder, automaton, columns, changes>>
  BY DEF Fail
<1>2. Reads'
  BY <1>1 DEF LoaderInv, Reads, Consumed, Loading, Query, Prefix
<1>3. Clean'
  BY <1>1 DEF LoaderInv, Clean
<1>4. Builds' /\ ColumnsMatch'
  BY <1>1 DEF LoaderInv, Builds, ColumnsMatch
<1>5. AcceptsAutomata'
  BY <1>1, SameGraph DEF AcceptsAutomata
<1>. QED
  BY <1>1, <1>2, <1>3, <1>4, <1>5 DEF LoaderInv

\* A malformed row says nothing of repetitions and gaps.
LEMMA InvalidNamed ==
  ASSUME status' \in {"INVALID_MODEL", "INVALID_ARGUMENT", "NOT_FOUND", "NONE", "OK"}
  PROVE  FaultNamed'
BY DEF FaultNamed

\* The query that is read, and its place in it.
LEMMA AtRow ==
  ASSUME LoaderInv, Loading
  PROVE  /\ stage \in 1 .. 5 /\ Query = Queries[stage] /\ Query \in Range(Queries)
         /\ Len(builder[Query]) = row - 1 /\ Len(graph[Query]) \in Nat
         /\ builder[Query] \in Seq(Range(graph[Query]))
         /\ \A m \in 1 .. row - 1 : builder[Query][m] = graph[Query][m]
         /\ graph[Query] \in Seq(Range(graph[Query]))
         /\ HasRow => row \in 1 .. Len(graph[Query])
                      /\ graph[Query][row] \in Range(graph[Query])
         /\ ~HasRow => row - 1 = Len(graph[Query])
<1>1. stage \in 1 .. 5 /\ Query = Queries[stage] /\ Query \in Range(Queries)
  BY QueryNames, QueryRange DEF Loading, Query
<1>2. graph[Query] \in Seq(Range(graph[Query]))
  BY <1>1, GraphRows DEF LoaderInv, Reads
<1>3. /\ Len(builder[Query]) = row - 1 /\ row \in Nat \ {0}
      /\ builder[Query] \in Seq(Range(graph[Query]))
      /\ \A m \in 1 .. row - 1 : builder[Query][m] = graph[Query][m]
      /\ row <= Len(graph[Query]) + 1
  <2>1. Consumed(stage) = row - 1
    BY <1>1 DEF Consumed
  <2>2. Prefix(Queries[stage], Consumed(stage)) /\ row \in Nat \ {0}
        /\ row <= Len(graph[Query]) + 1
    BY <1>1 DEF LoaderInv, Reads
  <2>. QED
    BY <1>1, <2>1, <2>2 DEF Prefix
<1>4. HasRow => row \in 1 .. Len(graph[Query]) /\ graph[Query][row] \in Range(graph[Query])
  BY <1>2, <1>3 DEF HasRow, Range
<1>5. ~HasRow => row - 1 = Len(graph[Query])
  <2>1. Len(graph[Query]) \in Nat
    BY <1>2
  <2>. QED
    BY <1>3, <2>1 DEF HasRow
<1>. QED
  BY <1>1, <1>2, <1>3, <1>4, <1>5

\* A row that is taken is one row more.
LEMMA ReadsMore ==
  ASSUME LoaderInv, Loading, HasRow,
         builder' = [builder EXCEPT ![Query] = Append(@, graph[Query][row])],
         row' = row + 1, UNCHANGED <<graph, stage, status>>
  PROVE  Reads'
<1> DEFINE q == Query
<1>1. /\ stage \in 1 .. 5 /\ q = Queries[stage] /\ q \in Range(Queries)
      /\ Len(builder[q]) = row - 1 /\ Len(graph[q]) \in Nat
      /\ builder[q] \in Seq(Range(graph[q]))
      /\ \A m \in 1 .. row - 1 : builder[q][m] = graph[q][m]
      /\ row \in 1 .. Len(graph[q]) /\ graph[q][row] \in Range(graph[q])
  BY AtRow
<1>2. builder = [r \in Range(Queries) |-> builder[r]] /\ graph \in Graphs /\ row \in Nat \ {0}
  BY DEF LoaderInv, Reads
<1>3. /\ builder'[q] = Append(builder[q], graph[q][row])
      /\ \A r \in Range(Queries) \ {q} : builder'[r] = builder[r]
      /\ builder' = [r \in Range(Queries) |-> builder'[r]]
  BY <1>1, <1>2
<1> HIDE DEF q
<1>4. /\ builder'[q] \in Seq(Range(graph[q])) /\ Len(builder'[q]) = row
      /\ \A m \in 1 .. row : builder'[q][m] = graph[q][m]
  <2>1. PICK b \in Seq(Range(graph[q])), e \in Range(graph[q]) : b = builder[q] /\ e = graph[q][row]
    BY <1>1
  <2>2. Append(b, e) \in Seq(Range(graph[q])) /\ Len(Append(b, e)) = Len(b) + 1
        /\ \A m \in 1 .. Len(b) : Append(b, e)[m] = b[m]
        /\ Append(b, e)[Len(b) + 1] = e
    OBVIOUS
  <2>3. Len(b) = row - 1 /\ Len(b) + 1 = row
    BY <1>1, <1>2, <2>1
  <2>4. \A m \in 1 .. row : m \in 1 .. row - 1 \/ m = row
    BY <1>2
  <2>5. builder'[q] = Append(b, e)
    BY <1>3, <2>1
  <2>6. \A m \in 1 .. row - 1 : Append(b, e)[m] = graph[q][m]
    BY <1>1, <2>1, <2>2, <2>3
  <2>7. Append(b, e)[row] = graph[q][row]
    BY <2>1, <2>2, <2>3
  <2>. QED
    BY <2>2, <2>3, <2>4, <2>5, <2>6, <2>7
<1>5. ASSUME NEW n \in 1 .. 5
      PROVE  Prefix(Queries[n], Consumed(n))'
  <2>1. CASE n = stage
    <3>1. Consumed(n)' = row
      BY <1>2, <2>1 DEF Consumed
    <3>. QED
      BY <1>1, <1>4, <2>1, <3>1 DEF Prefix
  <2>2. CASE n # stage
    <3>1. Queries[n] \in Range(Queries) \ {q}
      BY <1>1, <2>2, QueryRange
    <3>2. Consumed(n)' = Consumed(n)
      BY <2>2 DEF Consumed
    <3>3. Prefix(Queries[n], Consumed(n))
      BY DEF LoaderInv, Reads
    <3>. QED
      BY <1>3, <3>1, <3>2, <3>3 DEF Prefix
  <2>. QED
    BY <2>1, <2>2
<1>6. Loading' => row' <= Len(graph'[Query']) + 1
  <2>1. row + 1 <= Len(graph[q]) + 1
    BY <1>1, <1>2
  <2>. QED
    BY <2>1 DEF q, Query
<1>. QED
  BY <1>2, <1>3, <1>5, <1>6 DEF LoaderInv, Reads

\* A step of a call that goes on: there is no automaton yet, and no verdict.
LEMMA GoesOn ==
  ASSUME LoaderInv, status = "NONE", Reads', Clean',
         UNCHANGED <<graph, status, automaton, columns, changes>>
  PROVE  LoaderInv'
<1>1. Builds' /\ ColumnsMatch'
  BY DEF LoaderInv, Builds, ColumnsMatch
<1>2. AcceptsAutomata' /\ FaultNamed'
  BY InvalidNamed DEF AcceptsAutomata
<1>. QED
  BY <1>1, <1>2 DEF LoaderInv

\* A key is refused if the graph is not an automaton, and taken if it is new.
LEMMA LoadKeyKeeps ==
  ASSUME LoaderInv, LoadKey
  PROVE  LoaderInv'
<1>1. PICK d \in Domains : d = Query
  BY DEF LoadKey
<1>2. PICK key : key = graph[d][row]
  OBVIOUS
<1>3. /\ Loading /\ HasRow /\ status = "NONE" /\ graph \in Graphs
      /\ row \in 1 .. Len(graph[d]) /\ key \in Range(graph[d])
      /\ builder[d] \in Seq(Range(graph[d])) /\ Len(builder[d]) = row - 1
      /\ \A m \in 1 .. row - 1 : builder[d][m] = graph[d][m]
      /\ graph[d] \in Seq(Range(graph[d])) /\ d \in Range(Queries)
  BY <1>1, <1>2, AtRow DEF LoadKey, Loading, LoaderInv, Reads
<1>4. CASE key = NotString /\ Fail("INVALID_MODEL")
  <2>1. ~IsAutomaton
    BY <1>3, <1>4, AutomatonByRows
  <2>2. FaultNamed'
    BY <1>4, InvalidNamed DEF Fail
  <2>. QED
    BY <1>3, <1>4, <2>1, <2>2, FailKeeps DEF Statuses
<1>5. CASE key = Empty /\ Fail("INVALID_ARGUMENT")
  <2>1. ~IsAutomaton
    BY <1>3, <1>5, AutomatonByRows
  <2>2. FaultNamed'
    BY <1>5, InvalidNamed DEF Fail
  <2>. QED
    BY <1>3, <1>5, <2>1, <2>2, FailKeeps DEF Statuses
<1>6. CASE Taken(builder[d], key) /\ Fail("DUPLICATE")
  <2>1. PICK m \in 1 .. row - 1 : graph[d][m] = key
    <3>1. DOMAIN builder[d] = 1 .. row - 1
      BY <1>3
    <3>2. PICK m \in DOMAIN builder[d] : builder[d][m] = key
      BY <1>6 DEF Taken, Range
    <3>. QED
      BY <1>3, <3>1, <3>2
  <2>2. m \in DOMAIN graph[d] /\ row \in DOMAIN graph[d] /\ m # row
    BY <1>3
  <2>3. ~IsInjective(graph[d])
    BY <1>2, <2>1, <2>2 DEF IsInjective
  <2>4. ~IsAutomaton
    BY <1>3, <2>3, AutomatonByRows
  <2>5. FaultNamed'
    BY <1>6, <2>3 DEF FaultNamed, Fail
  <2>. QED
    BY <1>3, <1>6, <2>4, <2>5, FailKeeps DEF Statuses
<1>7. CASE /\ key \notin {NotString, Empty} /\ ~Taken(builder[d], key)
           /\ builder' = [builder EXCEPT ![d] = Append(@, key)]
           /\ row' = row + 1
           /\ UNCHANGED <<graph, stage, status, automaton, columns, changes>>
  <2>1. Reads'
    BY <1>1, <1>2, <1>3, <1>7, ReadsMore
  <2>2. builder'[d] = Append(builder[d], key)
        /\ \A q \in Range(Queries) \ {d} : builder'[q] = builder[q]
    BY <1>3, <1>7 DEF LoaderInv, Reads
  <2>3. IsInjective(builder'[d]) /\ Range(builder'[d]) = Range(builder[d]) \cup {key}
    <3>1. PICK b \in Seq(Range(graph[d])) : b = builder[d]
      BY <1>3
    <3>2. PICK t : t = Append(b, key)
      OBVIOUS
    <3>3. /\ DOMAIN t = 1 .. Len(b) + 1 /\ DOMAIN b = 1 .. Len(b) /\ Len(b) \in Nat
          /\ \A m \in 1 .. Len(b) : t[m] = b[m]
          /\ t[Len(b) + 1] = key
      BY <1>3, <3>2
    <3>4. \A m \in DOMAIN t : m \in DOMAIN b \/ m = Len(b) + 1
      BY <3>3
    <3>5. DOMAIN b \subseteq DOMAIN t /\ Len(b) + 1 \in DOMAIN t
      BY <3>3
    <3>6. \A m \in DOMAIN b : b[m] # key
      BY <1>7, <3>1 DEF Taken, Range
    <3>7. IsInjective(b)
      BY <3>1 DEF LoaderInv, Clean
    <3>8. IsInjective(t)
      BY <3>3, <3>4, <3>6, <3>7 DEF IsInjective
    <3>9. Range(t) = Range(b) \cup {key}
      BY <3>3, <3>4, <3>5 DEF Range
    <3>. QED
      BY <2>2, <3>1, <3>2, <3>8, <3>9
  <2>4. \A e \in Domains : e \in Range(Queries)
    BY QueryRange
  <2>5. \A table \in Tables : builder'[table] = builder[table]
    BY <2>2, QueryRange
  <2>6. ASSUME NEW e \in Domains
        PROVE  IsInjective(builder'[e]) /\ Range(builder'[e]) \cap {Empty, NotString} = {}
    BY <1>7, <2>2, <2>3, <2>4 DEF LoaderInv, Clean
  <2>7. Clean'
    BY <2>5, <2>6 DEF LoaderInv, Clean
  <2>. QED
    BY <1>3, <1>7, <2>1, <2>7, GoesOn
<1>. QED
  BY <1>1, <1>2, <1>4, <1>5, <1>6, <1>7 DEF LoadKey

\* A row is refused if it names something that is no key.
LEMMA LoadEntryKeeps ==
  ASSUME LoaderInv, LoadEntry
  PROVE  LoaderInv'
<1>1. PICK table \in Tables : table = Query
  BY DEF LoadEntry
<1>2. PICK entry : entry = graph[table][row]
  OBVIOUS
<1>3. /\ Loading /\ HasRow /\ status = "NONE" /\ graph \in Graphs
      /\ entry \in Range(graph[table])
      /\ builder[table] \in Seq(Range(graph[table])) /\ table \in Range(Queries)
  BY <1>1, <1>2, AtRow DEF LoadEntry, Loading, LoaderInv, Reads
<1>4. CASE NotString \in Range(entry) /\ Fail("INVALID_MODEL")
  <2>1. ~IsAutomaton
    BY <1>3, <1>4, RowsOfAutomaton
  <2>2. FaultNamed'
    BY <1>4, InvalidNamed DEF Fail
  <2>. QED
    BY <1>3, <1>4, <2>1, <2>2, FailKeeps DEF Statuses
<1>5. CASE Empty \in Range(entry) /\ Fail("INVALID_ARGUMENT")
  <2>1. ~IsAutomaton
    BY <1>3, <1>5, RowsOfAutomaton
  <2>2. FaultNamed'
    BY <1>5, InvalidNamed DEF Fail
  <2>. QED
    BY <1>3, <1>5, <2>1, <2>2, FailKeeps DEF Statuses
<1>6. CASE /\ Range(entry) \cap {NotString, Empty} = {}
           /\ builder' = [builder EXCEPT ![table] = Append(@, entry)]
           /\ row' = row + 1
           /\ UNCHANGED <<graph, stage, status, automaton, columns, changes>>
  <2>1. Reads'
    BY <1>1, <1>2, <1>3, <1>6, ReadsMore
  <2>2. builder'[table] = Append(builder[table], entry)
        /\ \A q \in Range(Queries) \ {table} : builder'[q] = builder[q]
    BY <1>3, <1>6 DEF LoaderInv, Reads
  <2>3. Range(builder'[table]) \subseteq Range(builder[table]) \cup {entry}
    <3>1. PICK b \in Seq(Range(graph[table])) : b = builder[table]
      BY <1>3
    <3>2. PICK t : t = Append(b, entry)
      OBVIOUS
    <3>3. /\ DOMAIN t = 1 .. Len(b) + 1 /\ DOMAIN b = 1 .. Len(b) /\ Len(b) \in Nat
          /\ \A m \in 1 .. Len(b) : t[m] = b[m]
          /\ t[Len(b) + 1] = entry
      BY <1>3, <3>2
    <3>4. \A m \in DOMAIN t : m \in DOMAIN b \/ m = Len(b) + 1
      BY <3>3
    <3>5. Range(t) \subseteq Range(b) \cup {entry}
      BY <3>3, <3>4 DEF Range
    <3>. QED
      BY <2>2, <3>1, <3>2, <3>5
  <2>4. \A d \in Domains : builder'[d] = builder[d]
    BY <2>2, QueryRange, <1>1
  <2>5. ASSUME NEW other \in Tables, NEW e \in Range(builder'[other])
        PROVE  Range(e) \cap {Empty, NotString} = {}
    <3>1. other \in Range(Queries)
      BY QueryRange
    <3>2. e \in Range(builder[other]) \/ e = entry
      BY <2>2, <2>3, <3>1
    <3>. QED
      BY <1>6, <3>2 DEF LoaderInv, Clean
  <2>6. Clean'
    BY <2>4, <2>5 DEF LoaderInv, Clean
  <2>. QED
    BY <1>3, <1>6, <2>1, <2>6, GoesOn
<1>. QED
  BY <1>1, <1>2, <1>4, <1>5, <1>6 DEF LoadEntry

\* When the rows of a query are read, all of them are in the builder.
LEMMA NextQueryKeeps ==
  ASSUME LoaderInv, NextQuery
  PROVE  LoaderInv'
<1>1. /\ stage \in 1 .. 5 /\ row - 1 = Len(graph[Query]) /\ Query = Queries[stage]
      /\ row \in Nat \ {0} /\ status = "NONE" /\ graph \in Graphs
  BY AtRow DEF NextQuery, Loading, LoaderInv, Reads
<1>2. /\ stage' = stage + 1 /\ row' = 1
      /\ UNCHANGED <<graph, builder, status, automaton, columns, changes>>
  BY DEF NextQuery
<1>3. ASSUME NEW n \in 1 .. 5
      PROVE  Consumed(n)' = Consumed(n)
  <2>1. CASE n < stage
    BY <1>1, <1>2, <2>1 DEF Consumed
  <2>2. CASE n = stage
    BY <1>1, <1>2, <2>2 DEF Consumed
  <2>3. CASE n > stage
    BY <1>1, <1>2, <2>3 DEF Consumed
  <2>. QED
    BY <1>1, <2>1, <2>2, <2>3
<1>4. \A n \in 1 .. 5 : Prefix(Queries[n], Consumed(n))'
  BY <1>2, <1>3 DEF LoaderInv, Reads, Prefix
<1>5. Loading' => row' <= Len(graph'[Query']) + 1
  <2>1. ASSUME Loading'
        PROVE  row' <= Len(graph'[Query']) + 1
    <3>1. stage' \in 1 .. 5
      BY <2>1, QueryNames DEF Loading
    <3>2. Query' \in Range(Queries)
      BY <3>1, QueryRange DEF Query
    <3>3. Len(graph[Query']) \in Nat
      BY <1>1, <3>2, GraphRows
    <3>. QED
      BY <1>2, <3>3
  <2>. QED
    BY <2>1
<1>6. Reads'
  BY <1>1, <1>2, <1>4, <1>5 DEF LoaderInv, Reads
<1>7. Clean'
  BY <1>2 DEF LoaderInv, Clean
<1>. QED
  BY <1>1, <1>2, <1>6, <1>7, GoesOn

-----------------------------------------------------------------------------
(* The automaton is built. *)

\* When all queries are read, the builder holds the graph.
LEMMA AllRead ==
  ASSUME LoaderInv, stage = 6
  PROVE  \A q \in Range(Queries) : builder[q] = graph[q]
<1>1. TAKE q \in Range(Queries)
<1>2. PICK n \in 1 .. 5 : Queries[n] = q
  BY QueryPlace
<1>3. graph[q] \in Seq(Range(graph[q]))
  BY GraphRows DEF LoaderInv, Reads
<1>4. Consumed(n) = Len(graph[q])
  BY <1>2 DEF Consumed
<1>5. Prefix(q, Len(graph[q]))
  BY <1>2, <1>4 DEF LoaderInv, Reads
<1>. QED
  BY <1>3, <1>5, SameElements DEF Prefix

\* A set of numbers has a least one.
LEMMA LeastOne ==
  ASSUME NEW S \in SUBSET Nat, S # {}
  PROVE  \E m \in S : \A k \in S : m <= k
<1>1. PICK m \in S : \A k \in Nat : <<k, m>> \in OpToRel(<, Nat) => k \notin S
  BY WFMin, NatLessThanWellFounded
<1>2. \A k \in Nat : k < m => k \notin S
  BY <1>1 DEF OpToRel
<1>. QED
  BY <1>2

\* Entries that are known, and those that repeat the cell of an earlier one.
LEMMA FaultKind ==
  ASSUME LoaderInv, stage = 6, NEW table \in Tables
  PROVE  LET rows == graph[table]
         IN \/ Fault(table) = "OK" /\ Bad(table) = {}
            \/ /\ Fault(table) = "NOT_FOUND"
               /\ \E n \in DOMAIN rows : ~Known(table, rows[n])
            \/ /\ Fault(table) = "DUPLICATE"
               /\ \E m, n \in DOMAIN rows : m # n /\ rows[m] = rows[n]
            \/ /\ Fault(table) = "NONDETERMINISTIC"
               /\ \E m, n \in DOMAIN rows : CellOf(rows[m]) = CellOf(rows[n]) /\ rows[m] # rows[n]
<1> DEFINE rows == graph[table]
<1>1. builder[table] = rows /\ rows \in Seq(Range(rows))
  BY AllRead, QueryRange, GraphRows DEF LoaderInv, Reads
<1>2. DOMAIN rows = 1 .. Len(rows) /\ Len(rows) \in Nat
  BY <1>1
<1>3. CASE Bad(table) = {}
  BY <1>3 DEF Fault
<1>4. CASE Bad(table) # {}
  <2>1. Bad(table) \subseteq 1 .. Len(rows)
    BY <1>1, <1>2 DEF Bad
  <2>2. \E m \in Bad(table) : \A k \in Bad(table) : m <= k
    BY <1>4, <2>1, LeastOne
  <2>3. PICK n : n = CHOOSE m \in Bad(table) : \A k \in Bad(table) : m <= k
    OBVIOUS
  <2>4. n \in Bad(table)
    BY <2>2, <2>3
  <2>5. Fault(table) = IF ~Known(table, rows[n]) THEN "NOT_FOUND"
                       ELSE IF \E m \in 1 .. n - 1 : rows[m] = rows[n]
                            THEN "DUPLICATE" ELSE "NONDETERMINISTIC"
    BY <1>1, <1>4, <2>3 DEF Fault
  <2>6. n \in 1 .. Len(rows) /\ \A m \in 1 .. n - 1 : m \in 1 .. Len(rows) /\ m # n
    BY <1>2, <2>1, <2>4
  <2>7. CASE ~Known(table, rows[n])
    BY <1>2, <2>5, <2>6, <2>7
  <2>8. CASE Known(table, rows[n])
    <3>1. PICK m \in 1 .. n - 1 : CellOf(rows[m]) = CellOf(rows[n])
      BY <1>1, <2>4, <2>8 DEF Bad, Contested
    <3>2. CASE \E k \in 1 .. n - 1 : rows[k] = rows[n]
      BY <1>2, <2>5, <2>6, <2>8, <3>2
    <3>3. CASE ~\E k \in 1 .. n - 1 : rows[k] = rows[n]
      <4>1. rows[m] # rows[n] /\ m \in DOMAIN rows /\ n \in DOMAIN rows
        BY <1>2, <2>6, <3>1, <3>3
      <4>. QED
        BY <2>5, <2>8, <3>1, <3>3, <4>1
    <3>. QED
      BY <3>2, <3>3
  <2>. QED
    BY <2>7, <2>8
<1>. QED
  BY <1>3, <1>4

\* What Known says of an entry of the graph.
LEMMA KnownNames ==
  ASSUME LoaderInv, stage = 6, NEW table \in Tables, NEW entry \in Range(graph[table])
  PROVE  Known(table, entry) <=>
           CellOf(entry) \in GraphCells /\ entry[3] \in GraphValues(table)
<1>1. /\ builder.states = graph.states /\ builder.actions = graph.actions
      /\ builder.outputs = graph.outputs
  BY AllRead, QueryRange
<1>2. CellOf(entry) = <<entry[1], entry[2]>>
  BY GraphRows DEF LoaderInv, Reads
<1>3. Range(Named(table)) = GraphValues(table)
  BY <1>1 DEF Named, GraphValues
<1>. QED
  BY <1>1, <1>2, <1>3 DEF Known, GraphCells

\* No entry is bad and no cell is left out when the tables are filled.
LEMMA FilledWhenGood ==
  ASSUME LoaderInv, stage = 6,
         \A table \in Tables : Bad(table) = {}, Uncovered = {}
  PROVE  \A table \in Tables :
           /\ CellsFilled(graph[table], GraphCells)
           /\ \A entry \in Range(graph[table]) : entry[3] \in GraphValues(table)
<1>1. TAKE table \in Tables
<1> DEFINE rows == graph[table]
<1>2. \A t \in Tables : builder[t] = graph[t]
  BY AllRead, QueryRange
<1>3. builder.states = graph.states /\ builder.actions = graph.actions
  BY AllRead, QueryRange
<1>4. DOMAIN rows = 1 .. Len(rows) /\ Len(rows) \in Nat
  <2>1. rows \in Seq(Range(rows))
    BY QueryRange, GraphRows DEF LoaderInv, Reads
  <2>. QED
    BY <2>1
<1>5. ASSUME NEW n \in DOMAIN rows
      PROVE  /\ CellOf(rows[n]) \in GraphCells /\ rows[n][3] \in GraphValues(table)
             /\ ~Contested(table, n)
  <2>1. Known(table, rows[n]) /\ ~Contested(table, n)
    BY <1>2 DEF Bad
  <2>2. rows[n] \in Range(rows)
    BY DEF Range
  <2>. QED
    BY <2>1, <2>2, KnownNames
<1>6. ASSUME NEW m \in DOMAIN rows, NEW n \in DOMAIN rows, CellOf(rows[m]) = CellOf(rows[n])
      PROVE  m = n
  <2>1. ~(m < n) /\ ~(n < m)
    <3>1. \A k \in 1 .. n - 1 : CellOf(rows[k]) # CellOf(rows[n])
      BY <1>2, <1>5 DEF Contested
    <3>2. \A k \in 1 .. m - 1 : CellOf(rows[k]) # CellOf(rows[m])
      BY <1>2, <1>5 DEF Contested
    <3>3. m < n => m \in 1 .. n - 1
      BY <1>4
    <3>4. n < m => n \in 1 .. m - 1
      BY <1>4
    <3>. QED
      BY <1>6, <3>1, <3>2, <3>3, <3>4
  <2>. QED
    BY <1>4, <2>1
<1>7. ASSUME NEW c \in GraphCells
      PROVE  \E n \in DOMAIN rows : CellOf(rows[n]) = c
  BY <1>2, <1>3 DEF Uncovered, GraphCells
<1>8. CellsFilled(rows, GraphCells)
  BY <1>5, <1>6, <1>7 DEF CellsFilled
<1>9. \A entry \in Range(rows) : entry[3] \in GraphValues(table)
  BY <1>5 DEF Range
<1>. QED
  BY <1>8, <1>9

\* What a verdict stands for, when all rows are read.
LEMMA VerdictKind ==
  ASSUME LoaderInv, stage = 6
  PROVE  \/ Verdict = "OK" /\ IsAutomaton
         \/ /\ Verdict = "NOT_FOUND"
            /\ \E table \in Tables : \E entry \in Range(graph[table]) : ~Known(table, entry)
         \/ /\ Verdict = "DUPLICATE"
            /\ \E table \in Tables : ~IsInjective(graph[table])
         \/ /\ Verdict = "NONDETERMINISTIC"
            /\ \E table \in Tables : \E m, n \in DOMAIN graph[table] :
                 /\ CellOf(graph[table][m]) = CellOf(graph[table][n])
                 /\ graph[table][m] # graph[table][n]
         \/ /\ Verdict = "INCOMPLETE"
            /\ \/ \E d \in Domains : graph[d] = <<>>
               \/ \E s \in Range(graph.states), a \in Range(graph.actions), table \in Tables :
                    Rows(table, s, a) = {}
<1>1. \A q \in Range(Queries) : builder[q] = graph[q]
  BY AllRead
<1>2. \A d \in Domains : builder[d] = graph[d]
  BY <1>1, QueryRange
<1>3. CASE \E d \in Domains : builder[d] = <<>>
  <2>1. Verdict = "INCOMPLETE"
    BY <1>3 DEF Verdict
  <2>. QED
    BY <1>2, <1>3, <2>1
<1>4. CASE ~\E d \in Domains : builder[d] = <<>>
  <2>1. Verdict = IF Fault("transitions") # "OK" THEN Fault("transitions")
                  ELSE IF Fault("observations") # "OK" THEN Fault("observations")
                  ELSE IF Uncovered # {} THEN "INCOMPLETE" ELSE "OK"
    BY <1>4 DEF Verdict
  <2>2. ASSUME NEW table \in Tables, Verdict = Fault(table), Fault(table) # "OK"
        PROVE  \/ /\ Verdict = "NOT_FOUND"
                  /\ \E t \in Tables : \E entry \in Range(graph[t]) : ~Known(t, entry)
               \/ /\ Verdict = "DUPLICATE"
                  /\ \E t \in Tables : ~IsInjective(graph[t])
               \/ /\ Verdict = "NONDETERMINISTIC"
                  /\ \E t \in Tables : \E m, n \in DOMAIN graph[t] :
                       /\ CellOf(graph[t][m]) = CellOf(graph[t][n])
                       /\ graph[t][m] # graph[t][n]
    <3>1. CASE /\ Fault(table) = "NOT_FOUND"
               /\ \E n \in DOMAIN graph[table] : ~Known(table, graph[table][n])
      BY <2>2, <3>1 DEF Range
    <3>2. CASE /\ Fault(table) = "DUPLICATE"
               /\ \E m, n \in DOMAIN graph[table] :
                    m # n /\ graph[table][m] = graph[table][n]
      BY <2>2, <3>2 DEF IsInjective
    <3>3. CASE /\ Fault(table) = "NONDETERMINISTIC"
               /\ \E m, n \in DOMAIN graph[table] :
                    CellOf(graph[table][m]) = CellOf(graph[table][n])
                    /\ graph[table][m] # graph[table][n]
      BY <2>2, <3>3
    <3>. QED
      BY <2>2, <3>1, <3>2, <3>3, FaultKind
  <2>3. CASE Fault("transitions") # "OK"
    BY <2>1, <2>2, <2>3 DEF Tables
  <2>4. CASE Fault("transitions") = "OK" /\ Fault("observations") # "OK"
    BY <2>1, <2>2, <2>4 DEF Tables
  <2>5. CASE Fault("transitions") = "OK" /\ Fault("observations") = "OK" /\ Uncovered # {}
    <3>1. Verdict = "INCOMPLETE"
      BY <2>1, <2>5
    <3>2. PICK c \in Range(graph.states) \X Range(graph.actions), table \in Tables :
            \A n \in DOMAIN graph[table] : CellOf(graph[table][n]) # c
      BY <1>1, <2>5, QueryRange DEF Uncovered, Domains
    <3>3. c[1] \in Range(graph.states) /\ c[2] \in Range(graph.actions) /\ c = <<c[1], c[2]>>
      BY <3>2
    <3>4. Rows(table, c[1], c[2]) = {}
      BY <3>2, <3>3 DEF Rows
    <3>. QED
      BY <3>1, <3>3, <3>4
  <2>6. CASE Fault("transitions") = "OK" /\ Fault("observations") = "OK" /\ Uncovered = {}
    <3>1. Verdict = "OK"
      BY <2>1, <2>6
    <3>2. \A table \in Tables : Fault(table) = "OK"
      BY <2>6 DEF Tables
    <3>3. \A table \in Tables : Bad(table) = {}
      BY <3>2, FaultKind
    <3>4. \A table \in Tables :
            /\ CellsFilled(graph[table], GraphCells)
            /\ \A entry \in Range(graph[table]) : entry[3] \in GraphValues(table)
      BY <2>6, <3>3, FilledWhenGood
    <3>5. \A d \in Domains : /\ graph[d] # <<>> /\ IsInjective(graph[d])
                             /\ Range(graph[d]) \cap {Empty, NotString} = {}
      BY <1>2, <1>4 DEF LoaderInv, Clean
    <3>6. IsAutomaton
      BY <3>4, <3>5, AutomatonByRows DEF LoaderInv, Reads
    <3>. QED
      BY <3>1, <3>6
  <2>. QED
    BY <2>3, <2>4, <2>5, <2>6
<1>. QED
  BY <1>3, <1>4

\* No automaton is refused.
LEMMA RefuseKeeps ==
  ASSUME LoaderInv, Refuse
  PROVE  LoaderInv'
<1>1. stage = 6 /\ status = "NONE" /\ Verdict # "OK" /\ Fail(Verdict) /\ graph \in Graphs
  BY QueryNames DEF Refuse, LoaderInv, Reads
<1>2. status' = Verdict /\ graph' = graph
  BY <1>1 DEF Fail
<1>3. CASE /\ Verdict = "NOT_FOUND"
           /\ \E table \in Tables : \E entry \in Range(graph[table]) : ~Known(table, entry)
  <2>1. PICK table \in Tables : \E n \in DOMAIN graph[table] : ~Known(table, graph[table][n])
    BY <1>3 DEF Range
  <2>2. ~IsAutomaton
    <3>1. PICK n \in DOMAIN graph[table] : ~Known(table, graph[table][n])
      BY <2>1
    <3>2. graph[table][n] \in Range(graph[table])
      BY DEF Range
    <3>. QED
      BY <1>1, <3>1, <3>2, AutomatonByRows, KnownNames DEF CellsFilled
  <2>3. FaultNamed'
    BY <1>2, <1>3, InvalidNamed
  <2>. QED
    BY <1>1, <1>3, <2>2, <2>3, FailKeeps DEF Statuses
<1>4. CASE /\ Verdict = "DUPLICATE"
           /\ \E table \in Tables : ~IsInjective(graph[table])
  <2>1. PICK table \in Tables : ~IsInjective(graph[table])
    BY <1>4
  <2>2. ~CellsFilled(graph[table], GraphCells)
    BY <2>1 DEF IsInjective, CellsFilled
  <2>3. ~IsAutomaton
    BY <1>1, <2>2, AutomatonByRows
  <2>4. FaultNamed'
    BY <1>2, <1>4 DEF FaultNamed
  <2>. QED
    BY <1>1, <1>4, <2>3, <2>4, FailKeeps DEF Statuses
<1>5. CASE /\ Verdict = "NONDETERMINISTIC"
           /\ \E table \in Tables : \E m, n \in DOMAIN graph[table] :
                /\ CellOf(graph[table][m]) = CellOf(graph[table][n])
                /\ graph[table][m] # graph[table][n]
  <2>1. PICK table \in Tables : \E m, n \in DOMAIN graph[table] :
          /\ CellOf(graph[table][m]) = CellOf(graph[table][n])
          /\ graph[table][m] # graph[table][n]
    BY <1>5
  <2>2. ~CellsFilled(graph[table], GraphCells)
    BY <2>1 DEF CellsFilled
  <2>3. ~IsAutomaton
    BY <1>1, <2>2, AutomatonByRows
  <2>4. FaultNamed'
    BY <1>2, <1>5 DEF FaultNamed
  <2>. QED
    BY <1>1, <1>5, <2>3, <2>4, FailKeeps DEF Statuses
<1>6. CASE /\ Verdict = "INCOMPLETE"
           /\ \/ \E d \in Domains : graph[d] = <<>>
              \/ \E s \in Range(graph.states), a \in Range(graph.actions), table \in Tables :
                   Rows(table, s, a) = {}
  <2>1. ~IsAutomaton
    <3>1. CASE \E d \in Domains : graph[d] = <<>>
      BY <1>1, <3>1, AutomatonByRows
    <3>2. CASE \E s \in Range(graph.states), a \in Range(graph.actions), table \in Tables :
                 Rows(table, s, a) = {}
      <4>1. PICK s \in Range(graph.states), a \in Range(graph.actions), table \in Tables :
              Rows(table, s, a) = {}
        BY <3>2
      <4>2. <<s, a>> \in GraphCells /\ \A n \in DOMAIN graph[table] : CellOf(graph[table][n]) # <<s, a>>
        BY <4>1 DEF GraphCells, Rows
      <4>3. ~CellsFilled(graph[table], GraphCells)
        BY <4>2 DEF CellsFilled
      <4>. QED
        BY <1>1, <4>3, AutomatonByRows
    <3>. QED
      BY <1>6, <3>1, <3>2
  <2>2. FaultNamed'
    BY <1>2, <1>6 DEF FaultNamed, Rows
  <2>. QED
    BY <1>1, <1>6, <2>1, <2>2, FailKeeps DEF Statuses
<1>. QED
  BY <1>1, <1>3, <1>4, <1>5, <1>6, VerdictKind

\* The index of a key finds the key, and the place of a key is its index.
LEMMA IndexOfKey ==
  ASSUME NEW S, NEW keys \in Seq(S), NEW key \in Range(keys)
  PROVE  /\ IndexOf(keys, key) \in Indices(keys)
         /\ keys[1 + IndexOf(keys, key)] = key
<1>1. PICK n : n = CHOOSE m \in DOMAIN keys : keys[m] = key
  OBVIOUS
<1>2. n \in DOMAIN keys /\ keys[n] = key
  BY <1>1 DEF Range
<1>3. n \in 1 .. Len(keys) /\ IndexOf(keys, key) = n - 1 /\ Len(keys) \in Nat
  BY <1>1, <1>2 DEF IndexOf
<1>4. 1 + (n - 1) = n /\ n - 1 \in 0 .. Len(keys) - 1
  BY <1>3
<1>. QED
  BY <1>2, <1>3, <1>4 DEF Indices

\* An index stands for a key.
LEMMA KeyOfIndex ==
  ASSUME NEW S, NEW keys \in Seq(S), NEW i \in Indices(keys)
  PROVE  keys[i + 1] \in Range(keys)
<1>1. i + 1 \in 1 .. Len(keys)
  BY DEF Indices
<1>. QED
  BY <1>1 DEF Range

\* The builder of an automaton, and what it names.
LEMMA BuiltKeys ==
  ASSUME LoaderInv, stage = 6
  PROVE  /\ \A d \in Domains : builder[d] = graph[d] /\ graph[d] \in Seq(Range(graph[d]))
                               /\ IsInjective(graph[d])
         /\ \A table \in Tables : /\ builder[table] = graph[table]
                                  /\ graph[table] \in Seq(Range(graph[table]))
                                  /\ Named(table) \in Seq(Range(Named(table)))
                                  /\ Range(Named(table)) = GraphValues(table)
<1>1. \A q \in Range(Queries) : builder[q] = graph[q] /\ graph[q] \in Seq(Range(graph[q]))
  BY AllRead, GraphRows DEF LoaderInv, Reads
<1>2. \A d \in Domains : builder[d] = graph[d] /\ graph[d] \in Seq(Range(graph[d]))
  BY <1>1, QueryRange
<1>3. \A d \in Domains : IsInjective(graph[d])
  BY <1>2 DEF LoaderInv, Clean
<1>4. \A table \in Tables : builder[table] = graph[table] /\ graph[table] \in Seq(Range(graph[table]))
  BY <1>1, QueryRange
<1>5. ASSUME NEW table \in Tables
      PROVE  /\ Named(table) \in Seq(Range(Named(table)))
             /\ Range(Named(table)) = GraphValues(table)
  BY <1>2 DEF Named, GraphValues, Domains
<1>. QED
  BY <1>2, <1>3, <1>4, <1>5

\* The row of a cell is its value.
LEMMA ResolvedRow ==
  ASSUME LoaderInv, stage = 6, IsAutomaton, NEW table \in Tables,
         NEW n \in DOMAIN graph[table], NEW i \in Indices(builder.states),
         NEW j \in Indices(builder.actions),
         CellOf(graph[table][n]) = <<builder.states[i + 1], builder.actions[j + 1]>>
  PROVE  /\ Resolved(table)[<<i, j>>] = IndexOf(Named(table), graph[table][n][3])
         /\ graph[table][n][3] \in Range(Named(table))
<1> DEFINE rows == graph[table]
           cell == <<builder.states[i + 1], builder.actions[j + 1]>>
<1>1. graph \in Graphs /\ builder[table] = rows
  BY BuiltKeys DEF LoaderInv, Reads
<1>2. <<i, j>> \in CellsOf(builder)
  BY DEF CellsOf
<1>3. PICK k : k = CHOOSE m \in DOMAIN rows : CellOf(rows[m]) = cell
  OBVIOUS
<1>4. k \in DOMAIN rows /\ CellOf(rows[k]) = cell
  BY <1>3
<1>5. k = n
  BY <1>1, <1>4, AutomatonByRows DEF CellsFilled
<1>6. Resolved(table)[<<i, j>>] = IndexOf(Named(table), rows[k][3])
  BY <1>1, <1>2, <1>3 DEF Resolved
<1>7. rows[n] \in Range(rows)
  BY DEF Range
<1>8. rows[n][3] \in GraphValues(table)
  BY <1>1, <1>7, RowsOfAutomaton
<1>. QED
  BY <1>5, <1>6, <1>8, BuiltKeys

\* Every cell gets the index of something that is named.
LEMMA ResolvedType ==
  ASSUME LoaderInv, stage = 6, IsAutomaton, NEW table \in Tables
  PROVE  Resolved(table) \in [CellsOf(builder) -> Indices(Named(table))]
<1>1. graph \in Graphs
  BY DEF LoaderInv, Reads
<1>2. ASSUME NEW c \in CellsOf(builder)
      PROVE  Resolved(table)[c] \in Indices(Named(table))
  <2>1. PICK i \in Indices(builder.states), j \in Indices(builder.actions) : c = <<i, j>>
    BY <1>2 DEF CellsOf
  <2>2. /\ builder.states[i + 1] \in Range(graph.states)
        /\ builder.actions[j + 1] \in Range(graph.actions)
    BY BuiltKeys, KeyOfIndex DEF Domains
  <2>3. <<builder.states[i + 1], builder.actions[j + 1]>> \in GraphCells
    BY <2>2 DEF GraphCells
  <2>4. PICK n \in DOMAIN graph[table] :
          CellOf(graph[table][n]) = <<builder.states[i + 1], builder.actions[j + 1]>>
    BY <1>1, <2>3, AutomatonByRows DEF CellsFilled
  <2>5. /\ Resolved(table)[<<i, j>>] = IndexOf(Named(table), graph[table][n][3])
        /\ graph[table][n][3] \in Range(Named(table))
    BY <2>4, ResolvedRow
  <2>. QED
    BY <2>1, <2>5, BuiltKeys, IndexOfKey
<1>3. Resolved(table) = [c \in CellsOf(builder) |-> Resolved(table)[c]]
  BY DEF Resolved
<1>. QED
  BY <1>2, <1>3

\* What is built is an automaton with the keys and entries of the graph.
LEMMA BuildKeeps ==
  ASSUME LoaderInv, Build
  PROVE  LoaderInv'
<1>1. stage = 6 /\ status = "NONE" /\ columns = <<>> /\ IsAutomaton
  BY QueryNames, VerdictKind DEF Build, LoaderInv, Reads, Builds
<1>2. /\ automaton' = [states |-> builder.states, actions |-> builder.actions,
                       outputs |-> builder.outputs, delta |-> Resolved("transitions"),
                       eta |-> Resolved("observations")]
      /\ status' = "OK"
      /\ UNCHANGED <<graph, stage, row, builder, columns, changes>>
  BY DEF Build
<1>3. Reads'
  BY <1>1, <1>2, QueryNames DEF LoaderInv, Reads, Consumed, Prefix, Loading, Query
<1>4. Clean'
  BY <1>2 DEF LoaderInv, Clean
<1>5. /\ Resolved("transitions") \in [CellsOf(builder) -> Indices(builder.states)]
      /\ Resolved("observations") \in [CellsOf(builder) -> Indices(builder.outputs)]
  <2>1. "transitions" \in Tables /\ "observations" \in Tables
    BY DEF Tables
  <2>2. Named("transitions") = builder.states /\ Named("observations") = builder.outputs
    BY DEF Named
  <2>. QED
    BY <1>1, <2>1, <2>2, ResolvedType
<1>6. Resolved("transitions")' = Resolved("transitions")
      /\ Resolved("observations")' = Resolved("observations")
  BY <1>2 DEF Resolved, Named
<1>7. CellsOf(automaton') = CellsOf(builder) /\ automaton'.states = builder.states
      /\ automaton'.outputs = builder.outputs
  BY <1>2 DEF CellsOf
<1>8. Builds'
  BY <1>1, <1>2, <1>5, <1>6, <1>7 DEF Builds
<1>9. ColumnsMatch'
  BY <1>1, <1>2 DEF ColumnsMatch
<1>10. AcceptsAutomata' /\ FaultNamed'
  BY <1>1, <1>2, SameGraph, InvalidNamed DEF AcceptsAutomata
<1>. QED
  BY <1>2, <1>3, <1>4, <1>8, <1>9, <1>10 DEF LoaderInv, Statuses

-----------------------------------------------------------------------------
(* Snapshots. *)

\* A call that has succeeded only changes the automaton from then on.
LEMMA AfterBuild ==
  ASSUME LoaderInv, status = "OK", Builds', ColumnsMatch',
         UNCHANGED <<graph, stage, row, builder, status>>, changes' \in 0 .. MaxChanges
  PROVE  LoaderInv'
<1>1. Reads'
  BY DEF LoaderInv, Reads, Consumed, Prefix, Loading, Query
<1>2. Clean'
  BY DEF LoaderInv, Clean
<1>3. AcceptsAutomata' /\ FaultNamed'
  BY SameGraph, InvalidNamed DEF LoaderInv, AcceptsAutomata
<1>. QED
  BY <1>1, <1>2, <1>3 DEF LoaderInv

\* The first snapshot has the columns of the automaton.
LEMMA SnapshotKeeps ==
  ASSUME LoaderInv, Snapshot
  PROVE  LoaderInv'
<1>1. /\ status = "OK"
      /\ columns' = [c \in Sides |->
           {s \in Indices(automaton.states) : automaton.delta[<<s, c[1]>>] = c[2]}]
      /\ UNCHANGED <<graph, stage, row, builder, status, automaton, changes>>
  BY DEF Snapshot
<1>2. Builds'
  <2>1. Resolved("transitions")' = Resolved("transitions")
        /\ Resolved("observations")' = Resolved("observations")
    BY <1>1 DEF Resolved, Named
  <2>. QED
    BY <1>1, <2>1 DEF LoaderInv, Builds
<1>3. ColumnsMatch'
  BY <1>1 DEF ColumnsMatch, ColumnsOf, Sides
<1>4. changes' \in 0 .. MaxChanges
  BY <1>1 DEF LoaderInv
<1>. QED
  BY <1>1, <1>2, <1>3, <1>4, AfterBuild

\* A state that changes its cell leaves one column and enters another.
LEMMA MovedMatches ==
  ASSUME ColumnsMatch, columns # <<>>, NEW s \in Indices(automaton.states),
         NEW a \in Indices(automaton.actions), NEW new \in Indices(automaton.states),
         NEW delta, delta = [automaton.delta EXCEPT ![<<s, a>>] = new],
         automaton.delta \in [CellsOf(automaton) -> Indices(automaton.states)],
         automaton.delta[<<s, a>>] # new
  PROVE  Moved(s, a, automaton.delta[<<s, a>>], new) = ColumnsOf(delta)
<1> DEFINE I == Indices(automaton.states)
           old == automaton.delta[<<s, a>>]
           Column(c) == {t \in I : automaton.delta[<<t, c[1]>>] = c[2]}
           After(c) == {t \in I : delta[<<t, c[1]>>] = c[2]}
<1>1. old \in I /\ <<s, a>> \in CellsOf(automaton) /\ old # new
  BY DEF CellsOf
<1>2. columns = [c \in Sides |-> Column(c)]
  BY DEF ColumnsMatch, ColumnsOf
<1>3. <<a, old>> \in Sides /\ <<a, new>> \in Sides /\ <<a, old>> # <<a, new>>
  BY <1>1 DEF Sides
<1>4. \A t \in I, b \in Indices(automaton.actions) :
        delta[<<t, b>>] = IF t = s /\ b = a THEN new ELSE automaton.delta[<<t, b>>]
  BY <1>1 DEF CellsOf
<1>5. \A c \in Sides : c = <<c[1], c[2]>> /\ c[1] \in Indices(automaton.actions) /\ c[2] \in I
  BY DEF Sides
<1>6. PICK m : m = Moved(s, a, old, new)
  OBVIOUS
<1>7. /\ m = [c \in Sides |-> m[c]]
      /\ m[<<a, old>>] = Column(<<a, old>>) \ {s}
      /\ m[<<a, new>>] = Column(<<a, new>>) \cup {s}
      /\ \A c \in Sides \ {<<a, old>>, <<a, new>>} : m[c] = Column(c)
  <2>1. m = [columns EXCEPT ![<<a, old>>] = @ \ {s}, ![<<a, new>>] = @ \cup {s}]
    BY <1>6 DEF Moved
  <2> HIDE DEF old, Column
  <2>. QED
    BY <1>2, <1>3, <2>1
<1>8. After(<<a, old>>) = Column(<<a, old>>) \ {s}
  BY <1>1, <1>4
<1>9. After(<<a, new>>) = Column(<<a, new>>) \cup {s}
  BY <1>1, <1>4
<1>10. ASSUME NEW c \in Sides \ {<<a, old>>, <<a, new>>}
       PROVE  After(c) = Column(c)
  <2>1. c[1] # a \/ (c[2] # old /\ c[2] # new)
    BY <1>5
  <2>2. \A t \in I : delta[<<t, c[1]>>] = c[2] <=> automaton.delta[<<t, c[1]>>] = c[2]
    BY <1>4, <1>5, <2>1
  <2>. QED
    BY <2>2
<1>11. \A c \in Sides : m[c] = After(c)
  <2>1. TAKE c \in Sides
  <2>2. CASE c = <<a, old>>
    <3> HIDE DEF After, Column, old
    <3>. QED
      BY <1>7, <1>8, <2>2
  <2>3. CASE c = <<a, new>>
    <3> HIDE DEF After, Column, old
    <3>. QED
      BY <1>7, <1>9, <2>3
  <2>4. CASE c \notin {<<a, old>>, <<a, new>>}
    <3> HIDE DEF After, Column, old
    <3>. QED
      BY <1>7, <1>10, <2>4
  <2>. QED
    BY <2>2, <2>3, <2>4
<1> HIDE DEF old, After
<1>12. m = [c \in Sides |-> After(c)]
  BY <1>7, <1>11
<1>. QED
  BY <1>6, <1>12 DEF old, After, ColumnsOf

\* A cell that is set keeps the types, and the columns with the cells.
LEMMA SetCellKeeps ==
  ASSUME LoaderInv, NEW c \in CellsOf(automaton), NEW x \in Indices(automaton.states),
         NEW o \in Indices(automaton.outputs), SetCell(c[1], c[2], x, o)
  PROVE  LoaderInv'
<1>1. PICK s \in Indices(automaton.states), a \in Indices(automaton.actions) : c = <<s, a>>
  BY DEF CellsOf
<1>2. /\ columns # <<>> /\ changes < MaxChanges
      /\ automaton' = [automaton EXCEPT !.delta[c] = x, !.eta[c] = o]
      /\ columns' = IF automaton.delta[c] = x THEN columns
                    ELSE Moved(s, a, automaton.delta[c], x)
      /\ changes' = changes + 1
      /\ UNCHANGED <<graph, stage, row, builder, status>>
  BY <1>1 DEF SetCell
<1>3. /\ status = "OK" /\ stage = 6
      /\ automaton = [states |-> builder.states, actions |-> builder.actions,
                      outputs |-> builder.outputs, delta |-> automaton.delta,
                      eta |-> automaton.eta]
      /\ automaton.delta \in [CellsOf(automaton) -> Indices(automaton.states)]
      /\ automaton.eta \in [CellsOf(automaton) -> Indices(automaton.outputs)]
  BY <1>2 DEF LoaderInv, Builds, ColumnsMatch
<1>4. PICK delta, eta : /\ delta = [automaton.delta EXCEPT ![c] = x]
                        /\ eta = [automaton.eta EXCEPT ![c] = o]
  OBVIOUS
<1>5. automaton' = [states |-> builder.states, actions |-> builder.actions,
                    outputs |-> builder.outputs, delta |-> delta, eta |-> eta]
  <2>1. PICK oldDelta, oldEta : oldDelta = automaton.delta /\ oldEta = automaton.eta
    OBVIOUS
  <2>2. PICK before : before = [states |-> builder.states, actions |-> builder.actions,
                                outputs |-> builder.outputs, delta |-> oldDelta,
                                eta |-> oldEta]
    OBVIOUS
  <2>3. automaton = before
    BY <1>3, <2>1, <2>2
  <2>4. automaton' = [before EXCEPT !.delta[c] = x, !.eta[c] = o]
    BY <1>2, <2>3
  <2>5. before.delta = oldDelta /\ before.eta = oldEta
    BY <2>2
  <2>6. delta = [oldDelta EXCEPT ![c] = x] /\ eta = [oldEta EXCEPT ![c] = o]
    BY <1>4, <2>1
  <2>. QED
    BY <2>2, <2>4, <2>5, <2>6
<1>6. /\ automaton'.states = automaton.states /\ automaton'.actions = automaton.actions
      /\ automaton'.outputs = automaton.outputs
      /\ automaton'.delta = delta /\ automaton'.eta = eta
  BY <1>3, <1>5
<1>7. CellsOf(automaton') = CellsOf(automaton) /\ Sides' = Sides
  BY <1>6 DEF CellsOf, Sides
<1>8. /\ delta \in [CellsOf(automaton) -> Indices(automaton.states)]
      /\ eta \in [CellsOf(automaton) -> Indices(automaton.outputs)]
  BY <1>3, <1>4
<1>9. changes \in Nat /\ MaxChanges \in Nat /\ changes' \in 0 .. MaxChanges /\ changes' # 0
  BY <1>2, LoaderAssumption DEF LoaderInv
<1>10. Builds'
  BY <1>2, <1>3, <1>5, <1>6, <1>7, <1>8, <1>9 DEF Builds
<1>11. columns' = ColumnsOf(delta)
  <2>1. CASE automaton.delta[c] = x
    <3>1. delta = automaton.delta
      BY <1>3, <1>4, <2>1
    <3>. QED
      BY <1>2, <2>1, <3>1 DEF LoaderInv, ColumnsMatch
  <2>2. CASE automaton.delta[c] # x
    <3>1. ColumnsMatch /\ columns # <<>> /\ automaton.delta[<<s, a>>] # x
          /\ delta = [automaton.delta EXCEPT ![<<s, a>>] = x]
      BY <1>1, <1>2, <1>4, <2>2 DEF LoaderInv
    <3>2. Moved(s, a, automaton.delta[<<s, a>>], x) = ColumnsOf(delta)
      BY <1>3, <3>1, MovedMatches
    <3>. QED
      BY <1>1, <1>2, <2>2, <3>2
  <2>. QED
    BY <2>1, <2>2
<1>12. ColumnsMatch'
  BY <1>2, <1>3, <1>6, <1>7, <1>11 DEF ColumnsMatch, ColumnsOf
<1>. QED
  BY <1>2, <1>3, <1>9, <1>10, <1>12, AfterBuild

\* Nothing has been read.
LEMMA LoaderStarts == LoaderInit => LoaderInv
<1> SUFFICES ASSUME LoaderInit PROVE LoaderInv
  OBVIOUS
<1>1. /\ graph \in Graphs /\ stage = 1 /\ row = 1 /\ builder = [q \in Range(Queries) |-> <<>>]
      /\ status = "NONE" /\ automaton = <<>> /\ columns = <<>> /\ changes = 0
  BY DEF LoaderInit
<1>2. \A q \in Range(Queries) : builder[q] = <<>>
  BY <1>1
<1>3. \A n \in 1 .. 5 : Consumed(n) = 0
  BY <1>1 DEF Consumed
<1>4. \A n \in 1 .. 5 : Prefix(Queries[n], Consumed(n))
  <2>1. TAKE n \in 1 .. 5
  <2>2. builder[Queries[n]] = <<>> /\ Consumed(n) = 0
    BY <1>2, <1>3, QueryRange
  <2>3. <<>> \in Seq(Range(graph[Queries[n]])) /\ Len(<<>>) = 0 /\ 1 .. 0 = {}
    OBVIOUS
  <2>. QED
    BY <2>2, <2>3 DEF Prefix
<1>5. Reads
  <2>1. Len(graph[Query]) \in Nat
    BY <1>1, QueryNames, QueryRange, GraphRows DEF Query
  <2>. QED
    BY <1>1, <1>4, <2>1 DEF Reads
<1>6. Clean
  <2>1. IsInjective(<<>>) /\ Range(<<>>) = {}
    BY DEF IsInjective, Range
  <2>. QED
    BY <1>2, <2>1, QueryRange DEF Clean
<1>7. Builds /\ ColumnsMatch /\ AcceptsAutomata /\ FaultNamed
  BY <1>1 DEF Builds, ColumnsMatch, AcceptsAutomata, FaultNamed
<1>. QED
  BY <1>1, <1>5, <1>6, <1>7, LoaderAssumption DEF LoaderInv, Statuses

\* Every step keeps the invariant.
LEMMA LoaderKeeps == LoaderInv /\ [LoaderNext]_loaderVars => LoaderInv'
<1> SUFFICES ASSUME LoaderInv, [LoaderNext]_loaderVars PROVE LoaderInv'
  OBVIOUS
<1>1. CASE UNCHANGED loaderVars
  <2>1. UNCHANGED <<graph, stage, row, builder, status, automaton, columns, changes>>
    BY <1>1 DEF loaderVars
  <2>2. Reads' /\ Clean'
    BY <2>1 DEF LoaderInv, Reads, Consumed, Prefix, Loading, Query, Clean
  <2>3. Builds' /\ ColumnsMatch'
    BY <2>1 DEF LoaderInv, Builds, ColumnsMatch, ColumnsOf, Resolved, Named, Sides
  <2>4. AcceptsAutomata'
    BY <2>1, SameGraph DEF LoaderInv, AcceptsAutomata
  <2>5. FaultNamed'
    BY <2>1 DEF LoaderInv, FaultNamed, Rows
  <2>. QED
    BY <2>1, <2>2, <2>3, <2>4, <2>5 DEF LoaderInv
<1>2. CASE LoadKey
  BY <1>2, LoadKeyKeeps
<1>3. CASE LoadEntry
  BY <1>3, LoadEntryKeeps
<1>4. CASE NextQuery
  BY <1>4, NextQueryKeeps
<1>5. CASE Refuse
  BY <1>5, RefuseKeeps
<1>6. CASE Build
  BY <1>6, BuildKeeps
<1>7. CASE Snapshot
  BY <1>7, SnapshotKeeps
<1>8. CASE \E c \in CellsOf(automaton), x \in Indices(automaton.states),
              o \in Indices(automaton.outputs) : SetCell(c[1], c[2], x, o)
  BY <1>8, SetCellKeeps
<1>. QED
  BY <1>1, <1>2, <1>3, <1>4, <1>5, <1>6, <1>7, <1>8 DEF LoaderNext, Returned

\* It always holds.
LEMMA LoaderAlways == LoaderSpec => []LoaderInv
BY LoaderStarts, LoaderKeeps, PTL DEF LoaderSpec

-----------------------------------------------------------------------------
(* What holds of the calls. *)

\* The states of the automaton, and where an action leads one.
StateIndices == Indices(automaton.states)
To(a, s) == automaton.delta[<<s, a>>]

\* An automaton in memory has finitely many states.
LEMMA IndicesFinite ==
  ASSUME LoaderInv, columns # <<>>
  PROVE  StateIndices \in SUBSET Int /\ IsFiniteSet(StateIndices)
<1>1. stage = 6 /\ automaton.states = builder.states
  BY DEF LoaderInv, Builds, ColumnsMatch
<1>2. builder.states = graph.states /\ graph.states \in Seq(Range(graph.states))
  BY <1>1, BuiltKeys DEF Domains
<1>3. Len(automaton.states) \in Nat
  BY <1>1, <1>2
<1>. QED
  BY <1>3, FS_Interval DEF Indices, StateIndices

\* What a column holds.
LEMMA ColumnOf ==
  ASSUME LoaderInv, columns # <<>>, NEW a \in Indices(automaton.actions),
         NEW z \in StateIndices
  PROVE  columns[<<a, z>>] = {s \in StateIndices : To(a, s) = z}
<1>1. <<a, z>> \in Sides /\ columns = ColumnsOf(automaton.delta)
  BY DEF LoaderInv, ColumnsMatch, Sides, StateIndices
<1>. QED
  BY <1>1 DEF ColumnsOf, To, StateIndices

\* What repair reads are arcs into the pair.
LEMMA ArcsAreArcs ==
  ASSUME LoaderInv, columns # <<>>, NEW a \in Indices(automaton.actions),
         NEW x \in StateIndices, NEW y \in StateIndices,
         NEW arc \in Sources(a, x, y)
  PROVE  /\ arc[1] \in StateIndices /\ arc[2] \in StateIndices /\ arc = <<arc[1], arc[2]>>
         /\ To(a, arc[1]) = x /\ To(a, arc[2]) = y
         /\ x = y => arc[1] <= arc[2]
BY ColumnOf DEF Sources

\* Where an action leads a pair.
LEMMA LedPair ==
  ASSUME NEW a, NEW u, NEW v
  PROVE  Led({u, v}, a) = {To(a, u), To(a, v)}
<1>1. {To(a, s) : s \in {u, v}} = {To(a, u), To(a, v)}
  OBVIOUS
<1>2. {To(a, s) : s \in {u, v}} = Led({u, v}, a)
  BY DEF To, Led
<1>. QED
  BY <1>1, <1>2, Zenon

\* A pair that is led into {x, y} is read as an arc.
LEMMA ArcOfPair ==
  ASSUME LoaderInv, columns # <<>>, NEW a \in Indices(automaton.actions),
         NEW x \in StateIndices, NEW y \in StateIndices,
         NEW p \in LedInto(a, x, y)
  PROVE  \E arc \in Sources(a, x, y) : p = {arc[1], arc[2]}
<1>1. PICK u \in StateIndices, v \in StateIndices : p = {u, v} /\ {To(a, u), To(a, v)} = {x, y}
  <2>1. PICK u \in StateIndices, v \in StateIndices : p = {u, v}
    BY DEF LedInto, StatePairs, StateIndices
  <2>2. {To(a, u), To(a, v)} = {x, y}
    <3>1. Led(p, a) = {x, y}
      BY DEF LedInto
    <3>2. Led({u, v}, a) = {To(a, u), To(a, v)}
      BY LedPair
    <3>. QED
      BY <2>1, <3>1, <3>2, Zenon
  <2>. QED
    BY <2>1, <2>2
<1>2. u <= v \/ v <= u
  BY <1>1, IndicesFinite
<1>3. p = {v, u}
  BY <1>1
<1>4. CASE x = y /\ u <= v
  <2>1. <<u, v>> \in Sources(a, x, y)
    BY <1>1, <1>4, ColumnOf DEF Sources
  <2>. QED
    BY <1>1, <2>1
<1>5. CASE x = y /\ v <= u
  <2>1. To(a, u) = x /\ To(a, v) = x
    BY <1>1, <1>5
  <2>2. v \in columns[<<a, x>>] /\ u \in columns[<<a, x>>]
    BY <1>1, <2>1, ColumnOf
  <2>3. <<v, u>> \in Sources(a, x, y)
    BY <1>5, <2>2 DEF Sources
  <2>. QED
    BY <1>3, <2>3
<1>6. CASE x # y /\ To(a, u) = x /\ To(a, v) = y
  <2>1. <<u, v>> \in Sources(a, x, y)
    BY <1>1, <1>6, ColumnOf DEF Sources
  <2>. QED
    BY <1>1, <2>1
<1>7. CASE x # y /\ To(a, u) = y /\ To(a, v) = x
  <2>1. <<v, u>> \in Sources(a, x, y)
    BY <1>1, <1>7, ColumnOf DEF Sources
  <2>. QED
    BY <1>3, <2>1
<1>8. x # y => (To(a, u) = x /\ To(a, v) = y) \/ (To(a, u) = y /\ To(a, v) = x)
  BY <1>1
<1>. QED
  BY <1>2, <1>4, <1>5, <1>6, <1>7, <1>8

\* The loops over two columns find every pair once.
LEMMA PairsOnce ==
  ASSUME LoaderInv, columns # <<>>, NEW a \in Indices(automaton.actions),
         NEW x \in StateIndices, NEW y \in StateIndices
  PROVE  /\ {{arc[1], arc[2]} : arc \in Sources(a, x, y)} = LedInto(a, x, y)
         /\ Cardinality(Sources(a, x, y)) = Cardinality(LedInto(a, x, y))
<1> DEFINE found == Sources(a, x, y)
           pairs == LedInto(a, x, y)
           f == [arc \in found |-> {arc[1], arc[2]}]
<1>1. \A arc \in found : {arc[1], arc[2]} \in pairs
  <2>1. TAKE arc \in found
  <2>2. arc[1] \in StateIndices /\ arc[2] \in StateIndices /\ To(a, arc[1]) = x /\ To(a, arc[2]) = y
    BY ArcsAreArcs
  <2>3. Led({arc[1], arc[2]}, a) = {x, y}
    BY <2>2, LedPair, Zenon
  <2>4. {arc[1], arc[2]} \in StatePairs
    BY <2>2 DEF StatePairs, StateIndices
  <2>. QED
    BY <2>3, <2>4, Zenon DEF LedInto
<1>2. \A p \in pairs : \E arc \in found : p = {arc[1], arc[2]}
  BY ArcOfPair
<1>3. ASSUME NEW arc \in found, NEW other \in found,
             {arc[1], arc[2]} = {other[1], other[2]}
      PROVE  arc = other
  <2>1. PICK u \in StateIndices, v \in StateIndices : u = arc[1] /\ v = arc[2] /\ arc = <<u, v>>
                                /\ To(a, u) = x /\ To(a, v) = y /\ (x = y => u <= v)
    BY ArcsAreArcs
  <2>2. PICK s \in StateIndices, t \in StateIndices : s = other[1] /\ t = other[2] /\ other = <<s, t>>
                                /\ To(a, s) = x /\ To(a, t) = y /\ (x = y => s <= t)
    BY ArcsAreArcs
  <2>3. {u, v} = {s, t}
    BY <1>3, <2>1, <2>2
  <2>4. (u = s /\ v = t) \/ (u = t /\ v = s)
    BY <2>3
  <2>5. CASE u = t /\ v = s
    <3>1. x = y
      BY <2>1, <2>2, <2>5
    <3>2. u <= v /\ v <= u /\ u \in Int /\ v \in Int
      BY <2>1, <2>2, <2>5, <3>1, IndicesFinite
    <3>3. u = v
      BY <3>2
    <3>. QED
      BY <2>1, <2>2, <2>5, <3>3
  <2>. QED
    BY <2>1, <2>2, <2>4, <2>5
<1>4. IsFiniteSet(found)
  <2>1. found \in SUBSET (StateIndices \X StateIndices)
    BY ColumnOf DEF Sources
  <2>2. IsFiniteSet(StateIndices \X StateIndices)
    BY IndicesFinite, FS_Product
  <2>. QED
    BY <2>1, <2>2, FS_Subset
<1>5. f \in Bijection(found, pairs)
  <2> HIDE DEF found, pairs
  <2>1. f \in [found -> pairs]
    BY <1>1
  <2>2. IsInjective(f)
    BY <1>3 DEF IsInjective
  <2>3. \A p \in pairs : \E arc \in found : f[arc] = p
    BY <1>2
  <2>. QED
    BY <2>1, <2>2, <2>3 DEF Bijection, Injection, Surjection
<1>6. Cardinality(pairs) = Cardinality(found)
  BY <1>4, <1>5, FS_Bijection DEF ExistsBijection
<1>7. {{arc[1], arc[2]} : arc \in found} = pairs
  <2> HIDE DEF found, pairs
  <2>. QED
    BY <1>1, <1>2
<1>. QED
  BY <1>6, <1>7

\* The types follow from the invariant.
LEMMA TypesHold == LoaderInv => LoaderTypeOK
<1> SUFFICES ASSUME LoaderInv PROVE LoaderTypeOK
  OBVIOUS
<1>1. stage \in 1 .. Len(Queries) + 1 /\ row \in Nat \ {0}
  BY QueryNames DEF LoaderInv, Reads
<1>2. \A q \in Domains : IsInjective(builder[q])
  BY DEF LoaderInv, Clean
<1>3. automaton # <<>> =>
        /\ automaton.delta \in [CellsOf(automaton) -> Indices(automaton.states)]
        /\ automaton.eta \in [CellsOf(automaton) -> Indices(automaton.outputs)]
  BY DEF LoaderInv, Builds
<1>. QED
  BY <1>1, <1>2, <1>3 DEF LoaderTypeOK, LoaderInv, Statuses

\* An index that was resolved names what its row names.
LEMMA NamesHold == LoaderInv => BuildsWhatIsNamed
<1> SUFFICES ASSUME LoaderInv, status = "OK", changes = 0 PROVE BuildsWhatIsNamed
  BY DEF BuildsWhatIsNamed
<1>1. /\ stage = 6 /\ IsAutomaton /\ graph \in Graphs
      /\ automaton.states = builder.states /\ automaton.actions = builder.actions
      /\ automaton.outputs = builder.outputs
      /\ automaton.delta = Resolved("transitions") /\ automaton.eta = Resolved("observations")
  BY DEF LoaderInv, Builds, AcceptsAutomata, Reads
<1>2. ASSUME NEW table \in Tables, NEW entry \in Range(graph[table])
      PROVE  Named(table)[1 + Resolved(table)[<<IndexOf(builder.states, entry[1]),
                                               IndexOf(builder.actions, entry[2])>>]] = entry[3]
  <2>1. PICK n \in DOMAIN graph[table] : graph[table][n] = entry
    BY DEF Range
  <2>2. /\ entry[1] \in Range(graph.states) /\ entry[2] \in Range(graph.actions)
        /\ CellOf(entry) = <<entry[1], entry[2]>>
    BY <1>1, GraphRows, RowsOfAutomaton
  <2>3. PICK i \in Indices(builder.states), j \in Indices(builder.actions) :
          /\ i = IndexOf(builder.states, entry[1]) /\ j = IndexOf(builder.actions, entry[2])
          /\ builder.states[1 + i] = entry[1] /\ builder.actions[1 + j] = entry[2]
    BY <1>1, <2>2, BuiltKeys, IndexOfKey DEF Domains
  <2>4. i + 1 = 1 + i /\ j + 1 = 1 + j
    BY DEF Indices
  <2>5. /\ Resolved(table)[<<i, j>>] = IndexOf(Named(table), entry[3])
        /\ entry[3] \in Range(Named(table))
    BY <1>1, <2>1, <2>2, <2>3, <2>4, ResolvedRow
  <2>6. Named(table)[1 + IndexOf(Named(table), entry[3])] = entry[3]
    BY <1>1, <2>5, BuiltKeys, IndexOfKey
  <2>. QED
    BY <2>3, <2>5, <2>6
<1>3. "transitions" \in Tables /\ "observations" \in Tables
      /\ Named("transitions") = builder.states /\ Named("observations") = builder.outputs
  BY DEF Tables, Named
<1>. QED
  BY <1>1, <1>2, <1>3 DEF BuildsWhatIsNamed

\* The columns suffice to find the arcs into a pair.
LEMMA IncomingHolds == LoaderInv => IncomingExact
<1>1. ASSUME LoaderInv, columns # <<>>, NEW c \in Sides, NEW y \in Indices(automaton.states)
      PROVE  LET found == Sources(c[1], c[2], y)
                 led == LedInto(c[1], c[2], y)
             IN /\ {{arc[1], arc[2]} : arc \in found} = led
                /\ Cardinality(found) = Cardinality(led)
  <2>1. c[1] \in Indices(automaton.actions) /\ c[2] \in StateIndices /\ y \in StateIndices
    BY DEF Sides, StateIndices
  <2>. QED
    BY <1>1, <2>1, PairsOnce
<1>. QED
  BY <1>1 DEF IncomingExact

\* sg_automaton_builder_build accepts the graphs that are automata and no
\* others, and names the reason for which it refuses one, whatever rows the
\* queries of load_automaton_generation return, in whatever order.
THEOREM VerdictAlwaysSound == LoaderSpec => []VerdictSound
<1>1. LoaderInv => VerdictSound
  BY TypesHold DEF VerdictSound, LoaderInv
<1>. QED
  BY <1>1, LoaderAlways, PTL

\* What sg_resolve_entries makes of keys is what the rows say: the automaton
\* that is loaded moves and shows what is named, in any order of the rows.
THEOREM AlwaysBuildsWhatIsNamed == LoaderSpec => []BuildsWhatIsNamed
BY LoaderAlways, NamesHold, PTL

\* After any changes of cells sg_snapshot_store_read_incoming finds the pairs
\* that an action leads into a pair, each of them once.
THEOREM IncomingAlwaysExact == LoaderSpec => []IncomingExact
BY LoaderAlways, IncomingHolds, PTL
=============================================================================
