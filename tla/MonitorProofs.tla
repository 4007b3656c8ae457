---------------------------- MODULE MonitorProofs ----------------------------
(***************************************************************************)
(* The monitors of PlanMonitor are right for every automaton, every word   *)
(* and every set of possible states: what they compute step by step is     *)
(* what the runs of the automaton say.                                     *)
(***************************************************************************)
EXTENDS PlanMonitor, PairGraphProofs

-----------------------------------------------------------------------------
(* Words, runs and what is possible along a word. *)

-----------------------------------------------------------------------------
(* What the monitors compute. *)

\* The plan and the outputs that a monitor is called with.
Evidence ==
  /\ plan.support \in Supports /\ plan.word \in Seq(Actions)
  /\ outputs \in Seq(Outputs) /\ steps \in Nat /\ steps <= Len(plan.word)

\* Where the run from y is after n letters of the plan, and what it showed last.
Place(aut, y, n) == PlacesFrom(aut, y, plan.word)[n]
Shown(aut, y, n) == aut.eta[<<Place(aut, y, n - 1), plan.word[n]>>]

\* The runs that show the first n outputs.
Runs(aut, n) == {y \in plan.support : \A m \in 1 .. n : Shown(aut, y, m) = outputs[m]}

\* A run takes one letter after the other.
LEMMA PlaceSound ==
  ASSUME Evidence, NEW aut \in Automata, NEW y \in States
  PROVE  /\ Place(aut, y, 0) = y
         /\ \A n \in 0 .. steps : Place(aut, y, n) \in States
         /\ \A n \in 1 .. steps :
              Place(aut, y, n) = aut.delta[<<Place(aut, y, n - 1), plan.word[n]>>]
<1>1. /\ Len(plan.word) \in Nat
      /\ \A n \in 0 .. steps : n \in 0 .. Len(plan.word)
      /\ \A n \in 1 .. steps : n \in 1 .. Len(plan.word)
  BY DEF Evidence
<1>2. plan.word \in Seq(Actions)
  BY DEF Evidence
<1>3. QED
  BY <1>1, <1>2, PlacesFromSound DEF Place

\* Everything possible moves at every step.
LEMMA MovedPlaces ==
  ASSUME Evidence, NEW aut \in Automata
  PROVE  MotionExpected(aut) = {Place(aut, y, steps) : y \in plan.support}
<1> DEFINE N == steps
           Is(f) == f = [n \in 0 .. N |-> IF n = 0 THEN plan.support
                                          ELSE Moved(aut, f[n - 1], plan.word[n])]
           g == [n \in 0 .. N |-> {Place(aut, y, n) : y \in plan.support}]
<1>1. N \in Nat /\ plan.support \subseteq States
  BY DEF Evidence, Supports
<1>2. /\ \A y \in plan.support : Place(aut, y, 0) = y
      /\ \A y \in plan.support : \A n \in 1 .. N :
              Place(aut, y, n) = aut.delta[<<Place(aut, y, n - 1), plan.word[n]>>]
  BY <1>1, PlaceSound
<1>3. Is(g)
  <2>1. \A n \in 0 .. N : n = 0 \/ (n \in 1 .. N /\ n - 1 \in 0 .. N)
    BY <1>1
  <2>2. {Place(aut, y, 0) : y \in plan.support} = plan.support
    BY <1>2
  <2>3. ASSUME NEW n \in 1 .. N
        PROVE  {Place(aut, y, n) : y \in plan.support} = Moved(aut, g[n - 1], plan.word[n])
    <3>1. g[n - 1] = {Place(aut, y, n - 1) : y \in plan.support}
      BY <2>1
    <3> DEFINE before == {Place(aut, y, n - 1) : y \in plan.support}
               after == {Place(aut, y, n) : y \in plan.support}
    <3>2. \A y \in plan.support :
            Place(aut, y, n) = aut.delta[<<Place(aut, y, n - 1), plan.word[n]>>]
      BY <1>2
    <3>3. Moved(aut, before, plan.word[n]) = {aut.delta[<<x, plan.word[n]>>] : x \in before}
      BY DEF Moved
    <3>4. \A z \in after : z \in {aut.delta[<<x, plan.word[n]>>] : x \in before}
      BY <3>2
    <3>5. \A z \in {aut.delta[<<x, plan.word[n]>>] : x \in before} : z \in after
      BY <3>2
    <3> HIDE DEF before, after
    <3>6. after = Moved(aut, before, plan.word[n])
      BY <3>3, <3>4, <3>5
    <3>7. QED
      BY <3>1, <3>6 DEF before, after
  <2>4. QED
    BY <2>1, <2>2, <2>3
<1> DEFINE M == CHOOSE f : Is(f)
<1>4. MotionExpected(aut) = M[N]
  BY DEF MotionExpected
<1>5. Is(M)
  BY <1>3
<1> HIDE DEF M
<1>6. \A n \in 0 .. N : M[n] = g[n]
  <2> DEFINE S == {n \in 0 .. N : M[n] = g[n]}
  <2>1. 0 \in S
    <3>1. 0 \in 0 .. N
      BY <1>1
    <3>2. M[0] = plan.support
      BY <1>5, <3>1
    <3>3. g[0] = plan.support
      BY <1>2, <3>1
    <3>4. QED
      BY <3>1, <3>2, <3>3
  <2>2. ASSUME NEW k \in 1 .. N, k - 1 \in S PROVE k \in S
    <3>1. k \in 0 .. N /\ k # 0 /\ M[k - 1] = g[k - 1]
      BY <2>2, <1>1
    <3>2. M[k] = Moved(aut, M[k - 1], plan.word[k])
      BY <3>1, <1>5
    <3> HIDE DEF g
    <3>3. g[k] = Moved(aut, g[k - 1], plan.word[k])
      BY <3>1, <1>3
    <3>4. QED
      BY <3>1, <3>2, <3>3
  <2>3. QED
    <3> HIDE DEF S
    <3>1. \A n \in 0 .. N : n \in S
      BY <1>1, <2>1, <2>2, StepByStep
    <3>2. QED
      BY <3>1 DEF S
<1>7. N \in 0 .. N
  BY <1>1
<1>8. QED
  BY <1>4, <1>6, <1>7

\* One more output is one more condition on the runs.
LEMMA RunsStep ==
  ASSUME Evidence, NEW aut \in Automata, NEW n \in 1 .. steps
  PROVE  Runs(aut, n) = {y \in Runs(aut, n - 1) : Shown(aut, y, n) = outputs[n]}
<1>1. n \in 1 .. n /\ \A m \in 1 .. (n - 1) : m \in 1 .. n
  BY DEF Evidence
<1>2. \A m \in 1 .. n : m = n \/ m \in 1 .. (n - 1)
  BY DEF Evidence
<1>3. QED
  BY <1>1, <1>2 DEF Runs

\* The filter keeps the places of the runs that show the outputs.
LEMMA FilteredPlaces ==
  ASSUME Evidence, NEW aut \in Automata
  PROVE  \A n \in 0 .. steps : Filtered(aut)[n] = {Place(aut, y, n) : y \in Runs(aut, n)}
<1> DEFINE N == steps
           Is(f) == f = [n \in 0 .. N |->
                           IF n = 0 THEN plan.support
                           ELSE Observed(aut, f[n - 1], plan.word[n], outputs[n])]
           g == [n \in 0 .. N |-> {Place(aut, y, n) : y \in Runs(aut, n)}]
<1>1. N \in Nat /\ plan.support \subseteq States
  BY DEF Evidence, Supports
<1>2. /\ \A y \in plan.support : Place(aut, y, 0) = y
      /\ \A y \in plan.support : \A n \in 1 .. N :
              Place(aut, y, n) = aut.delta[<<Place(aut, y, n - 1), plan.word[n]>>]
  BY <1>1, PlaceSound
<1>3. g[0] = plan.support
  <2>1. Runs(aut, 0) = plan.support
    BY DEF Runs
  <2>2. 0 \in 0 .. N
    BY <1>1
  <2>3. QED
    BY <1>2, <2>1, <2>2
<1>4. ASSUME NEW n \in 1 .. N
      PROVE  g[n] = Observed(aut, g[n - 1], plan.word[n], outputs[n])
  <2> DEFINE before == {Place(aut, y, n - 1) : y \in Runs(aut, n - 1)}
             after == {Place(aut, y, n) : y \in Runs(aut, n)}
             kept == {x \in before : aut.eta[<<x, plan.word[n]>>] = outputs[n]}
             moved == {aut.delta[<<x, plan.word[n]>>] : x \in kept}
  <2>1. n \in 0 .. N /\ n - 1 \in 0 .. N
    BY <1>1
  <2>2. g[n] = after /\ g[n - 1] = before
    BY <2>1
  <2>3. Observed(aut, before, plan.word[n], outputs[n]) = moved
    BY DEF Observed, Moved
  <2>4. Runs(aut, n) = {y \in Runs(aut, n - 1) : Shown(aut, y, n) = outputs[n]}
    BY RunsStep
  <2>5. \A y \in Runs(aut, n - 1) :
          /\ Place(aut, y, n) = aut.delta[<<Place(aut, y, n - 1), plan.word[n]>>]
          /\ Shown(aut, y, n) = aut.eta[<<Place(aut, y, n - 1), plan.word[n]>>]
    BY <1>2 DEF Runs, Shown
  <2>6. ASSUME NEW y \in Runs(aut, n) PROVE Place(aut, y, n) \in moved
    <3>1. y \in Runs(aut, n - 1) /\ Shown(aut, y, n) = outputs[n]
      BY <2>4
    <3>2. Place(aut, y, n - 1) \in kept
      BY <2>5, <3>1
    <3>3. QED
      BY <2>5, <3>1, <3>2
  <2>7. ASSUME NEW z \in moved PROVE z \in after
    <3>1. PICK x \in kept : z = aut.delta[<<x, plan.word[n]>>]
      OBVIOUS
    <3>2. PICK y \in Runs(aut, n - 1) : x = Place(aut, y, n - 1)
      BY <3>1
    <3>3. y \in Runs(aut, n)
      BY <2>4, <2>5, <3>1, <3>2
    <3>4. z = Place(aut, y, n)
      BY <2>5, <3>1, <3>2
    <3>5. QED
      BY <3>3, <3>4
  <2>8. after = moved
    <3>1. \A z \in after : z \in moved
      BY <2>6
    <3> HIDE DEF after, moved
    <3>2. QED
      BY <2>7, <3>1
  <2>9. QED
    BY <2>2, <2>3, <2>8
<1>5. Is(g)
  <2>1. \A n \in 0 .. N : n = 0 \/ n \in 1 .. N
    BY <1>1
  <2> DEFINE h == [n \in 0 .. N |-> IF n = 0 THEN plan.support
                           ELSE Observed(aut, g[n - 1], plan.word[n], outputs[n])]
  <2>2. \A n \in 0 .. N : g[n] = h[n]
    <3>1. \A n \in 1 .. N : h[n] = Observed(aut, g[n - 1], plan.word[n], outputs[n])
      BY <1>1
    <3>2. 0 \in 0 .. N => h[0] = plan.support
      OBVIOUS
    <3> HIDE DEF g, h
    <3>3. QED
      BY <1>3, <1>4, <2>1, <3>1, <3>2
  <2>3. g = h
    <3>1. DOMAIN g = 0 .. N /\ DOMAIN h = 0 .. N
      OBVIOUS
    <3>2. g = [n \in 0 .. N |-> g[n]] /\ h = [n \in 0 .. N |-> h[n]]
      OBVIOUS
    <3> HIDE DEF g, h
    <3>3. QED
      BY <2>2, <3>2
  <2>4. QED
    BY <2>3
<1> DEFINE M == CHOOSE f : Is(f)
<1>6. Filtered(aut) = M
  BY DEF Filtered
<1>7. Is(M)
  BY <1>5
<1> HIDE DEF M
<1>8. \A n \in 0 .. N : M[n] = g[n]
  <2> DEFINE S == {n \in 0 .. N : M[n] = g[n]}
  <2>1. 0 \in S
    <3>1. 0 \in 0 .. N
      BY <1>1
    <3>2. M[0] = plan.support
      BY <1>7, <3>1
    <3>3. QED
      BY <3>1, <3>2, <1>3
  <2>2. ASSUME NEW k \in 1 .. N, k - 1 \in S PROVE k \in S
    <3>1. k \in 0 .. N /\ k # 0 /\ M[k - 1] = g[k - 1]
      BY <2>2, <1>1
    <3>2. M[k] = Observed(aut, M[k - 1], plan.word[k], outputs[k])
      BY <3>1, <1>7
    <3>3. g[k] = Observed(aut, g[k - 1], plan.word[k], outputs[k])
      BY <1>4
    <3> HIDE DEF g
    <3>4. QED
      BY <3>1, <3>2, <3>3
  <2>3. QED
    <3> HIDE DEF S
    <3>1. \A n \in 0 .. N : n \in S
      BY <1>1, <2>1, <2>2, StepByStep
    <3>2. QED
      BY <3>1 DEF S
<1>9. \A n \in 0 .. N : g[n] = {Place(aut, y, n) : y \in Runs(aut, n)}
  OBVIOUS
<1>10. QED
  BY <1>6, <1>8, <1>9

\* The completed part of the plan's word.
LEMMA PrefixSound ==
  ASSUME Evidence
  PROVE  /\ prefix \in Seq(Actions) /\ Len(prefix) = steps /\ DOMAIN prefix = 1 .. steps
         /\ \A n \in 1 .. steps : prefix[n] = plan.word[n]
  BY DEF Evidence, prefix

\* The runs along the completed part are those along the word.
LEMMA PrefixPlaces ==
  ASSUME Evidence, NEW aut \in Automata, NEW y \in States
  PROVE  \A n \in 0 .. steps : PlacesFrom(aut, y, prefix)[n] = Place(aut, y, n)
<1>1. /\ prefix \in Seq(Actions) /\ plan.word \in Seq(Actions)
      /\ Len(prefix) = steps /\ Len(prefix) <= Len(plan.word)
      /\ \A n \in 1 .. Len(prefix) : prefix[n] = plan.word[n]
  BY PrefixSound DEF Evidence
<1> HIDE DEF prefix
<1>2. \A n \in 0 .. Len(prefix) : PlacesFrom(aut, y, prefix)[n] = PlacesFrom(aut, y, plan.word)[n]
  BY <1>1, PlacesAgree
<1>3. QED
  BY <1>1, <1>2 DEF Place

\* The trace of a run is what it showed at each step.
LEMMA TraceSound ==
  ASSUME Evidence, NEW aut \in Automata, NEW y \in States
  PROVE  /\ TraceFrom(aut, y, prefix) = [n \in 1 .. steps |-> Shown(aut, y, n)]
         /\ \A n \in 1 .. steps : Shown(aut, y, n) \in Outputs
<1>1. DOMAIN prefix = 1 .. steps /\ \A n \in 1 .. steps : prefix[n] = plan.word[n]
  BY PrefixSound
<1>2. \A n \in 1 .. steps : n - 1 \in 0 .. steps
  BY DEF Evidence
<1>3. \A n \in 1 .. steps : PlacesFrom(aut, y, prefix)[n - 1] = Place(aut, y, n - 1)
  BY <1>2, PrefixPlaces
<1>4. \A n \in 1 .. steps :
        aut.eta[<<PlacesFrom(aut, y, prefix)[n - 1], prefix[n]>>] = Shown(aut, y, n)
  BY <1>1, <1>3 DEF Shown
<1>5. TraceFrom(aut, y, prefix) = [n \in 1 .. steps |-> Shown(aut, y, n)]
  <2> HIDE DEF prefix
  <2>1. QED
    BY <1>1, <1>4 DEF TraceFrom
<1>6. ASSUME NEW n \in 1 .. steps PROVE Shown(aut, y, n) \in Outputs
  <2>1. Place(aut, y, n - 1) \in States
    BY <1>2, PlaceSound
  <2>2. n \in 1 .. Len(plan.word)
    BY DEF Evidence
  <2>3. plan.word[n] \in Actions
    BY <2>2 DEF Evidence
  <2>4. QED
    BY <2>1, <2>3 DEF Shown, Automata, Cells
<1>7. QED
  BY <1>5, <1>6

\* The places of all runs, and of the runs that show all outputs.
Promised(aut) == {Place(aut, y, steps) : y \in plan.support}
Explained(aut) == {Place(aut, y, steps) : y \in Runs(aut, steps)}

\* What both monitors expect, in terms of runs.
LEMMA ExpectedSound ==
  ASSUME Evidence, NEW aut \in Automata
  PROVE  /\ Expected("motion", aut) = Promised(aut)
         /\ Expected("observed", aut) = Explained(aut)
         /\ Explained(aut) \subseteq Promised(aut)
         /\ Promised(aut) \in Supports
<1>1. steps \in 0 .. steps
  BY DEF Evidence
<1>2. Expected("motion", aut) = Promised(aut)
  BY MovedPlaces DEF Expected, Promised
<1>3. Expected("observed", aut) = Explained(aut)
  BY <1>1, FilteredPlaces DEF Expected, Explained
<1>4. Explained(aut) \subseteq Promised(aut)
  BY DEF Explained, Promised, Runs
<1>5. plan.support \subseteq States
  BY DEF Evidence, Supports
<1>6. \A y \in plan.support : Place(aut, y, steps) \in States
  BY <1>1, <1>5, PlaceSound
<1>7. QED
  BY <1>2, <1>3, <1>4, <1>6 DEF Promised, Supports

\* The same places, along the completed part of the word.
LEMMA PlacesOfPrefix ==
  ASSUME Evidence, NEW aut \in Automata
  PROVE  /\ {PlacesFrom(aut, y, prefix)[steps] : y \in plan.support} = Promised(aut)
         /\ Agreeing(aut, plan.support, prefix, outputs) = Explained(aut)
<1>1. /\ steps \in 0 .. steps /\ plan.support \subseteq States
      /\ outputs = [n \in 1 .. steps |-> outputs[n]]
  <2>1. steps \in 0 .. steps /\ plan.support \subseteq States
    BY DEF Evidence, Supports
  <2>2. outputs \in Seq(Outputs)
    BY DEF Evidence
  <2>3. outputs = [n \in 1 .. Len(outputs) |-> outputs[n]]
    BY <2>2
  <2>4. QED
    BY <2>1, <2>3 DEF steps
<1>2. \A y \in plan.support : PlacesFrom(aut, y, prefix)[steps] = Place(aut, y, steps)
  BY <1>1, PrefixPlaces
<1>3. Len(prefix) = steps
  BY PrefixSound
<1>4. {y \in plan.support : TraceFrom(aut, y, prefix) = outputs} = Runs(aut, steps)
  <2>1. ASSUME NEW y \in plan.support
        PROVE  TraceFrom(aut, y, prefix) = outputs
                 <=> \A m \in 1 .. steps : Shown(aut, y, m) = outputs[m]
    <3>1. TraceFrom(aut, y, prefix) = [n \in 1 .. steps |-> Shown(aut, y, n)]
      BY <1>1, TraceSound
    <3>2. QED
      BY <1>1, <3>1
  <2>2. QED
    BY <2>1 DEF Runs
<1>5. {PlacesFrom(aut, y, prefix)[steps] : y \in plan.support} = Promised(aut)
  BY <1>2 DEF Promised
<1>6. Agreeing(aut, plan.support, prefix, outputs)
        = {PlacesFrom(aut, x, prefix)[steps] : x \in Runs(aut, steps)}
  BY <1>3, <1>4 DEF Agreeing
<1>7. {PlacesFrom(aut, x, prefix)[steps] : x \in Runs(aut, steps)} = Explained(aut)
  <2>1. Runs(aut, steps) \subseteq plan.support
    BY DEF Runs
  <2>2. QED
    BY <1>2, <2>1 DEF Explained
<1>8. QED
  BY <1>5, <1>6, <1>7

-----------------------------------------------------------------------------
(* The step that no run explains. *)

\* The filter runs empty just when no run shows the outputs so far.
LEMMA ImpossibleSound ==
  ASSUME Evidence, NEW aut \in Automata
  PROVE  Impossible(aut) = {n \in 1 .. steps : Runs(aut, n) = {}}
<1>1. \A n \in 1 .. steps : n \in 0 .. steps
  BY DEF Evidence
<1>2. \A n \in 1 .. steps : Filtered(aut)[n] = {Place(aut, y, n) : y \in Runs(aut, n)}
  BY <1>1, FilteredPlaces
<1>3. \A n \in 1 .. steps : Filtered(aut)[n] = {} <=> Runs(aut, n) = {}
  BY <1>2
<1>4. QED
  BY <1>3 DEF Impossible

\* The first impossible step is one of them.
LEMMA FirstImpossible ==
  ASSUME Evidence, NEW aut \in Automata, Impossible(aut) # {}
  PROVE  /\ Min(Impossible(aut)) \in Impossible(aut)
         /\ Min(Impossible(aut)) \in 1 .. steps
<1>1. Impossible(aut) \subseteq 1 .. steps
  BY DEF Impossible
<1>2. Impossible(aut) \subseteq Nat
  BY <1>1 DEF Evidence
<1> DEFINE bad == Impossible(aut)
<1> HIDE DEF bad
<1>3. \E x \in bad : \A y \in bad : x <= y
  BY <1>2, LeastNatural DEF bad
<1>4. Min(bad) \in bad
  BY <1>3 DEF Min
<1>5. QED
  BY <1>1, <1>4 DEF bad

\* Fewer outputs leave more runs.
LEMMA RunsShrink ==
  ASSUME Evidence, NEW aut, NEW n \in 1 .. steps
  PROVE  Runs(aut, steps) \subseteq Runs(aut, n)
<1>1. \A m \in 1 .. n : m \in 1 .. steps
  BY DEF Evidence
<1>2. QED
  BY <1>1 DEF Runs

\* No step is impossible while a run explains all outputs.
LEMMA NothingImpossible ==
  ASSUME Evidence, NEW aut \in Automata, Explained(aut) # {}
  PROVE  Impossible(aut) = {}
<1>1. Runs(aut, steps) # {}
  BY DEF Explained
<1>2. \A n \in 1 .. steps : Runs(aut, n) # {}
  BY <1>1, RunsShrink
<1>3. QED
  BY <1>2, ImpossibleSound

\* Which step is blamed.
LEMMA FailedStepSound ==
  ASSUME Evidence, NEW aut \in Automata
  PROVE  /\ FailedStep(aut) \in {None} \cup 1 .. steps
         /\ FailedStep(aut) = None <=> Impossible(aut) = {}
<1>1. CASE Impossible(aut) = {}
  BY <1>1 DEF FailedStep
<1>2. CASE Impossible(aut) # {}
  <2>1. Min(Impossible(aut)) \in 1 .. steps
    BY <1>2, FirstImpossible
  <2>2. FailedStep(aut) = Min(Impossible(aut))
    BY <1>2 DEF FailedStep
  <2>3. \A n \in 1 .. steps : n # None
    BY DEF Evidence, None
  <2>4. QED
    BY <1>2, <2>1, <2>2, <2>3
<1>3. QED
  BY <1>1, <1>2

\* The runs that SubSeq compares are those that show the outputs.
LEMMA RunsByTraces ==
  ASSUME Evidence, NEW aut \in Automata, NEW n \in 0 .. steps
  PROVE  {x \in plan.support :
            SubSeq(TraceFrom(aut, x, prefix), 1, n) = SubSeq(outputs, 1, n)} = Runs(aut, n)
<1>1. /\ steps \in Nat /\ plan.support \subseteq States /\ n \in Nat /\ n <= steps
      /\ outputs \in Seq(Outputs) /\ Len(outputs) = steps
  BY DEF Evidence, Supports, steps
<1>2. SubSeq(outputs, 1, n) = [m \in 1 .. n |-> outputs[m]]
  BY <1>1
<1>3. ASSUME NEW x \in plan.support
      PROVE  SubSeq(TraceFrom(aut, x, prefix), 1, n) = SubSeq(outputs, 1, n)
               <=> \A m \in 1 .. n : Shown(aut, x, m) = outputs[m]
  <2> DEFINE t == TraceFrom(aut, x, prefix)
  <2>1. t = [m \in 1 .. steps |-> Shown(aut, x, m)]
        /\ \A m \in 1 .. steps : Shown(aut, x, m) \in Outputs
    BY <1>1, TraceSound
  <2> HIDE DEF t
  <2>2. t \in Seq(Outputs) /\ Len(t) = steps
    BY <1>1, <2>1
  <2>3. SubSeq(t, 1, n) = [m \in 1 .. n |-> t[m]]
    BY <1>1, <2>2
  <2>4. \A m \in 1 .. n : t[m] = Shown(aut, x, m)
    BY <1>1, <2>1
  <2>5. SubSeq(t, 1, n) = SubSeq(outputs, 1, n) <=> \A m \in 1 .. n : t[m] = outputs[m]
    BY <1>2, <2>3
  <2>6. QED
    BY <2>4, <2>5 DEF t
<1>4. QED
  BY <1>3 DEF Runs

\* The outputs that were possible where the outputs became impossible.
LEMMA ExpectedOutputsSound ==
  ASSUME Evidence, NEW aut \in Automata, Impossible(aut) # {}
  PROVE  LET n == Min(Impossible(aut))
         IN ExpectedOutputs(aut) = {TraceFrom(aut, x, prefix)[n] : x \in Runs(aut, n - 1)}
<1>1. PICK n \in 1 .. steps : n = Min(Impossible(aut))
  BY FirstImpossible
<1>2. n - 1 \in 0 .. steps /\ Runs(aut, n - 1) \subseteq plan.support
      /\ plan.support \subseteq States
  BY DEF Evidence, Supports, Runs
<1> DEFINE at == {Place(aut, x, n - 1) : x \in Runs(aut, n - 1)}
           shown == {Shown(aut, x, n) : x \in Runs(aut, n - 1)}
<1>3. Filtered(aut)[n - 1] = at
  BY <1>2, FilteredPlaces
<1>4. Showing(aut, at, plan.word[n]) = shown
  <2>1. Showing(aut, at, plan.word[n]) = {aut.eta[<<x, plan.word[n]>>] : x \in at}
    BY DEF Showing
  <2>2. \A x \in Runs(aut, n - 1) : Shown(aut, x, n) = aut.eta[<<Place(aut, x, n - 1), plan.word[n]>>]
    BY DEF Shown
  <2>3. \A o \in shown : o \in {aut.eta[<<x, plan.word[n]>>] : x \in at}
    BY <2>2
  <2>4. \A o \in {aut.eta[<<x, plan.word[n]>>] : x \in at} : o \in shown
    BY <2>2
  <2> HIDE DEF at, shown
  <2>5. QED
    BY <2>1, <2>3, <2>4
<1>5. shown \subseteq Outputs
  BY <1>2, TraceSound
<1>6. shown = {TraceFrom(aut, x, prefix)[n] : x \in Runs(aut, n - 1)}
  <2>1. \A x \in Runs(aut, n - 1) :
          TraceFrom(aut, x, prefix) = [m \in 1 .. steps |-> Shown(aut, x, m)]
    BY <1>2, TraceSound
  <2>2. \A x \in Runs(aut, n - 1) : TraceFrom(aut, x, prefix)[n] = Shown(aut, x, n)
    BY <2>1
  <2>3. QED
    BY <2>2
<1> HIDE DEF at, shown
<1>7. ExpectedOutputs(aut) = {o \in Outputs : o \in shown}
  BY <1>1, <1>3, <1>4 DEF ExpectedOutputs
<1>8. ExpectedOutputs(aut) = shown
  BY <1>5, <1>7
<1>9. QED
  BY <1>1, <1>6, <1>8

-----------------------------------------------------------------------------
(* The answers. *)

\* What a monitor is given when it judges a plan.
Judged(monitor, report) ==
  /\ Evidence /\ monitor \in Monitors /\ report \in Reports
  /\ model.aut \in Automata /\ adopted.aut \in Automata
  /\ Current => adopted.aut = model.aut

\* BlamesFirst, of an answer
BlamesRightly(r) ==
  r.monitor = "observed" /\ r.decision # "STALE_GENERATION" =>
    LET runs(n) ==
          {x \in plan.support :
             SubSeq(TraceFrom(adopted.aut, x, prefix), 1, n) = SubSeq(outputs, 1, n)}
        bad == {n \in 1 .. steps : runs(n) = {}}
    IN IF bad = {} THEN r.failed = None /\ r.outputs = {}
       ELSE /\ r.failed = Min(bad) /\ r.decision = "MODEL_VIOLATION"
            /\ r.outputs = {TraceFrom(adopted.aut, x, prefix)[Min(bad)] : x \in runs(Min(bad) - 1)}

\* NoFalseAlarm, of an answer
RejectsRightly(r) ==
  lawful /\ r.decision = "MODEL_VIOLATION" =>
    \E x \in r.report \ {None} :
      /\ x # place
      /\ x \notin Possible(r.monitor)

\* A stale plan is answered with nothing else.
LEMMA StaleAnswer ==
  ASSUME NEW monitor, NEW report, ~Current
  PROVE  /\ Answer(monitor, report).decision = "STALE_GENERATION"
         /\ Answer(monitor, report).monitor = monitor
         /\ Answer(monitor, report).report = report
         /\ Answer(monitor, report) = [monitor |-> monitor, decision |-> "STALE_GENERATION",
              report |-> report, expected |-> {}, failed |-> None, outputs |-> {}]
  BY DEF Answer, NoAnswer

\* The answer about a plan that is not stale.
LEMMA CurrentAnswer ==
  ASSUME NEW monitor, NEW report, Current
  PROVE  Answer(monitor, report) =
           [monitor |-> monitor, report |-> report,
            decision |-> Decision(monitor, model.aut, report),
            expected |-> Expected(monitor, model.aut),
            failed |-> IF monitor = "observed" THEN FailedStep(model.aut) ELSE None,
            outputs |-> IF monitor = "observed" THEN ExpectedOutputs(model.aut) ELSE {}]
  BY DEF Answer

\* An observed monitor blames the first impossible step.
LEMMA AnswerBlames ==
  ASSUME NEW monitor, NEW report, Judged(monitor, report)
  PROVE  BlamesRightly(Answer(monitor, report))
<1> DEFINE r == Answer(monitor, report)
           A == adopted.aut
           runs(n) == {x \in plan.support :
                         SubSeq(TraceFrom(A, x, prefix), 1, n) = SubSeq(outputs, 1, n)}
           bad == {n \in 1 .. steps : runs(n) = {}}
<1> SUFFICES ASSUME r.monitor = "observed", r.decision # "STALE_GENERATION"
             PROVE  IF bad = {} THEN r.failed = None /\ r.outputs = {}
                    ELSE /\ r.failed = Min(bad) /\ r.decision = "MODEL_VIOLATION"
                         /\ r.outputs = {TraceFrom(A, x, prefix)[Min(bad)] : x \in runs(Min(bad) - 1)}
  BY DEF BlamesRightly
<1>1. Evidence /\ A \in Automata
  BY DEF Judged
<1>2. Current /\ A = model.aut
  BY StaleAnswer DEF Judged
<1>3. /\ monitor = "observed"
      /\ r.failed = FailedStep(A) /\ r.outputs = ExpectedOutputs(A)
      /\ r.decision = Decision("observed", A, report)
  BY <1>2, CurrentAnswer
<1>4. \A n \in 0 .. steps : runs(n) = Runs(A, n)
  BY <1>1, RunsByTraces
<1>5. \A n \in 1 .. steps : n \in 0 .. steps /\ n - 1 \in 0 .. steps
  BY <1>1 DEF Evidence
<1> HIDE DEF r, A, runs
<1>6. bad = Impossible(A)
  BY <1>1, <1>4, <1>5, ImpossibleSound
<1> HIDE DEF bad
<1>7. CASE bad = {}
  <2>1. ExpectedOutputs(A) = {}
    BY <1>6, <1>7 DEF ExpectedOutputs
  <2>2. FailedStep(A) = None
    BY <1>6, <1>7 DEF FailedStep
  <2>3. QED
    BY <1>3, <1>7, <2>1, <2>2
<1>8. CASE bad # {}
  <2>1. FailedStep(A) = Min(bad)
    BY <1>6, <1>8 DEF FailedStep
  <2>2. Min(bad) \in 1 .. steps
    BY <1>1, <1>6, <1>8, FirstImpossible
  <2>3. FailedStep(A) # None
    BY <1>1, <1>6, <1>8, FailedStepSound
  <2>4. r.decision = "MODEL_VIOLATION"
    BY <1>3, <2>3 DEF Decision
  <2>5. runs(Min(bad) - 1) = Runs(A, Min(bad) - 1)
    BY <1>4, <1>5, <2>2
  <2>6. ExpectedOutputs(A) = {TraceFrom(A, x, prefix)[Min(bad)] : x \in Runs(A, Min(bad) - 1)}
    BY <1>1, <1>6, <1>8, ExpectedOutputsSound
  <2>7. QED
    BY <1>3, <1>8, <2>1, <2>4, <2>5, <2>6
<1>9. QED
  BY <1>7, <1>8

\* A report passes just when it lists expected states only.
LEMMA ComparedSound ==
  ASSUME NEW expected \in Supports, NEW report
  PROVE  /\ Compared(expected, report) \in {"WAIT", "CONTINUE", "REPLAN", "MODEL_VIOLATION"}
         /\ Compared(expected, report) \in {"CONTINUE", "REPLAN"}
              <=> report # Unavailable /\ report \subseteq expected
         /\ Compared(expected, report) = "CONTINUE" <=> report # Unavailable /\ report = expected
         /\ Compared(expected, report) = "MODEL_VIOLATION"
              <=> report # Unavailable /\ ~(report \subseteq expected)
<1>1. CASE report = Unavailable
  <2>1. ~(report \subseteq expected)
    BY <1>1, MonitorAssumption DEF Unavailable, Supports
  <2>2. report # expected
    BY <2>1
  <2>3. QED
    BY <1>1, <2>1, <2>2 DEF Compared
<1>2. CASE report # Unavailable /\ report = expected
  BY <1>2 DEF Compared
<1>3. CASE report # Unavailable /\ report # expected /\ report \subseteq expected
  BY <1>3 DEF Compared
<1>4. CASE report # Unavailable /\ ~(report \subseteq expected)
  <2>1. report # expected
    BY <1>4
  <2>2. QED
    BY <1>4, <2>1 DEF Compared
<1>5. QED
  BY <1>1, <1>2, <1>3, <1>4

\* The places the runs allow at the end of the completed part.
Allowed(monitor, aut) == IF monitor = "motion" THEN Promised(aut) ELSE Explained(aut)

\* They are possible states.
LEMMA AllowedType ==
  ASSUME Evidence, NEW aut \in Automata, NEW monitor
  PROVE  Allowed(monitor, aut) \in Supports
  BY ExpectedSound DEF Allowed, Supports

\* What a current plan is answered.
LEMMA AnswerCompares ==
  ASSUME NEW monitor, NEW report, Judged(monitor, report), Current
  PROVE  LET r == Answer(monitor, report)
             late == monitor = "observed" /\ Impossible(adopted.aut) # {}
         IN /\ r.monitor = monitor /\ r.report = report
            /\ late => r.decision = "MODEL_VIOLATION"
            /\ ~late => r.decision = Compared(Allowed(monitor, adopted.aut), report)
<1>1. Evidence /\ adopted.aut \in Automata /\ adopted.aut = model.aut /\ monitor \in Monitors
  BY DEF Judged
<1>2. Expected(monitor, adopted.aut) = Allowed(monitor, adopted.aut)
  BY <1>1, ExpectedSound DEF Allowed, Monitors
<1>3. FailedStep(adopted.aut) = None <=> Impossible(adopted.aut) = {}
  BY <1>1, FailedStepSound
<1>4. /\ Answer(monitor, report).monitor = monitor
      /\ Answer(monitor, report).report = report
      /\ Answer(monitor, report).decision = Decision(monitor, adopted.aut, report)
  BY <1>1, CurrentAnswer
<1>5. QED
  BY <1>2, <1>3, <1>4 DEF Decision

\* What runs could be in, whether one of them explains all outputs or none does.
LEMMA PossibleSound ==
  ASSUME Evidence, adopted.aut \in Automata, plan.support # {}, NEW monitor \in Monitors
  PROVE  LET late == monitor = "observed" /\ Impossible(adopted.aut) # {}
         IN /\ Possible(monitor) = Allowed(monitor, adopted.aut)
            /\ Possible(monitor) = {} <=> late
<1> DEFINE A == adopted.aut
<1>1. Possible(monitor) = Allowed(monitor, A)
  BY PlacesOfPrefix DEF Possible, Allowed
<1>2. CASE monitor = "motion"
  <2>1. Promised(A) # {}
    BY DEF Promised
  <2>2. QED
    BY <1>1, <1>2, <2>1 DEF Allowed
<1>3. CASE monitor = "observed"
  <2>1. Explained(A) # {} => Impossible(A) = {}
    BY NothingImpossible
  <2>2. ASSUME Explained(A) = {} PROVE Impossible(A) # {}
    <3>1. Runs(A, steps) = {}
      BY <2>2 DEF Explained
    <3>2. steps # 0
      <4>1. Runs(A, 0) = plan.support
        BY DEF Runs
      <4>2. QED
        BY <3>1, <4>1
    <3>3. steps \in 1 .. steps
      BY <3>2 DEF Evidence
    <3>4. QED
      BY <3>1, <3>3, ImpossibleSound
  <2>3. QED
    BY <1>1, <1>3, <2>1, <2>2 DEF Allowed
<1>4. QED
  BY <1>2, <1>3 DEF Monitors

\* An answer is the one that the runs of the plan's automaton call for.
LEMMA AnswerByRuns ==
  ASSUME NEW monitor, NEW report, Judged(monitor, report), plan.support # {},
         Current <=> adopted.unchanged
  PROVE  AnsweredByRuns(Answer(monitor, report))
<1> DEFINE A == adopted.aut
           late == monitor = "observed" /\ Impossible(A) # {}
           possible == Possible(monitor)
<1>1. Evidence /\ A \in Automata /\ monitor \in Monitors /\ (Current => A = model.aut)
  BY DEF Judged
<1>2. PICK r : r = Answer(monitor, report)
  OBVIOUS
<1>3. CASE ~Current
  <2>1. r.decision = "STALE_GENERATION"
    BY <1>2, <1>3, StaleAnswer
  <2>2. QED
    BY <1>2, <1>3, <2>1 DEF AnsweredByRuns
<1>4. CASE Current
  <2>1. possible = Allowed(monitor, A) /\ (possible = {} <=> late) /\ possible \in Supports
    BY <1>1, PossibleSound, AllowedType
  <2>2. /\ r.monitor = monitor /\ r.report = report
        /\ late => r.decision = "MODEL_VIOLATION"
        /\ ~late => r.decision = Compared(possible, report)
    BY <1>2, <1>4, <2>1, AnswerCompares
  <2>3. r.expected = possible
    <3>1. r.expected = Expected(monitor, A)
      BY <1>1, <1>2, <1>4, CurrentAnswer
    <3>2. Expected(monitor, A) = Allowed(monitor, A)
      BY <1>1, ExpectedSound DEF Allowed, Monitors
    <3>3. QED
      BY <2>1, <3>1, <3>2
  <2> HIDE DEF possible, late
  <2>4. /\ r.decision # "STALE_GENERATION"
        /\ r.decision = "WAIT" <=> report = Unavailable /\ possible # {}
        /\ r.decision = "CONTINUE" <=> report = possible /\ possible # {}
        /\ r.decision = "REPLAN" <=> report \subseteq possible /\ report # possible
    <3>1. CASE late
      BY <2>1, <2>2, <3>1
    <3>2. CASE ~late
      <4>1. Unavailable # possible /\ ~(Unavailable \subseteq possible)
        BY <2>1, MonitorAssumption DEF Unavailable, Supports
      <4>2. r.decision = Compared(possible, report) /\ possible # {}
        BY <2>1, <2>2, <3>2
      <4>3. CASE report = Unavailable
        BY <4>1, <4>2, <4>3 DEF Compared
      <4>4. CASE report # Unavailable
        BY <4>2, <4>4 DEF Compared
      <4>5. QED
        BY <4>3, <4>4
    <3>3. QED
      BY <3>1, <3>2
  <2>5. QED
    BY <1>2, <1>4, <2>2, <2>3, <2>4 DEF AnsweredByRuns, possible
<1>5. QED
  BY <1>3, <1>4

\* Only a report is rejected that lists a state no run allows.
LEMMA AnswerRejects ==
  ASSUME NEW monitor, NEW report, Judged(monitor, report),
         lawful => place \in Explained(adopted.aut)
  PROVE  RejectsRightly(Answer(monitor, report))
<1> DEFINE r == Answer(monitor, report)
           A == adopted.aut
           allowed == Possible(r.monitor)
<1> SUFFICES ASSUME lawful, r.decision = "MODEL_VIOLATION"
             PROVE  \E x \in r.report \ {None} : x # place /\ x \notin allowed
  BY DEF RejectsRightly
<1>1. Evidence /\ A \in Automata /\ monitor \in Monitors /\ report \in Reports
  BY DEF Judged
<1>2. Current
  BY StaleAnswer
<1>3. place \in Explained(A) /\ Explained(A) \subseteq Promised(A)
  BY <1>1, ExpectedSound
<1>4. Impossible(A) = {}
  BY <1>1, <1>3, NothingImpossible
<1>5. r.monitor = monitor /\ r.report = report
      /\ Compared(Allowed(monitor, A), report) = "MODEL_VIOLATION"
  BY <1>2, <1>4, AnswerCompares
<1>6. allowed = Allowed(monitor, A) /\ Allowed(monitor, A) \in Supports
  BY <1>1, <1>5, PlacesOfPrefix, AllowedType DEF Allowed, Possible
<1>7. report # Unavailable /\ ~(report \subseteq Allowed(monitor, A))
  BY <1>5, <1>6, ComparedSound
<1>8. PICK x \in report : x \notin Allowed(monitor, A)
  BY <1>7
<1>9. x \in States /\ x # None
  BY <1>1, <1>7, MonitorAssumption DEF Reports, Supports
<1>10. place \in Allowed(monitor, A)
  BY <1>3 DEF Allowed
<1>11. QED
  BY <1>5, <1>6, <1>8, <1>9, <1>10

\* A true report that passes says that the world is where a run is.
LEMMA AnswerConfirms ==
  ASSUME NEW monitor, NEW report, Judged(monitor, report),
         Answer(monitor, report).decision \in {"CONTINUE", "REPLAN"}, place \in report
  PROVE  place \in Promised(adopted.aut)
<1> DEFINE r == Answer(monitor, report)
           A == adopted.aut
<1>1. Evidence /\ A \in Automata /\ monitor \in Monitors
  BY DEF Judged
<1>2. Current
  BY StaleAnswer
<1>3. r.decision = Compared(Allowed(monitor, A), report)
  BY <1>2, AnswerCompares
<1>4. report \subseteq Allowed(monitor, A)
  BY <1>1, <1>3, AllowedType, ComparedSound
<1>5. Allowed(monitor, A) \subseteq Promised(A)
  BY <1>1, ExpectedSound DEF Allowed
<1>6. QED
  BY <1>4, <1>5

\* An answer has its type.
LEMMA AnswerType ==
  ASSUME NEW monitor, NEW report, Judged(monitor, report)
  PROVE  Answer(monitor, report) \in
           [monitor : Monitors, decision : Decisions, report : Reports, expected : Supports,
            failed : {None} \cup 1 .. Len(plan.word), outputs : SUBSET Outputs]
<1> DEFINE r == Answer(monitor, report)
           A == model.aut
<1>1. Evidence /\ A \in Automata /\ monitor \in Monitors /\ report \in Reports
  BY DEF Judged
<1>2. CASE ~Current
  <2>1. {} \in Supports
    BY DEF Supports
  <2>2. r = [monitor |-> monitor, decision |-> "STALE_GENERATION", report |-> report,
             expected |-> {}, failed |-> None, outputs |-> {}]
    BY <1>2, StaleAnswer
  <2> HIDE DEF r
  <2>3. "STALE_GENERATION" \in Decisions
    BY DEF Decisions
  <2>4. r \in [monitor : Monitors, decision : Decisions, report : Reports, expected : Supports,
              failed : {None} \cup 1 .. Len(plan.word), outputs : SUBSET Outputs]
    BY <1>1, <2>1, <2>2, <2>3
  <2>5. QED
    BY <2>4 DEF r
<1>3. CASE Current
  <2>1. Expected(monitor, A) \in Supports
    BY <1>1, ExpectedSound DEF Monitors, Supports
  <2>2. FailedStep(A) \in {None} \cup 1 .. Len(plan.word)
    <3>1. 1 .. steps \subseteq 1 .. Len(plan.word)
      BY <1>1 DEF Evidence
    <3>2. FailedStep(A) \in {None} \cup 1 .. steps
      BY <1>1, FailedStepSound
    <3>3. QED
      BY <3>1, <3>2
  <2>3. ExpectedOutputs(A) \subseteq Outputs
    BY DEF ExpectedOutputs
  <2>4. Decision(monitor, A, report) \in Decisions
    BY <2>1, ComparedSound DEF Decision, Decisions
  <2> DEFINE f == IF monitor = "observed" THEN FailedStep(A) ELSE None
             o == IF monitor = "observed" THEN ExpectedOutputs(A) ELSE {}
  <2>5. f \in {None} \cup 1 .. Len(plan.word) /\ o \in SUBSET Outputs
    BY <2>2, <2>3
  <2>6. r = [monitor |-> monitor, report |-> report, decision |-> Decision(monitor, A, report),
             expected |-> Expected(monitor, A), failed |-> f, outputs |-> o]
    BY <1>3, CurrentAnswer
  <2> HIDE DEF f, o, r
  <2>7. r \in [monitor : Monitors, decision : Decisions, report : Reports, expected : Supports,
            failed : {None} \cup 1 .. Len(plan.word), outputs : SUBSET Outputs]
    BY <1>1, <2>1, <2>4, <2>5, <2>6
  <2>8. QED
    BY <2>7 DEF r
<1>4. QED
  BY <1>2, <1>3

\* With the same evidence the observed monitor is at least as strict.
LEMMA StricterHolds ==
  ASSUME Evidence, adopted.aut \in Automata
  PROVE  ObservedStricter
<1> DEFINE A == adopted.aut
<1> SUFFICES ASSUME NEW report \in Reports
             PROVE  LET motion == Decision("motion", A, report)
                        observed == Decision("observed", A, report)
                    IN /\ motion = "MODEL_VIOLATION" => observed = "MODEL_VIOLATION"
                       /\ observed = "CONTINUE" => motion \in {"CONTINUE", "REPLAN"}
  BY DEF ObservedStricter
<1>1. /\ Promised(A) \in Supports /\ Explained(A) \in Supports
      /\ Explained(A) \subseteq Promised(A)
  BY ExpectedSound DEF Supports
<1>2. Decision("motion", A, report) = Compared(Promised(A), report)
  BY ExpectedSound DEF Decision
<1>3. \/ Decision("observed", A, report) = "MODEL_VIOLATION"
      \/ Decision("observed", A, report) = Compared(Explained(A), report)
  BY ExpectedSound DEF Decision
<1> HIDE DEF A
<1>4. Compared(Promised(A), report) = "MODEL_VIOLATION"
        => Compared(Explained(A), report) = "MODEL_VIOLATION"
  BY <1>1, ComparedSound
<1>5. Compared(Explained(A), report) = "CONTINUE"
        => Compared(Promised(A), report) \in {"CONTINUE", "REPLAN"}
  BY <1>1, ComparedSound
<1>6. QED
  BY <1>2, <1>3, <1>4, <1>5

-----------------------------------------------------------------------------
(* The explanation of a plan. *)

\* explain_plan and the monitor describe one plan.
LEMMA ExplanationMatches ==
  ASSUME Evidence, adopted.aut \in Automata, adopted.count > 0 => plan.support # {}
  PROVE  MatchesExplanation
<1> DEFINE A == adopted.aut
           N == steps
           branches == BranchesOf(A, plan.support, prefix)
           explained == {c \in branches : c.trace = outputs}
<1> SUFFICES ASSUME plan.support # {}
             PROVE  /\ UNION {b.support : b \in branches} = MotionExpected(A)
                    /\ {b.support : b \in explained} = {Expected("observed", A)} \ {{}}
  BY DEF MatchesExplanation
<1>1. /\ N \in Nat /\ outputs \in Seq(Outputs) /\ Len(outputs) = N
      /\ plan.support \subseteq States
  BY DEF Evidence, Supports, steps
<1>2. branches = Branching(A, plan.support, prefix, N) /\ prefix \in Seq(Actions)
  BY BranchesAre, PrefixSound DEF Evidence
<1>3. MotionExpected(A) = Promised(A) /\ Expected("observed", A) = Explained(A)
  BY ExpectedSound DEF Expected
<1> DEFINE Same(y) == {z \in plan.support : \A m \in 1 .. N : Shown(A, z, m) = Shown(A, y, m)}
           B(y) == Branch(A, plan.support, prefix, y, N)
<1>4. ASSUME NEW y \in plan.support
      PROVE  /\ B(y).support = {Place(A, z, N) : z \in Same(y)}
             /\ B(y).trace = [m \in 1 .. N |-> Shown(A, y, m)]
  <2>1. ASSUME NEW z \in plan.support, NEW m \in 1 .. N
        PROVE  ShownAt(A, prefix, z, m) = Shown(A, z, m)
    <3>1. m - 1 \in 0 .. N /\ z \in States
      BY <1>1
    <3>2. PlacesFrom(A, z, prefix)[m - 1] = Place(A, z, m - 1) /\ prefix[m] = plan.word[m]
      BY <3>1, PrefixSound, PrefixPlaces
    <3>3. QED
      BY <3>2 DEF ShownAt, Shown
  <2>2. Alike(A, plan.support, prefix, y, N) = Same(y)
    BY <2>1 DEF Alike
  <2>3. \A z \in plan.support : PlacesFrom(A, z, prefix)[N] = Place(A, z, N)
    <3>1. N \in 0 .. N
      BY <1>1
    <3>2. QED
      BY <1>1, <3>1, PrefixPlaces
  <2>4. Left(A, plan.support, prefix, y, N) = {Place(A, z, N) : z \in Same(y)}
    BY <2>2, <2>3 DEF Left
  <2>5. TraceTo(A, prefix, y, N) = [m \in 1 .. N |-> Shown(A, y, m)]
    BY <2>1 DEF TraceTo
  <2>6. QED
    BY <2>4, <2>5 DEF Branch
<1> HIDE DEF B
<1> HIDE DEF branches, A
<1>5. UNION {b.support : b \in branches} = Promised(A)
  <2>1. ASSUME NEW b \in branches PROVE b.support \subseteq Promised(A)
    <3>1. PICK y \in plan.support : b = B(y)
      BY <1>2 DEF Branching, B
    <3>2. Same(y) \subseteq plan.support
      OBVIOUS
    <3>3. b.support = {Place(A, z, N) : z \in Same(y)}
      BY <1>4, <3>1
    <3> HIDE DEF Same
    <3>4. QED
      BY <3>2, <3>3 DEF Promised
  <2>2. ASSUME NEW y \in plan.support
        PROVE  \E b \in branches : Place(A, y, N) \in b.support
    <3>1. y \in Same(y)
      OBVIOUS
    <3>2. B(y) \in branches
      BY <1>2 DEF Branching, B
    <3>3. QED
      BY <1>4, <3>1, <3>2
  <2>3. QED
    BY <2>1, <2>2 DEF Promised
<1>6. ASSUME NEW y \in plan.support
      PROVE  B(y).trace = outputs <=> y \in Runs(A, N)
  <2>1. outputs = [m \in 1 .. N |-> outputs[m]]
    BY <1>1
  <2>2. B(y).trace = [m \in 1 .. N |-> Shown(A, y, m)]
    BY <1>4
  <2>3. QED
    BY <2>1, <2>2 DEF Runs
<1>7. ASSUME NEW y \in Runs(A, N)
      PROVE  /\ y \in plan.support /\ y \in Same(y)
             /\ B(y).support = Explained(A)
  <2>1. y \in plan.support /\ y \in Same(y)
    BY DEF Runs
  <2>2. Same(y) = Runs(A, N)
    BY DEF Runs
  <2>3. QED
    BY <1>4, <2>1, <2>2 DEF Explained
<1>8. ASSUME NEW b \in explained
      PROVE  b.support = Explained(A) /\ Explained(A) # {}
  <2>1. PICK y \in plan.support : b = B(y)
    BY <1>2 DEF Branching, B
  <2>2. y \in Runs(A, N)
    BY <1>6, <2>1
  <2>3. QED
    BY <1>7, <2>1, <2>2 DEF Explained
<1>9. ASSUME Explained(A) # {} PROVE \E b \in explained : b.support = Explained(A)
  <2>1. PICK y \in Runs(A, N) : TRUE
    BY <1>9 DEF Explained
  <2>2. B(y) \in branches /\ B(y).trace = outputs
    BY <1>2, <1>6, <1>7 DEF Branching, B
  <2>3. QED
    BY <1>7, <2>2
<1> HIDE DEF explained
<1>10. {b.support : b \in explained} = {Explained(A)} \ {{}}
  BY <1>8, <1>9
<1>11. QED
  BY <1>3, <1>5, <1>10 DEF A

-----------------------------------------------------------------------------
(* The invariant. *)

\* Generations only advance with the model, and one generation has one automaton.
PlanOwned ==
  /\ plan.gen <= model.gen
  /\ Current <=> adopted.unchanged
  /\ Current => adopted.aut = model.aut

PlanSupported == adopted.count > 0 \/ phase # "ready" => plan.support # {}

\* What the two histories say about the world.
LawfulExplained == lawful => place \in Explained(adopted.aut)
TrustedPromised == trusted => place \in Promised(adopted.aut)

\* The last answer is right about the evidence it was given.
AnswerRight == Fresh => RejectsRightly(answer) /\ BlamesRightly(answer)

MonitorInv ==
  TypeOK /\ PlanOwned /\ PlanSupported /\ LawfulExplained /\ TrustedPromised /\ AnswerRight

\* A typed state has a plan and outputs that a monitor can be called with.
LEMMA TypeEvidence ==
  ASSUME TypeOK
  PROVE  /\ Evidence /\ adopted.aut \in Automata /\ model.aut \in Automata
         /\ plan.word \in Seq(Actions) /\ Len(plan.word) \in Nat
<1>1. /\ plan.word \in Words \cup {<<>>} /\ plan.support \in Supports
      /\ adopted.aut \in Models /\ model.aut \in Models
      /\ outputs \in Seq(Outputs) /\ steps <= Len(plan.word)
  BY DEF TypeOK
<1>2. plan.word \in Seq(Actions)
  <2>1. <<>> \in Seq(Actions)
    OBVIOUS
  <2>2. Words \subseteq Seq(Actions)
    BY MonitorAssumption
  <2>3. QED
    BY <1>1, <2>1, <2>2
<1>3. steps \in Nat
  BY <1>1 DEF steps
<1>4. QED
  BY <1>1, <1>2, <1>3, MonitorAssumption DEF Evidence

\* A plan before any evidence.
LEMMA NoEvidence ==
  ASSUME NEW aut \in Automata, NEW s \in Supports, NEW w \in Seq(Actions), NEW y \in s
  PROVE  PlacesFrom(aut, y, w)[0] = y
<1>1. y \in States
  BY DEF Supports
<1>2. QED
  BY <1>1, PlacesFromSound

\* The invariant holds initially.
LEMMA MonitorInit == Init => MonitorInv
<1> SUFFICES ASSUME Init PROVE MonitorInv
  OBVIOUS
<1> USE DEF Init
<1>1. PICK aut \in Models : model = [gen |-> 1, aut |-> aut, prepared |-> FALSE]
  OBVIOUS
<1>2. steps = 0 /\ outputs \in Seq(Outputs)
  BY DEF steps
<1>3. plan.word = <<>> /\ plan.support = {} /\ plan.gen = 0 /\ Len(plan.word) = 0
  OBVIOUS
<1>4. TypeOK
  <2>1. model \in [gen : 1 .. MaxGen, aut : Models, prepared : BOOLEAN]
    BY <1>1, MonitorAssumption
  <2>2. plan \in [gen : 0 .. MaxGen, support : Supports, word : Words \cup {<<>>}]
    BY MonitorAssumption DEF Supports
  <2>3. adopted \in [count : 0 .. MaxPlans, aut : Models, unchanged : BOOLEAN]
    BY <1>1, MonitorAssumption
  <2>4. answer \in [monitor : Monitors, decision : Decisions, report : Reports,
                    expected : Supports, failed : {None} \cup 1 .. Len(plan.word),
                    outputs : SUBSET Outputs]
    BY DEF NoAnswer, Monitors, Decisions, Reports, Supports
  <2>5. /\ place \in States /\ lawful \in BOOLEAN /\ trusted \in BOOLEAN
        /\ phase \in {"ready", "executing", "validating", "waiting", "replanning", "reconciling"}
    OBVIOUS
  <2>6. steps <= Len(plan.word)
    BY <1>2, <1>3
  <2> HIDE DEF Init
  <2>7. QED
    BY <1>2, <2>1, <2>2, <2>3, <2>4, <2>5, <2>6 DEF TypeOK
<1>5. PlanOwned /\ PlanSupported
  BY <1>1 DEF PlanOwned, PlanSupported, Current
<1>6. LawfulExplained /\ TrustedPromised
  BY DEF LawfulExplained, TrustedPromised
<1>7. AnswerRight
  BY DEF AnswerRight, Fresh, NoAnswer
<1>8. QED
  BY <1>4, <1>5, <1>6, <1>7 DEF MonitorInv

\* Every step keeps the types.
LEMMA MonitorTypeStep == MonitorInv /\ [Next]_vars => TypeOK'
<1> SUFFICES ASSUME MonitorInv, [Next]_vars PROVE TypeOK'
  OBVIOUS
<1>1. TypeOK /\ Evidence /\ adopted.aut \in Automata /\ model.aut \in Automata
  BY TypeEvidence DEF MonitorInv
<1>2. CASE Adopt
  <2>1. PICK s \in Supports \ {{}}, w \in Words :
          plan' = [gen |-> model.gen, support |-> s, word |-> w] /\ lawful' = (place \in s)
    BY <1>2 DEF Adopt
  <2>2. adopted' = [count |-> adopted.count + 1, aut |-> model.aut, unchanged |-> TRUE]
        /\ adopted.count < MaxPlans
        /\ outputs' = <<>> /\ trusted' = FALSE /\ phase' = "executing" /\ answer' = NoAnswer
        /\ model' = model /\ place' = place
    BY <1>2 DEF Adopt
  <2>3. adopted.count \in 0 .. MaxPlans /\ model.aut \in Models /\ model.gen \in 1 .. MaxGen
    BY <1>1 DEF TypeOK
  <2>4. adopted' \in [count : 0 .. MaxPlans, aut : Models, unchanged : BOOLEAN]
    BY <2>2, <2>3, MonitorAssumption
  <2>5. plan' \in [gen : 0 .. MaxGen, support : Supports, word : Words \cup {<<>>}]
    BY <2>1, <2>3, MonitorAssumption
  <2>6. w \in Seq(Actions) /\ plan'.word = w
    BY <2>1, MonitorAssumption
  <2>7. Len(plan'.word) \in Nat
    BY <2>6
  <2>8. outputs' \in Seq(Outputs) /\ Len(outputs') = 0
    BY <2>2
  <2>9. answer' \in [monitor : Monitors, decision : Decisions, report : Reports,
                     expected : Supports, failed : {None} \cup 1 .. Len(plan'.word),
                     outputs : SUBSET Outputs]
    BY <2>2 DEF NoAnswer, Monitors, Decisions, Reports, Supports
  <2>10. steps' <= Len(plan'.word)
    BY <2>7, <2>8 DEF steps
  <2>11. place' \in States /\ lawful' \in BOOLEAN /\ trusted' \in BOOLEAN
         /\ model' \in [gen : 1 .. MaxGen, aut : Models, prepared : BOOLEAN]
         /\ phase' \in {"ready", "executing", "validating", "waiting", "replanning", "reconciling"}
    <3>1. lawful' \in BOOLEAN
      BY <2>1
    <3>2. place' \in States /\ model' \in [gen : 1 .. MaxGen, aut : Models, prepared : BOOLEAN]
      BY <1>1, <2>2 DEF TypeOK
    <3>3. QED
      BY <2>2, <3>1, <3>2
  <2>12. QED
    BY <2>4, <2>5, <2>8, <2>9, <2>10, <2>11 DEF TypeOK
<1>3. CASE Commit
  <2>1. PICK o \in Outputs, y \in States :
          /\ outputs' = Append(outputs, o) /\ place' = y
          /\ lawful' = (lawful /\ Follows(place, o, y))
          /\ trusted' = (trusted /\ Follows(place, o, y))
    BY <1>3 DEF Commit
  <2>2. steps < Len(plan.word) /\ phase' = "validating"
        /\ model' = model /\ plan' = plan /\ adopted' = adopted /\ answer' = answer
    BY <1>3 DEF Commit
  <2>3. outputs \in Seq(Outputs) /\ Len(plan.word) \in Nat
    BY <1>1, TypeEvidence DEF TypeOK
  <2>4. outputs' \in Seq(Outputs) /\ Len(outputs') = Len(outputs) + 1
    BY <2>1, <2>3
  <2>5. Len(outputs') <= Len(plan'.word)
    BY <2>2, <2>3, <2>4 DEF steps
  <2>6. lawful' \in BOOLEAN /\ trusted' \in BOOLEAN
    BY <2>1 DEF Follows
  <2>7. QED
    BY <1>1, <2>1, <2>2, <2>4, <2>5, <2>6 DEF TypeOK, steps
<1>4. CASE Validate
  <2>1. PICK monitor \in Monitors, report \in Reports :
          /\ answer' = Answer(monitor, report)
          /\ trusted' = (trusted \/ (answer'.decision \in {"CONTINUE", "REPLAN"} /\ place \in report))
    BY <1>4 DEF Validate
  <2>2. phase' = After(answer'.decision) /\ model' = model /\ plan' = plan
        /\ adopted' = adopted /\ outputs' = outputs /\ place' = place /\ lawful' = lawful
    BY <1>4 DEF Validate
  <2>3. Judged(monitor, report)
    BY <1>1 DEF Judged, MonitorInv, PlanOwned
  <2>4. answer' \in [monitor : Monitors, decision : Decisions, report : Reports,
                     expected : Supports, failed : {None} \cup 1 .. Len(plan.word),
                     outputs : SUBSET Outputs]
    BY <2>1, <2>3, AnswerType
  <2>5. phase' \in {"ready", "executing", "validating", "waiting", "replanning", "reconciling"}
    <3>1. \A d \in Decisions : After(d) \in
            {"ready", "executing", "validating", "waiting", "replanning", "reconciling"}
      BY DEF After, Decisions
    <3>2. answer'.decision \in Decisions
      BY <2>4
    <3>3. QED
      BY <2>2, <3>1, <3>2
  <2>6. trusted' \in BOOLEAN
    BY <2>1
  <2>7. QED
    BY <1>1, <2>2, <2>4, <2>5, <2>6 DEF TypeOK, steps
<1>5. CASE Reconcile
  BY <1>1, <1>5 DEF Reconcile, TypeOK, steps
<1>6. CASE Carried
  BY <1>1, <1>6 DEF Carried, TypeOK, steps
<1>7. CASE Change
  <2>1. PICK aut \in Models, prepared \in {FALSE, model.prepared} : model' = Advanced(aut, prepared)
    BY <1>7 DEF Change
  <2>2. model.gen < MaxGen /\ plan' = plan /\ outputs' = outputs
        /\ adopted' = [adopted EXCEPT !.unchanged = FALSE]
        /\ place' = place /\ lawful' = lawful /\ trusted' = trusted /\ phase' = phase
        /\ answer' = answer
    BY <1>7 DEF Change
  <2>3. model.gen \in 1 .. MaxGen /\ model.prepared \in BOOLEAN
    BY <1>1 DEF TypeOK
  <2>4. model' \in [gen : 1 .. MaxGen, aut : Models, prepared : BOOLEAN]
    <3>1. model.gen + 1 \in 1 .. MaxGen
      BY <2>2, <2>3, MonitorAssumption
    <3>2. prepared \in BOOLEAN
      BY <2>3
    <3>3. QED
      BY <2>1, <3>1, <3>2 DEF Advanced
  <2>5. adopted' \in [count : 0 .. MaxPlans, aut : Models, unchanged : BOOLEAN]
    BY <1>1, <2>2 DEF TypeOK
  <2>6. QED
    BY <1>1, <2>2, <2>4, <2>5 DEF TypeOK, steps
<1>8. CASE Prepare
  <2>1. model' \in [gen : 1 .. MaxGen, aut : Models, prepared : BOOLEAN]
    BY <1>1, <1>8 DEF Prepare, TypeOK
  <2>2. QED
    BY <1>1, <1>8, <2>1 DEF Prepare, TypeOK, steps
<1>9. CASE UNCHANGED vars
  BY <1>1, <1>9 DEF vars, TypeOK, steps
<1>10. QED
  BY <1>2, <1>3, <1>4, <1>5, <1>6, <1>7, <1>8, <1>9 DEF Next

\* Every step keeps plans with their automata.
LEMMA MonitorOwnedStep == MonitorInv /\ [Next]_vars => PlanOwned' /\ PlanSupported'
<1> SUFFICES ASSUME MonitorInv, [Next]_vars PROVE PlanOwned' /\ PlanSupported'
  OBVIOUS
<1>1. /\ plan.gen \in Nat /\ model.gen \in Nat /\ plan.gen <= model.gen
      /\ plan.gen = model.gen <=> adopted.unchanged
      /\ plan.gen = model.gen => adopted.aut = model.aut
      /\ adopted.count > 0 \/ phase # "ready" => plan.support # {}
  BY MonitorAssumption DEF MonitorInv, TypeOK, PlanOwned, PlanSupported, Current
<1>2. CASE Adopt
  <2>1. PICK s \in Supports \ {{}}, w \in Words :
          plan' = [gen |-> model.gen, support |-> s, word |-> w]
    BY <1>2 DEF Adopt
  <2>2. adopted'.aut = model.aut /\ adopted'.unchanged /\ model' = model
    BY <1>2 DEF Adopt
  <2>3. QED
    BY <1>1, <2>1, <2>2 DEF PlanOwned, PlanSupported, Current
<1>3. CASE Change
  <2>1. model'.gen = model.gen + 1 /\ plan' = plan /\ phase' = phase
        /\ adopted'.count = adopted.count /\ ~adopted'.unchanged
    BY <1>3 DEF Change, Advanced, MonitorInv, TypeOK
  <2>2. QED
    BY <1>1, <2>1 DEF PlanOwned, PlanSupported, Current
<1>4. CASE Prepare
  <2>1. model'.gen = model.gen /\ model'.aut = model.aut /\ plan' = plan /\ adopted' = adopted
        /\ phase' = phase
    BY <1>4 DEF Prepare, MonitorInv, TypeOK
  <2>2. QED
    BY <1>1, <2>1 DEF PlanOwned, PlanSupported, Current
<1>5. CASE Commit \/ Validate \/ Reconcile \/ Carried \/ UNCHANGED vars
  <2>1. model' = model /\ plan' = plan /\ adopted' = adopted
    BY <1>5 DEF Commit, Validate, Reconcile, Carried, vars
  <2>2. phase' # "ready" => phase # "ready"
    BY <1>5 DEF Commit, Validate, Reconcile, Carried, vars
  <2>3. QED
    BY <1>1, <2>1, <2>2 DEF PlanOwned, PlanSupported, Current
<1>6. QED
  BY <1>2, <1>3, <1>4, <1>5 DEF Next

\* A run that goes on as the automaton says is where the world is.
LEMMA CommitFollows ==
  ASSUME Evidence, adopted.aut \in Automata, adopted' = adopted, plan' = plan,
         NEW o \in Outputs, NEW y \in States, steps < Len(plan.word),
         outputs' = Append(outputs, o), Follows(place, o, y)
  PROVE  /\ place \in Promised(adopted.aut) => y \in Promised(adopted.aut)'
         /\ place \in Explained(adopted.aut) => y \in Explained(adopted.aut)'
<1> DEFINE A == adopted.aut
           N == steps
           a == plan.word[N + 1]
<1>1. /\ N \in Nat /\ N < Len(plan.word) /\ outputs \in Seq(Outputs) /\ Len(outputs) = N
      /\ plan.support \subseteq States /\ plan.word \in Seq(Actions) /\ Len(plan.word) \in Nat
  BY DEF Evidence, Supports, steps
<1>2. Len(outputs') = N + 1 /\ outputs'[N + 1] = o /\ \A m \in 1 .. N : outputs'[m] = outputs[m]
  BY <1>1
<1>3. steps' = N + 1
  BY <1>2 DEF steps
<1>4. o = A.eta[<<place, a>>] /\ y = A.delta[<<place, a>>]
  BY DEF Follows
<1>5. N + 1 \in 1 .. Len(plan.word)
  BY <1>1
<1>6. \A z \in plan.support : Place(A, z, N + 1) = A.delta[<<Place(A, z, N), a>>]
  <2>1. PICK k \in 1 .. Len(plan.word) : k = N + 1 /\ k - 1 = N
    BY <1>1, <1>5
  <2>2. ASSUME NEW z \in plan.support
        PROVE  Place(A, z, k) = A.delta[<<Place(A, z, k - 1), plan.word[k]>>]
    <3>1. z \in States
      BY <1>1
    <3>2. \A n \in 1 .. Len(plan.word) :
            PlacesFrom(A, z, plan.word)[n]
              = A.delta[<<PlacesFrom(A, z, plan.word)[n - 1], plan.word[n]>>]
      BY <1>1, <3>1, PlacesFromSound
    <3>3. QED
      BY <3>2 DEF Place
  <2>3. QED
    BY <2>1, <2>2
<1>7. \A z \in plan.support : Shown(A, z, N + 1) = A.eta[<<Place(A, z, N), a>>]
  <2>1. PICK k \in 1 .. Len(plan.word) : k = N + 1 /\ k - 1 = N
    BY <1>1, <1>5
  <2>2. \A z \in plan.support : Shown(A, z, k) = A.eta[<<Place(A, z, k - 1), plan.word[k]>>]
    BY DEF Shown
  <2>3. QED
    BY <2>1, <2>2
<1>8. ASSUME NEW z \in plan.support, place = Place(A, z, N) PROVE y = Place(A, z, N + 1)
  BY <1>4, <1>6, <1>8
<1>9. Promised(adopted.aut)' = {Place(A, z, N + 1) : z \in plan.support}
  BY <1>3 DEF Promised, Place
<1>10. place \in Promised(A) => y \in Promised(adopted.aut)'
  BY <1>8, <1>9 DEF Promised
<1>11. Runs(adopted.aut, steps)'
         = {z \in plan.support : \A m \in 1 .. (N + 1) : Shown(A, z, m) = outputs'[m]}
  BY <1>3 DEF Runs, Shown, Place
<1>12. Explained(adopted.aut)' = {Place(A, z, N + 1) : z \in Runs(adopted.aut, steps)'}
  BY <1>3 DEF Explained, Place
<1>13. ASSUME place \in Explained(A) PROVE y \in Explained(adopted.aut)'
  <2>1. PICK z \in Runs(A, N) : place = Place(A, z, N)
    BY <1>13 DEF Explained
  <2>2. z \in plan.support /\ \A m \in 1 .. N : Shown(A, z, m) = outputs[m]
    BY DEF Runs
  <2>3. Shown(A, z, N + 1) = o
    BY <1>4, <1>7, <2>1, <2>2
  <2>4. \A m \in 1 .. (N + 1) : m = N + 1 \/ m \in 1 .. N
    BY <1>1
  <2>5. \A m \in 1 .. (N + 1) : Shown(A, z, m) = outputs'[m]
    BY <1>2, <2>2, <2>3, <2>4
  <2>6. z \in Runs(adopted.aut, steps)'
    BY <1>11, <2>2, <2>5
  <2>7. QED
    BY <1>8, <1>12, <2>1, <2>2, <2>6
<1>14. QED
  BY <1>10, <1>13

\* Where the evidence is the same, the runs are.
LEMMA EvidenceKept ==
  ASSUME plan' = plan, outputs' = outputs, adopted'.aut = adopted.aut
  PROVE  /\ Promised(adopted.aut)' = Promised(adopted.aut)
         /\ Explained(adopted.aut)' = Explained(adopted.aut)
  BY DEF Promised, Explained, Runs, Shown, Place, steps

\* Every step keeps what the histories say about the world.
LEMMA MonitorHistoryStep == MonitorInv /\ [Next]_vars => LawfulExplained' /\ TrustedPromised'
<1> SUFFICES ASSUME MonitorInv, [Next]_vars PROVE LawfulExplained' /\ TrustedPromised'
  OBVIOUS
<1>1. /\ TypeOK /\ Evidence /\ adopted.aut \in Automata /\ model.aut \in Automata
      /\ lawful => place \in Explained(adopted.aut)
      /\ trusted => place \in Promised(adopted.aut)
  BY TypeEvidence DEF MonitorInv, LawfulExplained, TrustedPromised
<1>2. CASE Adopt
  <2>1. PICK s \in Supports \ {{}}, w \in Words :
          plan' = [gen |-> model.gen, support |-> s, word |-> w] /\ lawful' = (place \in s)
    BY <1>2 DEF Adopt
  <2>2. adopted' = [count |-> adopted.count + 1, aut |-> model.aut, unchanged |-> TRUE]
        /\ outputs' = <<>> /\ trusted' = FALSE /\ place' = place
    BY <1>2 DEF Adopt
  <2>3. steps' = 0
    BY <2>2 DEF steps
  <2>4. w \in Seq(Actions)
    BY MonitorAssumption
  <2> DEFINE aut == model.aut
  <2>5. adopted'.aut = aut /\ plan'.support = s /\ plan'.word = w
    BY <2>1, <2>2
  <2>6. Runs(adopted.aut, steps)' = s
    BY <2>3, <2>5 DEF Runs
  <2>7. Explained(adopted.aut)' = {PlacesFrom(aut, y, w)[0] : y \in s}
    BY <2>3, <2>5, <2>6 DEF Explained, Place
  <2>8. \A y \in s : PlacesFrom(aut, y, w)[0] = y
    BY <1>1, <2>4, NoEvidence
  <2>9. place \in s => place' \in Explained(adopted.aut)'
    BY <2>2, <2>7, <2>8
  <2>10. QED
    BY <2>1, <2>2, <2>9 DEF LawfulExplained, TrustedPromised
<1>3. CASE Commit
  <2>1. PICK o \in Outputs, y \in States :
          /\ outputs' = Append(outputs, o) /\ place' = y
          /\ lawful' = (lawful /\ Follows(place, o, y))
          /\ trusted' = (trusted /\ Follows(place, o, y))
    BY <1>3 DEF Commit
  <2>2. steps < Len(plan.word) /\ plan' = plan /\ adopted' = adopted
    BY <1>3 DEF Commit
  <2>3. CASE ~Follows(place, o, y)
    <3>1. ~lawful' /\ ~trusted'
      BY <2>1, <2>3
    <3>2. QED
      BY <3>1 DEF LawfulExplained, TrustedPromised
  <2>4. CASE Follows(place, o, y)
    <3>1. /\ place \in Promised(adopted.aut) => y \in Promised(adopted.aut)'
          /\ place \in Explained(adopted.aut) => y \in Explained(adopted.aut)'
      BY <1>1, <2>1, <2>2, <2>4, CommitFollows
    <3>2. (lawful' => lawful) /\ (trusted' => trusted)
      BY <2>1
    <3>3. QED
      BY <1>1, <2>1, <3>1, <3>2 DEF LawfulExplained, TrustedPromised
  <2>5. QED
    BY <2>3, <2>4
<1>4. CASE Validate
  <2>1. PICK monitor \in Monitors, report \in Reports :
          /\ answer' = Answer(monitor, report)
          /\ trusted' = (trusted \/ (answer'.decision \in {"CONTINUE", "REPLAN"} /\ place \in report))
    BY <1>4 DEF Validate
  <2>2. plan' = plan /\ adopted' = adopted /\ outputs' = outputs /\ place' = place
        /\ lawful' = lawful
    BY <1>4 DEF Validate
  <2>3. Judged(monitor, report)
    BY <1>1 DEF Judged, MonitorInv, PlanOwned
  <2>4. trusted' => place \in Promised(adopted.aut)
    BY <1>1, <2>1, <2>3, AnswerConfirms
  <2>5. QED
    BY <1>1, <2>2, <2>4, EvidenceKept DEF LawfulExplained, TrustedPromised
<1>5. CASE Carried
  BY <1>5 DEF Carried, LawfulExplained, TrustedPromised
<1>6. CASE Reconcile \/ Change \/ Prepare \/ UNCHANGED vars
  <2>1. plan' = plan /\ adopted'.aut = adopted.aut /\ outputs' = outputs /\ place' = place
        /\ lawful' = lawful /\ trusted' = trusted
    BY <1>1, <1>6 DEF Reconcile, Change, Prepare, vars, TypeOK
  <2>2. QED
    BY <1>1, <2>1, EvidenceKept DEF LawfulExplained, TrustedPromised
<1>7. QED
  BY <1>2, <1>3, <1>4, <1>5, <1>6 DEF Next

\* An answer stays right as long as nothing it is about changes.
LEMMA AnswerKept ==
  ASSUME NEW r, plan' = plan, outputs' = outputs, adopted'.aut = adopted.aut
  PROVE  /\ BlamesRightly(r) => BlamesRightly(r)'
         /\ place' = place /\ (lawful' => lawful) /\ RejectsRightly(r) => RejectsRightly(r)'
         /\ ~lawful' => RejectsRightly(r)'
<1>1. BlamesRightly(r)' <=> BlamesRightly(r)
  BY DEF BlamesRightly, prefix, steps
<1>2. place' = place /\ (lawful' => lawful) /\ RejectsRightly(r) => RejectsRightly(r)'
  BY DEF RejectsRightly, Possible, prefix, steps
<1>3. ~lawful' => RejectsRightly(r)'
  BY DEF RejectsRightly
<1>4. QED
  BY <1>1, <1>2, <1>3

\* Every answer is right, and stays so until more is committed.
LEMMA MonitorAnswerStep == MonitorInv /\ [Next]_vars => AnswerRight'
<1> SUFFICES ASSUME MonitorInv, [Next]_vars, Fresh'
             PROVE  RejectsRightly(answer)' /\ BlamesRightly(answer)'
  BY DEF AnswerRight
<1>1. /\ TypeOK /\ Evidence /\ adopted.aut \in Automata /\ model.aut \in Automata
      /\ lawful => place \in Explained(adopted.aut)
      /\ Fresh => RejectsRightly(answer) /\ BlamesRightly(answer)
  BY TypeEvidence DEF MonitorInv, LawfulExplained, AnswerRight
<1>2. ASSUME NEW r, answer' = r, RejectsRightly(r)', BlamesRightly(r)'
      PROVE  RejectsRightly(answer)' /\ BlamesRightly(answer)'
  BY <1>2 DEF RejectsRightly, BlamesRightly
<1>3. CASE Adopt
  <2>1. answer' = NoAnswer
    BY <1>3 DEF Adopt
  <2>2. QED
    BY <2>1 DEF Fresh, NoAnswer
<1>4. CASE Commit
  <2>1. phase' = "validating"
    BY <1>4 DEF Commit
  <2>2. QED
    BY <2>1 DEF Fresh
<1>5. CASE Validate
  <2>1. PICK monitor \in Monitors, report \in Reports : answer' = Answer(monitor, report)
    BY <1>5 DEF Validate
  <2>2. plan' = plan /\ adopted' = adopted /\ outputs' = outputs /\ place' = place
        /\ lawful' = lawful
    BY <1>5 DEF Validate
  <2>3. Judged(monitor, report)
    BY <1>1 DEF Judged, MonitorInv, PlanOwned
  <2>4. PICK r : r = Answer(monitor, report)
    OBVIOUS
  <2>5. RejectsRightly(r) /\ BlamesRightly(r)
    BY <1>1, <2>3, <2>4, AnswerRejects, AnswerBlames
  <2>6. RejectsRightly(r)' /\ BlamesRightly(r)'
    BY <2>2, <2>5, AnswerKept
  <2>7. QED
    BY <1>2, <2>1, <2>4, <2>6
<1>6. CASE Carried \/ Reconcile \/ Change \/ Prepare \/ UNCHANGED vars
  <2>1. plan' = plan /\ adopted'.aut = adopted.aut /\ outputs' = outputs /\ answer' = answer
        /\ ((place' = place /\ lawful' = lawful) \/ ~lawful')
    BY <1>1, <1>6 DEF Carried, Reconcile, Change, Prepare, vars, TypeOK
  <2>2. Fresh
    BY <1>6, <2>1 DEF Carried, Reconcile, Change, Prepare, vars, Fresh
  <2>3. PICK r : r = answer
    OBVIOUS
  <2>4. RejectsRightly(r) /\ BlamesRightly(r)
    BY <1>1, <2>2, <2>3
  <2>5. RejectsRightly(r)' /\ BlamesRightly(r)'
    BY <2>1, <2>4, AnswerKept
  <2>6. QED
    BY <1>2, <2>1, <2>3, <2>5
<1>7. QED
  BY <1>3, <1>4, <1>5, <1>6 DEF Next

\* The invariant holds in every reachable state.
LEMMA MonitorInvAlways == Spec => []MonitorInv
<1>1. MonitorInv /\ [Next]_vars => MonitorInv'
  BY MonitorTypeStep, MonitorOwnedStep, MonitorHistoryStep, MonitorAnswerStep DEF MonitorInv
<1>2. QED
  BY MonitorInit, <1>1, PTL DEF Spec

-----------------------------------------------------------------------------
(* What callers rely on. *)

\* sg_validate_update and sg_validate_observed_update answer what the runs of the
\* automaton call for that the plan was made on, or, just when the model changed or
\* was marked since, that the plan is stale.
THEOREM AlwaysJudgedOnItsModel == Spec => JudgedOnItsModel
<1> DEFINE Asked == (phase' # phase \/ answer' # answer) /\ phase \in {"validating", "waiting"}
<1>1. ASSUME MonitorInv, [Next]_vars, Asked PROVE AnsweredByRuns(answer')
  <2>1. CASE Validate
    <3>1. PICK monitor \in Monitors, report \in Reports : answer' = Answer(monitor, report)
      BY <2>1 DEF Validate
    <3>2. Judged(monitor, report)
      BY <1>1, TypeEvidence DEF Judged, MonitorInv, PlanOwned
    <3>3. plan.support # {} /\ (Current <=> adopted.unchanged)
      BY <1>1 DEF MonitorInv, PlanOwned, PlanSupported
    <3>4. PICK r : r = Answer(monitor, report)
      OBVIOUS
    <3>5. AnsweredByRuns(r)
      BY <3>2, <3>3, <3>4, AnswerByRuns
    <3>6. QED
      BY <3>1, <3>4, <3>5
  <2>2. CASE Adopt \/ Commit \/ Reconcile
    BY <1>1, <2>2 DEF Adopt, Commit, Reconcile
  <2>3. CASE Carried \/ Change \/ Prepare \/ UNCHANGED vars
    BY <1>1, <2>3 DEF Carried, Change, Prepare, vars
  <2>4. QED
    BY <1>1, <2>1, <2>2, <2>3 DEF Next
<1>2. MonitorInv /\ [Next]_vars => [Asked => AnsweredByRuns(answer')]_vars
  BY <1>1
<1>3. QED
  BY MonitorInvAlways, <1>2, PTL DEF Spec, JudgedOnItsModel

\* No false alarm: while the world follows the model, the monitors reject only
\* reports that list a state in which no run of the plan could be.
THEOREM NeverFalseAlarm == Spec => []NoFalseAlarm
<1>1. MonitorInv => NoFalseAlarm
  BY DEF MonitorInv, AnswerRight, RejectsRightly, NoFalseAlarm
<1>2. QED
  BY MonitorInvAlways, <1>1, PTL

\* Once a true report has passed and the world follows the model from there on,
\* the plan ends where its word leads.
THEOREM AlwaysKeepsPromise == Spec => []PromiseKept
<1>1. MonitorInv => PromiseKept
  <2> SUFFICES ASSUME MonitorInv, trusted, steps = Len(plan.word)
               PROVE  place \in {PlacesFrom(adopted.aut, y, plan.word)[steps] : y \in plan.support}
    BY DEF PromiseKept
  <2>1. place \in Promised(adopted.aut)
    BY DEF MonitorInv, TrustedPromised
  <2>2. QED
    BY <2>1 DEF Promised, Place
<1>2. QED
  BY MonitorInvAlways, <1>1, PTL

\* Both monitors and the explanation of a plan give one account of what was
\* executed: where the outputs became impossible, and what was possible there.
THEOREM AnswersAlwaysExplained == Spec => []AnswersExplained
<1>1. MonitorInv => AnswersExplained
  <2> SUFFICES ASSUME MonitorInv PROVE AnswersExplained
    OBVIOUS
  <2>1. TypeOK /\ Evidence /\ adopted.aut \in Automata
    BY TypeEvidence DEF MonitorInv
  <2>2. BlamesFirst
    BY DEF MonitorInv, AnswerRight, BlamesRightly, BlamesFirst
  <2>3. ObservedStricter
    BY <2>1, StricterHolds
  <2>4. MatchesExplanation
    BY <2>1, ExplanationMatches DEF MonitorInv, PlanSupported
  <2>5. QED
    BY <2>1, <2>2, <2>3, <2>4 DEF AnswersExplained
<1>2. QED
  BY MonitorInvAlways, <1>1, PTL
=============================================================================
