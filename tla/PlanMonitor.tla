----------------------------- MODULE PlanMonitor -----------------------------
(***************************************************************************)
(* The execution of a plan under the two monitors of planner.c, which the  *)
(* procedures validate_update and validate_observed_update offer: a caller *)
(* executes the letters of a word in a world that may do anything, commits *)
(* what it observed, and asks a monitor, with or without a report of the   *)
(* localizer, whether it may go on.  Meanwhile the model changes under it. *)
(*                                                                         *)
(* The monitors keep nothing between calls.  The caller and the world are  *)
(* external: the caller follows the execution lifecycle of README.md.      *)
(***************************************************************************)
EXTENDS PairWords, SequencesExt

CONSTANTS
  Models,    \* automata that the model may have
  Words,     \* words of the plans
  MaxGen,    \* bound: generations
  MaxPlans   \* bound: plans that are adopted

ASSUME MonitorAssumption ==
  /\ Models \subseteq Automata /\ Models # {}
  /\ Words \subseteq Seq(Actions)
  /\ MaxGen \in Nat \ {0} /\ MaxPlans \in Nat
  /\ None \notin States

Monitors == {"motion", "observed"}
Unavailable == {None}  \* the localizer has nothing to report
Reports == Supports \cup {Unavailable}

VARIABLES
  model,     \* generation, automaton, and whether it is prepared
  plan,      \* generation, support and word of the plan that is executed
  adopted,   \* history: number of plans so far, the automaton of this one, and
             \* whether nothing has changed or marked the model since
  outputs,   \* outputs of the letters that were executed and committed
  place,     \* the state the world is in
  lawful,    \* history: the world has followed the model of the plan so far
  trusted,   \* history: a report that held was confirmed, and it did since
  phase,     \* where the caller is in the lifecycle of the execution
  answer     \* the last answer of a monitor

vars == <<model, plan, adopted, outputs, place, lawful, trusted, phase, answer>>

steps == Len(outputs)  \* completed_steps
prefix == SubSeq(plan.word, 1, steps)

-----------------------------------------------------------------------------
(* What the monitors compute. *)

\* sg_validate_update: the image of the support under the completed prefix.
MotionExpected(aut) ==
  LET after[n \in 0 .. steps] ==
        IF n = 0 THEN plan.support ELSE Moved(aut, after[n - 1], plan.word[n])
  IN after[steps]

\* Mutant of Filtered: an impossible output is skipped.
FilteredLeniently(aut) ==
  LET after[n \in 0 .. steps] ==
        IF n = 0 THEN plan.support
        ELSE LET next == Observed(aut, after[n - 1], plan.word[n], outputs[n])
             IN IF next = {} THEN after[n - 1] ELSE next
  IN after

\* sg_validate_observed_update: after each step, what agrees with its output.
Filtered(aut) ==
  LET after[n \in 0 .. steps] ==
        IF n = 0 THEN plan.support
        ELSE Observed(aut, after[n - 1], plan.word[n], outputs[n])
  IN after

Impossible(aut) == {n \in 1 .. steps : Filtered(aut)[n] = {}}

\* Mutant of FailedStep: the last step is blamed.
FailedStepLast(aut) == IF Impossible(aut) = {} THEN None ELSE steps

\* The first output that no state left could show.
FailedStep(aut) == IF Impossible(aut) = {} THEN None ELSE Min(Impossible(aut))

\* sg_monitor_expected_outputs, for the step that failed
ExpectedOutputs(aut) ==
  {o \in Outputs :
     /\ Impossible(aut) # {}
     /\ LET n == Min(Impossible(aut))
        IN o \in Showing(aut, Filtered(aut)[n - 1], plan.word[n])}

Expected(monitor, aut) ==
  IF monitor = "motion" THEN MotionExpected(aut) ELSE Filtered(aut)[steps]

\* Mutant of Compared: a report may list more than is expected.
ComparedLoosely(expected, report) ==
  CASE report = Unavailable -> "WAIT"
    [] expected \subseteq report -> "CONTINUE"
    [] report \subseteq expected -> "REPLAN"
    [] OTHER -> "MODEL_VIOLATION"

Compared(expected, report) ==
  CASE report = Unavailable -> "WAIT"
    [] report = expected -> "CONTINUE"
    [] report \subseteq expected /\ report # expected -> "REPLAN"
    [] OTHER -> "MODEL_VIOLATION"

\* A report cannot make up for an impossible output.
Decision(monitor, aut, report) ==
  IF monitor = "observed" /\ FailedStep(aut) # None THEN "MODEL_VIOLATION"
  ELSE Compared(Expected(monitor, aut), report)

\* Mutant of Current: any generation that is not newer will do.
CurrentOrOlder == plan.gen <= model.gen

Current == plan.gen = model.gen

NoAnswer ==
  [monitor |-> "motion", decision |-> "NONE", report |-> Unavailable,
   expected |-> {}, failed |-> None, outputs |-> {}]

\* Mutant of Answer: the generation of the plan is not looked at.
AnswerUnchecked(monitor, report) ==
  [monitor |-> monitor, report |-> report,
   decision |-> Decision(monitor, model.aut, report),
   expected |-> Expected(monitor, model.aut),
   failed |-> IF monitor = "observed" THEN FailedStep(model.aut) ELSE None,
   outputs |-> IF monitor = "observed" THEN ExpectedOutputs(model.aut) ELSE {}]

Answer(monitor, report) ==
  IF ~Current
  THEN [NoAnswer EXCEPT !.monitor = monitor, !.report = report,
                        !.decision = "STALE_GENERATION"]
  ELSE [monitor |-> monitor, report |-> report,
        decision |-> Decision(monitor, model.aut, report),
        expected |-> Expected(monitor, model.aut),
        failed |-> IF monitor = "observed" THEN FailedStep(model.aut) ELSE None,
        outputs |-> IF monitor = "observed" THEN ExpectedOutputs(model.aut) ELSE {}]

-----------------------------------------------------------------------------
(* The caller. *)

\* Planning, on the model as it is: planners without a cache need no preparation.
\* The support may be wrong.
Adopt ==
  /\ phase \in {"ready", "replanning"} /\ adopted.count < MaxPlans
  /\ \E s \in Supports \ {{}}, w \in Words :
       /\ phase = "replanning" /\ answer.report # {} => s = answer.report
       /\ plan' = [gen |-> model.gen, support |-> s, word |-> w]
       /\ lawful' = (place \in s)
  /\ adopted' = [count |-> adopted.count + 1, aut |-> model.aut, unchanged |-> TRUE]
  /\ outputs' = <<>> /\ trusted' = FALSE
  /\ phase' = "executing" /\ answer' = NoAnswer
  /\ UNCHANGED <<model, place>>

Follows(x, o, y) ==
  LET cell == <<x, plan.word[steps + 1]>>
  IN o = adopted.aut.eta[cell] /\ y = adopted.aut.delta[cell]

\* A letter is executed and committed, whatever the world made of it.
Commit ==
  /\ phase = "executing" /\ steps < Len(plan.word)
  /\ \E o \in Outputs, y \in States :
       /\ outputs' = Append(outputs, o) /\ place' = y
       /\ lawful' = (lawful /\ Follows(place, o, y))
       /\ trusted' = (trusted /\ Follows(place, o, y))
  /\ phase' = "validating"
  /\ UNCHANGED <<model, plan, adopted, answer>>

After(decision) ==
  CASE decision = "CONTINUE" -> IF steps < Len(plan.word) THEN "executing" ELSE "ready"
    [] decision = "WAIT" -> "waiting"
    [] decision = "REPLAN" -> "replanning"
    [] decision = "MODEL_VIOLATION" -> "reconciling"
    [] OTHER -> "ready"  \* STALE_GENERATION

\* validate_update_cb, validate_observed_update_cb: a stale plan is recognized
\* first, then the model has to be prepared.  Only the observed monitor takes
\* an empty report.
Validate ==
  /\ phase \in {"validating", "waiting"}
  /\ Current => model.prepared
  /\ \E monitor \in Monitors, report \in Reports :
       /\ Current /\ monitor = "motion" => report # {}
       /\ answer' = Answer(monitor, report)
       /\ trusted' = (trusted \/ (answer'.decision \in {"CONTINUE", "REPLAN"} /\ place \in report))
  /\ phase' = After(answer'.decision)
  /\ UNCHANGED <<model, plan, adopted, outputs, place, lawful>>

\* The caller resolves an inconsistency, and plans anew.
Reconcile ==
  /\ phase = "reconciling" /\ phase' = "ready"
  /\ UNCHANGED <<model, plan, adopted, outputs, place, lawful, trusted, answer>>

\* The caller may be moved while it has no plan, or waits for a report.
Carried ==
  /\ phase \in {"ready", "waiting"}
  /\ \E y \in States \ {place} : place' = y
  /\ lawful' = FALSE /\ trusted' = FALSE
  /\ UNCHANGED <<model, plan, adopted, outputs, phase, answer>>

-----------------------------------------------------------------------------
(* The model. *)

Advanced(aut, prepared) == [gen |-> model.gen + 1, aut |-> aut, prepared |-> prepared]

\* update_cells with an effective change on a prepared model, or mark_dirty, which
\* advances the generation whether or not an edit came with it
Change ==
  /\ model.gen < MaxGen
  /\ \E aut \in Models, prepared \in {FALSE, model.prepared} :
       /\ prepared => aut # model.aut
       /\ model' = Advanced(aut, prepared)
  /\ adopted' = [adopted EXCEPT !.unchanged = FALSE]
  /\ UNCHANGED <<plan, outputs, place, lawful, trusted, phase, answer>>

Prepare ==
  /\ ~model.prepared /\ model' = [model EXCEPT !.prepared = TRUE]
  /\ UNCHANGED <<plan, adopted, outputs, place, lawful, trusted, phase, answer>>

Init ==
  /\ \E aut \in Models : model = [gen |-> 1, aut |-> aut, prepared |-> FALSE]
  /\ plan = [gen |-> 0, support |-> {}, word |-> <<>>]
  /\ adopted = [count |-> 0, aut |-> model.aut, unchanged |-> FALSE]
  /\ outputs = <<>> /\ place \in States
  /\ lawful = FALSE /\ trusted = FALSE
  /\ phase = "ready" /\ answer = NoAnswer

Next == Adopt \/ Commit \/ Validate \/ Reconcile \/ Carried \/ Change \/ Prepare

Spec == Init /\ [][Next]_vars

-----------------------------------------------------------------------------
(* Properties. *)

Decisions == {"NONE", "WAIT", "CONTINUE", "REPLAN", "MODEL_VIOLATION", "STALE_GENERATION"}

TypeOK ==
  /\ model \in [gen : 1 .. MaxGen, aut : Models, prepared : BOOLEAN]
  /\ plan \in [gen : 0 .. MaxGen, support : Supports, word : Words \cup {<<>>}]
  /\ adopted \in [count : 0 .. MaxPlans, aut : Models, unchanged : BOOLEAN]
  /\ outputs \in Seq(Outputs) /\ steps <= Len(plan.word)
  /\ place \in States /\ lawful \in BOOLEAN /\ trusted \in BOOLEAN
  /\ phase \in {"ready", "executing", "validating", "waiting", "replanning", "reconciling"}
  /\ answer \in [monitor : Monitors, decision : Decisions, report : Reports,
                 expected : Supports, failed : {None} \cup 1 .. Len(plan.word), outputs : SUBSET Outputs]

\* The answer is about the evidence as it is: nothing was committed since.
Fresh == phase # "validating" /\ answer.decision # "NONE"

\* Where runs of the automaton that the plan was made on could be by now: by
\* their motion alone, or those that also show what was observed.
Possible(monitor) ==
  IF monitor = "motion"
  THEN {PlacesFrom(adopted.aut, y, prefix)[steps] : y \in plan.support}
  ELSE Agreeing(adopted.aut, plan.support, prefix, outputs)

\* The table of decisions (README.md:537), in terms of runs.
AnsweredByRuns(r) ==
  LET possible == Possible(r.monitor)
  IN IF ~adopted.unchanged THEN r.decision = "STALE_GENERATION"
     ELSE /\ r.decision # "STALE_GENERATION" /\ r.expected = possible
          /\ r.decision = "WAIT" <=> r.report = Unavailable /\ possible # {}
          /\ r.decision = "CONTINUE" <=> r.report = possible /\ possible # {}
          /\ r.decision = "REPLAN" <=> r.report \subseteq possible /\ r.report # possible

\* "Every generation change makes older plans stale" (README.md): a monitor that
\* is asked again while the model changes, and maybe changes back, compares the
\* report with the runs of the automaton the plan was made on, or calls the plan
\* stale, which it does just when a change or mark_dirty came in between.
JudgedOnItsModel ==
  [][(phase' # phase \/ answer' # answer) /\ phase \in {"validating", "waiting"}
       => AnsweredByRuns(answer')]_vars

\* No false alarm: as long as the world follows the model, a monitor rejects
\* only a report that lists a state no run of the plan could be in.
NoFalseAlarm ==
  lawful /\ Fresh /\ answer.decision = "MODEL_VIOLATION" =>
    \E x \in answer.report \ {None} :
      /\ x # place
      /\ x \notin Possible(answer.monitor)

\* Once a monitor has confirmed a report that was true, the rest of the word leads
\* where the plan promised, even if the world had not followed the model before.
PromiseKept ==
  trusted /\ steps = Len(plan.word) =>
    place \in {PlacesFrom(adopted.aut, y, plan.word)[steps] : y \in plan.support}

\* The observed monitor blames the first step that no run of the plan explains,
\* with the outputs that were possible there.
BlamesFirst ==
  Fresh /\ answer.monitor = "observed" /\ answer.decision \notin {"STALE_GENERATION"} =>
    LET runs(n) ==
          {x \in plan.support :
             SubSeq(TraceFrom(adopted.aut, x, prefix), 1, n) = SubSeq(outputs, 1, n)}
        bad == {n \in 1 .. steps : runs(n) = {}}
    IN IF bad = {} THEN answer.failed = None /\ answer.outputs = {}
       ELSE /\ answer.failed = Min(bad) /\ answer.decision = "MODEL_VIOLATION"
            /\ answer.outputs = {TraceFrom(adopted.aut, x, prefix)[Min(bad)] : x \in runs(Min(bad) - 1)}

\* "Localization cannot override an impossible committed output" (README.md), and
\* no observation lets a report pass that the motion monitor rejects: with the
\* same evidence the observed monitor is at least as strict.
ObservedStricter ==
  \A report \in Reports :
    LET motion == Decision("motion", adopted.aut, report)
        observed == Decision("observed", adopted.aut, report)
    IN /\ motion = "MODEL_VIOLATION" => observed = "MODEL_VIOLATION"
       /\ observed = "CONTINUE" => motion \in {"CONTINUE", "REPLAN"}

\* explain_plan and the monitor describe one plan: the committed outputs are
\* possible just when they are a trace of the explanation, whose branch is then
\* what the monitor expects.
MatchesExplanation ==
  adopted.count > 0 =>
  LET branches == BranchesOf(adopted.aut, plan.support, prefix)
  IN /\ UNION {b.support : b \in branches} = MotionExpected(adopted.aut)
     /\ {b.support : b \in {c \in branches : c.trace = outputs}}
          = {Expected("observed", adopted.aut)} \ {{}}

\* Every answer gives a caller a true account of the execution: where it left
\* the model, with one result from both monitors and the explanation.
AnswersExplained == TypeOK /\ BlamesFirst /\ ObservedStricter /\ MatchesExplanation
=============================================================================
