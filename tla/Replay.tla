------------------------------- MODULE Replay -------------------------------
(***************************************************************************)
(* examples/live_swap/run.py: the demonstration.  In each stage a task     *)
(* reconciles while the main coroutine offers frames at a pace, served or  *)
(* not by whatever is active; both write records, from which the program   *)
(* itself concludes whether the scene was observed ("PASS" or "MISSING").  *)
(* The question here is whether that conclusion is right, the records      *)
(* being made of reads at different moments.                               *)
(*                                                                         *)
(* Left out: model/input pairs, counts, scores other than their match with *)
(* the reference.                                                          *)
(***************************************************************************)
EXTENDS Scenario

CONSTANTS
  Frames,     \* frames offered in each stage
  Inputs      \* inputs of the workload, offered in turn

ASSUME FramesAssumption == Frames \in Nat \ {0} /\ Inputs \in Nat \ {0}

Policies == << Policy(small), Policy(large) >>

VARIABLES
  stage,       \* index in Phases
  pc,          \* where the main coroutine is
  frame,       \* frames of the stage already offered
  preview,     \* the decision previewed at the start of the stage
  previous,    \* the model active at the start of the stage
  status,      \* status["activation"], shared with the task
  task,        \* the transition task: created, awaiting, done, raised, cancelled
  loader,      \* the executor thread of its load
  active,      \* the slot's model
  captured,    \* the model of the frame being served
  admission,   \* activation_at_admission of that frame
  evidence,    \* the stage's evidence
  scenes,      \* the stages found observed
  hidden,      \* the large model's file is renamed away
  timely,      \* history: a frame was admitted after the transition had ended
  tally        \* the inputs served as the references say, an output that was not,
               \* and (history) a stage without a timely frame

vars == <<stage, pc, frame, preview, previous, status, task, loader, active,
          captured, admission, evidence, scenes, hidden, timely, tally>>

Suspended == {"inferring", "pacing", "awaiting", "cleanup"}
NoEvidence == [activation |-> FALSE, frame |-> FALSE, invalid |-> FALSE]

Battery  == Phases[stage].battery
Fault    == Phases[stage].fault
Name     == Phases[stage].name
Selected == preview.selected

TypeOK ==
  /\ stage \in DOMAIN Phases
  /\ pc \in Suspended \cup {"begin", "offer", "leave", "summary", "closed"}
  /\ frame \in 0..Frames
  /\ {previous, active, captured} \subseteq Refs
  /\ {status, admission} \subseteq {"pending", "failed", "published", "unchanged"}
  /\ task \in {"none", "created", "awaiting", "done", "raised", "cancelled"}
  /\ loader \in {"idle", "queued", "running", "ok", "failed", "unavailable"}
  /\ evidence \in [activation : BOOLEAN, frame : BOOLEAN, invalid : BOOLEAN]
  /\ scenes \subseteq DOMAIN Phases
  /\ hidden \in BOOLEAN /\ timely \in BOOLEAN
  /\ tally \in [inputs : SUBSET (0..(Inputs - 1)), mismatched : BOOLEAN, late : BOOLEAN]

Init ==
  /\ stage = 1 /\ pc = "begin" /\ frame = 0
  /\ preview = Nil /\ previous = Nil /\ status = "pending"
  /\ task = "none" /\ loader = "idle"
  /\ active = Nil /\ captured = Nil /\ admission = "pending"
  /\ evidence = NoEvidence /\ scenes = {}
  /\ hidden = FALSE /\ timely = FALSE
  /\ tally = [inputs |-> {}, mismatched |-> FALSE, late |-> FALSE]
-----------------------------------------------------------------------------
(* What the records are taken to show.                                     *)

Allowed == IF Name = "start-small" THEN {"published", "unchanged"} ELSE {"published"}

\* activation_observed
ActivationObserved(how, decided, now) ==
  CASE Name = "injected-missing-artifact" ->
         /\ how = "failed" /\ now = previous
         /\ previous # Nil /\ Selected # Nil /\ Selected # previous
    [] Name = "no-feasible-model" ->
         /\ how = "unchanged" /\ now = previous
         /\ Selected = Nil /\ decided = Nil
    [] OTHER ->
         /\ how \in Allowed
         /\ Selected # Nil /\ decided = Selected /\ now = Selected
         /\ how = "unchanged" => now = previous

\* MUTANT: the activation as it stands when the frame is recorded.
SceneObservedAtEnd(outcome, served, matches, admitted) ==
  IF Name = "no-feasible-model" THEN outcome = "abstained" /\ Selected = Nil
  ELSE /\ outcome = "ok" /\ matches
       /\ IF Name = "injected-missing-artifact" THEN status = "failed" /\ served = previous
          ELSE status \in Allowed /\ Selected # Nil

\* MUTANT: the stage with the fault is judged like any other.
SceneObservedNoFault(outcome, served, matches, admitted) ==
  IF Name = "no-feasible-model" THEN outcome = "abstained" /\ Selected = Nil
  ELSE /\ outcome = "ok" /\ matches
       /\ admitted \in Allowed /\ Selected # Nil /\ served = Selected

\* scene_observed
SceneObserved(outcome, served, matches, admitted) ==
  IF Name = "no-feasible-model" THEN outcome = "abstained" /\ Selected = Nil
  ELSE /\ outcome = "ok" /\ matches
       /\ IF Name = "injected-missing-artifact"
          THEN /\ admitted = "failed"
               /\ previous # Nil /\ Selected # previous
               /\ served = active /\ served = previous
          ELSE /\ admitted \in Allowed
               /\ Selected # Nil /\ served = Selected

\* observe_scene of a frame record
ObserveFrame(outcome, served, matches) ==
  evidence' = [evidence EXCEPT
    !.frame = @ \/ /\ SceneObserved(outcome, served, matches, admission)
                   /\ evidence.activation \/ Name = "no-feasible-model",
    !.invalid = @ \/ /\ outcome = "ok"
                     /\ Name = "no-feasible-model" \/ ~matches]

\* The scene's verdict at the end of its stage.
Observed == evidence.activation /\ evidence.frame /\ ~evidence.invalid
-----------------------------------------------------------------------------
(* The transition task.                                                    *)

\* The end of transition(): how it ended, what was decided, what is active.
Report(how, decided, now) ==
  /\ status' = how
  /\ evidence' = [evidence EXCEPT !.activation = ActivationObserved(how, decided, now)]

\* The task's first turn, once the main coroutine suspends: reconcile() up to
\* its end, or to the load.
TaskStarts ==
  LET decided == Preview(Policies, active, Battery).selected IN
  /\ pc \in Suspended \ {"cleanup"}
  /\ task = "created"
  /\ IF decided = Nil \/ SameModel(active, decided)
     THEN /\ task' = IF Fault THEN "raised" ELSE "done"
          /\ IF Fault THEN UNCHANGED <<status, evidence>>
                      ELSE Report("unchanged", decided, active)
          /\ UNCHANGED loader
     ELSE /\ task' = "awaiting"
          /\ loader' = "queued"
          /\ UNCHANGED <<status, evidence>>
  /\ UNCHANGED <<stage, pc, frame, preview, previous, active, captured, admission,
                 scenes, hidden, timely, tally>>

LoaderStarts ==
  /\ loader = "queued"
  /\ loader' = IF Selected = large /\ hidden THEN "unavailable" ELSE "running"
  /\ UNCHANGED <<stage, pc, frame, preview, previous, status, task, active, captured,
                 admission, evidence, scenes, hidden, timely, tally>>

LoaderEnds(outcome) ==
  /\ loader = "running"
  /\ loader' = IF task = "awaiting" THEN outcome ELSE "idle"
  /\ UNCHANGED <<stage, pc, frame, preview, previous, status, task, active, captured,
                 admission, evidence, scenes, hidden, timely, tally>>

\* The load is over: publish and report; report the missing file, which only
\* the injected fault excuses; or let any other exception through.
TaskResumes ==
  /\ pc \in Suspended
  /\ task = "awaiting"
  /\ loader \in {"ok", "failed", "unavailable"}
  /\ active' = IF loader = "ok" THEN Selected ELSE active
  /\ task' = IF loader = (IF Fault THEN "unavailable" ELSE "ok") THEN "done" ELSE "raised"
  /\ CASE loader = "ok" /\ ~Fault   -> Report("published", Selected, active')
       [] loader = "unavailable"    -> Report("failed", Selected, active)
       [] OTHER                     -> UNCHANGED <<status, evidence>>
  /\ loader' = "idle"
  /\ UNCHANGED <<stage, pc, frame, preview, previous, captured, admission, scenes,
                 hidden, timely, tally>>
-----------------------------------------------------------------------------
(* The main coroutine.                                                     *)

BeginStage ==
  /\ pc = "begin"
  /\ preview' = Preview(Policies, active, Battery)
  /\ previous' = active
  /\ status' = "pending"
  /\ evidence' = NoEvidence
  /\ hidden' = Fault
  /\ task' = "created"
  /\ frame' = 0
  /\ timely' = FALSE
  /\ pc' = "offer"
  /\ UNCHANGED <<stage, loader, active, captured, admission, scenes, tally>>

\* Nothing may serve this frame: waiting, or abstained.
Decline ==
  /\ pc = "offer"
  /\ ~Feasible(active, preview)
  /\ ObserveFrame(IF Selected = Nil THEN "abstained" ELSE "waiting", Nil, FALSE)
  /\ frame' = frame + 1
  /\ timely' = (timely \/ status # "pending")
  /\ pc' = "pacing"
  /\ UNCHANGED <<stage, preview, previous, status, task, loader, active, captured,
                 admission, scenes, hidden, tally>>

Admit ==
  /\ pc = "offer"
  /\ Feasible(active, preview)
  /\ captured' = active
  /\ admission' = status
  /\ pc' = "inferring"
  /\ UNCHANGED <<stage, frame, preview, previous, status, task, loader, active,
                 evidence, scenes, hidden, timely, tally>>

\* The input of the frame now offered.
Input == ((stage - 1) * Frames + frame) % Inputs

InferReturns(matches) ==
  /\ pc = "inferring"
  /\ tally' = IF matches THEN [tally EXCEPT !.inputs = @ \cup {Input}]
              ELSE [tally EXCEPT !.mismatched = TRUE]
  /\ ObserveFrame("ok", captured, matches)
  /\ frame' = frame + 1
  /\ timely' = (timely \/ admission # "pending")
  /\ captured' = Nil
  /\ admission' = "pending"
  /\ pc' = "pacing"
  /\ UNCHANGED <<stage, preview, previous, status, task, loader, active, scenes, hidden>>

Pace ==
  /\ pc = "pacing"
  /\ pc' = IF frame < Frames THEN "offer" ELSE "awaiting"
  /\ UNCHANGED <<stage, frame, preview, previous, status, task, loader, active,
                 captured, admission, evidence, scenes, hidden, timely, tally>>

\* MUTANT: the stage ends with its transition under way.
AwaitNothing ==
  /\ pc = "awaiting"
  /\ pc' = "leave"
  /\ UNCHANGED <<stage, frame, preview, previous, status, task, loader, active,
                 captured, admission, evidence, scenes, hidden, timely, tally>>

\* "await pending": its exception is the stage's.
AwaitTask ==
  /\ pc = "awaiting"
  /\ task \in {"done", "raised"}
  /\ pc' = IF task = "done" THEN "leave" ELSE "cleanup"
  /\ UNCHANGED <<stage, frame, preview, previous, status, task, loader, active,
                 captured, admission, evidence, scenes, hidden, timely, tally>>

\* "finally" restores the file, the verdict is noted, the next stage begins.
EndStage ==
  /\ pc = "leave"
  /\ hidden' = FALSE
  /\ tally' = [tally EXCEPT !.late = @ \/ ~timely]
  /\ scenes' = IF Observed THEN scenes \cup {stage} ELSE scenes
  /\ IF stage = Len(Phases)
     THEN pc' = "summary" /\ UNCHANGED stage
     ELSE pc' = "begin" /\ stage' = stage + 1
  /\ UNCHANGED <<frame, preview, previous, status, task, loader, active, captured,
                 admission, evidence, timely>>

\* The summary, and with it the exit status.
MissingInputs == 0..(Inputs - 1) \ tally.inputs
complete == scenes = DOMAIN Phases /\ MissingInputs = {}

\* An interrupt, or an inference that raises: on to "finally", which cancels the
\* task; a load still queued is withdrawn unless a thread takes it first.
Abandon ==
  /\ pc \in Suspended \ {"cleanup"}
  /\ pc' = "cleanup"
  /\ task' = IF task \in {"created", "awaiting"} THEN "cancelled" ELSE task
  /\ \/ loader \in {"queued", "running"} /\ loader' = "running"
     \/ loader # "running" /\ loader' = "idle"
  /\ UNCHANGED <<stage, frame, preview, previous, status, active, captured,
                 admission, evidence, scenes, hidden, timely, tally>>

Cleanup ==
  /\ pc = "cleanup"
  /\ hidden' = FALSE
  /\ pc' = "closed"
  /\ UNCHANGED <<stage, frame, preview, previous, status, task, loader, active,
                 captured, admission, evidence, scenes, timely, tally>>

Main ==
  \/ BeginStage \/ Decline \/ Admit \/ Pace \/ AwaitTask \/ EndStage \/ Cleanup
  \/ \E matches \in BOOLEAN : InferReturns(matches)

Threads == LoaderStarts \/ \E outcome \in {"ok", "failed"} : LoaderEnds(outcome)

Task == TaskStarts \/ TaskResumes

Next == Main \/ Threads \/ Task \/ Abandon

Spec == Init /\ [][Next]_vars

-----------------------------------------------------------------------------
(* Properties.                                                             *)

\* The stage's transition really is over, the slot really holds what the scene is
\* about, and the frame was really served by it.
SceneIsReal ==
  CASE Name = "no-feasible-model" ->
         Preview(Policies, active, Battery).selected = Nil /\ active = previous
    [] Name = "injected-missing-artifact" ->
         /\ task = "done" /\ hidden
         /\ active = previous /\ captured = previous /\ Selected # previous
    [] OTHER ->
         /\ task = "done" /\ active = Selected /\ captured = Selected

\* The records' evidence is true of the slot (run.py 149-211): when a frame
\* first counts as the scene's, the scene is real; nothing that was published
\* between admission and record is mistaken for it.
EvidenceIsTrue == [][~evidence.frame /\ evidence'.frame => SceneIsReal]_vars

\* A stage whose frames come late enough is observed: the verdict MISSING always
\* means a frame with a wrong output, or no frame after the transition.
StageMissIsExplained ==
  pc = "leave" /\ ~Observed => evidence.invalid \/ ~timely

\* And a run that is not complete has had an output that differs or a stage of that
\* kind: with twelve frames a stage and twenty inputs (or in that proportion) the
\* stages that can be served from their first frame on go through every input,
\* however long the others wait for their load (run.py 260-269, 316-320).
RunMissIsExplained ==
  pc = "summary" /\ ~tally.mismatched =>
    MissingInputs = {} /\ (~complete => tally.late)

\* Nothing is missed for a reason that is not the program's subject.
NoFalseMiss == StageMissIsExplained /\ RunMissIsExplained

\* Exit status 0 is not given to a run in which any output differed.
CompleteIsClean == pc = "summary" /\ complete => ~tally.mismatched

\* What is admitted may serve under the stage's battery.
FeasibleFrames == pc = "inferring" => MinimumBattery(captured) <= Battery

\* The fault is private to its stage: the file is away while the stage with the
\* fault runs and back on every way out, and no transition outlives its stage.
FaultStaysInStage ==
  /\ hidden => Fault /\ pc \notin {"summary", "closed"}
  /\ pc \in {"begin", "summary", "closed"} => task \notin {"created", "awaiting"} /\ ~hidden

\* A stage keeps its fault and its transition to itself, and its frames feasible.
StageInv == TypeOK /\ FaultStaysInStage /\ FeasibleFrames /\ CompleteIsClean

=============================================================================
