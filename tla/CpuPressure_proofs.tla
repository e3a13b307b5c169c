-------------------------- MODULE CpuPressure_proofs --------------------------
(***************************************************************************)
(* Proofs about CpuPressure, for any number of workers, any deaths and     *)
(* refusals, and interrupts at any point.  A worker that is dead stays     *)
(* dead, so what the cleanup has found out about the workers it has been   *)
(* to, and the checks about those they have sampled, remains true while    *)
(* they go on to the next.                                                 *)
(*                                                                         *)
(* At the end, the trace of the qualification (EdgeTrace), whose profiles  *)
(* of the cgroup are the ones that the context manager takes too.          *)
(***************************************************************************)
EXTENDS CpuPressure, SequenceTheorems, TLAPS

Places == Working \cup Cleaning \cup {"over"}

CmType ==
  cm \in [pc : Places, at : 1..(Count + 1), before : Sample, after : Sample,
          failure : Failures, unstopped : BOOLEAN,
          raised : Failures \cup {"unreaped", "cut short"}, noted : BOOLEAN,
          open : SUBSET Workers, outlasted : SUBSET Workers]

\* The list has every worker there is, save the one being started.
ListInv ==
  /\ cm.pc = "spawning" => listed = cm.at - 1
  /\ cm.pc \in Working \ {"spawning"} => listed = Count
  /\ \A w \in cm.open : w <= listed

\* What the checks after the block have seen.
FinishInv ==
  /\ cm.pc = "finishing" => /\ \A w \in Workers : Alive(w) => w \in cm.outlasted
                            /\ \A w \in Workers : w < cm.at => /\ w \in cm.outlasted
                                                              /\ cm.after.cpu[w] <= cpu[w]
  /\ cm.pc \in Cleaning \cup {"over"} /\ cm.failure = "none" =>
       \A w \in Workers : w \in cm.outlasted /\ cpu[w] > cm.before.cpu[w]

\* What _reap has done for the workers it has been to.
ReapInv ==
  /\ cm.pc \in {"waiting", "killing"} =>
       \A w \in Workers : w < cm.at => /\ w \notin cm.open
                                       /\ w <= listed /\ Alive(w) => cm.unstopped
  /\ cm.pc = "over" => (cm.raised = "none" => cm.failure = "none")

EndInv == SurvivorsAreReported /\ CleanupReachesAll /\ FirstErrorIsRaised

IInv == TypeOK /\ CmType /\ ListInv /\ FinishInv /\ ReapInv /\ EndInv

-----------------------------------------------------------------------------
LEMMA InitInv == Init => IInv
<1> SUFFICES ASSUME Init PROVE IInv
  OBVIOUS
<1>1. Count \in Nat /\ Count >= 1 /\ MaxTicks \in Nat /\ Workers = 1..Count
  BY PressureAssumption DEF Workers
<1>2. NoSample \in Sample
  BY <1>1 DEF NoSample, Sample
<1>3. CmType
  BY <1>1, <1>2 DEF Init, CmType, Places, Working, Cleaning, Failures
<1>4. TypeOK
  BY <1>1, <1>2 DEF Init, TypeOK, Working, Cleaning, Failures
<1>5. ListInv /\ FinishInv /\ ReapInv /\ EndInv
  BY <1>1 DEF Init, ListInv, FinishInv, ReapInv, EndInv, Working, Cleaning,
              SurvivorsAreReported, CleanupReachesAll, FirstErrorIsRaised, CleanedUp
<1> QED
  BY <1>3, <1>4, <1>5 DEF IInv

\* The processes: the manager aside, none comes to life and no counter goes back.
EnvironmentSteps ==
  /\ UNCHANGED <<listed, cm>>
  /\ \A w \in Workers : Alive(w)' => Alive(w)
  /\ \A w \in Workers : cpu[w] <= cpu'[w]

LEMMA ListedAreWorkers ==
  TypeOK => listed \in Nat /\ \A w \in 1..listed : w \in Workers
<1> SUFFICES ASSUME TypeOK PROVE listed \in Nat /\ \A w \in 1..listed : w \in Workers
  OBVIOUS
<1>1. listed \in 0..Count /\ Count \in Nat
  BY PressureAssumption DEF TypeOK
<1> QED
  BY <1>1 DEF Workers

LEMMA CountersAreNumbers ==
  TypeOK => \A w \in Workers : /\ cpu[w] \in Nat
                                /\ cm.after.cpu[w] \in Nat /\ cm.before.cpu[w] \in Nat
<1> SUFFICES ASSUME TypeOK, NEW w \in Workers
             PROVE  cpu[w] \in Nat /\ cm.after.cpu[w] \in Nat /\ cm.before.cpu[w] \in Nat
  OBVIOUS
<1>1. MaxTicks \in Nat
  BY PressureAssumption
<1>2. /\ cpu \in [Workers -> 0..MaxTicks]
      /\ cm.before.cpu \in [Workers -> 0..MaxTicks]
      /\ cm.after.cpu \in [Workers -> 0..MaxTicks]
  BY DEF TypeOK, Sample
<1> QED
  BY <1>1, <1>2

LEMMA EnvironmentType ==
  ASSUME TypeOK, Environment
  PROVE  TypeOK' /\ EnvironmentSteps
<1>1. MaxTicks \in Nat
  BY PressureAssumption
<1>2. /\ proc \in [Workers -> {"none", "starting", "burning", "dead"}]
      /\ printed \in [Workers -> BOOLEAN]
      /\ cpu \in [Workers -> 0..MaxTicks] /\ throttled \in 0..MaxTicks
  BY DEF TypeOK
<1>3. CASE Throttle
  <2>1. throttled' \in 0..MaxTicks
    BY <1>1, <1>2, <1>3 DEF Throttle
  <2>2. UNCHANGED <<proc, printed, cpu, listed, cm>>
    BY <1>3 DEF Throttle
  <2>3. TypeOK'
    BY <2>1, <2>2 DEF TypeOK
  <2>4. \A w \in Workers : cpu[w] <= cpu'[w]
    BY <2>2, CountersAreNumbers
  <2> QED
    BY <2>2, <2>3, <2>4 DEF EnvironmentSteps, Alive
<1>4. ASSUME NEW v \in Workers, Ready(v) \/ Die(v) PROVE TypeOK' /\ EnvironmentSteps
  <2>1. /\ proc' \in [Workers -> {"none", "starting", "burning", "dead"}]
        /\ printed' \in [Workers -> BOOLEAN]
    BY <1>2, <1>4 DEF Ready, Die
  <2>2. \A w \in Workers : proc'[w] \in {"starting", "burning"} => proc[w] \in {"starting", "burning"}
    BY <1>2, <1>4 DEF Ready, Die, Alive
  <2>3. UNCHANGED <<cpu, throttled, listed, cm>>
    BY <1>4 DEF Ready, Die
  <2>4. TypeOK'
    BY <2>1, <2>3 DEF TypeOK
  <2>5. \A w \in Workers : cpu[w] <= cpu'[w]
    BY <2>3, CountersAreNumbers
  <2> QED
    BY <2>2, <2>3, <2>4, <2>5 DEF EnvironmentSteps, Alive
<1>5. ASSUME NEW v \in Workers, Burn(v) PROVE TypeOK' /\ EnvironmentSteps
  <2>1. cpu[v] + 1 \in 0..MaxTicks
    BY <1>1, <1>2, <1>5, CountersAreNumbers DEF Burn
  <2>2. cpu' \in [Workers -> 0..MaxTicks]
    BY <1>2, <1>5, <2>1 DEF Burn
  <2>3. \A w \in Workers : cpu[w] <= cpu'[w]
    BY <1>2, <1>5, CountersAreNumbers DEF Burn
  <2>4. UNCHANGED <<proc, printed, throttled, listed, cm>>
    BY <1>5 DEF Burn
  <2> QED
    BY <2>2, <2>3, <2>4 DEF TypeOK, EnvironmentSteps, Alive
<1> QED
  BY <1>3, <1>4, <1>5 DEF Environment

LEMMA EnvironmentInv == IInv /\ Environment => IInv'
<1> SUFFICES ASSUME IInv, Environment PROVE IInv'
  OBVIOUS
<1>1. TypeOK' /\ EnvironmentSteps
  BY EnvironmentType DEF IInv
<1>2. CmType' /\ ListInv'
  BY <1>1 DEF IInv, CmType, ListInv, EnvironmentSteps
<1>3. \A w \in Workers : /\ cpu[w] \in Nat /\ cpu'[w] \in Nat
                         /\ cm.after.cpu[w] \in Nat /\ cm.before.cpu[w] \in Nat
  <2>1. cpu' \in [Workers -> 0..MaxTicks] /\ MaxTicks \in Nat
    BY <1>1, PressureAssumption DEF TypeOK
  <2>2. \A w \in Workers : cpu'[w] \in Nat
    BY <2>1
  <2> QED
    BY <2>2, CountersAreNumbers DEF IInv
<1>4. FinishInv'
  <2>1. cm' = cm
    BY <1>1 DEF EnvironmentSteps
  <2>2. ASSUME NEW w \in Workers
        PROVE  /\ cm.after.cpu[w] <= cpu[w] => cm.after.cpu[w] <= cpu'[w]
               /\ cpu[w] > cm.before.cpu[w] => cpu'[w] > cm.before.cpu[w]
               /\ Alive(w)' => Alive(w)
    BY <1>1, <1>3 DEF EnvironmentSteps
  <2> QED
    BY <2>1, <2>2 DEF IInv, FinishInv
<1>5. ReapInv'
  BY <1>1 DEF IInv, ReapInv, EnvironmentSteps
<1>6. EndInv'
  <2>1. \A w \in 1..listed : w \in Workers
    BY ListedAreWorkers DEF IInv
  <2> QED
    BY <1>1, <2>1 DEF IInv, EndInv, SurvivorsAreReported, CleanupReachesAll,
                      FirstErrorIsRaised, CleanedUp, EnvironmentSteps
<1> QED
  BY <1>1, <1>2, <1>4, <1>5, <1>6 DEF IInv

-----------------------------------------------------------------------------
(* The manager's steps.                                                    *)

\* The numbers the manager's places are.
Numbers ==
  /\ Count \in Nat /\ Count >= 1 /\ MaxTicks \in Nat
  /\ cm.at \in Nat /\ cm.at >= 1 /\ cm.at <= Count + 1
  /\ listed \in Nat /\ listed <= Count
  /\ \A w \in Workers : w \in Nat /\ w >= 1 /\ w <= Count
  /\ \A w \in Nat : w >= 1 /\ w <= Count => w \in Workers

LEMMA PlacesAreNumbers == IInv => Numbers
<1> SUFFICES ASSUME IInv PROVE Numbers
  OBVIOUS
<1>1. Count \in Nat /\ Count >= 1 /\ MaxTicks \in Nat
  BY PressureAssumption
<1>2. cm.at \in 1..(Count + 1) /\ listed \in 0..Count
  BY DEF IInv, TypeOK
<1>3. \A w : w \in Workers <=> w \in Nat /\ w >= 1 /\ w <= Count
  BY <1>1 DEF Workers
<1> QED
  BY <1>1, <1>2, <1>3 DEF Numbers

LEMMA SpawnInv == IInv /\ Spawn => IInv'
<1> SUFFICES ASSUME IInv, Spawn PROVE IInv'
  OBVIOUS
<1>0. Numbers /\ cm.pc = "spawning" /\ cm.at \in Workers /\ cm.at <= Count /\ listed = cm.at - 1
  BY PlacesAreNumbers DEF IInv, ListInv, Spawn, At, Workers, Numbers
<1>1. cm' = [cm EXCEPT !.at = cm.at + 1, !.open = cm.open \cup {cm.at}] /\ listed' = cm.at
  BY DEF Spawn
<1>2. cm.at + 1 \in 1..(Count + 1) /\ cm.open \cup {cm.at} \in SUBSET Workers
  <2>1. cm.open \in SUBSET Workers
    BY DEF IInv, CmType
  <2>2. cm.at + 1 \in Nat /\ cm.at + 1 >= 1 /\ cm.at + 1 <= Count + 1
    BY <1>0 DEF Numbers
  <2> QED
    BY <1>0, <2>1, <2>2
<1>3. CmType'
  BY <1>1, <1>2 DEF IInv, CmType
<1>4. /\ cm'.pc = "spawning" /\ cm'.at = cm.at + 1 /\ cm'.open = cm.open \cup {cm.at}
  BY <1>0, <1>1 DEF IInv, CmType
<1>5. TypeOK'
  <2>1. /\ proc' \in [Workers -> {"none", "starting", "burning", "dead"}]
        /\ UNCHANGED <<printed, cpu, throttled>>
    BY DEF IInv, TypeOK, Spawn
  <2>2. listed' \in Nat /\ listed' <= Count
    BY <1>0, <1>1 DEF Numbers
  <2>3. listed' \in 0..Count
    BY <1>0, <2>2 DEF Numbers
  <2> QED
    BY <1>3, <2>1, <2>3 DEF IInv, CmType, TypeOK, Places
<1>6. ListInv'
  <2>1. \A w \in cm.open : w <= cm.at - 1 /\ w \in Nat
    BY <1>0 DEF IInv, ListInv, CmType, Numbers
  <2>2. \A w \in cm'.open : w <= cm.at
    BY <1>0, <1>4, <2>1 DEF Numbers
  <2>3. listed' = cm'.at - 1
    BY <1>0, <1>1, <1>4 DEF Numbers
  <2> QED
    BY <1>1, <1>4, <2>2, <2>3 DEF ListInv
<1>7. FinishInv'
  BY <1>4 DEF FinishInv, Cleaning
<1>8. ReapInv' /\ EndInv'
  BY <1>4 DEF Working, ReapInv, EndInv, SurvivorsAreReported, CleanupReachesAll,
         FirstErrorIsRaised, CleanedUp
<1> QED
  BY <1>3, <1>5, <1>6, <1>7, <1>8 DEF IInv

\* A step that leaves the processes and the list alone.
Quiet == UNCHANGED <<processes, listed>>

LEMMA QuietType ==
  ASSUME IInv, Quiet, CmType'
  PROVE  TypeOK'
  BY DEF IInv, CmType, TypeOK, Quiet, processes, Places

LEMMA QuietProcesses ==
  ASSUME Quiet
  PROVE  \A w \in Workers : (Alive(w)' <=> Alive(w)) /\ cpu'[w] = cpu[w]
  BY DEF Quiet, processes, Alive

\* Before the block, and as the manager turns to cleaning up after a failure.
LEMMA SetupInv ==
  ASSUME IInv, Quiet, CmType',
         cm.pc \in Working,
         \/ cm'.pc \in {"readying", "sampling", "block"}
         \/ cm'.pc = "terminating" /\ cm'.failure # "none",
         cm.pc = "spawning" /\ cm'.pc # "terminating" => cm.at > Count,
         cm'.open = cm.open
  PROVE  IInv'
<1>1. TypeOK'
  BY QuietType
<1>2. ListInv'
  BY PlacesAreNumbers DEF IInv, ListInv, Quiet, Working, Numbers
<1>3. FinishInv'
  BY DEF FinishInv, Cleaning
<1>4. ReapInv' /\ EndInv'
  BY DEF ReapInv, EndInv, SurvivorsAreReported, CleanupReachesAll, FirstErrorIsRaised, CleanedUp
<1> QED
  BY <1>1, <1>2, <1>3, <1>4 DEF IInv

LEMMA SetupStep ==
  ASSUME IInv,
         \/ FindReady \/ SampleBefore \/ SetupOrCheckRaises \/ BlockRaises
         \/ NextStage /\ cm.pc \in {"spawning", "readying", "sampling"}
  PROVE  IInv'
<1>0. Numbers /\ cm.at \in 1..(Count + 1) /\ 1 \in 1..(Count + 1)
  <2>1. Numbers /\ cm.at \in 1..(Count + 1)
    BY PlacesAreNumbers DEF IInv, CmType
  <2> QED
    BY <2>1 DEF Numbers
<1>1. CASE FindReady
  <2>1. cm' = [cm EXCEPT !.at = cm.at + 1] /\ Quiet /\ cm.pc = "readying" /\ cm.at <= Count
    BY <1>0, <1>1 DEF FindReady, At, Done, Quiet, Numbers
  <2>2. cm.at + 1 \in 1..(Count + 1)
    BY <1>0, <2>1 DEF Numbers
  <2>3. CmType' /\ cm'.pc = "readying" /\ cm'.open = cm.open
    BY <2>1, <2>2 DEF IInv, CmType
  <2> QED
    BY <2>1, <2>3, SetupInv DEF Working
<1>2. CASE SampleBefore
  <2>1. /\ cm' = [[cm EXCEPT !.before.cpu[cm.at] = cpu[cm.at]] EXCEPT !.at = cm.at + 1]
        /\ Quiet /\ cm.pc = "sampling" /\ cm.at \in Workers
    BY <1>2 DEF SampleBefore, At, Done, Quiet, Workers, IInv, CmType
  <2>2. cm.at + 1 \in 1..(Count + 1)
    BY <1>0, <2>1 DEF Numbers
  <2>3. [cm.before EXCEPT !.cpu[cm.at] = cpu[cm.at]] \in Sample
    BY <2>1 DEF IInv, TypeOK, Sample
  <2>4. /\ cm' = [cm EXCEPT !.before = [cm.before EXCEPT !.cpu[cm.at] = cpu[cm.at]],
                            !.at = cm.at + 1]
    BY <2>1 DEF IInv, CmType
  <2>5. CmType' /\ cm'.pc = "sampling" /\ cm'.open = cm.open
    BY <2>1, <2>2, <2>3, <2>4 DEF IInv, CmType
  <2> QED
    BY <2>1, <2>5, SetupInv DEF Working
<1>3. CASE SetupOrCheckRaises
  <2>1. /\ cm' = [cm EXCEPT !.failure = cm.pc, !.pc = "terminating", !.at = 1] /\ Quiet
        /\ cm.pc \in Working
    BY <1>3 DEF SetupOrCheckRaises, Enter, Quiet, IInv, CmType
  <2>2. CmType' /\ cm'.pc = "terminating" /\ cm'.failure = cm.pc /\ cm'.open = cm.open
    BY <1>0, <2>1 DEF IInv, CmType, Failures, Places, Cleaning
  <2> QED
    BY <2>1, <2>2, SetupInv DEF Working
<1>4. CASE BlockRaises
  <2>1. /\ cm' = [cm EXCEPT !.failure = "block", !.pc = "terminating", !.at = 1] /\ Quiet
        /\ cm.pc = "block"
    BY <1>4 DEF BlockRaises, Enter, Quiet, IInv, CmType
  <2>2. CmType' /\ cm'.pc = "terminating" /\ cm'.failure = "block" /\ cm'.open = cm.open
    BY <1>0, <2>1 DEF IInv, CmType, Failures, Places, Cleaning, Working
  <2> QED
    BY <2>1, <2>2, SetupInv DEF Working
<1>5. CASE NextStage /\ cm.pc \in {"spawning", "readying"}
  <2>1. /\ \E stage \in {"readying", "sampling"} : cm' = [cm EXCEPT !.pc = stage, !.at = 1]
        /\ Quiet /\ cm.at > Count
    BY <1>5 DEF NextStage, Enter, Quiet
  <2>2. CmType' /\ cm'.pc \in {"readying", "sampling"} /\ cm'.open = cm.open
    BY <1>0, <2>1 DEF IInv, CmType, Places, Working
  <2> QED
    BY <1>5, <2>1, <2>2, SetupInv DEF Working
<1>6. CASE NextStage /\ cm.pc = "sampling"
  <2>1. /\ cm' = [cm EXCEPT !.before = [cm.before EXCEPT !.throttled = throttled],
                            !.pc = "block", !.at = 1]
        /\ Quiet
    BY <1>6 DEF NextStage, Enter, Quiet, IInv, CmType
  <2>2. [cm.before EXCEPT !.throttled = throttled] \in Sample
    BY DEF IInv, TypeOK, Sample
  <2>3. CmType' /\ cm'.pc = "block" /\ cm'.open = cm.open
    BY <1>0, <2>1, <2>2 DEF IInv, CmType, Places, Working
  <2> QED
    BY <1>6, <2>1, <2>3, SetupInv DEF Working
<1> QED
  BY <1>1, <1>2, <1>3, <1>4, <1>5, <1>6
\* What the checks see and find.
LEMMA CheckStep ==
  ASSUME IInv, BlockEnds \/ SampleAfter \/ (NextStage /\ cm.pc = "finishing")
  PROVE  IInv'
<1>0. Numbers /\ cm.at \in 1..(Count + 1) /\ 1 \in 1..(Count + 1)
  <2>1. Numbers /\ cm.at \in 1..(Count + 1)
    BY PlacesAreNumbers DEF IInv, CmType
  <2> QED
    BY <2>1 DEF Numbers
<1>1. ASSUME Quiet, CmType', cm.pc \in {"block", "finishing"},
             cm'.pc \in {"finishing", "terminating"}, cm'.open = cm.open, FinishInv'
      PROVE  IInv'
  <2>1. TypeOK'
    BY <1>1, QuietType
  <2>2. ListInv'
    BY <1>1 DEF IInv, ListInv, Quiet, Working
  <2>3. ReapInv' /\ EndInv'
    BY <1>1 DEF ReapInv, EndInv, SurvivorsAreReported, CleanupReachesAll, FirstErrorIsRaised,
                CleanedUp
  <2> QED
    BY <1>1, <2>1, <2>2, <2>3 DEF IInv
<1>2. CASE BlockEnds
  <2> DEFINE living == {w \in Workers : Alive(w)}
  <2>1. /\ cm' = [cm EXCEPT !.after = [cm.after EXCEPT !.throttled = throttled],
                            !.outlasted = living, !.pc = "finishing", !.at = 1]
        /\ Quiet /\ cm.pc = "block"
    BY <1>2 DEF BlockEnds, Enter, Quiet, IInv, CmType
  <2>2. [cm.after EXCEPT !.throttled = throttled] \in Sample /\ living \in SUBSET Workers
    BY DEF IInv, TypeOK, Sample
  <2>3. \A w \in Workers : Alive(w) => w \in living
    OBVIOUS
  <2> HIDE DEF living
  <2>4. /\ CmType' /\ cm'.pc = "finishing" /\ cm'.open = cm.open
        /\ cm'.outlasted = living /\ cm'.at = 1
    BY <1>0, <2>1, <2>2 DEF IInv, CmType, Places, Working
  <2>5. \A w \in Workers : ~(w < 1)
    BY <1>0 DEF Numbers
  <2>6. FinishInv'
    BY <2>1, <2>3, <2>4, <2>5, QuietProcesses DEF FinishInv, Cleaning
  <2> QED
    BY <1>1, <2>1, <2>4, <2>6
<1>3. CASE SampleAfter
  <2>1. /\ cm' = [[cm EXCEPT !.after.cpu[cm.at] = cpu[cm.at]] EXCEPT !.at = cm.at + 1]
        /\ Quiet /\ cm.pc = "finishing" /\ cm.at \in Workers /\ Alive(cm.at)
    BY <1>3 DEF SampleAfter, At, Done, Quiet, Workers, IInv, CmType
  <2>2. cm.at + 1 \in 1..(Count + 1)
    BY <1>0, <2>1 DEF Numbers
  <2> DEFINE after == [cm.after EXCEPT !.cpu[cm.at] = cpu[cm.at]]
  <2>3. /\ after \in Sample
        /\ \A w \in Workers : after.cpu[w] = IF w = cm.at THEN cpu[w] ELSE cm.after.cpu[w]
    BY <2>1 DEF IInv, TypeOK, Sample
  <2>4. cm' = [cm EXCEPT !.after = after, !.at = cm.at + 1]
    BY <2>1 DEF IInv, CmType
  <2> HIDE DEF after
  <2>5. /\ CmType' /\ cm'.pc = "finishing" /\ cm'.open = cm.open
        /\ cm'.after = after /\ cm'.at = cm.at + 1 /\ cm'.outlasted = cm.outlasted
    BY <2>1, <2>2, <2>3, <2>4 DEF IInv, CmType
  <2>6. ASSUME NEW w \in Workers, w < cm.at + 1
        PROVE  w \in cm.outlasted /\ after.cpu[w] <= cpu[w]
    <3>1. CASE w = cm.at
      BY <2>1, <2>3, <3>1, CountersAreNumbers DEF IInv, FinishInv
    <3>2. CASE w # cm.at
      <4>1. w < cm.at
        BY <1>0, <2>6, <3>2 DEF Numbers
      <4> QED
        BY <2>1, <2>3, <3>2, <4>1 DEF IInv, FinishInv
    <3> QED
      BY <3>1, <3>2
  <2>7. \A w \in Workers : Alive(w) => w \in cm.outlasted
    BY <2>1 DEF IInv, FinishInv
  <2>8. FinishInv'
    BY <2>1, <2>5, <2>6, <2>7, QuietProcesses DEF FinishInv, Cleaning
  <2> QED
    BY <1>1, <2>1, <2>5, <2>8
<1>4. CASE NextStage /\ cm.pc = "finishing"
  <2>1. /\ cm' = [cm EXCEPT !.pc = "terminating", !.at = 1]
        /\ Quiet /\ cm.at > Count /\ Contended
    BY <1>4 DEF NextStage, Enter, Quiet
  <2>2. /\ CmType' /\ cm'.pc = "terminating" /\ cm'.open = cm.open
        /\ cm'.before = cm.before /\ cm'.outlasted = cm.outlasted
    BY <1>0, <2>1 DEF IInv, CmType, Places, Cleaning
  <2>3. ASSUME NEW w \in Workers
        PROVE  w \in cm.outlasted /\ cpu[w] > cm.before.cpu[w]
    <3>1. w < cm.at
      BY <1>0, <2>1 DEF Numbers
    <3>2. w \in cm.outlasted /\ cm.after.cpu[w] <= cpu[w] /\ cm.after.cpu[w] > cm.before.cpu[w]
      BY <1>4, <2>1, <3>1 DEF IInv, FinishInv, Contended
    <3> QED
      BY <3>2, CountersAreNumbers DEF IInv
  <2>4. FinishInv'
    BY <2>1, <2>2, <2>3, QuietProcesses DEF FinishInv
  <2> QED
    BY <1>1, <1>4, <2>1, <2>2, <2>4
<1> QED
  BY <1>2, <1>3, <1>4

\* A process that is started for nobody is on nobody's list.
LEMMA InterruptInv == IInv /\ Interrupt => IInv'
<1> SUFFICES ASSUME IInv, Interrupt PROVE IInv'
  OBVIOUS
<1>1. /\ cm' = [cm EXCEPT !.pc = "terminating", !.at = 1, !.failure = "interrupt"]
      /\ UNCHANGED <<printed, cpu, throttled, listed>>
      /\ cm.pc \in Working
  BY DEF Interrupt
<1>2. /\ CmType' /\ cm'.pc = "terminating" /\ cm'.failure = "interrupt" /\ cm'.open = cm.open
  <2>1. 1 \in 1..(Count + 1)
    BY PressureAssumption
  <2> QED
    BY <1>1, <2>1 DEF IInv, CmType, Places, Cleaning, Failures
<1>3. TypeOK'
  <2>1. proc' \in [Workers -> {"none", "starting", "burning", "dead"}]
    BY DEF IInv, TypeOK, Interrupt
  <2> QED
    BY <1>1, <1>2, <2>1 DEF IInv, CmType, TypeOK, Places
<1>4. ListInv'
  BY <1>1, <1>2 DEF IInv, ListInv, Working
<1>5. FinishInv'
  BY <1>2 DEF FinishInv
<1>6. ReapInv' /\ EndInv'
  BY <1>2 DEF ReapInv, EndInv, SurvivorsAreReported, CleanupReachesAll, FirstErrorIsRaised,
              CleanedUp
<1> QED
  BY <1>2, <1>3, <1>4, <1>5, <1>6 DEF IInv

-----------------------------------------------------------------------------
(* The cleanup.                                                            *)

\* It leaves what the checks have found alone.
LEMMA CleanupKeeps ==
  ASSUME IInv, Quiet, CmType', cm.pc \in Cleaning, cm'.pc \in Cleaning \cup {"over"},
         cm'.open \subseteq cm.open, cm'.failure = cm.failure, cm'.before = cm.before,
         cm'.outlasted = cm.outlasted,
         ReapInv', EndInv'
  PROVE  IInv'
<1>1. TypeOK'
  BY QuietType
<1>2. ListInv'
  BY DEF IInv, ListInv, Quiet, Working, Cleaning
<1>3. FinishInv'
  BY QuietProcesses DEF IInv, FinishInv, Cleaning
<1> QED
  BY <1>1, <1>2, <1>3 DEF IInv

\* Nothing is promised before it is over.
LEMMA NotOver ==
  ASSUME cm'.pc \in Cleaning
  PROVE  EndInv'
  BY DEF EndInv, SurvivorsAreReported, CleanupReachesAll, FirstErrorIsRaised, CleanedUp, Cleaning

LEMMA TerminateStep ==
  ASSUME IInv, Terminate \/ (NextStage /\ cm.pc = "terminating")
  PROVE  IInv'
<1>0. Numbers /\ cm.at \in 1..(Count + 1) /\ 1 \in 1..(Count + 1)
  <2>1. Numbers /\ cm.at \in 1..(Count + 1)
    BY PlacesAreNumbers DEF IInv, CmType
  <2> QED
    BY <2>1 DEF Numbers
<1>1. CASE Terminate
  <2>1. PICK refused \in BOOLEAN :
          cm' = [cm EXCEPT !.unstopped = cm.unstopped \/ refused, !.at = cm.at + 1]
    BY <1>1 DEF Terminate, Done, Alive, IInv, CmType
  <2>2. Quiet /\ cm.pc = "terminating" /\ cm.at <= listed
    BY <1>0, <1>1 DEF Terminate, At, Done, Quiet, Numbers
  <2>3. cm.at + 1 \in 1..(Count + 1)
    BY <1>0, <2>2 DEF Numbers
  <2>4. (cm.unstopped \/ refused) \in BOOLEAN
    OBVIOUS
  <2>5. /\ CmType' /\ cm'.pc = "terminating" /\ cm'.open = cm.open
        /\ cm'.failure = cm.failure /\ cm'.before = cm.before /\ cm'.outlasted = cm.outlasted
    BY <2>1, <2>2, <2>3, <2>4 DEF IInv, CmType
  <2>6. ReapInv'
    BY <2>5 DEF ReapInv
  <2> QED
    BY <2>2, <2>5, <2>6, NotOver, CleanupKeeps DEF Cleaning
<1>2. CASE NextStage /\ cm.pc = "terminating"
  <2>1. cm' = [cm EXCEPT !.pc = "waiting", !.at = 1] /\ Quiet
    BY <1>2 DEF NextStage, Enter, Quiet
  <2>2. /\ CmType' /\ cm'.pc = "waiting" /\ cm'.at = 1 /\ cm'.open = cm.open
        /\ cm'.failure = cm.failure /\ cm'.before = cm.before /\ cm'.outlasted = cm.outlasted
    BY <1>0, <2>1 DEF IInv, CmType, Places, Cleaning
  <2>3. \A w \in Workers : ~(w < 1)
    BY <1>0 DEF Numbers
  <2>4. ReapInv'
    BY <2>2, <2>3 DEF ReapInv
  <2> QED
    BY <1>2, <2>1, <2>2, <2>4, NotOver, CleanupKeeps DEF Cleaning
<1> QED
  BY <1>1, <1>2

LEMMA ReapStep ==
  ASSUME IInv, Reap \/ Kill \/ GiveUp
  PROVE  IInv'
<1>0. Numbers /\ cm.pc \in {"waiting", "killing"} /\ cm.at \in Workers /\ cm.at <= listed /\ Quiet
  <2>1. Numbers
    BY PlacesAreNumbers
  <2>2. cm.pc \in {"waiting", "killing"} /\ cm.at \in 1..listed /\ Quiet
    BY DEF Reap, Kill, GiveUp, At, Done, Quiet
  <2> QED
    BY <2>1, <2>2 DEF Numbers
<1>1. \A w \in Workers : w < cm.at => /\ w \notin cm.open
                                      /\ w <= listed /\ Alive(w) => cm.unstopped
  BY <1>0 DEF IInv, ReapInv
<1>2. CASE Kill
  <2>1. cm' = [cm EXCEPT !.pc = "killing"]
    BY <1>2 DEF Kill
  <2>2. /\ CmType' /\ cm'.pc = "killing" /\ cm'.at = cm.at /\ cm'.open = cm.open
        /\ cm'.failure = cm.failure /\ cm'.before = cm.before /\ cm'.outlasted = cm.outlasted
        /\ cm'.unstopped = cm.unstopped
    BY <2>1 DEF IInv, CmType, Places, Cleaning
  <2>3. ReapInv'
    BY <1>0, <1>1, <2>2, QuietProcesses DEF ReapInv, Quiet
  <2> QED
    BY <1>0, <2>2, <2>3, NotOver, CleanupKeeps DEF Cleaning
<1>3. CASE Reap \/ GiveUp
  <2>1. PICK unstopped \in BOOLEAN :
          /\ cm' = [cm EXCEPT !.pc = "waiting", !.open = cm.open \ {cm.at},
                              !.unstopped = unstopped, !.at = cm.at + 1]
          /\ cm.unstopped => unstopped
          /\ Alive(cm.at) => unstopped
    <3>1. CASE Reap
      <4>1. /\ cm' = [cm EXCEPT !.pc = "waiting", !.open = cm.open \ {cm.at},
                                !.unstopped = cm.unstopped, !.at = cm.at + 1]
            /\ cm.unstopped \in BOOLEAN /\ ~Alive(cm.at)
        BY <3>1 DEF Reap, Done, Closed, IInv, CmType
      <4> QED
        BY <4>1
    <3>2. CASE GiveUp
      <4>1. cm' = [cm EXCEPT !.pc = "waiting", !.open = cm.open \ {cm.at},
                             !.unstopped = TRUE, !.at = cm.at + 1]
        BY <3>2 DEF GiveUp, Done, Closed, IInv, CmType
      <4> QED
        BY <4>1
    <3> QED
      BY <1>3, <3>1, <3>2
  <2>2. cm.at + 1 \in 1..(Count + 1)
    BY <1>0 DEF Numbers
  <2>3. /\ CmType' /\ cm'.pc = "waiting" /\ cm'.at = cm.at + 1
        /\ cm'.open = cm.open \ {cm.at} /\ cm'.unstopped = unstopped
        /\ cm'.failure = cm.failure /\ cm'.before = cm.before /\ cm'.outlasted = cm.outlasted
    BY <2>1, <2>2 DEF IInv, CmType, Places, Cleaning
  <2>4. \A w \in Workers : w < cm.at + 1 => w < cm.at \/ w = cm.at
    BY <1>0 DEF Numbers
  <2>5. ReapInv'
    BY <1>0, <1>1, <2>1, <2>3, <2>4, QuietProcesses DEF ReapInv, Quiet
  <2> QED
    BY <1>0, <2>3, <2>5, NotOver, CleanupKeeps DEF Cleaning
<1> QED
  BY <1>2, <1>3

LEMMA LeaveInv == IInv /\ Leave => IInv'
<1> SUFFICES ASSUME IInv, Leave PROVE IInv'
  OBVIOUS
<1>0. Numbers /\ 1 \in 1..(Count + 1)
  <2>1. Numbers
    BY PlacesAreNumbers
  <2> QED
    BY <2>1 DEF Numbers
<1>1. PICK raised \in Failures \cup {"unreaped"}, noted \in BOOLEAN :
        /\ cm' = [cm EXCEPT !.raised = raised, !.noted = noted, !.pc = "over", !.at = 1]
        /\ cm.failure # "none" => raised = cm.failure
        /\ raised = "none" => cm.failure = "none"
        /\ cm.unstopped => raised = "unreaped" \/ noted
  <2>1. CASE cm.unstopped /\ cm.failure = "none"
    <3>1. cm' = [cm EXCEPT !.raised = "unreaped", !.noted = cm.noted, !.pc = "over", !.at = 1]
      BY <2>1 DEF Leave, Enter, IInv, CmType
    <3>2. cm.noted \in BOOLEAN
      BY DEF IInv, CmType
    <3> QED
      BY <2>1, <3>1, <3>2
  <2>2. CASE ~(cm.unstopped /\ cm.failure = "none")
    <3>1. cm' = [cm EXCEPT !.raised = cm.failure, !.noted = cm.unstopped, !.pc = "over", !.at = 1]
      BY <2>2 DEF Leave, Enter, IInv, CmType
    <3>2. cm.unstopped \in BOOLEAN /\ cm.failure \in Failures
      BY DEF IInv, CmType
    <3> QED
      BY <2>2, <3>1, <3>2
  <2> QED
    BY <2>1, <2>2
<1>2. Quiet /\ cm.pc = "waiting" /\ cm.at > listed
  BY DEF Leave, Enter, Quiet
<1>3. /\ CmType' /\ cm'.pc = "over" /\ cm'.raised = raised /\ cm'.noted = noted
      /\ cm'.open = cm.open /\ cm'.failure = cm.failure /\ cm'.before = cm.before
      /\ cm'.outlasted = cm.outlasted
  BY <1>0, <1>1 DEF IInv, CmType, Places
<1>4. ReapInv'
  BY <1>1, <1>3 DEF ReapInv
<1>5. \A w \in 1..listed : Alive(w) => cm.unstopped
  <2>1. ASSUME NEW w \in 1..listed PROVE w \in Workers /\ w < cm.at /\ w <= listed
    BY <1>0, <1>2, ListedAreWorkers DEF IInv, Numbers
  <2> QED
    BY <1>2, <2>1 DEF IInv, ReapInv
<1>6. cm.open = {}
  <2>1. ASSUME NEW w \in cm.open PROVE FALSE
    <3>1. w \in Workers /\ w <= listed
      BY DEF IInv, CmType, ListInv
    <3>2. w < cm.at
      BY <1>0, <1>2, <3>1 DEF Numbers
    <3> QED
      BY <1>2, <3>1, <3>2 DEF IInv, ReapInv
  <2> QED
    BY <2>1
<1>7. EndInv'
  <2>1. SurvivorsAreReported'
    <3>1. \A w \in 1..listed : Alive(w)' => Alive(w)
      BY <1>2 DEF Quiet, processes, Alive
    <3>2. listed' = listed
      BY <1>2 DEF Quiet
    <3> QED
      BY <1>1, <1>3, <1>5, <3>1, <3>2 DEF SurvivorsAreReported
  <2>2. CleanupReachesAll' /\ FirstErrorIsRaised'
    BY <1>1, <1>3, <1>6 DEF CleanupReachesAll, FirstErrorIsRaised
  <2> QED
    BY <2>1, <2>2 DEF EndInv
<1> QED
  BY <1>2, <1>3, <1>4, <1>7, CleanupKeeps DEF Cleaning

\* A cleanup that is cut short promises nothing.
LEMMA CutShortInv == IInv /\ InterruptCleanup => IInv'
<1> SUFFICES ASSUME IInv, InterruptCleanup PROVE IInv'
  OBVIOUS
<1>0. 1 \in 1..(Count + 1)
  BY PressureAssumption
<1>1. PICK open \in SUBSET cm.open :
        cm' = [cm EXCEPT !.raised = "cut short", !.open = open, !.pc = "over", !.at = 1]
  <2>1. CASE cm.pc = "terminating"
    <3>1. cm' = [cm EXCEPT !.raised = "cut short", !.open = cm.open, !.pc = "over", !.at = 1]
      BY <2>1 DEF InterruptCleanup, Enter, IInv, CmType
    <3> QED
      BY <3>1
  <2>2. CASE cm.pc # "terminating"
    <3>1. cm' = [cm EXCEPT !.raised = "cut short", !.open = cm.open \ {cm.at}, !.pc = "over",
                           !.at = 1]
      BY <2>2 DEF InterruptCleanup, Enter, IInv, CmType
    <3> QED
      BY <3>1
  <2> QED
    BY <2>1, <2>2
<1>2. Quiet /\ cm.pc \in Cleaning
  BY DEF InterruptCleanup, Enter, Quiet
<1>3. open \in SUBSET Workers
  BY <1>1 DEF IInv, CmType
<1>4. /\ CmType' /\ cm'.pc = "over" /\ cm'.raised = "cut short" /\ cm'.open = open
      /\ cm'.failure = cm.failure /\ cm'.before = cm.before /\ cm'.outlasted = cm.outlasted
  BY <1>0, <1>1, <1>3 DEF IInv, CmType, Places
<1>5. ReapInv' /\ EndInv'
  BY <1>4 DEF ReapInv, EndInv, SurvivorsAreReported, CleanupReachesAll, FirstErrorIsRaised,
              CleanedUp
<1> QED
  BY <1>1, <1>2, <1>4, <1>5, CleanupKeeps

-----------------------------------------------------------------------------
(* The theorems.                                                           *)

LEMMA StepInv == IInv /\ [Next]_vars => IInv'
<1> SUFFICES ASSUME IInv, [Next]_vars PROVE IInv'
  OBVIOUS
<1>1. CASE UNCHANGED vars
  <2>1. UNCHANGED <<proc, printed, cpu, throttled, listed, cm>>
    BY <1>1 DEF vars, processes
  <2>2. TypeOK' /\ CmType' /\ ListInv'
    BY <2>1 DEF IInv, TypeOK, CmType, ListInv
  <2>3. FinishInv' /\ ReapInv'
    BY <2>1 DEF IInv, FinishInv, ReapInv, Alive
  <2>4. EndInv'
    BY <2>1 DEF IInv, EndInv, Alive, SurvivorsAreReported, CleanupReachesAll,
                FirstErrorIsRaised, CleanedUp
  <2> QED
    BY <2>2, <2>3, <2>4 DEF IInv
<1>2. CASE NextStage
  <2>1. cm.pc \in {"spawning", "readying", "sampling", "finishing", "terminating"}
    BY <1>2 DEF NextStage
  <2> QED
    BY <1>2, <2>1, SetupStep, CheckStep, TerminateStep
<1>3. CASE FindReady \/ SampleBefore \/ SetupOrCheckRaises \/ BlockRaises
  BY <1>3, SetupStep
<1>4. CASE BlockEnds \/ SampleAfter
  BY <1>4, CheckStep
<1>5. CASE Terminate \/ Reap \/ Kill \/ GiveUp
  BY <1>5, TerminateStep, ReapStep
<1>6. CASE Environment \/ Spawn \/ Interrupt \/ Leave \/ InterruptCleanup
  BY <1>6, EnvironmentInv, SpawnInv, InterruptInv, LeaveInv, CutShortInv
<1> QED
  BY <1>1, <1>2, <1>3, <1>4, <1>5, <1>6 DEF Next, Manager

\* What the loops over the workers know of those they have been to, in every state of
\* the context manager (resources.py 91-174).
THEOREM Invariance == Spec => []IInv
  BY InitInv, StepInv, PTL DEF Spec

\* resources.py 110-172: a cleanup that is not cut short reaches every worker, reports
\* those that survive it and keeps the first error, for any number of workers.
THEOREM CleanupIsSound == Spec => []PressureInv
<1>1. IInv => PressureInv
  BY DEF IInv, EndInv, PressureInv
<1> QED
  BY <1>1, Invariance, PTL

\* resources.py 91-140: a with statement that returns has had every worker competing to
\* the end of its block.
THEOREM ContentionIsReal == Spec => []ContentionIsWitnessed
<1>1. ASSUME IInv PROVE ContentionIsWitnessed
  <2> SUFFICES ASSUME Returned PROVE /\ cm.outlasted = Workers
                                     /\ \A w \in Workers : cpu[w] > cm.before.cpu[w]
    BY DEF ContentionIsWitnessed
  <2>1. cm.pc = "over" /\ cm.failure = "none"
    BY <1>1 DEF Returned, IInv, ReapInv
  <2>2. \A w \in Workers : w \in cm.outlasted /\ cpu[w] > cm.before.cpu[w]
    BY <1>1, <2>1 DEF IInv, FinishInv
  <2>3. cm.outlasted \subseteq Workers
    BY <1>1 DEF IInv, CmType
  <2> QED
    BY <2>2, <2>3
<1> QED
  BY <1>1, Invariance, PTL

-----------------------------------------------------------------------------
(***************************************************************************)
(* The trace of the qualification: run.py, whose profiles resources.py     *)
(* takes too, and verify.py.                                               *)
(***************************************************************************)
CONSTANTS Nil, MaxCount
VARIABLES step, active, artifact, session, cgroup, profiles, file, log, verdict, place,
          expects, measured, pairs

Trace == INSTANCE EdgeTrace

Peaks == {3, 50, 75, 152}

\* What is used of the n-th call of the script.
Fits(n, c) ==
  /\ c.op = "read" => c.phase \in {"throttled", "current", "peak"}
  /\ c.op = "read" /\ c.phase = "current" => n + 1 \in Peaks
  /\ n \in Peaks => c.op = "read" /\ c.phase = "peak"
  /\ c.op = "header" => n < 51
  /\ c.op = "pressure before" <=> n = 51
  /\ c.op = "pressure" => n = 76
  /\ c.op = "summary" => n > 76
  /\ n = 144 => c.op = "infer"
  /\ n = 145 => c.op = "switch" /\ c.context = Trace!NoContext /\ ~c.corrupt
  /\ c.op = "abstain" <=> n = 146
  /\ c.op = "summary file" <=> n = 154

\* A list of n things, and one of the calls after the first m.
List(s, n) == \E T : s \in Seq(T) /\ Len(s) = n
Follow(s, m, n) == List(s, n) /\ \A i \in 1..n : Fits(m + i, s[i])

IsJoin(u, s, m, t, n) ==
  /\ List(u, m + n)
  /\ \A i \in 1..m : u[i] = s[i]
  /\ \A i \in 1..n : u[m + i] = t[i]

LEMMA FunctionsAreLists ==
  ASSUME NEW T, NEW n \in Nat, NEW s \in [1..n -> T]
  PROVE  List(s, n)
<1>1. s \in Seq(T) /\ Len(s) = n
  BY SeqDef, LenProperties
<1> QED
  BY <1>1 DEF List

LEMMA Joined ==
  ASSUME NEW m \in Nat, NEW n \in Nat, NEW s, NEW t, List(s, m), List(t, n)
  PROVE  IsJoin(s \o t, s, m, t, n)
<1>1. PICK S : s \in Seq(S) /\ Len(s) = m
  BY DEF List
<1>2. PICK T : t \in Seq(T) /\ Len(t) = n
  BY DEF List
<1> DEFINE U == S \cup T
<1>3. s \in Seq(U) /\ t \in Seq(U)
  <2>1. s \in [1..m -> S] /\ t \in [1..n -> T]
    BY <1>1, <1>2, LenProperties
  <2>2. s \in [1..m -> U] /\ t \in [1..n -> U]
    BY <2>1
  <2> HIDE DEF U
  <2> QED
    BY <2>2, SeqDef
<1> HIDE DEF U
<1>4. /\ s \o t \in Seq(U) /\ Len(s \o t) = m + n
      /\ \A i \in 1..(m + n) : (s \o t)[i] = IF i <= m THEN s[i] ELSE t[i - m]
  BY <1>1, <1>2, <1>3, ConcatProperties
<1>5. ASSUME NEW i \in 1..m PROVE (s \o t)[i] = s[i]
  BY <1>4
<1>6. ASSUME NEW i \in 1..n PROVE (s \o t)[m + i] = t[i]
  <2>1. m + i \in 1..(m + n) /\ ~(m + i <= m) /\ (m + i) - m = i
    OBVIOUS
  <2> QED
    BY <1>4, <2>1
<1> QED
  BY <1>4, <1>5, <1>6 DEF List, IsJoin

LEMMA Followed ==
  ASSUME NEW m \in Nat, NEW n \in Nat, NEW k \in Nat, NEW l \in Nat, NEW r \in Nat,
         NEW s, NEW t, l = k + m, r = m + n, Follow(s, k, m), Follow(t, l, n)
  PROVE  Follow(s \o t, k, r)
<1>1. /\ List(s \o t, r)
      /\ \A i \in 1..m : (s \o t)[i] = s[i]
      /\ \A i \in 1..n : (s \o t)[m + i] = t[i]
  <2>1. List(s, m) /\ List(t, n)
    BY DEF Follow
  <2>2. IsJoin(s \o t, s, m, t, n)
    BY <2>1, Joined
  <2> QED
    BY <2>2 DEF IsJoin
<1>2. ASSUME NEW i \in 1..r PROVE Fits(k + i, (s \o t)[i])
  <2>1. CASE i \in 1..m
    BY <1>1, <2>1 DEF Follow
  <2>2. CASE i \notin 1..m
    <3>1. i - m \in 1..n /\ m + (i - m) = i /\ l + (i - m) = k + i
      BY <2>2
    <3>2. (s \o t)[i] = t[i - m]
      BY <1>1, <3>1
    <3>3. Fits(l + (i - m), t[i - m])
      BY <3>1 DEF Follow
    <3> QED
      BY <3>1, <3>2, <3>3
  <2> QED
    BY <2>1, <2>2
<1> QED
  BY <1>1, <1>2 DEF Follow

LEMMA OneFollows ==
  ASSUME NEW m \in Nat, NEW a, Fits(m + 1, a)
  PROVE  Follow(<<a>>, m, 1)
<1>1. <<a>> \in Seq({a}) /\ Len(<<a>>) = 1 /\ <<a>>[1] = a
  OBVIOUS
<1>2. List(<<a>>, 1)
  BY <1>1 DEF List
<1>3. \A i \in 1..1 : i = 1
  OBVIOUS
<1> QED
  BY <1>1, <1>2, <1>3 DEF Follow

LEMMA TwoFollow ==
  ASSUME NEW m \in Nat, NEW a, NEW b, Fits(m + 1, a), Fits(m + 2, b)
  PROVE  Follow(<<a, b>>, m, 2)
<1>1. <<a, b>> \in Seq({a, b}) /\ Len(<<a, b>>) = 2 /\ <<a, b>>[1] = a /\ <<a, b>>[2] = b
  OBVIOUS
<1>2. List(<<a, b>>, 2)
  BY <1>1 DEF List
<1>3. \A i \in 1..2 : i = 1 \/ i = 2
  OBVIOUS
<1> QED
  BY <1>1, <1>2, <1>3 DEF Follow

LEMMA ThreeFollow ==
  ASSUME NEW m \in Nat, NEW a, NEW b, NEW c, Fits(m + 1, a), Fits(m + 2, b), Fits(m + 3, c)
  PROVE  Follow(<<a, b, c>>, m, 3)
<1>1. /\ <<a, b, c>> \in Seq({a, b, c}) /\ Len(<<a, b, c>>) = 3
      /\ <<a, b, c>>[1] = a /\ <<a, b, c>>[2] = b /\ <<a, b, c>>[3] = c
  OBVIOUS
<1>2. List(<<a, b, c>>, 3)
  BY <1>1 DEF List
<1>3. \A i \in 1..3 : i = 1 \/ i = 2 \/ i = 3
  OBVIOUS
<1> QED
  BY <1>1, <1>2, <1>3 DEF Follow

\* Most calls are only asked to be none of the calls above.
LEMMA InferFits ==
  ASSUME NEW n \in Nat \ Peaks, NEW c, c.op = "infer", n \notin {51, 145, 146, 154}
  PROVE  Fits(n, c)
BY DEF Fits

LEMMA PlainFits ==
  ASSUME NEW n \in Nat \ Peaks, NEW c, n \notin {51, 144, 145, 146, 154},
         c.op \in {"switch", "artifact", "infer cold", "verify assets"}
  PROVE  Fits(n, c)
BY DEF Fits

\* The requests of a phase.
LEMMA FramesFollow ==
  ASSUME NEW phase, NEW first \in Nat, NEW n \in Nat, NEW m \in Nat,
         \A i \in 1..n : m + i \notin Peaks /\ m + i \notin {51, 145, 146, 154}
  PROVE  Follow(Trace!Frames(phase, first, n), m, n)
<1> DEFINE c(i) == [op |-> "infer", phase |-> phase, input |-> first + i - 1]
           s == [i \in 1..n |-> c(i)]
<1>1. Trace!Frames(phase, first, n) = s
  BY DEF Trace!Frames
<1>2. List(s, n)
  <2> DEFINE T == {c(i) : i \in 1..n}
  <2>1. s \in [1..n -> T]
    OBVIOUS
  <2> HIDE DEF s, T
  <2> QED
    BY <2>1, FunctionsAreLists
<1>3. ASSUME NEW i \in 1..n PROVE Fits(m + i, s[i])
  <2>1. s[i].op = "infer"
    OBVIOUS
  <2> HIDE DEF s
  <2>2. m + i \in Nat \ Peaks /\ m + i # 145
    OBVIOUS
  <2> QED
    BY <2>1, <2>2, InferFits
<1> HIDE DEF s
<1> QED
  BY <1>1, <1>2, <1>3 DEF Follow

LEMMA SnapshotFollows ==
  ASSUME NEW m \in {0, 47, 72, 149}
  PROVE  Follow(Trace!Snapshot, m, 3)
<1>1. Fits(m + 1, Trace!Call("read", "throttled"))
  BY DEF Trace!Call, Fits, Peaks
<1>2. Fits(m + 2, Trace!Call("read", "current"))
  BY DEF Trace!Call, Fits, Peaks
<1>3. Fits(m + 3, Trace!Call("read", "peak"))
  BY DEF Trace!Call, Fits, Peaks
<1> QED
  BY <1>1, <1>2, <1>3, ThreeFollow DEF Trace!Snapshot

LEMMA SwapsFollow == Follow(Trace!SwapCalls, 120, 24)
<1> DEFINE i(n) == (n - 1) \div 2
           c(n) == IF n % 2 = 1
                   THEN Trace!Switch(Trace!SwapPhase(i(n)),
                                     IF i(n) % 2 = 0 THEN Trace!Economy ELSE Trace!Detail)
                   ELSE Trace!Frames(Trace!SwapPhase(i(n)), i(n) % 20, 1)[1]
           s == [n \in 1..24 |-> c(n)]
<1>1. Trace!SwapCalls = s
  BY DEF Trace!SwapCalls, Trace!Swaps, Trace!Inputs
<1>2. List(s, 24)
  <2> DEFINE T == {c(n) : n \in 1..24}
  <2>1. s \in [1..24 -> T]
    OBVIOUS
  <2> HIDE DEF s, T
  <2> QED
    BY <2>1, FunctionsAreLists
<1>3. ASSUME NEW n \in 1..24 PROVE Fits(120 + n, s[n])
  <2>1. s[n] = c(n)
    OBVIOUS
  <2>2. c(n).op = IF n % 2 = 1 THEN "switch" ELSE "infer"
    BY DEF Trace!Frames, Trace!Switch
  <2> HIDE DEF s, c
  <2>3. 120 + n \in Nat \ Peaks /\ 120 + n \notin {51, 145, 146, 154}
    BY DEF Peaks
  <2>4. CASE n % 2 = 1
    <3>1. s[n].op \in {"switch", "artifact", "infer cold", "verify assets"}
      BY <2>1, <2>2, <2>4
    <3>2. 120 + n \notin {51, 144, 145, 146, 154}
      BY <2>3, <2>4
    <3> QED
      BY <2>3, <3>1, <3>2, PlainFits
  <2>5. CASE n % 2 # 1
    <3>1. s[n].op = "infer"
      BY <2>1, <2>2, <2>5
    <3> QED
      BY <2>3, <3>1, InferFits
  <2> QED
    BY <2>4, <2>5
<1> HIDE DEF s
<1> QED
  BY <1>1, <1>2, <1>3 DEF Follow

LEMMA ClosingFollows == Follow(Trace!Closing, 148, 6)
<1> DEFINE a == <<Trace!Call("verify assets", "run")>>
           b == <<Trace!Call("summary", "run"), Trace!Call("summary file", "run")>>
<1>1. Follow(a, 148, 1)
  <2>1. Fits(148 + 1, Trace!Call("verify assets", "run"))
    BY DEF Trace!Call, Fits, Peaks
  <2> QED
    BY <2>1, OneFollows
<1>2. Follow(Trace!Snapshot, 149, 3)
  BY SnapshotFollows
<1>3. Follow(b, 152, 2)
  <2>1. Fits(152 + 1, Trace!Call("summary", "run"))
    BY DEF Trace!Call, Fits, Peaks
  <2>2. Fits(152 + 2, Trace!Call("summary file", "run"))
    BY DEF Trace!Call, Fits, Peaks
  <2> QED
    BY <2>1, <2>2, TwoFollow
<1> HIDE DEF a, b
<1>4. Follow(a \o Trace!Snapshot, 148, 4)
  BY <1>1, <1>2, Followed
<1>5. Follow(a \o Trace!Snapshot \o b, 148, 6)
  BY <1>3, <1>4, Followed
<1> QED
  BY <1>5 DEF Trace!Closing, a, b

\* The script, call by call (run.py 85-138).
LEMMA ScriptFollows == Follow(Trace!Script, 0, 154)
<1> DEFINE p1 == Trace!Snapshot
           p2 == <<Trace!Call("header", "run"), Trace!Call("infer cold", "startup"),
               Trace!Switch("offline-start", Trace!Economy)>>
           p3 == Trace!Frames("offline-start", 0, Trace!Inputs)
           p4 == <<Trace!Switch("detail-request", Trace!Detail)>>
           p5 == Trace!Frames("detail-request", 0, Trace!Inputs)
           p6 == Trace!Snapshot
           p7 == <<Trace!Call("pressure before", "cpu-contention")>>
           p8 == <<Trace!Switch("cpu-contention", Trace!Economy)>>
           p9 == Trace!Frames("cpu-contention", 0, Trace!Inputs)
           p10 == Trace!Snapshot
           p11 == <<Trace!Call("pressure", "cpu-contention"),
                    Trace!File("corrupt-update", "damaged"),
                    Trace!Switch("corrupt-update", Trace!Detail)>>
           p12 == Trace!Frames("corrupt-update", 0, Trace!Inputs)
           p13 == <<Trace!File("restored-update", "original"),
               Trace!Switch("restored-update", Trace!Detail)>>
           p14 == Trace!Frames("restored-update", 0, Trace!Inputs)
           p15 == Trace!SwapCalls
           p16 == <<Trace!Switch("missing-context", Trace!NoContext),
               Trace!Call("abstain", "missing-context"), Trace!Switch("resume", Trace!Economy)>>
           p17 == Trace!Frames("resume", 0, 1)
           p18 == Trace!Closing
           q == p1 \o p2 \o p3 \o p4 \o p5 \o p6 \o p7 \o p8 \o p9
           r == q \o p10 \o p11 \o p12 \o p13 \o p14
           s == r \o p15 \o p16 \o p17 \o p18
<1>1. Follow(p1, 0, 3)
  BY SnapshotFollows
<1>2. Follow(p2, 3, 3)
  <2>1. Fits(3 + 1, Trace!Call("header", "run"))
    BY DEF Trace!Call, Fits, Peaks
  <2>2. Fits(3 + 2, Trace!Call("infer cold", "startup"))
    BY DEF Trace!Call, Fits, Peaks
  <2>3. Fits(3 + 3, Trace!Switch("offline-start", Trace!Economy))
    BY DEF Trace!Switch, Fits, Peaks
  <2> QED
    BY <2>1, <2>2, <2>3, ThreeFollow
<1>3. Follow(p3, 6, 20)
  <2>1. \A i \in 1..20 : 6 + i \notin Peaks /\ 6 + i \notin {51, 145, 146, 154}
    BY DEF Peaks
  <2> QED
    BY <2>1, FramesFollow DEF Trace!Inputs
<1>4. Follow(p4, 26, 1)
  <2>1. Fits(26 + 1, Trace!Switch("detail-request", Trace!Detail))
    BY DEF Trace!Switch, Fits, Peaks
  <2> QED
    BY <2>1, OneFollows
<1>5. Follow(p5, 27, 20)
  <2>1. \A i \in 1..20 : 27 + i \notin Peaks /\ 27 + i \notin {51, 145, 146, 154}
    BY DEF Peaks
  <2> QED
    BY <2>1, FramesFollow DEF Trace!Inputs
<1>6. Follow(p6, 47, 3)
  BY SnapshotFollows
<1>7. Follow(p7, 50, 1)
  <2>1. Fits(50 + 1, Trace!Call("pressure before", "cpu-contention"))
    BY DEF Trace!Call, Fits, Peaks
  <2> QED
    BY <2>1, OneFollows
<1>8. Follow(p8, 51, 1)
  <2>1. Fits(51 + 1, Trace!Switch("cpu-contention", Trace!Economy))
    BY DEF Trace!Switch, Fits, Peaks
  <2> QED
    BY <2>1, OneFollows
<1>9. Follow(p9, 52, 20)
  <2>1. \A i \in 1..20 : 52 + i \notin Peaks /\ 52 + i \notin {51, 145, 146, 154}
    BY DEF Peaks
  <2> QED
    BY <2>1, FramesFollow DEF Trace!Inputs
<1>10. Follow(p10, 72, 3)
  BY SnapshotFollows
<1>11. Follow(p11, 75, 3)
  <2>1. Fits(75 + 1, Trace!Call("pressure", "cpu-contention"))
    BY DEF Trace!Call, Fits, Peaks
  <2>2. Fits(75 + 2, Trace!File("corrupt-update", "damaged"))
    BY DEF Trace!File, Fits, Peaks
  <2>3. Fits(75 + 3, Trace!Switch("corrupt-update", Trace!Detail))
    BY DEF Trace!Switch, Fits, Peaks
  <2> QED
    BY <2>1, <2>2, <2>3, ThreeFollow
<1>12. Follow(p12, 78, 20)
  <2>1. \A i \in 1..20 : 78 + i \notin Peaks /\ 78 + i \notin {51, 145, 146, 154}
    BY DEF Peaks
  <2> QED
    BY <2>1, FramesFollow DEF Trace!Inputs
<1>13. Follow(p13, 98, 2)
  <2>1. Fits(98 + 1, Trace!File("restored-update", "original"))
    BY DEF Trace!File, Fits, Peaks
  <2>2. Fits(98 + 2, Trace!Switch("restored-update", Trace!Detail))
    BY DEF Trace!Switch, Fits, Peaks
  <2> QED
    BY <2>1, <2>2, TwoFollow
<1>14. Follow(p14, 100, 20)
  <2>1. \A i \in 1..20 : 100 + i \notin Peaks /\ 100 + i \notin {51, 145, 146, 154}
    BY DEF Peaks
  <2> QED
    BY <2>1, FramesFollow DEF Trace!Inputs
<1>15. Follow(p15, 120, 24)
  BY SwapsFollow
<1>16. Follow(p16, 144, 3)
  <2> DEFINE c == Trace!Switch("missing-context", Trace!NoContext)
  <2>1. Fits(144 + 1, c)
    <3>1. c.op = "switch" /\ c.context = Trace!NoContext
      BY DEF Trace!Switch
    <3>2. ~c.corrupt
      BY DEF Trace!Switch
    <3> HIDE DEF c
    <3> QED
      BY <3>1, <3>2 DEF Fits, Peaks
  <2>2. Fits(144 + 2, Trace!Call("abstain", "missing-context"))
    BY DEF Trace!Call, Fits, Peaks
  <2>3. Fits(144 + 3, Trace!Switch("resume", Trace!Economy))
    BY DEF Trace!Switch, Fits, Peaks
  <2> QED
    BY <2>1, <2>2, <2>3, ThreeFollow
<1>17. Follow(p17, 147, 1)
  <2>1. \A i \in 1..1 : 147 + i \notin Peaks /\ 147 + i \notin {51, 145, 146, 154}
    BY DEF Peaks
  <2> QED
    BY <2>1, FramesFollow DEF Trace!Inputs
<1>18. Follow(p18, 148, 6)
  BY ClosingFollows
<1> HIDE DEF p1, p2, p3, p4, p5, p6, p7, p8, p9, p10, p11, p12, p13, p14, p15, p16, p17, p18
<1>19. Follow(p1 \o p2, 0, 6)
  BY <1>1, <1>2, Followed
<1>20. Follow(p1 \o p2 \o p3, 0, 26)
  BY <1>19, <1>3, Followed
<1>21. Follow(p1 \o p2 \o p3 \o p4, 0, 27)
  BY <1>20, <1>4, Followed
<1>22. Follow(p1 \o p2 \o p3 \o p4 \o p5, 0, 47)
  BY <1>21, <1>5, Followed
<1>23. Follow(p1 \o p2 \o p3 \o p4 \o p5 \o p6, 0, 50)
  BY <1>22, <1>6, Followed
<1>24. Follow(p1 \o p2 \o p3 \o p4 \o p5 \o p6 \o p7, 0, 51)
  BY <1>23, <1>7, Followed
<1>25. Follow(p1 \o p2 \o p3 \o p4 \o p5 \o p6 \o p7 \o p8, 0, 52)
  BY <1>24, <1>8, Followed
<1>26. Follow(q, 0, 72)
  BY <1>25, <1>9, Followed
<1> HIDE DEF q
<1>27. Follow(q \o p10, 0, 75)
  BY <1>26, <1>10, Followed
<1>28. Follow(q \o p10 \o p11, 0, 78)
  BY <1>27, <1>11, Followed
<1>29. Follow(q \o p10 \o p11 \o p12, 0, 98)
  BY <1>28, <1>12, Followed
<1>30. Follow(q \o p10 \o p11 \o p12 \o p13, 0, 100)
  BY <1>29, <1>13, Followed
<1>31. Follow(r, 0, 120)
  BY <1>30, <1>14, Followed
<1> HIDE DEF r
<1>32. Follow(r \o p15, 0, 144)
  BY <1>31, <1>15, Followed
<1>33. Follow(r \o p15 \o p16, 0, 147)
  BY <1>32, <1>16, Followed
<1>34. Follow(r \o p15 \o p16 \o p17, 0, 148)
  BY <1>33, <1>17, Followed
<1>35. Follow(s, 0, 154)
  BY <1>34, <1>18, Followed
<1> HIDE DEF s
<1>36. Trace!Script = s
  BY DEF Trace!Script, p1, p2, p3, p4, p5, p6, p7, p8, p9,
     p10, p11, p12, p13, p14, p15, p16, p17, p18, q, r, s
<1> QED
  BY <1>35, <1>36

LEMMA CallFits ==
  ASSUME step \in DOMAIN Trace!Script
  PROVE  step \in 1..154 /\ Fits(step, Trace!call)
<1>1. PICK T : Trace!Script \in Seq(T) /\ Len(Trace!Script) = 154
  BY ScriptFollows DEF Follow, List
<1>2. DOMAIN Trace!Script = 1..154
  BY <1>1, LenProperties
<1>3. \A i \in 1..154 : Fits(0 + i, Trace!Script[i])
  BY ScriptFollows DEF Follow
<1>4. 0 + step = step
  BY <1>2
<1> QED
  BY <1>2, <1>3, <1>4 DEF Trace!call

LEMMA LastCall == DOMAIN Trace!Script = 1..154
<1>1. PICK T : Trace!Script \in Seq(T) /\ Len(Trace!Script) = 154
  BY ScriptFollows DEF Follow, List
<1> QED
  BY <1>1, LenProperties

\* A context without its key makes no policy feasible (select(), selector.py).
LEMMA NoContextNoModel ==
  ASSUME NEW m
  PROVE  Trace!Select(Trace!Policies, <<Trace!Small, Trace!Large>>, m, <<>>,
                      Trace!NoContext).selected = Nil
<1> DEFINE models == <<Trace!Small, Trace!Large>>
           model(i) == Trace!Available(models, Trace!Policies[i].model)
           evaluation(i) == Trace!Evaluate(i, Trace!Policies[i], model(i), Trace!NoContext, <<>>)
           evaluations == {evaluation(i) : i \in DOMAIN Trace!Policies}
<1>1. DOMAIN Trace!Policies = 1..2
  BY DEF Trace!Policies
<1>2. ASSUME NEW i \in 1..2 PROVE ~evaluation(i).feasible
  <2> DEFINE policy == Trace!Policies[i]
  <2>1. /\ 1 \in DOMAIN policy.constraints
        /\ policy.constraints[1].source = "context"
    BY DEF Trace!Policies
  <2> HIDE DEF policy
  <2>2. DOMAIN Trace!NoContext = {}
    BY DEF Trace!NoContext
  <2>3. ~Trace!Satisfied(policy.constraints[1], Trace!NoContext, <<>>)
    BY <2>1, <2>2 DEF Trace!Satisfied
  <2>4. ASSUME NEW o PROVE ~Trace!Evaluate(i, policy, o, Trace!NoContext, <<>>).feasible
    BY <2>1, <2>3 DEF Trace!Evaluate
  <2> QED
    BY <2>4 DEF policy
<1>3. {e \in evaluations : e.feasible} = {}
  BY <1>1, <1>2
<1> HIDE DEF evaluations
<1>4. Trace!Rank(evaluations, m) = Nil
  BY <1>3 DEF Trace!Rank
<1> QED
  BY <1>4 DEF Trace!Select, evaluations

LEMMA Appended ==
  ASSUME NEW s, NEW n \in Nat, List(s, n), NEW e
  PROVE  /\ List(Append(s, e), n + 1)
         /\ DOMAIN Append(s, e) = 1..(n + 1)
         /\ \A i \in 1..n : Append(s, e)[i] = s[i]
         /\ Append(s, e)[n + 1] = e
<1>1. PICK S : s \in Seq(S) /\ Len(s) = n
  BY DEF List
<1> DEFINE T == S \cup {e}
<1>2. s \in Seq(T) /\ e \in T
  <2>1. s \in [1..n -> S]
    BY <1>1, LenProperties
  <2>2. s \in [1..n -> T]
    BY <2>1
  <2> HIDE DEF T
  <2>3. s \in Seq(T)
    BY <2>2, SeqDef
  <2> QED
    BY <2>3 DEF T
<1> HIDE DEF T
<1>3. /\ Append(s, e) \in Seq(T) /\ Len(Append(s, e)) = n + 1
      /\ \A i \in 1..n : Append(s, e)[i] = s[i]
      /\ Append(s, e)[n + 1] = e
  BY <1>1, <1>2, AppendProperties
<1>4. DOMAIN Append(s, e) = 1..(n + 1)
  BY <1>3, LenProperties
<1> QED
  BY <1>3, <1>4 DEF List

-----------------------------------------------------------------------------
\* Where the exerciser and the verifier are.
PlaceInv ==
  /\ step \in 1..155
  /\ file => step = 155
  /\ verdict = "accepted" => file

LogList == \E n \in Nat : List(log, n) /\ DOMAIN log = 1..n

\* What a step may write.
LEMMA Writes ==
  ASSUME LogList, [Trace!Next]_(Trace!vars)
  PROVE  \/ UNCHANGED log
         \/ \E e : log' = Append(log, e)
BY DEF Trace!Next, Trace!Exercise, Trace!Verify, Trace!Raise, Trace!SwitchUnchanged,
       Trace!SwitchPublishes, Trace!SwitchFails, Trace!DamagedLoads, Trace!Serve,
       Trace!ServeMismatch, Trace!Report, Trace!VerifyAssets, Trace!Replace, Trace!ReadCounter,
       Trace!PressureBegins, Trace!PressureEnds, Trace!WriteSummary, Trace!Open, Trace!Read,
       Trace!Judge, Trace!Emit, Trace!vars, Trace!running

LEMMA Written ==
  ASSUME LogList, NEW e, log' = Append(log, e)
  PROVE  /\ LogList'
         /\ \E n \in Nat : /\ DOMAIN log = 1..n /\ DOMAIN log' = 1..(n + 1)
                           /\ \A i \in 1..n : log'[i] = log[i]
                           /\ log'[n + 1] = e
<1>1. PICK n \in Nat : List(log, n) /\ DOMAIN log = 1..n
  BY DEF LogList
<1>2. /\ List(log', n + 1) /\ DOMAIN log' = 1..(n + 1)
      /\ \A i \in 1..n : log'[i] = log[i]
      /\ log'[n + 1] = e
  BY <1>1, Appended
<1>3. n + 1 \in Nat
  OBVIOUS
<1> QED
  BY <1>1, <1>2, <1>3 DEF LogList

LEMMA LogListStep == LogList /\ [Trace!Next]_(Trace!vars) => LogList'
<1> SUFFICES ASSUME LogList, [Trace!Next]_(Trace!vars) PROVE LogList'
  OBVIOUS
<1>1. CASE UNCHANGED log
  BY <1>1 DEF LogList
<1>2. CASE \E e : log' = Append(log, e)
  BY <1>2, Written
<1> QED
  BY <1>1, <1>2, Writes

LEMMA PlaceStep == PlaceInv /\ [Trace!Next]_(Trace!vars) => PlaceInv'
<1> SUFFICES ASSUME PlaceInv, [Trace!Next]_(Trace!vars) PROVE PlaceInv'
  OBVIOUS
<1> USE DEF PlaceInv
<1>1. ASSUME step' = step + 1, verdict' = verdict, verdict = "running",
             step \in DOMAIN Trace!Script, file' <=> file \/ step = 154
      PROVE  PlaceInv'
  BY <1>1, LastCall
<1>2. ASSUME step' = step, file' <=> file, verdict' = "accepted" => file
      PROVE  PlaceInv'
  BY <1>2
<1>3. CASE Trace!WriteSummary
  <2>1. step = 154
    BY <1>3, CallFits DEF Trace!WriteSummary, Trace!Calls, Fits
  <2> QED
    BY <1>1, <1>3, <2>1 DEF Trace!WriteSummary, Trace!Calls
<1>4. CASE \/ Trace!SwitchUnchanged \/ Trace!SwitchPublishes \/ Trace!SwitchFails \/ Trace!Serve
           \/ Trace!Report \/ Trace!VerifyAssets \/ Trace!Replace \/ Trace!ReadCounter
           \/ Trace!PressureBegins \/ Trace!PressureEnds
  <2>1. /\ step' = step + 1 /\ verdict' = verdict /\ verdict = "running"
        /\ step \in DOMAIN Trace!Script /\ Trace!call.op # "summary file"
    BY <1>4 DEF Trace!SwitchUnchanged, Trace!SwitchPublishes, Trace!SwitchFails, Trace!Serve,
         Trace!Report, Trace!VerifyAssets, Trace!Replace, Trace!ReadCounter,
         Trace!PressureBegins, Trace!PressureEnds, Trace!Calls, Trace!Emit
  <2>2. file' = file
    BY <1>4 DEF Trace!SwitchUnchanged, Trace!SwitchPublishes, Trace!SwitchFails, Trace!Serve,
         Trace!Report, Trace!VerifyAssets, Trace!Replace, Trace!ReadCounter,
         Trace!PressureBegins, Trace!PressureEnds, Trace!Same
  <2>3. step \in 1..153 /\ step + 1 \in 1..155
    <3>1. step \in 1..154 /\ step # 154
      BY <2>1, CallFits DEF Fits
    <3> QED
      BY <3>1
  <2>4. ~file
    BY <2>3
  <2>5. ~file'
    BY <2>2, <2>4
  <2> QED
    BY <2>1, <2>3, <2>5
<1>5. CASE Trace!Raise \/ Trace!DamagedLoads \/ Trace!ServeMismatch
  BY <1>2, <1>5 DEF Trace!Raise, Trace!DamagedLoads, Trace!ServeMismatch, Trace!Abort, Trace!Same
<1>6. CASE Trace!Open \/ Trace!Read \/ Trace!Judge
  BY <1>2, <1>6 DEF Trace!Open, Trace!Read, Trace!Judge, Trace!running
<1>7. CASE UNCHANGED Trace!vars
  BY <1>2, <1>7 DEF Trace!vars, Trace!running
<1> QED
  BY <1>3, <1>4, <1>5, <1>6, <1>7 DEF Trace!Next, Trace!Exercise, Trace!Verify

SoundInv ==
  /\ verdict = "running" => session
  /\ Trace!DamageIsNeverServed

ReportEvent ==
  [event |-> Trace!call.op, phase |-> Trace!call.phase, active |-> active,
   profile |-> IF Trace!call.op \in {"header", "summary"} THEN profiles.now ELSE Nil]

LEMMA ReportWrites ==
  ASSUME Trace!Report
  PROVE  /\ log' = Append(log, ReportEvent)
         /\ ReportEvent.event = Trace!call.op
         /\ ReportEvent.event \in {"header", "abstain", "summary", "infer cold"}
         /\ ReportEvent.event \in {"header", "summary"} => ReportEvent.profile = profiles.now
         /\ ReportEvent.active = active
<1>1. log' = Append(log, ReportEvent)
  BY DEF Trace!Report, Trace!Emit, ReportEvent
<1>2. Trace!call.op \in {"header", "abstain", "summary", "infer cold"}
  BY DEF Trace!Report, Trace!Calls
<1> QED
  BY <1>1, <1>2 DEF ReportEvent

LEMMA SoundStep == SoundInv /\ LogList /\ [Trace!Next]_(Trace!vars) => SoundInv'
<1> SUFFICES ASSUME SoundInv, LogList, [Trace!Next]_(Trace!vars) PROVE SoundInv'
  OBVIOUS
<1>1. ASSUME NEW e, log' = Append(log, e), e.event = "frame" => e.sound
      PROVE  Trace!DamageIsNeverServed'
  BY <1>1, Written DEF SoundInv, Trace!DamageIsNeverServed
<1>2. ASSUME UNCHANGED log PROVE Trace!DamageIsNeverServed'
  BY <1>2 DEF SoundInv, Trace!DamageIsNeverServed
<1>3. CASE Trace!Serve \/ Trace!ServeMismatch
  <2>1. PICK matches \in BOOLEAN : log' = Append(log, Trace!Frame(matches))
    BY <1>3 DEF Trace!Serve, Trace!ServeMismatch, Trace!Emit
  <2>2. session
    BY <1>3 DEF SoundInv, Trace!Serve, Trace!ServeMismatch, Trace!Calls
  <2>3. Trace!Frame(matches).sound
    BY <2>2 DEF Trace!Frame
  <2>4. session' = session
    BY <1>3 DEF Trace!Serve, Trace!ServeMismatch, Trace!Same
  <2>5. Trace!DamageIsNeverServed'
    BY <1>1, <2>1, <2>3
  <2> QED
    BY <2>2, <2>4, <2>5 DEF SoundInv
<1>4. CASE Trace!SwitchUnchanged \/ Trace!SwitchPublishes \/ Trace!SwitchFails
  <2>1. PICK m, s : log' = Append(log, Trace!Activation(m, s))
    BY <1>4 DEF Trace!SwitchUnchanged, Trace!SwitchPublishes, Trace!SwitchFails, Trace!Emit
  <2>2. Trace!Activation(m, s).event = "activation"
    BY DEF Trace!Activation
  <2>3. session' \/ (session' = session /\ verdict' = verdict)
    BY <1>4 DEF Trace!SwitchUnchanged, Trace!SwitchPublishes, Trace!SwitchFails, Trace!Same,
         Trace!Emit
  <2>4. Trace!DamageIsNeverServed'
    BY <1>1, <2>1, <2>2
  <2> QED
    BY <2>3, <2>4 DEF SoundInv
<1>5. CASE Trace!Report \/ Trace!Replace \/ Trace!PressureEnds
  <2>1. \E e : log' = Append(log, e) /\ e.event # "frame"
    <3>1. CASE Trace!Report
      BY <3>1, ReportWrites
    <3>2. CASE Trace!Replace
      BY <3>2 DEF Trace!Replace, Trace!Emit
    <3>3. CASE Trace!PressureEnds
      BY <3>3 DEF Trace!PressureEnds, Trace!Emit
    <3> QED
      BY <1>5, <3>1, <3>2, <3>3
  <2>2. session' = session /\ verdict' = verdict
    BY <1>5 DEF Trace!Report, Trace!Replace, Trace!PressureEnds, Trace!Same, Trace!Emit
  <2>3. Trace!DamageIsNeverServed'
    <3>1. PICK e : log' = Append(log, e) /\ e.event # "frame"
      BY <2>1
    <3> QED
      BY <1>1, <3>1
  <2> QED
    BY <2>2, <2>3 DEF SoundInv
<1>6. CASE Trace!VerifyAssets \/ Trace!ReadCounter \/ Trace!PressureBegins \/ Trace!WriteSummary
  <2>1. session' = session /\ verdict' = verdict /\ UNCHANGED log
    BY <1>6 DEF Trace!VerifyAssets, Trace!ReadCounter, Trace!PressureBegins, Trace!WriteSummary,
         Trace!Same
  <2> QED
    BY <1>2, <2>1 DEF SoundInv
<1>7. CASE Trace!Raise \/ Trace!DamagedLoads
  <2>1. UNCHANGED log /\ verdict' = "aborted"
    BY <1>7 DEF Trace!Raise, Trace!DamagedLoads, Trace!Abort
  <2> QED
    BY <1>2, <2>1 DEF SoundInv
<1>8. CASE Trace!Open \/ Trace!Read \/ Trace!Judge
  <2>1. UNCHANGED log /\ verdict' # "running"
    BY <1>8 DEF Trace!Open, Trace!Read, Trace!Judge, Trace!running
  <2> QED
    BY <1>2, <2>1 DEF SoundInv
<1>9. CASE UNCHANGED Trace!vars
  <2>1. session' = session /\ verdict' = verdict /\ UNCHANGED log
    BY <1>9 DEF Trace!vars, Trace!running
  <2> QED
    BY <1>2, <2>1 DEF SoundInv
<1> QED
  BY <1>3, <1>4, <1>5, <1>6, <1>7, <1>8, <1>9 DEF Trace!Next, Trace!Exercise, Trace!Verify

-----------------------------------------------------------------------------
\* The last frame of the log was served by m.
LastServed(m) ==
  \E j \in DOMAIN log : /\ log[j].event = "frame" /\ log[j].serving = m
                        /\ \A k \in DOMAIN log : k > j => log[k].event # "frame"

AbstainInv ==
  /\ Trace!AbstentionKeepsModel
  /\ step \in {145, 146} => active # Nil /\ LastServed(active)

\* An event that is no abstention.
LEMMA OtherWritten ==
  ASSUME Trace!AbstentionKeepsModel, LogList, NEW e, log' = Append(log, e), e.event # "abstain"
  PROVE  Trace!AbstentionKeepsModel'
<1>1. PICK n \in Nat : /\ DOMAIN log = 1..n /\ DOMAIN log' = 1..(n + 1)
                       /\ \A i \in 1..n : log'[i] = log[i]
                       /\ log'[n + 1] = e
  BY Written
<1> SUFFICES ASSUME NEW i \in DOMAIN log', log'[i].event = "abstain"
             PROVE  /\ log'[i].active # Nil
                    /\ \E j \in 1..(i - 1) :
                         /\ log'[j].event = "frame" /\ log'[j].serving = log'[i].active
                         /\ \A k \in (j + 1)..(i - 1) : log'[k].event # "frame"
  BY DEF Trace!AbstentionKeepsModel
<1>2. i \in 1..n
  BY <1>1
<1>3. log'[i] = log[i] /\ \A j \in 1..(i - 1) : log'[j] = log[j]
  BY <1>1, <1>2
<1>4. log[i].active # Nil
  BY <1>1, <1>2, <1>3 DEF Trace!AbstentionKeepsModel
<1>5. PICK j \in 1..(i - 1) : /\ log[j].event = "frame" /\ log[j].serving = log[i].active
                              /\ \A k \in (j + 1)..(i - 1) : log[k].event # "frame"
  BY <1>1, <1>2, <1>3 DEF Trace!AbstentionKeepsModel
<1>6. \A k \in (j + 1)..(i - 1) : log'[k].event # "frame"
  <2>1. \A k \in (j + 1)..(i - 1) : k \in 1..(i - 1)
    OBVIOUS
  <2> QED
    BY <1>3, <1>5, <2>1
<1> QED
  BY <1>3, <1>4, <1>5, <1>6

\* An event that is no frame.
LEMMA LastServedStays ==
  ASSUME LogList, NEW e, log' = Append(log, e), e.event # "frame",
         LastServed(active), active' = active
  PROVE  LastServed(active)'
<1>1. PICK n \in Nat : /\ DOMAIN log = 1..n /\ DOMAIN log' = 1..(n + 1)
                       /\ \A i \in 1..n : log'[i] = log[i]
                       /\ log'[n + 1] = e
  BY Written
<1>2. PICK j \in 1..n : /\ log[j].event = "frame" /\ log[j].serving = active
                        /\ \A k \in 1..n : k > j => log[k].event # "frame"
  BY <1>1 DEF LastServed
<1>3. j \in DOMAIN log' /\ log'[j].event = "frame" /\ log'[j].serving = active'
  BY <1>1, <1>2
<1>4. ASSUME NEW k \in DOMAIN log', k > j PROVE log'[k].event # "frame"
  <2>1. CASE k = n + 1
    BY <1>1, <2>1
  <2>2. CASE k # n + 1
    <3>1. k \in 1..n
      BY <1>1, <2>2
    <3> QED
      BY <1>1, <1>2, <1>4, <3>1
  <2> QED
    BY <2>1, <2>2
<1> QED
  BY <1>3, <1>4 DEF LastServed

\* At the switch without a context the active model stays.
LEMMA NoContextStays ==
  ASSUME step = 145, step \in DOMAIN Trace!Script, Trace!Calls("switch"),
         Trace!SwitchUnchanged \/ Trace!SwitchPublishes \/ Trace!SwitchFails
  PROVE  Trace!SwitchUnchanged
<1>1. Trace!call.context = Trace!NoContext /\ ~Trace!call.corrupt
  BY CallFits DEF Fits
<1>2. Trace!Decision = Nil
  BY <1>1, NoContextNoModel DEF Trace!Decision
<1>3. ~Trace!Changes
  BY <1>2 DEF Trace!Changes
<1> QED
  BY <1>3 DEF Trace!SwitchPublishes, Trace!SwitchFails

LEMMA AbstainStep == AbstainInv /\ LogList /\ PlaceInv /\ [Trace!Next]_(Trace!vars) => AbstainInv'
<1> SUFFICES ASSUME AbstainInv, LogList, PlaceInv, [Trace!Next]_(Trace!vars) PROVE AbstainInv'
  OBVIOUS
<1>1. ASSUME UNCHANGED log, \/ step' \notin {145, 146}
                            \/ step' = step /\ active' = active
      PROVE  AbstainInv'
  BY <1>1 DEF AbstainInv, Trace!AbstentionKeepsModel, LastServed
<1>2. ASSUME NEW e, log' = Append(log, e), e.event \notin {"frame", "abstain"},
             step' \notin {145, 146}
      PROVE  AbstainInv'
  BY <1>2, OtherWritten DEF AbstainInv
<1>3. ASSUME step \in DOMAIN Trace!Script, Trace!call.op \notin {"infer", "switch"}
      PROVE  step + 1 \notin {145, 146}
  <2>1. step \in 1..154 /\ step # 144 /\ step # 145
    BY <1>3, CallFits DEF Fits
  <2> QED
    BY <2>1
<1>4. CASE Trace!Serve \/ Trace!ServeMismatch
  <2>1. PICK matches \in BOOLEAN : log' = Append(log, Trace!Frame(matches))
    BY <1>4 DEF Trace!Serve, Trace!ServeMismatch, Trace!Emit
  <2> DEFINE e == Trace!Frame(matches)
  <2>2. e.event = "frame" /\ e.serving = active
    BY DEF Trace!Frame
  <2>3. active # Nil /\ active' = active
    BY <1>4 DEF Trace!Serve, Trace!ServeMismatch, Trace!Same
  <2> HIDE DEF e
  <2>4. PICK n \in Nat : /\ DOMAIN log = 1..n /\ DOMAIN log' = 1..(n + 1)
                         /\ \A i \in 1..n : log'[i] = log[i]
                         /\ log'[n + 1] = e
    BY <2>1, Written DEF e
  <2>5. LastServed(active)'
    <3>1. n + 1 \in DOMAIN log' /\ \A k \in DOMAIN log' : ~(k > n + 1)
      BY <2>4
    <3> QED
      BY <2>2, <2>3, <2>4, <3>1 DEF LastServed
  <2>6. Trace!AbstentionKeepsModel'
    BY <2>1, <2>2, OtherWritten DEF e, AbstainInv
  <2> QED
    BY <2>3, <2>5, <2>6 DEF AbstainInv
<1>5. CASE Trace!SwitchUnchanged \/ Trace!SwitchPublishes \/ Trace!SwitchFails
  <2>1. PICK m, s : log' = Append(log, Trace!Activation(m, s))
    BY <1>5 DEF Trace!SwitchUnchanged, Trace!SwitchPublishes, Trace!SwitchFails, Trace!Emit
  <2> DEFINE e == Trace!Activation(m, s)
  <2>2. e.event = "activation"
    BY DEF Trace!Activation
  <2>3. Trace!Calls("switch") /\ step' = step + 1 /\ step \in DOMAIN Trace!Script
    BY <1>5 DEF Trace!SwitchUnchanged, Trace!SwitchPublishes, Trace!SwitchFails, Trace!Emit,
         Trace!Calls
  <2>4. step \in 1..154 /\ step # 144
    BY <2>3, CallFits DEF Fits, Trace!Calls
  <2> HIDE DEF e
  <2>5. CASE step = 145
    <3>1. active' = active
      BY <1>5, <2>3, <2>5, NoContextStays DEF Trace!SwitchUnchanged, Trace!Same
    <3>2. active # Nil /\ LastServed(active)
      BY <2>5 DEF AbstainInv
    <3>3. LastServed(active)'
      BY <2>1, <2>2, <3>1, <3>2, LastServedStays DEF e
    <3>4. Trace!AbstentionKeepsModel'
      BY <2>1, <2>2, OtherWritten DEF e, AbstainInv
    <3> QED
      BY <3>1, <3>2, <3>3, <3>4 DEF AbstainInv
  <2>6. CASE step # 145
    <3>1. step' \notin {145, 146}
      BY <2>3, <2>4, <2>6
    <3> QED
      BY <1>2, <2>1, <2>2, <3>1 DEF e
  <2> QED
    BY <2>5, <2>6
<1>6. CASE Trace!Report
  <2>1. step' = step + 1 /\ step \in DOMAIN Trace!Script /\ Trace!call.op \notin {"infer", "switch"}
    BY <1>6 DEF Trace!Report, Trace!Calls, Trace!Emit
  <2>2. step' \notin {145, 146}
    BY <1>3, <2>1
  <2>3. CASE ReportEvent.event # "abstain"
    BY <1>2, <1>6, <2>2, <2>3, ReportWrites
  <2>4. CASE ReportEvent.event = "abstain"
    <3>1. step = 146
      BY <1>6, <2>1, <2>4, CallFits, ReportWrites DEF Fits
    <3>2. active # Nil /\ LastServed(active)
      BY <3>1 DEF AbstainInv
    <3>3. PICK n \in Nat : /\ DOMAIN log = 1..n /\ DOMAIN log' = 1..(n + 1)
                           /\ \A i \in 1..n : log'[i] = log[i]
                           /\ log'[n + 1] = ReportEvent
      BY <1>6, Written, ReportWrites
    <3>4. PICK j \in 1..n : /\ log[j].event = "frame" /\ log[j].serving = active
                            /\ \A k \in 1..n : k > j => log[k].event # "frame"
      BY <3>2, <3>3 DEF LastServed
    <3> SUFFICES ASSUME NEW i \in DOMAIN log', log'[i].event = "abstain"
                 PROVE  /\ log'[i].active # Nil
                        /\ \E l \in 1..(i - 1) :
                             /\ log'[l].event = "frame" /\ log'[l].serving = log'[i].active
                             /\ \A k \in (l + 1)..(i - 1) : log'[k].event # "frame"
      BY <2>2 DEF AbstainInv, Trace!AbstentionKeepsModel
    <3>5. CASE i = n + 1
      <4>1. log'[i].active = active
        BY <1>6, <3>3, <3>5, ReportWrites
      <4>2. j \in 1..(i - 1) /\ log'[j] = log[j]
        BY <3>3, <3>5
      <4>3. \A k \in (j + 1)..(i - 1) : k \in 1..n /\ k > j /\ log'[k] = log[k]
        BY <3>3, <3>5
      <4> QED
        BY <3>2, <3>4, <4>1, <4>2, <4>3
    <3>6. CASE i # n + 1
      <4>1. i \in 1..n /\ log'[i] = log[i] /\ \A l \in 1..(i - 1) : log'[l] = log[l]
        BY <3>3, <3>6
      <4>2. log[i].active # Nil
        BY <3>3, <4>1 DEF AbstainInv, Trace!AbstentionKeepsModel
      <4>3. PICK l \in 1..(i - 1) : /\ log[l].event = "frame" /\ log[l].serving = log[i].active
                                    /\ \A k \in (l + 1)..(i - 1) : log[k].event # "frame"
        BY <3>3, <4>1 DEF AbstainInv, Trace!AbstentionKeepsModel
      <4>4. \A k \in (l + 1)..(i - 1) : k \in 1..(i - 1)
        OBVIOUS
      <4> QED
        BY <4>1, <4>2, <4>3, <4>4
    <3> QED
      BY <3>5, <3>6
  <2> QED
    BY <2>3, <2>4
<1>7. CASE Trace!Replace \/ Trace!PressureEnds
  <2>1. /\ step' = step + 1 /\ step \in DOMAIN Trace!Script
        /\ Trace!call.op \notin {"infer", "switch"}
    BY <1>7 DEF Trace!Replace, Trace!PressureEnds, Trace!Calls, Trace!Emit
  <2>2. \E e : log' = Append(log, e) /\ e.event \notin {"frame", "abstain"}
    <3>1. CASE Trace!Replace
      BY <3>1 DEF Trace!Replace, Trace!Emit
    <3>2. CASE Trace!PressureEnds
      BY <3>2 DEF Trace!PressureEnds, Trace!Emit
    <3> QED
      BY <1>7, <3>1, <3>2
  <2> QED
    BY <1>2, <1>3, <2>1, <2>2
<1>8. CASE Trace!VerifyAssets \/ Trace!ReadCounter \/ Trace!PressureBegins \/ Trace!WriteSummary
  <2>1. /\ step' = step + 1 /\ step \in DOMAIN Trace!Script
        /\ Trace!call.op \notin {"infer", "switch"} /\ UNCHANGED log
    BY <1>8 DEF Trace!VerifyAssets, Trace!ReadCounter, Trace!PressureBegins, Trace!WriteSummary,
         Trace!Calls, Trace!Same
  <2> QED
    BY <1>1, <1>3, <2>1
<1>9. CASE Trace!DamagedLoads
  <2>1. /\ step' = step /\ step \in DOMAIN Trace!Script /\ Trace!call.corrupt
        /\ Trace!call.op = "switch" /\ UNCHANGED log
    BY <1>9 DEF Trace!DamagedLoads, Trace!Calls, Trace!Abort
  <2>2. step' \notin {145, 146}
    <3>1. step # 145 /\ step # 146
      BY <2>1, CallFits DEF Fits
    <3> QED
      BY <2>1, <3>1
  <2> QED
    BY <1>1, <2>1, <2>2
<1>10. CASE \/ Trace!Raise \/ Trace!Open \/ Trace!Read \/ Trace!Judge \/ UNCHANGED Trace!vars
  <2>1. UNCHANGED log /\ step' = step /\ active' = active
    BY <1>10 DEF Trace!Raise, Trace!Open, Trace!Read, Trace!Judge, Trace!Abort, Trace!Same,
         Trace!running, Trace!vars
  <2> QED
    BY <1>1, <2>1
<1> QED
  BY <1>4, <1>5, <1>6, <1>7, <1>8, <1>9, <1>10 DEF Trace!Next, Trace!Exercise, Trace!Verify

-----------------------------------------------------------------------------
Counters == [throttled : Nat, current : Nat, peak : Nat]

Sane(p) == p \in Counters /\ p.peak >= p.current
Below(p, q) == q.peak >= p.peak /\ q.throttled >= p.throttled

CountersInv ==
  /\ cgroup \in Counters /\ profiles \in [now : Counters, before : Counters]
  /\ profiles.now.throttled <= cgroup.throttled
  /\ profiles.now.current <= cgroup.peak /\ profiles.now.peak <= cgroup.peak
  /\ Sane(profiles.before) /\ Below(profiles.before, profiles.now)
  /\ step \in Peaks \/ Sane(profiles.now)

IsReport(e) == e.event \in {"header", "pressure", "summary"}
First(e) == IF e.event = "pressure" THEN e.before ELSE e.profile
Last(e)  == IF e.event = "pressure" THEN e.now ELSE e.profile

ReportsInv ==
  /\ \A i \in DOMAIN log : IsReport(log[i]) =>
       /\ Sane(First(log[i])) /\ Sane(Last(log[i])) /\ Below(First(log[i]), Last(log[i]))
       /\ Below(Last(log[i]), profiles.now)
       /\ step \in 52..76 => Below(Last(log[i]), profiles.before)
  /\ \A i, j \in DOMAIN log :
       IsReport(log[i]) /\ IsReport(log[j]) /\ i < j => Below(Last(log[i]), First(log[j]))

LEMMA ReportsAreOrdered == ReportsInv => Trace!NoRollBack
BY DEF ReportsInv, Trace!NoRollBack, Trace!Progresses, IsReport, First, Last, Sane, Below, Counters

\* What a read leaves (ReadCounter).
LEMMA ReadFacts ==
  ASSUME CountersInv, PlaceInv, Trace!ReadCounter
  PROVE  /\ step \in DOMAIN Trace!Script /\ step' = step + 1 /\ UNCHANGED log
         /\ cgroup' \in Counters /\ profiles' \in [now : Counters, before : Counters]
         /\ profiles'.before = profiles.before
         /\ cgroup'.throttled >= cgroup.throttled /\ cgroup'.peak >= cgroup.peak
         /\ cgroup'.peak >= cgroup'.current
         /\ \/ /\ Trace!call.phase = "throttled"
               /\ profiles'.now.throttled = cgroup'.throttled
               /\ profiles'.now.current = profiles.now.current
               /\ profiles'.now.peak = profiles.now.peak
            \/ /\ Trace!call.phase = "current"
               /\ profiles'.now.throttled = profiles.now.throttled
               /\ profiles'.now.current = cgroup'.current
               /\ profiles'.now.peak = profiles.now.peak
            \/ /\ Trace!call.phase = "peak"
               /\ profiles'.now.throttled = profiles.now.throttled
               /\ profiles'.now.current = profiles.now.current
               /\ profiles'.now.peak = cgroup'.peak
<1>1. step \in DOMAIN Trace!Script /\ Trace!call.op = "read" /\ step' = step + 1 /\ UNCHANGED log
  BY DEF Trace!ReadCounter, Trace!Calls
<1>2. Trace!call.phase \in {"throttled", "current", "peak"}
  BY <1>1, CallFits DEF Fits
<1> DEFINE top(a, b) == CHOOSE p \in {cgroup.peak, a, b} : p >= cgroup.peak /\ p >= a /\ p >= b
<1>3. PICK current \in 0..MaxCount, more \in 0..MaxCount,
           t \in cgroup.throttled..MaxCount :
        /\ cgroup' = [throttled |-> t, current |-> current, peak |-> top(current, more)]
        /\ profiles' = [profiles EXCEPT !.now[Trace!call.phase] = cgroup'[Trace!call.phase]]
  BY DEF Trace!ReadCounter
<1>4. /\ cgroup.peak \in Nat /\ cgroup.throttled \in Nat
      /\ current \in Nat /\ more \in Nat /\ t \in Nat /\ t >= cgroup.throttled
  BY DEF CountersInv, Counters
<1>5. /\ top(current, more) \in Nat /\ top(current, more) >= cgroup.peak
      /\ top(current, more) >= current
  <2>1. \E p \in {cgroup.peak, current, more} : p >= cgroup.peak /\ p >= current /\ p >= more
    BY <1>4
  <2>2. /\ top(current, more) \in {cgroup.peak, current, more}
        /\ top(current, more) >= cgroup.peak /\ top(current, more) >= current
    BY <2>1
  <2> HIDE DEF top
  <2> QED
    BY <1>4, <2>2
<1> HIDE DEF top
<1>6. /\ cgroup' \in Counters /\ cgroup'.throttled >= cgroup.throttled
      /\ cgroup'.peak >= cgroup.peak /\ cgroup'.peak >= cgroup'.current
  BY <1>3, <1>4, <1>5 DEF Counters
<1>7. profiles \in [now : Counters, before : Counters]
  BY DEF CountersInv
<1>8. profiles' = [profiles EXCEPT
                     !.now = [@ EXCEPT ![Trace!call.phase] = cgroup'[Trace!call.phase]]]
  BY <1>3
<1>9. profiles'.before = profiles.before
      /\ profiles'.now = [profiles.now EXCEPT ![Trace!call.phase] = cgroup'[Trace!call.phase]]
  BY <1>7, <1>8
<1>10. CASE Trace!call.phase = "throttled"
  BY <1>1, <1>6, <1>7, <1>8, <1>9, <1>10 DEF Counters
<1>11. CASE Trace!call.phase = "current"
  BY <1>1, <1>6, <1>7, <1>8, <1>9, <1>11 DEF Counters
<1>12. CASE Trace!call.phase = "peak"
  BY <1>1, <1>6, <1>7, <1>8, <1>9, <1>12 DEF Counters
<1> QED
  BY <1>2, <1>10, <1>11, <1>12

LEMMA CountersStep == CountersInv /\ PlaceInv /\ [Trace!Next]_(Trace!vars) => CountersInv'
<1> SUFFICES ASSUME CountersInv, PlaceInv, [Trace!Next]_(Trace!vars) PROVE CountersInv'
  OBVIOUS
<1>1. ASSUME UNCHANGED <<cgroup, profiles>>, step' = step \/ Sane(profiles.now) PROVE CountersInv'
  BY <1>1 DEF CountersInv, Sane, Below
<1>2. ASSUME step \in DOMAIN Trace!Script, Trace!call.op # "read" PROVE Sane(profiles.now)
  <2>1. step \notin Peaks
    BY <1>2, CallFits DEF Fits
  <2> QED
    BY <2>1 DEF CountersInv
<1>3. CASE Trace!ReadCounter
  <2>1. /\ profiles.now \in Counters /\ profiles'.now \in Counters /\ cgroup \in Counters
        /\ cgroup' \in Counters /\ profiles.before \in Counters
    BY <1>3, ReadFacts DEF CountersInv
  <2>2. profiles.before.peak >= profiles.before.current
    BY DEF CountersInv, Sane
  <2>3. /\ profiles'.now.throttled <= cgroup'.throttled
        /\ profiles'.now.current <= cgroup'.peak /\ profiles'.now.peak <= cgroup'.peak
        /\ profiles'.now.throttled >= profiles.now.throttled
        /\ profiles'.now.peak >= profiles.now.peak
    BY <1>3, <2>1, ReadFacts DEF CountersInv, Counters
  <2>4. Below(profiles.before, profiles'.now)
    BY <2>1, <2>3 DEF CountersInv, Below, Counters
  <2>5. step' \in Peaks \/ Sane(profiles'.now)
    <3>1. CASE Trace!call.phase = "peak"
      BY <1>3, <2>1, <3>1, ReadFacts DEF CountersInv, Sane, Counters
    <3>2. CASE Trace!call.phase = "current"
      <4>1. step + 1 \in Peaks
        BY <1>3, <3>2, CallFits, ReadFacts DEF Fits, Trace!ReadCounter, Trace!Calls
      <4> QED
        BY <1>3, <4>1, ReadFacts
    <3>3. CASE Trace!call.phase = "throttled"
      <4>1. step \notin Peaks
        BY <1>3, <3>3, CallFits, ReadFacts DEF Fits
      <4> QED
        BY <1>3, <2>1, <3>3, <4>1, ReadFacts DEF CountersInv, Sane
    <3> QED
      BY <1>3, <3>1, <3>2, <3>3, ReadFacts
  <2>6. /\ cgroup' \in Counters /\ profiles' \in [now : Counters, before : Counters]
        /\ profiles'.before = profiles.before
    BY <1>3, ReadFacts
  <2>7. Sane(profiles'.before) /\ Below(profiles'.before, profiles'.now)
    BY <2>1, <2>2, <2>4, <2>6 DEF Sane
  <2> QED
    BY <2>3, <2>5, <2>6, <2>7 DEF CountersInv
<1>4. CASE Trace!PressureBegins
  <2>1. /\ step \in DOMAIN Trace!Script /\ Trace!call.op # "read"
        /\ profiles' = [profiles EXCEPT !.before = profiles.now] /\ cgroup' = cgroup
    BY <1>4 DEF Trace!PressureBegins, Trace!Calls
  <2>2. Sane(profiles.now)
    BY <1>2, <2>1
  <2>3. /\ profiles' \in [now : Counters, before : Counters]
        /\ profiles'.now = profiles.now /\ profiles'.before = profiles.now
    BY <2>1 DEF CountersInv
  <2>4. Below(profiles.now, profiles.now)
    BY <2>2 DEF Sane, Below, Counters
  <2> QED
    BY <2>1, <2>2, <2>3, <2>4 DEF CountersInv
<1>5. CASE \/ Trace!SwitchUnchanged \/ Trace!SwitchPublishes \/ Trace!SwitchFails \/ Trace!Serve
           \/ Trace!Report \/ Trace!VerifyAssets \/ Trace!Replace \/ Trace!PressureEnds
           \/ Trace!WriteSummary
  <2>1. step \in DOMAIN Trace!Script /\ Trace!call.op # "read"
    BY <1>5 DEF Trace!SwitchUnchanged, Trace!SwitchPublishes, Trace!SwitchFails, Trace!Serve,
         Trace!Report, Trace!VerifyAssets, Trace!Replace, Trace!PressureEnds,
         Trace!WriteSummary, Trace!Calls
  <2>2. UNCHANGED <<cgroup, profiles>>
    BY <1>5 DEF Trace!SwitchUnchanged, Trace!SwitchPublishes, Trace!SwitchFails, Trace!Serve,
         Trace!Report, Trace!VerifyAssets, Trace!Replace, Trace!PressureEnds,
         Trace!WriteSummary, Trace!Same, Trace!resources
  <2> QED
    BY <1>1, <1>2, <2>1, <2>2
<1>6. CASE \/ Trace!Raise \/ Trace!DamagedLoads \/ Trace!ServeMismatch
           \/ Trace!Open \/ Trace!Read \/ Trace!Judge \/ UNCHANGED Trace!vars
  <2>1. step' = step /\ UNCHANGED <<cgroup, profiles>>
    BY <1>6 DEF Trace!Raise, Trace!DamagedLoads, Trace!ServeMismatch, Trace!Open, Trace!Read,
         Trace!Judge, Trace!Abort, Trace!Same, Trace!running, Trace!vars, Trace!resources
  <2> QED
    BY <1>1, <2>1
<1> QED
  BY <1>3, <1>4, <1>5, <1>6 DEF Trace!Next, Trace!Exercise, Trace!Verify

\* Profiles only grow, and the first one of the pressure stays until its report.
LEMMA ProfilesGrow ==
  ASSUME CountersInv, PlaceInv, [Trace!Next]_(Trace!vars)
  PROVE  /\ Below(profiles.now, profiles'.now)
         /\ step' \in 52..76 => \/ step \in 52..76 /\ profiles'.before = profiles.before
                                \/ UNCHANGED log /\ profiles'.before = profiles.now
<1>1. ASSUME UNCHANGED profiles PROVE Below(profiles.now, profiles'.now)
  BY <1>1 DEF CountersInv, Below, Counters
<1>2. ASSUME step \in DOMAIN Trace!Script, Trace!call.op # "pressure before", step' = step + 1
      PROVE  step' \in 52..76 => step \in 52..76
  <2>1. step \in 1..154 /\ step # 51
    BY <1>2, CallFits DEF Fits
  <2>2. step' = step + 1
    BY <1>2
  <2> QED
    BY <2>1, <2>2
<1>3. CASE Trace!ReadCounter
  <2>1. Below(profiles.now, profiles'.now)
    BY <1>3, ReadFacts DEF CountersInv, Below, Counters
  <2>2. Trace!call.op = "read"
    BY <1>3 DEF Trace!ReadCounter, Trace!Calls
  <2>3. profiles'.before = profiles.before /\ step \in DOMAIN Trace!Script /\ step' = step + 1
    BY <1>3, ReadFacts
  <2> QED
    BY <1>2, <2>1, <2>2, <2>3
<1>4. CASE Trace!PressureBegins
  <2>1. profiles' = [profiles EXCEPT !.before = profiles.now] /\ UNCHANGED log
    BY <1>4 DEF Trace!PressureBegins
  <2>2. profiles'.now = profiles.now /\ profiles'.before = profiles.now
    BY <2>1 DEF CountersInv
  <2>3. Below(profiles.now, profiles.now)
    BY DEF CountersInv, Below, Counters
  <2> QED
    BY <2>1, <2>2, <2>3
<1>5. CASE \/ Trace!SwitchUnchanged \/ Trace!SwitchPublishes \/ Trace!SwitchFails \/ Trace!Serve
           \/ Trace!Report \/ Trace!VerifyAssets \/ Trace!Replace \/ Trace!PressureEnds
           \/ Trace!WriteSummary
  <2>1. /\ step \in DOMAIN Trace!Script /\ Trace!call.op # "pressure before" /\ step' = step + 1
    BY <1>5 DEF Trace!SwitchUnchanged, Trace!SwitchPublishes, Trace!SwitchFails, Trace!Serve,
         Trace!Report, Trace!VerifyAssets, Trace!Replace, Trace!PressureEnds,
         Trace!WriteSummary, Trace!Calls, Trace!Emit
  <2>2. UNCHANGED profiles
    BY <1>5 DEF Trace!SwitchUnchanged, Trace!SwitchPublishes, Trace!SwitchFails, Trace!Serve,
         Trace!Report, Trace!VerifyAssets, Trace!Replace, Trace!PressureEnds,
         Trace!WriteSummary, Trace!Same, Trace!resources
  <2> QED
    BY <1>1, <1>2, <2>1, <2>2
<1>6. CASE \/ Trace!Raise \/ Trace!DamagedLoads \/ Trace!ServeMismatch
           \/ Trace!Open \/ Trace!Read \/ Trace!Judge \/ UNCHANGED Trace!vars
  <2>1. step' = step /\ UNCHANGED profiles
    BY <1>6 DEF Trace!Raise, Trace!DamagedLoads, Trace!ServeMismatch, Trace!Open, Trace!Read,
         Trace!Judge, Trace!Abort, Trace!Same, Trace!running, Trace!vars, Trace!resources
  <2> QED
    BY <1>1, <2>1
<1> QED
  BY <1>3, <1>4, <1>5, <1>6 DEF Trace!Next, Trace!Exercise, Trace!Verify

\* What is written, and when.
LEMMA Reported ==
  ASSUME CountersInv, PlaceInv, [Trace!Next]_(Trace!vars)
  PROVE  \/ UNCHANGED log
         \/ \E e : /\ log' = Append(log, e)
                   /\ \/ ~IsReport(e)
                      \/ /\ Last(e) = profiles.now /\ Sane(profiles.now) /\ UNCHANGED profiles
                         /\ \/ First(e) = profiles.now
                            \/ First(e) = profiles.before /\ step = 76
                         /\ step' \notin 52..76
<1>1. CASE Trace!Report
  <2>1. step \in DOMAIN Trace!Script /\ step' = step + 1 /\ UNCHANGED profiles
    BY <1>1 DEF Trace!Report, Trace!Calls, Trace!Emit, Trace!Same, Trace!resources
  <2>2. CASE ReportEvent.event \in {"header", "summary"}
    <3>1. step \in 1..154 /\ (step < 51 \/ step > 76) /\ step \notin Peaks
      BY <1>1, <2>1, <2>2, CallFits, ReportWrites DEF Fits
    <3>2. Sane(profiles.now) /\ step' \notin 52..76
      BY <2>1, <3>1 DEF CountersInv
    <3>3. Last(ReportEvent) = profiles.now /\ First(ReportEvent) = profiles.now
      BY <1>1, <2>2, ReportWrites DEF First, Last
    <3> QED
      BY <1>1, <2>1, <3>2, <3>3, ReportWrites
  <2>3. CASE ReportEvent.event \notin {"header", "summary"}
    BY <1>1, <2>3, ReportWrites DEF IsReport
  <2> QED
    BY <2>2, <2>3
<1>2. CASE Trace!PressureEnds
  <2> DEFINE e == [event |-> "pressure", phase |-> Trace!call.phase,
                   before |-> profiles.before, now |-> profiles.now]
  <2>1. /\ step \in DOMAIN Trace!Script /\ step' = step + 1 /\ UNCHANGED profiles
        /\ Trace!call.op = "pressure" /\ log' = Append(log, e)
    BY <1>2 DEF Trace!PressureEnds, Trace!Calls, Trace!Emit, Trace!Same, Trace!resources
  <2>2. Last(e) = profiles.now /\ First(e) = profiles.before
    BY DEF First, Last
  <2> HIDE DEF e
  <2>3. step = 76 /\ step \notin Peaks
    BY <2>1, CallFits DEF Fits
  <2>4. Sane(profiles.now) /\ step' \notin 52..76
    BY <2>1, <2>3 DEF CountersInv
  <2> QED
    BY <2>1, <2>2, <2>3, <2>4
<1>3. CASE Trace!Serve \/ Trace!ServeMismatch
  <2>1. PICK matches \in BOOLEAN : log' = Append(log, Trace!Frame(matches))
    BY <1>3 DEF Trace!Serve, Trace!ServeMismatch, Trace!Emit
  <2>2. ~IsReport(Trace!Frame(matches))
    BY DEF Trace!Frame, IsReport
  <2> QED
    BY <2>1, <2>2
<1>4. CASE Trace!SwitchUnchanged \/ Trace!SwitchPublishes \/ Trace!SwitchFails
  <2>1. PICK m, s : log' = Append(log, Trace!Activation(m, s))
    BY <1>4 DEF Trace!SwitchUnchanged, Trace!SwitchPublishes, Trace!SwitchFails, Trace!Emit
  <2>2. ~IsReport(Trace!Activation(m, s))
    BY DEF Trace!Activation, IsReport
  <2> QED
    BY <2>1, <2>2
<1>5. CASE Trace!Replace
  <2> DEFINE e == [event |-> "artifact", phase |-> Trace!call.phase, actual |-> Trace!call.content]
  <2>1. log' = Append(log, e)
    BY <1>5 DEF Trace!Replace, Trace!Emit
  <2>2. ~IsReport(e)
    BY DEF IsReport
  <2> QED
    BY <2>1, <2>2
<1>6. CASE \/ Trace!Raise \/ Trace!DamagedLoads \/ Trace!VerifyAssets \/ Trace!ReadCounter
           \/ Trace!PressureBegins \/ Trace!WriteSummary \/ Trace!Open \/ Trace!Read
           \/ Trace!Judge \/ UNCHANGED Trace!vars
  <2>1. UNCHANGED log
    BY <1>6 DEF Trace!Raise, Trace!DamagedLoads, Trace!VerifyAssets, Trace!ReadCounter,
         Trace!PressureBegins, Trace!WriteSummary, Trace!Open, Trace!Read, Trace!Judge,
         Trace!running, Trace!vars
  <2> QED
    BY <2>1
<1> QED
  BY <1>1, <1>2, <1>3, <1>4, <1>5, <1>6 DEF Trace!Next, Trace!Exercise, Trace!Verify

LEMMA ReportsStep ==
  ReportsInv /\ CountersInv /\ PlaceInv /\ LogList /\ [Trace!Next]_(Trace!vars) => ReportsInv'
<1> SUFFICES ASSUME ReportsInv, CountersInv, PlaceInv, LogList, [Trace!Next]_(Trace!vars)
             PROVE  ReportsInv'
  OBVIOUS
<1> DEFINE Kept(e) == /\ Sane(First(e)) /\ Sane(Last(e)) /\ Below(First(e), Last(e))
                      /\ Below(Last(e), profiles'.now)
                      /\ step' \in 52..76 => Below(Last(e), profiles'.before)
<1>1. /\ profiles.now \in Counters /\ profiles'.now \in Counters
      /\ profiles.before \in Counters /\ Below(profiles.before, profiles.now)
      /\ Sane(profiles.before)
  <2>1. CountersInv'
    BY CountersStep
  <2> QED
    BY <2>1 DEF CountersInv
<1>2. \A p, q, r \in Counters : Below(p, q) /\ Below(q, r) => Below(p, r)
  BY DEF Below, Counters
<1>3. ASSUME NEW i \in DOMAIN log, IsReport(log[i]) PROVE Kept(log[i])
  <2>1. /\ Sane(First(log[i])) /\ Sane(Last(log[i])) /\ Below(First(log[i]), Last(log[i]))
        /\ Below(Last(log[i]), profiles.now)
        /\ step \in 52..76 => Below(Last(log[i]), profiles.before)
    BY <1>3 DEF ReportsInv
  <2>2. Last(log[i]) \in Counters
    BY <2>1 DEF Sane
  <2>3. Below(Last(log[i]), profiles'.now)
    BY <1>1, <1>2, <2>1, <2>2, ProfilesGrow
  <2>4. step' \in 52..76 => Below(Last(log[i]), profiles'.before)
    BY <2>1, ProfilesGrow
  <2> QED
    BY <2>1, <2>3, <2>4
<1>4. CASE UNCHANGED log
  <2>1. \A i \in DOMAIN log' : IsReport(log'[i]) => Kept(log'[i])
    BY <1>3, <1>4
  <2> QED
    BY <1>4, <2>1 DEF ReportsInv
<1>5. CASE \E e : /\ log' = Append(log, e)
                  /\ \/ ~IsReport(e)
                     \/ /\ Last(e) = profiles.now /\ Sane(profiles.now) /\ UNCHANGED profiles
                        /\ \/ First(e) = profiles.now
                           \/ First(e) = profiles.before /\ step = 76
                        /\ step' \notin 52..76
  <2>1. PICK e : /\ log' = Append(log, e)
                 /\ \/ ~IsReport(e)
                    \/ /\ Last(e) = profiles.now /\ Sane(profiles.now) /\ UNCHANGED profiles
                       /\ \/ First(e) = profiles.now
                          \/ First(e) = profiles.before /\ step = 76
                       /\ step' \notin 52..76
    BY <1>5
  <2>2. PICK n \in Nat : /\ DOMAIN log = 1..n /\ DOMAIN log' = 1..(n + 1)
                         /\ \A i \in 1..n : log'[i] = log[i]
                         /\ log'[n + 1] = e
    BY <2>1, Written
  <2>3. ASSUME IsReport(e)
        PROVE  /\ Kept(e)
               /\ \A i \in 1..n : IsReport(log[i]) => Below(Last(log[i]), First(e))
    <3>1. /\ Last(e) = profiles.now /\ Sane(profiles.now) /\ profiles'.now = profiles.now
          /\ First(e) = profiles.now \/ (First(e) = profiles.before /\ step = 76)
          /\ step' \notin 52..76
      BY <2>1, <2>3
    <3>2. Below(profiles.now, profiles.now)
      BY <1>1 DEF Below, Counters
    <3>3. Kept(e)
      BY <1>1, <3>1, <3>2
    <3>4. ASSUME NEW i \in 1..n, IsReport(log[i]) PROVE Below(Last(log[i]), First(e))
      <4>1. /\ Below(Last(log[i]), profiles.now)
            /\ step \in 52..76 => Below(Last(log[i]), profiles.before)
        BY <2>2, <3>4 DEF ReportsInv
      <4> QED
        BY <3>1, <4>1
    <3> QED
      BY <3>3, <3>4
  <2> HIDE DEF Kept
  <2>4. \A i \in DOMAIN log' : i \in 1..n \/ i = n + 1
    BY <2>2
  <2>5. ASSUME NEW i \in DOMAIN log', IsReport(log'[i]) PROVE Kept(log'[i])
    BY <1>3, <2>2, <2>3, <2>4, <2>5
  <2>6. ASSUME NEW i \in DOMAIN log', NEW j \in DOMAIN log',
               IsReport(log'[i]), IsReport(log'[j]), i < j
        PROVE  Below(Last(log'[i]), First(log'[j]))
    <3>1. i \in 1..n
      BY <2>2, <2>6
    <3>2. CASE j \in 1..n
      BY <2>2, <2>6, <3>1, <3>2 DEF ReportsInv
    <3>3. CASE j = n + 1
      BY <2>2, <2>3, <2>6, <3>1, <3>3
    <3> QED
      BY <2>4, <3>2, <3>3
  <2> QED
    BY <2>5, <2>6 DEF ReportsInv, Kept
<1> QED
  BY <1>4, <1>5, Reported

-----------------------------------------------------------------------------
EvidenceInv ==
  PlaceInv /\ LogList /\ SoundInv /\ AbstainInv /\ CountersInv /\ ReportsInv

LEMMA EvidenceInit == Trace!Init => EvidenceInv
<1> SUFFICES ASSUME Trace!Init PROVE EvidenceInv
  OBVIOUS
<1>1. PlaceInv
  BY DEF Trace!Init, PlaceInv
<1>2. LogList /\ DOMAIN log = {}
  <2>1. log = <<>> /\ 0 \in Nat
    BY DEF Trace!Init
  <2>2. log \in Seq({}) /\ Len(log) = 0 /\ DOMAIN log = 1..0
    BY <2>1
  <2> QED
    BY <2>1, <2>2 DEF LogList, List
<1>3. SoundInv
  <2>1. session
    BY DEF Trace!Init
  <2> QED
    BY <1>2, <2>1 DEF SoundInv, Trace!DamageIsNeverServed
<1>4. AbstainInv
  <2>1. step = 1
    BY DEF Trace!Init
  <2> QED
    BY <1>2, <2>1 DEF AbstainInv, Trace!AbstentionKeepsModel
<1>5. CountersInv
  <2>1. PICK n \in 0..MaxCount :
          /\ cgroup = [throttled |-> 0, current |-> 0, peak |-> n]
          /\ profiles = [now |-> [throttled |-> 0, current |-> 0, peak |-> 0],
                         before |-> [throttled |-> 0, current |-> 0, peak |-> 0]]
    BY DEF Trace!Init
  <2>2. n \in Nat
    OBVIOUS
  <2> QED
    BY <2>1, <2>2 DEF CountersInv, Counters, Sane, Below
<1>6. ReportsInv
  BY <1>2 DEF ReportsInv
<1> QED
  BY <1>1, <1>2, <1>3, <1>4, <1>5, <1>6 DEF EvidenceInv

LEMMA EvidenceStep == EvidenceInv /\ [Trace!Next]_(Trace!vars) => EvidenceInv'
BY PlaceStep, LogListStep, SoundStep, AbstainStep, CountersStep, ReportsStep DEF EvidenceInv

LEMMA EvidenceInvariant == Trace!Spec => []EvidenceInv
BY EvidenceInit, EvidenceStep, PTL DEF Trace!Spec

\* However the cgroup counts while its files are read, and wherever the run raises: no
\* frame in a log was served from the damaged file (run.py 54-55), the abstention
\* leaves the model of the frame before it (run.py 131-133), and no two profiles
\* contradict each other ("resource counter rolled back", verify.py 62-68).
THEOREM LogsAreTruthful == Trace!Spec => []Trace!LogInv
<1>1. EvidenceInv => Trace!LogInv
  BY ReportsAreOrdered DEF EvidenceInv, SoundInv, AbstainInv, Trace!LogInv
<1> QED
  BY <1>1, EvidenceInvariant, PTL

\* The verifier accepts no run that did not get to its end: its last call writes the
\* summary that verify_run asks for (run.py 206-220, verify.py 240-248).
THEOREM OnlyCompleteRunsAreAccepted == Trace!Spec => []Trace!AcceptsOnlyCompleteRuns
<1>1. EvidenceInv => Trace!AcceptsOnlyCompleteRuns
  <2> SUFFICES ASSUME EvidenceInv, verdict = "accepted" PROVE Trace!Complete
    BY DEF Trace!AcceptsOnlyCompleteRuns
  <2>1. step = 155
    BY DEF EvidenceInv, PlaceInv
  <2> QED
    BY <2>1, LastCall DEF Trace!Complete
<1> QED
  BY <1>1, EvidenceInvariant, PTL
=============================================================================
