----------------------------- MODULE CpuPressure -----------------------------
(***************************************************************************)
(* examples/edge/resources.py: the context manager cpu_pressure().  It     *)
(* starts worker processes that burn CPU next to the inference, waits for  *)
(* them, runs a block, checks that they really competed for the CPU while  *)
(* it ran, and takes them down however the block or the checks end.        *)
(*                                                                         *)
(* A worker may start late, die at any time or not die of a signal within  *)
(* the time allowed; starting or signalling one may raise; a second Ctrl-C *)
(* interrupts the Python code at any point, its cleanup included.          *)
(***************************************************************************)
EXTENDS Naturals

CONSTANTS
  Count,      \* workers
  MaxTicks    \* bound on the CPU ticks of a worker and on the throttlings

Workers == 1..Count

ASSUME PressureAssumption == Count \in Nat \ {0} /\ MaxTicks \in Nat

VARIABLES
  proc,       \* proc[w]: the process of worker w
  printed,    \* printed[w]: it has written "ready"
  cpu,        \* cpu[w]: CPU it has used
  throttled,  \* throttlings of the cgroup
  listed,     \* the list has the workers 1..listed
  cm          \* the context manager: its stage pc, the worker it is at, its
              \* samples before and after the block, its first failure, whether
              \* _stop has met an error, what it raises and with a note or not,
              \* and (history) the workers alive when the block ended

processes == <<proc, printed, cpu, throttled>>
vars == <<processes, listed, cm>>

Working == {"spawning", "readying", "sampling", "block", "finishing"}
Cleaning == {"terminating", "waiting", "killing"}
Failures == Working \cup {"none", "interrupt"}
Sample == [cpu : [Workers -> 0..MaxTicks], throttled : 0..MaxTicks]

TypeOK ==
  /\ proc \in [Workers -> {"none", "starting", "burning", "dead"}]
  /\ printed \in [Workers -> BOOLEAN]
  /\ cpu \in [Workers -> 0..MaxTicks] /\ throttled \in 0..MaxTicks
  /\ listed \in 0..Count
  /\ cm.pc \in Working \cup Cleaning \cup {"over"} /\ cm.at \in 1..(Count + 1)
  /\ cm.before \in Sample /\ cm.after \in Sample
  /\ cm.failure \in Failures /\ cm.raised \in Failures \cup {"unreaped", "cut short"}
  /\ cm.unstopped \in BOOLEAN /\ cm.noted \in BOOLEAN
  /\ cm.open \subseteq Workers /\ cm.outlasted \subseteq Workers

NoSample == [cpu |-> [w \in Workers |-> 0], throttled |-> 0]

Init ==
  /\ proc = [w \in Workers |-> "none"] /\ printed = [w \in Workers |-> FALSE]
  /\ cpu = [w \in Workers |-> 0] /\ throttled = 0
  /\ listed = 0
  /\ cm = [pc |-> "spawning", at |-> 1, before |-> NoSample, after |-> NoSample,
           failure |-> "none", unstopped |-> FALSE, raised |-> "none", noted |-> FALSE,
           open |-> {}, outlasted |-> {}]

-----------------------------------------------------------------------------
(***************************************************************************)
(* The workers and the cgroup.                                             *)
(***************************************************************************)
Alive(w) == proc[w] \in {"starting", "burning"}

Ready(w) ==
  /\ proc[w] = "starting"
  /\ proc' = [proc EXCEPT ![w] = "burning"]
  /\ printed' = [printed EXCEPT ![w] = TRUE]
  /\ UNCHANGED <<cpu, throttled, listed, cm>>

Burn(w) ==
  /\ proc[w] = "burning" /\ cpu[w] < MaxTicks
  /\ cpu' = [cpu EXCEPT ![w] = @ + 1]
  /\ UNCHANGED <<proc, printed, throttled, listed, cm>>

\* It crashes, is killed by a signal or comes to its deadline.
Die(w) ==
  /\ Alive(w)
  /\ proc' = [proc EXCEPT ![w] = "dead"]
  /\ UNCHANGED <<printed, cpu, throttled, listed, cm>>

Throttle ==
  /\ throttled < MaxTicks /\ \E w \in Workers : proc[w] = "burning"
  /\ throttled' = throttled + 1
  /\ UNCHANGED <<proc, printed, cpu, listed, cm>>

Environment == Throttle \/ \E w \in Workers : Ready(w) \/ Burn(w) \/ Die(w)

-----------------------------------------------------------------------------
(***************************************************************************)
(* Up to the block and through the checks after it.                        *)
(***************************************************************************)

\* The context manager is in a loop over the workers, at one of them.
At(stage, all) == cm.pc = stage /\ cm.at \in 1..all

\* It ends its turn with this worker, leaving the processes alone.
Done(changed) == cm' = [changed EXCEPT !.at = @ + 1] /\ UNCHANGED processes

Enter(stage, changed) ==
  cm' = [changed EXCEPT !.pc = stage, !.at = 1] /\ UNCHANGED <<processes, listed>>

Spawn ==
  /\ At("spawning", Count)
  /\ proc' = [proc EXCEPT ![cm.at] = "starting"]
  /\ listed' = cm.at
  /\ cm' = [cm EXCEPT !.at = @ + 1, !.open = @ \cup {cm.at}]
  /\ UNCHANGED <<printed, cpu, throttled>>

\* select and readline find "ready", even if the worker has died since.
FindReady == At("readying", Count) /\ printed[cm.at] /\ Done(cm) /\ UNCHANGED listed

\* _worker_cpu, before the block.
SampleBefore ==
  /\ At("sampling", Count) /\ Alive(cm.at)
  /\ Done([cm EXCEPT !.before.cpu[cm.at] = cpu[cm.at]]) /\ UNCHANGED listed

\* _finish_pressure takes its snapshot of the cgroup first.
BlockEnds ==
  /\ cm.pc = "block"
  /\ Enter("finishing", [cm EXCEPT !.after.throttled = throttled,
                                   !.outlasted = {w \in Workers : Alive(w)}])

\* MUTANT: the worker's CPU time is read without asking whether it still runs.
SampleAfterWithoutPoll ==
  /\ At("finishing", Count)
  /\ Done([cm EXCEPT !.after.cpu[cm.at] = cpu[cm.at]]) /\ UNCHANGED listed

SampleAfter ==
  /\ At("finishing", Count) /\ Alive(cm.at)
  /\ Done([cm EXCEPT !.after.cpu[cm.at] = cpu[cm.at]]) /\ UNCHANGED listed

\* The checks of _finish_pressure on its samples.
Contended ==
  /\ cm.after.throttled > cm.before.throttled
  /\ \A w \in Workers : cm.after.cpu[w] > cm.before.cpu[w]

\* A loop is through.
NextStage ==
  \/ cm.pc = "spawning" /\ cm.at > Count /\ Enter("readying", cm)
  \/ cm.pc = "readying" /\ cm.at > Count /\ Enter("sampling", cm)
  \/ /\ cm.pc = "sampling" /\ cm.at > Count
     /\ Enter("block", [cm EXCEPT !.before.throttled = throttled])
  \/ cm.pc = "finishing" /\ cm.at > Count /\ Contended /\ Enter("terminating", cm)
  \/ cm.pc = "terminating" /\ cm.at > listed /\ Enter("waiting", cm)

\* Popen raises, no "ready" comes within five seconds, a worker has exited or
\* cannot be read, the cgroup is not as it should be, a check fails.
SetupOrCheckRaises ==
  /\ cm.pc \in Working \ {"block"}
  /\ cm.pc = "readying" => cm.at \in Workers /\ ~printed[cm.at]
  /\ Enter("terminating", [cm EXCEPT !.failure = cm.pc])

BlockRaises == cm.pc = "block" /\ Enter("terminating", [cm EXCEPT !.failure = "block"])

\* A KeyboardInterrupt is a failure like any other, save that a process Popen
\* has started and the list has not got yet is nobody's.
Interrupt ==
  /\ cm.pc \in Working
  /\ cm' = [cm EXCEPT !.pc = "terminating", !.at = 1, !.failure = "interrupt"]
  /\ \/ UNCHANGED proc
     \/ At("spawning", Count) /\ proc' = [proc EXCEPT ![cm.at] = "starting"]
  /\ UNCHANGED <<printed, cpu, throttled, listed>>

-----------------------------------------------------------------------------
(***************************************************************************)
(* _stop, _reap and what the finally clause makes of their errors.         *)
(***************************************************************************)

\* A living worker is asked to end, which may raise OSError.
Terminate ==
  /\ At("terminating", listed)
  /\ \E refused \in {FALSE, Alive(cm.at)} : Done([cm EXCEPT !.unstopped = @ \/ refused])
  /\ UNCHANGED listed

Closed == [cm EXCEPT !.pc = "waiting", !.open = @ \ {cm.at}]

\* wait() returns, before the SIGKILL or after it; the pipe is closed.
Reap ==
  /\ At("waiting", listed) \/ At("killing", listed)
  /\ ~Alive(cm.at)
  /\ Done(Closed) /\ UNCHANGED listed

\* MUTANT: SIGKILL is final, so nothing waits for it.
KillAndGoOn ==
  /\ At("waiting", listed) /\ Alive(cm.at)
  /\ Done(Closed) /\ UNCHANGED listed

\* Two seconds pass.
Kill ==
  /\ At("waiting", listed) /\ Alive(cm.at)
  /\ cm' = [cm EXCEPT !.pc = "killing"]
  /\ UNCHANGED <<processes, listed>>

\* MUTANT: the wait after the SIGKILL has no timeout.
NeverGiveUp == At("killing", listed) /\ ~Alive(cm.at) /\ UNCHANGED vars

\* Two more seconds pass, or kill() raises.
GiveUp ==
  /\ At("killing", listed) /\ Alive(cm.at)
  /\ Done([Closed EXCEPT !.unstopped = TRUE]) /\ UNCHANGED listed

Leave ==
  /\ cm.pc = "waiting" /\ cm.at > listed
  /\ Enter("over", IF cm.unstopped /\ cm.failure = "none"
                   THEN [cm EXCEPT !.raised = "unreaped"]
                   ELSE [cm EXCEPT !.raised = cm.failure, !.noted = cm.unstopped])

\* The cleanup expects Exceptions, and a KeyboardInterrupt is none.
InterruptCleanup ==
  /\ cm.pc \in Cleaning
  /\ Enter("over", [cm EXCEPT !.raised = "cut short",
                              !.open = IF cm.pc = "terminating" THEN @ ELSE @ \ {cm.at}])

-----------------------------------------------------------------------------
\* The context manager; the block is not its own.
Manager ==
  \/ Spawn \/ FindReady \/ SampleBefore \/ SampleAfter \/ NextStage \/ SetupOrCheckRaises
  \/ Terminate \/ Reap \/ Kill \/ GiveUp \/ Leave

Next == Environment \/ Manager \/ BlockEnds \/ BlockRaises \/ Interrupt \/ InterruptCleanup

Spec == Init /\ [][Next]_vars

\* Every wait has a timeout, so the context manager always has a step to take.
FairSpec == Spec /\ WF_vars(Manager)
-----------------------------------------------------------------------------
CleanedUp == cm.pc = "over" /\ cm.raised # "cut short"
Returned == cm.pc = "over" /\ cm.raised = "none"

\* A worker outlives the with statement only if that is reported, in the
\* exception raised or in a note of it (resources.py 110-124, 166-172).
SurvivorsAreReported ==
  CleanedUp /\ (\E w \in 1..listed : Alive(w)) => cm.raised = "unreaped" \/ cm.noted

\* A worker that cannot be stopped costs the others nothing: the cleanup goes on
\* until the pipe of each is closed (resources.py 112-122).
CleanupReachesAll == CleanedUp => cm.open = {}

\* The error that ended the block is the one that is raised, whatever the
\* cleanup meets (resources.py 163-172), unless the cleanup is cut short.
FirstErrorIsRaised == CleanedUp /\ cm.failure # "none" => cm.raised = cm.failure

\* What the with statement owes its caller when it is over.
PressureInv == TypeOK /\ SurvivorsAreReported /\ CleanupReachesAll /\ FirstErrorIsRaised

\* A with statement that returns has had every worker competing for the CPU all
\* the way to the end of its block, and each used some CPU since it was first
\* looked at (resources.py 91-92, 127-140).
ContentionIsWitnessed ==
  Returned => /\ cm.outlasted = Workers
              /\ \A w \in Workers : cpu[w] > cm.before.cpu[w]

\* Nothing a worker does or does not do keeps the with statement from ending once
\* its block is over.
ManagerEnds == cm.pc # "block" ~> cm.pc \in {"block", "over"}
=============================================================================
