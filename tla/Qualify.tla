------------------------------ MODULE Qualify ------------------------------
(***************************************************************************)
(* examples/edge/qualify.sh: two fresh containers exercise the runtime, a  *)
(* third one verifies what they wrote, and the script's exit status is the *)
(* qualification.                                                          *)
(*                                                                         *)
(* The script, the docker client it waits for, the daemon and the          *)
(* containers are separate: a client can be killed while its requests go   *)
(* on, a container may hang and ignore SIGTERM, any docker command may be  *)
(* refused, and the script may be signalled.  Bash acts on a signal when   *)
(* the command in the foreground ends, and errexit holds in the EXIT trap  *)
(* though it is off inside "if ! launch".                                  *)
(***************************************************************************)
EXTENDS Naturals, FiniteSets

CONSTANTS
  MaxSignals,    \* bound on the INT and TERM signals to the script
  MaxRefusals    \* bound on the docker commands that fail

ASSUME QualifyAssumption == MaxSignals \in Nat /\ MaxRefusals \in Nat

Runs == {1, 2}
Verification == 3
Labels == Runs \cup {Verification}

VARIABLES
  box,        \* box[l]: container l; "oom" exited 0 after the OOM killer had been there
  client,     \* client[l]: its "docker run"
  cids,       \* the labels whose cidfile is not empty
  complete,   \* the runs that have written their whole log
  evidence,   \* evidence[l]: the state l-container.json shows
  sh,         \* the script: the command it is at, for which label, in launch() or
              \* in cleanup(), what the pipeline returned, failed, the exit status
  signals,    \* signals acted upon
  refused,    \* (history) the docker commands that failed
  cut         \* (history) cleanup() was left before its end

docker == <<box, client, cids, complete>>
vars == <<docker, evidence, sh, signals, refused, cut>>

States == {"none", "created", "running", "passed", "oom", "failed", "removed"}

TypeOK ==
  /\ box \in [Labels -> States]
  /\ client \in [Labels -> {"none", "waiting", "passed", "failed"}]
  /\ cids \subseteq Labels /\ complete \subseteq Runs
  /\ evidence \in [Labels -> States \cup {"absent", "empty"}]
  /\ sh.pc \in {"launch", "pipeline", "look", "kill", "wait", "inspect", 
               "judge", "find", "rm", "over"}
  /\ sh.at \in 1..4 /\ sh.cleaning \in BOOLEAN
  /\ sh.status \in {"none", "passed", "failed"} /\ sh.failed \in BOOLEAN
  /\ sh.exit \in {"none", "0", "1", "signal"}
  /\ signals \in 0..MaxSignals
  /\ refused \subseteq [command : {"look", "kill", "wait", "inspect", "rm"},
                           cleaning : BOOLEAN, at : Labels]
  /\ cut \in BOOLEAN

Init ==
  /\ box = [l \in Labels |-> "none"] /\ client = [l \in Labels |-> "none"]
  /\ cids = {} /\ complete = {}
  /\ evidence = [l \in Labels |-> "absent"]
  /\ sh = [pc |-> "launch", at |-> 1, cleaning |-> FALSE, status |-> "none",
           failed |-> FALSE, exit |-> "none"]
  /\ signals = 0
  /\ refused = {} /\ cut = FALSE
-----------------------------------------------------------------------------
(***************************************************************************)
(* The daemon, the containers and the docker clients.                      *)
(***************************************************************************)
Keep == UNCHANGED <<evidence, sh, refused, cut>>
BoxBecomes(l, state) == box' = [box EXCEPT ![l] = state]

\* What an inspection has to show for judge and verifier: ExitCode 0, not OOM
\* killed, not running.  A container that has not started shows that too.
Good(state) == state \in {"created", "passed"}

\* The daemon acts on a request to create, or to start, the container; the
\* client need not be there any more.
Create(l) ==
  /\ client[l] # "none" /\ box[l] = "none"
  /\ BoxBecomes(l, "created")
  /\ UNCHANGED <<client, cids, complete, signals>> /\ Keep

StartBox(l) ==
  /\ l \in cids /\ box[l] = "created"
  /\ BoxBecomes(l, "running")
  /\ UNCHANGED <<client, cids, complete, signals>> /\ Keep

\* The client writes the cidfile, and only then asks for the start.
WriteCid(l) ==
  /\ client[l] = "waiting" /\ box[l] = "created"
  /\ cids' = cids \cup {l}
  /\ UNCHANGED <<box, client, complete, signals>> /\ Keep

CompleteLog(r) ==
  /\ box[r] = "running"
  /\ complete' = complete \cup {r}
  /\ UNCHANGED <<box, client, cids, signals>> /\ Keep

\* examples.edge.run and examples.edge.verify succeed only so.
Succeeds(l) ==
  IF l \in Runs THEN l \in complete
  ELSE \A r \in Runs : Good(evidence[r]) /\ r \in complete

EndBox(l) ==
  /\ box[l] = "running"
  /\ \/ Succeeds(l) /\ \E how \in {"passed", "oom"} : BoxBecomes(l, how)
     \/ BoxBecomes(l, "failed")
  /\ UNCHANGED <<client, cids, complete, signals>> /\ Keep

\* The client passes on its container's exit code.
ClientEnds(l) ==
  /\ client[l] = "waiting" /\ l \in cids /\ box[l] \in {"passed", "oom", "failed"}
  /\ client' = [client EXCEPT ![l] = IF box[l] = "failed" THEN "failed" ELSE "passed"]
  /\ UNCHANGED <<box, cids, complete, signals>> /\ Keep

\* MUTANT: there is no --kill-after, and a client told to TERM goes on waiting
\* for a container that ignores it.
TimeoutAsks(l) ==
  /\ client[l] = "waiting" /\ box[l] # "running"
  /\ client' = [client EXCEPT ![l] = "failed"]
  /\ UNCHANGED <<box, cids, complete, signals>> /\ Keep

\* 240 seconds and ten more have passed; or the client, or tee, fails before.
Timeout(l) ==
  /\ client[l] = "waiting"
  /\ client' = [client EXCEPT ![l] = "failed"]
  /\ UNCHANGED <<box, cids, complete, signals>> /\ Keep
-----------------------------------------------------------------------------
(***************************************************************************)
(* The script.                                                             *)
(***************************************************************************)

At(pc) == sh.pc = pc
Goto(pc) == sh' = [sh EXCEPT !.pc = pc]

\* A docker command about the label fails.
Refused ==
  /\ Cardinality(refused) < MaxRefusals
  /\ refused' = refused \cup {[command |-> sh.pc, cleaning |-> sh.cleaning, at |-> sh.at]}
  /\ UNCHANGED <<docker, evidence, signals, cut>>

Only(changed) == UNCHANGED <<signals, refused, cut>> /\ changed

\* "exit", by which the EXIT trap begins.
Exiting(status) == [sh EXCEPT !.pc = "find", !.at = 1, !.cleaning = TRUE, !.exit = status]

\* launch() returns to the main program.
Return(ok) ==
  LET failed == sh.failed \/ ~ok IN
  sh' = IF sh.at = Verification
        THEN [Exiting(IF failed THEN "1" ELSE "0") EXCEPT !.failed = failed]
        ELSE [sh EXCEPT !.pc = "launch", !.at = @ + 1, !.failed = failed]

Launch ==
  /\ At("launch")
  /\ client' = [client EXCEPT ![sh.at] = "waiting"]
  /\ Goto("pipeline")
  /\ Only(UNCHANGED <<box, cids, complete, evidence>>)

\* The pipeline ends with its client; without a cidfile launch() gives up.
PipelineEnds ==
  /\ At("pipeline") /\ client[sh.at] # "waiting"
  /\ IF sh.at \in cids THEN sh' = [sh EXCEPT !.pc = "look", !.status = client[sh.at]]
                       ELSE Return(FALSE)
  /\ Only(UNCHANGED <<docker, evidence>>)

\* Is it running?
Look ==
  /\ At("look")
  /\ \/ /\ Goto(IF box[sh.at] = "running" THEN "kill" ELSE "inspect")
        /\ Only(UNCHANGED <<docker, evidence>>)
     \/ Goto("inspect") /\ Refused

Kill ==
  /\ At("kill") /\ Goto("wait")
  /\ \/ /\ box' = IF box[sh.at] = "running" THEN [box EXCEPT ![sh.at] = "failed"] ELSE box
        /\ Only(UNCHANGED <<client, cids, complete, evidence>>)
     \/ Refused

Wait ==
  /\ At("wait") /\ Goto("inspect")
  /\ \/ box[sh.at] # "running" /\ Only(UNCHANGED <<docker, evidence>>)
     \/ Refused

\* docker inspect > l-container.json || return 1
Inspect ==
  /\ At("inspect") /\ ~sh.cleaning
  /\ \/ /\ evidence' = [evidence EXCEPT ![sh.at] = box[sh.at]]
        /\ Goto("judge") /\ Only(UNCHANGED docker)
     \/ /\ evidence' = [evidence EXCEPT ![sh.at] = "empty"]
        /\ Cardinality(refused) < MaxRefusals
        /\ refused' = refused \cup {[command |-> "inspect", cleaning |-> FALSE, at |-> sh.at]}
        /\ Return(FALSE)
        /\ UNCHANGED <<docker, signals, cut>>

\* MUTANT: the inspection alone decides.
JudgeInspection ==
  /\ At("judge")
  /\ Return(Good(evidence[sh.at]))
  /\ Only(UNCHANGED <<docker, evidence>>)

\* The inspected limits and mounts have to be right too.
Judge ==
  /\ At("judge")
  /\ \E confined \in BOOLEAN :
       Return(sh.status = "passed" /\ Good(evidence[sh.at]) /\ confined)
  /\ Only(UNCHANGED <<docker, evidence>>)
-----------------------------------------------------------------------------
(***************************************************************************)
(* cleanup() and the traps.                                                *)
(***************************************************************************)

\* The next cidfile that is not empty; the scratch directory goes last.
Find ==
  /\ At("find")
  /\ LET rest == {l \in cids : l >= sh.at} IN
     sh' = IF rest = {} THEN [sh EXCEPT !.pc = "over"]
           ELSE [sh EXCEPT !.pc = "look",
                           !.at = CHOOSE l \in rest : \A m \in rest : l <= m]
  /\ Only(UNCHANGED <<docker, evidence>>)

\* The inspection goes to the scratch directory first, so that one that fails
\* leaves what launch() has written; a copy that fails ends the cleanup.
InspectAgain ==
  /\ At("inspect") /\ sh.cleaning
  /\ \/ /\ evidence' = [evidence EXCEPT ![sh.at] = box[sh.at]]
        /\ Goto("rm") /\ Only(UNCHANGED docker)
     \/ Goto("rm") /\ Refused
     \/ /\ sh' = [sh EXCEPT !.pc = "over", !.exit = "1"] /\ cut' = TRUE
        /\ UNCHANGED <<docker, evidence, signals, refused>>

NextLabel == [sh EXCEPT !.pc = "find", !.at = @ + 1]

\* MUTANT: docker rm without --force, which refuses a running container.
RemoveStopped ==
  /\ At("rm") /\ sh' = NextLabel
  /\ \/ /\ box' = IF box[sh.at] = "running" THEN box ELSE [box EXCEPT ![sh.at] = "removed"]
        /\ Only(UNCHANGED <<client, cids, complete, evidence>>)
     \/ Refused

Remove ==
  /\ At("rm") /\ sh' = NextLabel
  /\ \/ /\ box' = [box EXCEPT ![sh.at] = "removed"]
        /\ Only(UNCHANGED <<client, cids, complete, evidence>>)
     \/ Refused

\* A signal came while the command before ran, in the foreground, or comes now:
\* trap 'exit 130' INT and its like.  In the EXIT trap that is the end of it.
TakeSignal ==
  /\ signals < MaxSignals /\ sh.pc # "over"
  /\ sh.pc = "pipeline" => client[sh.at] # "waiting"
  /\ sh.pc = "wait" => box[sh.at] # "running"
  /\ signals' = signals + 1
  /\ sh' = IF sh.cleaning THEN [sh EXCEPT !.pc = "over", !.exit = "signal"]
                          ELSE Exiting("signal")
  /\ cut' = sh.cleaning
  /\ UNCHANGED <<docker, evidence, refused>>
-----------------------------------------------------------------------------
Docker ==
  \E l \in Labels :
    \/ Create(l) \/ StartBox(l) \/ WriteCid(l) \/ EndBox(l) \/ ClientEnds(l) \/ Timeout(l)
    \/ l \in Runs /\ CompleteLog(l)

Script ==
  \/ Launch \/ PipelineEnds \/ Look \/ Kill \/ Wait \/ Inspect \/ Judge
  \/ Find \/ InspectAgain \/ Remove

Next == Docker \/ Script \/ TakeSignal

Spec == Init /\ [][Next]_vars

\* Time passes and the script takes its steps; nothing is asked of a container.
FairSpec == Spec /\ WF_vars(Script) /\ \A l \in Labels : WF_vars(Timeout(l))
-----------------------------------------------------------------------------
\* Exit status 0 is earned by all three containers, whatever was killed, refused
\* or late: each ended by itself with success and no OOM, the logs are complete,
\* and the evidence left on disk says so after cleanup() has rewritten it
\* (qualify.sh 46-47, 92-93, 107-117).
PassIsEarned ==
  sh.pc = "over" /\ sh.exit = "0" =>
    complete = Runs /\ \A l \in Labels : evidence[l] = "passed"

CleanedUp == sh.pc = "over" /\ ~cut

\* A cleanup that comes to its end leaves no container behind that has run or may
\* run, though a client was killed at any moment and other commands failed: what
\* has a cidfile is removed unless "docker rm" itself is refused, and what was
\* created for a client that died before the cidfile never starts
\* (qualify.sh 36-53).
NothingRuns ==
  CleanedUp => \A l \in Labels :
    IF l \in cids
    THEN box[l] = "removed" \/ [command |-> "rm", cleaning |-> TRUE, at |-> l] \in refused
    ELSE box[l] \in {"none", "created"}

\* Whatever ran has left an inspection, unless both that launch() and cleanup()
\* may have made of it were refused (qualify.sh 46-47, 84).
EvidenceIsKept ==
  CleanedUp => \A l \in cids :
    evidence[l] \in {"absent", "empty"} =>
      [command |-> "inspect", cleaning |-> TRUE, at |-> l] \in refused

\* What the end of the script owes the machine it ran on.
CleanupInv == TypeOK /\ NothingRuns /\ EvidenceIsKept

Hanging == sh.pc = "wait" /\ box[sh.at] = "running"

\* The script ends though containers hang and ignore SIGTERM; only a "docker kill"
\* that fails on such a container leaves it waiting (qualify.sh 42-45, 64, 80-83).
ScriptEnds ==
  <>(sh.pc = "over") \/
  <>[](Hanging /\ [command |-> "kill", cleaning |-> sh.cleaning, at |-> sh.at] \in refused)
=============================================================================
