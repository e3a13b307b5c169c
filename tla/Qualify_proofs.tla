--------------------------- MODULE Qualify_proofs ---------------------------
(***************************************************************************)
(* Proofs about Qualify, for any number of signals and of refused docker   *)
(* commands.  The script and the daemon go on beside each other, so the    *)
(* invariant has to say what of the daemon's state stands still meanwhile: *)
(* only the launch in the foreground has a client that waits, a container  *)
(* that has ended stays ended until it is removed, and cleanup() has been  *)
(* through the labels before the one it is at.                             *)
(***************************************************************************)
EXTENDS Qualify, TLAPS

ShType ==
  sh \in [pc : {"launch", "pipeline", "look", "kill", "wait", "inspect", "judge", "find", "rm",
                "over"},
          at : 1..4, cleaning : BOOLEAN, status : {"none", "passed", "failed"},
          failed : BOOLEAN, exit : {"none", "0", "1", "signal"}]

\* Where the script may be: launch() and cleanup() share the commands in between.
PlaceInv ==
  /\ sh.pc \in {"launch", "pipeline", "judge"} => ~sh.cleaning
  /\ sh.pc \in {"find", "rm", "over"} => sh.cleaning
  /\ sh.pc \notin {"find", "over"} => sh.at \in Labels
  /\ sh.pc \in {"look", "kill", "wait", "inspect", "judge", "rm"} => sh.at \in cids

\* A client waits only in the foreground, and one that passed has seen the end.
ClientInv ==
  \A l \in Labels :
    /\ client[l] = "waiting" => sh.pc = "pipeline" /\ sh.at = l
    /\ client[l] = "passed" /\ ~sh.cleaning => box[l] \in {"passed", "oom"}

\* A container starts with its cidfile written, and a run passes with its log.
BoxInv ==
  /\ \A l \in Labels \ cids : box[l] \in {"none", "created"}
  /\ \A r \in Runs : box[r] \in {"passed", "oom"} => r \in complete

\* What "failed" unset stands for, launch by launch and in the exit status.
EarnedInv ==
  /\ ~sh.cleaning /\ ~sh.failed =>
       \A l \in Labels : l < sh.at => evidence[l] = "passed" /\ box[l] = "passed"
  /\ sh.pc \in {"look", "kill", "wait", "inspect", "judge"} /\ ~sh.cleaning =>
       sh.status = client[sh.at]
  /\ sh.pc = "judge" /\ sh.status = "passed" => evidence[sh.at] = box[sh.at]
  /\ sh.exit = "0" =>
       /\ sh.cleaning /\ complete = Runs
       /\ \A l \in Labels : /\ evidence[l] = "passed"
                            /\ \/ box[l] = "passed"
                               \/ box[l] = "removed" /\ l < sh.at

\* What cleanup() owes a container, and how far it has come.
Removed(l) == box[l] = "removed" \/ [command |-> "rm", cleaning |-> TRUE, at |-> l] \in refused
Inspected(l) ==
  \/ evidence[l] \notin {"absent", "empty"}
  \/ [command |-> "inspect", cleaning |-> TRUE, at |-> l] \in refused

ProgressInv ==
  /\ sh.cleaning /\ sh.pc # "over" =>
       \A l \in cids : l < sh.at => Removed(l) /\ Inspected(l)
  /\ sh.pc = "rm" => Inspected(sh.at)
  /\ sh.pc = "over" /\ ~cut => \A l \in cids : Removed(l) /\ Inspected(l)

IInv ==
  TypeOK /\ ShType /\ PlaceInv /\ ClientInv /\ BoxInv /\ EarnedInv /\ ProgressInv

-----------------------------------------------------------------------------

LEMMA InitInv == Init => IInv
<1> SUFFICES ASSUME Init PROVE IInv
  OBVIOUS
<1>1. ShType
  BY DEF Init, ShType
<1>2. TypeOK
  <2>1. /\ box \in [Labels -> States] /\ client \in [Labels -> {"none", "waiting", "passed", "failed"}]
        /\ evidence \in [Labels -> States \cup {"absent", "empty"}]
    BY DEF Init, States
  <2>2. signals \in 0..MaxSignals
    BY QualifyAssumption DEF Init
  <2>3. /\ cids \subseteq Labels /\ complete \subseteq Runs /\ cut \in BOOLEAN
        /\ refused \subseteq [command : {"look", "kill", "wait", "inspect", "rm"},
                              cleaning : BOOLEAN, at : Labels]
    BY DEF Init
  <2> QED
    BY <1>1, <2>1, <2>2, <2>3 DEF ShType, TypeOK
<1>3. PlaceInv /\ ClientInv /\ BoxInv
  BY DEF Init, PlaceInv, ClientInv, BoxInv, Labels, Verification, Runs
<1>4. EarnedInv /\ ProgressInv
  BY DEF Init, EarnedInv, ProgressInv, Labels, Verification, Runs
<1> QED
  BY <1>1, <1>2, <1>3, <1>4 DEF IInv

LEMMA LabelsAre == Labels = {1, 2, 3} /\ Runs = {1, 2} /\ Runs \subseteq Labels
  BY DEF Labels, Runs, Verification

-----------------------------------------------------------------------------
(* The daemon and the clients.                                             *)

\* What a step of the daemon or of a client leaves to the script.
LEMMA DockerInv ==
  ASSUME IInv, NEW l \in Labels,
         \/ Create(l) \/ StartBox(l) \/ WriteCid(l) \/ EndBox(l) \/ ClientEnds(l) \/ Timeout(l)
         \/ l \in Runs /\ CompleteLog(l)
  PROVE  IInv'
<1> USE DEF Keep
<1>1. UNCHANGED <<evidence, sh, signals, refused, cut>>
  BY DEF Create, StartBox, WriteCid, EndBox, ClientEnds, Timeout, CompleteLog
<1>2. \/ /\ UNCHANGED <<client, cids, complete>>
         /\ \E state \in States \ {"removed"} :
              /\ box' = [box EXCEPT ![l] = state]
              /\ \/ box[l] = "none" /\ state = "created"
                 \/ box[l] = "created" /\ state = "running" /\ l \in cids
                 \/ /\ box[l] = "running" /\ state \in {"passed", "oom", "failed"}
                    /\ l \in Runs /\ state # "failed" => l \in complete
      \/ /\ UNCHANGED <<box, client, complete>> /\ client[l] = "waiting"
         /\ cids' = cids \cup {l}
      \/ /\ UNCHANGED <<box, cids, complete>> /\ client[l] = "waiting"
         /\ \E status \in {"passed", "failed"} :
              /\ client' = [client EXCEPT ![l] = status]
              /\ status = "passed" => box[l] \in {"passed", "oom"}
      \/ /\ UNCHANGED <<box, client, cids>>
         /\ complete' = complete \cup {l} /\ l \in Runs
  <2>1. CASE Create(l)
    BY <2>1 DEF Create, BoxBecomes, States
  <2>2. CASE StartBox(l)
    BY <2>2 DEF StartBox, BoxBecomes, States
  <2>3. CASE WriteCid(l)
    BY <2>3 DEF WriteCid
  <2>4. CASE EndBox(l)
    BY <2>4 DEF EndBox, BoxBecomes, States, Succeeds
  <2>5. CASE ClientEnds(l)
    BY <2>5 DEF ClientEnds
  <2>6. CASE Timeout(l)
    BY <2>6 DEF Timeout
  <2>7. CASE l \in Runs /\ CompleteLog(l)
    BY <2>7 DEF CompleteLog
  <2> QED
    BY <2>1, <2>2, <2>3, <2>4, <2>5, <2>6, <2>7
<1>3. TypeOK' /\ ShType'
  <2>1. box' \in [Labels -> States]
    BY <1>2 DEF IInv, TypeOK
  <2>2. client' \in [Labels -> {"none", "waiting", "passed", "failed"}]
    BY <1>2 DEF IInv, TypeOK
  <2>3. cids' \subseteq Labels /\ complete' \subseteq Runs
    BY <1>2 DEF IInv, TypeOK
  <2> QED
    BY <1>1, <2>1, <2>2, <2>3 DEF IInv, TypeOK, ShType
<1>4. PlaceInv'
  BY <1>1, <1>2 DEF IInv, PlaceInv
<1>5. ClientInv'
  BY <1>1, <1>2 DEF IInv, ClientInv, TypeOK
<1>6. BoxInv'
  BY <1>1, <1>2, LabelsAre DEF IInv, BoxInv, TypeOK
<1>7. EarnedInv'
  BY <1>1, <1>2 DEF IInv, EarnedInv, TypeOK, ShType, PlaceInv, ClientInv
<1>8. ProgressInv'
  BY <1>1, <1>2 DEF IInv, ProgressInv, Removed, Inspected, TypeOK, PlaceInv, ClientInv
<1> QED
  BY <1>3, <1>4, <1>5, <1>6, <1>7, <1>8 DEF IInv

-----------------------------------------------------------------------------
(* The script.                                                             *)

\* What "exit" and the end of a launch make of the script's state.
LEMMA ReturnIs ==
  ASSUME IInv, NEW ok \in BOOLEAN, Return(ok), sh.at \in Labels
  PROVE  /\ (sh'.failed <=> sh.failed \/ ~ok) /\ sh'.status = sh.status
         /\ \/ /\ sh.at = 3 /\ sh'.pc = "find" /\ sh'.at = 1 /\ sh'.cleaning
               /\ sh'.exit = IF sh'.failed THEN "1" ELSE "0"
            \/ /\ sh.at # 3 /\ sh'.pc = "launch" /\ sh'.at = sh.at + 1
               /\ sh'.cleaning = sh.cleaning /\ sh'.exit = sh.exit
         /\ ShType'
<1>1. ShType
  BY DEF IInv
<1>2. CASE sh.at = 3
  <2>1. sh' = [sh EXCEPT !.pc = "find", !.at = 1, !.cleaning = TRUE,
                         !.exit = IF sh.failed \/ ~ok THEN "1" ELSE "0",
                         !.failed = (sh.failed \/ ~ok)]
    BY <1>1, <1>2 DEF Return, Exiting, Verification, ShType
  <2>2. (sh.failed \/ ~ok) \in BOOLEAN
    OBVIOUS
  <2>3. ASSUME NEW f \in BOOLEAN, f <=> sh.failed \/ ~ok,
               sh' = [sh EXCEPT !.pc = "find", !.at = 1, !.cleaning = TRUE,
                                !.exit = IF f THEN "1" ELSE "0", !.failed = f]
        PROVE  /\ (sh'.failed <=> f) /\ sh'.status = sh.status
               /\ sh'.pc = "find" /\ sh'.at = 1 /\ sh'.cleaning
               /\ sh'.exit = IF sh'.failed THEN "1" ELSE "0"
               /\ ShType'
    <3> DEFINE e == IF f THEN "1" ELSE "0"
    <3>1. e \in {"0", "1"}
      OBVIOUS
    <3> HIDE DEF e
    <3>2. sh' = [sh EXCEPT !.pc = "find", !.at = 1, !.cleaning = TRUE, !.exit = e, !.failed = f]
      BY <2>3 DEF e
    <3>3. sh'.failed <=> f
      BY <1>1, <3>2 DEF ShType
    <3>4. sh'.status = sh.status
      BY <1>1, <3>2 DEF ShType
    <3>5. sh'.pc = "find" /\ sh'.at = 1 /\ sh'.cleaning
      BY <1>1, <3>2 DEF ShType
    <3>6. sh'.exit = e
      BY <1>1, <3>2 DEF ShType
    <3>7. ShType'
      <4>1. ASSUME NEW one \in 1..4, NEW true \in BOOLEAN,
                   sh' = [sh EXCEPT !.pc = "find", !.at = one, !.cleaning = true, !.exit = e,
                                    !.failed = f]
            PROVE  ShType'
        BY <1>1, <3>1, <4>1 DEF ShType
      <4>2. 1 \in 1..4 /\ TRUE \in BOOLEAN
        OBVIOUS
      <4> QED
        BY <3>2, <4>1, <4>2
    <3>8. e = IF sh'.failed THEN "1" ELSE "0"
      BY <3>3 DEF e
    <3> QED
      BY <3>3, <3>4, <3>5, <3>6, <3>7, <3>8
  <2> QED
    BY <1>2, <2>1, <2>2, <2>3
<1>3. CASE sh.at # 3
  <2>1. sh' = [sh EXCEPT !.pc = "launch", !.at = sh.at + 1, !.failed = (sh.failed \/ ~ok)]
    BY <1>3 DEF Return, Verification
  <2>2. sh.at + 1 \in 1..4
    BY <1>3, LabelsAre
  <2> QED
    BY <1>1, <1>3, <2>1, <2>2 DEF ShType
<1> QED
  BY <1>2, <1>3

\* A launch comes back having earned its share, or says that it failed.
LEMMA ReturnInv ==
  ASSUME IInv, NEW ok \in BOOLEAN, Return(ok),
         sh.pc \in {"pipeline", "inspect", "judge"}, ~sh.cleaning,
         client[sh.at] # "waiting",
         UNCHANGED <<docker, signals, cut>>, TypeOK',
         \A l \in Labels : l # sh.at => evidence'[l] = evidence[l],
         ok => evidence'[sh.at] = "passed" /\ box[sh.at] = "passed"
  PROVE  IInv'
<1>1. /\ UNCHANGED <<box, client, cids, complete>>
      /\ sh.at \in Labels /\ sh.exit # "0" /\ ShType
  BY DEF docker, IInv, PlaceInv, EarnedInv
<1>2. ShType' /\ PlaceInv'
  BY <1>1, ReturnIs, LabelsAre DEF PlaceInv
<1>3. ClientInv'
  BY <1>1, ReturnIs DEF IInv, ClientInv
<1>4. BoxInv'
  BY <1>1 DEF IInv, BoxInv
<1>5. \A l \in Labels : ~sh'.failed /\ (l < sh.at \/ l = sh.at) =>
        evidence'[l] = "passed" /\ box'[l] = "passed"
  BY <1>1, ReturnIs, LabelsAre DEF IInv, EarnedInv, ShType
<1>6. EarnedInv'
  <2>1. CASE sh.at = 3
    <3>1. \A l \in Labels : l < sh.at \/ l = sh.at
      BY <2>1, LabelsAre
    <3>2. ~sh'.failed => \A l \in Labels : evidence'[l] = "passed" /\ box'[l] = "passed"
      BY <1>5, <3>1
    <3>3. ~sh'.failed => complete' = Runs
      <4>1. complete \subseteq Runs
        BY DEF IInv, TypeOK
      <4> QED
        BY <1>1, <3>2, <4>1, LabelsAre DEF IInv, BoxInv
    <3>4. sh'.exit = "0" => ~sh'.failed
      BY <2>1, ReturnIs, <1>1
    <3>5. sh'.pc = "find" /\ sh'.cleaning
      BY <2>1, ReturnIs, <1>1
    <3> QED
      BY <3>2, <3>3, <3>4, <3>5 DEF EarnedInv
  <2>2. CASE sh.at # 3
    <3>1. /\ sh'.pc = "launch" /\ sh'.at = sh.at + 1 /\ ~sh'.cleaning /\ sh'.exit # "0"
      BY <1>1, <2>2, ReturnIs
    <3>2. \A l \in Labels : l < sh'.at => l < sh.at \/ l = sh.at
      BY <1>1, <3>1, LabelsAre
    <3> QED
      BY <1>5, <3>1, <3>2 DEF EarnedInv
  <2> QED
    BY <2>1, <2>2
<1>7. ProgressInv'
  <2>1. sh'.cleaning => sh'.pc = "find" /\ sh'.at = 1
    BY <1>1, ReturnIs
  <2>2. cids' \subseteq {1, 2, 3}
    BY <1>1, LabelsAre DEF IInv, TypeOK
  <2>3. sh'.pc \in {"find", "launch"}
    BY <1>1, ReturnIs
  <2> QED
    BY <2>1, <2>2, <2>3 DEF ProgressInv
<1> QED
  BY <1>2, <1>3, <1>4, <1>6, <1>7 DEF IInv

LEMMA LaunchInv == ASSUME IInv, Launch PROVE IInv'
<1>1. /\ UNCHANGED <<box, cids, complete, evidence, signals, refused, cut>>
      /\ client' = [client EXCEPT ![sh.at] = "waiting"]
      /\ sh.pc = "launch" /\ sh' = [sh EXCEPT !.pc = "pipeline"] /\ ~sh.cleaning
      /\ sh.at \in Labels /\ ShType /\ TypeOK
  BY DEF Launch, At, Goto, Only, IInv, PlaceInv
<1>2. sh'.pc = "pipeline" /\ sh'.at = sh.at /\ sh'.cleaning = sh.cleaning
      /\ sh'.status = sh.status /\ sh'.failed = sh.failed /\ sh'.exit = sh.exit
  BY <1>1 DEF ShType
<1>3. TypeOK' /\ ShType'
  BY <1>1, <1>2 DEF TypeOK, ShType
<1>4. PlaceInv' /\ BoxInv'
  BY <1>1, <1>2 DEF IInv, PlaceInv, BoxInv
<1>5. ClientInv'
  BY <1>1, <1>2 DEF IInv, ClientInv, TypeOK
<1>6. EarnedInv' /\ ProgressInv'
  BY <1>1, <1>2 DEF IInv, EarnedInv, ProgressInv, Removed, Inspected
<1> QED
  BY <1>3, <1>4, <1>5, <1>6 DEF IInv

LEMMA PipelineEndsInv == ASSUME IInv, PipelineEnds PROVE IInv'
<1>1. /\ UNCHANGED <<docker, evidence, signals, refused, cut>>
      /\ UNCHANGED <<box, client, cids, complete>>
      /\ sh.pc = "pipeline" /\ client[sh.at] # "waiting" /\ ~sh.cleaning
      /\ sh.at \in Labels /\ ShType /\ TypeOK
  BY DEF PipelineEnds, At, Only, docker, IInv, PlaceInv
<1>2. CASE sh.at \in cids
  <2>1. sh' = [sh EXCEPT !.pc = "look", !.status = client[sh.at]]
    BY <1>2 DEF PipelineEnds
  <2>2. client[sh.at] \in {"none", "passed", "failed"}
    BY <1>1 DEF TypeOK
  <2>3. sh'.pc = "look" /\ sh'.at = sh.at /\ sh'.cleaning = sh.cleaning
        /\ sh'.status = client[sh.at] /\ sh'.failed = sh.failed /\ sh'.exit = sh.exit
    BY <1>1, <2>1 DEF ShType
  <2>4. TypeOK' /\ ShType'
    BY <1>1, <2>1, <2>2, <2>3 DEF TypeOK, ShType
  <2>5. PlaceInv' /\ BoxInv'
    BY <1>1, <1>2, <2>3 DEF IInv, PlaceInv, BoxInv
  <2>6. ClientInv'
    BY <1>1, <2>3 DEF IInv, ClientInv
  <2>7. EarnedInv' /\ ProgressInv'
    BY <1>1, <2>3 DEF IInv, EarnedInv, ProgressInv, Removed, Inspected
  <2> QED
    BY <2>4, <2>5, <2>6, <2>7 DEF IInv
<1>3. CASE sh.at \notin cids
  <2>1. Return(FALSE)
    BY <1>3 DEF PipelineEnds
  <2>2. ShType'
    BY <1>1, <2>1, ReturnIs
  <2>3. TypeOK'
    BY <1>1, <2>2 DEF TypeOK, ShType
  <2> QED
    BY <1>1, <2>1, <2>3, ReturnInv
<1> QED
  BY <1>2, <1>3

\* A command that is refused is remembered with its label.
LEMMA RefusedIs ==
  ASSUME IInv, Refused, sh.pc \in {"look", "kill", "wait", "inspect", "rm"}
  PROVE  LET r == [command |-> sh.pc, cleaning |-> sh.cleaning, at |-> sh.at]
         IN  /\ refused' = refused \cup {r}
             /\ r \in [command : {"look", "kill", "wait", "inspect", "rm"}, cleaning : BOOLEAN,
                       at : Labels]
             /\ UNCHANGED <<box, client, cids, complete, evidence, signals, cut>>
<1>1. sh.cleaning \in BOOLEAN /\ sh.at \in Labels
  BY DEF IInv, ShType, PlaceInv
<1> QED
  BY <1>1 DEF Refused, docker

\* From "is it running?" to the inspection, whether the commands work or not.
LEMMA CommandsInv == ASSUME IInv, Look \/ Kill \/ Wait PROVE IInv'
<1>1. /\ sh.pc \in {"look", "kill", "wait"} /\ sh.at \in Labels /\ sh.at \in cids
      /\ \E p \in {"kill", "wait", "inspect"} : sh' = [sh EXCEPT !.pc = p]
      /\ ShType /\ TypeOK
  BY DEF Look, Kill, Wait, At, Goto, IInv, PlaceInv
<1>2. /\ UNCHANGED <<client, cids, complete, evidence, signals, cut>>
      /\ \/ box' = box
         \/ box[sh.at] = "running" /\ box' = [box EXCEPT ![sh.at] = "failed"]
      /\ refused \subseteq refused'
      /\ refused' \subseteq [command : {"look", "kill", "wait", "inspect", "rm"},
                             cleaning : BOOLEAN, at : Labels]
  <2>1. CASE Refused
    <3>1. Refused => box' = box /\ refused \subseteq refused'
      BY <1>1, RefusedIs
    <3> QED
      BY <1>1, <2>1, <3>1, RefusedIs DEF TypeOK
  <2>2. CASE ~Refused
    BY <1>1, <2>2 DEF Look, Kill, Wait, Only, docker, TypeOK
  <2> QED
    BY <2>1, <2>2
<1>3. /\ sh'.pc \in {"kill", "wait", "inspect"} /\ sh'.at = sh.at
      /\ sh'.cleaning = sh.cleaning /\ sh'.status = sh.status
      /\ sh'.failed = sh.failed /\ sh'.exit = sh.exit
  BY <1>1 DEF ShType
<1>4. ShType'
  BY <1>1 DEF ShType
<1>5. box' \in [Labels -> States]
  BY <1>1, <1>2 DEF TypeOK, States
<1>6. TypeOK'
  BY <1>1, <1>2, <1>4, <1>5 DEF TypeOK, ShType
<1>7. PlaceInv'
  BY <1>1, <1>2, <1>3 DEF PlaceInv
<1>8. ClientInv'
  BY <1>1, <1>2, <1>3 DEF IInv, ClientInv, TypeOK
<1>9. BoxInv'
  BY <1>1, <1>2, LabelsAre DEF IInv, BoxInv, TypeOK
<1>10. EarnedInv'
  BY <1>1, <1>2, <1>3 DEF IInv, EarnedInv, TypeOK
<1>11. ProgressInv'
  BY <1>1, <1>2, <1>3 DEF IInv, ProgressInv, Removed, Inspected, TypeOK
<1> QED
  BY <1>4, <1>6, <1>7, <1>8, <1>9, <1>10, <1>11 DEF IInv

\* The inspection of a launch.
LEMMA InspectInv == ASSUME IInv, Inspect PROVE IInv'
<1>1. /\ sh.pc = "inspect" /\ ~sh.cleaning /\ sh.at \in Labels /\ sh.at \in cids
      /\ UNCHANGED <<docker, signals, cut>>
      /\ UNCHANGED <<box, client, cids, complete>>
      /\ ShType /\ TypeOK
  BY DEF Inspect, At, Only, docker, IInv, PlaceInv
<1>2. CASE /\ evidence' = [evidence EXCEPT ![sh.at] = box[sh.at]]
           /\ sh' = [sh EXCEPT !.pc = "judge"] /\ refused' = refused
  <2>1. /\ sh'.pc = "judge" /\ sh'.at = sh.at /\ sh'.cleaning = sh.cleaning
        /\ sh'.status = sh.status /\ sh'.failed = sh.failed /\ sh'.exit = sh.exit
    BY <1>1, <1>2 DEF ShType
  <2>2. ShType'
    BY <1>1, <1>2 DEF ShType
  <2>3. evidence' \in [Labels -> States \cup {"absent", "empty"}]
    BY <1>1, <1>2 DEF TypeOK
  <2>4. TypeOK'
    BY <1>1, <1>2, <2>2, <2>3 DEF TypeOK, ShType
  <2>5. PlaceInv' /\ ClientInv' /\ BoxInv'
    BY <1>1, <2>1 DEF IInv, PlaceInv, ClientInv, BoxInv
  <2>6. EarnedInv'
    <3>1. evidence'[sh.at] = box[sh.at] /\ \A l \in Labels : l # sh.at => evidence'[l] = evidence[l]
      BY <1>1, <1>2 DEF TypeOK
    <3>2. \A l \in Labels : l < sh.at => l # sh.at
      BY LabelsAre
    <3> QED
      BY <1>1, <2>1, <3>1, <3>2 DEF IInv, EarnedInv
  <2>7. ProgressInv'
    BY <1>1, <2>1 DEF ProgressInv
  <2> QED
    BY <2>2, <2>4, <2>5, <2>6, <2>7 DEF IInv
<1>3. CASE /\ evidence' = [evidence EXCEPT ![sh.at] = "empty"]
           /\ refused' = refused \cup {[command |-> "inspect", cleaning |-> FALSE, at |-> sh.at]}
           /\ Return(FALSE)
  <2>1. client[sh.at] # "waiting"
    BY <1>1 DEF IInv, ClientInv
  <2>2. ShType'
    BY <1>1, <1>3, ReturnIs
  <2>3. evidence' \in [Labels -> States \cup {"absent", "empty"}]
        /\ \A l \in Labels : l # sh.at => evidence'[l] = evidence[l]
    BY <1>1, <1>3 DEF TypeOK
  <2>4. TypeOK'
    <3>1. [command |-> "inspect", cleaning |-> FALSE, at |-> sh.at] \in
            [command : {"look", "kill", "wait", "inspect", "rm"}, cleaning : BOOLEAN, at : Labels]
      BY <1>1
    <3> QED
      BY <1>1, <1>3, <2>2, <2>3, <3>1 DEF TypeOK, ShType
  <2> QED
    BY <1>1, <1>3, <2>1, <2>3, <2>4, ReturnInv
<1> QED
  BY <1>2, <1>3 DEF Inspect, Goto, Only

LEMMA JudgeInv == ASSUME IInv, Judge PROVE IInv'
<1>1. /\ sh.pc = "judge" /\ ~sh.cleaning /\ sh.at \in Labels /\ sh.at \in cids
      /\ UNCHANGED <<docker, evidence, signals, refused, cut>>
      /\ UNCHANGED <<box, client, cids, complete>>
      /\ ShType /\ TypeOK /\ client[sh.at] # "waiting"
  BY DEF Judge, At, Only, docker, IInv, PlaceInv, ClientInv
<1>2. PICK confined \in BOOLEAN :
        Return(sh.status = "passed" /\ Good(evidence[sh.at]) /\ confined)
  BY DEF Judge
<1> DEFINE ok == sh.status = "passed" /\ Good(evidence[sh.at]) /\ confined
<1>3. ok => evidence'[sh.at] = "passed" /\ box[sh.at] = "passed"
  BY <1>1 DEF IInv, EarnedInv, ClientInv, Good
<1>4. ok \in BOOLEAN /\ Return(ok)
  BY <1>2
<1> HIDE DEF ok
<1>5. ShType'
  BY <1>1, <1>4, ReturnIs
<1>6. TypeOK'
  BY <1>1, <1>5 DEF TypeOK, ShType
<1> QED
  BY <1>1, <1>3, <1>4, <1>6, ReturnInv

-----------------------------------------------------------------------------
(* cleanup() and the signals.                                              *)

\* No label with a cidfile is passed over.
LEMMA FindInv == ASSUME IInv, Find PROVE IInv'
<1> DEFINE rest == {l \in cids : l >= sh.at}
           k == CHOOSE l \in rest : \A m \in rest : l <= m
<1>1. /\ sh.pc = "find" /\ sh.cleaning /\ UNCHANGED <<docker, evidence, signals, refused, cut>>
      /\ UNCHANGED <<box, client, cids, complete>>
      /\ sh' = IF rest = {} THEN [sh EXCEPT !.pc = "over"]
                            ELSE [sh EXCEPT !.pc = "look", !.at = k]
      /\ ShType /\ TypeOK /\ sh.at \in 1..4
  BY DEF Find, At, Only, docker, IInv, PlaceInv, ShType
<1>2. rest \subseteq {1, 2, 3} /\ cids \subseteq {1, 2, 3} /\ rest \subseteq cids
  BY <1>1, LabelsAre DEF TypeOK
<1>3. rest # {} => k \in rest /\ \A m \in rest : k <= m
  <2>1. rest # {} => \E l \in rest : \A m \in rest : l <= m
    <3> HIDE DEF rest
    <3>1. CASE 1 \in rest
      BY <1>2, <3>1
    <3>2. CASE 1 \notin rest /\ 2 \in rest
      BY <1>2, <3>2
    <3>3. CASE 1 \notin rest /\ 2 \notin rest
      <4>1. rest = {} \/ rest = {3}
        BY <1>2, <3>3
      <4> QED
        BY <4>1
    <3> QED
      BY <3>1, <3>2, <3>3
  <2> HIDE DEF rest
  <2> QED
    BY <2>1
<1>4. \A l \in cids : l \in rest \/ l < sh.at
  BY <1>1, <1>2
<1>5. rest # {} => k \in {1, 2, 3} /\ k \in cids /\ k >= sh.at /\ \A l \in cids : l < k => l < sh.at
  <2>1. ASSUME rest # {}, NEW l \in cids, l < k PROVE l < sh.at
    <3>1. k \in {1, 2, 3} /\ l \in {1, 2, 3} /\ (l \in rest => k <= l)
      BY <1>2, <1>3, <2>1
    <3> HIDE DEF k, rest
    <3> QED
      BY <1>4, <2>1, <3>1
  <2>2. rest # {} => k \in {1, 2, 3} /\ k \in cids /\ k >= sh.at
    BY <1>2, <1>3
  <2> QED
    BY <2>1, <2>2
<1> HIDE DEF rest, k
<1>6. /\ sh'.cleaning = sh.cleaning /\ sh'.status = sh.status
      /\ sh'.failed = sh.failed /\ sh'.exit = sh.exit
      /\ \/ rest = {} /\ sh'.pc = "over" /\ sh'.at = sh.at
         \/ rest # {} /\ sh'.pc = "look" /\ sh'.at = k
  BY <1>1 DEF ShType
<1>7. ShType'
  <2>1. rest # {} => k \in 1..4
    BY <1>5
  <2> QED
    BY <1>1, <2>1 DEF ShType
<1>8. TypeOK'
  BY <1>1, <1>7 DEF TypeOK, ShType
<1>9. PlaceInv' /\ ClientInv' /\ BoxInv'
  BY <1>1, <1>5, <1>6, LabelsAre DEF IInv, PlaceInv, ClientInv, BoxInv
<1>10. EarnedInv'
  <2>1. ASSUME NEW l \in Labels, l < sh.at PROVE l < sh'.at
    <3>1. CASE rest = {}
      BY <1>6, <2>1, <3>1
    <3>2. CASE rest # {}
      <4>1. sh'.at = k /\ k \in {1, 2, 3} /\ k >= sh.at /\ l \in {1, 2, 3}
        BY <1>5, <1>6, <3>2, LabelsAre
      <4> QED
        BY <1>1, <2>1, <4>1
    <3> QED
      BY <3>1, <3>2
  <2> QED
    BY <1>1, <1>6, <2>1 DEF IInv, EarnedInv
<1>11. ProgressInv'
  BY <1>1, <1>4, <1>5, <1>6 DEF IInv, ProgressInv, Removed, Inspected
<1> QED
  BY <1>7, <1>8, <1>9, <1>10, <1>11 DEF IInv

\* The inspection of cleanup() writes over that of the launch.
LEMMA InspectAgainInv == ASSUME IInv, InspectAgain PROVE IInv'
<1>1. /\ sh.pc = "inspect" /\ sh.cleaning = TRUE /\ sh.at \in Labels /\ sh.at \in cids
      /\ UNCHANGED <<box, client, cids, complete, signals>>
      /\ ShType /\ TypeOK
  BY RefusedIs DEF InspectAgain, At, Only, docker, IInv, PlaceInv, ShType
<1> DEFINE r == [command |-> "inspect", cleaning |-> TRUE, at |-> sh.at]
<1>2. \/ /\ evidence' = [evidence EXCEPT ![sh.at] = box[sh.at]]
         /\ sh' = [sh EXCEPT !.pc = "rm"] /\ refused' = refused /\ cut' = cut
      \/ /\ evidence' = evidence /\ sh' = [sh EXCEPT !.pc = "rm"]
         /\ refused' = refused \cup {r} /\ cut' = cut
      \/ /\ evidence' = evidence /\ sh' = [sh EXCEPT !.pc = "over", !.exit = "1"]
         /\ refused' = refused /\ cut' = TRUE
  BY <1>1, RefusedIs DEF InspectAgain, Goto, Only
<1>3. r \in [command : {"look", "kill", "wait", "inspect", "rm"}, cleaning : BOOLEAN, at : Labels]
  BY <1>1
<1> HIDE DEF r
<1>4. /\ sh'.at = sh.at /\ sh'.cleaning = sh.cleaning /\ sh'.status = sh.status
      /\ sh'.failed = sh.failed
      /\ \/ sh'.pc = "rm" /\ sh'.exit = sh.exit /\ cut' = cut
         \/ sh'.pc = "over" /\ sh'.exit = "1" /\ cut' = TRUE
      /\ ShType'
  BY <1>1, <1>2 DEF ShType
<1>5. /\ \A l \in Labels : l # sh.at => evidence'[l] = evidence[l]
      /\ evidence'[sh.at] \in {evidence[sh.at], box[sh.at]}
      /\ evidence' \in [Labels -> States \cup {"absent", "empty"}]
      /\ refused \subseteq refused'
      /\ refused' \subseteq [command : {"look", "kill", "wait", "inspect", "rm"},
                             cleaning : BOOLEAN, at : Labels]
  BY <1>1, <1>2, <1>3 DEF TypeOK
<1>6. TypeOK'
  BY <1>1, <1>2, <1>4, <1>5 DEF TypeOK, ShType
<1>7. PlaceInv' /\ ClientInv' /\ BoxInv'
  BY <1>1, <1>4 DEF IInv, PlaceInv, ClientInv, BoxInv
<1>8. EarnedInv'
  <2>1. ~(sh.at < sh.at)
    BY <1>1, LabelsAre
  <2> QED
    BY <1>1, <1>4, <1>5, <2>1 DEF IInv, EarnedInv
<1>9. sh'.pc = "rm" => Inspected(sh.at)'
  <2>1. box[sh.at] \notin {"absent", "empty"}
    BY <1>1 DEF TypeOK, States
  <2>2. \/ evidence' = [evidence EXCEPT ![sh.at] = box[sh.at]]
        \/ r \in refused'
        \/ sh'.pc = "over"
    <3>1. sh' = [sh EXCEPT !.pc = "over", !.exit = "1"] => sh'.pc = "over"
      BY <1>1 DEF ShType
    <3> QED
      BY <1>2, <3>1
  <2>3. evidence' = [evidence EXCEPT ![sh.at] = box[sh.at]] => evidence'[sh.at] = box[sh.at]
    BY <1>1 DEF TypeOK
  <2> QED
    BY <1>4, <2>1, <2>2, <2>3 DEF Inspected, r
<1>10. ProgressInv'
  <2>1. \A l \in cids : l < sh.at => l # sh.at /\ l \in Labels
    BY <1>1, LabelsAre DEF TypeOK
  <2> QED
    BY <1>1, <1>4, <1>5, <1>9, <2>1 DEF IInv, ProgressInv, Removed, Inspected
<1> QED
  BY <1>4, <1>6, <1>7, <1>8, <1>10 DEF IInv

LEMMA RemoveInv == ASSUME IInv, Remove PROVE IInv'
<1> DEFINE r == [command |-> "rm", cleaning |-> TRUE, at |-> sh.at]
<1>1. /\ sh.pc = "rm" /\ sh.cleaning = TRUE /\ sh.at \in Labels /\ sh.at \in cids
      /\ UNCHANGED <<client, cids, complete, evidence, signals, cut>>
      /\ sh' = [sh EXCEPT !.pc = "find", !.at = sh.at + 1]
      /\ ShType /\ TypeOK
  BY RefusedIs DEF Remove, At, Only, docker, NextLabel, IInv, PlaceInv, ShType
<1>2. \/ box' = [box EXCEPT ![sh.at] = "removed"] /\ refused' = refused
      \/ box' = box /\ refused' = refused \cup {r}
  BY <1>1, RefusedIs DEF Remove, Only
<1>3. r \in [command : {"look", "kill", "wait", "inspect", "rm"}, cleaning : BOOLEAN, at : Labels]
  BY <1>1
<1>4. /\ sh.at + 1 \in 1..4
      /\ \A l \in Labels : l = sh.at => Removed(l)'
  <2>1. ASSUME NEW l \in Labels, l = sh.at PROVE Removed(l)'
    BY <1>1, <1>2, <2>1 DEF Removed, TypeOK
  <2> QED
    BY <1>1, <2>1, LabelsAre
<1> HIDE DEF r
<1>5. /\ sh'.at = sh.at + 1 /\ sh'.cleaning = sh.cleaning /\ sh'.status = sh.status
      /\ sh'.failed = sh.failed /\ sh'.pc = "find" /\ sh'.exit = sh.exit
      /\ ShType'
  BY <1>1, <1>4 DEF ShType
<1>6. /\ box' \in [Labels -> States]
      /\ \A l \in Labels : \/ box'[l] = box[l]
                           \/ box'[l] = "removed" /\ l = sh.at
      /\ refused \subseteq refused'
      /\ refused' \subseteq [command : {"look", "kill", "wait", "inspect", "rm"},
                             cleaning : BOOLEAN, at : Labels]
  BY <1>1, <1>2, <1>3 DEF TypeOK, States
<1>7. TypeOK'
  BY <1>1, <1>5, <1>6 DEF TypeOK, ShType
<1>8. PlaceInv' /\ ClientInv'
  BY <1>1, <1>5 DEF IInv, PlaceInv, ClientInv
<1>9. BoxInv'
  BY <1>1, <1>6, LabelsAre DEF IInv, BoxInv
<1>10. \A l \in Labels : l < sh'.at <=> l < sh.at \/ l = sh.at
  BY <1>1, <1>5, LabelsAre
<1>11. EarnedInv'
  BY <1>1, <1>5, <1>6, <1>10 DEF IInv, EarnedInv
<1>12. ProgressInv'
  <2>1. Inspected(sh.at)
    BY <1>1 DEF IInv, ProgressInv
  <2>2. ASSUME NEW l \in cids, l < sh'.at PROVE Removed(l)' /\ Inspected(l)'
    <3>1. l \in Labels
      BY <1>1 DEF TypeOK
    <3>2. CASE l = sh.at
      BY <1>1, <1>4, <1>6, <2>1, <3>2 DEF Removed, Inspected
    <3>3. CASE l # sh.at
      <4>1. Removed(l) /\ Inspected(l)
        BY <1>1, <1>10, <2>2, <3>1, <3>3 DEF IInv, ProgressInv
      <4> QED
        BY <1>1, <1>6, <3>1, <3>3, <4>1 DEF Removed, Inspected
    <3> QED
      BY <3>2, <3>3
  <2> QED
    BY <1>1, <1>5, <2>2 DEF ProgressInv
<1> QED
  BY <1>5, <1>7, <1>8, <1>9, <1>11, <1>12 DEF IInv

LEMMA TakeSignalInv == ASSUME IInv, TakeSignal PROVE IInv'
<1>1. /\ UNCHANGED <<docker, evidence, refused>> /\ signals' = signals + 1 /\ signals < MaxSignals
      /\ UNCHANGED <<box, client, cids, complete>>
      /\ cut' = sh.cleaning /\ sh.pc # "over"
      /\ sh.pc = "pipeline" => client[sh.at] # "waiting"
      /\ ShType /\ TypeOK
  BY DEF TakeSignal, docker, IInv
<1>2. /\ sh'.exit = "signal" /\ sh'.cleaning /\ ShType'
      /\ \/ sh.cleaning /\ sh'.pc = "over" /\ cut' = TRUE
         \/ ~sh.cleaning /\ sh'.pc = "find" /\ sh'.at = 1
  <2>1. CASE sh.cleaning
    BY <1>1, <2>1 DEF TakeSignal, ShType
  <2>2. CASE ~sh.cleaning
    <3>1. ASSUME NEW one \in 1..4, NEW true \in BOOLEAN,
                 sh' = [sh EXCEPT !.pc = "find", !.at = one, !.cleaning = true,
                                  !.exit = "signal"]
          PROVE  /\ sh'.exit = "signal" /\ (sh'.cleaning <=> true) /\ ShType'
                 /\ sh'.pc = "find" /\ sh'.at = one
      BY <1>1, <3>1 DEF ShType
    <3>2. sh' = [sh EXCEPT !.pc = "find", !.at = 1, !.cleaning = TRUE, !.exit = "signal"]
      BY <2>2 DEF TakeSignal, Exiting
    <3>3. 1 \in 1..4 /\ TRUE \in BOOLEAN
      OBVIOUS
    <3> QED
      BY <2>2, <3>1, <3>2, <3>3
  <2> QED
    BY <2>1, <2>2
<1>3. TypeOK'
  BY <1>1, <1>2, QualifyAssumption DEF TypeOK, ShType
<1>4. PlaceInv'
  BY <1>2 DEF PlaceInv
<1>5. ClientInv' /\ BoxInv'
  BY <1>1, <1>2 DEF IInv, ClientInv, BoxInv
<1>6. EarnedInv'
  BY <1>2 DEF EarnedInv
<1>7. ProgressInv'
  <2>1. \A l \in cids : ~(l < 1)
    BY <1>1, LabelsAre DEF TypeOK
  <2> QED
    BY <1>1, <1>2, <2>1 DEF ProgressInv
<1> QED
  BY <1>2, <1>3, <1>4, <1>5, <1>6, <1>7 DEF IInv

-----------------------------------------------------------------------------
(* The theorems.                                                           *)

LEMMA StepInv == IInv /\ [Next]_vars => IInv'
<1> SUFFICES ASSUME IInv, [Next]_vars PROVE IInv'
  OBVIOUS
<1>1. CASE Docker
  BY <1>1, DockerInv DEF Docker
<1>2. CASE Script
  BY <1>2, LaunchInv, PipelineEndsInv, CommandsInv, InspectInv, JudgeInv, FindInv,
     InspectAgainInv, RemoveInv DEF Script
<1>3. CASE TakeSignal
  BY <1>3, TakeSignalInv
<1>4. CASE UNCHANGED vars
  <2>1. TypeOK' /\ ShType' /\ PlaceInv'
    BY <1>4 DEF vars, docker, IInv, TypeOK, ShType, PlaceInv
  <2>2. ClientInv' /\ BoxInv'
    BY <1>4 DEF vars, docker, IInv, ClientInv, BoxInv
  <2>3. EarnedInv' /\ ProgressInv'
    BY <1>4 DEF vars, docker, IInv, EarnedInv, ProgressInv, Removed, Inspected
  <2> QED
    BY <2>1, <2>2, <2>3 DEF IInv
<1> QED
  BY <1>1, <1>2, <1>3, <1>4 DEF Next

\* The script and what it knows of its containers agree, wherever it is and
\* whatever docker refuses or a signal cuts short (launch() and cleanup(),
\* qualify.sh 33-95).
THEOREM Invariance == Spec => []IInv
  BY InitInv, StepInv, PTL DEF Spec

\* Exit status 0 stands for three containers that passed, complete logs and
\* evidence that says so, for any number of signals and refusals: launch() returns
\* 0 only on a client, an inspection and a state that agree, and cleanup() cannot
\* spoil the evidence without changing the status (qualify.sh 46-47, 92-93, 107-117).
THEOREM PassingIsEarned == Spec => []PassIsEarned
<1>1. IInv => PassIsEarned
  BY DEF IInv, EarnedInv, PassIsEarned
<1> QED
  BY <1>1, Invariance, PTL

\* A cleanup() that comes to its end has been to every container with a cidfile,
\* and no other has started; only a refused "docker rm" leaves one behind, only a
\* refused inspection leaves one without evidence (qualify.sh 36-53).
THEOREM CleanupIsComplete == Spec => []CleanupInv
<1>1. IInv => NothingRuns
  BY DEF IInv, BoxInv, ProgressInv, Removed, NothingRuns, CleanedUp
<1>2. IInv => EvidenceIsKept
  BY DEF IInv, ProgressInv, Inspected, EvidenceIsKept, CleanedUp
<1>3. IInv => CleanupInv
  BY <1>1, <1>2 DEF IInv, CleanupInv
<1> QED
  BY <1>3, Invariance, PTL

=============================================================================
