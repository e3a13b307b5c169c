------------------------------ MODULE EdgeTrace ------------------------------
(***************************************************************************)
(* examples/edge: run.py exercises a runtime step by step and writes what  *)
(* happens to a log of events; verify.py reads the log afterwards and      *)
(* holds it against a table of its own.  Two descriptions of one trace.    *)
(*                                                                         *)
(* Here the exerciser is its sequence of calls (Script), each of which may *)
(* raise and end the run, and the verifier is its table (Table) and the    *)
(* checks it makes of an event.  An event has the fields the verifier      *)
(* compares; a score vector is whether it matches the direct reference.    *)
(* A frame also says if its session was sound, which no program can see.   *)
(* A resource profile is read file by file from a cgroup that goes on      *)
(* counting; its CPU counters are one counter here.                        *)
(***************************************************************************)
EXTENDS Selector, SequencesExt

CONSTANT MaxCount     \* bound on the counters of the cgroup

ASSUME CountAssumption == MaxCount \in Nat

Small == [id |-> 1, digest |-> 1]    \* mobilenetv2
Large == [id |-> 2, digest |-> 2]    \* resnet18

Inputs == 20
Swaps  == 12

NoContext == <<>>
Request(detail) == [input_ready |-> Num(1), detail_required |-> Num(IF detail THEN 1 ELSE 0)]
Economy == Request(FALSE)
Detail  == Request(TRUE)

VARIABLES
  step,      \* the exerciser's next call
  active,    \* runtime.state("vision").active_model
  artifact,  \* what is in the private copy of the large model's file
  session,   \* the active session was loaded from an undamaged file
  cgroup,    \* its counters now
  profiles,  \* the profile being read, and the one before the pressure
  file,      \* summary.json is there
  log,       \* events.jsonl
  verdict,   \* what the verifier makes of it
  place,     \* the event it reads next
  expects,   \* the active model it expects
  measured,  \* the frames it has counted
  pairs      \* the (model, input) pairs it has seen served

resources == <<cgroup, profiles>>
running == <<step, active, artifact, session, resources, file, log>>
reading == <<place, expects, measured, pairs>>
vars == <<running, verdict, reading>>

-----------------------------------------------------------------------------
(***************************************************************************)
(* run.py                                                                  *)
(***************************************************************************)
Policies ==
  LET is(name, n) == [source |-> "context", key |-> name, operator |-> "eq", expected |-> Num(n)]
  IN  << [model |-> Small, priority |-> 10, constraints |-> <<is("input_ready", 1)>>],
         [model |-> Large, priority |-> 20,
          constraints |-> <<is("input_ready", 1), is("detail_required", 1)>>] >>

Call(op, phase) == [op |-> op, phase |-> phase]
Switch(phase, context) ==
  [op |-> "switch", phase |-> phase, context |-> context, corrupt |-> phase = "corrupt-update"]
File(phase, content) == [op |-> "artifact", phase |-> phase, content |-> content]
Frames(phase, first, n) ==
  [i \in 1..n |-> [op |-> "infer", phase |-> phase, input |-> first + i - 1]]

\* The phase of swap i of 0..(Swaps - 1).
SwapPhase(i) == ToString(i)

\* A switch and a frame for each swap.
SwapCalls ==
  [n \in 1..(2 * Swaps) |->
    LET i == (n - 1) \div 2 IN
    IF n % 2 = 1 THEN Switch(SwapPhase(i), IF i % 2 = 0 THEN Economy ELSE Detail)
                 ELSE Frames(SwapPhase(i), i % Inputs, 1)[1]]

\* MUTANT: the peak is read before the usage it is a maximum of.
SnapshotPeakFirst == <<Call("read", "throttled"), Call("read", "peak"), Call("read", "current")>>

\* resources.snapshot()
Snapshot == <<Call("read", "throttled"), Call("read", "current"), Call("read", "peak")>>

\* The end of main().
Closing ==
  <<Call("verify assets", "run")>> \o Snapshot \o
  <<Call("summary", "run"), Call("summary file", "run")>>

\* exercise(), between the header and the summary that main() writes.
Script ==
     Snapshot \o <<Call("header", "run"), Call("infer cold", "startup"), Switch("offline-start", Economy)>>
  \o Frames("offline-start", 0, Inputs)
  \o <<Switch("detail-request", Detail)>> \o Frames("detail-request", 0, Inputs)
  \o Snapshot \o <<Call("pressure before", "cpu-contention")>>
  \o <<Switch("cpu-contention", Economy)>> \o Frames("cpu-contention", 0, Inputs)
  \o Snapshot \o <<Call("pressure", "cpu-contention"), File("corrupt-update", "damaged"),
       Switch("corrupt-update", Detail)>> \o Frames("corrupt-update", 0, Inputs)
  \o <<File("restored-update", "original"), Switch("restored-update", Detail)>>
  \o Frames("restored-update", 0, Inputs)
  \o SwapCalls
  \o <<Switch("missing-context", NoContext), Call("abstain", "missing-context"),
       Switch("resume", Economy)>> \o Frames("resume", 0, 1)
  \o Closing

call == Script[step]
Calls(op) == verdict = "running" /\ step \in DOMAIN Script /\ call.op = op

Emit(event) == log' = Append(log, event) /\ step' = step + 1 /\ UNCHANGED <<verdict, reading>>

\* The call raises, which ends the run: nothing catches it, it leaves main()'s "with"
\* blocks (run.py 192-220).
Abort == verdict' = "aborted" /\ UNCHANGED <<step, reading>>

Same == UNCHANGED <<active, artifact, session, resources, file>>

\* Whatever a call checks or uses fails; nothing is emitted.
Raise ==
  /\ verdict = "running" /\ step \in DOMAIN Script
  /\ Abort /\ Same /\ UNCHANGED log

Decision == Select(Policies, <<Small, Large>>, active, <<>>, call.context).selected

Changes == IF Decision = Nil THEN FALSE ELSE ~SameModel(active, Decision)

\* The event of a switch from the active model to the model now.
Activation(now, status) ==
  [event |-> "activation", phase |-> call.phase, context |-> call.context,
   previous |-> active, selected |-> Decision, active |-> now, activation |-> status,
   error |-> IF status = "failed" THEN "InvalidProtobuf" ELSE Nil]

\* switch(): the decision names no model, or the active one.
SwitchUnchanged ==
  /\ Calls("switch") /\ ~call.corrupt
  /\ ~Changes
  /\ Emit(Activation(active, "unchanged")) /\ Same

\* The selected model's file is loaded and published; the large model's only if
\* it is not the damaged one.
SwitchPublishes ==
  /\ Calls("switch") /\ ~call.corrupt
  /\ Changes /\ (Decision = Large => artifact = "original")
  /\ active' = Decision /\ session' = TRUE
  /\ Emit(Activation(Decision, "published")) /\ UNCHANGED <<artifact, resources, file>>

\* The damaged file does not load, and the active model stays.
SwitchFails ==
  /\ Calls("switch") /\ call.corrupt
  /\ Changes /\ Decision = Large /\ artifact = "damaged"
  /\ Emit(Activation(active, "failed")) /\ Same

\* MUTANT: an activation of the damaged file is reported like any other.
AcceptDamaged ==
  /\ Calls("switch") /\ call.corrupt
  /\ Changes /\ Decision = Large /\ artifact = "damaged"
  /\ active' = Large /\ session' = FALSE
  /\ Emit(Activation(Large, "failed")) /\ UNCHANGED <<artifact, resources, file>>

\* It loads all the same: "corrupted replacement unexpectedly activated".
DamagedLoads ==
  /\ Calls("switch") /\ call.corrupt
  /\ Changes /\ Decision = Large /\ artifact = "damaged"
  /\ active' = Large /\ session' = FALSE
  /\ Abort /\ UNCHANGED <<artifact, resources, file, log>>

Frame(matches) ==
  [event |-> "frame", phase |-> call.phase,
   request |-> 1 + Cardinality({i \in DOMAIN log : log[i].event = "frame"}),
   input |-> call.input, admitted |-> active, serving |-> active, active |-> active,
   matches |-> matches, sound |-> session]

\* serve(): one sample.
Serve ==
  /\ Calls("infer") /\ active # Nil
  /\ Emit(Frame(TRUE)) /\ Same

\* The output is not the direct reference's: it is logged, and the run ends.
ServeMismatch ==
  /\ Calls("infer") /\ active # Nil
  /\ log' = Append(log, Frame(FALSE))
  /\ Abort /\ Same

\* The calls that only report: header, abstention, summary; and the inference
\* without a model, refused with NoActiveModelError.
Report ==
  /\ \/ Calls("header") \/ Calls("abstain") \/ Calls("summary")
     \/ Calls("infer cold") /\ active = Nil
  /\ Emit([event |-> call.op, phase |-> call.phase, active |-> active,
           profile |-> IF call.op \in {"header", "summary"} THEN profiles.now ELSE Nil])
  /\ Same

\* One of the cgroup's files is read; what the others say changes meanwhile.
ReadCounter ==
  /\ Calls("read")
  /\ \E current, more \in 0..MaxCount, throttled \in cgroup.throttled..MaxCount :
       LET peak == CHOOSE p \in {cgroup.peak, current, more} :
                     p >= cgroup.peak /\ p >= current /\ p >= more
           now  == [throttled |-> throttled, current |-> current, peak |-> peak]
       IN  /\ cgroup' = now
           /\ profiles' = [profiles EXCEPT !.now[call.phase] = now[call.phase]]
  /\ step' = step + 1
  /\ UNCHANGED <<active, artifact, session, file, log, verdict, reading>>

\* cpu_pressure() keeps its first profile, and at the end of its block compares.
PressureBegins ==
  /\ Calls("pressure before")
  /\ profiles' = [profiles EXCEPT !.before = profiles.now] /\ step' = step + 1
  /\ UNCHANGED <<active, artifact, session, cgroup, file, log, verdict, reading>>

PressureEnds ==
  /\ Calls("pressure")
  /\ profiles.now.throttled > profiles.before.throttled
  /\ Emit([event |-> "pressure", phase |-> call.phase,
           before |-> profiles.before, now |-> profiles.now])
  /\ Same

\* main() ends by writing the summary to a file of its own.
WriteSummary ==
  /\ Calls("summary file")
  /\ file' = TRUE /\ step' = step + 1
  /\ UNCHANGED <<active, artifact, session, resources, log, verdict, reading>>

\* assets.verify_assets, verify_workload and the last validate_profile.
VerifyAssets ==
  /\ Calls("verify assets")
  /\ step' = step + 1
  /\ Same /\ UNCHANGED <<log, verdict, reading>>

\* The private copy is overwritten, and later replaced with the source again.
Replace ==
  /\ Calls("artifact")
  /\ artifact' = call.content
  /\ Emit([event |-> "artifact", phase |-> call.phase, actual |-> call.content])
  /\ UNCHANGED <<active, session, resources, file>>

-----------------------------------------------------------------------------
(***************************************************************************)
(* verify.py                                                               *)
(***************************************************************************)
Phase(name, selected, context, status, first, n) ==
  [name |-> name, selected |-> selected, context |-> context, status |-> status,
   first |-> first, n |-> n]

\* PHASES
Phases ==
     << Phase("offline-start", Small, Economy, "published", 0, Inputs),
        Phase("detail-request", Large, Detail, "published", 0, Inputs),
        Phase("cpu-contention", Small, Economy, "published", 0, Inputs),
        Phase("corrupt-update", Large, Detail, "failed", 0, Inputs),
        Phase("restored-update", Large, Detail, "published", 0, Inputs) >>
  \o [i \in 1..Swaps |->
        IF i % 2 = 0 THEN Phase(SwapPhase(i - 1), Large, Detail, "published", i - 1, 1)
                     ELSE Phase(SwapPhase(i - 1), Small, Economy, "published", i - 1, 1)]
  \o << Phase("missing-context", Nil, NoContext, "unchanged", 0, 0),
        Phase("resume", Small, Economy, "published", 0, 1) >>

Expect(kind, p, input) == [event |-> kind, p |-> p, input |-> input]

\* The events trace() goes through for a phase, in their order.
EventsOf(p) ==
     (IF p.name \in {"corrupt-update", "restored-update"} THEN <<Expect("artifact", p, Nil)>> ELSE <<>>)
  \o <<Expect("activation", p, Nil)>>
  \o [i \in 1..p.n |-> Expect("frame", p, p.first + i - 1)]
  \o (IF p.name = "cpu-contention" THEN <<Expect("pressure", p, Nil)>> ELSE <<>>)
  \o (IF p.selected = Nil THEN <<Expect("abstain", p, Nil)>> ELSE <<>>)

Table == FlattenSeq([i \in DOMAIN Phases |-> EventsOf(Phases[i])])

Total == 139

\* verify_run: every line is there.
Open ==
  /\ verdict \in {"running", "aborted"} /\ (verdict = "running" => step \notin DOMAIN Script)
  /\ verdict' = IF /\ Len(log) = Total /\ log[1].event = "header"
                   /\ log[2].event = "infer cold" /\ log[2].active = Nil
                THEN "reading" ELSE "rejected"
  /\ UNCHANGED <<running, reading>>

expected == Table[place]
record == log[place + 2]       \* after the header and the startup

ActivationMatches ==
  /\ record.previous = expects /\ record.selected = expected.p.selected
  /\ record.context = expected.p.context /\ record.activation = expected.p.status
  /\ record.active = IF expected.p.status = "published" THEN expected.p.selected ELSE expects
  /\ (expected.p.status = "failed") = (record.error = "InvalidProtobuf")

FrameMatches ==
  /\ record.request = measured + 1 /\ record.input = expected.input
  /\ record.admitted = expects /\ record.serving = expects /\ record.active = expects
  /\ record.matches

\* profile(), progression() and pressure()
Progresses(before, after) ==
  /\ \A p \in {before, after} : p.peak >= p.current
  /\ after.peak >= before.peak /\ after.throttled >= before.throttled

PressureMatches ==
  /\ Progresses(record.before, record.now)
  /\ record.now.throttled > record.before.throttled

Matches ==
  /\ record.event = expected.event /\ record.phase = expected.p.name
  /\ expected.event = "activation" => ActivationMatches
  /\ expected.event = "frame" => FrameMatches
  /\ expected.event = "artifact" =>
       record.actual = IF record.phase = "corrupt-update" THEN "damaged" ELSE "original"
  /\ expected.event = "pressure" => PressureMatches
  /\ expected.event = "abstain" => record.active = expects

\* trace(): the next event of the table against the next of the log.
Read ==
  /\ verdict = "reading" /\ place \in DOMAIN Table
  /\ IF place + 2 < Len(log) /\ Matches
     THEN /\ place' = place + 1
          /\ expects' = IF expected.event = "activation" THEN record.active ELSE expects
          /\ measured' = measured + (IF expected.event = "frame" THEN 1 ELSE 0)
          /\ pairs' = pairs \cup (IF expected.event = "frame" THEN {<<expects, expected.input>>}
                                                                ELSE {})
          /\ UNCHANGED verdict
     ELSE verdict' = "rejected" /\ UNCHANGED reading
  /\ UNCHANGED running

\* The profiles of the whole run, in their order.
ProfilesProgress ==
  LET pressure == CHOOSE i \in DOMAIN log : log[i].event = "pressure"
      in_order == <<log[1].profile, log[pressure].before, log[pressure].now, log[Len(log)].profile>>
  IN  \A i \in 1..3 : Progresses(in_order[i], in_order[i + 1])

\* Nothing is left but the summary, which summary.json repeats, and every pair has
\* been served.
Judge ==
  /\ verdict = "reading" /\ place \notin DOMAIN Table
  /\ verdict' = IF /\ place + 2 = Len(log) /\ log[place + 2].event = "summary" /\ file
                   /\ ProfilesProgress
                   /\ pairs = {Small, Large} \X (0..(Inputs - 1))
                   /\ measured = 113
                THEN "accepted" ELSE "rejected"
  /\ UNCHANGED <<running, reading>>

Init ==
  /\ step = 1 /\ active = Nil /\ artifact = "original" /\ session = TRUE
  /\ \E n \in 0..MaxCount :
       LET zero == [throttled |-> 0, current |-> 0, peak |-> 0] IN
       cgroup = [zero EXCEPT !.peak = n] /\ profiles = [now |-> zero, before |-> zero]
  /\ file = FALSE
  /\ log = <<>> /\ verdict = "running"
  /\ place = 1 /\ expects = Nil /\ measured = 0 /\ pairs = {}

Exercise ==
  \/ Raise \/ SwitchUnchanged \/ SwitchPublishes \/ SwitchFails \/ DamagedLoads
  \/ Serve \/ ServeMismatch \/ Report \/ VerifyAssets \/ Replace
  \/ ReadCounter \/ PressureBegins \/ PressureEnds \/ WriteSummary

Verify == Open \/ Read \/ Judge

Next == Exercise \/ Verify

Spec == Init /\ [][Next]_vars
-----------------------------------------------------------------------------
Complete == step \notin DOMAIN Script

TypeOK ==
  /\ step \in 1..(Len(Script) + 1)
  /\ active \in {Nil, Small, Large} /\ artifact \in {"original", "damaged"}
  /\ session \in BOOLEAN /\ file \in BOOLEAN
  /\ {cgroup, profiles.now, profiles.before} \subseteq
       [throttled : 0..MaxCount, current : 0..MaxCount, peak : 0..MaxCount]
  /\ Len(log) <= Total
  /\ verdict \in {"running", "aborted", "reading", "accepted", "rejected"}
  /\ place \in 1..(Len(Table) + 1) /\ measured \in 0..113
  /\ expects \in {Nil, Small, Large} /\ pairs \subseteq {Small, Large} \X (0..(Inputs - 1))

\* What the verifier accepts is the evidence of a run that got to its end: one that
\* raised anywhere, its last verification of the assets included, leaves no
\* summary.json (run.py 212-220), whatever its log says.
AcceptsOnlyCompleteRuns == verdict = "accepted" => Complete

\* The verifier accepts the evidence of a run exactly if the run got to its end.
\* The exerciser's calls, decided by the selector, and the verifier's table tell
\* the same story, and no interleaving of the cgroup's counting with the reading of
\* its files looks like a counter that rolled back.
AcceptsExactlyCompleteRuns ==
  (Complete => verdict # "rejected") /\ AcceptsOnlyCompleteRuns

\* No frame of any log was served by a session loaded from the damaged file
\* (run.py 54-55), whatever the runtime makes of that file.
DamageIsNeverServed == \A i \in DOMAIN log : log[i].event = "frame" => log[i].sound

\* "abstention changed runtime ownership" (run.py 131-133): a context without its
\* key leaves the model of the frame before it to the abstention.
AbstentionKeepsModel ==
  \A i \in DOMAIN log : log[i].event = "abstain" =>
    /\ log[i].active # Nil
    /\ \E j \in 1..(i - 1) : /\ log[j].event = "frame" /\ log[j].serving = log[i].active
                             /\ \A k \in (j + 1)..(i - 1) : log[k].event # "frame"

\* "resource counter rolled back" (verify.py 62-68): no two profiles in a log contradict
\* each other, though the cgroup goes on counting while its files are read one by one.
NoRollBack ==
  LET reports == {i \in DOMAIN log : log[i].event \in {"header", "pressure", "summary"}}
      first(e) == IF e.event = "pressure" THEN e.before ELSE e.profile
      last(e)  == IF e.event = "pressure" THEN e.now ELSE e.profile
  IN  \A i, j \in reports :
        /\ Progresses(first(log[i]), last(log[i]))
        /\ i < j => Progresses(last(log[i]), first(log[j]))

\* What a log may say at any moment, whatever is going to be read of it (run.py 85-138).
LogInv == DamageIsNeverServed /\ AbstentionKeepsModel /\ NoRollBack

\* A log of the right shape that says no more than that.
TraceInv == TypeOK /\ LogInv
=============================================================================
