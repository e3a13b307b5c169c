---------------------------- MODULE Assets_proofs ----------------------------
(***************************************************************************)
(* Proofs about Assets, for any number of files and of runs, over any      *)
(* pages, and for every directory they start from.  The argument rests on  *)
(* one fact: a verified file is never replaced by anything else.  So what  *)
(* a run has verified or published stays good, whatever the other runs do, *)
(* and a run that has been through all files need not look again.          *)
(***************************************************************************)
EXTENDS Assets, TLAPS

Loading == {"downloading", "staged"}

\* What a run knows at each place of prepare().
RunInv(r) ==
  /\ pc[r] \in Loading => at[r] \in Files
  /\ pc[r] \in Loading \cup {"checking"} => \A f \in Files : f < at[r] => dest[f] = "good"
  /\ pc[r] \in Verifying \cup {"done"} => \A f \in Files : dest[f] = "good"
  /\ pc[r] \notin Loading \cup {"killed"} => part[r] = "absent"
  /\ pc[r] \in {"new", "resolving", "refused"} => downloads[r] = {}
  /\ sound[r]

\* What was verified when a run began still is, and the run leaves it alone.
FoundInv(r) ==
  LET rest == Files \ found[r] IN
  /\ pc[r] = "new" => found[r] = {} /\ pages[r] = {}
  /\ \A f \in found[r] : dest[f] = "good"
  /\ downloads[r] \subseteq rest
  /\ pages[r] \subseteq {PageOf[f] : f \in rest}
  /\ pc[r] \in Loading \cup {"failed", "refused"} => at[r] \in rest

IInv == TypeOK /\ \A r \in Runs : RunInv(r) /\ FoundInv(r)

\* Every step leaves a verified file verified.
GoodIsKept == \A f \in Files : dest[f] = "good" => dest'[f] = "good"

\* A run's own variables.
RunVars(r) == <<pc[r], at[r], pages[r], part[r], downloads[r], sound[r], found[r]>>

-----------------------------------------------------------------------------
(* The variables' types, action by action.                                 *)

LEMMA TypeInit == Init => TypeOK
  BY AssetsAssumption DEF Init, TypeOK, Files, Contents

Places == {"new", "resolving", "checking", "downloading", "staged",
           "verifying", "verifying again"} \cup Over

\* Where a run may go.
LEMMA GoType ==
  ASSUME TypeOK, NEW r \in Runs, NEW stage \in Places, NEW f \in 1..(Count + 1), Go(r, stage, f)
  PROVE  pc' \in [Runs -> Places] /\ at' \in [Runs -> 1..(Count + 1)]
  BY DEF TypeOK, Go, Places

LEMMA NextFile ==
  ASSUME NEW f \in 1..(Count + 1)
  PROVE  /\ 1 \in 1..(Count + 1)
         /\ f \in Files => f + 1 \in 1..(Count + 1)
         /\ f \notin Files => f = Count + 1
  BY AssetsAssumption DEF Files

LEMMA TypeStep == IInv /\ [Next]_vars => TypeOK'
<1> SUFFICES ASSUME IInv, TypeOK, [Next]_vars PROVE TypeOK'
  BY DEF IInv
<1>1. CASE UNCHANGED vars
  BY <1>1 DEF TypeOK, vars
<1>2. CASE RevisionChanges
  BY <1>2 DEF TypeOK, RevisionChanges
<1>3. ASSUME NEW r \in Runs, Step(r) \/ Kill(r)
      PROVE  TypeOK'
  <2> DEFINE GoesOn == pc' \in [Runs -> Places] /\ at' \in [Runs -> 1..(Count + 1)]
             PagesOf == SUBSET {PageOf[f] : f \in Files}
  <2>0. /\ at[r] \in 1..(Count + 1) /\ pc[r] \in Places
        /\ part[r] \in Contents /\ "absent" \in Contents /\ "bad" \in Contents
        /\ {"resolving", "checking", "downloading", "staged", "verifying", "verifying again",
            "done", "failed", "refused", "killed"} \subseteq Places
    BY DEF TypeOK, Contents, Places, Over
  <2>1. CASE Refuse(r) \/ ResolveRaises(r) \/ Resolved(r) \/ Prepared(r)
    <3>1. GoesOn
      BY <2>0, <2>1, NextFile, GoType DEF Refuse, ResolveRaises, Resolved, Prepared
    <3>2. UNCHANGED <<dest, pinned, pages, part, downloads, sound, found>>
      BY <2>1 DEF Refuse, ResolveRaises, Resolved, Prepared
    <3> QED
      BY <3>1, <3>2 DEF TypeOK, Places
  <2>9. CASE Start(r)
    <3>1. GoesOn
      BY <2>0, <2>9, NextFile, GoType DEF Start
    <3>2. found' \in [Runs -> SUBSET Files]
      BY <2>9 DEF TypeOK, Start
    <3> QED
      BY <2>9, <3>1, <3>2 DEF TypeOK, Start, Places
  <2>2. CASE Resolve(r)
    <3>1. GoesOn
      BY <2>0, <2>2, NextFile, GoType DEF Resolve
    <3>2. pages' \in [Runs -> PagesOf]
      BY <2>2 DEF TypeOK, Resolve
    <3> QED
      BY <2>2, <3>1, <3>2 DEF TypeOK, Resolve, Places
  <2>3. CASE Verified(r) \/ VerifyAgain(r) \/ Finish(r) \/ Kill(r)
    <3>1. GoesOn
      BY <2>0, <2>3, NextFile, GoType DEF Verified, VerifyAgain, Finish, Kill
    <3>2. UNCHANGED <<dest, pinned, pages, part, downloads, sound, found>>
      BY <2>3 DEF Verified, VerifyAgain, Finish, Kill
    <3> QED
      BY <3>1, <3>2 DEF TypeOK, Places
  <2>4. CASE Download(r)
    <3>1. GoesOn
      BY <2>0, <2>4, GoType DEF Download
    <3>2. downloads' \in [Runs -> SUBSET Files]
      BY <2>4 DEF TypeOK, Download
    <3> QED
      BY <2>0, <2>4, <3>1, <3>2 DEF TypeOK, Download, Places
  <2>5. ASSUME NEW content \in {"bad", "good"}, Received(r, content) PROVE TypeOK'
    <3>1. GoesOn
      BY <2>0, <2>5, GoType DEF Received
    <3> QED
      BY <2>5, <3>1 DEF TypeOK, Received, Places, Contents
  <2>6. CASE DownloadRaises(r) \/ Reject(r)
    <3>1. GoesOn
      BY <2>0, <2>6, GoType DEF DownloadRaises, Reject
    <3> QED
      BY <2>0, <2>6, <3>1 DEF TypeOK, DownloadRaises, Reject, Places
  <2>7. CASE Publish(r)
    <3>1. ASSUME at[r] \in Files PROVE GoesOn
      BY <2>0, <2>7, <3>1, NextFile, GoType DEF Publish
    <3>2. at[r] \in Files
      BY <2>7 DEF IInv, RunInv, Loading, Publish
    <3> QED
      BY <2>0, <2>7, <3>1, <3>2 DEF TypeOK, Publish, Places
  <2>8. CASE Verify(r)
    <3>1. GoesOn
      BY <2>0, <2>8, NextFile, GoType DEF Verify
    <3>2. sound' \in [Runs -> BOOLEAN]
      BY <2>8 DEF TypeOK, Verify, Matches
    <3> QED
      BY <2>8, <3>1, <3>2 DEF TypeOK, Verify, Places
  <2> QED
    BY <1>3, <2>1, <2>2, <2>3, <2>4, <2>5, <2>6, <2>7, <2>8, <2>9 DEF Step
<1> QED
  BY <1>1, <1>2, <1>3 DEF Next

-----------------------------------------------------------------------------
(* One run and the others.                                                 *)

\* A name changes hands only to a verified file.
LEMMA PublicationStep ==
  TypeOK /\ [Next]_vars => \A f \in Files : dest'[f] # dest[f] => dest'[f] = "good"
<1> SUFFICES ASSUME TypeOK, Next, NEW f \in Files, dest'[f] # dest[f]
             PROVE  dest'[f] = "good"
  BY DEF vars
<1>1. PICK r \in Runs : Publish(r)
  BY DEF Next, RevisionChanges, Step, Kill, Start, Resolve, Refuse, ResolveRaises, Resolved,
         Verified, Download, Received, DownloadRaises, Reject, Prepared, Verify, VerifyAgain,
         Finish
<1> QED
  BY <1>1 DEF Publish, Matches, TypeOK

\* A run keeps what it knows while others step.
LEMMA OthersStep ==
  ASSUME TypeOK, NEW r \in Runs, RunInv(r), FoundInv(r), GoodIsKept, UNCHANGED RunVars(r)
  PROVE  RunInv(r)' /\ FoundInv(r)'
<1>1. RunInv(r)'
  BY DEF RunInv, GoodIsKept, RunVars
<1>2. FoundInv(r)'
  BY DEF TypeOK, FoundInv, GoodIsKept, RunVars
<1> QED
  BY <1>1, <1>2

\* The variables of the run that steps, and of no other, may change.
LEMMA StepIsPrivate ==
  ASSUME TypeOK, NEW r \in Runs, Step(r) \/ Kill(r), NEW q \in Runs, q # r
  PROVE  UNCHANGED RunVars(q)
<1> USE DEF TypeOK, Go, RunVars
<1>1. CASE Start(r) \/ Resolve(r) \/ Refuse(r) \/ ResolveRaises(r) \/ Resolved(r)
  BY <1>1 DEF Start, Resolve, Refuse, ResolveRaises, Resolved
<1>2. CASE Verified(r) \/ Download(r) \/ \E content \in {"bad", "good"} : Received(r, content)
  BY <1>2 DEF Verified, Download, Received
<1>3. CASE DownloadRaises(r) \/ Publish(r) \/ Reject(r)
  BY <1>3 DEF DownloadRaises, Publish, Reject
<1>4. CASE Prepared(r) \/ Verify(r) \/ VerifyAgain(r) \/ Finish(r) \/ Kill(r)
  BY <1>4 DEF Prepared, Verify, VerifyAgain, Finish, Kill
<1> QED
  BY <1>1, <1>2, <1>3, <1>4 DEF Step

\* Files are visited in order: what is before the next one is before this one or
\* is this one.
LEMMA InOrder ==
  ASSUME NEW n \in 1..(Count + 1)
  PROVE  /\ \A f \in Files : ~(f < 1)
         /\ n \in Files => \A f \in Files : f < n + 1 => f < n \/ f = n
         /\ n \notin Files => \A f \in Files : f < n
  BY AssetsAssumption DEF Files

LEMMA Visited ==
  ASSUME TypeOK, NEW r \in Runs
  PROVE  /\ \A f \in Files : ~(f < 1)
         /\ at[r] \in Files => \A f \in Files : f < at[r] + 1 => f < at[r] \/ f = at[r]
         /\ at[r] \notin Files => \A f \in Files : f < at[r]
<1>1. at[r] \in 1..(Count + 1)
  BY DEF TypeOK
<1> QED
  BY <1>1, InOrder

\* A run's own step.
LEMMA OwnStep ==
  ASSUME TypeOK, TypeOK', NEW r \in Runs, RunInv(r), GoodIsKept, Step(r) \/ Kill(r)
  PROVE  RunInv(r)'
<1>0. /\ pc \in [Runs -> {"new", "resolving", "checking", "downloading", "staged",
                      "verifying", "verifying again"} \cup Over]
      /\ DOMAIN at = Runs /\ DOMAIN part = Runs /\ DOMAIN downloads = Runs /\ DOMAIN sound = Runs
      /\ at \in [Runs -> 1..(Count + 1)] /\ dest \in [Files -> Contents]
  BY DEF TypeOK
<1>1. CASE Start(r) \/ Resolve(r) \/ Refuse(r) \/ ResolveRaises(r) \/ Resolved(r)
  BY <1>0, <1>1, Visited
  DEF RunInv, Loading, Verifying, Go, Start, Resolve, Refuse, ResolveRaises, Resolved
<1>2. CASE Verified(r)
  BY <1>0, <1>2, Visited DEF RunInv, Loading, Verifying, Go, Verified, Matches
<1>3. CASE Download(r)
  BY <1>0, <1>3 DEF RunInv, Loading, Verifying, Go, Download
<1>4. ASSUME NEW content \in {"bad", "good"}, Received(r, content) PROVE RunInv(r)'
  BY <1>0, <1>4 DEF RunInv, Loading, Verifying, Go, Received
<1>5. CASE DownloadRaises(r) \/ Reject(r)
  BY <1>0, <1>5 DEF RunInv, Loading, Verifying, Go, DownloadRaises, Reject
<1>6. CASE Publish(r)
  <2>1. at[r] \in Files /\ dest'[at[r]] = "good" /\ \A f \in Files : f < at[r] => dest'[f] = "good"
    BY <1>0, <1>6 DEF RunInv, Loading, Publish, Matches, GoodIsKept
  <2> QED
    BY <1>0, <1>6, <2>1, Visited DEF RunInv, Loading, Verifying, Go, Publish
<1>7. CASE Prepared(r)
  <2>1. \A f \in Files : dest[f] = "good"
    BY <1>7, Visited DEF RunInv, Loading, Prepared
  <2> QED
    BY <1>0, <1>7, <2>1 DEF RunInv, Loading, Verifying, Go, Prepared
<1>8. CASE Verify(r)
  BY <1>0, <1>8 DEF RunInv, Loading, Verifying, Go, Verify, Matches
<1>9. CASE VerifyAgain(r) \/ Finish(r) \/ Kill(r)
  BY <1>0, <1>9 DEF RunInv, Loading, Verifying, Go, VerifyAgain, Finish, Kill
<1> QED
  BY <1>1, <1>2, <1>3, <1>4, <1>5, <1>6, <1>7, <1>8, <1>9 DEF Step

\* A run's own step leaves alone what it found.
LEMMA FoundStep ==
  ASSUME TypeOK, TypeOK', NEW r \in Runs, RunInv(r), FoundInv(r), GoodIsKept,
         Step(r) \/ Kill(r)
  PROVE  FoundInv(r)'
<1>0. /\ pc \in [Runs -> Places] /\ DOMAIN at = Runs /\ DOMAIN pages = Runs
      /\ DOMAIN downloads = Runs /\ DOMAIN found = Runs
      /\ found[r] \subseteq Files /\ sound[r]
  BY DEF TypeOK, Places, RunInv
<1>1. CASE Start(r)
  BY <1>0, <1>1 DEF FoundInv, RunInv, Loading, Go, Start, Matches
<1>2. CASE Resolve(r)
  <2>1. found'[r] = found[r] /\ downloads'[r] = downloads[r] /\ pc'[r] = "resolving"
        /\ dest' = dest
    BY <1>0, <1>2 DEF Go, Resolve
  <2>2. pages'[r] \subseteq {PageOf[f] : f \in Files \ found[r]}
    <3>1. CASE Matches(dest[at[r]])
      BY <1>0, <1>2, <3>1 DEF FoundInv, Resolve
    <3>2. CASE ~Matches(dest[at[r]])
      <4>1. at[r] \in Files \ found[r]
        BY <1>2, <3>2 DEF FoundInv, Resolve, Matches
      <4>2. pages'[r] = pages[r] \cup {PageOf[at[r]]}
        BY <1>0, <1>2, <3>2 DEF Resolve
      <4> QED
        BY <4>1, <4>2 DEF FoundInv
    <3> QED
      BY <3>1, <3>2
  <2> QED
    BY <2>1, <2>2 DEF FoundInv, Loading
<1>3. CASE Refuse(r) \/ ResolveRaises(r)
  BY <1>0, <1>3 DEF FoundInv, Loading, Go, Refuse, ResolveRaises, Matches
<1>4. CASE Resolved(r) \/ Verified(r) \/ Prepared(r) \/ Verify(r) \/ VerifyAgain(r)
  BY <1>0, <1>4 DEF FoundInv, Loading, Verifying, Go, Resolved, Verified, Prepared, Verify,
                    VerifyAgain
<1>5. CASE Download(r)
  <2>1. at[r] \in Files \ found[r]
    BY <1>5 DEF FoundInv, Download, Matches
  <2> QED
    BY <1>0, <1>5, <2>1 DEF FoundInv, Loading, Go, Download
<1>6. ASSUME NEW content \in {"bad", "good"}, Received(r, content) PROVE FoundInv(r)'
  BY <1>0, <1>6 DEF FoundInv, Loading, Go, Received
<1>7. CASE DownloadRaises(r) \/ Reject(r)
  BY <1>0, <1>7 DEF FoundInv, Loading, Go, DownloadRaises, Reject
<1>8. CASE Publish(r)
  <2>1. \A f \in found[r] : dest'[f] = "good"
    BY <1>0 DEF FoundInv, GoodIsKept
  <2> QED
    BY <1>0, <1>8, <2>1 DEF FoundInv, Loading, Go, Publish
<1>9. CASE Finish(r) \/ Kill(r)
  BY <1>0, <1>9 DEF FoundInv, Loading, Verifying, Go, Finish, Kill
<1> QED
  BY <1>1, <1>2, <1>3, <1>4, <1>5, <1>6, <1>7, <1>8, <1>9 DEF Step

-----------------------------------------------------------------------------
\* It holds at first, and every step keeps it.
LEMMA InitInv == Init => IInv
<1> SUFFICES ASSUME Init PROVE IInv
  OBVIOUS
<1>1. ASSUME NEW r \in Runs PROVE RunInv(r) /\ FoundInv(r)
  BY DEF Init, RunInv, FoundInv, Loading, Verifying
<1> QED
  BY <1>1, TypeInit DEF IInv

LEMMA StepInv == IInv /\ [Next]_vars => IInv'
<1> SUFFICES ASSUME IInv, [Next]_vars PROVE IInv'
  OBVIOUS
<1>1. TypeOK'
  BY TypeStep
<1>2. GoodIsKept
  BY PublicationStep DEF IInv, GoodIsKept
<1>3. ASSUME NEW q \in Runs, UNCHANGED vars \/ RevisionChanges
      PROVE  RunInv(q)' /\ FoundInv(q)'
  <2>1. UNCHANGED RunVars(q)
    BY <1>3 DEF vars, RevisionChanges, RunVars
  <2> QED
    BY <1>2, <2>1, OthersStep DEF IInv
<1>4. ASSUME NEW q \in Runs, NEW r \in Runs, Step(r) \/ Kill(r)
      PROVE  RunInv(q)' /\ FoundInv(q)'
  <2>1. CASE q = r
    BY <1>1, <1>2, <1>4, <2>1, OwnStep, FoundStep DEF IInv
  <2>2. CASE q # r
    BY <1>2, <1>4, <2>2, StepIsPrivate, OthersStep DEF IInv
  <2> QED
    BY <2>1, <2>2
<1> QED
  BY <1>1, <1>3, <1>4 DEF Next, IInv

\* The strengthening of the properties that every step of prepare() preserves
\* (assets.py 47-77).
THEOREM Invariance == Spec => []IInv
  BY InitInv, StepInv, PTL DEF Spec

\* Every run that ends, ends as it says (assets.py 47-77, workload.py 37-79): done
\* over a directory of verified files, failed or refused without litter, and refused
\* before any download.  For any number of runs over one directory, a file that was
\* verified when a run began costs that run no page and no download, and is never what
\* it fails or is refused for.
THEOREM PreparationIsSound == Spec => []PreparationInv
<1>1. IInv => PreparationInv
  BY DEF IInv, RunInv, FoundInv, PreparationInv, DoneMeansVerified, NoLitter,
         RefusalComesFirst, OnlyTheRestIsFetched, Over, Loading
<1> QED
  BY <1>1, Invariance, PTL
=============================================================================
