------------------------------- MODULE Assets -------------------------------
(***************************************************************************)
(* examples/live_swap/assets.py and workload.py: runs of "prepare" fill a  *)
(* directory with pinned files.  A run resolves where its missing files    *)
(* come from (the validation workload only), downloads each into a private *)
(* temporary file and moves it into place once it matches its pinned size  *)
(* and digest.  Runs are processes: they may overlap, fail at any read and *)
(* be killed with their temporary file left behind.                        *)
(***************************************************************************)
EXTENDS Naturals, FiniteSets

CONSTANTS
  Count,       \* files in the manifest, visited in order
  Runs,        \* runs of prepare
  Workloads,   \* those of them that are prepare_workload("validation")
  PageOf       \* PageOf[f]: the dataset page that tells where file f is

Files == 1..Count

ASSUME AssetsAssumption == Count \in Nat \ {0} /\ Workloads \subseteq Runs

VARIABLES
  dest,       \* dest[f]: what is under the file's own name
  pinned,     \* the dataset server still has the pinned revision
  pc, at,     \* at[r]: the file run r is at
  pages,      \* pages[r]: the dataset pages run r has
  part,       \* part[r]: the temporary file of run r
  downloads,  \* downloads[r]: the files run r has started to download
  sound,      \* sound[r]: verify_assets has found nothing invalid
  found       \* found[r]: the files verified when run r began (history)

vars == <<dest, pinned, pc, at, pages, part, downloads, sound, found>>

Contents == {"absent", "bad", "good"}
Over == {"done", "failed", "refused", "killed"}

TypeOK ==
  /\ dest \in [Files -> Contents]
  /\ pinned \in BOOLEAN
  /\ pc \in [Runs -> {"new", "resolving", "checking", "downloading", "staged",
                      "verifying", "verifying again"} \cup Over]
  /\ at \in [Runs -> 1..(Count + 1)]
  /\ pages \in [Runs -> SUBSET {PageOf[f] : f \in Files}]
  /\ part \in [Runs -> Contents]
  /\ downloads \in [Runs -> SUBSET Files]
  /\ sound \in [Runs -> BOOLEAN]
  /\ found \in [Runs -> SUBSET Files]

Init ==
  /\ dest \in [Files -> Contents]
  /\ pinned = TRUE
  /\ pc = [r \in Runs |-> "new"]
  /\ at = [r \in Runs |-> 1]
  /\ pages = [r \in Runs |-> {}]
  /\ part = [r \in Runs |-> "absent"]
  /\ downloads = [r \in Runs |-> {}]
  /\ sound = [r \in Runs |-> TRUE]
  /\ found = [r \in Runs |-> {}]

\* _matches: the size and the digest are the pinned ones.
Matches(content) == content = "good"

\* The run goes to a stage, at a file.
Go(r, stage, f) == pc' = [pc EXCEPT ![r] = stage] /\ at' = [at EXCEPT ![r] = f]

Start(r) ==
  /\ pc[r] = "new"
  /\ Go(r, IF r \in Workloads THEN "resolving" ELSE "checking", 1)
  /\ found' = [found EXCEPT ![r] = {f \in Files : Matches(dest[f])}]
  /\ UNCHANGED <<dest, pinned, pages, part, downloads, sound>>

\* A missing file's page is fetched once, and refused at another revision.
Resolve(r) ==
  LET f == at[r] IN
  /\ pc[r] = "resolving" /\ f \in Files
  /\ ~Matches(dest[f]) => pinned \/ PageOf[f] \in pages[r]
  /\ pages' = [pages EXCEPT ![r] = IF Matches(dest[f]) THEN @ ELSE @ \cup {PageOf[f]}]
  /\ Go(r, "resolving", f + 1)
  /\ UNCHANGED <<dest, pinned, part, downloads, sound, found>>

\* MUTANT: the revision is looked at again while downloading.
RefuseLate(r) ==
  LET f == at[r] IN
  /\ pc[r] \in {"resolving", "downloading"} /\ f \in Files
  /\ ~Matches(dest[f]) /\ ~pinned
  /\ Go(r, "refused", f)
  /\ UNCHANGED <<dest, pinned, pages, part, downloads, sound, found>>

\* MUTANT: the page of every file is fetched, the verified ones' too.
RefuseVerified(r) ==
  LET f == at[r] IN
  /\ pc[r] = "resolving" /\ f \in Files
  /\ ~pinned /\ PageOf[f] \notin pages[r]
  /\ Go(r, "refused", f)
  /\ UNCHANGED <<dest, pinned, pages, part, downloads, sound, found>>

Refuse(r) ==
  LET f == at[r] IN
  /\ pc[r] = "resolving" /\ f \in Files
  /\ ~Matches(dest[f]) /\ ~pinned /\ PageOf[f] \notin pages[r]
  /\ Go(r, "refused", f)
  /\ UNCHANGED <<dest, pinned, pages, part, downloads, sound, found>>

\* The page cannot be read, or its row is not the pinned one.
ResolveRaises(r) ==
  /\ pc[r] = "resolving" /\ at[r] \in Files
  /\ ~Matches(dest[at[r]])
  /\ Go(r, "failed", at[r])
  /\ UNCHANGED <<dest, pinned, pages, part, downloads, sound, found>>

Resolved(r) ==
  /\ pc[r] = "resolving" /\ at[r] \notin Files
  /\ Go(r, "checking", 1)
  /\ UNCHANGED <<dest, pinned, pages, part, downloads, sound, found>>

Verified(r) ==
  /\ pc[r] = "checking" /\ at[r] \in Files
  /\ Matches(dest[at[r]])
  /\ Go(r, "checking", at[r] + 1)
  /\ UNCHANGED <<dest, pinned, pages, part, downloads, sound, found>>

\* A file that is missing or corrupt: a temporary file is created and filled.
Download(r) ==
  /\ pc[r] = "checking" /\ at[r] \in Files
  /\ ~Matches(dest[at[r]])
  /\ part' = [part EXCEPT ![r] = "bad"]
  /\ downloads' = [downloads EXCEPT ![r] = @ \cup {at[r]}]
  /\ Go(r, "downloading", at[r])
  /\ UNCHANGED <<dest, pinned, pages, sound, found>>

\* The response ends, as it should or short or altered.
Received(r, content) ==
  /\ pc[r] = "downloading"
  /\ part' = [part EXCEPT ![r] = content]
  /\ Go(r, "staged", at[r])
  /\ UNCHANGED <<dest, pinned, pages, downloads, sound, found>>

\* MUTANT: the temporary file is left for the next run.
DownloadRaisesLeavingPart(r) ==
  /\ pc[r] = "downloading"
  /\ Go(r, "failed", at[r])
  /\ UNCHANGED <<dest, pinned, pages, part, downloads, sound, found>>

\* It raises, goes on beyond the pinned size or is interrupted: the temporary
\* file goes.
DownloadRaises(r) ==
  /\ pc[r] \in {"downloading", "staged"}
  /\ part' = [part EXCEPT ![r] = "absent"]
  /\ Go(r, "failed", at[r])
  /\ UNCHANGED <<dest, pinned, pages, downloads, sound, found>>

\* MUTANT: whatever was received is moved into place.
PublishUnverified(r) ==
  /\ pc[r] = "staged"
  /\ dest' = [dest EXCEPT ![at[r]] = part[r]]
  /\ part' = [part EXCEPT ![r] = "absent"]
  /\ Go(r, "checking", at[r] + 1)
  /\ UNCHANGED <<pinned, pages, downloads, sound, found>>

Publish(r) ==
  /\ pc[r] = "staged"
  /\ Matches(part[r])
  /\ dest' = [dest EXCEPT ![at[r]] = part[r]]
  /\ part' = [part EXCEPT ![r] = "absent"]
  /\ Go(r, "checking", at[r] + 1)
  /\ UNCHANGED <<pinned, pages, downloads, sound, found>>

Reject(r) ==
  /\ pc[r] = "staged"
  /\ ~Matches(part[r])
  /\ part' = [part EXCEPT ![r] = "absent"]
  /\ Go(r, "failed", at[r])
  /\ UNCHANGED <<dest, pinned, pages, downloads, sound, found>>

Prepared(r) ==
  /\ pc[r] = "checking" /\ at[r] \notin Files
  /\ Go(r, "verifying", 1)
  /\ UNCHANGED <<dest, pinned, pages, part, downloads, sound, found>>

Verifying == {"verifying", "verifying again"}

\* verify_assets, file by file.
Verify(r) ==
  /\ pc[r] \in Verifying /\ at[r] \in Files
  /\ sound' = [sound EXCEPT ![r] = @ /\ Matches(dest[at[r]])]
  /\ Go(r, pc[r], at[r] + 1)
  /\ UNCHANGED <<dest, pinned, pages, part, downloads, found>>

\* prepare() verifies before it returns, prepare_workload once more.
VerifyAgain(r) ==
  /\ pc[r] = "verifying" /\ at[r] \notin Files
  /\ sound[r] /\ r \in Workloads
  /\ Go(r, "verifying again", 1)
  /\ UNCHANGED <<dest, pinned, pages, part, downloads, sound, found>>

Finish(r) ==
  /\ pc[r] \in Verifying /\ at[r] \notin Files
  /\ sound[r] /\ r \in Workloads => pc[r] = "verifying again"
  /\ Go(r, IF sound[r] THEN "done" ELSE "failed", at[r])
  /\ UNCHANGED <<dest, pinned, pages, part, downloads, sound, found>>

\* The process dies; nothing is cleaned up.
Kill(r) ==
  /\ pc[r] \notin Over \cup {"new"}
  /\ Go(r, "killed", at[r])
  /\ UNCHANGED <<dest, pinned, pages, part, downloads, sound, found>>

\* The dataset server moves to another revision.
RevisionChanges ==
  /\ pinned
  /\ pinned' = FALSE
  /\ UNCHANGED <<dest, pc, at, pages, part, downloads, sound, found>>

Step(r) ==
  \/ Start(r) \/ Resolve(r) \/ Refuse(r) \/ ResolveRaises(r) \/ Resolved(r)
  \/ Verified(r) \/ Download(r)
  \/ \E content \in {"bad", "good"} : Received(r, content)
  \/ DownloadRaises(r) \/ Publish(r) \/ Reject(r)
  \/ Prepared(r) \/ Verify(r) \/ VerifyAgain(r) \/ Finish(r)

Next == RevisionChanges \/ \E r \in Runs : Step(r) \/ Kill(r)

Spec == Init /\ [][Next]_vars

\* A run that is not killed goes on (urlopen has a timeout).
FairSpec == Spec /\ \A r \in Runs : WF_vars(Step(r))
-----------------------------------------------------------------------------
\* "publishing only complete verified assets" (assets.py 47): a run that says
\* "verified" leaves a directory where every file is, though it looked at them one
\* by one while other runs were replacing some.
DoneMeansVerified == \A r \in Runs : pc[r] = "done" => \A f \in Files : dest[f] = "good"

\* Only a killed run leaves its temporary file behind.
NoLitter == \A r \in Runs : pc[r] \in Over \ {"killed"} => part[r] = "absent"

\* "refusing to replace the pinned workload" (workload.py 38): a run that meets
\* another revision has not downloaded anything yet, not even the files it
\* resolved before the revision changed.
RefusalComesFirst == \A r \in Runs : pc[r] = "refused" => downloads[r] = {}

\* "Transfer missing/corrupt files" (assets.py 47): a run uses what earlier ones
\* have verified.  A file that was verified when it began costs it no page and no
\* download, and is not what it fails or is refused for, whatever the runs beside
\* it do to the directory meanwhile.
OnlyTheRestIsFetched ==
  \A r \in Runs :
    LET rest == Files \ found[r] IN
    /\ downloads[r] \subseteq rest
    /\ pages[r] \subseteq {PageOf[f] : f \in rest}
    /\ pc[r] \in {"failed", "refused"} => at[r] \in rest

\* How runs may come out, whatever they met.
PreparationInv ==
  TypeOK /\ DoneMeansVerified /\ NoLitter /\ RefusalComesFirst /\ OnlyTheRestIsFetched

\* Over a directory where every file is verified a run needs neither the network
\* nor luck: whatever earlier runs left behind, it ends with "done" unless it is
\* killed.
RetrySettles ==
  \A r \in Runs :
    (\A f \in Files : dest[f] = "good") /\ pc[r] = "new" ~> pc[r] \in {"done", "killed"}
=============================================================================
