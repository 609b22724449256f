--------------------------- MODULE ComposedStack ---------------------------
(***************************************************************************)
(* The composed legacy harness: src/run-local-stack.ps1 checks its pins,   *)
(* clones Shinigami and UTXORef into the output directory, and for each    *)
(* case runs the Bark emitter and src/bitvm-assertion.js, judges the       *)
(* report and, after a last look at Bark, writes the summary.              *)
(*                                                                         *)
(* A run is a straight line of steps over files that it does not own.      *)
(* Meanwhile somebody edits those files, undoes an edit or copies one      *)
(* receipt over another, and a second run is started with the same         *)
(* -OutputDir.                                                             *)
(*                                                                         *)
(* Abstractions: a file holds its pinned content or another; a hash        *)
(* compares contents; a step that compares several files, each of them     *)
(* once, does so at one moment; what a program does with unpinned content  *)
(* is either to fail or to go on.  The verifiers, Scarb and UTXORef are    *)
(* external and accept what is pinned.                                     *)
(*                                                                         *)
(* The emitter is built from the checkout the runner is in, and the one of *)
(* this commit writes receipts of schema v3, which the assertion builder   *)
(* does not read: no run of it gets past its first case.  What the harness *)
(* would promise with an emitter for the schema it was written for is the  *)
(* subject of the safety properties, and EmitterSchemas chooses.           *)
(***************************************************************************)
EXTENDS Naturals, FiniteSets, SequencesExt

CONSTANTS
  Runs,              \* runs started with one output directory
  MaxEdits,          \* bound: edits made by others
  EmitterSchemas     \* what the emitter of the checkout may write

ASSUME RunsAssumption == "nobody" \notin Runs

ASSUME EmitterAssumption == EmitterSchemas \subseteq {"v2", "v3"}

Cases == <<"owner_exit_allow", "owner_exit_challenge", "virtual_cet_guard">>
CaseIds == Range(Cases)

(* $Cases of the runner. *)
ProofFile == [c \in CaseIds |-> IF c = "virtual_cet_guard" THEN "cet_proof" ELSE "owner_proof"]
ExpectedAuthorization == [c \in CaseIds |-> c # "owner_exit_challenge"]

(* CASES of bitvm-assertion.js, whose proof files are the runner's. *)
ExpectClaimMatch == [c \in CaseIds |-> c # "owner_exit_challenge"]

Clones == {"shinigami", "utxoref"}
Pinned == {"scarb", "verifier", "executable", "owner_proof", "cet_proof"}
Files == {"bark"} \cup Pinned \cup Clones

VARIABLES
  schema,            \* of the receipts that the emitter of the checkout writes
  unpinned,          \* files that hold another content
  made,              \* clones that exist in the output directory
  restored,          \* files that were edited and put back
  edits,             \* edits made so far
  disk,              \* the receipt and the report of each case on disk
  run                \* each run: [pc, held, stale, summary]

vars == <<schema, unpinned, made, restored, edits, disk, run>>

-----------------------------------------------------------------------------
(* The steps of a run *)

Step(op, files, case) == [op |-> op, files |-> files, case |-> case]

Prologue ==
  <<Step("check", {"bark"}, "none"), Step("check", Pinned, "none"),
    Step("clone", {"shinigami"}, "none"), Step("use", {"scarb", "shinigami"}, "none"),
    Step("clone", {"utxoref"}, "none")>>

(* Mutant of StwoSteps: the pins checked at the start are relied on. *)
StwoStepsUnchecked(c) ==
  <<Step("use", {ProofFile[c], "executable"}, c),
    Step("use", {ProofFile[c], "verifier"}, c)>>

(* What follows the checks of the receipt in bitvm-assertion.js. *)
StwoSteps(c) ==
  <<Step("check", {ProofFile[c], "verifier", "executable"}, c),
    Step("use", {ProofFile[c], "executable"}, c),
    Step("use", {ProofFile[c], "verifier"}, c)>>

ShinigamiSteps(c) ==
  <<Step("check", {"shinigami", "scarb"}, c), Step("use", {"shinigami", "scarb"}, c)>>

UtxoRefSteps(c) ==
  <<Step("check", {"utxoref"}, c), Step("use", {"utxoref"}, c)>>

CaseSteps(c) ==
  <<Step("emit", {"bark"}, c), Step("read", {}, c)>>
    \o StwoSteps(c) \o ShinigamiSteps(c) \o UtxoRefSteps(c)
    \o <<Step("report", {}, c), Step("judge", {}, c)>>

(* Mutant of Epilogue: Bark is not looked at again. *)
EpilogueUnchecked == <<Step("summarize", {}, "none")>>

Epilogue == <<Step("check", {"bark"}, "none"), Step("summarize", {}, "none")>>

Program ==
  Prologue \o CaseSteps(Cases[1]) \o CaseSteps(Cases[2]) \o CaseSteps(Cases[3])
    \o Epilogue

Stopped == 0
Done == Len(Program) + 1

-----------------------------------------------------------------------------
(* One step *)

At(r, op) ==
  run[r].pc \in DOMAIN Program /\ Program[run[r].pc].op = op

Now(r) == Program[run[r].pc]

Goto(r, state) == run' = [run EXCEPT ![r] = state]

Continue(r) == Goto(r, [run[r] EXCEPT !.pc = @ + 1])

Stop(r) == Goto(r, [run[r] EXCEPT !.pc = Stopped])

Proceed(r, ok) == IF ok THEN Continue(r) ELSE Stop(r)

Check(r) ==
  /\ At(r, "check")
  /\ Proceed(r, Now(r).files \cap unpinned = {})
  /\ UNCHANGED <<schema, unpinned, made, restored, edits, disk>>

(* Mutant of MayClone: the Shinigami clone gets a new name too. *)
MayCloneAgain(clones) == TRUE

(* git clone refuses a directory that exists; the name of the UTXORef      *)
(* clone is new in every run.                                              *)
MayClone(clones) == clones \cap made \subseteq {"utxoref"}

Clone(r) ==
  /\ At(r, "clone")
  /\ LET clones == Now(r).files IN
     \/ /\ MayClone(clones)
        /\ made' = made \cup clones
        /\ Continue(r)
     \/ ~MayClone(clones) /\ Stop(r) /\ UNCHANGED made
  /\ UNCHANGED <<schema, unpinned, restored, edits, disk>>

StaleUses(r) == {<<f, Now(r).case>> : f \in Now(r).files \cap unpinned}

Used(r) == [run[r] EXCEPT !.pc = @ + 1, !.stale = @ \cup StaleUses(r)]

Use(r) ==
  /\ At(r, "use")
  /\ \/ Goto(r, Used(r))
     \/ StaleUses(r) # {} /\ Stop(r)
  /\ UNCHANGED <<schema, unpinned, made, restored, edits, disk>>

NoFile == [by |-> "nobody"]

Bytes(case, claim) == [case |-> case, schema |-> schema, claim |-> claim]

(* build_receipt writes no claim into a receipt of schema v3; into one of  *)
(* schema v2 an emitter puts the pinned claim, unless Bark has moved.      *)
Claims(r) ==
  CASE schema = "v3" -> {"absent"}
    [] schema = "v2" -> {"pinned"} \cup {"other" : use \in StaleUses(r)}

(* The emitter, built from Bark as it is, writes the receipt of the case.  *)
Emit(r) ==
  /\ At(r, "emit")
  /\ \/ /\ \E claim \in Claims(r) :
             disk' = [disk EXCEPT ![Now(r).case].receipt =
                        [bytes |-> Bytes(Now(r).case, claim), by |-> r]]
        /\ Goto(r, Used(r))
     \/ StaleUses(r) # {} /\ Stop(r) /\ UNCHANGED disk
  /\ UNCHANGED <<schema, unpinned, made, restored, edits>>

(* main, verifyReceipt and the name of the proof: what a receipt has to    *)
(* be for the process given one case's files.                              *)
VerifyReceipt(receipt, c) ==
  /\ receipt.schema = "v2"
  /\ receipt.claim = "pinned"
  /\ ProofFile[receipt.case] = ProofFile[c]

(* The receipt file is read once; these bytes are hashed and judged. *)
Read(r) ==
  /\ At(r, "read")
  /\ LET c == Now(r).case
         bytes == disk[c].receipt.bytes IN
     \/ /\ VerifyReceipt(bytes, c)
        /\ Goto(r, [run[r] EXCEPT !.pc = @ + 1, !.held = bytes])
     \/ ~VerifyReceipt(bytes, c) /\ Stop(r)
  /\ UNCHANGED <<schema, unpinned, made, restored, edits, disk>>

(* Mutant of BuildReport: the claim's own match is left out. *)
BuildReportAlways(receipt, r) ==
  [receipt |-> receipt, authorization |-> TRUE, disproved |-> FALSE, by |-> r]

(* buildBitvmReport: every other check has passed. *)
BuildReport(receipt, r) ==
  LET authorization == ExpectClaimMatch[receipt.case] IN
  [receipt |-> receipt, authorization |-> authorization,
   disproved |-> ~authorization, by |-> r]

Report(r) ==
  /\ At(r, "report")
  /\ disk' = [disk EXCEPT ![Now(r).case].report = BuildReport(run[r].held, r)]
  /\ Continue(r)
  /\ UNCHANGED <<schema, unpinned, made, restored, edits>>

(* Mutant of ReportAccepted: only the receipt's hash is compared. *)
ReportBindsBytes(report, bytes, c) == report.receipt = bytes

ReportAccepted(report, bytes, c) ==
  /\ report.receipt = bytes
  /\ report.authorization = ExpectedAuthorization[c]
  /\ report.disproved = ~ExpectedAuthorization[c]

(* Reading a report or hashing a receipt that is missing ends the run. *)
Judge(r) ==
  /\ At(r, "judge")
  /\ LET c == Now(r).case
         entry == [case |-> c, receipt |-> disk[c].receipt, report |-> disk[c].report]
         accepted == /\ NoFile \notin {disk[c].receipt, disk[c].report}
                     /\ ReportAccepted(disk[c].report, disk[c].receipt.bytes, c) IN
     \/ /\ accepted
        /\ Goto(r, [run[r] EXCEPT !.pc = @ + 1, !.summary = @ \cup {entry}])
     \/ ~accepted /\ Stop(r)
  /\ UNCHANGED <<schema, unpinned, made, restored, edits, disk>>

Summarize(r) ==
  /\ At(r, "summarize")
  /\ Continue(r)
  /\ UNCHANGED <<schema, unpinned, made, restored, edits, disk>>

RunStep(r) ==
  \/ Check(r) \/ Clone(r) \/ Use(r) \/ Emit(r)
  \/ Read(r) \/ Report(r) \/ Judge(r) \/ Summarize(r)

-----------------------------------------------------------------------------
(* Everybody else *)

Edit(f) ==
  /\ edits < MaxEdits
  /\ f \in Clones => f \in made
  /\ edits' = edits + 1
  /\ IF f \in unpinned
     THEN unpinned' = unpinned \ {f} /\ restored' = restored \cup {f}
     ELSE unpinned' = unpinned \cup {f} /\ UNCHANGED restored
  /\ UNCHANGED <<schema, made, disk, run>>

(* The receipt of a case, overwritten by a copy of another's. *)
CopyReceipt(from, to) ==
  /\ edits < MaxEdits
  /\ disk[from].receipt # disk[to].receipt
  /\ disk[from].receipt.by # "nobody" /\ disk[to].receipt.by # "nobody"
  /\ edits' = edits + 1
  /\ disk' = [disk EXCEPT ![to].receipt = disk[from].receipt]
  /\ UNCHANGED <<schema, unpinned, made, restored, run>>

Init ==
  /\ schema \in EmitterSchemas
  /\ unpinned = {}
  /\ made = {}
  /\ restored = {}
  /\ edits = 0
  /\ disk = [c \in CaseIds |-> [receipt |-> NoFile, report |-> NoFile]]
  /\ run = [r \in Runs |-> [pc |-> 1, held |-> << >>, stale |-> {}, summary |-> {}]]

Next ==
  \/ \E r \in Runs : RunStep(r)
  \/ \E f \in Files : Edit(f)
  \/ \E from, to \in CaseIds : CopyReceipt(from, to)

(* A started run goes on until it stops or is done. *)
Spec == Init /\ [][Next]_vars /\ \A r \in Runs : WF_vars(RunStep(r))

-----------------------------------------------------------------------------
(* Properties *)

(* A run that completes has not used moved Bark sources, unless they were  *)
(* put back before the last look (run-local-stack.ps1, the check after the *)
(* emitters).                                                              *)
BarkMovementDetected ==
  \A r \in Runs :
    run[r].pc = Done /\ "bark" \notin restored =>
      \A use \in run[r].stale : use[1] # "bark"

(* A file that was replaced and not put back is used by at most one case:  *)
(* every case hashes or diffs what it uses before it uses it, although     *)
(* never at the same time (verifyStwoStatement, verifyShinigami, loadApis).*)
StaleUseIsLast ==
  \A r \in Runs :
    \A u, v \in run[r].stale :
      u[1] = v[1] /\ u[1] \notin restored \cup {"bark"} => u[2] = v[2]

(* What the summary says of a case was judged on the v2 receipt of that    *)
(* case with its pinned claim, even if receipt files get mixed up: the     *)
(* runner never compares case ids, the proof's name and the authorization  *)
(* expected of the case tell the three apart.                              *)
SummaryNamesItsCase ==
  \A r \in Runs :
    \A e \in run[r].summary :
      e.report.receipt = [case |-> e.case, schema |-> "v2", claim |-> "pinned"]

(* Receipts and reports a run lists are its own, whoever else was started  *)
(* on its output directory: of several runs, one gets past the clone of    *)
(* Shinigami, whose name is fixed.                                         *)
SummaryIsOneRun ==
  \A r \in Runs :
    \A e \in run[r].summary : e.receipt.by = r /\ e.report.by = r

(* Left alone, one of the runs gets to where all three demos have passed   *)
(* (run-local-stack.ps1, its last line).  It does with an emitter that     *)
(* writes the schema verifyReceipt asks for; the one of this commit        *)
(* (build_receipt) writes another.                                         *)
OneRunCompletes == <>(edits > 0 \/ \E r \in Runs : run[r].pc = Done)
=============================================================================
