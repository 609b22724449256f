------------------------ MODULE ComposedStackProofs ------------------------
(***************************************************************************)
(* The clone of Shinigami, whose name is fixed, is a lock on the output    *)
(* directory: for any number of runs started on it and any number of edits *)
(* made meanwhile, the summary of a run lists its own files.  And its      *)
(* entry for a case was judged on a receipt of that case: the proof file   *)
(* and the expected authorization tell the cases apart.                    *)
(***************************************************************************)
EXTENDS ComposedStack, SequenceTheorems, TLAPS

-----------------------------------------------------------------------------
(* The program: which steps are for a case, and what precedes them. *)

Ops == {"check", "clone", "use", "emit", "read", "report", "judge", "summarize"}

(* Steps that touch a receipt or a report are for a case. *)
StepSet ==
  {s \in [op : Ops, files : SUBSET Files, case : CaseIds \cup {"none"}] :
     s.op \in {"emit", "read", "report", "judge"} => s.case \in CaseIds}

(* What follows the reading of a case's receipt. *)
CaseStepSet(c) == {s \in StepSet : s.case = c /\ s.op \notin {"emit", "read"}}

(* A step for a case comes after another for the same case, unless it is   *)
(* the emission; a receipt is read just after it was emitted.              *)
WellPlaced(s) ==
  \A i \in 1..Len(s) :
    (s[i].case \in CaseIds /\ s[i].op # "emit") =>
      /\ i > 1
      /\ s[i - 1].case = s[i].case
      /\ s[i - 1].op = "emit" <=> s[i].op = "read"

(* A sequence that ends in the middle of a case. *)
Open(s, c) ==
  /\ WellPlaced(s)
  /\ Len(s) > 0
  /\ s[Len(s)].case = c
  /\ s[Len(s)].op # "emit"

LEMMA StepType ==
  ASSUME NEW op \in Ops, NEW files \in SUBSET Files,
         NEW case \in CaseIds \cup {"none"},
         op \in {"emit", "read", "report", "judge"} => case \in CaseIds
  PROVE  /\ Step(op, files, case) \in StepSet
         /\ op \notin {"emit", "read"} => Step(op, files, case) \in CaseStepSet(case)
BY DEF Step, StepSet, CaseStepSet

LEMMA OpenExtend ==
  ASSUME NEW c \in CaseIds, NEW s \in Seq(StepSet), Open(s, c),
         NEW t \in Seq(CaseStepSet(c))
  PROVE  s \o t \in Seq(StepSet) /\ Open(s \o t, c)
<1>1. t \in Seq(StepSet) /\ \A i \in 1..Len(t) : t[i] \in CaseStepSet(c)
  BY DEF CaseStepSet
<1>2. /\ s \o t \in Seq(StepSet) /\ Len(s \o t) = Len(s) + Len(t)
      /\ \A i \in 1..Len(s) + Len(t) :
           (s \o t)[i] = IF i <= Len(s) THEN s[i] ELSE t[i - Len(s)]
  BY <1>1, ConcatProperties
<1>3. Len(s) \in Nat /\ Len(t) \in Nat /\ Len(s) > 0
  BY <1>1 DEF Open
<1>4. \A i \in 1..Len(t) : t[i].case = c /\ t[i].op \notin {"emit", "read"}
  BY <1>1 DEF CaseStepSet
<1>5. \A i \in Len(s)..(Len(s) + Len(t)) :
        (s \o t)[i].case = c /\ (s \o t)[i].op # "emit"
  <2> TAKE i \in Len(s)..(Len(s) + Len(t))
  <2>1. CASE i = Len(s)
    BY <1>2, <1>3, <2>1 DEF Open
  <2>2. CASE i > Len(s)
    <3>1. i - Len(s) \in 1..Len(t) /\ (s \o t)[i] = t[i - Len(s)]
      BY <1>2, <1>3, <2>2
    <3> QED
      BY <1>4, <3>1
  <2> QED
    BY <1>3, <2>1, <2>2
<1>6. WellPlaced(s \o t)
  <2> SUFFICES ASSUME NEW i \in 1..Len(s) + Len(t),
                      (s \o t)[i].case \in CaseIds, (s \o t)[i].op # "emit"
               PROVE  /\ i > 1
                      /\ (s \o t)[i - 1].case = (s \o t)[i].case
                      /\ (s \o t)[i - 1].op = "emit" <=> (s \o t)[i].op = "read"
    BY <1>2 DEF WellPlaced
  <2>1. CASE i <= Len(s)
    <3>1. i \in 1..Len(s) /\ (s \o t)[i] = s[i]
      BY <1>2, <1>3, <2>1
    <3>2. i > 1 /\ s[i - 1].case = s[i].case /\ (s[i - 1].op = "emit" <=> s[i].op = "read")
      BY <3>1 DEF Open, WellPlaced
    <3>3. (s \o t)[i - 1] = s[i - 1]
      BY <1>2, <1>3, <2>1, <3>2
    <3> QED
      BY <3>1, <3>2, <3>3
  <2>2. CASE i > Len(s)
    <3>1. i - 1 \in Len(s)..(Len(s) + Len(t)) /\ i \in Len(s)..(Len(s) + Len(t))
      BY <1>3, <2>2
    <3>2. i - Len(s) \in 1..Len(t) /\ (s \o t)[i] = t[i - Len(s)]
      BY <1>2, <1>3, <2>2
    <3>3. (s \o t)[i].op # "read"
      BY <1>4, <3>2
    <3>4. /\ (s \o t)[i].case = c
          /\ (s \o t)[i - 1].case = c /\ (s \o t)[i - 1].op # "emit"
      BY <1>5, <3>1
    <3>5. i > 1
      BY <1>3, <2>2
    <3> QED
      BY <3>3, <3>4, <3>5
  <2> QED
    BY <1>3, <2>1, <2>2
<1> QED
  BY <1>2, <1>3, <1>5, <1>6 DEF Open

(* How a case starts and ends. *)
CaseStart(c) == <<Step("emit", {"bark"}, c), Step("read", {}, c)>>
CaseEnd(c) == <<Step("report", {}, c), Step("judge", {}, c)>>

LEMMA CaseBlocksType ==
  ASSUME NEW c \in CaseIds
  PROVE  /\ CaseStart(c) \in Seq(StepSet) /\ Open(CaseStart(c), c)
         /\ StwoSteps(c) \in Seq(CaseStepSet(c))
         /\ ShinigamiSteps(c) \in Seq(CaseStepSet(c))
         /\ UtxoRefSteps(c) \in Seq(CaseStepSet(c))
         /\ CaseEnd(c) \in Seq(CaseStepSet(c))
<1>1. {ProofFile[c], "verifier", "executable"} \subseteq Files
  BY DEF ProofFile, Files, Pinned
<1>2. {"bark", "scarb"} \cup Clones \subseteq Files
  BY DEF Files, Pinned
<1> HIDE DEF Files
<1> DEFINE start == CaseStart(c)
           end == CaseEnd(c)
<1>3. start \in Seq(StepSet) /\ Open(start, c)
  <2>1. Step("emit", {"bark"}, c) \in StepSet
    BY <1>1, <1>2, StepType DEF Ops
  <2>2. Step("read", {}, c) \in StepSet
    BY <1>1, <1>2, StepType DEF Ops
  <2>3. /\ Len(start) = 2
        /\ start[1].op = "emit" /\ start[1].case = c
        /\ start[2].op = "read" /\ start[2].case = c
    BY DEF CaseStart, Step
  <2>4. start \in Seq(StepSet)
    BY <2>1, <2>2 DEF CaseStart
  <2> HIDE DEF start
  <2>5. WellPlaced(start)
    BY <2>3 DEF WellPlaced
  <2> QED
    BY <2>3, <2>4, <2>5 DEF Open
<1>4. StwoSteps(c) \in Seq(CaseStepSet(c))
  <2>1. Step("check", {ProofFile[c], "verifier", "executable"}, c) \in CaseStepSet(c)
    BY <1>1, StepType DEF Ops
  <2>2. Step("use", {ProofFile[c], "executable"}, c) \in CaseStepSet(c)
    BY <1>1, StepType DEF Ops
  <2>3. Step("use", {ProofFile[c], "verifier"}, c) \in CaseStepSet(c)
    BY <1>1, StepType DEF Ops
  <2> QED
    BY <2>1, <2>2, <2>3 DEF StwoSteps
<1>5. ShinigamiSteps(c) \in Seq(CaseStepSet(c))
  <2>1. {"shinigami", "scarb"} \in SUBSET Files
    BY <1>2 DEF Clones
  <2>2. Step("check", {"shinigami", "scarb"}, c) \in CaseStepSet(c)
    BY <1>1, <2>1, StepType DEF Ops
  <2>3. Step("use", {"shinigami", "scarb"}, c) \in CaseStepSet(c)
    BY <1>1, <2>1, StepType DEF Ops
  <2> QED
    BY <2>2, <2>3 DEF ShinigamiSteps
<1>6. UtxoRefSteps(c) \in Seq(CaseStepSet(c))
  <2>1. {"utxoref"} \in SUBSET Files
    BY <1>2 DEF Clones
  <2>2. Step("check", {"utxoref"}, c) \in CaseStepSet(c)
    BY <1>1, <2>1, StepType DEF Ops
  <2>3. Step("use", {"utxoref"}, c) \in CaseStepSet(c)
    BY <1>1, <2>1, StepType DEF Ops
  <2> QED
    BY <2>2, <2>3 DEF UtxoRefSteps
<1>7. end \in Seq(CaseStepSet(c))
  <2>1. Step("report", {}, c) \in CaseStepSet(c)
    BY <1>1, StepType DEF Ops
  <2>2. Step("judge", {}, c) \in CaseStepSet(c)
    BY <1>1, StepType DEF Ops
  <2> QED
    BY <2>1, <2>2 DEF CaseEnd
<1> QED
  BY <1>3, <1>4, <1>5, <1>6, <1>7

LEMMA CaseStepsType ==
  ASSUME NEW c \in CaseIds
  PROVE  CaseSteps(c) \in Seq(StepSet) /\ WellPlaced(CaseSteps(c))
<1> DEFINE start == CaseStart(c)
           end == CaseEnd(c)
<1>1. CaseSteps(c) = start \o StwoSteps(c) \o ShinigamiSteps(c) \o UtxoRefSteps(c) \o end
  BY DEF CaseSteps, CaseStart, CaseEnd
<1>2. /\ start \o StwoSteps(c) \in Seq(StepSet)
      /\ Open(start \o StwoSteps(c), c)
  BY CaseBlocksType, OpenExtend
<1>3. /\ start \o StwoSteps(c) \o ShinigamiSteps(c) \in Seq(StepSet)
      /\ Open(start \o StwoSteps(c) \o ShinigamiSteps(c), c)
  BY CaseBlocksType, <1>2, OpenExtend
<1>4. /\ start \o StwoSteps(c) \o ShinigamiSteps(c) \o UtxoRefSteps(c) \in Seq(StepSet)
      /\ Open(start \o StwoSteps(c) \o ShinigamiSteps(c) \o UtxoRefSteps(c), c)
  BY CaseBlocksType, <1>3, OpenExtend
<1>5. CaseSteps(c) \in Seq(StepSet) /\ Open(CaseSteps(c), c)
  BY CaseBlocksType, <1>1, <1>4, OpenExtend
<1> QED
  BY <1>5 DEF Open

LEMMA WellPlacedConcat ==
  ASSUME NEW s \in Seq(StepSet), NEW t \in Seq(StepSet),
         WellPlaced(s), WellPlaced(t)
  PROVE  WellPlaced(s \o t)
<1>1. /\ Len(s \o t) = Len(s) + Len(t)
      /\ \A i \in 1..Len(s) + Len(t) :
           (s \o t)[i] = IF i <= Len(s) THEN s[i] ELSE t[i - Len(s)]
  BY ConcatProperties
<1>2. Len(s) \in Nat /\ Len(t) \in Nat
  OBVIOUS
<1> SUFFICES ASSUME NEW i \in 1..Len(s) + Len(t),
                    (s \o t)[i].case \in CaseIds, (s \o t)[i].op # "emit"
             PROVE  /\ i > 1
                    /\ (s \o t)[i - 1].case = (s \o t)[i].case
                    /\ (s \o t)[i - 1].op = "emit" <=> (s \o t)[i].op = "read"
  BY <1>1 DEF WellPlaced
<1>3. CASE i <= Len(s)
  <2>1. i \in 1..Len(s) /\ (s \o t)[i] = s[i]
    BY <1>1, <1>2, <1>3
  <2>2. i > 1 /\ s[i - 1].case = s[i].case /\ (s[i - 1].op = "emit" <=> s[i].op = "read")
    BY <2>1 DEF WellPlaced
  <2>3. (s \o t)[i - 1] = s[i - 1]
    BY <1>1, <1>2, <1>3, <2>2
  <2> QED
    BY <2>1, <2>2, <2>3
<1>4. CASE i > Len(s)
  <2> DEFINE k == i - Len(s)
  <2>1. k \in 1..Len(t) /\ (s \o t)[i] = t[k]
    BY <1>1, <1>2, <1>4
  <2>2. k > 1 /\ t[k - 1].case = t[k].case /\ (t[k - 1].op = "emit" <=> t[k].op = "read")
    BY <2>1 DEF WellPlaced
  <2>3. (s \o t)[i - 1] = t[k - 1] /\ i > 1
    <3>1. i - 1 \in 1..Len(s) + Len(t) /\ ~(i - 1 <= Len(s)) /\ i - 1 - Len(s) = k - 1
      BY <1>2, <1>4, <2>2
    <3> QED
      BY <1>1, <1>2, <1>4, <3>1
  <2> QED
    BY <2>1, <2>2, <2>3
<1> QED
  BY <1>2, <1>3, <1>4

LEMMA ProgramEndsType ==
  /\ Prologue \in Seq(StepSet) /\ Len(Prologue) = 5 /\ WellPlaced(Prologue)
  /\ Epilogue \in Seq(StepSet) /\ WellPlaced(Epilogue)
<1>1. Prologue \in Seq(StepSet) /\ Len(Prologue) = 5 /\ WellPlaced(Prologue)
  <2>1. /\ {"bark"} \in SUBSET Files
        /\ Pinned \in SUBSET Files
        /\ {"shinigami"} \in SUBSET Files
        /\ {"scarb", "shinigami"} \in SUBSET Files
        /\ {"utxoref"} \in SUBSET Files
    BY DEF Files, Pinned, Clones
  <2>2. Step("check", {"bark"}, "none") \in StepSet
    BY <2>1, StepType DEF Ops
  <2>3. Step("check", Pinned, "none") \in StepSet
    BY <2>1, StepType DEF Ops
  <2>4. Step("clone", {"shinigami"}, "none") \in StepSet
    BY <2>1, StepType DEF Ops
  <2>5. Step("use", {"scarb", "shinigami"}, "none") \in StepSet
    BY <2>1, StepType DEF Ops
  <2>6. Step("clone", {"utxoref"}, "none") \in StepSet
    BY <2>1, StepType DEF Ops
  <2>7. "none" \notin CaseIds
    BY DEF CaseIds, Range, Cases
  <2>8. \A i \in 1..5 : Prologue[i].case = "none"
    BY DEF Prologue, Step
  <2>9. Prologue \in Seq(StepSet) /\ Len(Prologue) = 5
    BY <2>2, <2>3, <2>4, <2>5, <2>6 DEF Prologue
  <2> QED
    BY <2>7, <2>8, <2>9 DEF WellPlaced
<1>2. Epilogue \in Seq(StepSet) /\ WellPlaced(Epilogue)
  <2>1. Step("check", {"bark"}, "none") \in StepSet
    BY StepType DEF Ops, Files
  <2>2. Step("summarize", {}, "none") \in StepSet
    BY StepType DEF Ops
  <2>3. "none" \notin CaseIds
    BY DEF CaseIds, Range, Cases
  <2>4. Epilogue \in Seq(StepSet) /\ Len(Epilogue) = 2
    BY <2>1, <2>2 DEF Epilogue
  <2>5. \A i \in 1..2 : Epilogue[i].case = "none"
    BY DEF Epilogue, Step
  <2> QED
    BY <2>3, <2>4, <2>5 DEF WellPlaced
<1> QED
  BY <1>1, <1>2

LEMMA ProgramStart ==
  /\ DOMAIN Program \subseteq Nat \ {0}
  /\ DOMAIN Program = 1..Len(Program)
  /\ Len(Program) \in Nat /\ Len(Program) >= 5
  /\ \A i \in DOMAIN Program : Program[i] \in StepSet
  /\ WellPlaced(Program)
  /\ Program[1].op = "check" /\ Program[2].op = "check"
  /\ Program[3].op = "clone" /\ Program[3].files = {"shinigami"}
<1>1. Prologue \in Seq(StepSet) /\ Len(Prologue) = 5 /\ WellPlaced(Prologue)
  BY ProgramEndsType
<1>2. \A i \in 1..3 : Cases[i] \in CaseIds
  BY DEF CaseIds, Range, Cases
<1> DEFINE A == CaseSteps(Cases[1])
           B == CaseSteps(Cases[2])
           C == CaseSteps(Cases[3])
<1>3. /\ A \in Seq(StepSet) /\ B \in Seq(StepSet) /\ C \in Seq(StepSet)
      /\ WellPlaced(A) /\ WellPlaced(B) /\ WellPlaced(C)
  BY <1>2, CaseStepsType
<1>4. Epilogue \in Seq(StepSet) /\ WellPlaced(Epilogue)
  BY ProgramEndsType
<1>5. Program = Prologue \o A \o B \o C \o Epilogue
  BY DEF Program
<1> HIDE DEF A, B, C
<1>6. ASSUME NEW s \in Seq(StepSet), NEW t \in Seq(StepSet), Len(s) >= 5,
             WellPlaced(s), WellPlaced(t)
      PROVE  /\ s \o t \in Seq(StepSet)
             /\ WellPlaced(s \o t)
             /\ Len(s \o t) >= 5
             /\ \A i \in 1..5 : (s \o t)[i] = s[i]
  <2>1. /\ s \o t \in Seq(StepSet) /\ Len(s \o t) = Len(s) + Len(t)
        /\ \A i \in 1..Len(s) + Len(t) :
             (s \o t)[i] = IF i <= Len(s) THEN s[i] ELSE t[i - Len(s)]
    BY ConcatProperties
  <2>2. Len(s) \in Nat /\ Len(t) \in Nat
    OBVIOUS
  <2>3. WellPlaced(s \o t)
    BY <1>6, WellPlacedConcat
  <2> QED
    BY <1>6, <2>1, <2>2, <2>3
<1>7. /\ Prologue \o A \in Seq(StepSet) /\ WellPlaced(Prologue \o A)
      /\ Len(Prologue \o A) >= 5
      /\ \A i \in 1..5 : (Prologue \o A)[i] = Prologue[i]
  <2>1. Len(Prologue) >= 5
    BY <1>1
  <2> QED
    BY <1>1, <1>3, <1>6, <2>1
<1>8. /\ Prologue \o A \o B \in Seq(StepSet) /\ WellPlaced(Prologue \o A \o B)
      /\ Len(Prologue \o A \o B) >= 5
      /\ \A i \in 1..5 : (Prologue \o A \o B)[i] = Prologue[i]
  BY <1>3, <1>6, <1>7, ZenonT(40)
<1>9. /\ Prologue \o A \o B \o C \in Seq(StepSet)
      /\ WellPlaced(Prologue \o A \o B \o C)
      /\ Len(Prologue \o A \o B \o C) >= 5
      /\ \A i \in 1..5 : (Prologue \o A \o B \o C)[i] = Prologue[i]
  BY <1>3, <1>6, <1>8, ZenonT(40)
<1>10. /\ Program \in Seq(StepSet) /\ WellPlaced(Program)
       /\ Len(Program) >= 5
       /\ \A i \in 1..5 : Program[i] = Prologue[i]
  BY <1>4, <1>5, <1>6, <1>9
<1>11. /\ DOMAIN Program \subseteq Nat \ {0}
       /\ DOMAIN Program = 1..Len(Program)
       /\ Len(Program) \in Nat
       /\ \A i \in DOMAIN Program : Program[i] \in StepSet
  BY <1>10
<1> QED
  BY <1>10, <1>11 DEF Prologue, Step

-----------------------------------------------------------------------------
(* The inductive invariant: a run that got past the clone is the only one  *)
(* that ever will, and every file in the output directory is its own.      *)

Past(r) == run[r].pc > 3

RunShape ==
  /\ run = [r \in Runs |-> run[r]]
  /\ \A r \in Runs :
       /\ run[r].pc \in Nat
       /\ run[r] = [pc |-> run[r].pc, held |-> run[r].held,
                    stale |-> run[r].stale, summary |-> run[r].summary]

DiskShape ==
  disk = [c \in CaseIds |->
            [receipt |-> disk[c].receipt, report |-> disk[c].report]]

(* A file in the output directory is missing or was written by the run. *)
Owned(r, file) == file = NoFile \/ file.by = r

OwnsDisk(r) ==
  \A c \in CaseIds : Owned(r, disk[c].receipt) /\ Owned(r, disk[c].report)

OneHolder ==
  \A r \in Runs : Past(r) =>
    /\ "shinigami" \in made
    /\ OwnsDisk(r)
    /\ \A s \in Runs : Past(s) => s = r

NothingBefore ==
  "shinigami" \notin made =>
    \A c \in CaseIds : disk[c].receipt = NoFile /\ disk[c].report = NoFile

LockInv == RunShape /\ DiskShape /\ OneHolder /\ NothingBefore /\ SummaryIsOneRun

-----------------------------------------------------------------------------
(* Steps *)

(* What a step does to its own run and to the others. *)
LEMMA GotoEffect ==
  ASSUME RunShape, NEW r \in Runs, NEW pc \in Nat, NEW held, NEW stale, NEW summary,
         Goto(r, [pc |-> pc, held |-> held, stale |-> stale, summary |-> summary])
  PROVE  /\ RunShape'
         /\ run'[r].pc = pc /\ run'[r].summary = summary /\ run'[r].held = held
         /\ run'[r].stale = stale
         /\ \A s \in Runs : s # r => run'[s] = run[s]
BY DEF Goto, RunShape

(* A step of a run that changes neither the clones nor the files on disk   *)
(* nor the summary, and takes no run past the clone.                       *)
LEMMA QuietStep ==
  ASSUME LockInv, NEW r \in Runs, RunShape',
         disk' = disk, made' = made,
         run'[r].summary = run[r].summary,
         Past(r)' => Past(r),
         \A s \in Runs : s # r => run'[s] = run[s]
  PROVE  LockInv'
<1>1. \A s \in Runs : Past(s)' => Past(s)
  BY DEF Past
<1>2. OneHolder'
  BY <1>1 DEF LockInv, OneHolder, OwnsDisk, Owned
<1>3. DiskShape' /\ NothingBefore'
  BY DEF LockInv, DiskShape, NothingBefore
<1>4. SummaryIsOneRun'
  BY DEF LockInv, SummaryIsOneRun
<1> QED
  BY <1>2, <1>3, <1>4 DEF LockInv

LEMMA StopEffect ==
  ASSUME RunShape, NEW r \in Runs, Stop(r)
  PROVE  /\ RunShape'
         /\ run'[r].summary = run[r].summary /\ run'[r].pc = 0 /\ ~Past(r)'
         /\ run'[r].stale = run[r].stale
         /\ \A s \in Runs : s # r => run'[s] = run[s]
<1>1. [run[r] EXCEPT !.pc = Stopped]
        = [pc |-> 0, held |-> run[r].held, stale |-> run[r].stale,
           summary |-> run[r].summary]
  BY DEF RunShape, Stopped
<1> QED
  BY <1>1, GotoEffect DEF Stop, Past

LEMMA ContinueEffect ==
  ASSUME RunShape, NEW r \in Runs, Continue(r)
  PROVE  /\ RunShape'
         /\ run'[r].summary = run[r].summary /\ run'[r].pc = run[r].pc + 1
         /\ run'[r].held = run[r].held /\ run'[r].stale = run[r].stale
         /\ \A s \in Runs : s # r => run'[s] = run[s]
<1>1. [run[r] EXCEPT !.pc = @ + 1]
        = [pc |-> run[r].pc + 1, held |-> run[r].held, stale |-> run[r].stale,
           summary |-> run[r].summary]
  BY DEF RunShape
<1>2. run[r].pc + 1 \in Nat
  BY DEF RunShape
<1> QED
  BY <1>1, <1>2, GotoEffect DEF Continue

LEMMA UsedEffect ==
  ASSUME RunShape, NEW r \in Runs, Goto(r, Used(r))
  PROVE  /\ RunShape'
         /\ run'[r].summary = run[r].summary /\ run'[r].pc = run[r].pc + 1
         /\ run'[r].held = run[r].held
         /\ run'[r].stale = run[r].stale \cup StaleUses(r)
         /\ \A s \in Runs : s # r => run'[s] = run[s]
<1> DEFINE stale == run[r].stale \cup StaleUses(r)
<1>1. Used(r) = [pc |-> run[r].pc + 1, held |-> run[r].held, stale |-> stale,
                 summary |-> run[r].summary]
  <2> DEFINE moved == [run[r] EXCEPT !.pc = @ + 1]
  <2>1. moved = [pc |-> run[r].pc + 1, held |-> run[r].held, stale |-> run[r].stale,
                 summary |-> run[r].summary]
    BY DEF RunShape
  <2>2. Used(r) = [moved EXCEPT !.stale = @ \cup StaleUses(r)]
    BY DEF Used
  <2> HIDE DEF moved
  <2> QED
    BY <2>1, <2>2
<1>2. run[r].pc + 1 \in Nat
  BY DEF RunShape
<1> QED
  BY <1>1, <1>2, GotoEffect

LEMMA ReadEffect ==
  ASSUME RunShape, NEW r \in Runs, NEW bytes,
         Goto(r, [run[r] EXCEPT !.pc = @ + 1, !.held = bytes])
  PROVE  /\ RunShape'
         /\ run'[r].summary = run[r].summary /\ run'[r].pc = run[r].pc + 1
         /\ run'[r].held = bytes /\ run'[r].stale = run[r].stale
         /\ \A s \in Runs : s # r => run'[s] = run[s]
<1>1. [run[r] EXCEPT !.pc = @ + 1, !.held = bytes]
        = [pc |-> run[r].pc + 1, held |-> bytes, stale |-> run[r].stale,
           summary |-> run[r].summary]
  <2> DEFINE moved == [run[r] EXCEPT !.pc = @ + 1]
  <2>1. moved = [pc |-> run[r].pc + 1, held |-> run[r].held, stale |-> run[r].stale,
                 summary |-> run[r].summary]
    BY DEF RunShape
  <2>2. [run[r] EXCEPT !.pc = @ + 1, !.held = bytes] = [moved EXCEPT !.held = bytes]
    OBVIOUS
  <2> HIDE DEF moved
  <2> QED
    BY <2>1, <2>2
<1>2. run[r].pc + 1 \in Nat
  BY DEF RunShape
<1> QED
  BY <1>1, <1>2, GotoEffect

LEMMA JudgeEffect ==
  ASSUME RunShape, NEW r \in Runs, NEW entry,
         Goto(r, [run[r] EXCEPT !.pc = @ + 1, !.summary = @ \cup {entry}])
  PROVE  /\ RunShape'
         /\ run'[r].summary = run[r].summary \cup {entry}
         /\ run'[r].pc = run[r].pc + 1 /\ run'[r].held = run[r].held
         /\ run'[r].stale = run[r].stale
         /\ \A s \in Runs : s # r => run'[s] = run[s]
<1> DEFINE summary == run[r].summary \cup {entry}
<1>1. [run[r] EXCEPT !.pc = @ + 1, !.summary = @ \cup {entry}]
        = [pc |-> run[r].pc + 1, held |-> run[r].held, stale |-> run[r].stale,
           summary |-> summary]
  <2> DEFINE moved == [run[r] EXCEPT !.pc = @ + 1]
  <2>1. moved = [pc |-> run[r].pc + 1, held |-> run[r].held, stale |-> run[r].stale,
                 summary |-> run[r].summary]
    BY DEF RunShape
  <2>2. [run[r] EXCEPT !.pc = @ + 1, !.summary = @ \cup {entry}]
          = [moved EXCEPT !.summary = summary]
    OBVIOUS
  <2> HIDE DEF moved
  <2> QED
    BY <2>1, <2>2
<1>2. run[r].pc + 1 \in Nat
  BY DEF RunShape
<1> QED
  BY <1>1, <1>2, GotoEffect

(* Only two checks and the clone come before. *)
LEMMA EarlySteps ==
  ASSUME RunShape, NEW r \in Runs, ~Past(r), run[r].pc \in DOMAIN Program
  PROVE  /\ Now(r).op \in {"check", "clone"}
         /\ Now(r).op = "clone" => run[r].pc = 3 /\ Now(r).files = {"shinigami"}
<1>1. run[r].pc \in {1, 2, 3}
  BY ProgramStart DEF Past, RunShape
<1> QED
  BY <1>1, ProgramStart DEF Now

(* No step but the clone takes a run past it. *)
LEMMA OnlyCloneCrosses ==
  ASSUME RunShape, NEW r \in Runs, NEW op, op # "clone", At(r, op),
         run'[r].pc = run[r].pc + 1
  PROVE  Past(r)' => Past(r)
<1>1. run[r].pc \in Nat /\ run[r].pc # 3
  BY ProgramStart DEF RunShape, At
<1> QED
  BY <1>1 DEF Past

-----------------------------------------------------------------------------
(* Each step keeps the invariant. *)

(* Steps that write no file and no entry: after a check or a use the run   *)
(* goes on or stops, reading a receipt only changes what the run holds.    *)
LEMMA QuietSteps ==
  ASSUME LockInv, NEW r \in Runs,
         Check(r) \/ Use(r) \/ Read(r) \/ Summarize(r)
  PROVE  LockInv'
<1>1. RunShape /\ disk' = disk /\ made' = made
  BY DEF LockInv, Check, Use, Read, Summarize
<1>2. PICK op \in {"check", "use", "read", "summarize"} : At(r, op)
  BY DEF Check, Use, Read, Summarize
<1>3. \/ Continue(r)
      \/ Stop(r)
      \/ Goto(r, Used(r))
      \/ \E bytes : Goto(r, [run[r] EXCEPT !.pc = @ + 1, !.held = bytes])
  BY DEF Check, Use, Read, Summarize, Proceed
<1>4. CASE Stop(r)
  BY <1>1, <1>4, StopEffect, QuietStep
<1>5. CASE Continue(r)
  BY <1>1, <1>2, <1>5, ContinueEffect, OnlyCloneCrosses, QuietStep
<1>6. CASE Goto(r, Used(r))
  BY <1>1, <1>2, <1>6, UsedEffect, OnlyCloneCrosses, QuietStep, SMTT(30)
<1>7. CASE \E bytes : Goto(r, [run[r] EXCEPT !.pc = @ + 1, !.held = bytes])
  <2> PICK bytes : Goto(r, [run[r] EXCEPT !.pc = @ + 1, !.held = bytes])
    BY <1>7
  <2> QED
    BY <1>1, <1>2, ReadEffect, OnlyCloneCrosses, QuietStep
<1> QED
  BY <1>3, <1>4, <1>5, <1>6, <1>7

(* The run that clones Shinigami finds the directory without a clone, so   *)
(* nobody is past it and no file is there yet.                             *)
LEMMA CloneStep ==
  ASSUME LockInv, NEW r \in Runs, Clone(r)
  PROVE  LockInv'
<1>1. RunShape /\ disk' = disk /\ At(r, "clone")
  BY DEF LockInv, Clone
<1>2. CASE Stop(r) /\ made' = made
  BY <1>1, <1>2, StopEffect, QuietStep
<1>3. CASE /\ MayClone(Now(r).files)
           /\ made' = made \cup Now(r).files
           /\ Continue(r)
  <2>1. /\ RunShape' /\ run'[r].summary = run[r].summary
        /\ run'[r].pc = run[r].pc + 1
        /\ \A s \in Runs : s # r => run'[s] = run[s]
    BY <1>1, <1>3, ContinueEffect
  <2>2. DiskShape' /\ SummaryIsOneRun'
    BY <1>1, <2>1 DEF LockInv, DiskShape, SummaryIsOneRun
  <2>3. NothingBefore'
    BY <1>1, <1>3 DEF LockInv, NothingBefore
  <2>4. CASE Past(r)
    <3>1. \A s \in Runs : Past(s)' => Past(s)
      BY <2>1, <2>4 DEF Past
    <3>2. OneHolder'
      BY <1>1, <1>3, <3>1 DEF LockInv, OneHolder, OwnsDisk, Owned
    <3> QED
      BY <2>1, <2>2, <2>3, <3>2 DEF LockInv
  <2>5. CASE ~Past(r)
    <3>1. Now(r).files = {"shinigami"}
      BY <1>1, <2>5, EarlySteps DEF At, Now
    <3>2. "shinigami" \notin made /\ "shinigami" \in made'
      BY <1>3, <3>1 DEF MayClone
    <3>3. \A s \in Runs : Past(s)' => s = r
      BY <2>1, <3>2 DEF LockInv, OneHolder, Past
    <3>4. \A s \in Runs : OwnsDisk(s)'
      BY <1>1, <3>2 DEF LockInv, NothingBefore, OwnsDisk, Owned
    <3>5. OneHolder'
      BY <3>2, <3>3, <3>4 DEF OneHolder
    <3> QED
      BY <2>1, <2>2, <2>3, <3>5 DEF LockInv
  <2> QED
    BY <2>4, <2>5
<1> QED
  BY <1>2, <1>3 DEF Clone

(* Whoever writes is past the clone, and its files are all there is. *)
LEMMA WriteStep ==
  ASSUME LockInv, NEW r \in Runs, Past(r), RunShape', made' = made, DiskShape',
         \A c \in CaseIds :
           /\ disk'[c].receipt = disk[c].receipt \/ disk'[c].receipt.by = r
           /\ disk'[c].report = disk[c].report \/ disk'[c].report.by = r,
         run'[r].summary = run[r].summary,
         \A s \in Runs : s # r => run'[s] = run[s]
  PROVE  LockInv'
<1>1. "shinigami" \in made /\ OwnsDisk(r) /\ \A s \in Runs : Past(s) => s = r
  BY DEF LockInv, OneHolder
<1>2. \A s \in Runs : Past(s)' => s = r
  BY <1>1 DEF Past
<1>3. OwnsDisk(r)'
  BY <1>1 DEF OwnsDisk, Owned
<1>4. OneHolder'
  BY <1>1, <1>2, <1>3 DEF OneHolder
<1>5. NothingBefore' /\ SummaryIsOneRun'
  BY <1>1 DEF LockInv, NothingBefore, SummaryIsOneRun
<1> QED
  BY <1>4, <1>5 DEF LockInv
LEMMA PutReceipt ==
  ASSUME DiskShape, NEW c, NEW file,
         disk' = [disk EXCEPT ![c].receipt = file]
  PROVE  /\ DiskShape'
         /\ \A d \in CaseIds :
              /\ disk'[d].receipt = IF d = c THEN file ELSE disk[d].receipt
              /\ disk'[d].report = disk[d].report
<1> DEFINE put == [disk[c] EXCEPT !.receipt = file]
<1>1. disk' = [disk EXCEPT ![c] = put]
  OBVIOUS
<1>2. c \in CaseIds => put = [receipt |-> file, report |-> disk[c].report]
  BY DEF DiskShape
<1> HIDE DEF put
<1>3. disk' = [d \in CaseIds |-> IF d = c THEN put ELSE disk[d]]
  BY <1>1 DEF DiskShape
<1>4. \A d \in CaseIds : disk'[d] = IF d = c THEN put ELSE disk[d]
  BY <1>3
<1>5. \A d \in CaseIds :
        disk[d] = [receipt |-> disk[d].receipt, report |-> disk[d].report]
  BY DEF DiskShape
<1>6. \A d \in CaseIds :
        /\ disk'[d].receipt = IF d = c THEN file ELSE disk[d].receipt
        /\ disk'[d].report = disk[d].report
        /\ disk'[d] = [receipt |-> disk'[d].receipt, report |-> disk'[d].report]
  BY <1>2, <1>4, <1>5
<1>7. DiskShape'
  BY <1>3, <1>4, <1>6 DEF DiskShape
<1> QED
  BY <1>6, <1>7

LEMMA PutReport ==
  ASSUME DiskShape, NEW c, NEW file,
         disk' = [disk EXCEPT ![c].report = file]
  PROVE  /\ DiskShape'
         /\ \A d \in CaseIds :
              /\ disk'[d].report = IF d = c THEN file ELSE disk[d].report
              /\ disk'[d].receipt = disk[d].receipt
<1> DEFINE put == [disk[c] EXCEPT !.report = file]
<1>1. disk' = [disk EXCEPT ![c] = put]
  OBVIOUS
<1>2. c \in CaseIds => put = [receipt |-> disk[c].receipt, report |-> file]
  BY DEF DiskShape
<1> HIDE DEF put
<1>3. disk' = [d \in CaseIds |-> IF d = c THEN put ELSE disk[d]]
  BY <1>1 DEF DiskShape
<1>4. \A d \in CaseIds : disk'[d] = IF d = c THEN put ELSE disk[d]
  BY <1>3
<1>5. \A d \in CaseIds :
        disk[d] = [receipt |-> disk[d].receipt, report |-> disk[d].report]
  BY DEF DiskShape
<1>6. \A d \in CaseIds :
        /\ disk'[d].report = IF d = c THEN file ELSE disk[d].report
        /\ disk'[d].receipt = disk[d].receipt
        /\ disk'[d] = [receipt |-> disk'[d].receipt, report |-> disk'[d].report]
  BY <1>2, <1>4, <1>5
<1>7. DiskShape'
  BY <1>3, <1>4, <1>6 DEF DiskShape
<1> QED
  BY <1>6, <1>7

LEMMA EmitStep ==
  ASSUME LockInv, NEW r \in Runs, Emit(r)
  PROVE  LockInv'
<1>1. RunShape /\ DiskShape /\ made' = made /\ At(r, "emit")
  BY DEF LockInv, Emit
<1>2. CASE Stop(r) /\ disk' = disk
  BY <1>1, <1>2, StopEffect, QuietStep
<1>3. CASE /\ Goto(r, Used(r))
           /\ \E claim : disk' = [disk EXCEPT ![Now(r).case].receipt =
                                   [bytes |-> Bytes(Now(r).case, claim), by |-> r]]
  <2>1. PICK claim : disk' = [disk EXCEPT ![Now(r).case].receipt =
                                [bytes |-> Bytes(Now(r).case, claim), by |-> r]]
    BY <1>3
  <2> DEFINE file == [bytes |-> Bytes(Now(r).case, claim), by |-> r]
  <2>2. file.by = r
    OBVIOUS
  <2> HIDE DEF file
  <2>3. /\ DiskShape'
        /\ \A d \in CaseIds :
             /\ disk'[d].receipt = IF d = Now(r).case THEN file ELSE disk[d].receipt
             /\ disk'[d].report = disk[d].report
    BY <1>1, <2>1, PutReceipt DEF file
  <2>4. Past(r)
    BY <1>1, EarlySteps DEF At, Now
  <2> QED
    BY <1>1, <1>3, <2>2, <2>3, <2>4, UsedEffect, WriteStep
<1> QED
  BY <1>2, <1>3 DEF Emit

LEMMA ReportStep ==
  ASSUME LockInv, NEW r \in Runs, Report(r)
  PROVE  LockInv'
<1>1. RunShape /\ DiskShape /\ made' = made /\ At(r, "report") /\ Continue(r)
  BY DEF LockInv, Report
<1> DEFINE file == BuildReport(run[r].held, r)
<1>2. file.by = r
  BY DEF BuildReport
<1>3. disk' = [disk EXCEPT ![Now(r).case].report = file]
  BY DEF Report
<1> HIDE DEF file
<1>4. /\ DiskShape'
      /\ \A d \in CaseIds :
           /\ disk'[d].report = IF d = Now(r).case THEN file ELSE disk[d].report
           /\ disk'[d].receipt = disk[d].receipt
  BY <1>1, <1>3, PutReport
<1>5. Past(r)
  BY <1>1, EarlySteps DEF At, Now
<1> QED
  BY <1>1, <1>2, <1>4, <1>5, ContinueEffect, WriteStep

(* What is listed are files that exist, and those are the run's own. *)
LEMMA JudgeStep ==
  ASSUME LockInv, NEW r \in Runs, Judge(r)
  PROVE  LockInv'
<1>1. RunShape /\ disk' = disk /\ made' = made /\ At(r, "judge")
  BY DEF LockInv, Judge
<1>2. CASE Stop(r)
  BY <1>1, <1>2, StopEffect, QuietStep
<1>3. CASE ~Stop(r)
  <2> DEFINE c == Now(r).case
             entry == [case |-> c, receipt |-> disk[c].receipt,
                       report |-> disk[c].report]
  <2>1. /\ NoFile \notin {disk[c].receipt, disk[c].report}
        /\ Goto(r, [run[r] EXCEPT !.pc = @ + 1, !.summary = @ \cup {entry}])
    BY <1>3 DEF Judge
  <2>2. entry.receipt = disk[c].receipt /\ entry.report = disk[c].report
    OBVIOUS
  <2> HIDE DEF entry
  <2>3. /\ RunShape' /\ run'[r].summary = run[r].summary \cup {entry}
        /\ run'[r].pc = run[r].pc + 1
        /\ \A s \in Runs : s # r => run'[s] = run[s]
    BY <1>1, <2>1, JudgeEffect
  <2>4. Past(r)
    BY <1>1, EarlySteps DEF At, Now
  <2>5. c \in CaseIds
    BY <1>1, ProgramStart DEF At, Now, StepSet
  <2>6. entry.receipt.by = r /\ entry.report.by = r
    BY <2>1, <2>2, <2>4, <2>5 DEF LockInv, OneHolder, OwnsDisk, Owned
  <2>7. SummaryIsOneRun'
    BY <2>3, <2>6 DEF LockInv, SummaryIsOneRun
  <2>8. \A s \in Runs : Past(s)' => Past(s)
    BY <2>3, <2>4 DEF Past
  <2>9. OneHolder'
    BY <1>1, <2>8 DEF LockInv, OneHolder, OwnsDisk, Owned
  <2>10. DiskShape' /\ NothingBefore'
    BY <1>1 DEF LockInv, DiskShape, NothingBefore
  <2> QED
    BY <2>3, <2>7, <2>9, <2>10 DEF LockInv
<1> QED
  BY <1>2, <1>3

(* Others change contents, or copy one of the files that are there. *)
LEMMA OthersStep ==
  ASSUME LockInv,
         \/ \E f \in Files : Edit(f)
         \/ \E from, to \in CaseIds : CopyReceipt(from, to)
  PROVE  LockInv'
<1>1. run' = run /\ made' = made
  BY DEF Edit, CopyReceipt
<1>2. RunShape' /\ SummaryIsOneRun' /\ \A r \in Runs : Past(r)' <=> Past(r)
  BY <1>1 DEF LockInv, RunShape, SummaryIsOneRun, Past
<1>3. CASE disk' = disk
  BY <1>1, <1>2, <1>3
  DEF LockInv, DiskShape, OneHolder, OwnsDisk, Owned, NothingBefore
<1>4. ASSUME NEW from \in CaseIds, NEW to \in CaseIds, CopyReceipt(from, to)
      PROVE  LockInv'
  <2>1. /\ disk[from].receipt.by # "nobody"
        /\ disk' = [disk EXCEPT ![to].receipt = disk[from].receipt]
    BY <1>4 DEF CopyReceipt
  <2>2. /\ DiskShape'
        /\ \A d \in CaseIds :
             /\ disk'[d].receipt = IF d = to THEN disk[from].receipt
                                             ELSE disk[d].receipt
             /\ disk'[d].report = disk[d].report
    BY <2>1, PutReceipt DEF LockInv
  <2>3. disk[from].receipt # NoFile
    BY <2>1 DEF NoFile
  <2>4. "shinigami" \in made
    BY <2>3 DEF LockInv, NothingBefore
  <2>5. OneHolder'
    BY <1>1, <1>2, <2>2 DEF LockInv, OneHolder, OwnsDisk, Owned
  <2> QED
    BY <1>1, <1>2, <2>2, <2>4, <2>5 DEF LockInv, NothingBefore
<1> QED
  BY <1>3, <1>4 DEF Edit

-----------------------------------------------------------------------------
THEOREM LockInvariant == Spec => []LockInv
<1>1. Init => LockInv
  <2> SUFFICES ASSUME Init PROVE LockInv
    OBVIOUS
  <2>1. \A r \in Runs :
          run[r] = [pc |-> 1, held |-> << >>, stale |-> {}, summary |-> {}]
    BY DEF Init
  <2>2. RunShape
    BY <2>1 DEF Init, RunShape
  <2>3. \A r \in Runs : ~Past(r) /\ run[r].summary = {}
    BY <2>1 DEF Past
  <2>4. DiskShape /\ NothingBefore
    BY DEF Init, DiskShape, NothingBefore
  <2> QED
    BY <2>2, <2>3, <2>4 DEF LockInv, OneHolder, SummaryIsOneRun
<1>2. LockInv /\ [Next]_vars => LockInv'
  <2> SUFFICES ASSUME LockInv, [Next]_vars PROVE LockInv'
    OBVIOUS
  <2>1. ASSUME NEW r \in Runs, RunStep(r) PROVE LockInv'
    BY <2>1, QuietSteps, CloneStep, EmitStep, ReportStep, JudgeStep DEF RunStep
  <2>2. CASE UNCHANGED vars
    BY <2>2 DEF vars, LockInv, RunShape, DiskShape, OneHolder, OwnsDisk, Owned,
                NothingBefore, SummaryIsOneRun, Past
  <2> QED
    BY <2>1, <2>2, OthersStep DEF Next
<1> QED
  BY <1>1, <1>2, PTL DEF Spec

(* However many runs share an output directory, and whatever is edited     *)
(* meanwhile, a summary lists receipts and reports of its own run.         *)
THEOREM SummariesUnmixed == Spec => []SummaryIsOneRun
<1>1. LockInv => SummaryIsOneRun
  BY DEF LockInv
<1> QED
  BY <1>1, LockInvariant, PTL
-----------------------------------------------------------------------------
(* Which case a summary speaks of.  A receipt on disk has a receipt's      *)
(* shape; a report on disk was built from bytes that passed for its case;  *)
(* and from reading to reporting a run holds bytes that passed for the     *)
(* case it is at.                                                          *)

ReceiptShape(b) ==
  b.case \in CaseIds /\ b = [case |-> b.case, schema |-> b.schema, claim |-> b.claim]

Passed(b, c) == ReceiptShape(b) /\ VerifyReceipt(b, c)

ReceiptsShaped ==
  \A c \in CaseIds :
    disk[c].receipt = NoFile \/ ReceiptShape(disk[c].receipt.bytes)

ReportsPassed ==
  \A c \in CaseIds :
    LET report == disk[c].report IN
    report = NoFile \/ /\ Passed(report.receipt, c)
                       /\ report.authorization = ExpectClaimMatch[report.receipt.case]

(* What the step that run r is at can rely on. *)
ReadyFor(r) ==
  (run[r].pc \in DOMAIN Program /\ Now(r).case \in CaseIds /\ Now(r).op # "emit") =>
    IF Now(r).op = "read" THEN disk[Now(r).case].receipt # NoFile
    ELSE Passed(run[r].held, Now(r).case)

CaseInv ==
  /\ ReceiptsShaped
  /\ ReportsPassed
  /\ \A r \in Runs : ReadyFor(r)
  /\ SummaryNamesItsCase

(* Whichever step a run takes, it is ready for the next one if an emission *)
(* left a receipt and reading left bytes that passed.                      *)
LEMMA ReadyNext ==
  ASSUME NEW r \in Runs, RunShape, ReadyFor(r), run[r].pc \in DOMAIN Program,
         run'[r].pc = run[r].pc + 1,
         Now(r).op = "emit" => disk'[Now(r).case].receipt # NoFile,
         IF Now(r).op = "read" THEN Passed(run'[r].held, Now(r).case)
         ELSE run'[r].held = run[r].held
  PROVE  ReadyFor(r)'
<1> DEFINE i == run[r].pc
<1>1. /\ i \in Nat /\ Now(r) = Program[i] /\ run'[r].pc = i + 1
      /\ (run[r].pc)' = i + 1 /\ Now(r)' = Program[i + 1]
  BY DEF RunShape, Now
<1> SUFFICES ASSUME i + 1 \in DOMAIN Program, Program[i + 1].case \in CaseIds,
                    Program[i + 1].op # "emit"
             PROVE  IF Program[i + 1].op = "read"
                    THEN disk'[Program[i + 1].case].receipt # NoFile
                    ELSE Passed(run'[r].held, Program[i + 1].case)
  BY <1>1 DEF ReadyFor, Passed, ReceiptShape, VerifyReceipt
<1>2. /\ Program[i].case = Program[i + 1].case
      /\ Program[i].op = "emit" <=> Program[i + 1].op = "read"
  <2>1. i + 1 \in 1..Len(Program) /\ i + 1 - 1 = i
    BY <1>1, ProgramStart
  <2> QED
    BY <2>1, ProgramStart, SMTT(30) DEF WellPlaced
<1>3. CASE Program[i + 1].op = "read"
  BY <1>1, <1>2, <1>3
<1>4. CASE Program[i + 1].op # "read" /\ Program[i].op = "read"
  BY <1>1, <1>2, <1>4
<1>5. CASE Program[i + 1].op # "read" /\ Program[i].op # "read"
  <2>1. Program[i].op # "emit"
    BY <1>2, <1>5
  <2>2. Passed(run[r].held, Program[i].case)
    BY <1>1, <1>2, <1>5, <2>1 DEF ReadyFor
  <2> QED
    BY <1>1, <1>2, <1>5, <2>2
<1> QED
  BY <1>3, <1>4, <1>5

(* A run that stays where it is stays ready while no receipt vanishes. *)
LEMMA ReadyStays ==
  ASSUME NEW r \in Runs, ReadyFor(r), run'[r] = run[r],
         \A c \in CaseIds : disk[c].receipt # NoFile => disk'[c].receipt # NoFile
  PROVE  ReadyFor(r)'
BY DEF ReadyFor, Now, Passed, ReceiptShape, VerifyReceipt

LEMMA ReadyStopped ==
  ASSUME NEW r \in Runs, run'[r].pc = 0
  PROVE  ReadyFor(r)'
<1>1. 0 \notin DOMAIN Program
  BY ProgramStart
<1> QED
  BY <1>1 DEF ReadyFor

(* Every step with an effect on one run only. *)
LEMMA ReadyAll ==
  ASSUME CaseInv, NEW r \in Runs, ReadyFor(r)',
         \A s \in Runs : s # r => run'[s] = run[s],
         \A c \in CaseIds : disk[c].receipt # NoFile => disk'[c].receipt # NoFile
  PROVE  \A s \in Runs : ReadyFor(s)'
<1> TAKE s \in Runs
<1>1. CASE s = r
  BY <1>1
<1>2. CASE s # r
  BY <1>2, ReadyStays DEF CaseInv
<1> QED
  BY <1>1, <1>2

(* Steps that leave the files and the summaries alone. *)
LEMMA SameFiles ==
  ASSUME CaseInv, NEW r \in Runs, ReadyFor(r)', disk' = disk,
         run'[r].summary = run[r].summary,
         \A s \in Runs : s # r => run'[s] = run[s]
  PROVE  CaseInv'
<1>1. ReceiptsShaped' /\ ReportsPassed'
  BY DEF CaseInv, ReceiptsShaped, ReportsPassed, Passed, ReceiptShape, VerifyReceipt
<1>2. \A s \in Runs : run'[s].summary = run[s].summary
  OBVIOUS
<1>3. SummaryNamesItsCase'
  BY <1>2 DEF CaseInv, SummaryNamesItsCase
<1>4. \A s \in Runs : ReadyFor(s)'
  BY ReadyAll
<1> QED
  BY <1>1, <1>3, <1>4 DEF CaseInv

LEMMA QuietKeepsCases ==
  ASSUME LockInv, CaseInv, NEW r \in Runs,
         Check(r) \/ Clone(r) \/ Use(r) \/ Summarize(r)
  PROVE  CaseInv'
<1>1. RunShape /\ disk' = disk
  BY DEF LockInv, Check, Clone, Use, Summarize
<1>2. run[r].pc \in DOMAIN Program /\ Now(r).op \notin {"emit", "read"}
  BY DEF Check, Clone, Use, Summarize, At, Now
<1>3. Continue(r) \/ Stop(r) \/ Goto(r, Used(r))
  BY DEF Check, Clone, Use, Summarize, Proceed
<1>4. CASE Stop(r)
  BY <1>1, <1>4, StopEffect, ReadyStopped, SameFiles
<1>5. CASE Continue(r)
  <2>1. ReadyFor(r)'
    BY <1>1, <1>2, <1>5, ContinueEffect, ReadyNext DEF CaseInv
  <2> QED
    BY <1>1, <1>5, <2>1, ContinueEffect, SameFiles
<1>6. CASE Goto(r, Used(r))
  <2>1. ReadyFor(r)'
    BY <1>1, <1>2, <1>6, UsedEffect, ReadyNext DEF CaseInv
  <2> QED
    BY <1>1, <1>6, <2>1, UsedEffect, SameFiles
<1> QED
  BY <1>3, <1>4, <1>5, <1>6

(* What is read is a receipt, and what is held has passed. *)
LEMMA ReadKeepsCases ==
  ASSUME LockInv, CaseInv, NEW r \in Runs, Read(r)
  PROVE  CaseInv'
<1>1. RunShape /\ disk' = disk
  BY DEF LockInv, Read
<1>2. run[r].pc \in DOMAIN Program /\ Now(r).op = "read"
  BY DEF Read, At, Now
<1> DEFINE c == Now(r).case
           bytes == disk[c].receipt.bytes
<1>3. c \in CaseIds
  BY <1>2, ProgramStart DEF Now, StepSet
<1>4. CASE Stop(r)
  BY <1>1, <1>4, StopEffect, ReadyStopped, SameFiles
<1>5. CASE /\ VerifyReceipt(bytes, c)
           /\ Goto(r, [run[r] EXCEPT !.pc = @ + 1, !.held = bytes])
  <2>1. disk[c].receipt # NoFile
    BY <1>2, <1>3 DEF CaseInv, ReadyFor
  <2>2. Passed(bytes, c)
    BY <1>3, <1>5, <2>1, SMTT(30) DEF CaseInv, ReceiptsShaped, Passed
  <2>3. /\ run'[r].summary = run[r].summary /\ run'[r].pc = run[r].pc + 1
        /\ run'[r].held = bytes
        /\ \A s \in Runs : s # r => run'[s] = run[s]
    BY <1>1, <1>5, ReadEffect
  <2>4. ReadyFor(r)'
    BY <1>1, <1>2, <2>2, <2>3, ReadyNext DEF CaseInv
  <2> QED
    BY <1>1, <2>3, <2>4, SameFiles
<1> QED
  BY <1>4, <1>5 DEF Read

LEMMA EmitKeepsCases ==
  ASSUME LockInv, CaseInv, NEW r \in Runs, Emit(r)
  PROVE  CaseInv'
<1>1. RunShape /\ DiskShape
  BY DEF LockInv
<1>2. run[r].pc \in DOMAIN Program /\ Now(r).op = "emit"
  BY DEF Emit, At, Now
<1> DEFINE c == Now(r).case
<1>3. c \in CaseIds
  BY <1>2, ProgramStart DEF Now, StepSet
<1>4. CASE Stop(r) /\ disk' = disk
  BY <1>1, <1>4, StopEffect, ReadyStopped, SameFiles
<1>5. CASE /\ Goto(r, Used(r))
           /\ \E claim : disk' = [disk EXCEPT ![c].receipt =
                                   [bytes |-> Bytes(c, claim), by |-> r]]
  <2>1. PICK claim : disk' = [disk EXCEPT ![c].receipt =
                                [bytes |-> Bytes(c, claim), by |-> r]]
    BY <1>5
  <2> DEFINE file == [bytes |-> Bytes(c, claim), by |-> r]
  <2>2. file # NoFile /\ ReceiptShape(file.bytes)
    BY <1>3, RunsAssumption DEF NoFile, ReceiptShape, Bytes
  <2> HIDE DEF file
  <2>3. \A d \in CaseIds :
          /\ disk'[d].receipt = IF d = c THEN file ELSE disk[d].receipt
          /\ disk'[d].report = disk[d].report
    BY <1>1, <2>1, PutReceipt DEF file
  <2>4. /\ run'[r].summary = run[r].summary /\ run'[r].pc = run[r].pc + 1
        /\ run'[r].held = run[r].held
        /\ \A s \in Runs : s # r => run'[s] = run[s]
    BY <1>1, <1>5, UsedEffect
  <2>5. ReadyFor(r)'
    BY <1>1, <1>2, <1>3, <2>2, <2>3, <2>4, ReadyNext DEF CaseInv
  <2>6. \A s \in Runs : ReadyFor(s)'
    BY <2>2, <2>3, <2>4, <2>5, ReadyAll
  <2>7. ReceiptsShaped'
    BY <2>2, <2>3 DEF CaseInv, ReceiptsShaped, ReceiptShape
  <2>8. ReportsPassed'
    BY <2>3 DEF CaseInv, ReportsPassed, Passed, ReceiptShape, VerifyReceipt
  <2>9. SummaryNamesItsCase'
    BY <2>4 DEF CaseInv, SummaryNamesItsCase
  <2> QED
    BY <2>6, <2>7, <2>8, <2>9 DEF CaseInv
<1> QED
  BY <1>4, <1>5 DEF Emit

LEMMA ReportKeepsCases ==
  ASSUME LockInv, CaseInv, NEW r \in Runs, Report(r)
  PROVE  CaseInv'
<1>1. RunShape /\ DiskShape /\ Continue(r)
  BY DEF LockInv, Report
<1>2. run[r].pc \in DOMAIN Program /\ Now(r).op = "report"
  BY DEF Report, At, Now
<1> DEFINE c == Now(r).case
           file == BuildReport(run[r].held, r)
<1>3. c \in CaseIds /\ Passed(run[r].held, c)
  <2>1. c \in CaseIds
    BY <1>2, ProgramStart DEF Now, StepSet
  <2> QED
    BY <1>2, <2>1 DEF CaseInv, ReadyFor
<1>4. /\ file.receipt = run[r].held
      /\ file.authorization = ExpectClaimMatch[run[r].held.case]
  BY DEF BuildReport
<1>5. disk' = [disk EXCEPT ![c].report = file]
  BY DEF Report
<1> HIDE DEF file
<1>6. \A d \in CaseIds :
        /\ disk'[d].report = IF d = c THEN file ELSE disk[d].report
        /\ disk'[d].receipt = disk[d].receipt
  BY <1>1, <1>5, PutReport
<1>7. /\ run'[r].summary = run[r].summary /\ run'[r].pc = run[r].pc + 1
      /\ run'[r].held = run[r].held
      /\ \A s \in Runs : s # r => run'[s] = run[s]
  BY <1>1, ContinueEffect
<1>8. ReadyFor(r)'
  BY <1>1, <1>2, <1>7, ReadyNext DEF CaseInv
<1>9. \A s \in Runs : ReadyFor(s)'
  BY <1>6, <1>7, <1>8, ReadyAll
<1>10. ReceiptsShaped'
  BY <1>6 DEF CaseInv, ReceiptsShaped, ReceiptShape
<1>11. ReportsPassed'
  <2> SUFFICES ASSUME NEW d \in CaseIds, disk'[d].report # NoFile
               PROVE  LET report == disk'[d].report IN
                      /\ Passed(report.receipt, d)
                      /\ report.authorization = ExpectClaimMatch[report.receipt.case]
    BY DEF ReportsPassed, Passed, ReceiptShape, VerifyReceipt
  <2>1. CASE d = c
    BY <1>3, <1>4, <1>6, <2>1
  <2>2. CASE d # c
    BY <1>6, <2>2 DEF CaseInv, ReportsPassed
  <2> QED
    BY <2>1, <2>2
<1>12. SummaryNamesItsCase'
  BY <1>7 DEF CaseInv, SummaryNamesItsCase
<1> QED
  BY <1>9, <1>10, <1>11, <1>12 DEF CaseInv

(* The proof's name and the authorization expected tell the cases apart. *)
LEMMA CaseDetermined ==
  ASSUME NEW b \in CaseIds, NEW c \in CaseIds,
         ProofFile[b] = ProofFile[c], ExpectClaimMatch[b] = ExpectedAuthorization[c]
  PROVE  b = c
<1>1. CaseIds = {"owner_exit_allow", "owner_exit_challenge", "virtual_cet_guard"}
  BY DEF CaseIds, Range, Cases
<1> QED
  BY <1>1 DEF ProofFile, ExpectClaimMatch, ExpectedAuthorization

LEMMA JudgeKeepsCases ==
  ASSUME LockInv, CaseInv, NEW r \in Runs, Judge(r)
  PROVE  CaseInv'
<1>1. RunShape /\ disk' = disk
  BY DEF LockInv, Judge
<1>2. run[r].pc \in DOMAIN Program /\ Now(r).op = "judge"
  BY DEF Judge, At, Now
<1> DEFINE c == Now(r).case
           report == disk[c].report
           entry == [case |-> c, receipt |-> disk[c].receipt, report |-> report]
<1>3. c \in CaseIds
  BY <1>2, ProgramStart DEF Now, StepSet
<1>4. CASE Stop(r)
  BY <1>1, <1>4, StopEffect, ReadyStopped, SameFiles
<1>5. CASE ~Stop(r)
  <2>1. /\ NoFile \notin {disk[c].receipt, report}
        /\ report.authorization = ExpectedAuthorization[c]
        /\ Goto(r, [run[r] EXCEPT !.pc = @ + 1, !.summary = @ \cup {entry}])
    BY <1>5 DEF Judge, ReportAccepted
  <2>2. entry.case = c /\ entry.report = report
    BY SMTT(30)
  <2> HIDE DEF entry
  <2>3. /\ run'[r].summary = run[r].summary \cup {entry}
        /\ run'[r].pc = run[r].pc + 1 /\ run'[r].held = run[r].held
        /\ \A s \in Runs : s # r => run'[s] = run[s]
    BY <1>1, <2>1, JudgeEffect
  <2>4. /\ Passed(report.receipt, c)
        /\ report.authorization = ExpectClaimMatch[report.receipt.case]
    BY <1>3, <2>1 DEF CaseInv, ReportsPassed
  <2>5. report.receipt.case = c
    BY <1>3, <2>1, <2>4, CaseDetermined DEF Passed, ReceiptShape, VerifyReceipt
  <2>6. report.receipt = [case |-> c, schema |-> "v2", claim |-> "pinned"]
    BY <2>4, <2>5 DEF Passed, ReceiptShape, VerifyReceipt
  <2>7. SummaryNamesItsCase'
    BY <2>2, <2>3, <2>6 DEF CaseInv, SummaryNamesItsCase
  <2>8. ReadyFor(r)'
    BY <1>1, <1>2, <2>3, ReadyNext DEF CaseInv
  <2>9. \A s \in Runs : ReadyFor(s)'
    BY <1>1, <2>3, <2>8, ReadyAll
  <2>10. ReceiptsShaped' /\ ReportsPassed'
    BY <1>1 DEF CaseInv, ReceiptsShaped, ReportsPassed, Passed, ReceiptShape,
                VerifyReceipt
  <2> QED
    BY <2>7, <2>9, <2>10 DEF CaseInv
<1> QED
  BY <1>4, <1>5

LEMMA OthersKeepCases ==
  ASSUME LockInv, CaseInv,
         \/ \E f \in Files : Edit(f)
         \/ \E from, to \in CaseIds : CopyReceipt(from, to)
  PROVE  CaseInv'
<1>1. run' = run
  BY DEF Edit, CopyReceipt
<1>2. SummaryNamesItsCase'
  BY <1>1 DEF CaseInv, SummaryNamesItsCase
<1>3. CASE disk' = disk
  <2>1. ReceiptsShaped' /\ ReportsPassed'
    BY <1>3 DEF CaseInv, ReceiptsShaped, ReportsPassed, Passed, ReceiptShape,
                VerifyReceipt
  <2>2. \A r \in Runs : ReadyFor(r)'
    BY <1>1, <1>3, ReadyStays DEF CaseInv
  <2> QED
    BY <1>2, <2>1, <2>2 DEF CaseInv
<1>4. ASSUME NEW from \in CaseIds, NEW to \in CaseIds, CopyReceipt(from, to)
      PROVE  CaseInv'
  <2>1. /\ disk[from].receipt.by # "nobody"
        /\ disk' = [disk EXCEPT ![to].receipt = disk[from].receipt]
    BY <1>4 DEF CopyReceipt
  <2>2. \A d \in CaseIds :
          /\ disk'[d].receipt = IF d = to THEN disk[from].receipt
                                          ELSE disk[d].receipt
          /\ disk'[d].report = disk[d].report
    BY <2>1, PutReceipt DEF LockInv
  <2>3. disk[from].receipt # NoFile
    BY <2>1 DEF NoFile
  <2>4. ReceiptsShaped'
    BY <2>2 DEF CaseInv, ReceiptsShaped, ReceiptShape
  <2>5. ReportsPassed'
    BY <2>2 DEF CaseInv, ReportsPassed, Passed, ReceiptShape, VerifyReceipt
  <2>6. \A r \in Runs : ReadyFor(r)'
    BY <1>1, <2>2, <2>3, ReadyStays DEF CaseInv
  <2> QED
    BY <1>2, <2>4, <2>5, <2>6 DEF CaseInv
<1> QED
  BY <1>3, <1>4 DEF Edit

(* Whatever receipts get mixed up, a summary's entry for a case was judged *)
(* on a receipt of that case with its pinned claim, for any number of runs *)
(* and edits.                                                              *)
THEOREM SummariesNamed == Spec => []SummaryNamesItsCase
<1>1. Init => CaseInv
  <2> SUFFICES ASSUME Init PROVE CaseInv
    OBVIOUS
  <2>1. \A r \in Runs : run[r].pc = 1 /\ run[r].summary = {}
    BY DEF Init
  <2>2. "none" \notin CaseIds
    BY DEF CaseIds, Range, Cases
  <2>3. \A c \in CaseIds : disk[c].receipt = NoFile /\ disk[c].report = NoFile
    BY DEF Init
  <2>4. Program[1].case \notin CaseIds
    <3>1. 1 \in 1..Len(Program)
      BY ProgramStart
    <3>2. Program[1].op # "emit"
      BY ProgramStart
    <3>3. ~(1 > 1)
      OBVIOUS
    <3> QED
      BY <3>1, <3>2, <3>3, ProgramStart DEF WellPlaced
  <2>5. \A r \in Runs : ReadyFor(r)
    BY <2>1, <2>4 DEF ReadyFor, Now
  <2> QED
    BY <2>1, <2>3, <2>5 DEF CaseInv, ReceiptsShaped, ReportsPassed, SummaryNamesItsCase
<1>2. LockInv /\ CaseInv /\ [Next]_vars => CaseInv'
  <2> SUFFICES ASSUME LockInv, CaseInv, [Next]_vars PROVE CaseInv'
    OBVIOUS
  <2>1. ASSUME NEW r \in Runs, RunStep(r) PROVE CaseInv'
    BY <2>1, QuietKeepsCases, ReadKeepsCases, EmitKeepsCases, ReportKeepsCases,
       JudgeKeepsCases DEF RunStep
  <2>2. CASE UNCHANGED vars
    BY <2>2 DEF vars, CaseInv, ReceiptsShaped, ReportsPassed, Passed, ReceiptShape,
                VerifyReceipt, ReadyFor, Now, SummaryNamesItsCase
  <2> QED
    BY <2>1, <2>2, OthersKeepCases DEF Next
<1>3. CaseInv => SummaryNamesItsCase
  BY DEF CaseInv
<1> QED
  BY <1>1, <1>2, <1>3, LockInvariant, PTL DEF Spec

-----------------------------------------------------------------------------
(* What a run uses: in the program every use of a file for a case, of Bark *)
(* excepted, comes after a check of that file for the same case.           *)

Uses == {"use", "emit"}

CheckedForCase(s, j) ==
  \A f \in s[j].files \ {"bark"} :
    \E q \in 1..(j - 1) :
      /\ s[q].op = "check" /\ f \in s[q].files
      /\ \A k \in q..j : s[k].case = s[j].case

(* The one use allowed without: the compilation of Shinigami, the first.   *)
UsesChecked(s, first) ==
  \A j \in 1..Len(s) :
    s[j].op \in Uses => j = first \/ CheckedForCase(s, j)

LEMMA UsesCheckedConcat ==
  ASSUME NEW s \in Seq(StepSet), NEW t \in Seq(StepSet), NEW first \in Nat,
         UsesChecked(s, first), UsesChecked(t, 0)
  PROVE  UsesChecked(s \o t, first)
<1>1. /\ Len(s \o t) = Len(s) + Len(t)
      /\ \A i \in 1..Len(s) + Len(t) :
           (s \o t)[i] = IF i <= Len(s) THEN s[i] ELSE t[i - Len(s)]
  BY ConcatProperties
<1>2. Len(s) \in Nat /\ Len(t) \in Nat
  OBVIOUS
<1> DEFINE st == s \o t
<1>3. \A i \in 1..Len(s) : st[i] = s[i]
  BY <1>1, <1>2
<1>4. \A i \in 1..Len(t) : st[i + Len(s)] = t[i]
  BY <1>1, <1>2
<1> HIDE DEF st
<1> SUFFICES ASSUME NEW j \in 1..Len(s) + Len(t), st[j].op \in Uses, j # first,
                    NEW f \in st[j].files \ {"bark"}
             PROVE  \E q \in 1..(j - 1) :
                      /\ st[q].op = "check" /\ f \in st[q].files
                      /\ \A k \in q..j : st[k].case = st[j].case
  BY <1>1 DEF UsesChecked, CheckedForCase, st
<1>5. CASE j <= Len(s)
  <2>1. j \in 1..Len(s) /\ st[j] = s[j]
    BY <1>2, <1>3, <1>5
  <2>2. PICK q \in 1..(j - 1) : /\ s[q].op = "check" /\ f \in s[q].files
                               /\ \A k \in q..j : s[k].case = s[j].case
    BY <2>1 DEF UsesChecked, CheckedForCase
  <2>3. \A k \in q..j : st[k] = s[k]
    BY <1>2, <1>3, <2>1
  <2>4. /\ st[q].op = "check" /\ f \in st[q].files
        /\ \A k \in q..j : st[k].case = st[j].case
    BY <2>1, <2>2, <2>3, SMTT(30)
  <2> QED
    BY <2>4
<1>6. CASE j > Len(s)
  <2> DEFINE i == j - Len(s)
  <2>1. i \in 1..Len(t) /\ st[j] = t[i] /\ j = i + Len(s)
    BY <1>2, <1>4, <1>6
  <2> HIDE DEF i
  <2>2. t[i].op \in Uses /\ f \in t[i].files \ {"bark"} /\ i # 0
    BY <2>1
  <2>3. CheckedForCase(t, i)
    BY <2>1, <2>2 DEF UsesChecked
  <2>4. PICK q \in 1..(i - 1) : /\ t[q].op = "check" /\ f \in t[q].files
                               /\ \A k \in q..i : t[k].case = t[i].case
    BY <2>2, <2>3 DEF CheckedForCase
  <2>5. \A k \in (q + Len(s))..j : k - Len(s) \in q..i /\ st[k] = t[k - Len(s)]
    <3> TAKE k \in (q + Len(s))..j
    <3>1. k - Len(s) \in q..i /\ k - Len(s) \in 1..Len(t) /\ k = (k - Len(s)) + Len(s)
      BY <1>2, <2>1
    <3> QED
      BY <1>4, <3>1
  <2>6. q + Len(s) \in 1..(j - 1) /\ q \in 1..Len(t)
    BY <1>2, <2>1
  <2>7. st[q + Len(s)] = t[q]
    BY <1>4, <2>6
  <2>8. \A k \in (q + Len(s))..j : st[k].case = st[j].case
    BY <2>1, <2>4, <2>5
  <2> QED
    BY <2>4, <2>6, <2>7, <2>8
<1> QED
  BY <1>2, <1>5, <1>6

(* Steps that check their files first. *)
LEMMA CaseStepsChecked ==
  ASSUME NEW c \in CaseIds
  PROVE  UsesChecked(CaseSteps(c), 0)
<1> DEFINE start == CaseStart(c)
           end == CaseEnd(c)
           stwo == StwoSteps(c)
           shinigami == ShinigamiSteps(c)
           utxo == UtxoRefSteps(c)
<1>1. UsesChecked(start, 0)
  <2>1. /\ Len(start) = 2
        /\ start[1].files = {"bark"} /\ start[2].op = "read"
    BY DEF CaseStart, CaseEnd, Step
  <2> QED
    BY <2>1 DEF UsesChecked, CheckedForCase, Uses
<1>2. UsesChecked(stwo, 0)
  <2>1. /\ Len(stwo) = 3
        /\ \A k \in 1..3 : stwo[k].case = c
        /\ stwo[1].op = "check" /\ stwo[1].files = {ProofFile[c], "verifier", "executable"}
        /\ stwo[2].files = {ProofFile[c], "executable"}
        /\ stwo[3].files = {ProofFile[c], "verifier"}
    BY DEF StwoSteps, Step
  <2> HIDE DEF stwo
  <2>2. \A j \in 2..3 : CheckedForCase(stwo, j)
    BY <2>1 DEF CheckedForCase
  <2> QED
    BY <2>1, <2>2 DEF UsesChecked, Uses
<1>3. UsesChecked(shinigami, 0)
  <2>1. /\ Len(shinigami) = 2
        /\ \A k \in 1..2 : shinigami[k].case = c
        /\ shinigami[1].op = "check" /\ shinigami[1].files = {"shinigami", "scarb"}
        /\ shinigami[2].files = {"shinigami", "scarb"}
    BY DEF ShinigamiSteps, Step
  <2> HIDE DEF shinigami
  <2>2. CheckedForCase(shinigami, 2)
    BY <2>1 DEF CheckedForCase
  <2> QED
    BY <2>1, <2>2 DEF UsesChecked, Uses
<1>4. UsesChecked(utxo, 0)
  <2>1. /\ Len(utxo) = 2
        /\ \A k \in 1..2 : utxo[k].case = c
        /\ utxo[1].op = "check" /\ utxo[1].files = {"utxoref"}
        /\ utxo[2].files = {"utxoref"}
    BY DEF UtxoRefSteps, Step
  <2> HIDE DEF utxo
  <2>2. CheckedForCase(utxo, 2)
    BY <2>1 DEF CheckedForCase
  <2> QED
    BY <2>1, <2>2 DEF UsesChecked, Uses
<1>5. UsesChecked(end, 0)
  <2>1. Len(end) = 2 /\ end[1].op = "report" /\ end[2].op = "judge"
    BY DEF CaseStart, CaseEnd, Step
  <2> QED
    BY <2>1 DEF UsesChecked, Uses
<1>6. CaseSteps(c) = start \o stwo \o shinigami \o utxo \o end
  BY DEF CaseSteps, CaseStart, CaseEnd
<1>7. /\ start \in Seq(StepSet) /\ stwo \in Seq(StepSet) /\ shinigami \in Seq(StepSet)
      /\ utxo \in Seq(StepSet) /\ end \in Seq(StepSet)
  <2>1. \A u \in Seq(CaseStepSet(c)) : u \in Seq(StepSet)
    BY DEF CaseStepSet
  <2> QED
    BY <2>1, CaseBlocksType
<1> HIDE DEF start, stwo, shinigami, utxo, end
<1>8. /\ start \o stwo \in Seq(StepSet)
      /\ start \o stwo \o shinigami \in Seq(StepSet)
      /\ start \o stwo \o shinigami \o utxo \in Seq(StepSet)
  BY <1>7, ConcatProperties
<1>9. UsesChecked(start \o stwo, 0)
  BY <1>1, <1>2, <1>7, UsesCheckedConcat
<1>10. UsesChecked(start \o stwo \o shinigami, 0)
  BY <1>3, <1>7, <1>8, <1>9, UsesCheckedConcat
<1>11. UsesChecked(start \o stwo \o shinigami \o utxo, 0)
  BY <1>4, <1>7, <1>8, <1>10, UsesCheckedConcat
<1>12. UsesChecked(start \o stwo \o shinigami \o utxo \o end, 0)
  BY <1>5, <1>7, <1>8, <1>11, UsesCheckedConcat
<1> QED
  BY <1>6, <1>12

LEMMA ProgramUses ==
  /\ UsesChecked(Program, 4)
  /\ Program[Len(Program) - 1].op = "check"
  /\ Program[Len(Program) - 1].files = {"bark"}
  /\ Program[Len(Program)].op = "summarize"
<1> DEFINE A == CaseSteps(Cases[1])
           B == CaseSteps(Cases[2])
           C == CaseSteps(Cases[3])
<1>1. \A i \in 1..3 : Cases[i] \in CaseIds
  BY DEF CaseIds, Range, Cases
<1>2. /\ A \in Seq(StepSet) /\ B \in Seq(StepSet) /\ C \in Seq(StepSet)
      /\ UsesChecked(A, 0) /\ UsesChecked(B, 0) /\ UsesChecked(C, 0)
  BY <1>1, CaseStepsType, CaseStepsChecked
<1>3. Prologue \in Seq(StepSet) /\ Epilogue \in Seq(StepSet)
  BY ProgramEndsType
<1>4. UsesChecked(Prologue, 4)
  <2>1. /\ Len(Prologue) = 5
        /\ Prologue[1].op = "check" /\ Prologue[2].op = "check"
        /\ Prologue[3].op = "clone" /\ Prologue[5].op = "clone"
    BY DEF Prologue, Step
  <2> QED
    BY <2>1 DEF UsesChecked, Uses
<1>5. /\ Len(Epilogue) = 2
      /\ Epilogue[1].op = "check" /\ Epilogue[1].files = {"bark"}
      /\ Epilogue[2].op = "summarize"
  BY DEF Epilogue, Step
<1>6. UsesChecked(Epilogue, 0)
  BY <1>5 DEF UsesChecked, Uses
<1> DEFINE body == Prologue \o A \o B \o C
<1>7. Program = body \o Epilogue
  BY DEF Program
<1> HIDE DEF A, B, C
<1>8. Prologue \o A \in Seq(StepSet) /\ UsesChecked(Prologue \o A, 4)
  BY <1>2, <1>3, <1>4, UsesCheckedConcat, ConcatProperties
<1>9. Prologue \o A \o B \in Seq(StepSet) /\ UsesChecked(Prologue \o A \o B, 4)
  BY <1>2, <1>8, UsesCheckedConcat, ConcatProperties
<1>10. body \in Seq(StepSet) /\ UsesChecked(body, 4)
  BY <1>2, <1>9, UsesCheckedConcat, ConcatProperties
<1> HIDE DEF body
<1>11. UsesChecked(Program, 4)
  BY <1>3, <1>6, <1>7, <1>10, UsesCheckedConcat
<1>12. /\ Len(Program) = Len(body) + 2
       /\ Program[Len(body) + 1] = Epilogue[1]
       /\ Program[Len(body) + 2] = Epilogue[2]
  <2>1. /\ Len(body \o Epilogue) = Len(body) + Len(Epilogue)
        /\ \A i \in 1..Len(body) + Len(Epilogue) :
             (body \o Epilogue)[i] = IF i <= Len(body) THEN body[i]
                                     ELSE Epilogue[i - Len(body)]
    BY <1>3, <1>10, ConcatProperties
  <2>2. Len(body) \in Nat
    BY <1>10
  <2>3. \A i \in 1..2 : /\ Len(body) + i \in 1..Len(body) + 2
                       /\ ~(Len(body) + i <= Len(body))
                       /\ Len(body) + i - Len(body) = i
    BY <2>2
  <2> QED
    BY <1>5, <1>7, <2>1, <2>3
<1> QED
  BY <1>5, <1>10, <1>11, <1>12

-----------------------------------------------------------------------------
(* What a run used while it was not pinned: such a file is still unpinned, *)
(* or was put back, and since it was used no check has looked at it.       *)

StillMoved ==
  \A r \in Runs : \A u \in run[r].stale : u[1] \in unpinned \cup restored

(* Position j of the program is the use u. *)
UsedAt(u, j) ==
  Program[j].op \in Uses /\ u[1] \in Program[j].files /\ u[2] = Program[j].case

UncheckedSince(f, j, pc) ==
  \A q \in (j + 1)..(pc - 1) :
    Program[q].op = "check" => f \notin Program[q].files

NotRechecked ==
  \A r \in Runs : run[r].pc # Stopped =>
    \A u \in run[r].stale : u[1] \notin restored =>
      \E j \in 1..(run[r].pc - 1) : UsedAt(u, j) /\ UncheckedSince(u[1], j, run[r].pc)

PcInProgram == \A r \in Runs : run[r].pc \in 0..Len(Program) + 1

StaleInv == PcInProgram /\ StillMoved /\ NotRechecked /\ StaleUseIsLast

(* Two uses of a file with no check of it in between are for one case. *)
LEMMA OneCaseBetweenChecks ==
  ASSUME NEW i \in DOMAIN Program, NEW j \in DOMAIN Program, i < j, NEW f, f # "bark",
         Program[i].op \in Uses, f \in Program[i].files,
         Program[j].op \in Uses, f \in Program[j].files,
         UncheckedSince(f, i, j)
  PROVE  Program[i].case = Program[j].case
<1>1. i \in 1..Len(Program) /\ j \in 1..Len(Program) /\ Len(Program) \in Nat
  BY ProgramStart
<1>2. j # 4
  BY <1>1, ProgramStart DEF Uses
<1>3. PICK q \in 1..(j - 1) : /\ Program[q].op = "check" /\ f \in Program[q].files
                             /\ \A k \in q..j : Program[k].case = Program[j].case
  BY <1>1, <1>2, ProgramUses DEF UsesChecked, CheckedForCase
<1>4. q <= i
  BY <1>1, <1>3 DEF UncheckedSince
<1> QED
  BY <1>1, <1>3, <1>4

(* What one step of a run does to its position and to its stale uses. *)
LEMMA StepOnStale ==
  ASSUME RunShape, NEW r \in Runs, RunStep(r)
  PROVE  /\ unpinned' = unpinned /\ restored' = restored
         /\ \A s \in Runs : s # r => run'[s] = run[s]
         /\ run[r].pc \in DOMAIN Program
         /\ \/ run'[r].pc = 0 /\ run'[r].stale = run[r].stale
            \/ /\ run'[r].pc = run[r].pc + 1
               /\ Now(r).op = "check" => Now(r).files \cap unpinned = {}
               /\ \/ run'[r].stale = run[r].stale
                  \/ /\ Now(r).op \in Uses
                     /\ run'[r].stale = run[r].stale \cup StaleUses(r)
<1> DEFINE op == Now(r).op
           Others == \A s \in Runs : s # r => run'[s] = run[s]
           Stops == run'[r].pc = 0 /\ run'[r].stale = run[r].stale
           Moves == run'[r].pc = run[r].pc + 1
           Same == run'[r].stale = run[r].stale
           Stales == run'[r].stale = run[r].stale \cup StaleUses(r)
           Framed == /\ unpinned' = unpinned /\ restored' = restored
                     /\ run[r].pc \in DOMAIN Program
<1>1. Stop(r) => Others /\ Stops
  BY StopEffect
<1>2. Continue(r) => Others /\ Moves /\ Same
  BY ContinueEffect
<1>3. Goto(r, Used(r)) => Others /\ Moves /\ Stales
  BY UsedEffect
<1>4. ASSUME Check(r)
      PROVE  Framed /\ (Stop(r) \/ (Continue(r) /\ Now(r).files \cap unpinned = {}))
  BY <1>4 DEF Check, Proceed, At
<1>5. ASSUME Clone(r)
      PROVE  Framed /\ op = "clone" /\ (Stop(r) \/ Continue(r))
  BY <1>5 DEF Clone, At, Now
<1>6. ASSUME Use(r) \/ Emit(r)
      PROVE  Framed /\ op \in Uses /\ op # "check" /\ (Stop(r) \/ Goto(r, Used(r)))
  <2>1. CASE Use(r)
    BY <2>1 DEF Use, At, Now, Uses
  <2>2. CASE Emit(r)
    <3>1. Stop(r) \/ Goto(r, Used(r))
      BY <2>2 DEF Emit
    <3>2. Framed /\ op = "emit"
      BY <2>2 DEF Emit, At, Now
    <3> QED
      BY <3>1, <3>2 DEF Uses
  <2> QED
    BY <1>6, <2>1, <2>2
<1>7. ASSUME Read(r)
      PROVE  Framed /\ op = "read" /\ Others /\ (Stops \/ (Moves /\ Same))
  <2> DEFINE bytes == disk[Now(r).case].receipt.bytes
  <2>1. Stop(r) \/ Goto(r, [run[r] EXCEPT !.pc = @ + 1, !.held = bytes])
    BY <1>7 DEF Read
  <2>2. Framed /\ op = "read"
    BY <1>7 DEF Read, At, Now
  <2> HIDE DEF bytes
  <2>3. Goto(r, [run[r] EXCEPT !.pc = @ + 1, !.held = bytes]) => Others /\ Moves /\ Same
    BY ReadEffect
  <2> QED
    BY <1>1, <2>1, <2>2, <2>3
<1>8. ASSUME Report(r) \/ Summarize(r)
      PROVE  Framed /\ op # "check" /\ Continue(r)
  <2>1. CASE Report(r)
    BY <2>1 DEF Report, At, Now
  <2>2. CASE Summarize(r)
    BY <2>2 DEF Summarize, At, Now
  <2> QED
    BY <1>8, <2>1, <2>2
<1>9. ASSUME Judge(r)
      PROVE  Framed /\ op = "judge" /\ Others /\ (Stops \/ (Moves /\ Same))
  <2>1. PICK entry : \/ Stop(r)
                     \/ Goto(r, [run[r] EXCEPT !.pc = @ + 1, !.summary = @ \cup {entry}])
    BY <1>9 DEF Judge
  <2>2. Framed /\ op = "judge"
    BY <1>9 DEF Judge, At, Now
  <2>3. Goto(r, [run[r] EXCEPT !.pc = @ + 1, !.summary = @ \cup {entry}])
          => Others /\ Moves /\ Same
    BY JudgeEffect
  <2> QED
    BY <1>1, <2>1, <2>2, <2>3
<1> HIDE DEF op, Others, Stops, Moves, Same, Stales, Framed
<1>10. /\ Framed /\ Others
       /\ \/ Stops
          \/ /\ Moves
             /\ op = "check" => Now(r).files \cap unpinned = {}
             /\ Same \/ (op \in Uses /\ Stales)
  <2>1. "clone" # "check" /\ "read" # "check" /\ "judge" # "check"
    OBVIOUS
  <2> QED
    BY <1>1, <1>2, <1>3, <1>4, <1>5, <1>6, <1>7, <1>8, <1>9, <2>1, Zenon DEF RunStep
<1> QED
  BY <1>10 DEF op, Others, Stops, Moves, Same, Stales, Framed

LEMMA StepKeepsStale ==
  ASSUME LockInv, StaleInv, NEW r \in Runs, RunStep(r)
  PROVE  StaleInv'
<1>1. RunShape /\ Len(Program) \in Nat /\ DOMAIN Program = 1..Len(Program)
  BY ProgramStart DEF LockInv
<1> DEFINE pc == run[r].pc
<1>2. /\ unpinned' = unpinned /\ restored' = restored
      /\ \A s \in Runs : s # r => run'[s] = run[s]
      /\ pc \in 1..Len(Program)
  BY <1>1, StepOnStale
<1>3. CASE run'[r].pc = 0 /\ run'[r].stale = run[r].stale
  <2>1. \A s \in Runs : run'[s].stale = run[s].stale
    BY <1>2, <1>3
  <2>2. PcInProgram'
    BY <1>1, <1>2, <1>3 DEF StaleInv, PcInProgram
  <2>3. NotRechecked'
    BY <1>2, <1>3 DEF StaleInv, NotRechecked, UsedAt, UncheckedSince, Stopped
  <2> QED
    BY <1>2, <2>1, <2>2, <2>3 DEF StaleInv, StillMoved, StaleUseIsLast
<1>4. CASE /\ run'[r].pc = pc + 1
           /\ Now(r).op = "check" => Now(r).files \cap unpinned = {}
           /\ \/ run'[r].stale = run[r].stale
              \/ /\ Now(r).op \in Uses
                 /\ run'[r].stale = run[r].stale \cup StaleUses(r)
  <2>1. PcInProgram'
    BY <1>1, <1>2, <1>4 DEF StaleInv, PcInProgram
  <2>2. \A u \in run'[r].stale :
          \/ u \in run[r].stale
          \/ /\ Now(r).op \in Uses
             /\ u[1] \in Now(r).files /\ u[1] \in unpinned /\ u[2] = Now(r).case
    BY <1>4 DEF StaleUses
  <2>3. StillMoved'
    BY <1>2, <2>2 DEF StaleInv, StillMoved
  <2>4. \A u \in run[r].stale : u[1] \notin restored =>
          \E j \in 1..(pc - 1) : UsedAt(u, j) /\ UncheckedSince(u[1], j, pc)
    BY <1>2 DEF StaleInv, NotRechecked, Stopped
  <2>5. \A u \in run'[r].stale : u[1] \notin restored =>
          \E j \in 1..pc : UsedAt(u, j) /\ UncheckedSince(u[1], j, pc + 1)
    <3> SUFFICES ASSUME NEW u \in run'[r].stale, u[1] \notin restored
                 PROVE  \E j \in 1..pc : UsedAt(u, j) /\ UncheckedSince(u[1], j, pc + 1)
      OBVIOUS
    <3>1. CASE u \in run[r].stale
      <4>1. PICK j \in 1..(pc - 1) : UsedAt(u, j) /\ UncheckedSince(u[1], j, pc)
        BY <2>4, <3>1
      <4>2. Program[pc].op = "check" => u[1] \notin Program[pc].files
        BY <1>4, <3>1 DEF StaleInv, StillMoved, Now
      <4>3. UncheckedSince(u[1], j, pc + 1)
        BY <1>1, <1>2, <4>1, <4>2, SMTT(30) DEF UncheckedSince
      <4> QED
        BY <1>1, <1>2, <4>1, <4>3
    <3>2. CASE u \notin run[r].stale
      BY <1>1, <1>2, <2>2, <3>2 DEF UsedAt, UncheckedSince, Now
    <3> QED
      BY <3>1, <3>2
  <2>6. NotRechecked'
    <3> DEFINE Left(stale, at) ==
          \A u \in stale : u[1] \notin restored =>
            \E j \in 1..(at - 1) : UsedAt(u, j) /\ UncheckedSince(u[1], j, at)
    <3>1. \A s \in Runs : run[s].pc # Stopped => Left(run[s].stale, run[s].pc)
      BY DEF StaleInv, NotRechecked
    <3>2. Left(run'[r].stale, run'[r].pc)
      <4>1. 1..((pc + 1) - 1) = 1..pc
        BY <1>2
      <4>2. Left(run'[r].stale, pc + 1)
        BY <2>5, <4>1, Zenon
      <4> HIDE DEF Left
      <4> QED
        BY <1>4, <4>2
    <3> HIDE DEF Left
    <3>3. \A s \in Runs : run'[s].pc # Stopped => Left(run'[s].stale, run'[s].pc)
      BY <1>2, <3>1, <3>2
    <3>4. restored' = restored
      BY <1>2
    <3> QED
      BY <3>3, <3>4 DEF Left, NotRechecked, UsedAt, UncheckedSince, Stopped
  <2>7. \A u \in run[r].stale, v \in run'[r].stale :
          u[1] = v[1] /\ u[1] \notin restored \cup {"bark"} => u[2] = v[2]
    <3> SUFFICES ASSUME NEW u \in run[r].stale, NEW v \in run'[r].stale,
                        u[1] = v[1], u[1] \notin restored \cup {"bark"},
                        v \notin run[r].stale
                 PROVE  u[2] = v[2]
      BY DEF StaleInv, StaleUseIsLast
    <3>1. PICK j \in 1..(pc - 1) : UsedAt(u, j) /\ UncheckedSince(u[1], j, pc)
      BY <2>4
    <3>2. UsedAt(v, pc)
      BY <2>2 DEF UsedAt, Now
    <3>3. j \in DOMAIN Program /\ pc \in DOMAIN Program /\ j < pc
      BY <1>1, <1>2
    <3>4. Program[j].case = Program[pc].case
      BY <3>1, <3>2, <3>3, OneCaseBetweenChecks DEF UsedAt
    <3> QED
      BY <3>1, <3>2, <3>4 DEF UsedAt
  <2>8. \A u, v \in run'[r].stale :
          u[1] = v[1] /\ u[1] \notin restored \cup {"bark"} => u[2] = v[2]
    <3> SUFFICES ASSUME NEW u \in run'[r].stale, NEW v \in run'[r].stale,
                        u[1] = v[1], u[1] \notin restored \cup {"bark"}
                 PROVE  u[2] = v[2]
      OBVIOUS
    <3>1. CASE u \in run[r].stale \/ v \in run[r].stale
      BY <2>7, <3>1
    <3>2. CASE u \notin run[r].stale /\ v \notin run[r].stale
      BY <2>2, <3>2
    <3> QED
      BY <3>1, <3>2
  <2>9. StaleUseIsLast'
    BY <1>2, <2>8 DEF StaleInv, StaleUseIsLast
  <2> QED
    BY <2>1, <2>3, <2>6, <2>9 DEF StaleInv
<1> QED
  BY <1>1, <1>3, <1>4, StepOnStale

(* Undoing an edit only excuses uses, making one keeps files unpinned. *)
LEMMA OthersKeepStale ==
  ASSUME StaleInv,
         \/ \E f \in Files : Edit(f)
         \/ \E from, to \in CaseIds : CopyReceipt(from, to)
         \/ UNCHANGED vars
  PROVE  StaleInv'
<1>1. /\ run' = run
      /\ restored \subseteq restored'
      /\ unpinned \cup restored \subseteq unpinned' \cup restored'
  BY DEF Edit, CopyReceipt, vars
<1>2. PcInProgram' /\ StillMoved'
  BY <1>1 DEF StaleInv, PcInProgram, StillMoved
<1>3. NotRechecked'
  BY <1>1 DEF StaleInv, NotRechecked, UsedAt, UncheckedSince
<1>4. StaleUseIsLast'
  BY <1>1 DEF StaleInv, StaleUseIsLast
<1> QED
  BY <1>2, <1>3, <1>4 DEF StaleInv

LEMMA StaleInvariant == Spec => []StaleInv
<1>1. Init => StaleInv
  <2> SUFFICES ASSUME Init PROVE StaleInv
    OBVIOUS
  <2>1. \A r \in Runs : run[r].pc = 1 /\ run[r].stale = {}
    BY DEF Init
  <2> QED
    BY <2>1, ProgramStart
    DEF StaleInv, PcInProgram, StillMoved, NotRechecked, StaleUseIsLast
<1>2. LockInv /\ StaleInv /\ [Next]_vars => StaleInv'
  BY StepKeepsStale, OthersKeepStale DEF Next
<1> QED
  BY <1>1, <1>2, LockInvariant, PTL DEF Spec

(* A file that was replaced and not put back is used for one case at most, *)
(* of Bark excepted, for any number of runs and edits.                     *)
THEOREM StaleUsesEnd == Spec => []StaleUseIsLast
<1>1. StaleInv => StaleUseIsLast
  BY DEF StaleInv
<1> QED
  BY <1>1, StaleInvariant, PTL

(* A run that completes has not used moved Bark sources unless they were   *)
(* put back: whatever was used stayed unpinned up to the check of Bark     *)
(* that is the last step before the summary.                               *)
THEOREM MovedBarkCaught == Spec => []BarkMovementDetected
<1>1. StaleInv => BarkMovementDetected
  <2> SUFFICES ASSUME StaleInv, NEW r \in Runs, run[r].pc = Done,
                      "bark" \notin restored,
                      NEW u \in run[r].stale, u[1] = "bark"
               PROVE  FALSE
    BY DEF BarkMovementDetected
  <2>1. Len(Program) \in Nat /\ Len(Program) >= 5
    BY ProgramStart
  <2>2. PICK j \in 1..Len(Program) :
          UsedAt(u, j) /\ UncheckedSince("bark", j, Len(Program) + 1)
    BY <2>1 DEF StaleInv, NotRechecked, Stopped, Done
  <2>3. j # Len(Program) - 1 /\ j # Len(Program)
    BY <2>2, ProgramUses DEF UsedAt, Uses
  <2>4. Len(Program) - 1 \in (j + 1)..Len(Program)
    BY <2>1, <2>3
  <2> QED
    BY <2>1, <2>2, <2>4, ProgramUses DEF UncheckedSince
<1> QED
  BY <1>1, StaleInvariant, PTL
=============================================================================
