------------------------- MODULE HealthStatusProofs -------------------------
(***************************************************************************)
(* Theorems about HealthStatus, on both platforms, for every drive and for *)
(* any number of runs.                                                     *)
(***************************************************************************)
EXTENDS HealthStatus, TLAPS

Types ==
    /\ failing \in BOOLEAN /\ err \in BOOLEAN /\ arrived \in BOOLEAN
    /\ wasFailing \in BOOLEAN /\ warned \in BOOLEAN
    /\ verdict \in {"none", "PASSED", "FAILED"}

(* The drive does not recover.                                             *)
WearInv == /\ wasFailing => failing
           /\ verdict = "FAILED" => failing

(* A clear answer in the buffer is the drive's.                            *)
AnswerInv == pc = "decode" /\ ~err =>
    /\ regs = Fails => arrived /\ wasFailing
    /\ regs = Passed => arrived /\ ~wasFailing

(* The command that is being decoded came after the last report.           *)
OrderInv == pc = "decode" /\ verdict = "FAILED" => wasFailing

IInv == Types /\ WearInv /\ AnswerInv /\ OrderInv /\ VerdictIsTheDrives

(* The two answers differ in both registers.                               *)
LEMMA AnswersDiffer == /\ Passed # Fails /\ Passed # Zero /\ Fails # Zero
                       /\ Passed[1] = 79 /\ Passed[2] = 194
                       /\ Fails[1] = 244 /\ Fails[2] = 44
  BY DEF Passed, Fails, Zero

(* Registers that come back garbled have two bytes, and are no answer.     *)
LEMMA GarbledIsNoAnswer ==
    ASSUME NEW r \in ({79, 244, 0} \X {194, 44, 0}) \ {Passed, Fails}
    PROVE  r # Passed /\ r # Fails
  OBVIOUS

(* The registers in the buffer are a pair.                                 *)
PairInv == regs \in (0 .. 255) \X (0 .. 255)

(* A pattern that matches is the answer.                                   *)
LEMMA MatchIsAnswer ==
    ASSUME PairInv
    PROVE  /\ Matches(regs, Passed) <=> regs = Passed
           /\ Matches(regs, Fails) <=> regs = Fails
  BY DEF PairInv, Matches, Passed, Fails

(* Requests and replies are pairs of bytes.                                *)
LEMMA PairsStayPairs == PairInv /\ [Next]_vars => PairInv'
<1> SUFFICES ASSUME PairInv, [Next]_vars PROVE PairInv'
  OBVIOUS
<1>1. CASE Issue
  BY <1>1 DEF Issue, Request, Zero, Passed, PairInv
<1>2. CASE DriveHandles
  <2>1. CASE UNCHANGED regs
    BY <2>1 DEF PairInv
  <2>2. CASE regs' = IF failing THEN Fails ELSE Passed
    BY <2>2 DEF Fails, Passed, PairInv
  <2> QED
    BY <1>2, <2>1, <2>2 DEF DriveHandles
<1>3. CASE Lost
  <2>1. CASE UNCHANGED regs
    BY <2>1 DEF PairInv
  <2>2. CASE regs' \in ({79, 244, 0} \X {194, 44, 0}) \ {Passed, Fails}
    BY <2>2 DEF PairInv
  <2> QED
    BY <1>3, <2>1, <2>2 DEF Lost
<1>4. CASE UNCHANGED regs
  BY <1>4 DEF PairInv
<1> QED
  BY <1>1, <1>2, <1>3, <1>4 DEF Next, Degrade, Decode, vars

-----------------------------------------------------------------------------
(* Every step keeps the invariant.                                         *)
LEMMA StepKeepsIInv == IInv /\ PairInv /\ [Next]_vars => IInv'
<1> SUFFICES ASSUME IInv, PairInv, [Next]_vars PROVE IInv'
  OBVIOUS
<1> USE DEF IInv
<1>1. CASE Degrade
  BY <1>1 DEF Degrade, Types, WearInv, AnswerInv, OrderInv, VerdictIsTheDrives
<1>2. CASE Issue
  BY <1>2 DEF Issue, Types, WearInv, AnswerInv, OrderInv, VerdictIsTheDrives
<1>3. CASE DriveHandles
  <2>1. Types' /\ WearInv' /\ OrderInv' /\ VerdictIsTheDrives'
    BY <1>3 DEF DriveHandles, Types, WearInv, OrderInv, VerdictIsTheDrives
  <2>2. AnswerInv'
    BY <1>3, AnswersDiffer DEF DriveHandles, AnswerInv, Types
  <2> QED
    BY <2>1, <2>2
<1>4. CASE Lost
  <2>1. Types' /\ WearInv' /\ OrderInv' /\ VerdictIsTheDrives'
    BY <1>4 DEF Lost, Types, WearInv, OrderInv, VerdictIsTheDrives
  <2>2. ~err' => regs' # Passed /\ regs' # Fails
    BY <1>4, GarbledIsNoAnswer DEF Lost
  <2> QED
    BY <2>1, <2>2 DEF AnswerInv
<1>5. CASE Decode
  <2>1. Types' /\ AnswerInv' /\ OrderInv'
    BY <1>5 DEF Decode, Types, AnswerInv, OrderInv
  <2>2. /\ verdict' = "FAILED" => regs = Fails /\ ~err /\ ~warned'
        /\ verdict' = "PASSED" /\ ~warned' => regs = Passed /\ ~err
    BY <1>5, MatchIsAnswer, AnswersDiffer DEF Decode
  <2>3. UNCHANGED <<arrived, wasFailing, failing>> /\ pc = "decode"
    BY <1>5 DEF Decode
  <2> QED
    BY <2>1, <2>2, <2>3 DEF AnswerInv, WearInv, VerdictIsTheDrives
<1>6. CASE UNCHANGED vars
  BY <1>6 DEF vars, Types, WearInv, AnswerInv, OrderInv, VerdictIsTheDrives
<1> QED
  BY <1>1, <1>2, <1>3, <1>4, <1>5, <1>6 DEF Next

(* It holds of every behaviour.                                            *)
LEMMA Invariant == Spec => [](IInv /\ PairInv)
<1>1. Init => IInv
  BY DEF Init, IInv, Types, WearInv, AnswerInv, OrderInv, VerdictIsTheDrives
<1>2. Init => PairInv
  BY DEF Init, Zero, PairInv
<1>3. IInv /\ PairInv /\ [Next]_vars => IInv' /\ PairInv'
  BY StepKeepsIInv, PairsStayPairs
<1> QED
  BY <1>1, <1>2, <1>3, PTL DEF Spec

(* A verdict without a warning was given by the drive itself, for the      *)
(* state it was in when it handled the command (linux.go:106-115,          *)
(* windows.go:163-173).                                                    *)
THEOREM VerdictsAreTheDrives == Spec => []VerdictIsTheDrives
<1>1. IInv => VerdictIsTheDrives
  BY DEF IInv
<1> QED
  BY <1>1, Invariant, PTL

(* After a FAILED report no later one is PASSED without a warning: the     *)
(* status is asked for anew in each run and a drive does not recover.      *)
THEOREM FailedStaysFailed == Spec => NoRelapse
<1>1. IInv /\ PairInv /\ [Next]_vars
        => [verdict = "FAILED" /\ verdict' = "PASSED" => warned']_vars
  <2> SUFFICES ASSUME IInv, PairInv, [Next]_vars,
                      verdict = "FAILED", verdict' = "PASSED"
               PROVE  warned'
    OBVIOUS
  <2>1. Decode
    BY DEF Next, Degrade, Issue, DriveHandles, Lost, vars
  <2>2. regs # Passed \/ err
    BY <2>1 DEF Decode, IInv, AnswerInv, OrderInv
  <2>3. ~(regs = Fails /\ ~err)
    BY <2>1, MatchIsAnswer, AnswersDiffer DEF Decode
  <2> QED
    BY <2>1, <2>2, <2>3, MatchIsAnswer DEF Decode, IInv, Types
<1> QED
  BY <1>1, Invariant, PTL DEF Spec, NoRelapse
=============================================================================
