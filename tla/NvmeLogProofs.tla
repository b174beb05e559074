--------------------------- MODULE NvmeLogProofs ----------------------------
(***************************************************************************)
(* Theorems about module NvmeLog, for every set of counters, every width   *)
(* of the integers, every size of the error log and any number of runs.    *)
(***************************************************************************)
EXTENDS NvmeLog, TLAPS

-----------------------------------------------------------------------------
(* The inductive invariant.                                                *)

Pages512 == [present : BOOLEAN, refused : BOOLEAN, value : [Fields -> Nat]]

TypeInv ==
    /\ count \in [Fields -> Nat] /\ seen \in [Fields -> Nat]
    /\ bytes \in [Fields -> Nat]
    /\ most \in [Fields -> Nat] /\ mostBytes \in [Fields -> Nat]
    /\ errors \in [1 .. LogSize -> Nat] /\ base \in 0 .. count[NumErr]
    /\ pc \in 1 .. InGet
    /\ sl \in Pages512

(* An error log that starts with error number top and goes down to the     *)
(* first error after the reset at b.                                       *)
Starts(entries, top, b) ==
    /\ entries \in [1 .. LogSize -> Nat]
    /\ \A i \in 1 .. LogSize :
          entries[i] = IF top - i + 1 > b THEN top - i + 1 ELSE 0

DriveInv == Starts(errors, count[NumErr], base)

(* Everything that was shown of a counter, what has been read of it and    *)
(* the counter itself are in this order as long as it fits.                *)
OrderInv ==
    \A f \in Fields : count[f] < Range64 =>
        /\ most[f] <= count[f]
        /\ sl.present /\ ~sl.refused =>
              most[f] <= sl.value[f] /\ sl.value[f] <= count[f]

(* The same for the amounts.                                               *)
AmountInv ==
    \A f \in Fields : f \in DataUnits /\ count[f] * Unit < Range64 =>
        /\ mostBytes[f] <= count[f] * Unit
        /\ sl.present /\ ~sl.refused => mostBytes[f] <= sl.value[f] * Unit

(* The largest value shown is no less than the last one.                   *)
LargestInv ==
    \A f \in Fields : seen[f] <= most[f] /\ bytes[f] <= mostBytes[f]

(* A refused page is in hand on Linux only, and it is zero.                *)
RefusedInv ==
    /\ sl.refused => platform = "linux" /\ \A f \in Fields : sl.value[f] = 0
    /\ el.refused => platform = "linux" /\ el.entries = Zeros

(* An error log in hand starts no earlier than the number in hand, and get *)
(* mode holds a page.                                                      *)
ReadInv ==
    /\ pc = InGet => sl.present
    /\ pc # 3 => ~el.present
    /\ el.present /\ ~el.refused => \E top \in Nat :
          /\ Starts(el.entries, top, el.base) /\ el.base \in Nat
          /\ sl.present /\ count[NumErr] < Range64 => sl.value[NumErr] <= top

IInv == /\ TypeInv /\ DriveInv /\ OrderInv /\ AmountInv /\ LargestInv
        /\ RefusedInv /\ ReadInv
        /\ CountedErrorsAreListed

-----------------------------------------------------------------------------
(* Lemmas about the operators.                                             *)

(* A number that fits is not changed by the conversion to 64 bits.         *)
LEMMA FitsUnchanged ==
    ASSUME NEW n \in Nat, n < Range64
    PROVE  n % Range64 = n
<1> DEFINE r == Range64
<1>1. r \in Nat \ {0} /\ n \in 0 .. (r - 1)
  BY RangeAssumption
<1> QED BY <1>1, SMT

(* Conversion gives a natural number.                                      *)
LEMMA ConvertedType ==
    ASSUME NEW n \in Nat
    PROVE  n % Range64 \in Nat
BY RangeAssumption

(* More units are no fewer bytes.                                          *)
LEMMA MoreUnits ==
    ASSUME NEW m \in Nat, NEW n \in Nat, m <= n
    PROVE  m * Unit \in Nat /\ n * Unit \in Nat /\ m * Unit <= n * Unit
<1> DEFINE u == Unit
           k == n - m
<1>1. u \in Nat /\ k \in Nat /\ n = m + k
  BY RangeAssumption
<1>2. k * u \in Nat /\ m * u \in Nat
  BY <1>1
<1>3. (m + k) * u = m * u + k * u
  BY <1>1
<1> QED BY <1>1, <1>2, <1>3

(* Units are no more than the bytes in them.                               *)
LEMMA UnitsFit ==
    ASSUME NEW n \in Nat, n * Unit < Range64
    PROVE  n < Range64
<1> DEFINE u == Unit
           k == u - 1
<1>1. u \in Nat /\ k \in Nat /\ u = k + 1 /\ Range64 \in Nat
  BY RangeAssumption
<1>2. n * k \in Nat /\ n * (k + 1) = n * k + n
  BY <1>1
<1> QED BY <1>1, <1>2

(* The parser keeps the counters that fit, and zeros.                      *)
LEMMA ParsedCounters ==
    ASSUME NEW c \in [Fields -> Nat]
    PROVE  /\ ParseSmartLog(c) \in [Fields -> Nat]
           /\ \A f \in Fields : c[f] < Range64 => ParseSmartLog(c)[f] = c[f]
<1>1. \A f \in Fields : le128lo64(c[f]) \in Nat
  BY ConvertedType DEF le128lo64
<1>2. \A f \in Fields : c[f] < Range64 => le128lo64(c[f]) = c[f]
  BY FitsUnchanged DEF le128lo64
<1> QED BY <1>1, <1>2 DEF ParseSmartLog

(* A page that has been read holds the counters that fit, a refused one    *)
(* zeros.                                                                  *)
LEMMA PageHoldsCounters ==
    ASSUME TypeInv, NEW answer
    PROVE  /\ SmartPage(answer) \in Pages512
           /\ answer # "error" => SmartPage(answer).present
           /\ SmartPage(answer).refused => answer = "zeroed"
           /\ SmartPage(answer).refused =>
                 \A f \in Fields : SmartPage(answer).value[f] = 0
           /\ SmartPage(answer).present /\ ~SmartPage(answer).refused =>
                 \A f \in Fields : count[f] < Range64 =>
                    SmartPage(answer).value[f] = count[f]
<1>0. count \in [Fields -> Nat] /\ ZeroCount \in [Fields -> Nat]
  BY DEF TypeInv, ZeroCount
<1>1. CASE answer = "error"
  BY <1>0, <1>1 DEF SmartPage, NoPage, Pages512
<1>2. CASE answer = "zeroed"
  <2>1. SmartPage(answer) = [present |-> TRUE, refused |-> TRUE,
                             value |-> ParseSmartLog(ZeroCount)]
    BY <1>2 DEF SmartPage
  <2>2. ParseSmartLog(ZeroCount) \in [Fields -> Nat]
        /\ \A f \in Fields : ParseSmartLog(ZeroCount)[f] = 0
    <3>1. \A f \in Fields : ZeroCount[f] = 0 /\ 0 < Range64
      BY RangeAssumption DEF ZeroCount
    <3> QED BY <1>0, <3>1, ParsedCounters
  <2>3. SmartPage(answer) \in Pages512
    BY <2>1, <2>2 DEF Pages512
  <2> QED BY <1>2, <2>1, <2>2, <2>3
<1>3. CASE answer \notin {"error", "zeroed"}
  <2>1. SmartPage(answer) = [present |-> TRUE, refused |-> FALSE,
                             value |-> ParseSmartLog(count)]
    BY <1>3 DEF SmartPage
  <2> QED BY <1>0, <1>3, <2>1, ParsedCounters DEF Pages512
<1> QED BY <1>1, <1>2, <1>3

(* Only Linux hands a refused page to the program.                         *)
LEMMA OnlyLinuxZeroes ==
    ASSUME NEW c \in {"SmartLogPage", "ErrorLogPage"},
           "zeroed" \in NVMeAnswers(platform, c)
    PROVE  platform = "linux"
<1> SUFFICES ASSUME platform # "linux" PROVE FALSE
  OBVIOUS
<1>1. PICK r \in WindowsNVMeReply(c) : "zeroed" = nvmeQuery(r)
  BY DEF NVMeAnswers
<1>2. r.page \in Pages(c)
  BY DEF WindowsNVMeReply
<1>3. "zeroed" \notin Pages(c)
  <2>1. CASE c = "SmartLogPage"
    BY <2>1 DEF Pages
  <2>2. CASE c = "ErrorLogPage"
    BY <2>2 DEF Pages
  <2> QED BY <2>1, <2>2
<1> QED BY <1>1, <1>2, <1>3 DEF nvmeQuery

(* The larger of two values.                                               *)
LEMMA LargerOfBoth ==
    ASSUME NEW old \in [Fields -> Nat], NEW new \in [Fields -> Nat]
    PROVE  /\ Larger(old, new) \in [Fields -> Nat]
           /\ \A f \in Fields : Larger(old, new)[f] \in {old[f], new[f]}
BY DEF Larger

(* The rows of an error log are its entries down to the last reset.        *)
LEMMA RowsOfLog ==
    ASSUME NEW entries, NEW top \in Nat, NEW b \in Nat, NEW n \in Nat,
           Starts(entries, top, b), n > b, n <= top
    PROVE  Lists(printNVMeErrorLog(entries), b, n)
<1> DEFINE rows == printNVMeErrorLog(entries)
<1>0. LogSize \in Nat \ {0}
  BY RangeAssumption
<1>1. /\ DOMAIN rows = {j \in 1 .. LogSize : entries[j] > 0}
      /\ \A j \in DOMAIN rows : rows[j] = entries[j]
  BY DEF printNVMeErrorLog, Starts
<1>2. \A j \in 1 .. LogSize :
         entries[j] = IF top - j + 1 > b THEN top - j + 1 ELSE 0
  BY DEF Starts
<1>3. \A j \in 1 .. LogSize : entries[j] > 0 <=> top - j + 1 > b
  BY <1>0, <1>2
<1> HIDE DEF rows
<1>4. 1 \in DOMAIN rows /\ rows[1] = top
  BY <1>0, <1>1, <1>2, <1>3
<1>5. ASSUME NEW i \in DOMAIN rows, i > 1
      PROVE  i - 1 \in DOMAIN rows /\ rows[i - 1] = rows[i] + 1
  <2>1. i \in 1 .. LogSize /\ i - 1 \in 1 .. LogSize /\ top - i + 1 > b
    BY <1>0, <1>1, <1>3, <1>5
  <2>2. entries[i] = top - i + 1 /\ entries[i - 1] = top - (i - 1) + 1
    BY <1>2, <2>1
  <2> QED BY <1>1, <1>3, <2>1, <2>2
<1>6. ASSUME NEW e \in b + 1 .. n, ~(rows[1] - e >= LogSize)
      PROVE  \E i \in DOMAIN rows : rows[i] = e
  <2> DEFINE i == top - e + 1
  <2>1. i \in 1 .. LogSize /\ top - i + 1 = e /\ e > b
    BY <1>0, <1>4, <1>6
  <2>2. entries[i] = e /\ entries[i] > 0
    BY <1>2, <1>3, <2>1
  <2> QED BY <1>1, <2>1, <2>2
<1>7. Lists(rows, b, n)
  BY <1>4, <1>5, <1>6 DEF Lists
<1> QED BY <1>7 DEF rows

-----------------------------------------------------------------------------
(* The steps of the drive.                                                 *)

(* Counting on disturbs nothing that gosmart has read or shown.            *)
LEMMA CountingOn ==
    ASSUME IInv, count' \in [Fields -> Nat],
           \A f \in Fields : count[f] <= count'[f],
           UNCHANGED <<platform, pc, sl, el, shownVars, report>>
    PROVE  /\ OrderInv' /\ AmountInv' /\ RefusedInv' /\ ReadInv'
           /\ LargestInv' /\ CountedErrorsAreListed'
<1>0. /\ Range64 \in Nat /\ NumErr \in Fields
      /\ \A f \in Fields : count[f] \in Nat /\ count'[f] \in Nat
      /\ most' = most /\ mostBytes' = mostBytes
      /\ \A f \in Fields : most[f] \in Nat /\ mostBytes[f] \in Nat
      /\ \A f \in Fields : sl.value[f] \in Nat
  BY RangeAssumption, FieldsAssumption DEF IInv, TypeInv, Pages512, shownVars
<1>1. \A f \in Fields : count'[f] < Range64 => count[f] < Range64
  BY <1>0
<1>2. OrderInv'
  BY <1>0, <1>1 DEF IInv, OrderInv
<1>3. AmountInv'
  <2> SUFFICES ASSUME NEW f \in Fields, f \in DataUnits,
                      count'[f] * Unit < Range64
               PROVE  /\ mostBytes[f] <= count'[f] * Unit
                      /\ sl.present /\ ~sl.refused =>
                            mostBytes[f] <= sl.value[f] * Unit
    BY <1>0 DEF AmountInv
  <2>1. /\ count[f] * Unit <= count'[f] * Unit
        /\ count[f] * Unit \in Nat /\ count'[f] * Unit \in Nat
    BY <1>0, MoreUnits
  <2>2. count[f] * Unit < Range64
    BY <1>0, <2>1
  <2>3. /\ mostBytes[f] <= count[f] * Unit
        /\ sl.present /\ ~sl.refused => mostBytes[f] <= sl.value[f] * Unit
    BY <2>2 DEF IInv, AmountInv
  <2> QED BY <1>0, <2>1, <2>3
<1>4. ReadInv'
  BY <1>0, <1>1 DEF IInv, ReadInv
<1>5. CountedErrorsAreListed'
  BY <1>0, <1>1 DEF IInv, CountedErrorsAreListed, RefusedOnLinux
<1>6. RefusedInv' /\ LargestInv'
  BY DEF IInv, RefusedInv, LargestInv, shownVars
<1> QED BY <1>2, <1>3, <1>4, <1>5, <1>6

(* What the drive does between two commands and between two runs.          *)
LEMMA DriveStep ==
    ASSUME IInv, (\E f \in Fields, n \in Jumps : Grow(f, n)) \/ LogError \/ Reset
    PROVE  IInv'
<1>0. /\ LogSize \in Nat \ {0} /\ NumErr \in Fields /\ Jumps \subseteq Nat
      /\ count \in [Fields -> Nat] /\ count[NumErr] \in Nat
      /\ base \in 0 .. count[NumErr]
  BY RangeAssumption, FieldsAssumption DEF IInv, TypeInv
<1>1. ASSUME NEW f \in Fields, NEW n \in Jumps, Grow(f, n)
      PROVE  IInv'
  <2>1. /\ count' \in [Fields -> Nat] /\ count'[NumErr] = count[NumErr]
        /\ \A g \in Fields : count[g] <= count'[g]
    BY <1>0, <1>1 DEF Grow
  <2>2. /\ OrderInv' /\ AmountInv' /\ RefusedInv' /\ ReadInv'
        /\ LargestInv' /\ CountedErrorsAreListed'
    BY <1>1, <2>1, CountingOn DEF Grow
  <2>3. TypeInv'
    BY <1>1, <2>1 DEF IInv, TypeInv, Grow, shownVars
  <2>4. DriveInv'
    BY <1>1, <2>1 DEF IInv, DriveInv, Starts, Grow
  <2> QED BY <2>2, <2>3, <2>4 DEF IInv
<1>2. CASE LogError
  <2>1. /\ count' \in [Fields -> Nat] /\ count'[NumErr] = count[NumErr] + 1
        /\ \A g \in Fields : count[g] <= count'[g]
    BY <1>0, <1>2 DEF LogError
  <2>2. /\ OrderInv' /\ AmountInv' /\ RefusedInv' /\ ReadInv'
        /\ LargestInv' /\ CountedErrorsAreListed'
    BY <1>2, <2>1, CountingOn DEF LogError
  <2>3. errors' \in [1 .. LogSize -> Nat]
    BY <1>0, <1>2 DEF IInv, TypeInv, LogError
  <2>4. TypeInv'
    <3>1. base' \in 0 .. count'[NumErr]
      BY <1>0, <1>2, <2>1 DEF LogError
    <3> QED BY <1>2, <2>1, <2>3, <3>1 DEF IInv, TypeInv, LogError, shownVars
  <2>5. DriveInv'
    <3> SUFFICES ASSUME NEW i \in 1 .. LogSize
                 PROVE  errors'[i] = IF count'[NumErr] - i + 1 > base
                                     THEN count'[NumErr] - i + 1 ELSE 0
      BY <1>2, <2>3 DEF DriveInv, Starts, LogError
    <3>1. errors'[i] = IF i = 1 THEN count[NumErr] + 1 ELSE errors[i - 1]
      BY <1>2 DEF LogError
    <3>2. CASE i = 1
      BY <1>0, <2>1, <3>1, <3>2
    <3>3. CASE i # 1
      <4>1. i - 1 \in 1 .. LogSize
        BY <1>0, <3>3
      <4>2. errors[i - 1] = IF count[NumErr] - (i - 1) + 1 > base
                            THEN count[NumErr] - (i - 1) + 1 ELSE 0
        BY <4>1 DEF IInv, DriveInv, Starts
      <4> QED BY <1>0, <2>1, <3>1, <3>3, <4>2
    <3> QED BY <3>2, <3>3
  <2> QED BY <2>2, <2>4, <2>5 DEF IInv
<1>3. CASE Reset
  <2>1. count' = count /\ base' = count[NumErr] /\ errors' = Zeros
    BY <1>3 DEF Reset
  <2>2. /\ OrderInv' /\ AmountInv' /\ RefusedInv' /\ ReadInv'
        /\ LargestInv' /\ CountedErrorsAreListed'
    <3>1. \A f \in Fields : count[f] <= count'[f]
      BY <1>0, <2>1
    <3> QED BY <1>0, <1>3, <2>1, <3>1, CountingOn DEF Reset
  <2>3. TypeInv'
    BY <1>0, <1>3, <2>1 DEF IInv, TypeInv, Reset, Zeros, shownVars
  <2>4. DriveInv'
    BY <1>0, <2>1 DEF DriveInv, Starts, Zeros
  <2> QED BY <2>2, <2>3, <2>4 DEF IInv
<1> QED BY <1>1, <1>2, <1>3

-----------------------------------------------------------------------------
(* The steps of gosmart.                                                   *)

(* Where each step of the full report stands in the handler.               *)
LEMMA Positions ==
    ASSUME TypeInv, NEW step, Does(step)
    PROVE  /\ step = "SmartLogPage" => pc = 1 /\ pc' = 2
           /\ step = "ErrorLogPage" => pc = 2 /\ pc' = 3
           /\ step = "Print" => pc = 3 /\ pc' = 1
<1>1. pc \in {1, 2, 3}
  BY DEF Does
<1>2. Handler[1] = "SmartLogPage" /\ Handler[2] = "ErrorLogPage"
      /\ Handler[3] = "Print"
  BY DEF Handler
<1> QED BY <1>1, <1>2 DEF Does

(* A page that has just been read.                                         *)
LEMMA PageRead ==
    ASSUME IInv, NEW answer \in NVMeAnswers(platform, "SmartLogPage"),
           sl' = SmartPage(answer), UNCHANGED <<driveVars, el, shownVars>>
    PROVE  OrderInv' /\ AmountInv' /\ RefusedInv' /\ LargestInv'
<1>0. /\ \A f \in Fields : count[f] \in Nat
      /\ count' = count /\ platform' = platform
      /\ most' = most /\ mostBytes' = mostBytes
  BY DEF IInv, TypeInv, driveVars, shownVars
<1>1. /\ sl'.present /\ ~sl'.refused => \A f \in Fields :
            count[f] < Range64 => sl'.value[f] = count[f]
      /\ sl'.refused => answer = "zeroed"
      /\ sl'.refused => \A f \in Fields : sl'.value[f] = 0
  BY PageHoldsCounters DEF IInv
<1>2. OrderInv'
  BY <1>0, <1>1 DEF IInv, OrderInv
<1>3. AmountInv'
  <2> SUFFICES ASSUME NEW f \in Fields, f \in DataUnits,
                      count[f] * Unit < Range64
               PROVE  /\ mostBytes[f] <= count[f] * Unit
                      /\ sl'.present /\ ~sl'.refused =>
                            mostBytes[f] <= sl'.value[f] * Unit
    BY <1>0 DEF AmountInv
  <2>1. sl'.present /\ ~sl'.refused => sl'.value[f] = count[f]
    BY <1>0, <1>1, UnitsFit
  <2> QED BY <2>1 DEF IInv, AmountInv
<1>4. RefusedInv'
  BY <1>0, <1>1, OnlyLinuxZeroes DEF IInv, RefusedInv
<1>5. LargestInv'
  BY DEF IInv, LargestInv, shownVars
<1> QED BY <1>2, <1>3, <1>4, <1>5

(* NoPage is a page.                                                       *)
LEMMA NoPageType ==
    /\ NoPage \in Pages512
    /\ ~NoPage.present /\ ~NoPage.refused
BY DEF NoPage, ZeroCount, Pages512

(* The amount printed for a counter whose amount fits, and for a zero.     *)
LEMMA AmountPrinted ==
    ASSUME IInv, sl.present, NEW f \in Fields
    PROVE  /\ DataBytes(sl.value[f]) \in Nat
           /\ sl.refused => DataBytes(sl.value[f]) = 0
           /\ ~sl.refused /\ count[f] * Unit < Range64 =>
                 /\ DataBytes(sl.value[f]) = sl.value[f] * Unit
                 /\ sl.value[f] * Unit <= count[f] * Unit
<1>1. sl.value[f] \in Nat /\ count[f] \in Nat /\ Range64 \in Nat \ {0}
      /\ Unit \in Nat
  BY RangeAssumption DEF IInv, TypeInv, Pages512
<1>2. sl.value[f] * Unit \in Nat /\ count[f] * Unit \in Nat
  BY <1>1
<1>3. DataBytes(sl.value[f]) \in Nat
  BY <1>2, ConvertedType DEF DataBytes
<1>4. ASSUME ~sl.refused, count[f] * Unit < Range64
      PROVE  /\ DataBytes(sl.value[f]) = sl.value[f] * Unit
             /\ sl.value[f] * Unit <= count[f] * Unit
  <2>1. sl.value[f] <= count[f]
    BY <1>1, <1>4, UnitsFit DEF IInv, OrderInv
  <2>2. sl.value[f] * Unit <= count[f] * Unit
    BY <1>1, <2>1, MoreUnits
  <2>3. sl.value[f] * Unit < Range64
    BY <1>1, <1>2, <1>4, <2>2
  <2> QED BY <1>2, <2>2, <2>3, FitsUnchanged DEF DataBytes
<1>5. ASSUME sl.refused
      PROVE  DataBytes(sl.value[f]) = 0
  <2>1. sl.value[f] = 0
    BY <1>5 DEF IInv, RefusedInv
  <2>2. sl.value[f] * Unit = 0
    BY <1>1, <2>1
  <2> QED BY <1>1, <2>2, FitsUnchanged DEF DataBytes
<1> QED BY <1>3, <1>4, <1>5

(* Values shown that are no more than a bound leave the largest one within *)
(* that bound.                                                             *)
LEMMA MostStaysBelow ==
    ASSUME NEW old \in [Fields -> Nat], NEW new \in [Fields -> Nat],
           NEW f \in Fields, NEW b, old[f] <= b, new[f] <= b
    PROVE  Larger(old, new)[f] <= b
BY DEF Larger

(* Reading a page, for the full report or for get mode.                    *)
LEMMA ReadStep ==
    ASSUME IInv, SmartLogPage \/ ReadForGet
    PROVE  IInv'
<1>0. TypeInv /\ UNCHANGED <<driveVars, el, shownVars, report>>
  BY DEF IInv, SmartLogPage, ReadForGet
<1>1. PICK answer \in NVMeAnswers(platform, "SmartLogPage") :
         /\ sl' = SmartPage(answer)
         /\ pc = 1 /\ pc' \in {2, InGet}
         /\ pc' = InGet => answer # "error"
  BY <1>0, Positions DEF SmartLogPage, ReadForGet, InGet
<1>2. OrderInv' /\ AmountInv' /\ RefusedInv' /\ LargestInv'
  BY <1>0, <1>1, PageRead
<1>3. TypeInv'
  BY <1>0, <1>1, PageHoldsCounters DEF TypeInv, driveVars, shownVars, InGet
<1>4. ReadInv'
  BY <1>0, <1>1, PageHoldsCounters DEF IInv, ReadInv, InGet
<1>5. DriveInv' /\ CountedErrorsAreListed'
  BY <1>0 DEF IInv, DriveInv, Starts, CountedErrorsAreListed, RefusedOnLinux,
       driveVars
<1> QED BY <1>2, <1>3, <1>4, <1>5 DEF IInv

(* Reading the error log.                                                  *)
LEMMA ErrorLogStep ==
    ASSUME IInv, ErrorLogPage
    PROVE  IInv'
<1>0. /\ TypeInv /\ UNCHANGED <<driveVars, sl, shownVars, report>>
      /\ pc = 2 /\ pc' = 3 /\ NumErr \in Fields /\ count[NumErr] \in Nat
      /\ base \in Nat /\ Range64 \in Nat
  <2>1. TypeInv /\ UNCHANGED <<driveVars, sl, shownVars, report>>
        /\ Does("ErrorLogPage")
    BY DEF IInv, ErrorLogPage
  <2>2. pc = 2 /\ pc' = 3
    BY <2>1, Positions
  <2> QED BY <2>1, <2>2, FieldsAssumption, RangeAssumption DEF TypeInv
<1>1. PICK answer \in NVMeAnswers(platform, "ErrorLogPage") :
         el' = ErrorPage(answer)
  BY DEF ErrorLogPage
<1>2. /\ OrderInv' /\ AmountInv' /\ LargestInv' /\ DriveInv'
      /\ CountedErrorsAreListed'
  BY <1>0 DEF IInv, OrderInv, AmountInv, LargestInv, DriveInv, Starts,
       CountedErrorsAreListed, RefusedOnLinux, driveVars, shownVars
<1>3. TypeInv'
  BY <1>0 DEF TypeInv, driveVars, shownVars, InGet
<1>4. RefusedInv'
  <2>1. el'.refused => answer = "zeroed" /\ el'.entries = Zeros
    BY <1>1 DEF ErrorPage, NoLog
  <2> QED BY <1>0, <2>1, OnlyLinuxZeroes DEF IInv, RefusedInv, driveVars
<1>5. ReadInv'
  <2>1. CASE answer \in {"error", "zeroed"}
    <3>1. ~(el'.present /\ ~el'.refused)
      BY <1>1, <2>1 DEF ErrorPage, NoLog
    <3> QED BY <1>0, <3>1 DEF ReadInv, InGet
  <2>2. CASE answer \notin {"error", "zeroed"}
    <3>1. el'.entries = errors /\ el'.base = base /\ ~el'.refused
      BY <1>1, <2>2 DEF ErrorPage
    <3>2. Starts(el'.entries, count[NumErr], el'.base)
      BY <3>1 DEF IInv, DriveInv
    <3>3. sl.present /\ count[NumErr] < Range64 =>
             sl.value[NumErr] <= count[NumErr]
      <4>1. CASE sl.refused
        BY <1>0, <4>1 DEF IInv, RefusedInv
      <4>2. CASE ~sl.refused
        BY <1>0, <4>2 DEF IInv, OrderInv
      <4> QED BY <4>1, <4>2
    <3> QED BY <1>0, <3>1, <3>2, <3>3 DEF ReadInv, InGet, driveVars
  <2> QED BY <2>1, <2>2
<1> QED BY <1>2, <1>3, <1>4, <1>5 DEF IInv

(* The error part of a report.                                             *)
LEMMA ReportStep ==
    ASSUME IInv, PrintNVMeAll
    PROVE  CountedErrorsAreListed'
<1>0. /\ count' = count /\ platform' = platform /\ NumErr \in Fields
      /\ sl.value[NumErr] \in Nat
      /\ report' = [complete |-> sl.present /\ el.present,
                    refused |-> el.refused,
                    numErr |-> sl.value[NumErr],
                    rows   |-> IF sl.present
                               THEN printNVMeErrorLog(el.entries) ELSE <<>>,
                    base   |-> el.base]
  BY FieldsAssumption DEF PrintNVMeAll, driveVars, IInv, TypeInv, Pages512
<1> SUFFICES ASSUME report'.complete, report'.numErr > report'.base,
                    count[NumErr] < Range64
             PROVE  CountedErrorsAreListed'
  BY <1>0 DEF CountedErrorsAreListed
<1>1. /\ sl.present /\ el.present /\ report'.refused = el.refused
      /\ report'.numErr = sl.value[NumErr] /\ report'.base = el.base
      /\ report'.rows = printNVMeErrorLog(el.entries)
  BY <1>0
<1>2. CASE el.refused
  <2>1. platform = "linux" /\ el.entries = Zeros
    BY <1>2 DEF IInv, RefusedInv
  <2>2. DOMAIN report'.rows = {}
    BY <1>1, <2>1 DEF printNVMeErrorLog, Zeros
  <2> QED BY <1>0, <1>1, <1>2, <2>1, <2>2
           DEF CountedErrorsAreListed, RefusedOnLinux
<1>3. CASE ~el.refused
  <2>1. PICK top \in Nat : /\ Starts(el.entries, top, el.base)
                           /\ el.base \in Nat /\ sl.value[NumErr] <= top
    BY <1>1, <1>3 DEF IInv, ReadInv
  <2>2. Lists(report'.rows, report'.base, report'.numErr)
    BY <1>0, <1>1, <2>1, RowsOfLog
  <2> QED BY <1>1, <1>3, <2>2 DEF CountedErrorsAreListed, RefusedOnLinux, Lists
<1> QED BY <1>2, <1>3

(* What a printing step shows is a page in hand.                           *)
LEMMA ShownStep ==
    ASSUME IInv, PrintNVMeAll \/ (\E g \in Fields : getNVMe(g)), NEW f \in Fields
    PROVE  /\ seen'[f] = seen[f] \/ (sl.present /\ seen'[f] = sl.value[f])
           /\ \/ bytes'[f] = bytes[f]
              \/ sl.present /\ (f \in DataUnits =>
                                  bytes'[f] = DataBytes(sl.value[f]))
           /\ seen' \in [Fields -> Nat] /\ bytes' \in [Fields -> Nat]
           /\ most' = Larger(most, seen')
           /\ \/ mostBytes' = mostBytes /\ bytes' = bytes
              \/ mostBytes' = Larger(mostBytes, bytes')
<1>0. /\ seen \in [Fields -> Nat] /\ bytes \in [Fields -> Nat]
      /\ sl.value \in [Fields -> Nat]
  BY DEF IInv, TypeInv, Pages512
<1>1. CASE PrintNVMeAll /\ sl.present
  <2>1. \A g \in Fields : DataBytes(sl.value[g]) \in Nat
    BY <1>1, AmountPrinted
  <2>2. /\ seen' = sl.value
        /\ bytes' = [g \in Fields |-> IF g \in DataUnits
                                      THEN DataBytes(sl.value[g]) ELSE 0]
        /\ most' = Larger(most, seen') /\ mostBytes' = Larger(mostBytes, bytes')
    BY <1>1 DEF PrintNVMeAll
  <2>3. bytes' \in [Fields -> Nat]
    BY <2>1, <2>2
  <2>4. f \in DataUnits => bytes'[f] = DataBytes(sl.value[f])
    BY <2>2
  <2> QED BY <1>0, <1>1, <2>2, <2>3, <2>4
<1>2. CASE PrintNVMeAll /\ ~sl.present
  BY <1>0, <1>2 DEF PrintNVMeAll
<1>3. ASSUME NEW g \in Fields, getNVMe(g)
      PROVE  /\ seen'[f] = seen[f] \/ (sl.present /\ seen'[f] = sl.value[f])
             /\ seen' \in [Fields -> Nat] /\ bytes' = bytes
             /\ most' = Larger(most, seen') /\ mostBytes' = mostBytes
  BY <1>0, <1>3 DEF getNVMe, IInv, ReadInv
<1> QED BY <1>0, <1>1, <1>2, <1>3

(* Printing a report, or a value.                                          *)
LEMMA ShowStep ==
    ASSUME IInv, PrintNVMeAll \/ \E f \in Fields : getNVMe(f)
    PROVE  IInv'
<1>0. /\ UNCHANGED driveVars /\ TypeInv /\ DriveInv' /\ count' = count
      /\ Range64 \in Nat /\ sl' = NoPage /\ ~sl'.present /\ ~sl'.refused
      /\ NumErr \in Fields
  <2>1. UNCHANGED driveVars /\ sl' = NoPage
    BY DEF PrintNVMeAll, getNVMe
  <2> QED BY <2>1, NoPageType, RangeAssumption, FieldsAssumption
           DEF IInv, DriveInv, Starts, driveVars
<1>1. /\ pc' = 1 /\ ReadInv' /\ RefusedInv' /\ CountedErrorsAreListed'
  <2>1. CASE PrintNVMeAll
    <3>1. pc' = 1 /\ el' = NoLog
      BY <1>0, <2>1, Positions DEF PrintNVMeAll
    <3> QED BY <1>0, <2>1, <3>1, ReportStep
             DEF ReadInv, RefusedInv, NoLog, InGet
  <2>2. CASE \E f \in Fields : getNVMe(f)
    <3>1. pc' = 1 /\ pc = InGet /\ UNCHANGED <<el, report, platform, count>>
      BY <2>2 DEF getNVMe, driveVars
    <3> QED BY <1>0, <3>1 DEF IInv, ReadInv, RefusedInv, InGet,
                 CountedErrorsAreListed, RefusedOnLinux
  <2> QED BY <2>1, <2>2
<1>2. /\ seen' \in [Fields -> Nat] /\ bytes' \in [Fields -> Nat]
      /\ most' = Larger(most, seen')
      /\ \/ mostBytes' = mostBytes /\ bytes' = bytes
         \/ mostBytes' = Larger(mostBytes, bytes')
  BY <1>0, ShownStep
<1>3. /\ most \in [Fields -> Nat] /\ mostBytes \in [Fields -> Nat]
      /\ most' \in [Fields -> Nat] /\ mostBytes' \in [Fields -> Nat]
  <2>1. most \in [Fields -> Nat] /\ mostBytes \in [Fields -> Nat]
    BY <1>0 DEF TypeInv
  <2>2. Larger(most, seen') \in [Fields -> Nat]
    BY <1>2, <2>1, LargerOfBoth
  <2>3. Larger(mostBytes, bytes') \in [Fields -> Nat]
    BY <1>2, <2>1, LargerOfBoth
  <2> QED BY <1>2, <2>1, <2>2, <2>3
<1>4. TypeInv'
  <2>1. count' = count /\ errors' = errors /\ base' = base
    BY <1>0 DEF driveVars
  <2>2. pc' \in 1 .. InGet /\ sl' \in Pages512
    BY <1>0, <1>1, NoPageType DEF InGet
  <2> QED BY <1>0, <1>2, <1>3, <2>1, <2>2 DEF TypeInv
<1>5. LargestInv'
  BY <1>2, <1>3 DEF IInv, LargestInv, Larger
<1>6. OrderInv'
  <2> SUFFICES ASSUME NEW f \in Fields, count[f] < Range64
               PROVE  most'[f] <= count[f]
    BY <1>0 DEF OrderInv
  <2>1. most[f] <= count[f] /\ seen[f] <= count[f] /\ count[f] \in Nat
    BY <1>0, <1>3 DEF IInv, OrderInv, LargestInv, TypeInv
  <2>2. sl.present => sl.value[f] <= count[f]
    BY <2>1 DEF IInv, OrderInv, RefusedInv
  <2>3. seen'[f] <= count[f]
    BY <2>1, <2>2, ShownStep
  <2> QED BY <1>2, <1>3, <2>1, <2>3, MostStaysBelow
<1>7. AmountInv'
  <2> SUFFICES ASSUME NEW f \in Fields, f \in DataUnits,
                      count[f] * Unit < Range64
               PROVE  mostBytes'[f] <= count[f] * Unit
    BY <1>0 DEF AmountInv
  <2>1. mostBytes[f] <= count[f] * Unit /\ count[f] * Unit \in Nat
    BY RangeAssumption DEF IInv, AmountInv, TypeInv
  <2>2. bytes[f] <= mostBytes[f] /\ bytes[f] \in Nat /\ mostBytes[f] \in Nat
    BY DEF IInv, LargestInv, TypeInv
  <2>3. bytes[f] <= count[f] * Unit
    BY <2>1, <2>2
  <2>4. sl.present => DataBytes(sl.value[f]) <= count[f] * Unit
    BY <2>1, AmountPrinted
  <2>5. bytes'[f] <= count[f] * Unit
    BY <2>3, <2>4, ShownStep
  <2> QED BY <1>2, <1>3, <2>1, <2>5, MostStaysBelow
<1> QED BY <1>0, <1>1, <1>4, <1>5, <1>6, <1>7 DEF IInv

-----------------------------------------------------------------------------
(* The theorems.                                                           *)

(* The invariant holds in every reachable state.                           *)
THEOREM Invariance == Spec => []IInv
<1>1. Init => IInv
  <2> SUFFICES ASSUME Init PROVE IInv
    OBVIOUS
  <2>0. /\ LogSize \in Nat \ {0} /\ NumErr \in Fields /\ Range64 \in Nat
        /\ Unit \in Nat
    BY RangeAssumption, FieldsAssumption
  <2>1. TypeInv
    BY <2>0, NoPageType DEF Init, TypeInv, Zeros, ZeroCount, InGet
  <2>2. DriveInv
    <3>1. count[NumErr] = 0 /\ base = 0 /\ errors = Zeros
      BY <2>0 DEF Init, ZeroCount
    <3> QED BY <2>0, <3>1 DEF DriveInv, Starts, Zeros
  <2>3. OrderInv /\ AmountInv /\ LargestInv
    BY <2>0, NoPageType DEF Init, OrderInv, AmountInv, LargestInv, ZeroCount
  <2>4. RefusedInv /\ ReadInv /\ CountedErrorsAreListed
    BY NoPageType DEF Init, RefusedInv, ReadInv, CountedErrorsAreListed, NoLog,
         NoReport, InGet
  <2> QED BY <2>1, <2>2, <2>3, <2>4 DEF IInv
<1>2. IInv /\ [Next]_vars => IInv'
  <2> SUFFICES ASSUME IInv, [Next]_vars PROVE IInv'
    OBVIOUS
  <2>1. CASE UNCHANGED vars
    BY <2>1 DEF IInv, TypeInv, DriveInv, Starts, OrderInv, AmountInv,
         LargestInv, RefusedInv, ReadInv, CountedErrorsAreListed,
         RefusedOnLinux, Lists, vars, driveVars, shownVars
  <2> QED BY <2>1, DriveStep, ReadStep, ErrorLogStep, ShowStep DEF Next
<1> QED BY <1>1, <1>2, PTL DEF Spec

(* Counted errors are in the log of the same report, however many errors   *)
(* and resets come between the two pages, unless Linux took a refused page *)
(* for the log.                                                            *)
THEOREM CountedErrorsListed == Spec => []CountedErrorsAreListed
<1>1. IInv => CountedErrorsAreListed
  BY DEF IInv
<1> QED BY <1>1, Invariance, PTL

(* No counter that fits 64 bits goes back, in any mix of full reports and  *)
(* get runs, but for the zeros of a refused page on Linux.                 *)
THEOREM CountersForward == Spec => CountersNeverGoBack
<1>1. IInv /\ [Next]_vars =>
         [\A f \in Fields : Shows(f) /\ count[f] < Range64 =>
             \/ seen'[f] >= most[f]
             \/ RefusedOnLinux(sl) /\ seen'[f] = 0]_vars
  <2> SUFFICES ASSUME IInv, NEW f \in Fields, Shows(f), count[f] < Range64
               PROVE  \/ seen'[f] >= most[f]
                      \/ RefusedOnLinux(sl) /\ seen'[f] = 0
    OBVIOUS
  <2>1. sl.present /\ seen'[f] = sl.value[f]
    BY DEF Shows, PrintNVMeAll, getNVMe, IInv, TypeInv
  <2>2. most[f] \in Nat /\ sl.value[f] \in Nat
    BY DEF IInv, TypeInv, Pages512
  <2>3. CASE sl.refused
    BY <2>1, <2>3 DEF IInv, RefusedInv, RefusedOnLinux
  <2>4. CASE ~sl.refused
    BY <2>1, <2>2, <2>4 DEF IInv, OrderInv
  <2> QED BY <2>3, <2>4
<1> QED BY <1>1, Invariance, PTL DEF Spec, CountersNeverGoBack

(* No amount that fits 64 bits shrinks, with the same exception.           *)
THEOREM AmountsForward == Spec => AmountsNeverShrink
<1>1. IInv /\ [Next]_vars =>
         [\A f \in Fields :
             sl.present /\ PrintNVMeAll
             /\ f \in DataUnits /\ count[f] * Unit < Range64 =>
                 \/ bytes'[f] >= mostBytes[f]
                 \/ RefusedOnLinux(sl) /\ bytes'[f] = 0]_vars
  <2> SUFFICES ASSUME IInv, NEW f \in Fields, sl.present, PrintNVMeAll,
                      f \in DataUnits, count[f] * Unit < Range64
               PROVE  \/ bytes'[f] >= mostBytes[f]
                      \/ RefusedOnLinux(sl) /\ bytes'[f] = 0
    OBVIOUS
  <2>1. bytes'[f] = DataBytes(sl.value[f])
    BY DEF PrintNVMeAll
  <2>2. mostBytes[f] \in Nat /\ bytes'[f] \in Nat
    BY <2>1, AmountPrinted DEF IInv, TypeInv
  <2>3. CASE sl.refused
    BY <2>1, <2>3, AmountPrinted DEF IInv, RefusedInv, RefusedOnLinux
  <2>4. CASE ~sl.refused
    <3>1. bytes'[f] = sl.value[f] * Unit
      BY <2>1, <2>4, AmountPrinted
    <3>2. mostBytes[f] <= sl.value[f] * Unit
      BY <2>4 DEF IInv, AmountInv
    <3>3. mostBytes[f] <= bytes'[f]
      BY <3>1, <3>2
    <3> QED BY <2>2, <3>3
  <2> QED BY <2>3, <2>4
<1> QED BY <1>1, Invariance, PTL DEF Spec, AmountsNeverShrink

=============================================================================
