--------------------------- MODULE ErrorLogProofs ---------------------------
(***************************************************************************)
(* The order and the completeness of the error log section, for every      *)
(* width of the counter and every number of errors.                        *)
(***************************************************************************)
EXTENDS ErrorLog, TLAPS

(* The log l after t errors: the pointer follows t round the ring, the     *)
(* slots hold the last five errors, and the counter counts modulo its      *)
(* range.                                                                  *)
LogType == [logPointer : Nat, entries : [Slots -> Nat], errorCount : Nat]

PointerInv(l, t) == l.logPointer = IF t = 0 THEN 0 ELSE ((t - 1) % 5) + 1

EntriesInv(l, t) ==
    \A n \in Slots : n < t => l.entries[(t - 1 - n) % 5] = t - n

CountInv(l, t) == l.errorCount = t % CountRange

RingInv(l, t) == /\ l \in LogType
                 /\ PointerInv(l, t) /\ EntriesInv(l, t) /\ CountInv(l, t)

(* The section that printErrorLog makes of a log read after t errors.      *)
LinesInv(lines, t) ==
    /\ \A i \in DOMAIN lines :
          /\ lines[i].entry = t - (i - 1) /\ lines[i].entry > 0
          /\ lines[i].number = lines[i].entry % CountRange
    /\ Len(lines) = IF t % CountRange > 5 THEN 5 ELSE t % CountRange

SaidInv(said, t) == (said = "No Errors Logged") <=> (t % CountRange = 0)

IInv ==
    /\ total \in Nat /\ readAt \in Nat
    /\ RingInv(log, total)
    /\ present => RingInv(el, readAt)
    /\ IF shown.said = "nothing"
       THEN shown.lines = <<>>
       ELSE /\ LinesInv(shown.lines, shown.at)
            /\ SaidInv(shown.said, shown.at)

-----------------------------------------------------------------------------
(* The slot of every line exists, whatever byte the drive put into         *)
(* LogPointer: the dividend is never negative, where Go's remainder would  *)
(* be too and the index outside Entries (a panic).                         *)
THEOREM IndexInRange ==
    \A ptr \in Nat, n \in Slots : Index(ptr, n) \in Slots
BY DEF Index, Rem, Slots

(* No two lines show the same slot.                                        *)
THEOREM IndexInjective ==
    \A ptr \in Nat, m \in Slots, n \in Slots :
        Index(ptr, m) = Index(ptr, n) => m = n
BY DEF Index, Rem, Slots

(* Quotient and remainder.                                                 *)
LEMMA Division ==
    ASSUME NEW b \in Nat \ {0}, NEW n \in Nat
    PROVE  /\ n = (n \div b) * b + (n % b)
           /\ n % b \in 0 .. b - 1
           /\ n \div b \in Nat
OBVIOUS

(* They are the only ones.                                                 *)
LEMMA Quotient ==
    ASSUME NEW b \in Nat \ {0}, NEW n \in Nat, NEW q \in Nat,
           NEW r \in 0 .. b - 1, n = q * b + r
    PROVE  n % b = r
OBVIOUS

(* The counter of the drive is the number of errors modulo its range.      *)
LEMMA CountedModulo ==
    ASSUME NEW b \in Nat \ {0}, NEW n \in Nat
    PROVE  ((n % b) + 1) % b = (n + 1) % b
<1> DEFINE q == n \div b
           r == n % b
<1>1. n = q * b + r /\ r \in 0 .. b - 1 /\ q \in Nat
  BY Division
<1> HIDE DEF q, r
<1>2. CASE r + 1 < b
  <2>1. n + 1 = q * b + (r + 1) /\ r + 1 \in 0 .. b - 1
    BY <1>1, <1>2
  <2>2. (n + 1) % b = r + 1
    BY <1>1, <2>1, Quotient
  <2>3. (r + 1) % b = r + 1
    BY <1>1, <2>1
  <2> QED BY <2>2, <2>3 DEF r
<1>3. CASE r + 1 = b
  <2>1. (q + 1) * b = q * b + b
    BY <1>1
  <2>2. /\ n + 1 = (q + 1) * b + 0 /\ q + 1 \in Nat /\ 0 \in 0 .. b - 1
        /\ n + 1 \in Nat
    BY <1>1, <1>3, <2>1
  <2>3. (n + 1) % b = 0
    BY <2>2, Quotient, Zenon
  <2>4. (r + 1) % b = 0
    BY <1>3
  <2> QED BY <2>3, <2>4 DEF r
<1> QED BY <1>1, <1>2, <1>3

(* Going back less than the counter does not pass a wrap.                  *)
LEMMA NumberModulo ==
    ASSUME NEW b \in Nat \ {0}, NEW n \in Nat, NEW d \in Nat, d < n % b
    PROVE  (n - d) % b = (n % b) - d /\ d < n
<1> DEFINE q == n \div b
           r == n % b
<1>1. n = q * b + r /\ r \in 0 .. b - 1 /\ q \in Nat
  BY Division
<1>2. d < r
  OBVIOUS
<1> HIDE DEF q, r
<1>3. q * b \in Nat
  BY <1>1
<1>4. n - d = q * b + (r - d) /\ r - d \in 0 .. b - 1 /\ n - d \in Nat /\ d < n
  BY <1>1, <1>2, <1>3
<1>5. (n - d) % b = r - d
  BY <1>1, <1>4, Quotient
<1> QED BY <1>4, <1>5 DEF r

(* Logging one more error keeps the ring in order.                         *)
LEMMA LogErrorKeepsRing ==
    ASSUME total \in Nat, RingInv(log, total), LogError
    PROVE  RingInv(log', total')
<1> DEFINE ptr == (log.logPointer % 5) + 1
           t   == total
<1>0. /\ t \in Nat /\ total' = t + 1
      /\ log.logPointer \in Nat /\ log.errorCount \in Nat
      /\ log.entries \in [Slots -> Nat]
  BY DEF RingInv, LogType, LogError
<1>1. ptr = (t % 5) + 1 /\ ptr - 1 = t % 5 /\ t % 5 \in Slots
  BY <1>0 DEF RingInv, PointerInv, Slots
<1>2. /\ log'.logPointer = ptr
      /\ log'.entries = [log.entries EXCEPT ![ptr - 1] = t + 1]
      /\ log'.errorCount = (log.errorCount + 1) % CountRange
      /\ log' = [logPointer |-> log'.logPointer, entries |-> log'.entries,
                 errorCount |-> log'.errorCount]
  BY DEF LogError
<1>3. log'.entries \in [Slots -> Nat]
  BY <1>0, <1>1, <1>2
<1>4. log'.errorCount = (t + 1) % CountRange /\ log'.errorCount \in Nat
  <2>1. log.errorCount = t % CountRange
    BY DEF RingInv, CountInv
  <2> QED BY <1>0, <1>2, <2>1, CountedModulo, CountAssumption
<1>5. ASSUME NEW n \in Slots, n < total'
      PROVE  log'.entries[(total' - 1 - n) % 5] = total' - n
  <2>1. CASE n = 0
    BY <1>0, <1>1, <1>2, <2>1
  <2>2. CASE n # 0
    <3>1. n - 1 \in Slots /\ n - 1 < t
      BY <1>0, <1>5, <2>2 DEF Slots
    <3>2. (t - n) % 5 # t % 5 /\ (t - n) % 5 \in Slots
      BY <1>0, <1>5, <2>2 DEF Slots
    <3>3. log.entries[(t - 1 - (n - 1)) % 5] = t - (n - 1)
      BY <3>1 DEF RingInv, EntriesInv
    <3>4. t - 1 - (n - 1) = t - n /\ total' - 1 - n = t - n
      BY <1>0, <1>5 DEF Slots
    <3> QED BY <1>0, <1>1, <1>2, <1>5, <3>2, <3>3, <3>4 DEF Slots
  <2> QED BY <2>1, <2>2
<1>6. log'.logPointer = (((t + 1) - 1) % 5) + 1 /\ log'.logPointer \in Nat
  BY <1>0, <1>1, <1>2
<1>7. log' \in LogType
  BY <1>2, <1>3, <1>4, <1>6 DEF LogType
<1>8. PointerInv(log', total')
  BY <1>0, <1>6 DEF PointerInv
<1>9. CountInv(log', total')
  BY <1>0, <1>4 DEF CountInv
<1>10. EntriesInv(log', total')
  BY <1>5 DEF EntriesInv
<1> QED BY <1>7, <1>8, <1>9, <1>10 DEF RingInv

(* A ring in order is printed in order.                                    *)
LEMMA RingPrintsInOrder ==
    ASSUME NEW l, NEW t \in Nat, RingInv(l, t)
    PROVE  LinesInv(Lines(l), t)
<1> DEFINE k == ShownCount(l.errorCount)
<1>0. /\ l.errorCount \in Nat /\ l.logPointer \in Nat
      /\ l.errorCount = t % CountRange /\ CountRange \in Nat \ {0}
  BY CountAssumption DEF RingInv, LogType, CountInv
<1>1. k \in 0 .. 5 /\ k <= l.errorCount
  BY <1>0 DEF ShownCount
<1>2. DOMAIN Lines(l) = 1 .. k /\ Len(Lines(l)) = k
  BY <1>1 DEF Lines
<1>3. ASSUME NEW i \in 1 .. k
      PROVE  /\ Lines(l)[i].entry = t - (i - 1)
             /\ Lines(l)[i].entry > 0
             /\ Lines(l)[i].number = Lines(l)[i].entry % CountRange
  <2> DEFINE d == i - 1
  <2>1. d \in Nat /\ d < t % CountRange /\ d \in Slots
    BY <1>0, <1>1, <1>3 DEF Slots
  <2> HIDE DEF d
  <2>2. (t - d) % CountRange = (t % CountRange) - d /\ d < t
    BY <1>0, <2>1, NumberModulo, Zenon
  <2>3. Index(l.logPointer, d) = (t - 1 - d) % 5
    BY <1>0, <2>1, <2>2 DEF Index, Rem, RingInv, PointerInv, Slots
  <2>4. l.entries[Index(l.logPointer, d)] = t - d
    BY <2>1, <2>2, <2>3 DEF RingInv, EntriesInv
  <2>5. /\ Lines(l)[i].number = l.errorCount - d
        /\ Lines(l)[i].entry = l.entries[Index(l.logPointer, d)]
    BY <1>3 DEF Lines, d
  <2>6. (t - d) % CountRange = l.errorCount - d /\ t - d > 0
    BY <1>0, <2>1, <2>2
  <2> QED BY <2>4, <2>5, <2>6 DEF d
<1>4. k = IF t % CountRange > 5 THEN 5 ELSE t % CountRange
  BY <1>0 DEF ShownCount
<1> HIDE DEF k
<1> QED BY <1>2, <1>3, <1>4 DEF LinesInv

-----------------------------------------------------------------------------
(* The invariant holds initially.                                          *)
THEOREM InvInit == Init => IInv
<1> SUFFICES ASSUME Init PROVE IInv
  OBVIOUS
<1>1. RingInv(log, total)
  BY CountAssumption DEF Init, Empty, RingInv, PointerInv,
       EntriesInv, CountInv, LogType, Slots
<1> QED BY <1>1 DEF Init, IInv

(* Every step of the drive and of gosmart preserves the invariant.         *)
THEOREM InvStep == IInv /\ [Next]_vars => IInv'
<1> SUFFICES ASSUME IInv, [Next]_vars PROVE IInv'
  OBVIOUS
<1>1. CASE LogError
  BY <1>1, LogErrorKeepsRing DEF IInv, LogError
<1>2. CASE ReadLog
  BY <1>2 DEF IInv, ReadLog
<1>3. CASE printErrorLog
  <2>1. LinesInv(Lines(el), readAt)
    BY <1>3, RingPrintsInOrder DEF IInv, printErrorLog
  <2>2. /\ shown'.lines = Lines(el) /\ shown'.at = readAt
        /\ shown'.said # "nothing"
        /\ SaidInv(shown'.said, readAt)
    <3>1. el.errorCount = readAt % CountRange
      BY <1>3 DEF IInv, RingInv, CountInv, printErrorLog
    <3> QED BY <1>3, <3>1 DEF printErrorLog, SaidInv
  <2> QED BY <1>3, <2>1, <2>2 DEF IInv, printErrorLog
<1>4. CASE NoSection
  BY <1>4 DEF IInv, NoSection
<1>5. CASE UNCHANGED vars
  BY <1>5 DEF IInv, vars
<1> QED BY <1>1, <1>2, <1>3, <1>4, <1>5 DEF Next

(* The invariant holds in every reachable state.                           *)
THEOREM Invariance == Spec => []IInv
BY InvInit, InvStep, PTL DEF Spec

(* "Most recent first" holds however often ring and counter have wrapped.  *)
THEOREM MostRecentIsFirst == Spec => []MostRecentFirst
<1>1. IInv => MostRecentFirst
  BY DEF IInv, LinesInv, MostRecentFirst
<1> QED BY <1>1, Invariance, PTL

(* Length and numbers follow the counter, past any number of wraps; before *)
(* the first nothing that the ring holds is left out.                      *)
THEOREM EntriesAllShown == Spec => []AllEntriesShown
<1>1. IInv => AllEntriesShown
  BY DEF IInv, LinesInv, SaidInv, AllEntriesShown
<1> QED BY <1>1, Invariance, PTL
=============================================================================
