--------------------------- MODULE AttributesProofs ---------------------------
(***************************************************************************)
(* Theorems about Attributes, for every number of attributes, every table, *)
(* all values and thresholds and any number of runs.                       *)
(***************************************************************************)
EXTENDS Attributes, WellFoundedInduction, TLAPS

(* The thresholds of the drive, and the order they are listed in.          *)
LimitInv == limit \in [Slots -> Nat] /\ order \in [Slots -> Slots]

(* "worst" remembers enough: it is at the threshold or below exactly for   *)
(* the attributes that have been there.                                    *)
Remembers(l) ==
    /\ l.current \in [Slots -> Nat] /\ l.worst \in [Slots -> Nat]
    /\ \A s \in Slots :
          s \in l.low <=> limit[s] > 0 /\ l.worst[s] <= limit[s]

LifeInv == Remembers(life)

(* The parsed sector is the drive as of the read ...                       *)
ReadInv == pc # "idle" =>
    /\ Remembers(svLife)
    /\ DOMAIN sv = Slots
    /\ \A s \in Slots : /\ sv[s].current = svLife.current[s]
                        /\ sv[s].worst = svLife.worst[s]

(* ... and so are the thresholds, in their own order.                      *)
ThresholdInv == pc = "print" => st = [s \in Slots |-> limit[order[s]]]

IInv == /\ LimitInv /\ LifeInv /\ ReadInv /\ ThresholdInv
        /\ WhenFailedTellsHistory

-----------------------------------------------------------------------------
(* The thresholds never change.                                            *)
LEMMA LimitsStay == LimitInv /\ [Next]_vars => LimitInv' /\ limit' = limit
                                               /\ order' = order
  BY DEF Next, Work, SmartReadData, listATA, getATA, SmartReadThresholds,
         PrintAttributes, vars, drive, LimitInv

(* The column of one attribute, from the values of one moment and the      *)
(* threshold listed in its position.                                       *)
LEMMA ColumnIsHistory ==
    ASSUME NEW l, Remembers(l), LimitInv, NEW s \in Slots, NEW a,
           a.current = l.current[s], a.worst = l.worst[s]
    PROVE  TellsHistory(WhenFailed(a, limit[order[s]]), s, l)
<1> DEFINE t == limit[order[s]]
           now == t > 0 /\ l.current[s] <= t
           word == WhenFailed(a, t)
<1>1. l.current[s] \in Nat /\ l.worst[s] \in Nat /\ t \in Nat
  BY DEF Remembers, LimitInv
<1>2. order[s] = s => (s \in l.low <=> t > 0 /\ l.worst[s] <= t)
  BY DEF Remembers
<1>3. word = "FAILING_NOW" <=> now
  <2>1. CASE now
    BY <1>1, <2>1 DEF WhenFailed
  <2>2. CASE ~now /\ t > 0 /\ l.worst[s] <= t
    BY <1>1, <2>2 DEF WhenFailed
  <2>3. CASE ~now /\ ~(t > 0 /\ l.worst[s] <= t)
    BY <1>1, <2>3 DEF WhenFailed
  <2> QED BY <2>1, <2>2, <2>3
<1>4. word = "In_the_past" <=> ~now /\ t > 0 /\ l.worst[s] <= t
  <2>1. CASE now
    BY <1>1, <2>1 DEF WhenFailed
  <2>2. CASE ~now /\ t > 0 /\ l.worst[s] <= t
    BY <1>1, <2>2 DEF WhenFailed
  <2>3. CASE ~now /\ ~(t > 0 /\ l.worst[s] <= t)
    BY <1>1, <2>3 DEF WhenFailed
  <2> QED BY <2>1, <2>2, <2>3
<1> HIDE DEF now, word
<1>5. order[s] = s => (word = "In_the_past" <=> ~now /\ s \in l.low)
  BY <1>2, <1>4
<1> QED BY <1>3, <1>5 DEF TellsHistory, now, word

(* The drive remembers.                                                    *)
LEMMA DriveRemembers == IInv /\ [Next]_vars => LifeInv'
<1> SUFFICES ASSUME IInv, [Next]_vars PROVE LifeInv'
  OBVIOUS
<1>0. limit' = limit /\ limit \in [Slots -> Nat]
  BY LimitsStay DEF IInv, LimitInv
<1>1. ASSUME NEW t \in Slots, NEW v \in Values, NEW n \in Counters,
             Work(t, v, n)
      PROVE  LifeInv'
  <2> DEFINE w == IF v < life.worst[t] THEN v ELSE life.worst[t]
  <2>1. v \in Nat /\ life.worst[t] \in Nat /\ limit[t] \in Nat
    BY <1>0, DriveAssumption DEF IInv, LifeInv, Remembers
  <2>2. life'.current \in [Slots -> Nat] /\ life'.worst \in [Slots -> Nat]
    BY <1>1, <2>1 DEF Work, IInv, LifeInv, Remembers
  <2>3. life'.worst[t] = w /\ w \in Nat
    BY <1>1, <2>1 DEF Work, IInv, LifeInv, Remembers
  <2>4. \A s \in Slots \ {t} : /\ life'.worst[s] = life.worst[s]
                               /\ s \in life'.low <=> s \in life.low
    BY <1>1 DEF Work, IInv, LifeInv, Remembers
  <2>5. t \in life'.low <=> t \in life.low \/ (limit[t] > 0 /\ v <= limit[t])
    BY <1>1 DEF Work
  <2>6. t \in life.low <=> limit[t] > 0 /\ life.worst[t] <= limit[t]
    BY DEF IInv, LifeInv, Remembers
  <2>7. t \in life'.low <=> limit[t] > 0 /\ life'.worst[t] <= limit[t]
    BY <2>1, <2>3, <2>5, <2>6
  <2>8. ASSUME NEW s \in Slots
        PROVE  s \in life'.low <=> limit'[s] > 0 /\ life'.worst[s] <= limit'[s]
    BY <1>0, <2>4, <2>7 DEF IInv, LifeInv, Remembers
  <2> QED
    BY <2>2, <2>8 DEF LifeInv, Remembers
<1>2. CASE UNCHANGED life
  BY <1>0, <1>2 DEF IInv, LifeInv, Remembers
<1> QED
  BY <1>1, <1>2
  DEF Next, SmartReadData, listATA, getATA, SmartReadThresholds,
      PrintAttributes, vars

(* A parsed sector stays what it was when it was read.                     *)
LEMMA SectorsKept == IInv /\ [Next]_vars => ReadInv' /\ ThresholdInv'
<1> SUFFICES ASSUME IInv, [Next]_vars PROVE ReadInv' /\ ThresholdInv'
  OBVIOUS
<1>0. limit' = limit /\ order' = order
  BY LimitsStay DEF IInv
<1>1. ASSUME NEW mode \in {"list", "get", "full"}, SmartReadData(mode)
      PROVE  ReadInv' /\ ThresholdInv'
  <2>1. sv' = ParseSmartValues /\ svLife' = life /\ pc' # "print"
    BY <1>1 DEF SmartReadData
  <2>2. DOMAIN sv' = Slots /\ \A s \in Slots :
           sv'[s].current = svLife'.current[s] /\ sv'[s].worst = svLife'.worst[s]
    BY <2>1 DEF ParseSmartValues
  <2>3. Remembers(svLife)'
    BY <1>0, <2>1 DEF IInv, LifeInv, Remembers
  <2> QED
    BY <2>1, <2>2, <2>3 DEF ReadInv, ThresholdInv
<1>2. CASE SmartReadThresholds
  <2>1. ReadInv'
    BY <1>0, <1>2 DEF SmartReadThresholds, IInv, ReadInv, Remembers
  <2>2. ThresholdInv'
    BY <1>0, <1>2 DEF SmartReadThresholds, ParseSmartThresholds, ThresholdInv
  <2> QED
    BY <2>1, <2>2
<1>3. CASE pc' = "idle"
  BY <1>3 DEF ReadInv, ThresholdInv
<1>4. CASE UNCHANGED <<pc, sv, svLife, st>>
  BY <1>0, <1>4 DEF IInv, ReadInv, ThresholdInv, Remembers
<1> QED
  BY <1>1, <1>2, <1>3, <1>4
  DEF Next, Work, listATA, getATA, PrintAttributes, EndOfRun, vars

(* So the column that is printed is the drive's history.                   *)
LEMMA ColumnsCorrect == IInv /\ [Next]_vars => WhenFailedTellsHistory'
<1> SUFFICES ASSUME IInv, [Next]_vars PROVE WhenFailedTellsHistory'
  OBVIOUS
<1>0. limit' = limit /\ order' = order /\ LimitInv
  BY LimitsStay DEF IInv
<1>1. CASE PrintAttributes
  <2> SUFFICES ASSUME NEW s \in DOMAIN out'.lines
               PROVE  TellsHistory(out'.lines[s].whenFailed, s, out'.life)
    BY <1>0 DEF WhenFailedTellsHistory, TellsHistory
  <2>1. out' = [mode |-> "full", lines |-> printAttributes(sv, st, rpm),
                life |-> svLife]
    BY <1>1 DEF PrintAttributes
  <2>2. pc = "print"
    BY <1>1 DEF PrintAttributes
  <2>3. s \in Slots
    BY <2>1, <2>2 DEF printAttributes, Present, IInv, ReadInv
  <2>4. st[s] = limit[order[s]]
    BY <2>2, <2>3 DEF IInv, ThresholdInv
  <2>5. out'.lines[s].whenFailed = WhenFailed(sv[s], limit[order[s]])
    BY <2>1, <2>4 DEF printAttributes
  <2>6. Remembers(svLife) /\ sv[s].current = svLife.current[s]
        /\ sv[s].worst = svLife.worst[s]
    BY <2>2, <2>3 DEF IInv, ReadInv
  <2>7. out'.life = svLife
    BY <2>1
  <2> QED
    BY <1>0, <2>3, <2>5, <2>6, <2>7, ColumnIsHistory
<1>2. ASSUME NEW name, getATA(name) PROVE WhenFailedTellsHistory'
  BY <1>2 DEF getATA, WhenFailedTellsHistory
<1>3. CASE UNCHANGED out
  BY <1>0, <1>3 DEF IInv, WhenFailedTellsHistory, TellsHistory
<1> QED
  BY <1>1, <1>2, <1>3
  DEF Next, Work, SmartReadData, listATA, SmartReadThresholds, vars

(* WHEN_FAILED tells, for every attribute, whether it was at the threshold *)
(* of its position or below when it was read and, where that is its own,   *)
(* whether it was ever before (printer/ata.go:259-264).                    *)
THEOREM WhenFailedIsHistory == Spec => []WhenFailedTellsHistory
<1>1. Init => IInv
  <2> SUFFICES ASSUME Init PROVE IInv
    OBVIOUS
  <2>1. LimitInv
    <3>1. limit \in [Slots -> Limits] /\ order \in [Slots -> Slots]
      BY DriveAssumption DEF Init
    <3> QED
      BY <3>1, DriveAssumption DEF LimitInv
  <2>2. LifeInv
    BY DriveAssumption DEF Init, New, LifeInv, Remembers
  <2>3. ReadInv /\ ThresholdInv /\ WhenFailedTellsHistory
    BY DEF Init, ReadInv, ThresholdInv, WhenFailedTellsHistory, NoOutput
  <2> QED
    BY <2>1, <2>2, <2>3 DEF IInv
<1>2. IInv /\ [Next]_vars => IInv'
  BY LimitsStay, DriveRemembers, SectorsKept, ColumnsCorrect DEF IInv
<1>3. IInv => WhenFailedTellsHistory
  BY DEF IInv
<1> QED
  BY <1>1, <1>2, <1>3, PTL DEF Spec

-----------------------------------------------------------------------------
(* The six raw bytes.                                                      *)

(* Quotient and remainder.                                                 *)
LEMMA Division ==
    ASSUME NEW b \in Nat \ {0}, NEW n \in Nat
    PROVE  /\ n = (n \div b) * b + (n % b)
           /\ n % b \in 0 .. b - 1
           /\ n \div b \in Nat
  OBVIOUS

(* They are the only ones.                                                 *)
LEMMA Quotient ==
    ASSUME NEW b \in Nat \ {0}, NEW n \in Nat, NEW q \in Nat,
           NEW r \in 0 .. b - 1, n = q * b + r
    PROVE  n \div b = q /\ n % b = r
  OBVIOUS

(* To divide by a product is to divide twice.                              *)
LEMMA DivideTwice ==
    ASSUME NEW b \in Nat \ {0}, NEW c \in Nat \ {0}, NEW n \in Nat
    PROVE  b * c \in Nat \ {0} /\ n \div (b * c) = (n \div b) \div c
<1> DEFINE q == n \div b
           r == n % b
           p == q \div c
           s == q % c
           m == b * c
<1>1. q \in Nat /\ r \in 0 .. b - 1 /\ n = q * b + r
  BY Division
<1>2. p \in Nat /\ s \in 0 .. c - 1 /\ q = p * c + s
  BY <1>1, Division
<1> HIDE DEF q, r, p, s
<1>3. m \in Nat \ {0}
  OBVIOUS
<1>4. n = p * m + (s * b + r)
  BY <1>1, <1>2
<1>5. s * b + r \in 0 .. m - 1
  <2>1. s * b \in Nat /\ s * b <= (c - 1) * b
    BY <1>2
  <2>2. (c - 1) * b = m - b
    OBVIOUS
  <2> HIDE DEF m
  <2> QED
    BY <1>1, <1>3, <2>1, <2>2
<1> HIDE DEF m
<1>6. n \div m = p
  BY <1>2, <1>3, <1>4, <1>5, Quotient
<1> QED
  BY <1>3, <1>6 DEF m, p, q

(* One more byte: what is left of n above weight w is a byte of that       *)
(* weight and what is left above the next one.                             *)
LEMMA OneMoreByte ==
    ASSUME NEW w \in Nat \ {0}, NEW n \in Nat
    PROVE  /\ w * Byte \in Nat \ {0}
           /\ (n \div w) * w
                = ((n \div w) % Byte) * w + (n \div (w * Byte)) * (w * Byte)
           /\ (n \div w) % Byte \in Nat /\ (n \div w) * w \in Nat
<1> DEFINE q == n \div w
           p == q \div Byte
           r == q % Byte
<1>0. Byte \in Nat \ {0}
  BY DriveAssumption
<1>1. q \in Nat
  BY Division
<1>2. q = p * Byte + r /\ p \in Nat /\ r \in 0 .. Byte - 1
  BY <1>0, <1>1, Division
<1>3. w * Byte \in Nat \ {0} /\ n \div (w * Byte) = p
  BY <1>0, DivideTwice
<1> HIDE DEF q, p, r
<1>4. q * w = r * w + p * (w * Byte) /\ q * w \in Nat
  BY <1>0, <1>1, <1>2
<1>5. r \in Nat
  BY <1>0, <1>2
<1> QED
  BY <1>3, <1>4, <1>5 DEF q, r

(* The weights are numbers other than 0.                                   *)
LEMMA WeightsType ==
    /\ Byte \in Nat \ {0} /\ Byte2 \in Nat \ {0} /\ Byte3 \in Nat \ {0}
    /\ Byte4 \in Nat \ {0} /\ Byte5 \in Nat \ {0} /\ Byte6 \in Nat \ {0}
<1>1. \A a, b \in Nat \ {0} : a * b \in Nat \ {0}
  OBVIOUS
<1> QED
  BY <1>1, DriveAssumption DEF Byte2, Byte3, Byte4, Byte5, Byte6

(* RawValue48 (smart.go:19-26) gives back the counter that the drive put   *)
(* into the six raw bytes, up to the largest one.                          *)
THEOREM RawValueIsCounter ==
    ASSUME NEW n \in 0 .. Byte6 - 1
    PROVE  RawValue48(RawBytes(n)) = n
<1> DEFINE d0 == (n \div 1) % Byte
           d1 == (n \div Byte) % Byte
           d2 == (n \div Byte2) % Byte
           d3 == (n \div Byte3) % Byte
           d4 == (n \div Byte4) % Byte
           d5 == (n \div Byte5) % Byte
           u1 == (n \div Byte) * Byte
           u2 == (n \div Byte2) * Byte2
           u3 == (n \div Byte3) * Byte3
           u4 == (n \div Byte4) * Byte4
           u5 == (n \div Byte5) * Byte5
<1>0. n \in Nat /\ n < Byte6
  BY WeightsType
<1>1. n = d0 + u1
  <2>1. n = (n \div Byte) * Byte + (n % Byte)
    BY <1>0, WeightsType, Division
  <2>2. n \div 1 = n
    BY <1>0
  <2> QED
    BY <1>0, <2>1, <2>2, WeightsType, OneMoreByte
<1>2. u1 = d1 * Byte + u2
  BY <1>0, WeightsType, OneMoreByte DEF Byte2
<1>3. u2 = d2 * Byte2 + u3
  BY <1>0, WeightsType, OneMoreByte DEF Byte3
<1>4. u3 = d3 * Byte3 + u4
  BY <1>0, WeightsType, OneMoreByte DEF Byte4
<1>5. u4 = d4 * Byte4 + u5
  BY <1>0, WeightsType, OneMoreByte DEF Byte5
<1>6. u5 = d5 * Byte5
  <2>1. n \div Byte6 = (n \div Byte5) \div Byte
    BY <1>0, WeightsType, DivideTwice DEF Byte6
  <2>2. n = 0 * Byte6 + n /\ n \in 0 .. Byte6 - 1 /\ 0 \in Nat
    BY <1>0, WeightsType
  <2>3. n \div Byte6 = 0
    BY <1>0, <2>2, WeightsType, Quotient
  <2> DEFINE q == n \div Byte5
  <2>4. q \in Nat
    BY <1>0, WeightsType, Division
  <2> HIDE DEF q
  <2>5. q = (q \div Byte) * Byte + (q % Byte) /\ q % Byte \in Nat
    BY <2>4, WeightsType, Division
  <2>6. q \div Byte = 0
    BY <2>1, <2>3 DEF q
  <2>7. q = q % Byte
    BY <2>5, <2>6, WeightsType
  <2> QED
    BY <2>7 DEF q
<1>7. /\ d0 \in Nat /\ d1 * Byte \in Nat /\ d2 * Byte2 \in Nat
      /\ d3 * Byte3 \in Nat /\ d4 * Byte4 \in Nat /\ d5 * Byte5 \in Nat
      /\ u1 \in Nat /\ u2 \in Nat /\ u3 \in Nat /\ u4 \in Nat /\ u5 \in Nat
  <2>1. \A a, b \in Nat : a * b \in Nat
    OBVIOUS
  <2>2. 1 \in Nat \ {0}
    OBVIOUS
  <2>3. /\ d0 \in Nat /\ d1 \in Nat /\ d2 \in Nat /\ d3 \in Nat
        /\ d4 \in Nat /\ d5 \in Nat
    BY <1>0, <2>2, WeightsType, OneMoreByte, Zenon
  <2>4. u1 \in Nat /\ u2 \in Nat /\ u3 \in Nat /\ u4 \in Nat /\ u5 \in Nat
    BY <1>0, WeightsType, OneMoreByte, Zenon
  <2> HIDE DEF d0, d1, d2, d3, d4, d5, u1, u2, u3, u4, u5
  <2> QED
    BY <2>1, <2>3, <2>4, WeightsType
<1>8. RawValue48(RawBytes(n)) = d0 + d1 * Byte + d2 * Byte2
                                   + d3 * Byte3 + d4 * Byte4 + d5 * Byte5
  <2> DEFINE raw == RawBytes(n)
  <2>1. /\ raw[0] = d0 /\ raw[1] = d1 /\ raw[2] = d2
        /\ raw[3] = d3 /\ raw[4] = d4 /\ raw[5] = d5
    BY DEF RawBytes
  <2> HIDE DEF raw, d0, d1, d2, d3, d4, d5
  <2>2. RawValue48(raw) = d0 + d1 * Byte + d2 * Byte2
                             + d3 * Byte3 + d4 * Byte4 + d5 * Byte5
    BY <2>1 DEF RawValue48
  <2> QED
    BY <2>2 DEF raw
<1> HIDE DEF d0, d1, d2, d3, d4, d5, u1, u2, u3, u4, u5
<1>9. \A a0, a1, a2, a3, a4, a5, v1, v2, v3, v4, v5 \in Nat :
         /\ n = a0 + v1 /\ v1 = a1 + v2 /\ v2 = a2 + v3
         /\ v3 = a3 + v4 /\ v4 = a4 + v5 /\ v5 = a5
         => a0 + a1 + a2 + a3 + a4 + a5 = n
  BY <1>0
<1> QED
  BY <1>1, <1>2, <1>3, <1>4, <1>5, <1>6, <1>7, <1>8, <1>9

-----------------------------------------------------------------------------
(* Names and answers.                                                      *)

(* The counters fit into six bytes.                                        *)
Counts(l) == l.count \in [Slots -> 0 .. Byte6 - 1]

CountInv == Counts(life)

(* The parsed sector has the ids of the drive and the counters of the      *)
(* moment it was read.                                                     *)
SectorInv == pc # "idle" =>
    /\ Counts(svLife)
    /\ DOMAIN sv = Slots
    /\ \A s \in Slots : /\ sv[s].id = ids[s]
                        /\ sv[s].raw = RawBytes(svLife.count[s])

(* What has been listed are the names of the drive's attributes.           *)
ListedInv == listed # None =>
    listed = [s \in {s \in Slots : ids[s] # 0} |-> AttrName(ids[s], rpm)]

AnswerInv == CountInv /\ SectorInv /\ ListedInv /\ GetAnswersFirstCarrier

(* Every set of slots that is not empty has a least element, which is what *)
(* Least chooses.                                                          *)
LEMMA LeastExists ==
    ASSUME NEW S, S \subseteq Slots, S # {}
    PROVE  Least(S) \in S /\ \A t \in S : Least(S) <= t
<1> DEFINE R == OpToRel(<, Nat)
<1>0. S \subseteq Nat
  BY NumAssumption DEF Slots
<1>1. IsWellFoundedOn(R, Nat)
  BY NatLessThanWellFounded
<1> HIDE DEF R
<1>2. PICK s \in S : \A t \in S : ~ (<<t, s>> \in R)
  BY <1>0, <1>1, WFMin
<1>3. ASSUME NEW t \in S PROVE s <= t
  <2>1. ~ (<<t, s>> \in R)
    BY <1>2
  <2>2. ~ (t < s)
    BY <1>0, <2>1 DEF R, OpToRel
  <2> QED
    BY <1>0, <2>2
<1> QED
  BY <1>2, <1>3 DEF Least

(* No operation changes what the drive is.                                 *)
LEMMA DriveStays == [Next]_vars => ids' = ids /\ rpm' = rpm
  BY DEF Next, Work, SmartReadData, listATA, getATA, SmartReadThresholds,
         PrintAttributes, vars, drive

(* Whatever the drive counts fits into six bytes.                          *)
LEMMA CountsKept == CountInv /\ [Next]_vars => CountInv'
<1> SUFFICES ASSUME CountInv, [Next]_vars PROVE CountInv'
  OBVIOUS
<1>1. ASSUME NEW t \in Slots, NEW v \in Values, NEW n \in Counters,
             Work(t, v, n)
      PROVE  CountInv'
  <2>1. n \in 0 .. Byte6 - 1
    BY DriveAssumption
  <2>2. life'.count = [life.count EXCEPT ![t] = n]
    BY <1>1 DEF Work
  <2> QED
    BY <2>1, <2>2 DEF CountInv, Counts
<1>2. CASE UNCHANGED life
  BY <1>2 DEF CountInv, Counts
<1> QED
  BY <1>1, <1>2
  DEF Next, SmartReadData, listATA, getATA, SmartReadThresholds,
      PrintAttributes, vars

(* A parsed sector keeps the ids and the counters of the read.             *)
LEMMA SectorKept == AnswerInv /\ [Next]_vars => SectorInv'
<1> SUFFICES ASSUME AnswerInv, [Next]_vars PROVE SectorInv'
  OBVIOUS
<1>0. ids' = ids
  BY DriveStays
<1>1. ASSUME NEW mode \in {"list", "get", "full"}, SmartReadData(mode)
      PROVE  SectorInv'
  <2>1. sv' = ParseSmartValues /\ svLife' = life
    BY <1>1 DEF SmartReadData
  <2>2. DOMAIN sv' = Slots /\ \A s \in Slots :
           sv'[s].id = ids[s] /\ sv'[s].raw = RawBytes(svLife'.count[s])
    BY <2>1 DEF ParseSmartValues
  <2>3. Counts(svLife)'
    BY <2>1 DEF AnswerInv, CountInv, Counts
  <2> QED
    BY <1>0, <2>2, <2>3 DEF SectorInv
<1>2. CASE pc' = "idle"
  BY <1>2 DEF SectorInv
<1>3. CASE UNCHANGED <<sv, svLife>> /\ (pc' # "idle" => pc # "idle")
  BY <1>0, <1>3 DEF AnswerInv, SectorInv, Counts
<1> QED
  BY <1>1, <1>2, <1>3
  DEF Next, Work, listATA, getATA, SmartReadThresholds, PrintAttributes,
      EndOfRun, vars

(* What list mode prints are the names of the drive.                       *)
LEMMA ListedKept == AnswerInv /\ [Next]_vars => ListedInv'
<1> SUFFICES ASSUME AnswerInv, [Next]_vars PROVE ListedInv'
  OBVIOUS
<1>0. ids' = ids /\ rpm' = rpm
  BY DriveStays
<1>1. CASE listATA
  <2>1. DOMAIN sv = Slots /\ \A s \in Slots : sv[s].id = ids[s]
    BY <1>1 DEF listATA, AnswerInv, SectorInv
  <2>2. Present(sv) = {s \in Slots : ids[s] # 0}
    BY <2>1 DEF Present
  <2>3. AttrNames(sv, rpm)
          = [s \in {s \in Slots : ids[s] # 0} |-> AttrName(ids[s], rpm)]
    BY <2>1, <2>2 DEF AttrNames
  <2>4. listed' = AttrNames(sv, rpm)
    BY <1>1 DEF listATA
  <2> QED
    BY <1>0, <2>3, <2>4 DEF ListedInv
<1>2. CASE UNCHANGED listed
  BY <1>0, <1>2 DEF AnswerInv, ListedInv
<1> QED
  BY <1>1, <1>2
  DEF Next, Work, SmartReadData, getATA, SmartReadThresholds,
      PrintAttributes, vars

(* The answer of get mode.                                                 *)
LEMMA AnswersKept == AnswerInv /\ [Next]_vars => GetAnswersFirstCarrier'
<1> SUFFICES ASSUME AnswerInv, [Next]_vars PROVE GetAnswersFirstCarrier'
  OBVIOUS
<1>0. ids' = ids /\ rpm' = rpm
  BY DriveStays
<1>1. ASSUME NEW name, getATA(name) PROVE GetAnswersFirstCarrier'
  <2> DEFINE C == Carriers(name)
             slot == AttrByName(sv, name, rpm)
  <2>1. pc = "get"
    BY <1>1 DEF getATA
  <2>2. Counts(svLife) /\ DOMAIN sv = Slots
    BY <2>1 DEF AnswerInv, SectorInv
  <2>3. \A s \in Slots : /\ sv[s].id = ids[s]
                         /\ sv[s].raw = RawBytes(svLife.count[s])
    BY <2>1 DEF AnswerInv, SectorInv
  <2>4. {s \in Present(sv) : AttrName(sv[s].id, rpm) = name} = C
    BY <2>2, <2>3 DEF Present, Carriers
  <2>5. slot = IF C = {} THEN NotFound ELSE Least(C)
    BY <2>4 DEF AttrByName
  <2>6. /\ out'.mode = "get" /\ out'.name = name /\ out'.life = svLife
        /\ out'.found = (slot # NotFound)
        /\ out'.value = IF slot = NotFound THEN 0 ELSE RawValue48(sv[slot].raw)
    BY <1>1 DEF getATA
  <2>7. Carriers(out.name)' = C
    BY <1>0, <2>6 DEF Carriers
  <2>8. C \subseteq Slots
    BY DEF Carriers
  <2> HIDE DEF C, slot
  <2>9. CASE C = {}
    <3>1. ~ out'.found
      BY <2>5, <2>6, <2>9
    <3> QED
      BY <2>7, <2>9, <3>1 DEF GetAnswersFirstCarrier
  <2>10. CASE C # {}
    <3>1. slot \in C /\ \A t \in C : slot <= t
      BY <2>5, <2>8, <2>10, LeastExists
    <3>2. slot \in Slots /\ slot # NotFound
      BY <2>8, <3>1, NumAssumption DEF Slots, NotFound
    <3>3. out'.found
      BY <2>6, <3>2
    <3>4. svLife.count[slot] \in 0 .. Byte6 - 1
      BY <2>2, <3>2 DEF Counts
    <3>5. out'.value = RawValue48(RawBytes(svLife.count[slot]))
      BY <2>3, <2>6, <3>2
    <3>6. out'.value = out'.life.count[slot]
      BY <2>6, <3>4, <3>5, RawValueIsCounter
    <3> QED
      BY <2>7, <2>10, <3>1, <3>3, <3>6 DEF GetAnswersFirstCarrier
  <2> QED
    BY <2>9, <2>10
<1>2. CASE PrintAttributes
  BY <1>2 DEF PrintAttributes, GetAnswersFirstCarrier
<1>3. CASE UNCHANGED out
  <2>1. Carriers(out.name)' = Carriers(out.name)
    BY <1>0, <1>3 DEF Carriers
  <2> QED
    BY <1>3, <2>1 DEF AnswerInv, GetAnswersFirstCarrier
<1> QED
  BY <1>1, <1>2, <1>3
  DEF Next, Work, SmartReadData, listATA, SmartReadThresholds, vars

(* The sectors, the names and the answers of every run are the drive's.    *)
THEOREM AnswerInvariance == Spec => []AnswerInv
<1>1. Init => AnswerInv
  <2> SUFFICES ASSUME Init PROVE AnswerInv
    OBVIOUS
  <2>1. CountInv
    <3>1. 0 \in 0 .. Byte6 - 1
      BY WeightsType
    <3>2. life.count = [s \in Slots |-> 0]
      BY DEF Init, New
    <3> QED
      BY <3>1, <3>2 DEF CountInv, Counts
  <2>2. SectorInv /\ ListedInv /\ GetAnswersFirstCarrier
    BY DEF Init, SectorInv, ListedInv, GetAnswersFirstCarrier, NoOutput
  <2> QED
    BY <2>1, <2>2 DEF AnswerInv
<1>2. AnswerInv /\ [Next]_vars => AnswerInv'
  BY CountsKept, SectorKept, ListedKept, AnswersKept DEF AnswerInv
<1> QED
  BY <1>1, <1>2, PTL DEF Spec

(* Get mode (main.go:308-312) answers with the counter of the first        *)
(* attribute that carries the name, as it was at the read, and "field not  *)
(* found" only when none does, for every table of a drive and every        *)
(* counter that six bytes hold.                                            *)
THEOREM GetIsFirstCarrier == Spec => []GetAnswersFirstCarrier
<1>1. AnswerInv => GetAnswersFirstCarrier
  BY DEF AnswerInv
<1> QED
  BY <1>1, AnswerInvariance, PTL

(* Every attribute of the drive is listed, and what one run of list mode   *)
(* has printed a later run of get mode finds (smart.go:292 and 303).       *)
THEOREM ListedCanBeGot == Spec => []ListAndGetAgree
<1>1. ASSUME AnswerInv PROVE ListAndGetAgree
  <2> SUFFICES ASSUME listed # None PROVE ListAndGetAgree
    BY DEF ListAndGetAgree
  <2>1. listed = [s \in {s \in Slots : ids[s] # 0} |-> AttrName(ids[s], rpm)]
    BY <1>1 DEF AnswerInv, ListedInv
  <2>2. \A s \in Slots : ids[s] # 0 =>
           s \in DOMAIN listed /\ listed[s] = AttrName(ids[s], rpm)
    BY <2>1
  <2>3. ASSUME out.mode = "get", NEW s \in DOMAIN listed,
               listed[s] = out.name
        PROVE  out.found
    <3>1. s \in Carriers(out.name)
      BY <2>1, <2>3 DEF Carriers
    <3>2. Carriers(out.name) # {}
      BY <3>1
    <3> QED
      BY <1>1, <2>3, <3>2 DEF AnswerInv, GetAnswersFirstCarrier
  <2> QED
    BY <2>2, <2>3 DEF ListAndGetAgree
<1> QED
  BY <1>1, AnswerInvariance, PTL
=============================================================================
