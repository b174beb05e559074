---------------------------- MODULE IdentifyProofs ----------------------------
(***************************************************************************)
(* Theorems about Identify, for words of every size, every unit, field     *)
(* length and every set of drives.                                         *)
(***************************************************************************)
EXTENDS Identify, FiniteSetTheorems, SequenceTheorems, TLAPS

-----------------------------------------------------------------------------
(* Numbers in words.                                                       *)

(* Quotient and remainder.                                                 *)
LEMMA Division ==
    ASSUME NEW b \in Nat \ {0}, NEW n \in Nat
    PROVE  /\ n = (n \div b) * b + (n % b)
           /\ n % b \in 0 .. b - 1
           /\ n \div b \in Nat
  OBVIOUS

(* They are the only ones.                                                 *)
LEMMA Quotient ==
    ASSUME NEW b \in Nat \ {0}, NEW n \in Nat, NEW q \in Nat,
           NEW r \in 0 .. b - 1, n = q * b + r
    PROVE  n \div b = q /\ n % b = r
  OBVIOUS

(* To divide by a product is to divide twice.                              *)
LEMMA DivideTwice ==
    ASSUME NEW b \in Nat \ {0}, NEW c \in Nat \ {0}, NEW n \in Nat
    PROVE  b * c \in Nat \ {0} /\ n \div (b * c) = (n \div b) \div c
<1> DEFINE q == n \div b
           r == n % b
           p == q \div c
           s == q % c
           m == b * c
<1>1. q \in Nat /\ r \in 0 .. b - 1 /\ n = q * b + r
  BY Division
<1>2. p \in Nat /\ s \in 0 .. c - 1 /\ q = p * c + s
  BY <1>1, Division
<1> HIDE DEF q, r, p, s
<1>3. m \in Nat \ {0}
  OBVIOUS
<1>4. n = p * m + (s * b + r)
  BY <1>1, <1>2
<1>5. s * b + r \in 0 .. m - 1
  <2>1. s * b \in Nat /\ s * b <= (c - 1) * b
    BY <1>2
  <2>2. (c - 1) * b = m - b
    OBVIOUS
  <2> HIDE DEF m
  <2> QED
    BY <1>1, <1>3, <2>1, <2>2
<1> HIDE DEF m
<1>6. n \div m = p
  BY <1>2, <1>3, <1>4, <1>5, Quotient
<1> QED
  BY <1>3, <1>6 DEF m, p, q

(* One more word: what is left of n above weight w is a word of that       *)
(* weight and what is left above the next one.                             *)
LEMMA OneMoreWord ==
    ASSUME NEW w \in Nat \ {0}, NEW n \in Nat
    PROVE  /\ w * Word \in Nat \ {0}
           /\ (n \div w) * w
                = ((n \div w) % Word) * w + (n \div (w * Word)) * (w * Word)
           /\ (n \div w) % Word \in Nat /\ (n \div w) * w \in Nat
<1> DEFINE q == n \div w
           p == q \div Word
           r == q % Word
<1>0. Word \in Nat \ {0}
  BY WordAssumption
<1>1. q \in Nat
  BY Division
<1>2. q = p * Word + r /\ p \in Nat /\ r \in 0 .. Word - 1
  BY <1>0, <1>1, Division
<1>3. w * Word \in Nat \ {0} /\ n \div (w * Word) = p
  BY <1>0, DivideTwice
<1> HIDE DEF q, p, r
<1>4. q * w = r * w + p * (w * Word) /\ q * w \in Nat
  BY <1>0, <1>1, <1>2
<1>5. r \in Nat
  BY <1>0, <1>2
<1> QED
  BY <1>3, <1>4, <1>5 DEF q, r

(* The widths are numbers other than 0.                                    *)
LEMMA WordsType ==
    /\ Word \in Nat \ {0} /\ Uint32 \in Nat \ {0}
    /\ Uint48 \in Nat \ {0} /\ Uint64 \in Nat \ {0}
<1>1. \A a, b \in Nat \ {0} : a * b \in Nat \ {0}
  OBVIOUS
<1> QED
  BY <1>1, WordAssumption DEF Uint32, Uint48, Uint64

(* A number that fits is left alone by the width.                          *)
LEMMA Small ==
    ASSUME NEW m \in Nat \ {0}, NEW n \in Nat, n < m
    PROVE  n % m = n /\ n \div m = 0
<1>1. n = 0 * m + n /\ n \in 0 .. m - 1 /\ 0 \in Nat
  OBVIOUS
<1> QED
  BY <1>1, Quotient

(* The highest word: above it nothing is left.                             *)
LEMMA HighestWord ==
    ASSUME NEW w \in Nat \ {0}, NEW n \in Nat, n < w * Word
    PROVE  (n \div w) % Word = n \div w
<1> DEFINE q == n \div w
<1>1. q \in Nat /\ w * Word \in Nat \ {0}
  BY Division, OneMoreWord
<1>2. n \div (w * Word) = 0
  BY <1>1, Small
<1>3. q \div Word = 0
  BY <1>2, DivideTwice, WordsType
<1> HIDE DEF q
<1>4. q = (q \div Word) * Word + (q % Word) /\ q % Word \in 0 .. Word - 1
  BY <1>1, WordsType, Division
<1>5. q = q % Word
  BY <1>3, <1>4, WordsType
<1> QED
  BY <1>5 DEF q

(* Two words hold every number below 2^32.                                 *)
LEMMA TwoWords ==
    ASSUME NEW n \in Nat, n < Uint32
    PROVE  WordsOf(n, 2)[1] + WordsOf(n, 2)[2] * Word = n
<1> DEFINE d1 == (n \div 1) % Word
           d2 == (n \div Word) % Word
           u1 == (n \div Word) * Word
<1>1. n = d1 + u1 /\ d1 \in Nat /\ u1 \in Nat
  <2>1. n = (n \div Word) * Word + (n % Word) /\ n % Word \in 0 .. Word - 1
    BY WordsType, Division
  <2>2. n \div 1 = n
    OBVIOUS
  <2>3. u1 \in Nat
    BY WordsType, OneMoreWord
  <2> HIDE DEF u1
  <2> QED
    BY <2>1, <2>2, <2>3, WordsType DEF u1
<1>2. u1 = d2 * Word
  BY WordsType, HighestWord DEF Uint32
<1>3. WordsOf(n, 2)[1] = d1 /\ WordsOf(n, 2)[2] = d2
  BY DEF WordsOf
<1> QED
  BY <1>1, <1>2, <1>3

(* Four words hold every number below 2^64.                                *)
LEMMA FourWords ==
    ASSUME NEW n \in Nat, n < Uint64
    PROVE  LET w == WordsOf(n, 4)
           IN  /\ w[1] \in Nat /\ w[2] \in Nat /\ w[3] \in Nat /\ w[4] \in Nat
               /\ w[1] + w[2] * Word + w[3] * Uint32 + w[4] * Uint48 = n
<1> DEFINE d1 == (n \div 1) % Word
           d2 == (n \div Word) % Word
           d3 == (n \div Uint32) % Word
           d4 == (n \div Uint48) % Word
           u1 == (n \div Word) * Word
           u2 == (n \div Uint32) * Uint32
           u3 == (n \div Uint48) * Uint48
           w == WordsOf(n, 4)
<1>1. n = d1 + u1
  <2>1. n = (n \div Word) * Word + (n % Word)
    BY WordsType, Division
  <2>2. n \div 1 = n
    OBVIOUS
  <2>3. u1 \in Nat /\ n % Word \in 0 .. Word - 1
    BY WordsType, Division, OneMoreWord
  <2> HIDE DEF u1
  <2> QED
    BY <2>1, <2>2, <2>3, WordsType DEF u1
<1>2. u1 = d2 * Word + u2
  BY WordsType, OneMoreWord DEF Uint32
<1>3. u2 = d3 * Uint32 + u3
  BY WordsType, OneMoreWord DEF Uint48
<1>4. u3 = d4 * Uint48
  BY WordsType, HighestWord DEF Uint64
<1>5. d1 \in Nat /\ d2 \in Nat /\ d3 \in Nat /\ d4 \in Nat
  BY WordsType, OneMoreWord
<1>6. u1 \in Nat /\ u2 \in Nat /\ u3 \in Nat
  BY WordsType, OneMoreWord, Zenon
<1>7. w[1] = d1 /\ w[2] = d2 /\ w[3] = d3 /\ w[4] = d4
  BY DEF WordsOf
<1> HIDE DEF d1, d2, d3, d4, u1, u2, u3, w
<1>8. d2 * Word \in Nat /\ d3 * Uint32 \in Nat /\ d4 * Uint48 \in Nat
  BY <1>5, WordsType
<1>9. d1 + d2 * Word + d3 * Uint32 + d4 * Uint48 = n
  BY <1>1, <1>2, <1>3, <1>4, <1>5, <1>6, <1>8
<1>10. /\ w[1] \in Nat /\ w[2] \in Nat /\ w[3] \in Nat /\ w[4] \in Nat
       /\ w[1] + w[2] * Word + w[3] * Uint32 + w[4] * Uint48 = n
  BY <1>5, <1>7, <1>9
<1> QED
  BY <1>10 DEF w

-----------------------------------------------------------------------------
(* What the drive is and what the parser makes of it.                      *)

(* Sizes are numbers, a sector has at least one byte, and no capacity has  *)
(* fewer bytes than sectors.                                               *)
LEMMA DriveType ==
    ASSUME NEW d \in Drives
    PROVE  /\ d.sectors \in Nat /\ LogicalSize(d) \in Nat \ {0}
           /\ Capacity(d) \in Nat
           /\ Capacity(d) < Uint64 => d.sectors < Uint64
<1>1. d.sectors \in Nat /\ d.long_size \in Nat
  BY DriveAssumption
<1>2. LogicalSize(d) \in Nat \ {0}
  BY <1>1, WordAssumption DEF LogicalSize
<1> DEFINE l == LogicalSize(d)
           n == d.sectors
<1> HIDE DEF l, n
<1>3. n * l \in Nat /\ n <= n * l
  BY <1>1, <1>2 DEF l, n
<1> QED
  BY <1>1, <1>2, <1>3, WordsType DEF Capacity, l, n

(* The number of sectors that is parsed (identify.go:70-82).               *)
LEMMA SectorsExact ==
    ASSUME NEW d \in Drives, ~d.nvme, d.sectors < Uint64
    PROVE  TotalSectors(IdentifyData(d)) = d.sectors
<1> DEFINE w == IdentifyData(d)
<1>0. d.sectors \in Nat /\ d.lba48 \in BOOLEAN
  BY DriveAssumption
<1>1. CASE d.lba48
  <2> DEFINE x == WordsOf(d.sectors, 4)
  <2>1. w.w100 = x /\ w.lba48
    BY <1>1 DEF IdentifyData
  <2>2. /\ x[1] \in Nat /\ x[2] \in Nat /\ x[3] \in Nat /\ x[4] \in Nat
        /\ x[1] + x[2] * Word + x[3] * Uint32 + x[4] * Uint48 = d.sectors
    BY <1>0, FourWords
  <2> HIDE DEF x, w
  <2>3. TotalSectors(w) = x[1] + x[2] * Word + (x[3] + x[4] * Word) * Uint32
    BY <2>1 DEF TotalSectors
  <2>4. (x[3] + x[4] * Word) * Uint32 = x[3] * Uint32 + x[4] * Uint48
    BY <2>2, WordsType DEF Uint48
  <2>5. x[2] * Word \in Nat /\ x[3] * Uint32 \in Nat /\ x[4] * Uint48 \in Nat
    BY <2>2, WordsType
  <2> QED
    BY <2>2, <2>3, <2>4, <2>5 DEF w
<1>2. CASE ~d.lba48
  <2> DEFINE x == WordsOf(d.sectors, 2)
  <2>1. d.sectors < Uint32
    BY <1>2, DriveAssumption
  <2>2. w.w60 = x /\ ~w.lba48
    BY <1>2, <2>1 DEF IdentifyData
  <2>3. x[1] + x[2] * Word = d.sectors
    BY <1>0, <2>1, TwoWords
  <2> HIDE DEF x, w
  <2> QED
    BY <2>2, <2>3 DEF TotalSectors, w
<1> QED
  BY <1>1, <1>2

(* The sector size that is parsed (identify.go:84-92).                     *)
LEMMA SectorSizeExact ==
    ASSUME NEW d \in Drives, ~d.nvme, LogicalSize(d) < Uint32
    PROVE  LogicalSectorSize(IdentifyData(d)) = LogicalSize(d)
<1> DEFINE w == IdentifyData(d)
           x == WordsOf(d.long_size, 2)
<1>0. d.long_size \in Nat /\ d.long \in BOOLEAN
  BY DriveAssumption
<1>1. w.w117 = x /\ w.long = d.long
  BY DEF IdentifyData
<1>2. CASE d.long /\ d.long_size > 0
  <2>1. LogicalSize(d) = 2 * d.long_size
    BY <1>2 DEF LogicalSize
  <2>2. d.long_size < Uint32 /\ d.long_size * 2 < Uint32
    BY <1>0, <2>1, WordsType
  <2>3. x[1] + x[2] * Word = d.long_size
    BY <1>0, <2>2, TwoWords
  <2> HIDE DEF x, w
  <2>4. LogicalSectorSize(w) = (d.long_size * 2) % Uint32
    BY <1>1, <1>2, <2>3 DEF LogicalSectorSize
  <2>5. (d.long_size * 2) % Uint32 = d.long_size * 2
    BY <1>0, <2>2, WordsType, Small
  <2> QED
    BY <1>0, <2>1, <2>4, <2>5 DEF w
<1>3. CASE ~d.long
  <2> HIDE DEF w
  <2>1. LogicalSectorSize(w) = Sector
    BY <1>1, <1>3 DEF LogicalSectorSize
  <2> QED
    BY <1>3, <2>1 DEF LogicalSize, w
<1>4. CASE d.long_size = 0
  <2>1. x[1] + x[2] * Word = 0
    BY <1>4, WordsType, TwoWords
  <2> HIDE DEF w, x
  <2>2. LogicalSectorSize(w) = Sector
    BY <1>1, <2>1 DEF LogicalSectorSize
  <2> QED
    BY <1>4, <2>2 DEF LogicalSize, w
<1> QED
  BY <1>0, <1>2, <1>3, <1>4

(* The capacity that is parsed, of drives of either kind.                  *)
LEMMA CapacityExact ==
    ASSUME NEW d \in Drives, Fits(d)
    PROVE  /\ ~d.nvme => ParseIdentify(IdentifyData(d)).capacity = Capacity(d)
           /\ d.nvme => ParseIdentifyController(IdentifyPage(d)).capacity
                          = Capacity(d)
<1>0. d.sectors < Uint64 /\ Capacity(d) \in Nat /\ d.sectors \in Nat
  BY DriveType DEF Fits
<1>1. CASE ~d.nvme
  <2>1. TotalSectors(IdentifyData(d)) = d.sectors
    BY <1>0, <1>1, SectorsExact
  <2>2. LogicalSectorSize(IdentifyData(d)) = LogicalSize(d)
    BY <1>1, SectorSizeExact DEF Fits
  <2>3. ParseIdentify(IdentifyData(d)).capacity = Capacity(d) % Uint64
    BY <2>1, <2>2 DEF ParseIdentify, Capacity
  <2> QED
    BY <1>0, <1>1, <2>3, WordsType, Small DEF Fits
<1>2. CASE d.nvme
  <2> DEFINE x == WordsOf(d.sectors, 4)
  <2>1. IdentifyPage(d).low = x
    BY DEF IdentifyPage
  <2>2. x[1] + x[2] * Word + x[3] * Uint32 + x[4] * Uint48 = d.sectors
    BY <1>0, FourWords
  <2>3. Capacity(d) = d.sectors
    BY <1>0, <1>2 DEF Capacity, LogicalSize
  <2> HIDE DEF x
  <2> QED
    BY <1>2, <2>1, <2>2, <2>3 DEF ParseIdentifyController
<1> QED
  BY <1>1, <1>2

(* A shift by 0 bits, and no other, changes nothing.                       *)
LEMMA Power2Type ==
    ASSUME NEW k \in 0 .. 15
    PROVE  Power2(k) \in Nat \ {0} /\ (Power2(k) = 1 <=> k = 0)
  BY DEF Power2

(* The two sector sizes that are parsed.                                   *)
LEMMA SizesExact ==
    ASSUME NEW d \in Drives, ~d.nvme,
           LogicalSize(d) * Power2(d.shift) < Uint32
    PROVE  LET i == ParseIdentify(IdentifyData(d))
           IN  /\ i.logical = LogicalSize(d)
               /\ i.physical = LogicalSize(d) * Power2(d.shift)
               /\ i.logical = i.physical <=> d.shift = 0
<1> DEFINE i == ParseIdentify(IdentifyData(d))
           l == LogicalSize(d)
           m == Power2(d.shift)
<1>1. d.shift \in 0 .. 15
  BY DriveAssumption
<1>2. m \in Nat \ {0} /\ (m = 1 <=> d.shift = 0)
  BY <1>1, Power2Type
<1>3. l \in Nat \ {0}
  BY DriveType
<1>4. l * m < Uint32
  OBVIOUS
<1>5. IdentifyData(d).shift = d.shift
  BY DEF IdentifyData
<1>6. i.logical = LogicalSectorSize(IdentifyData(d))
      /\ i.physical = (LogicalSectorSize(IdentifyData(d)) * m) % Uint32
  BY <1>5 DEF ParseIdentify
<1> HIDE DEF l, m, i
<1>7. l <= l * m /\ l * m \in Nat /\ (l * m = l <=> m = 1)
  BY <1>2, <1>3
<1>8. l < Uint32
  BY <1>3, <1>4, <1>7, WordsType
<1>9. LogicalSectorSize(IdentifyData(d)) = l
  BY <1>8, SectorSizeExact DEF l
<1>10. (l * m) % Uint32 = l * m
  BY <1>4, <1>7, WordsType, Small
<1>11. /\ i.logical = l /\ i.physical = l * m
       /\ i.logical = i.physical <=> d.shift = 0
  BY <1>2, <1>6, <1>7, <1>9, <1>10
<1> QED
  BY <1>11 DEF i, l, m

-----------------------------------------------------------------------------
(* Strings.                                                                *)

(* The padding, and only that, is trimmed.                                 *)
LEMMA TrimPadded ==
    ASSUME NEW s, IsString(s)
    PROVE  TrimRight(Padded(s)) = s
<1> DEFINE b == Padded(s)
           m == Len(s)
           tail == {i \in 1 .. Length : \A j \in i .. Length : b[j] = Blank}
           S == {s[i] : i \in 1 .. m}
<1>1. m \in 0 .. Length /\ Length \in Nat
  BY WordAssumption DEF IsString
<1>2. s = [i \in 1 .. m |-> s[i]] /\ (m > 0 => s[m] # Blank)
  BY DEF IsString
<1>3. \A i \in 1 .. m : b[i] = s[i]
  BY <1>1 DEF Padded
<1>4. \A i \in (m + 1) .. Length : b[i] = Blank
  BY <1>1 DEF Padded
<1> HIDE DEF b, m
<1>5. tail = (m + 1) .. Length
  <2>1. ASSUME NEW i \in tail PROVE i \in (m + 1) .. Length
    <3>1. i \in 1 .. Length /\ \A j \in i .. Length : b[j] = Blank
      OBVIOUS
    <3>2. CASE i <= m
      <4>1. m \in i .. Length /\ m \in 1 .. m /\ m > 0
        BY <1>1, <3>1, <3>2
      <4>2. b[m] = Blank /\ b[m] = s[m]
        BY <1>3, <3>1, <4>1
      <4> QED
        BY <1>2, <4>1, <4>2
    <3> QED
      BY <1>1, <3>1, <3>2
  <2>2. ASSUME NEW i \in (m + 1) .. Length PROVE i \in tail
    BY <1>1, <1>4, <2>2
  <2> QED
    BY <2>1, <2>2
<1>6. Cardinality(tail) = Length - m
  <2> DEFINE a == m + 1
  <2>1. a \in Int /\ Length \in Int
    BY <1>1
  <2> HIDE DEF a
  <2>2. Cardinality(a .. Length) = IF a > Length THEN 0 ELSE Length - a + 1
    BY <2>1, FS_Interval
  <2>3. Cardinality(tail) = Cardinality(a .. Length)
    BY <1>5 DEF a
  <2> HIDE DEF tail
  <2> QED
    BY <1>1, <2>2, <2>3 DEF a
<1>7. TrimRight(b) = SubSeq(b, 1, m)
  <2>1. TrimRight(b) = SubSeq(b, 1, Length - Cardinality(tail))
    BY DEF TrimRight
  <2> HIDE DEF tail
  <2>2. Length - Cardinality(tail) = m
    BY <1>1, <1>6
  <2> QED
    BY <2>1, <2>2
<1>8. /\ SubSeq(b, 1, m) \in Seq(S) /\ Len(SubSeq(b, 1, m)) = m
      /\ \A i \in 1 .. m : SubSeq(b, 1, m)[i] = b[i]
  BY <1>1, <1>3, SubSeqProperties
<1>9. SubSeq(b, 1, m) = [i \in 1 .. m |-> s[i]]
  BY <1>1, <1>3, <1>8
<1> QED
  BY <1>2, <1>7, <1>9 DEF b

(* Characters that are swapped twice are where they were.                  *)
LEMMA SwappedBack ==
    ASSUME NEW s
    PROVE  ataString(Swapped(Padded(s))) = TrimRight(Padded(s))
<1> DEFINE b == Padded(s)
           c == Swapped(b)
           other(i) == IF i % 2 = 1 THEN i + 1 ELSE i - 1
<1>1. ASSUME NEW i \in 1 .. Length
      PROVE  other(i) \in 1 .. Length /\ other(other(i)) = i
  BY WordAssumption
<1>2. b = [i \in 1 .. Length |-> b[i]]
  BY DEF Padded
<1> HIDE DEF b
<1>3. c = [i \in 1 .. Length |-> b[other(i)]]
  BY DEF Swapped
<1> HIDE DEF c, other
<1>4. [i \in 1 .. Length |-> c[other(i)]] = b
  BY <1>1, <1>2, <1>3
<1>5. ataString(c) = TrimRight([i \in 1 .. Length |-> c[other(i)]])
  BY DEF ataString, other
<1> QED
  BY <1>4, <1>5 DEF b, c

(* The model number that is parsed, of drives of either kind.              *)
LEMMA ModelExact ==
    ASSUME NEW d \in Drives
    PROVE  /\ ParseIdentify(IdentifyData(d)).model = d.model
           /\ ParseIdentifyController(IdentifyPage(d)).model = d.model
<1>1. TrimRight(Padded(d.model)) = d.model
  BY DriveAssumption, TrimPadded
<1>2. ataString(Swapped(Padded(d.model))) = d.model
  BY <1>1, SwappedBack
<1>3. /\ IdentifyData(d).model = Swapped(Padded(d.model))
      /\ IdentifyPage(d).model = Padded(d.model)
  BY DEF IdentifyData, IdentifyPage
<1> QED
  BY <1>1, <1>2, <1>3 DEF ParseIdentify, ParseIdentifyController

-----------------------------------------------------------------------------
(* The short form of the capacity.                                         *)

(* The units are numbers other than 0 ...                                  *)
LEMMA UnitsType == MB \in Nat \ {0} /\ GB \in Nat \ {0}
                   /\ TB \in Nat \ {0} /\ PB \in Nat \ {0}
<1>1. \A a, b \in Nat \ {0} : a * b \in Nat \ {0}
  OBVIOUS
<1> QED
  BY <1>1, WordAssumption DEF MB, GB, TB, PB

(* ... in their order.                                                     *)
LEMMA UnitOrder == GB <= TB /\ TB <= PB
<1>1. \A a \in Nat : a <= a * Kilo
  BY WordAssumption
<1> QED
  BY <1>1, UnitsType DEF TB, PB

(* Rounding never passes a whole number.                                   *)
LEMMA NearestBounds ==
    ASSUME NEW n \in Nat, NEW d \in Nat \ {0}, NEW k \in Nat,
           NEW q \in Nearest(n, d)
    PROVE  q \in Nat /\ (n <= k * d => q <= k) /\ (k * d <= n => k <= q)
<1>1. n \div d \in Nat
  BY Division
<1>2. q \in Nat /\ 2 * (q * d - n) <= d /\ 2 * (n - q * d) <= d
  BY <1>1 DEF Nearest
<1>3. ASSUME k + 1 <= q PROVE k * d + d <= q * d
  BY <1>2, <1>3
<1>4. ASSUME q + 1 <= k PROVE q * d + d <= k * d
  BY <1>2, <1>4
<1>5. q * d \in Nat /\ k * d \in Nat
  BY <1>2
<1> DEFINE x == q * d
           y == k * d
<1> HIDE DEF x, y
<1>6. n <= y => q <= k
  BY <1>2, <1>3, <1>5 DEF x, y
<1>7. y <= n => k <= q
  BY <1>2, <1>4, <1>5 DEF x, y
<1> QED
  BY <1>2, <1>6, <1>7 DEF y

(* Rounding keeps the order.                                               *)
LEMMA NearestOrder ==
    ASSUME NEW n1 \in Nat, NEW n2 \in Nat, n1 < n2, NEW d \in Nat \ {0},
           NEW q1 \in Nearest(n1, d), NEW q2 \in Nearest(n2, d)
    PROVE  q1 <= q2
<1>1. n1 \div d \in Nat /\ n2 \div d \in Nat
  BY Division
<1>2. /\ q1 \in Nat /\ 2 * (q1 * d - n1) <= d
      /\ q2 \in Nat /\ 2 * (n2 - q2 * d) <= d
  BY <1>1 DEF Nearest
<1>3. ASSUME q2 + 1 <= q1 PROVE q2 * d + d <= q1 * d
  BY <1>2, <1>3
<1> DEFINE x1 == q1 * d
           x2 == q2 * d
<1>4. x1 \in Nat /\ x2 \in Nat
  BY <1>2
<1>5. 2 * (x1 - n1) <= d /\ 2 * (n2 - x2) <= d
  BY <1>2
<1>6. q2 + 1 <= q1 => x2 + d <= x1
  BY <1>3
<1> HIDE DEF x1, x2
<1> QED
  BY <1>2, <1>4, <1>5, <1>6

(* Cutting off keeps the order, and never adds.                            *)
LEMMA QuotientOrder ==
    ASSUME NEW n1 \in Nat, NEW n2 \in Nat, n1 < n2, NEW d \in Nat \ {0}
    PROVE  /\ n1 \div d \in Nat /\ n2 \div d \in Nat
           /\ n1 \div d <= n2 \div d /\ (n1 \div d) * d <= n1
<1> DEFINE q1 == n1 \div d
           q2 == n2 \div d
           x1 == q1 * d
           x2 == q2 * d
<1>1. q1 \in Nat /\ n1 = x1 + (n1 % d) /\ n1 % d \in 0 .. d - 1
  BY Division
<1>2. q2 \in Nat /\ n2 = x2 + (n2 % d) /\ n2 % d \in 0 .. d - 1
  BY Division
<1> HIDE DEF q1, q2
<1>3. x1 \in Nat /\ x2 \in Nat
  BY <1>1, <1>2
<1>4. q2 + 1 <= q1 => x2 + d <= x1
  BY <1>1, <1>2
<1> HIDE DEF x1, x2
<1>5. q1 <= q2 /\ x1 <= n1
  BY <1>1, <1>2, <1>3, <1>4
<1> QED
  BY <1>1, <1>2, <1>5 DEF q1, q2, x1

(* The four bands of formatCapacity.                                       *)
LEMMA Band ==
    ASSUME NEW n \in Nat, NEW s \in formatCapacity(n)
    PROVE  /\ n >= PB => s.unit = "PB" /\ s.amount \in Nearest(10 * n, PB)
           /\ n >= TB /\ n < PB =>
                 s.unit = "TB" /\ s.amount \in Nearest(10 * n, TB)
           /\ n >= GB /\ n < TB => s.unit = "GB" /\ s.amount \in Nearest(n, GB)
           /\ n < GB => s.unit = "MB" /\ s.amount = n \div MB
<1>1. GB <= TB /\ TB <= PB
  BY UnitOrder
<1>2. CASE n >= PB
  BY <1>1, <1>2, UnitsType DEF formatCapacity, Rounded
<1>3. CASE n >= TB /\ n < PB
  BY <1>1, <1>3, UnitsType DEF formatCapacity, Rounded
<1>4. CASE n >= GB /\ n < TB
  BY <1>1, <1>4, UnitsType DEF formatCapacity, Rounded
<1>5. CASE n < GB
  BY <1>1, <1>5, UnitsType DEF formatCapacity, Rounded
<1> QED
  BY <1>1, <1>2, <1>3, <1>4, <1>5, UnitsType

(* Each band is shown between its ends.                                    *)
LEMMA ShownInBand ==
    ASSUME NEW n \in Nat, NEW s \in formatCapacity(n)
    PROVE  /\ ShortBytes(s) \in Nat
           /\ n >= PB => 10 * PB <= ShortBytes(s)
           /\ n >= TB /\ n < PB =>
                 10 * TB <= ShortBytes(s) /\ ShortBytes(s) <= 10 * PB
           /\ n >= GB /\ n < TB =>
                 10 * GB <= ShortBytes(s) /\ ShortBytes(s) <= 10 * TB
           /\ n < GB => ShortBytes(s) <= 10 * GB
<1> DEFINE a == s.amount
<1>0. GB \in Nat \ {0} /\ TB \in Nat \ {0} /\ PB \in Nat \ {0}
      /\ MB \in Nat \ {0} /\ Kilo \in Nat \ {0}
  BY UnitsType, WordAssumption
<1>1. CASE n >= PB
  <2>1. s.unit = "PB" /\ a \in Nearest(10 * n, PB)
    BY <1>1, Band
  <2>2. 10 * PB <= 10 * n /\ 10 * n \in Nat /\ 10 \in Nat
    BY <1>0, <1>1
  <2>3. a \in Nat /\ 10 <= a
    BY <1>0, <2>1, <2>2, NearestBounds
  <2>4. ShortBytes(s) = a * PB
    BY <2>1 DEF ShortBytes
  <2> HIDE DEF a
  <2>5. a * PB \in Nat /\ 10 * PB <= a * PB
    BY <1>0, <2>3
  <2> QED
    BY <1>0, <1>1, <2>4, <2>5, UnitOrder
<1>2. CASE n >= TB /\ n < PB
  <2> DEFINE k == 10 * Kilo
  <2>1. s.unit = "TB" /\ a \in Nearest(10 * n, TB)
    BY <1>2, Band
  <2>2. k * TB = 10 * PB /\ k \in Nat
    BY <1>0 DEF PB
  <2>3. 10 * TB <= 10 * n /\ 10 * n <= 10 * PB /\ 10 * n \in Nat /\ 10 \in Nat
    BY <1>0, <1>2
  <2> HIDE DEF k
  <2>4. a \in Nat /\ 10 <= a /\ a <= k
    BY <1>0, <2>1, <2>2, <2>3, NearestBounds
  <2>5. ShortBytes(s) = a * TB
    BY <2>1 DEF ShortBytes
  <2> HIDE DEF a
  <2>6. a * TB \in Nat /\ 10 * TB <= a * TB /\ a * TB <= k * TB
    BY <1>0, <2>2, <2>4
  <2> QED
    BY <1>0, <1>2, <2>2, <2>5, <2>6, UnitOrder
<1>3. CASE n >= GB /\ n < TB
  <2>1. s.unit = "GB" /\ a \in Nearest(n, GB)
    BY <1>3, Band
  <2>2. TB = Kilo * GB
    BY <1>0 DEF TB
  <2>3. 1 * GB <= n /\ n <= Kilo * GB /\ 1 \in Nat
    BY <1>0, <1>3, <2>2
  <2>4. a \in Nat /\ 1 <= a /\ a <= Kilo
    BY <1>0, <2>1, <2>3, NearestBounds
  <2>5. ShortBytes(s) = a * (10 * GB)
    BY <2>1 DEF ShortBytes
  <2> HIDE DEF a
  <2>6. a * GB \in Nat /\ GB <= a * GB /\ a * GB <= Kilo * GB
    BY <1>0, <2>4
  <2>7. a * (10 * GB) = 10 * (a * GB)
    BY <1>0, <2>4
  <2> QED
    BY <1>0, <1>3, <2>2, <2>5, <2>6, <2>7, UnitOrder
<1>4. CASE n < GB
  <2>1. s.unit = "MB" /\ a = n \div MB
    BY <1>4, Band
  <2>2. a \in Nat /\ a * MB <= n
    BY <1>0, <1>4, <2>1, QuotientOrder
  <2>3. ShortBytes(s) = a * (10 * MB)
    BY <2>1 DEF ShortBytes
  <2> HIDE DEF a
  <2>4. a * (10 * MB) = 10 * (a * MB) /\ a * MB \in Nat
    BY <1>0, <2>2
  <2> QED
    BY <1>0, <1>4, <2>2, <2>3, <2>4, UnitOrder
<1> QED
  BY <1>0, <1>1, <1>2, <1>3, <1>4

(* The short form keeps the order of capacities, across all units.         *)
THEOREM ShortFormOrder ==
    ASSUME NEW n1 \in Nat, NEW n2 \in Nat, n1 < n2,
           NEW s1 \in formatCapacity(n1), NEW s2 \in formatCapacity(n2)
    PROVE  ShortBytes(s1) <= ShortBytes(s2)
<1> DEFINE a1 == s1.amount
           a2 == s2.amount
           b1 == ShortBytes(s1)
           b2 == ShortBytes(s2)
<1>0. GB \in Nat \ {0} /\ TB \in Nat \ {0} /\ PB \in Nat \ {0}
      /\ MB \in Nat \ {0} /\ GB <= TB /\ TB <= PB
  BY UnitsType, UnitOrder
<1>1. \A x, y, u \in Nat : x <= y => x * u <= y * u
  OBVIOUS
<1>2. CASE n1 >= PB
  <2>1. /\ s1.unit = "PB" /\ a1 \in Nearest(10 * n1, PB)
        /\ s2.unit = "PB" /\ a2 \in Nearest(10 * n2, PB)
    BY <1>0, <1>2, Band
  <2>2. 10 * n1 < 10 * n2 /\ 10 * n1 \in Nat /\ 10 * n2 \in Nat /\ 0 \in Nat
    OBVIOUS
  <2>3. a1 <= a2 /\ a1 \in Nat /\ a2 \in Nat
    BY <1>0, <2>1, <2>2, NearestOrder, NearestBounds
  <2>4. b1 = a1 * PB /\ b2 = a2 * PB
    BY <2>1 DEF ShortBytes
  <2> QED
    BY <1>0, <1>1, <2>3, <2>4
<1>3. CASE n1 >= TB /\ n2 < PB
  <2>1. /\ s1.unit = "TB" /\ a1 \in Nearest(10 * n1, TB)
        /\ s2.unit = "TB" /\ a2 \in Nearest(10 * n2, TB)
    BY <1>0, <1>3, Band
  <2>2. 10 * n1 < 10 * n2 /\ 10 * n1 \in Nat /\ 10 * n2 \in Nat /\ 0 \in Nat
    OBVIOUS
  <2>3. a1 <= a2 /\ a1 \in Nat /\ a2 \in Nat
    BY <1>0, <2>1, <2>2, NearestOrder, NearestBounds
  <2>4. b1 = a1 * TB /\ b2 = a2 * TB
    BY <2>1 DEF ShortBytes
  <2> QED
    BY <1>0, <1>1, <2>3, <2>4
<1>4. CASE n1 >= GB /\ n2 < TB
  <2>1. /\ s1.unit = "GB" /\ a1 \in Nearest(n1, GB)
        /\ s2.unit = "GB" /\ a2 \in Nearest(n2, GB)
    BY <1>0, <1>4, Band
  <2>2. a1 <= a2 /\ a1 \in Nat /\ a2 \in Nat
    BY <1>0, <2>1, NearestOrder, NearestBounds
  <2>3. b1 = a1 * (10 * GB) /\ b2 = a2 * (10 * GB) /\ 10 * GB \in Nat
    BY <1>0, <2>1 DEF ShortBytes
  <2> QED
    BY <1>1, <2>2, <2>3
<1>5. CASE n2 < GB
  <2>1. /\ s1.unit = "MB" /\ a1 = n1 \div MB
        /\ s2.unit = "MB" /\ a2 = n2 \div MB
    BY <1>0, <1>5, Band
  <2>2. a1 <= a2 /\ a1 \in Nat /\ a2 \in Nat
    BY <1>0, <2>1, QuotientOrder
  <2>3. b1 = a1 * (10 * MB) /\ b2 = a2 * (10 * MB) /\ 10 * MB \in Nat
    BY <1>0, <2>1 DEF ShortBytes
  <2> QED
    BY <1>1, <2>2, <2>3
<1>6. CASE /\ ~(n1 >= PB) /\ ~(n1 >= TB /\ n2 < PB)
           /\ ~(n1 >= GB /\ n2 < TB) /\ ~(n2 < GB)
  <2>1. b1 \in Nat /\ b2 \in Nat
    BY ShownInBand
  <2>2. /\ n1 >= TB => b1 <= 10 * PB
        /\ n1 >= GB /\ n1 < TB => b1 <= 10 * TB
        /\ n1 < GB => b1 <= 10 * GB
    BY <1>0, <1>6, ShownInBand
  <2>3. /\ n2 >= PB => 10 * PB <= b2
        /\ n2 >= TB /\ n2 < PB => 10 * TB <= b2
        /\ n2 >= GB /\ n2 < TB => 10 * GB <= b2
    BY <1>0, ShownInBand
  <2> HIDE DEF b1, b2
  <2>4. b1 <= b2
    BY <1>0, <1>6, <2>1, <2>2, <2>3
  <2> QED
    BY <2>4 DEF b1, b2
<1> QED
  BY <1>0, <1>2, <1>3, <1>4, <1>5, <1>6

-----------------------------------------------------------------------------
(* The runs.                                                               *)

(* What was parsed is the answer of this drive ...                         *)
InfoInv == pc # "identify" =>
    /\ drive.nvme /\ ~refused =>
          info = ParseIdentifyController(IdentifyPage(drive))
    /\ drive.nvme /\ refused => info = ParseIdentifyController(ZeroPage)
    /\ ~drive.nvme => info = ParseIdentify(IdentifyData(drive)) /\ ~refused

(* ... what was printed was made of it ...                                 *)
PrintedInv == pc = "done" =>
    printed \in IF drive.nvme THEN printNVMeInfo(info) ELSE printATAInfo(info)

(* ... and what is remembered of the previous drive is one of the forms of *)
(* its capacity.                                                           *)
BeforeInv == before.fits =>
    /\ before.capacity \in Nat
    /\ before.shown \subseteq CapacityLines(before.capacity)

IInv ==
    /\ drive \in Drives /\ refused \in BOOLEAN
    /\ InfoInv /\ PrintedInv /\ BeforeInv

(* What the parser makes of a page that was never written.                 *)
LEMMA ZeroPageParsed ==
    /\ ParseIdentifyController(ZeroPage).capacity = 0
    /\ ParseIdentifyController(ZeroPage).model = [i \in 1 .. Length |-> Nul]
<1> DEFINE z == [i \in 1 .. Length |-> Nul]
<1>1. ZeroPage.low[1] = 0 /\ ZeroPage.low[2] = 0 /\ ZeroPage.low[3] = 0
      /\ ZeroPage.low[4] = 0 /\ ZeroPage.model = z
  BY DEF ZeroPage
<1>2. Word \in Nat /\ Uint32 \in Nat /\ Uint48 \in Nat
  BY WordAssumption DEF Uint32, Uint48
<1>3. ParseIdentifyController(ZeroPage).capacity = 0
  BY <1>1, <1>2 DEF ParseIdentifyController
<1>4. Length \in Nat /\ Len(z) = Length
  BY WordAssumption
<1>5. IsString(z)
  BY <1>4, NulAssumption DEF IsString
<1>6. Padded(z) = z
  BY <1>4 DEF Padded
<1>7. TrimRight(z) = z
  BY <1>5, <1>6, TrimPadded
<1> QED
  BY <1>1, <1>3, <1>7 DEF ParseIdentifyController

(* A capacity that fits is shown as it is, or not at all.                  *)
LEMMA ShownIsCapacity ==
    ASSUME IInv, pc = "done", Fits(drive)
    PROVE  /\ printed.capacity \subseteq CapacityLines(Capacity(drive))
           /\ Capacity(drive) > 0 => (printed.capacity = {} <=> refused)
<1>1. drive \in Drives /\ drive.nvme \in BOOLEAN /\ refused \in BOOLEAN
  BY DriveAssumption DEF IInv
<1>2. ~refused => info.capacity = Capacity(drive)
  BY <1>1, CapacityExact DEF IInv, InfoInv
<1>3. CASE drive.nvme /\ ~refused
  BY <1>2, <1>3 DEF IInv, PrintedInv, printNVMeInfo
<1>4. CASE ~drive.nvme
  <2>1. ~refused
    BY <1>4 DEF IInv, InfoInv
  <2> QED BY <1>2, <1>4, <2>1 DEF IInv, PrintedInv, printATAInfo
<1>5. CASE drive.nvme /\ refused
  <2>1. info.capacity = 0
    BY <1>5, ZeroPageParsed DEF IInv, InfoInv
  <2>2. printed.capacity = {}
    BY <1>5, <2>1 DEF IInv, PrintedInv, printNVMeInfo
  <2> QED BY <1>5, <2>2
<1> QED
  BY <1>1, <1>3, <1>4, <1>5

(* At every step of every run the section is that of the drive looked at.  *)
THEOREM Invariance == Spec => []IInv
<1>1. Init => IInv
  <2> SUFFICES ASSUME Init PROVE IInv
    OBVIOUS
  <2>1. refused \in BOOLEAN
    BY Zenon DEF Init
  <2>2. drive \in Drives /\ pc = "identify" /\ BeforeInv
    BY DEF Init, BeforeInv
  <2> QED
    BY <2>1, <2>2 DEF IInv, InfoInv, PrintedInv
<1>2. IInv /\ [Next]_vars => IInv'
  <2> SUFFICES ASSUME IInv, [Next]_vars PROVE IInv'
    OBVIOUS
  <2>1. CASE Identify
    BY <2>1 DEF Identify, IInv, InfoInv, PrintedInv, BeforeInv
  <2>2. CASE IdentifyController
    BY <2>2 DEF IdentifyController, IInv, InfoInv, PrintedInv, BeforeInv
  <2>3. CASE PrintInfo
    BY <2>3 DEF PrintInfo, IInv, InfoInv, PrintedInv, BeforeInv
  <2>4. CASE NextDrive
    <3>1. drive' \in Drives /\ pc' = "identify" /\ pc = "done"
      BY <2>4 DEF NextDrive
    <3>2. before' = [capacity |-> Capacity(drive), fits |-> Fits(drive),
                     shown |-> printed.capacity]
      BY <2>4 DEF NextDrive
    <3>3. Fits(drive) => /\ Capacity(drive) \in Nat
                         /\ printed.capacity \subseteq
                              CapacityLines(Capacity(drive))
      BY <3>1, ShownIsCapacity, DriveType DEF IInv
    <3>4. BeforeInv'
      BY <3>2, <3>3 DEF BeforeInv
    <3>5. refused' \in BOOLEAN
      BY <2>4, Zenon DEF NextDrive
    <3> QED
      BY <3>1, <3>4, <3>5 DEF IInv, InfoInv, PrintedInv
  <2>5. CASE UNCHANGED vars
    BY <2>5 DEF vars, IInv, InfoInv, PrintedInv, BeforeInv
  <2> QED
    BY <2>1, <2>2, <2>3, <2>4, <2>5 DEF Next
<1> QED
  BY <1>1, <1>2, PTL DEF Spec

(* Capacities below 2^64 bytes and sector sizes below 2^32 are printed     *)
(* exactly, whatever words they are spread over (identify.go:70-97,        *)
(* nvme.go:29-56), for words of every size.                                *)
THEOREM GeometryIsExact == Spec => []GeometryExact
<1>1. ASSUME IInv PROVE GeometryExact
  <2> SUFFICES ASSUME pc = "done" PROVE GeometryExact
    BY DEF GeometryExact
  <2> DEFINE n == Capacity(drive)
             l == LogicalSize(drive)
             m == Power2(drive.shift)
  <2>1. ASSUME Fits(drive)
        PROVE  /\ \A c \in printed.capacity : c.bytes = n
               /\ n > 0 => (printed.capacity = {} <=> refused)
    BY <1>1, <2>1, ShownIsCapacity DEF CapacityLines
  <2>2. ASSUME ~drive.nvme, l * m < Uint32
        PROVE  printed.sizes = IF drive.shift = 0 THEN <<l>> ELSE <<l, l * m>>
    <3>1. info = ParseIdentify(IdentifyData(drive)) /\ drive \in Drives
      BY <1>1, <2>2 DEF IInv, InfoInv
    <3>2. /\ info.logical = l /\ info.physical = l * m
          /\ info.logical = info.physical <=> drive.shift = 0
      BY <2>2, <3>1, SizesExact
    <3>3. printed.sizes = IF info.logical = info.physical
                          THEN <<info.logical>>
                          ELSE <<info.logical, info.physical>>
      BY <1>1, <2>2 DEF IInv, PrintedInv, printATAInfo
    <3> HIDE DEF l, m
    <3> QED
      BY <3>2, <3>3
  <2> QED
    BY <2>1, <2>2 DEF GeometryExact
<1> QED
  BY <1>1, Invariance, PTL

(* Of two drives the larger one is never shown as the smaller one          *)
(* (printer/ata.go:430-446), whatever the units and however both are       *)
(* rounded.                                                                *)
THEOREM ShortFormKeepsOrder == Spec => []LargerIsNotShownSmaller
<1>1. ASSUME IInv PROVE LargerIsNotShownSmaller
  <2> SUFFICES ASSUME pc = "done", before.fits, Fits(drive),
                      NEW b \in before.shown, NEW c \in printed.capacity
               PROVE  /\ before.capacity < Capacity(drive) =>
                            ShortBytes(b.short) <= ShortBytes(c.short)
                      /\ before.capacity > Capacity(drive) =>
                            ShortBytes(b.short) >= ShortBytes(c.short)
    BY DEF LargerIsNotShownSmaller
  <2>1. before.capacity \in Nat /\ b.short \in formatCapacity(before.capacity)
    BY <1>1 DEF IInv, BeforeInv, CapacityLines
  <2>2. Capacity(drive) \in Nat /\ c.short \in formatCapacity(Capacity(drive))
    BY <1>1, ShownIsCapacity, DriveType DEF IInv, CapacityLines
  <2>3. ShortBytes(b.short) \in Nat /\ ShortBytes(c.short) \in Nat
    BY <2>1, <2>2, ShownInBand
  <2>4. before.capacity < Capacity(drive) =>
           ShortBytes(b.short) <= ShortBytes(c.short)
    BY <2>1, <2>2, ShortFormOrder
  <2>5. Capacity(drive) < before.capacity =>
           ShortBytes(c.short) <= ShortBytes(b.short)
    BY <2>1, <2>2, ShortFormOrder
  <2> QED
    BY <2>1, <2>2, <2>3, <2>4, <2>5
<1> QED
  BY <1>1, Invariance, PTL

(* Every model number that fits into its field is printed as the drive     *)
(* means it: only the padding is trimmed (identify.go:113-123,             *)
(* nvme.go:40-44), and so is the whole field of a refused page.            *)
THEOREM ModelIsPrinted == Spec => []ModelSurvives
<1>1. ASSUME IInv PROVE ModelSurvives
  <2> SUFFICES ASSUME pc = "done" PROVE ModelSurvives
    BY DEF ModelSurvives
  <2>1. drive \in Drives /\ drive.nvme \in BOOLEAN /\ refused \in BOOLEAN
    BY <1>1, DriveAssumption DEF IInv
  <2>2. ~refused => info.model = drive.model
    BY <1>1, <2>1, ModelExact DEF IInv, InfoInv
  <2>3. refused => info.model = [i \in 1 .. Length |-> Nul]
    BY <1>1, <2>1, ZeroPageParsed DEF IInv, InfoInv
  <2>4. printed.model = info.model
    BY <1>1, <2>1 DEF IInv, PrintedInv, printATAInfo, printNVMeInfo
  <2> QED
    BY <2>1, <2>2, <2>3, <2>4 DEF ModelSurvives
<1> QED
  BY <1>1, Invariance, PTL
=============================================================================
