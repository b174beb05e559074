------------------------------ MODULE Identify ------------------------------
(***************************************************************************)
(* The information section of a report: the words of IDENTIFY DEVICE or of *)
(* the NVMe identify page, the numbers the parsers compute from them in    *)
(* integers of fixed width and the lines the printers make of those, for   *)
(* one drive after another.                                                *)
(*                                                                         *)
(* A drive is what it really is (external); IdentifyData and               *)
(* IdentifyPage put that into words, so that what is printed can be        *)
(* compared with what is meant.  Words that are only tested for single     *)
(* bits are these bits.  The model number stands for the three strings.    *)
(* What the two commands hand back is in module Device; a run in which     *)
(* they fail, or an ATA sector has the wrong length, prints nothing.       *)
(***************************************************************************)
EXTENDS Integers, Sequences, FiniteSets, Device

CONSTANTS
    Word,    \* 2^16
    Sector,  \* 512: the logical sector size of a drive that gives none
    Kilo,    \* 1000
    Blank,   \* the character that pads strings
    Nul,     \* the character 0, in a buffer that was never written
    Length,  \* the length of a string field, an even number
    Drives   \* the drives that are looked at

Uint32 == Word * Word
Uint48 == Uint32 * Word
Uint64 == Uint48 * Word

ASSUME WordAssumption ==
    /\ Word \in Nat \ {0, 1} /\ Sector \in Nat \ {0}
    /\ Kilo \in Nat \ {0, 1} /\ Length \in Nat /\ Length % 2 = 0

ASSUME NulAssumption == Nul # Blank

(* A string fits into its field, and its end can be told from the padding. *)
IsString(s) ==
    /\ Len(s) \in 0 .. Length /\ s = [i \in 1 .. Len(s) |-> s[i]]
    /\ Len(s) > 0 => s[Len(s)] # Blank

(* Without 48-bit addresses all sectors are counted in words 60-61; four   *)
(* bits of word 106 give the size of a physical sector.                    *)
ASSUME DriveAssumption ==
    \A d \in Drives :
        /\ IsString(d.model) /\ d.sectors \in Nat
        /\ d.long_size \in Nat /\ d.shift \in 0 .. 15
        /\ d.nvme \in BOOLEAN /\ d.lba48 \in BOOLEAN /\ d.long \in BOOLEAN
        /\ ~d.nvme /\ ~d.lba48 => d.sectors < Uint32

VARIABLES
    drive,   \* the drive: see IdentifyData
    info,    \* the parsed IdentifyInfo or IdentifyController
    refused, \* it was parsed from a page the controller never wrote
    pc,      \* "identify", "print", "done"
    printed, \* the information section
    before   \* the previous drive: its capacity and how it was shown

vars == <<drive, info, refused, pc, printed, before>>

-----------------------------------------------------------------------------
(* The drive: external.                                                    *)

WordsOf(n, k) ==
    LET weights == <<1, Word, Uint32, Uint48>>
    IN  [i \in 1 .. k |-> (n \div weights[i]) % Word]

(* Strings are padded and stored with the characters of a word swapped.    *)
Padded(s) == [i \in 1 .. Length |-> IF i <= Len(s) THEN s[i] ELSE Blank]
Swapped(s) == [i \in 1 .. Length |-> s[IF i % 2 = 1 THEN i + 1 ELSE i - 1]]

(* A drive with 48-bit addresses gives the most that fits in words 60-61.  *)
IdentifyData(d) ==
    [model |-> Swapped(Padded(d.model)),
     w60   |-> WordsOf(IF d.sectors < Uint32 THEN d.sectors ELSE Uint32 - 1, 2),
     w100  |-> WordsOf(IF d.lba48 THEN d.sectors ELSE 0, 4),
     lba48 |-> d.lba48, long |-> d.long, w117 |-> WordsOf(d.long_size, 2),
     shift |-> d.shift, w217 |-> d.rotation,
     supported |-> d.smart # "lacking", enabled |-> d.smart = "on"]

(* An NVMe drive gives its capacity in bytes, in two halves of 64 bits.    *)
IdentifyPage(d) ==
    [model |-> Padded(d.model), low |-> WordsOf(d.sectors, 4),
     high |-> d.sectors \div Uint64]

(* The buffer of a command that the controller refused.                    *)
ZeroPage == [model |-> [i \in 1 .. Length |-> Nul], low |-> <<0, 0, 0, 0>>,
             high |-> 0]

(* What the drive means.                                                   *)
LogicalSize(d) == CASE d.nvme                              -> 1
                    [] ~d.nvme /\ d.long /\ d.long_size > 0 -> 2 * d.long_size
                    [] OTHER                               -> Sector
Capacity(d) == d.sectors * LogicalSize(d)

(* Both fit in the integers the code has for them.                         *)
Fits(d) == LogicalSize(d) < Uint32 /\ Capacity(d) < Uint64

-----------------------------------------------------------------------------
(* ParseIdentify and ParseIdentifyController.                              *)

TrimRight(b) ==
    LET tail == {i \in 1 .. Length : \A j \in i .. Length : b[j] = Blank}
    IN  SubSeq(b, 1, Length - Cardinality(tail))

(* Mutant: the characters of a word are not swapped back.                  *)
ataStringUnswapped(b) == TrimRight(b)

ataString(b) ==
    TrimRight([i \in 1 .. Length |-> b[IF i % 2 = 1 THEN i + 1 ELSE i - 1]])

(* Mutant: the high words are shifted by one word too few.                 *)
TotalSectorsShort(w) ==
    IF w.lba48
    THEN w.w100[1] + w.w100[2] * Word + (w.w100[3] + w.w100[4] * Word) * Word
    ELSE w.w60[1] + w.w60[2] * Word

TotalSectors(w) ==
    IF w.lba48
    THEN w.w100[1] + w.w100[2] * Word + (w.w100[3] + w.w100[4] * Word) * Uint32
    ELSE w.w60[1] + w.w60[2] * Word

LogicalSectorSize(w) ==
    LET ls == w.w117[1] + w.w117[2] * Word
    IN  IF w.long /\ ls > 0 THEN (ls * 2) % Uint32 ELSE Sector

(* 1 << k, for the four bits of k.                                         *)
Power2(k) == <<1, 2, 4, 8, 16, 32, 64, 128, 256, 512, 1024, 2048, 4096, 8192,
               16384, 32768>>[k + 1]

(* 1 is an SSD; values outside the range of rotation rates are unknown.    *)
RPM(w) == CASE w.w217 = 1              -> 1
            [] w.w217 \in 1025 .. 65534 -> w.w217
            [] OTHER                   -> 0

ParseIdentify(w) ==
    LET size == LogicalSectorSize(w)
    IN  [model    |-> ataString(w.model),
         capacity |-> (TotalSectors(w) * size) % Uint64,
         logical  |-> size,
         physical |-> (size * Power2(w.shift)) % Uint32,
         rpm      |-> RPM(w),
         supported |-> w.supported, enabled |-> w.enabled]

(* The low half of the capacity.                                           *)
ParseIdentifyController(p) ==
    [model    |-> TrimRight(p.model),
     capacity |-> p.low[1] + p.low[2] * Word + p.low[3] * Uint32
                           + p.low[4] * Uint48]

-----------------------------------------------------------------------------
(* printATAInfo and printNVMeInfo.                                         *)

MB == Kilo * Kilo
GB == MB * Kilo
TB == GB * Kilo
PB == TB * Kilo

(* n / d in the nearest whole number, either one in the middle between two *)
(* (a float64 quotient may lie on either side of it).                      *)
Nearest(n, d) == {q \in {n \div d, n \div d + 1} :
                     2 * (q * d - n) <= d /\ 2 * (n - q * d) <= d}

Rounded(unit, n, d) == {[unit |-> unit, amount |-> q] : q \in Nearest(n, d)}

(* Mutant: the TB case is a copy of the PB case, divisor included.         *)
formatCapacityCopied(bytes) ==
    CASE bytes >= PB -> Rounded("PB", 10 * bytes, PB)
      [] bytes >= TB /\ bytes < PB -> Rounded("TB", 10 * bytes, PB)
      [] bytes >= GB /\ bytes < TB -> Rounded("GB", bytes, GB)
      [] OTHER -> {[unit |-> "MB", amount |-> bytes \div MB]}

(* Tenths of PB and TB, whole GB, and MB cut off.                          *)
formatCapacity(bytes) ==
    CASE bytes >= PB -> Rounded("PB", 10 * bytes, PB)
      [] bytes >= TB /\ bytes < PB -> Rounded("TB", 10 * bytes, TB)
      [] bytes >= GB /\ bytes < TB -> Rounded("GB", bytes, GB)
      [] OTHER -> {[unit |-> "MB", amount |-> bytes \div MB]}

(* What is said of the capacity: both forms of the number.                 *)
CapacityLines(n) == {[bytes |-> n, short |-> c] : c \in formatCapacity(n)}

(* The rotation line is left out of an unknown rate.                       *)
printATAInfo(i) ==
    {[model |-> i.model, capacity |-> {c},
      sizes |-> IF i.logical = i.physical THEN <<i.logical>>
                                          ELSE <<i.logical, i.physical>>,
      rotation |-> {i.rpm} \ {0},
      smart |-> CASE ~i.supported               -> "Unavailable"
                  [] i.supported /\ i.enabled   -> "Enabled"
                  [] i.supported /\ ~i.enabled  -> "Disabled"] :
     c \in CapacityLines(i.capacity)}

(* The capacity line is left out of a capacity of 0.                       *)
printNVMeInfo(i) ==
    {[model |-> i.model, capacity |-> IF i.capacity > 0 THEN {c} ELSE {}] :
     c \in CapacityLines(i.capacity)}

-----------------------------------------------------------------------------
NoInfo    == [model |-> <<>>]
NoSection == [model |-> <<>>, capacity |-> {}]

Init ==
    /\ drive \in Drives
    /\ info = NoInfo /\ refused = FALSE
    /\ pc = "identify" /\ printed = NoSection
    /\ before = [capacity |-> 0, fits |-> FALSE, shown |-> {}]

Identify ==
    /\ pc = "identify" /\ pc' = "print" /\ ~drive.nvme
    /\ info' = ParseIdentify(IdentifyData(drive)) /\ refused' = FALSE
    /\ UNCHANGED <<drive, printed, before>>

(* On Linux the answer may be the zeros of a refused command.              *)
IdentifyController ==
    /\ pc = "identify" /\ pc' = "print" /\ drive.nvme
    /\ \E platform \in {"linux", "windows"} :
         \E answer \in NVMeAnswers(platform, "IdentifyController") \ {"error"} :
            /\ refused' = (answer = "zeroed")
            /\ info' = ParseIdentifyController(
                          IF answer = "zeroed" THEN ZeroPage
                          ELSE IdentifyPage(drive))
    /\ UNCHANGED <<drive, printed, before>>

PrintInfo ==
    /\ pc = "print" /\ pc' = "done"
    /\ printed' \in IF drive.nvme THEN printNVMeInfo(info)
                                  ELSE printATAInfo(info)
    /\ UNCHANGED <<drive, info, refused, before>>

(* Another run, on another drive.                                          *)
NextDrive ==
    /\ pc = "done" /\ pc' = "identify"
    /\ before' = [capacity |-> Capacity(drive), fits |-> Fits(drive),
                  shown |-> printed.capacity]
    /\ drive' \in Drives
    /\ info' = NoInfo /\ refused' = FALSE /\ printed' = NoSection

Next == Identify \/ IdentifyController \/ PrintInfo \/ NextDrive

Spec == Init /\ [][Next]_vars

-----------------------------------------------------------------------------
(* Properties.                                                             *)

(* "UserCapacity is total addressable sectors x sector size in bytes."     *)
(* (identify.go:15): every capacity below 2^64 and every sector size below *)
(* 2^32 comes out exactly, however it is spread over words 60-61, 100-103, *)
(* 106 and 117-118, or over the 128 bits of an NVMe drive, and is printed  *)
(* unless it is 0; one sector size is printed only when both are equal.    *)
(* Where Linux parses a refused page (linux.go:185) no capacity is printed *)
(* rather than a wrong one.                                                *)
GeometryExact ==
    pc = "done" =>
        /\ Fits(drive) =>
              /\ \A c \in printed.capacity : c.bytes = Capacity(drive)
              /\ Capacity(drive) > 0 => (printed.capacity = {} <=> refused)
        /\ ~drive.nvme /\ LogicalSize(drive) * Power2(drive.shift) < Uint32 =>
              printed.sizes = IF drive.shift = 0
                              THEN <<LogicalSize(drive)>>
                              ELSE <<LogicalSize(drive),
                                     LogicalSize(drive) * Power2(drive.shift)>>

(* The short form in bytes, times ten.                                     *)
ShortBytes(s) == s.amount * CASE s.unit = "PB" -> PB
                              [] s.unit = "TB" -> TB
                              [] s.unit = "GB" -> 10 * GB
                              [] s.unit = "MB" -> 10 * MB

(* The short form of the capacity (printer/ata.go:430-446) orders drives:  *)
(* a larger drive is never shown as the smaller one, whatever the units    *)
(* are and however both are rounded.                                       *)
LargerIsNotShownSmaller ==
    pc = "done" /\ before.fits /\ Fits(drive) =>
        \A b \in before.shown, c \in printed.capacity :
            /\ before.capacity < Capacity(drive) =>
                  ShortBytes(b.short) <= ShortBytes(c.short)
            /\ before.capacity > Capacity(drive) =>
                  ShortBytes(b.short) >= ShortBytes(c.short)

(* A model number is printed as the drive means it, blanks inside and in   *)
(* front included, whatever its length (identify.go:113-123, and           *)
(* nvme.go:40-44, where characters are not swapped).  A refused page has   *)
(* no model number: only blanks are trimmed, so the whole field is printed *)
(* as characters 0.                                                        *)
ModelSurvives ==
    pc = "done" => printed.model = IF refused
                                   THEN [i \in 1 .. Length |-> Nul]
                                   ELSE drive.model
=============================================================================
