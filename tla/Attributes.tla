----------------------------- MODULE Attributes -----------------------------
(***************************************************************************)
(* SMART attributes: the names that list mode prints, the value that get   *)
(* mode answers and the attribute lines of the full report, over several   *)
(* runs of gosmart against one drive.  The drive goes on working between   *)
(* the runs and between the two commands (SMART READ DATA and SMART READ   *)
(* THRESHOLDS) of one full report.                                         *)
(*                                                                         *)
(* A name is represented by the least attribute id that carries it, the    *)
(* three Unknown names by numbers that no id has.  The IDENTIFY words give *)
(* rpm (module Identify); a run that fails prints nothing (module Gosmart) *)
(* and is left out.                                                        *)
(***************************************************************************)
EXTENDS Integers

CONSTANTS
    NumAttributes,  \* 30: entries of the attribute table
    Tables,         \* attribute tables of drives: slot -> id, 0 is no entry
    Orders,         \* orders in which a drive lists its thresholds
    RPMs,           \* rotation rates: 0 unknown, 1 SSD, more HDD
    Values,         \* normalised values (bytes)
    Limits,         \* thresholds (bytes)
    Fresh,          \* the normalised value of a new drive
    Byte,           \* 2^8
    Counters,       \* what a raw value can count up to (48 bits)
    MaxSteps        \* bound on what the drive does

Slots == 1 .. NumAttributes

(* The weights of the six raw bytes, and what they can hold.               *)
Byte2 == Byte * Byte
Byte3 == Byte2 * Byte
Byte4 == Byte3 * Byte
Byte5 == Byte4 * Byte
Byte6 == Byte5 * Byte

ASSUME NumAssumption == NumAttributes \in Nat

ASSUME DriveAssumption ==
    /\ Tables \subseteq [Slots -> 0 .. 255] /\ Orders \subseteq [Slots -> Slots]
    /\ RPMs \subseteq Nat /\ Values \subseteq Nat /\ Fresh \in Values
    /\ Limits \subseteq Nat
    /\ Byte \in Nat \ {0, 1} /\ Counters \subseteq 0 .. Byte6 - 1
    /\ MaxSteps \in Nat

VARIABLES
    ids, rpm,     \* the drive's attribute table and rotation rate
    limit, order, \* its threshold for each slot, and where it lists it
    life,         \* its attributes now: current, worst, count, low
    steps,        \* how often they have changed
    pc,           \* gosmart: "idle", or the mode of the run under way
    sv,           \* the parsed SMART READ DATA, None between runs
    svLife,       \* life at that read
    st,           \* the parsed SMART READ THRESHOLDS
    listed,       \* the names printed by the last run of list mode
    out           \* the last output of get mode or the full report

drive == <<ids, rpm, limit, order>>
vars == <<drive, life, steps, pc, sv, svLife, st, listed, out>>

None == [s \in {} |-> 0]

-----------------------------------------------------------------------------
(* Names.                                                                  *)

(* The ids of defaultAttrDefs ...                                          *)
Known == (1..13) \cup (22..24) \cup (175..184) \cup (187..209)
         \cup (220..228) \cup (230..233) \cup (240..242) \cup {250, 254}

(* ... the ones it restricts ...                                           *)
HDDOnly == {6, 7, 8, 10, 11, 22, 23, 24, 189, 191, 193, 200, 201, 202, 206,
            207, 208, 209, 220, 221, 222, 223, 224, 225, 226, 227, 230, 231,
            240, 254}
SSDOnly == (175..180) \cup {182, 233}

(* ... and the ones that share a name: G-Sense_Error_Rate,                 *)
(* Load_Cycle_Count and Temperature_Celsius.                               *)
DefName(id) == CASE id = 221 -> 191
                 [] id = 225 -> 193
                 [] id = 231 -> 194
                 [] OTHER    -> id

Unknown_Attribute     == 256
Unknown_SSD_Attribute == 257
Unknown_HDD_Attribute == 258

AttrName(id, r) == CASE id \notin Known         -> Unknown_Attribute
                     [] id \in HDDOnly /\ r = 1 -> Unknown_SSD_Attribute
                     [] id \in SSDOnly /\ r > 1 -> Unknown_HDD_Attribute
                     [] OTHER                   -> DefName(id)

-----------------------------------------------------------------------------
(* The sectors and their parsers.                                          *)

(* The six raw bytes in which the drive stores a counter: external.        *)
RawBytes(n) ==
    LET weights == <<1, Byte, Byte2, Byte3, Byte4, Byte5>>
    IN  [k \in 0..5 |-> (n \div weights[k + 1]) % Byte]

RawValue48(raw) ==
    raw[0] + raw[1] * Byte + raw[2] * Byte2
           + raw[3] * Byte3 + raw[4] * Byte4 + raw[5] * Byte5

ParseSmartValues ==
    [s \in Slots |-> [id |-> ids[s], current |-> life.current[s],
                      worst |-> life.worst[s],
                      raw |-> RawBytes(life.count[s])]]

(* The id byte of a threshold entry is not looked at.                      *)
ParseSmartThresholds == [s \in Slots |-> limit[order[s]]]

-----------------------------------------------------------------------------
(* What gosmart makes of them.                                             *)

Present(v) == {s \in DOMAIN v : v[s].id # 0}

(* Mutant: empty entries are listed too.                                   *)
AttrNamesOfAll(v, r) == [s \in DOMAIN v |-> AttrName(v[s].id, r)]

(* The names of the present attributes, in table order.                    *)
AttrNames(v, r) == [s \in Present(v) |-> AttrName(v[s].id, r)]

Least(S) == CHOOSE s \in S : \A t \in S : s <= t

NotFound == 0

(* Mutant: an empty entry, id 0, is looked at too.                         *)
AttrByNameOfAll(v, name, r) ==
    LET hits == {s \in DOMAIN v : AttrName(v[s].id, r) = name}
    IN  IF hits = {} THEN NotFound ELSE Least(hits)

(* The slot of the first attribute with the name.                          *)
AttrByName(v, name, r) ==
    LET hits == {s \in Present(v) : AttrName(v[s].id, r) = name}
    IN  IF hits = {} THEN NotFound ELSE Least(hits)

(* Mutant: an attribute at its threshold has not failed yet.               *)
WhenFailedBelow(a, threshold) ==
    CASE threshold > 0 /\ a.current < threshold -> "FAILING_NOW"
      [] threshold > 0 /\ a.current >= threshold /\ a.worst < threshold
                                                -> "In_the_past"
      [] OTHER                                  -> "-"

WhenFailed(a, threshold) ==
    CASE threshold > 0 /\ a.current <= threshold -> "FAILING_NOW"
      [] threshold > 0 /\ a.current > threshold /\ a.worst <= threshold
                                                 -> "In_the_past"
      [] OTHER                                   -> "-"

(* The line of each present attribute.                                     *)
printAttributes(v, t, r) ==
    [s \in Present(v) |-> [id |-> v[s].id, name |-> AttrName(v[s].id, r),
                           threshold |-> t[s],
                           whenFailed |-> WhenFailed(v[s], t[s]),
                           raw |-> RawValue48(v[s].raw)]]

-----------------------------------------------------------------------------
New == [current |-> [s \in Slots |-> Fresh], worst |-> [s \in Slots |-> Fresh],
        count |-> [s \in Slots |-> 0],
        low |-> {s \in Slots : limit[s] > 0 /\ Fresh <= limit[s]}]

NoOutput == [mode |-> "none"]

Init ==
    /\ ids \in Tables /\ rpm \in RPMs
    /\ limit \in [Slots -> Limits] /\ order \in Orders
    /\ life = New /\ steps = 0
    /\ pc = "idle" /\ sv = None /\ svLife = New /\ st = None
    /\ listed = None /\ out = NoOutput

(* The drive: the normalised value and the raw value of an attribute       *)
(* change, "worst" keeps the least value so far.  low is history: the      *)
(* attributes that have ever been at their threshold or below.             *)
Work(s, v, n) ==
    /\ steps < MaxSteps
    /\ steps' = steps + 1
    /\ life' = [current |-> [life.current EXCEPT ![s] = v],
                worst   |-> [life.worst EXCEPT
                                ![s] = IF v < @ THEN v ELSE @],
                count   |-> [life.count EXCEPT ![s] = n],
                low     |-> IF limit[s] > 0 /\ v <= limit[s]
                            THEN life.low \cup {s} ELSE life.low]
    /\ UNCHANGED <<drive, pc, sv, svLife, st, listed, out>>

(* A run begins and reads the attributes.                                  *)
SmartReadData(mode) ==
    /\ pc = "idle"
    /\ pc' = mode /\ sv' = ParseSmartValues /\ svLife' = life
    /\ UNCHANGED <<drive, life, steps, st, listed, out>>

EndOfRun == pc' = "idle" /\ sv' = None /\ st' = None /\ svLife' = New

listATA ==
    /\ pc = "list"
    /\ listed' = AttrNames(sv, rpm)
    /\ EndOfRun
    /\ UNCHANGED <<drive, life, steps, out>>

getATA(name) ==
    /\ pc = "get"
    /\ LET s == AttrByName(sv, name, rpm)
       IN  out' = [mode |-> "get", name |-> name, found |-> s # NotFound,
                   value |-> IF s = NotFound THEN 0 ELSE RawValue48(sv[s].raw),
                   life |-> svLife]
    /\ EndOfRun
    /\ UNCHANGED <<drive, life, steps, listed>>

SmartReadThresholds ==
    /\ pc = "full"
    /\ pc' = "print" /\ st' = ParseSmartThresholds
    /\ UNCHANGED <<drive, life, steps, sv, svLife, listed, out>>

PrintAttributes ==
    /\ pc = "print"
    /\ out' = [mode |-> "full", lines |-> printAttributes(sv, st, rpm),
               life |-> svLife]
    /\ EndOfRun
    /\ UNCHANGED <<drive, life, steps, listed>>

(* Names a user may ask for: those of this drive and of others.            *)
Names == {AttrName(table[s], r) : table \in Tables, s \in Slots, r \in RPMs}

Next ==
    \/ \E s \in Slots, v \in Values, n \in Counters : Work(s, v, n)
    \/ \E mode \in {"list", "get", "full"} : SmartReadData(mode)
    \/ listATA
    \/ \E name \in Names : getATA(name)
    \/ SmartReadThresholds
    \/ PrintAttributes

Spec == Init /\ [][Next]_vars

-----------------------------------------------------------------------------
(* Properties.                                                             *)

(* The attributes of the drive that carry a name.                          *)
Carriers(name) == {s \in Slots : ids[s] # 0 /\ AttrName(ids[s], rpm) = name}

(* Get mode (main.go:308-312) answers with the counter of an attribute     *)
(* that carries the name, the first of the table if several do, as it was  *)
(* when the sector was read; it answers "field not found" only when no     *)
(* attribute carries it.  An empty entry of the table never answers,       *)
(* although its id 0 has the name Unknown_Attribute, too.                  *)
GetAnswersFirstCarrier ==
    out.mode = "get" =>
        IF Carriers(out.name) = {}
        THEN ~out.found
        ELSE \E s \in Carriers(out.name) :
                /\ \A t \in Carriers(out.name) : s <= t
                /\ out.found /\ out.value = out.life.count[s]

(* A name that an earlier run of list mode printed can be got, whatever    *)
(* the drive has done since (smart.go:292 and 303 agree on which entries   *)
(* count), and every attribute of the drive is listed.                     *)
ListAndGetAgree ==
    listed # None =>
        /\ \A s \in Slots : ids[s] # 0 =>
              s \in DOMAIN listed /\ listed[s] = AttrName(ids[s], rpm)
        /\ out.mode = "get" /\ (\E s \in DOMAIN listed : listed[s] = out.name)
              => out.found

(* What the word in column WHEN_FAILED says of slot s with the history l.  *)
TellsHistory(word, s, l) ==
    LET threshold == limit[order[s]]
        now == threshold > 0 /\ l.current[s] <= threshold
    IN  /\ (word = "FAILING_NOW") <=> now
        /\ order[s] = s => ((word = "In_the_past") <=> (~now /\ s \in l.low))

(* WHEN_FAILED (printer/ata.go:259-264) tells the drive's history as of    *)
(* the read: FAILING_NOW exactly for an attribute that was just then at    *)
(* the threshold listed in its position or below, In_the_past exactly for  *)
(* one that had been at its threshold and recovered.  The values come from *)
(* one command and the thresholds from a later one; entries are matched by *)
(* position, so the threshold is the attribute's own, and the past known,  *)
(* where the drive lists both in the same position.                        *)
WhenFailedTellsHistory ==
    out.mode = "full" =>
        \A s \in DOMAIN out.lines :
            TellsHistory(out.lines[s].whenFailed, s, out.life)
=============================================================================
