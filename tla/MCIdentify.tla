----------------------------- MODULE MCIdentify -----------------------------
(***************************************************************************)
(* Drives for Identify, with words of five bits: 32-bit numbers end at     *)
(* 1023 and 64-bit numbers at 1048575.                                     *)
(***************************************************************************)
EXTENDS Identify

Plain == [model |-> <<"a", "b">>, sectors |-> 40, lba48 |-> TRUE,
          long |-> FALSE, long_size |-> 0, shift |-> 0,
          rotation |-> 7200, smart |-> "on", nvme |-> FALSE]

(* Sector counts around the ends of one, two and three words, of the units *)
(* of the short form and of 64 bits.                                       *)
MCSectors == {0, 1, 31, 32, 61, 62, 63, 65, 93, 94, 624, 625, 656, 1023, 1024,
              6249, 6250, 6562, 6563, 9999, 32768, 65535, 65536}

Geometries ==
    {[Plain EXCEPT !.sectors = n] : n \in MCSectors} \cup
    {[Plain EXCEPT !.sectors = n, !.lba48 = FALSE] :
        n \in {m \in MCSectors : m < Uint32}} \cup
    {[Plain EXCEPT !.sectors = n, !.long = l, !.long_size = s, !.shift = k] :
        n \in {7, 1500}, l \in BOOLEAN, s \in {0, 1, 32, 511, 512},
        k \in {0, 3, 7}} \cup
    {[Plain EXCEPT !.sectors = n, !.nvme = TRUE] :
        n \in {0, 1, 999, 1023, 1024, 9999, 10000, 95000, 1048575, 1048576}}

(* Every model number of up to four characters that does not end in a      *)
(* blank.                                                                  *)
Models == {s \in UNION {[1 .. n -> {"a", "b", " "}] : n \in 0 .. 4} :
              s # <<>> => s[Len(s)] # " "}

MCDrives ==
    Geometries \cup
    {[Plain EXCEPT !.model = m, !.nvme = v] : m \in Models, v \in BOOLEAN} \cup
    {[Plain EXCEPT !.rotation = r] : r \in {0, 1, 1024, 1025, 65534, 65535}}
    \cup {[Plain EXCEPT !.smart = v] : v \in {"lacking", "off", "on"}}
=============================================================================
