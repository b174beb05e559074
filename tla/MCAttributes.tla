---------------------------- MODULE MCAttributes ----------------------------
(***************************************************************************)
(* Small instances of Attributes for TLC.                                  *)
(***************************************************************************)
EXTENDS Attributes

(* Tables of three entries: a gap and two names that are shared, one only  *)
(* on a disk; entries restricted to disks and to SSDs; an entry without a  *)
(* definition after a gap.                                                 *)
MCTables == {<<194, 0, 231>>, <<7, 177, 8>>, <<0, 14, 9>>}

(* Thresholds in the order of the attributes, and two of them swapped.     *)
MCOrders == {<<1, 2, 3>>, <<1, 3, 2>>}

(* Unknown, SSD, disk.                                                     *)
MCRPMs == {0, 1, 7200}
=============================================================================
