----------------------------- MODULE MCGosmart ------------------------------
(***************************************************************************)
(* Small instances of Gosmart for TLC.                                     *)
(***************************************************************************)
EXTENDS Gosmart

(* Two attribute names are enough for a field that is present, absent, and *)
(* present twice.                                                          *)
MCNames == {"n1", "n2"}

MCNameTables == {<<>>, <<"n1", "n2">>, <<"n1", "n1">>}

MCNVMeNames == <<"n1">>

(* No limit, a negative limit, one whose Duration is representable and one *)
(* that overflows: 6 * Second wraps below zero.                            *)
MCTimeouts == {-1, 0, 1, 6}
=============================================================================
