------------------------------ MODULE OneShot -------------------------------
(***************************************************************************)
(* What the gosmart command promises the script that calls it, without     *)
(* goroutines, devices or clocks: a request is answered on stdout and by   *)
(* an exit code, once.                                                     *)
(*                                                                         *)
(*   0  the whole answer is on stdout (or the help text was asked for)     *)
(*   1  no part of an answer is on stdout                                  *)
(*   2  a limit ran out, stdout may end anywhere; or the flags are         *)
(*      malformed and nothing is on stdout                                 *)
(*                                                                         *)
(* With 0 and 1 the device has been released; with 2 it is left to the     *)
(* operating system.                                                       *)
(***************************************************************************)
EXTENDS Integers

VARIABLES
    request,  \* what the command line asks for
    limited,  \* it carries a time limit
    stdout,   \* how much of the answer is written: "none", "some", "all"
    device,   \* "open" or "released"
    code      \* the exit code, or NoCode

vars == <<request, limited, stdout, device, code>>

NoCode == -1

Init ==
    /\ request \in {"query", "help", "malformed", "wrongArguments"}
    /\ limited \in BOOLEAN
    /\ stdout = "none" /\ device = "released" /\ code = NoCode

Pending == code = NoCode

(* The device is opened, and closed, as often as it takes.                 *)
Acquire == /\ Pending /\ request = "query" /\ device = "released"
           /\ stdout = "none"
           /\ device' = "open"
           /\ UNCHANGED <<request, limited, stdout, code>>

Release == /\ Pending /\ device = "open" /\ stdout # "some"
           /\ device' = "released"
           /\ UNCHANGED <<request, limited, stdout, code>>

(* Output only grows, and only while the device is held.                   *)
Write == /\ Pending /\ device = "open" /\ stdout # "all"
         /\ stdout' \in {"some", "all"}
         /\ UNCHANGED <<request, limited, device, code>>

Finish(c) == /\ Pending /\ code' = c
             /\ UNCHANGED <<request, limited, stdout, device>>

Succeed == /\ device = "released"
           /\ \/ request = "query" /\ stdout = "all"
              \/ request = "help"
           /\ Finish(0)

Refuse == /\ device = "released" /\ stdout = "none"
          /\ request \in {"query", "wrongArguments"}
          /\ Finish(1)

GiveUp == /\ \/ request = "query" /\ limited
             \/ request = "malformed"
          /\ Finish(2)

Next == Acquire \/ Release \/ Write \/ Succeed \/ Refuse \/ GiveUp

Spec == Init /\ [][Next]_vars
=============================================================================
