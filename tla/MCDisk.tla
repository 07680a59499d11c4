------------------------------- MODULE MCDisk -------------------------------
(***************************************************************************)
(* The disks and request lists TLC checks.  A tick is 30 degrees, so that  *)
(* a turn of the platter takes twelve.                                     *)
(***************************************************************************)
EXTENDS Disk

Option(policy, window, precise) ==
    [policy |-> policy, window |-> window, precise |-> precise, rotateSpeed |-> 30,
     seekSpeed |-> 20, zones |-> <<60, 60, 120>>, skew |-> 0]

SmallOptions ==
    {Option("FIFO", -1, FALSE), Option("SATF", -1, FALSE), Option("SATF", 1, FALSE),
     Option("SSTF", -1, FALSE), Option("SSTF", 2, FALSE), Option("BSATF", -1, FALSE)}
        \cup {Option("BSATF", w, p) : w \in {1, 2}, p \in BOOLEAN}
        \cup {Option("SATF", -1, TRUE)}
        \cup {[Option("SATF", 2, FALSE) EXCEPT !.skew = 1, !.seekSpeed = 40],
              [Option("SATF", -1, FALSE) EXCEPT !.zones = <<45, 100, 180>>]}

SmallRequests == {<<>>, <<5>>, <<8, 1, 2>>, <<7, 5, 0>>, <<13, 2, 13>>}
SmallLate == {[blocks |-> b, text |-> FALSE] : b \in {<<>>, <<6>>, <<11, 0, 5>>}}
                \cup {[blocks |-> <<1>>, text |-> TRUE]}
=============================================================================
