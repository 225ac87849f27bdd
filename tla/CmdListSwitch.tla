--------------------------- MODULE CmdListSwitch ---------------------------
(***************************************************************************)
(* What an upload of command lists to the DSP promises: the DSP runs the   *)
(* cyclic list and the interrupt list of the same upload, it changes to    *)
(* those of a later one in a single step, and it never goes back.          *)
(*                                                                         *)
(* The promise is off while an upload follows an odd number of uploads in  *)
(* a row that failed: that one writes its lists over those that run.       *)
(***************************************************************************)
EXTENDS Naturals

CONSTANTS
    Versions,   \* numbers of uploads
    Torn        \* a list whose write broke off

VARIABLES
    executed,   \* uploads that the two lists the DSP runs come from
    failures    \* uploads in a row, the last ones, that failed

Init == executed = [cyclic |-> 0, interrupt |-> 0]

SwitchTo(v) ==
    /\ \A list \in {"cyclic", "interrupt"} :
          executed[list] < v \/ executed[list] = Torn
    /\ executed' = [cyclic |-> v, interrupt |-> v]

Overwritten ==
    /\ failures % 2 = 1
    /\ \E list \in {"cyclic", "interrupt"}, v \in Versions \cup {Torn} :
          executed' = [executed EXCEPT ![list] = v]

Next == Overwritten \/ \E v \in Versions : SwitchTo(v)

Spec == Init /\ [][Next]_executed

=============================================================================
