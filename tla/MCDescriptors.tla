--------------------------- MODULE MCDescriptors ---------------------------
(* Descriptors for TLC: safety only, and pids are interchangeable;          *)
(* descriptors are not, for the kernel opens the lowest.  No step looks at   *)
(* what has been recorded, so it is enough that uses come last: at most     *)
(* MaxUses of them, in any state of the table.                              *)
EXTENDS Descriptors, FiniteSets, TLC

CONSTANT MaxUses

MCFds == 3..4
Symmetry == Permutations(Pids)
UsesMade == Cardinality(recorded \cup done) + Cardinality(murky)

MCNext ==
    /\ Next
    /\ UsesMade > 0 => UNCHANGED <<system, fdTable, blind>>
    /\ UsesMade' <= MaxUses

MCSpec == Init /\ [][MCNext]_vars
=============================================================================
