--------------------------- MODULE MCAttribution ---------------------------
(***************************************************************************)
(* Attribution for TLC.  The pids are interchangeable, so runs that check  *)
(* safety only may use their symmetry.                                     *)
(***************************************************************************)
EXTENDS Attribution, TLC

Symmetry == Permutations(Pids)

\* Bound of the run of safety: the time of the first record only is lost,
\* which can be dispatched at any moment there is.
FirstUnstamped == \A i \in DOMAIN buffer : buffer[i].n > 1 => buffer[i].ts > 0

MCSpec == Init /\ [][Next /\ FirstUnstamped']_vars
=============================================================================
