-------------------------- MODULE ActionLifecycle --------------------------
(***************************************************************************)
(* What the actions of a container promise to whoever looks logs up by     *)
(* number, whatever threads, late events and requests are behind it: a new *)
(* action has a number above those of all the logs that are kept, an end   *)
(* keeps the log, and a process gets once and for all the number of        *)
(* another process, of the current action, or of a log that is kept.       *)
(***************************************************************************)
EXTENDS Naturals

CONSTANT Pids

VARIABLES
    running,      \* an action is being recorded, the lifecycle action 0 included
    currentId,    \* the number of the newest action
    completed,    \* the numbers of the logs that are kept
    attributed    \* the number of each process that is known

vars == <<running, currentId, completed, attributed>>

Init == running = TRUE /\ currentId = 0 /\ completed = {} /\ attributed = << >>

\* The action that was running, if any, is forgotten.
Start ==
    /\ running' = TRUE
    /\ currentId' \in Nat \ {0} /\ \A n \in completed : n < currentId'
    /\ UNCHANGED <<completed, attributed>>

End ==
    /\ running /\ running' = FALSE
    /\ completed' = completed \cup {currentId}
    /\ UNCHANGED <<currentId, attributed>>

Numbers == {currentId} \cup completed \cup {attributed[q] : q \in DOMAIN attributed}

Appear(p) ==
    /\ p \notin DOMAIN attributed
    /\ \E a \in Numbers :
          attributed' = [q \in DOMAIN attributed \cup {p} |->
                            IF q = p THEN a ELSE attributed[q]]
    /\ UNCHANGED <<running, currentId, completed>>

\* The container is deleted.
Reset == running' = TRUE /\ currentId' = 0 /\ completed' = {} /\ attributed' = << >>

Next == Start \/ End \/ Reset \/ \E p \in Pids : Appear(p)

Spec == Init /\ [][Next]_vars
=============================================================================
