------------------------------ MODULE MCFlows ------------------------------
EXTENDS Flows

\* Grades: 0 clean, 1 a trace below the threshold, 3 full.
MCPids == 1..3
MCPair == 1..2
MCScores == 0..3
MCAttenuate ==
    [c \in Channels |->
        [x \in MCScores |-> IF x <= 1 THEN x
                            ELSE IF c = "queue" THEN x \div 2 ELSE x - 1]]

\* Bound of the run: two processes with the data file and either the library
\* or the queue, or three processes with the data file alone, all of them
\* attributed to the current action; a second log only with two processes and
\* the data file.  A step beyond it is not taken.
Unused(nodes) == \A n \in DOMAIN nodes \ {"data"} : nodes[n] = {}
FilesUnused == Unused(writers) /\ Unused(readers)
QueuesUnused == Unused(senders) /\ Unused(receivers)

Small ==
    /\ FilesUnused \/ QueuesUnused
    /\ \/ Known \subseteq MCPair
       \/ FilesUnused /\ QueuesUnused /\ \A p \in Known : attributed[p] = currentId
    /\ \/ currentId <= 1
       \/ Known \subseteq MCPair /\ FilesUnused /\ QueuesUnused

MCSpec == Init /\ [][Next /\ Small']_vars
=============================================================================
