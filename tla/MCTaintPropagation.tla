------------------------- MODULE MCTaintPropagation -------------------------
EXTENDS TaintPropagation

\* Grades: 0 clean, 1 a trace below the threshold, 4 full.
MCPids == 1..3
MCScores == 0..4
MCAttenuate ==
    [c \in Channels |->
        [x \in MCScores |-> IF x <= 1 THEN x
                            ELSE IF c = "fork" THEN x - 1 ELSE x \div 2]]
=============================================================================
