----------------------------- MODULE MCOperands -----------------------------
EXTENDS Operands

MCEnvs == {[openShift |-> TRUE, singleReplica |-> FALSE],
           [openShift |-> TRUE, singleReplica |-> TRUE],
           [openShift |-> FALSE, singleReplica |-> FALSE]}

\* A profile both operands accept, one that only the console proxy refuses, and one
\* that the validator refuses first.
MCSpecs == {[tokenGeneration |-> FALSE, tls |-> "ok"],
            [tokenGeneration |-> TRUE, tls |-> "ok"],
            [tokenGeneration |-> TRUE, tls |-> "noVersion"],
            [tokenGeneration |-> TRUE, tls |-> "badVersion"]}
=============================================================================
