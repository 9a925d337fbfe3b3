------------------------------- MODULE MCDbpSim -------------------------------
(***************************************************************************)
(* One thread, a store that is always executed and a predicated one.       *)
(***************************************************************************)
EXTENDS DbpSim

MCNumSets == [c \in Caches |-> 2]

MCRuns == {[l1w |-> 1, l2w |-> 1, p |-> FALSE, program |-> {}, length |-> 0]}

Store(b, executed) ==
    [ip |-> 1, reads |-> <<>>, write |-> b, executed |-> executed, after |-> TRUE]

MCInsts == {Store(0, TRUE), Store(2, TRUE), Store(2, FALSE),
            [ip |-> 3, reads |-> <<0, 2>>, write |-> NoBlock,
             executed |-> TRUE, after |-> TRUE]}

=============================================================================
