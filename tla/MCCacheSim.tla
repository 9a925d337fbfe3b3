------------------------------ MODULE MCCacheSim ------------------------------
(***************************************************************************)
(* Small hierarchies.  Even blocks fall into one set, odd ones into the    *)
(* other; pcs are the numbers a burst trace adds up.                       *)
(***************************************************************************)
EXTENDS CacheHistory

MCNumSets == [c \in Caches |-> 2]

Req(c, b, pc, wr) == [cache |-> c, blk |-> b, pc |-> pc, wr |-> wr]
Read(b) == Req("L1_D", b, 1, FALSE)
Write(b) == Req("L1_D", b, 1, TRUE)
Instr(b) == Req("L1_I", b, 1, FALSE)

(* Instructions and data, some of them in the same blocks. *)
SharedRequests == {Instr(0), Instr(4), Instr(1)} \cup {Read(0), Read(2), Write(2), Write(4)}

(* One set, direct-mapped L1: every reuse is a reference in the L2, and so *)
(* is the write-back of block 0.                                           *)
ReuseRequests == {Write(0), Read(2), Read(4)}

(* More blocks than a set has room for, again and again. *)
StreamRequests == {Read(0), Read(2), Read(4), Write(6)}

Run(l1w, l2w, p, program, length) ==
    [l1w |-> l1w, l2w |-> l2w, p |-> p, program |-> program, length |-> length]

MCRuns == {Run(2, 2, FALSE, SharedRequests, 5),
           Run(1, 2, FALSE, ReuseRequests, 10),
           Run(1, 2, TRUE, ReuseRequests, 11),
           Run(3, 3, TRUE, StreamRequests, 9)}

PairRuns == {Run(2, 2, TRUE, StreamRequests, 8)}

=============================================================================
