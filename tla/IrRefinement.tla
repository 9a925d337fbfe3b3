----------------------------- MODULE IrRefinement -----------------------------
(***************************************************************************)
(* The detector implements IrVerdicts: the circular FIFO read from its     *)
(* oldest entry on is the sliding window, and every verdict the counters   *)
(* record is one that window justifies.                                    *)
(***************************************************************************)
EXTENDS IrHistory, Sequences

(* The slot of the n-th oldest entry. *)
OldestSlot(n) == (fifo_head - w_instr_cnt + n - 1) % W

Recent == [n \in 1..w_instr_cnt |-> past[OldestSlot(n)]]

Verdicts == INSTANCE IrVerdicts WITH
    recent         <- Recent,
    nonmodifying   <- stats["reg_nmod"] + stats["mem_nmod"],
    unread         <- stats["reg_uref"] + stats["mem_uref"],
    branches       <- stats["inef_br"],
    RemovalChoices <- RemovedOnEntry

(* Every step of process_new_instr is a step of the sliding window: the    *)
(* FIFO keeps exactly the last W instructions in order, a write is counted *)
(* as unreferenced only if no effective instruction read it, and a branch  *)
(* as ineffectual only if all its instances in the window went one way.    *)
VerdictsJustified == Verdicts!ASpec

=============================================================================
