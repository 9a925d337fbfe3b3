------------------------------ MODULE IrDetector ------------------------------
(***************************************************************************)
(* The IR detector of simplescalar-a1/ir_detector.cpp.  sim_main retires   *)
(* one instruction at a time and hands it to process_new_instr, which      *)
(* looks for ineffectual instructions in the window of the last W retired  *)
(* ones: writes that do not modify their target, writes nobody reads,      *)
(* branches that always go the same way, and whatever only feeds those.    *)
(*                                                                         *)
(* A retired instruction is a record (see Instr) of what the detector      *)
(* looks at: its class, the registers it reads, the words it loads, the    *)
(* locations it writes, which of these keep their value, its pc and its    *)
(* next pc.  The register and the memory rename tables (ort_regfile,       *)
(* ort_memory) are one function ort over disjoint locations; an address    *)
(* that is absent from the map behaves as the default entry.               *)
(***************************************************************************)
EXTENDS IrDecrement

CONSTANTS
    Regs,       \* registers, the "no operand" register 0 left out
    FpRegs,     \* the registers numbered 32..63
    Addrs,      \* memory words, address 0 left out
    Pcs,        \* program counters
    DNA,        \* the value 0: no register, no address, no branch pc
    Instrs,     \* the instructions that may retire
    MaxInsts    \* max_insts of sim-safe: the run stops here

Locs == Regs \cup Addrs \cup {DNA}

Kinds == {"icomp", "fcomp", "load", "store", "jump", "cond", "other"}

Instr == [kind  : Kinds,
          ins   : [1..3 -> Regs \cup {DNA}],
          loads : [1..2 -> Addrs \cup {DNA}],
          outs  : [1..2 -> Locs],
          kept  : SUBSET Locs,      \* outputs whose new value is the old one
          pc    : Pcs,
          next  : Pcs]

(* What the PISA instruction definitions guarantee of every instruction. *)
WellFormed(i) ==
    /\ i.kind = "store" => i.outs \in [1..2 -> Addrs \cup {DNA}]
    /\ i.kind # "store" => i.outs \in [1..2 -> Regs \cup {DNA}]
    /\ i.kind \in {"cond", "other"} => i.outs = <<DNA, DNA>>
    /\ i.outs[1] = DNA => i.outs[2] = DNA
    /\ i.outs[1] # DNA => i.outs[1] # i.outs[2]

ASSUME LocsAssumption ==
    /\ FpRegs \subseteq Regs
    /\ Regs \cap Addrs = {}
    /\ DNA \notin Regs \cup Addrs \cup Pcs

ASSUME InstrsAssumption ==
    /\ Instrs \subseteq Instr
    /\ \A i \in Instrs : WellFormed(i)

ASSUME MaxInstsAssumption == MaxInsts \in Nat

VARIABLES
    ort,            \* ort_regfile and ort_memory
    btb,            \* btb_map
    removed_map,    \* removed_instr_map
    window,         \* instr_window, without the counts
    consumer_count, \* consumer_count of each window entry
    fifo_head, fifo_mid, w_instr_cnt,
    stats,          \* the sim_* counters
    sim_num_insn

vars == <<ort, btb, removed_map, window, consumer_count,
          fifo_head, fifo_mid, w_instr_cnt, stats, sim_num_insn>>

OrtEntry == [valid : BOOLEAN, referenced : BOOLEAN,
             producer_idx : Slots, ort_pair : Locs]

BtbEntry == [tgt_addr : Pcs \cup {DNA}, const_tgt : BOOLEAN, valid_cnt : Nat]

FifoEntry == [valid : BOOLEAN, outs : [1..2 -> Locs],
              chk_ineff_br : BOOLEAN, branch_pc : Pcs \cup {DNA},
              src : Srcs]

Counters == {"reg_nmod", "mem_nmod", "reg_uref", "mem_uref",
             "inef_br", "transitive"}

TypeOK ==
    /\ ort \in [Locs -> OrtEntry]
    /\ btb \in [Pcs -> BtbEntry]
    /\ removed_map \in [Pcs -> Nat]
    /\ window \in [Slots -> FifoEntry]
    /\ consumer_count \in [Slots -> Nat]
    /\ fifo_head \in Slots
    /\ fifo_mid \in Slots
    /\ w_instr_cnt \in 0..W
    /\ stats \in [Counters -> Nat]
    /\ sim_num_insn \in Nat

-----------------------------------------------------------------------------

DefaultOrtEntry ==
    [valid |-> FALSE, referenced |-> FALSE, producer_idx |-> 0, ort_pair |-> DNA]

DefaultBtbEntry == [tgt_addr |-> DNA, const_tgt |-> TRUE, valid_cnt |-> 0]

EmptyFifoEntry ==
    [valid |-> FALSE, outs |-> <<DNA, DNA>>, src |-> <<0, 0, 0>>,
     chk_ineff_br |-> FALSE, branch_pc |-> DNA]

Init ==
    /\ ort = [l \in Locs |-> DefaultOrtEntry]
    /\ btb = [pc \in Pcs |-> DefaultBtbEntry]
    /\ removed_map = [pc \in Pcs |-> 0]
    /\ window = [s \in Slots |-> EmptyFifoEntry]
    /\ consumer_count = [s \in Slots |-> 0]
    /\ fifo_head = 0
    /\ fifo_mid = W \div 2
    /\ w_instr_cnt = 0
    /\ stats = [c \in Counters |-> 0]
    /\ sim_num_insn = 0

-----------------------------------------------------------------------------
(* p_incr_fifo_ptr. *)

NextSlotLate(s) == IF s < W THEN s + 1 ELSE 0   \* wraps one too late

NextSlot(s) == IF s < W - 1 THEN s + 1 ELSE 0

(* The slot the incoming instruction will take; the pointer moves after    *)
(* the tables are updated, not before.                                     *)
EnqueueSlotAdvanced == NextSlot(fifo_head)

EnqueueSlot == fifo_head

-----------------------------------------------------------------------------
(* Classification of the incoming instruction.                             *)

KeepsAll(i) ==
    /\ i.outs[1] # DNA
    /\ \A k \in 1..2 : i.outs[k] # DNA => i.outs[k] \in i.kept

IsFloatWrite(i) ==
    \/ i.kind = "fcomp"
    \/ i.kind = "load" /\ i.outs[1] \in FpRegs

(* rm_on_entry.  The floating-point branch of _nmod_check indexes the      *)
(* float registers with numbers from 32 on, past the end of the array, and *)
(* compares the word it finds there with itself: true unless that word is  *)
(* a NaN.  Either outcome is possible.                                     *)
RemovedOnEntry(i) ==
    IF IsFloatWrite(i)
    THEN IF i.outs[1] = DNA THEN {FALSE} ELSE BOOLEAN
    ELSE IF i.kind \in {"icomp", "load", "store"} THEN {KeepsAll(i)}
    ELSE {i.kind = "jump"}

(* The counter a removal on entry adds to. *)
EntryCounter(i) ==
    CASE i.kind = "jump"  -> "inef_br"
      [] i.kind = "store" -> "mem_nmod"
      [] OTHER            -> "reg_nmod"

-----------------------------------------------------------------------------
(* The branch target buffer.                                               *)

(* Off by one: the last instance in the window does not count. *)
FreshBranchEarly(pc) == btb[pc].valid_cnt <= 1

(* No instance of this branch is in the window. *)
FreshBranch(pc) == btb[pc].valid_cnt = 0

BranchSeen(i) ==
    IF i.kind # "cond" THEN btb
    ELSE [btb EXCEPT ![i.pc] =
            IF FreshBranch(i.pc)
            THEN [tgt_addr |-> i.next, const_tgt |-> TRUE, valid_cnt |-> 1]
            ELSE [tgt_addr  |-> btb[i.pc].tgt_addr,
                  const_tgt |-> btb[i.pc].const_tgt /\ btb[i.pc].tgt_addr = i.next,
                  valid_cnt |-> btb[i.pc].valid_cnt + 1]]

(* The decrement forgotten. *)
BranchStays(b, pc) == b

BranchGone(b, pc) ==
    IF pc = DNA THEN b
    ELSE [b EXCEPT ![pc].valid_cnt = IF @ > 0 THEN @ - 1 ELSE 0]

(* The entry enqueued for instruction i. *)
Incoming(i) ==
    [valid |-> TRUE,
     outs  |-> i.outs,
     src   |-> [k \in 1..3 |-> IF i.ins[k] = DNA
                               THEN -1 ELSE ort[i.ins[k]].producer_idx],
     chk_ineff_br |-> /\ i.kind = "cond"
                      /\ ~FreshBranch(i.pc)
                      /\ btb[i.pc].tgt_addr = i.next
                      /\ btb[i.pc].const_tgt,
     branch_pc |-> IF i.kind = "cond" THEN i.pc ELSE DNA]

-----------------------------------------------------------------------------
(* References and overwrites, on d = [ort, count, uref]: the rename tables *)
(* and counts so far, and the unreferenced writes found in this call.      *)

Window_src == [s \in Slots |-> window[s].src]

(* Entries some rename-table entry still names as a producer.  The last    *)
(* two tests of _decrement_consumer both look at mem_out1, so that the     *)
(* second word of a store is never looked up.                              *)
CurrentProducers(o) ==
    {s \in Slots : \/ o[window[s].outs[1]].producer_idx = s
                   \/ /\ window[s].outs[2] \in Regs
                      /\ o[window[s].outs[2]].producer_idx = s}

DropProducers(count, o, s) ==
    Decrement(count, Window_src, CurrentProducers(o), window[s].src)

(* The second word forgotten. *)
ReadFirstWord(i, k) == k = 1 /\ i.loads[k] # DNA /\ ort[i.loads[k]].valid

(* _ref_update looks at the valid flag of memory entries only. *)
ReadReg(i, k) == i.ins[k] # DNA
ReadMem(i, k) == i.loads[k] # DNA /\ ort[i.loads[k]].valid

RefUpdate(i) ==
    [ort |-> [l \in Locs |->
                [ort[l] EXCEPT !.referenced =
                    \/ @
                    \/ \E k \in 1..3 : ReadReg(i, k) /\ i.ins[k] = l
                    \/ \E k \in 1..2 : ReadMem(i, k) /\ i.loads[k] = l]],
     count |-> [s \in Slots |->
                consumer_count[s]
                + Cardinality({k \in 1..3 :
                       ReadReg(i, k) /\ ort[i.ins[k]].producer_idx = s})
                + Cardinality({k \in 1..2 :
                       ReadMem(i, k) /\ ort[i.loads[k]].producer_idx = s})],
     uref |-> 0]

(* The reference flag not consulted. *)
Overwritable(e) == e.valid /\ e.ort_pair = DNA

Unreferenced(e) == e.valid /\ ~e.referenced /\ e.ort_pair = DNA

(* One output location of _uref_check or _uref_check_mem. *)
Overwrite(d, loc, pair) ==
    IF loc = DNA THEN d
    ELSE LET dead == Unreferenced(d.ort[loc])
         IN  [ort |-> [d.ort EXCEPT ![loc] =
                         [valid |-> TRUE, referenced |-> FALSE,
                          producer_idx |-> EnqueueSlot, ort_pair |-> pair]],
              count |-> IF dead
                        THEN DropProducers(d.count, d.ort, d.ort[loc].producer_idx)
                        ELSE d.count,
              uref |-> d.uref + (IF dead THEN 1 ELSE 0)]

Dataflow(i, removed) ==
    IF removed
    THEN [ort |-> ort, count |-> consumer_count, uref |-> 0]
    ELSE Overwrite(Overwrite(RefUpdate(i), i.outs[1], i.outs[2]),
                   i.outs[2], i.outs[1])

-----------------------------------------------------------------------------
(* The middle and the end of the window.                                   *)

(* A branch in the middle of the window that has not changed its target    *)
(* is taken to be ineffectual: its producers lose a consumer.              *)
MidCheck(d, b) ==
    IF /\ window[fifo_mid].chk_ineff_br
       /\ b[window[fifo_mid].branch_pc].const_tgt
    THEN DropProducers(d.count, d.ort, fifo_mid)
    ELSE d.count

Evicting == w_instr_cnt = W

(* Invalidating the first output only. *)
EvictFirstOutput(o) ==
    [l \in Locs |->
        [o[l] EXCEPT !.valid =
            @ /\ ~(/\ Evicting
                   /\ window[fifo_head].outs[1] = l
                   /\ o[l].producer_idx = fifo_head)]]

Evict(o) ==
    [l \in Locs |->
        [o[l] EXCEPT !.valid =
            @ /\ ~(/\ Evicting
                   /\ \E k \in 1..2 : window[fifo_head].outs[k] = l
                   /\ o[l].producer_idx = fifo_head)]]

(* The branch leaving the window never changed its target while it was in. *)
IneffectualBranch(b) ==
    /\ window[fifo_head].branch_pc # DNA
    /\ b[window[fifo_head].branch_pc].const_tgt

Add(n, cond) == IF cond THEN n + 1 ELSE n

(* The leaving branch forgotten. *)
RemovalsAt(pc, i, removed, b) == Add(removed_map[pc], removed /\ pc = i.pc)

(* removed_instr_map: a removal on entry is put down to the new pc, an     *)
(* ineffectual branch to the one that leaves.                              *)
Removals(pc, i, removed, b) ==
    Add(Add(removed_map[pc], removed /\ pc = i.pc),
        IneffectualBranch(b) /\ pc = window[fifo_head].branch_pc)

ProcessNewInstr(i, removed) ==
    LET b  == BranchSeen(i)
        d  == Dataflow(i, removed)
        c  == MidCheck(d, b)
        br == window[fifo_head].branch_pc
        ineffectual == IneffectualBranch(b)
    IN  /\ btb' = BranchGone(b, br)
        /\ ort' = Evict(d.ort)
        /\ consumer_count' = [c EXCEPT ![fifo_head] = 0]
        /\ window' = [window EXCEPT ![fifo_head] = Incoming(i)]
        /\ removed_map' = [pc \in Pcs |-> Removals(pc, i, removed, b)]
        /\ stats' = [k \in Counters |->
                CASE k = "transitive" -> Add(stats[k], Evicting /\ c[fifo_head] = 0)
                  [] k = "inef_br" ->
                        Add(Add(stats[k], removed /\ EntryCounter(i) = k), ineffectual)
                  [] k \in {"reg_nmod", "mem_nmod"} ->
                        Add(stats[k], removed /\ EntryCounter(i) = k)
                  [] k = "mem_uref" -> stats[k] + (IF i.kind = "store" THEN d.uref ELSE 0)
                  [] k = "reg_uref" -> stats[k] + (IF i.kind # "store" THEN d.uref ELSE 0)]
        /\ w_instr_cnt' = IF Evicting THEN W ELSE w_instr_cnt + 1
        /\ fifo_head' = NextSlot(fifo_head)
        /\ fifo_mid' = NextSlot(fifo_mid)

(* One turn of the loop of sim_main. *)
Retire(i, removed) ==
    /\ sim_num_insn < MaxInsts
    /\ sim_num_insn' = sim_num_insn + 1
    /\ ProcessNewInstr(i, removed)

Next == \E i \in Instrs : \E removed \in RemovedOnEntry(i) : Retire(i, removed)

Spec == Init /\ [][Next]_vars

=============================================================================
