------------------------------ MODULE IrHistory ------------------------------
(***************************************************************************)
(* IrDetector with a history variable: past[s] is the instruction that     *)
(* was enqueued in slot s and whether it was removed on entry.  The window *)
(* of the code forgets both; the properties below need them to say what    *)
(* the rename tables, the branch buffer and the counts ought to mean.      *)
(***************************************************************************)
EXTENDS IrDetector

VARIABLE past

hvars == <<vars, past>>

Nothing == [instr |-> DNA, removed |-> TRUE]

HInit == Init /\ past = [s \in Slots |-> Nothing]

HRetire(i, removed) ==
    /\ Retire(i, removed)
    /\ past' = [past EXCEPT ![fifo_head] = [instr |-> i, removed |-> removed]]

HNext == \E i \in Instrs : \E removed \in RemovedOnEntry(i) : HRetire(i, removed)

HSpec == HInit /\ [][HNext]_hvars

-----------------------------------------------------------------------------
(* The window as a sliding one.                                            *)

(* 0 for the youngest entry. *)
Age(s) == IF s < fifo_head THEN fifo_head - 1 - s ELSE fifo_head - 1 - s + W

Younger(q, p) == Age(q) < Age(p)

Accepted(s) == window[s].valid /\ ~past[s].removed

Writes(s, l) == Accepted(s) /\ \E k \in 1..2 : past[s].instr.outs[k] = l

Reads(s, l) ==
    /\ Accepted(s)
    /\ \/ \E k \in 1..3 : past[s].instr.ins[k] = l
       \/ \E k \in 1..2 : past[s].instr.loads[k] = l

LatestWriter(s, l) ==
    Writes(s, l) /\ \A q \in Slots : Writes(q, l) => q = s \/ Younger(s, q)

(* Between s and the next accepted write of its only output nobody reads   *)
(* it: the value s computed is dead.                                       *)
Dead(s) ==
    /\ Accepted(s)
    /\ past[s].instr.outs[2] = DNA
    /\ \E q \in Slots :
          /\ Younger(q, s)
          /\ past[s].instr.outs[1] # DNA
          /\ Writes(q, past[s].instr.outs[1])
          /\ \A r \in Slots : /\ Reads(r, past[s].instr.outs[1])
                              /\ Younger(r, s)
                              => r # q /\ Younger(r, q)

-----------------------------------------------------------------------------
(* The assert of _decrement_consumer (line 191) cannot fail: every source  *)
(* index it follows, and every producer index that can become one, is that *)
(* of an occupied slot.                                                    *)
ProducersOccupied ==
    /\ \A s \in Slots, k \in 1..3 :
          window[s].src[k] > 0 => window[window[s].src[k]].valid
    /\ \A l \in Locs :
          ort[l].producer_idx > 0 => window[ort[l].producer_idx].valid

(* A valid rename-table entry names an instruction still in the window     *)
(* that was not removed on entry, wrote the location, and is the last      *)
(* such one: no overwrite, removal or reuse of a slot leaves a valid entry *)
(* behind (process_new_instr, lines 476-485 and 525-547).                  *)
OrtLatestWriter ==
    \A l \in Regs \cup Addrs, p \in Slots :
        ort[l].valid /\ ort[l].producer_idx = p => LatestWriter(p, l)

(* A valid entry is marked referenced exactly if an instruction younger    *)
(* than its producer, and not removed itself, reads the location: the      *)
(* unreferenced-write test of _uref_check is neither early nor late.       *)
ReferencedExact ==
    \A l \in Regs \cup Addrs, p \in Slots :
        ort[l].valid /\ ort[l].producer_idx = p =>
            (ort[l].referenced <=>
                \E q \in Slots : Reads(q, l) /\ Younger(q, p))

(* valid_cnt is the number of instances of the branch in the window, so    *)
(* that the guard at line 516 never hides an underflow and the entry is    *)
(* reset exactly when the last instance has left.                          *)
BtbCountExact ==
    \A pc \in Pcs :
        btb[pc].valid_cnt = Cardinality({s \in Slots : window[s].branch_pc = pc})

(* While a branch is marked as having one target, every instance of it in  *)
(* the window went to that target.                                         *)
ConstTargetSound ==
    \A s \in Slots :
        LET pc == window[s].branch_pc
        IN  pc # DNA /\ btb[pc].const_tgt
            => past[s].instr.next = btb[pc].tgt_addr

(* The removals removed_instr_map holds, each with its pc and its number.  *)
Attributed(map) == UNION {{pc} \X (1 .. map[pc]) : pc \in Pcs}

(* Every removal the statistics count is attributed to one pc, for         *)
(* get_most_removed_instr to find.                                         *)
RemovalsAccounted ==
    Cardinality(Attributed(removed_map))
        = stats["reg_nmod"] + stats["mem_nmod"] + stats["inef_br"]

(* Until something leaves the window, an instruction in a slot other than  *)
(* slot 0 all of whose register consumers are dead has no consumer left:   *)
(* the cascade of _decrement_consumer reaches every producer it should.    *)
DiscountedBeyondSlot0 ==
    sim_num_insn <= W =>
        \A p \in Slots \ {0} :
            /\ Accepted(p) /\ past[p].instr.kind # "store"
            /\ \A q \in Slots : Accepted(q) /\ (\E k \in 1..3 : window[q].src[k] = p)
                                => Dead(q)
            => consumer_count[p] = 0

-----------------------------------------------------------------------------
(* What the comments of the code say and the code does not do.             *)

(* ir_detector.cpp:62, "store number of this instruction's consumers that  *)
(* are effectual": the rule of DiscountedBeyondSlot0 for every slot.       *)
DeadConsumersDiscounted ==
    sim_num_insn <= W =>
        \A p \in Slots :
            /\ Accepted(p) /\ past[p].instr.kind # "store"
            /\ \A q \in Slots : Accepted(q) /\ (\E k \in 1..3 : window[q].src[k] = p)
                                => Dead(q)
            => consumer_count[p] = 0

(* ir_detector.cpp:32, "point to the latest producer": a location with an  *)
(* accepted writer in the window has a valid entry.                        *)
LatestWriterKept ==
    \A l \in Regs \cup Addrs :
        (\E s \in Slots : Writes(s, l)) => ort[l].valid

=============================================================================
