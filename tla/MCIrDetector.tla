----------------------------- MODULE MCIrDetector ----------------------------
(***************************************************************************)
(* Small instruction sets for IrDetector.  Each set aims at one part of    *)
(* the detector: the dataflow through registers and memory, the classes    *)
(* of instructions treated apart and the branches, and all of it together. *)
(* And small windows for IrDecrementDfs, which runs alone, the detector    *)
(* standing still: a behaviour is of one or of the other.                  *)
(***************************************************************************)
EXTENDS IrRefinement, IrDecrementDfs

CONSTANT Programs   \* the instructions a run draws from, and how many of them

VARIABLE program

mcvars == <<hvars, program, dvars>>

NoProducers == <<-1, -1, -1>>

(* No call of _decrement_consumer under way. *)
NoCall ==
    /\ entered = [count |-> [s \in Slots |-> 0], src |-> [s \in Slots |-> NoProducers],
                  live |-> {}, ps |-> NoProducers]
    /\ count = entered.count
    /\ calls = <<>>

NoProgram == [instrs |-> {}, length |-> 0]

MCInit ==
    /\ HInit
    /\ \/ program \in Programs /\ NoCall
       \/ program = NoProgram /\ DfsInit

DetectorNext ==
    /\ sim_num_insn < program.length
    /\ \E i \in program.instrs : \E removed \in RemovedOnEntry(i) : HRetire(i, removed)
    /\ UNCHANGED <<program, dvars>>

RecursionNext == program = NoProgram /\ DfsNext /\ UNCHANGED <<hvars, program>>

(* The program has come to its end. *)
Finished ==
    /\ program # NoProgram /\ sim_num_insn = program.length
    /\ UNCHANGED mcvars

MCNext == DetectorNext \/ RecursionNext \/ Finished

MCSpec == MCInit /\ [][MCNext]_mcvars

(* Entries with up to two operands and two consumers.  What is in slot 0   *)
(* makes no difference: it is never looked at, and an operand that names   *)
(* it is passed over like none.  The last slot is empty, as in a window    *)
(* that is not full, and keeps the windows few.                            *)
Operands(slots) == {<<x, y, -1>> : x \in slots \cup {-1}, y \in slots \cup {-1}}

SmallWindows ==
    [count : {c \in [Slots -> 0..2] : c[0] = 2 /\ c[W - 1] = 0},
     src   : {s \in [Slots -> Operands(1 .. W - 2)] :
                 s[0] = NoProducers /\ s[W - 1] = NoProducers},
     live  : SUBSET (1 .. W - 2),
     ps    : Operands(0 .. W - 2)]

NoWindows == {}

-----------------------------------------------------------------------------
CONSTANTS r1, r2, f1, a1, a2, b1, b2, t1, t2

MCRegs == {r1, r2, f1}
MCFpRegs == {f1}
MCAddrs == {a1, a2}
MCPcs == {b1, b2, t1, t2}

None2 == <<DNA, DNA>>
None3 == <<DNA, DNA, DNA>>

Op(kind, ins, outs, kept) ==
    [kind |-> kind, ins |-> ins, loads |-> None2, outs |-> outs, kept |-> kept,
     pc |-> t1, next |-> t2]

Set(r) == Op("icomp", None3, <<r, DNA>>, {})
Move(to, from) == Op("icomp", <<from, DNA, DNA>>, <<to, DNA>>, {})
AddTo(to, from) == Op("icomp", <<to, from, DNA>>, <<to, DNA>>, {})
Keep(r) == Op("icomp", <<r, DNA, DNA>>, <<r, DNA>>, {r})
Mult(kept) == Op("icomp", <<r1, r2, DNA>>, <<r1, r2>>, kept)
Flop == Op("fcomp", <<f1, DNA, DNA>>, <<f1, DNA>>, {})
Load(r, a) == [Op("load", <<r2, DNA, DNA>>, <<r, DNA>>, {}) EXCEPT !.loads = <<a, DNA>>]
Load2(r) == [Op("load", None3, <<r, DNA>>, {}) EXCEPT !.loads = <<a1, a2>>]
Store(r, a, kept) == Op("store", <<r, DNA, DNA>>, <<a, DNA>>, kept)
Store2(r) == Op("store", <<r, DNA, DNA>>, <<a1, a2>>, {a1})
Jump(r) == Op("jump", None3, <<r, DNA>>, {})
Branch(pc, r, to) ==
    [Op("cond", <<r, DNA, DNA>>, None2, {}) EXCEPT !.pc = pc, !.next = to]
Trap == Op("other", None3, None2, {})

(* Writes, reads and cascades, of one location and of two. *)
DataflowInstrs ==
    {Set(r1), Move(r2, r1), AddTo(r2, r1), Mult({r1}),
     Store(r2, a1, {}), Store2(r2), Load(r1, a1), Load2(r1)}

(* Every class, branches with one target and with two. *)
ControlInstrs ==
    {Flop, Trap, Jump(r1), Load(f1, a1), Keep(r1), Mult({r1, r2}), Store(r1, a1, {a1}),
     Branch(b1, r1, t1), Branch(b1, r1, t2), Branch(b2, r2, t1)}

(* Writes, reads and branches together. *)
MixedInstrs ==
    {Set(r1), Move(r2, r1), Store(r1, a1, {}), Load(r1, a1), Keep(r1),
     Branch(b1, r1, t1), Branch(b1, r1, t2)}

(* Branches that enter and leave the window several times over. *)
BranchInstrs ==
    {Branch(b1, r1, t1), Branch(b1, r1, t2), Branch(b2, r2, t1), Trap}

AllPrograms == {[instrs |-> DataflowInstrs, length |-> 6],
                [instrs |-> BranchInstrs, length |-> 7],
                [instrs |-> ControlInstrs, length |-> 5],
                [instrs |-> MixedInstrs, length |-> 6]}
AllInstrs == UNION {p.instrs : p \in AllPrograms}

(* No register is read before it is written. *)
ChainInstrs == {Set(r1), Move(r2, r1), Set(r2)}
ChainPrograms == {[instrs |-> ChainInstrs, length |-> 3]}

=============================================================================
