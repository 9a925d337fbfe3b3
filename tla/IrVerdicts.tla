------------------------------ MODULE IrVerdicts ------------------------------
(***************************************************************************)
(* What the IR detector promises, without rename tables, branch buffer or  *)
(* circular FIFO: it looks at the last W retired instructions, and it may  *)
(* call something ineffectual only for a reason that window shows.         *)
(*                                                                         *)
(* recent is the window, oldest first.  The counters are upper-bounded     *)
(* only: the detector need not find every ineffectual instruction, but it  *)
(* must not invent one.  How transitively ineffectual instructions are     *)
(* counted is left open here.                                              *)
(***************************************************************************)
EXTENDS Integers, Sequences, FiniteSets

CONSTANTS W, DNA, Instrs, RemovalChoices(_)

VARIABLES
    recent,       \* [instr, removed] of the last W instructions
    nonmodifying, \* writes removed as they were retired
    unread,       \* writes found to be unreferenced
    branches      \* ineffectual branches: jumps, and branches that left
                  \* the window without having changed their target

avars == <<recent, nonmodifying, unread, branches>>

AInit == recent = <<>> /\ nonmodifying = 0 /\ unread = 0 /\ branches = 0

Outputs(i) == {i.outs[k] : k \in 1..2} \ {DNA}
Inputs(i) == {i.ins[k] : k \in 1..3} \cup {i.loads[k] : k \in 1..2}

(* The positions of w that count: removed instructions do not. *)
Effective(w) == {n \in DOMAIN w : ~w[n].removed}

(* Position n of w computed l for nobody: it wrote l and nothing else, and *)
(* no later instruction, up to the end of w, wrote or read it.             *)
UnreadWrite(w, n, l) ==
    /\ Outputs(w[n].instr) = {l}
    /\ \A m \in Effective(w) :
          m > n => l \notin Inputs(w[m].instr) \cup Outputs(w[m].instr)

(* The locations i overwrites although nobody read them, i's own reads     *)
(* included.                                                               *)
Unread(i) ==
    {l \in Outputs(i) \ Inputs(i) :
        \E n \in Effective(recent) : UnreadWrite(recent, n, l)}

(* The oldest entry is a branch all of whose instances in w went one way.  *)
FixedBranch(w) ==
    /\ w[1].instr.kind = "cond"
    /\ \A n \in DOMAIN w :
          w[n].instr.kind = "cond" /\ w[n].instr.pc = w[1].instr.pc
          => w[n].instr.next = w[1].instr.next

One(cond) == IF cond THEN 1 ELSE 0

ARetire(i, removed) ==
    LET w == Append(recent, [instr |-> i, removed |-> removed])
    IN  /\ recent' = IF Len(w) > W THEN Tail(w) ELSE w
        /\ nonmodifying' = nonmodifying + One(removed /\ i.kind # "jump")
        /\ unread' \in unread .. unread + (IF removed THEN 0 ELSE Cardinality(Unread(i)))
        /\ branches' \in
              LET jumps == branches + One(i.kind = "jump")
              IN  jumps .. jumps + One(Len(w) > W /\ FixedBranch(w))

ANext == \E i \in Instrs : \E removed \in RemovalChoices(i) : ARetire(i, removed)

ASpec == AInit /\ [][ANext]_avars

=============================================================================
