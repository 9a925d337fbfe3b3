-------------------------------- MODULE DbpSim --------------------------------
(***************************************************************************)
(* The callbacks of the dbpSim pintool (a3/.../ACA/dbpSim.cpp).  For every *)
(* instruction of the traced program Pin calls the analysis routines that  *)
(* Instruction has inserted: countFunc, RecordMemRead for each load and    *)
(* RecordWriteAddr for a store, these two only if the instruction is       *)
(* executed, and after it RecordMemWrite.  The threads of the program      *)
(* share the caches and WriteAddr.  A call is one step, which is right for *)
(* one thread; of two the calls may overlap, and this is left out.         *)
(***************************************************************************)
EXTENDS CacheSim

CONSTANTS
    Threads,
    Insts,      \* the instructions of the traced program, a subset of Inst
    MaxInsts    \* and how many of them: the bound of a run

(* reads: the loads; write: the store, or NoBlock; executed: what the      *)
(* predicate says; after: whether control reaches a point behind it, by    *)
(* falling through or as a taken branch.                                   *)
Inst == [ip : Blocks, reads : Seq(Blocks), write : Blocks \cup {NoBlock},
         executed : BOOLEAN, after : BOOLEAN]

VARIABLES
    WriteAddr,
    instCount,
    todo,      \* the calls left to make for the instruction of each thread
    stored,    \* how often the program has stored to each block
    written    \* how often the L1-D has seen a write to it

dvars == <<cvars, WriteAddr, instCount, todo, stored, written>>

DInit ==
    /\ CacheInit
    /\ WriteAddr = 0    \* a null pointer: block 0
    /\ instCount = 0
    /\ todo = [t \in Threads |-> <<>>]
    /\ stored = [b \in Blocks |-> 0]
    /\ written = [b \in Blocks |-> 0]

CallOf(fn, i, addr) == [fn |-> fn, ip |-> i.ip, addr |-> addr]

OneIf(cond, call) == IF cond THEN <<call>> ELSE <<>>

(* What Instruction inserts, in the order in which Pin calls it. *)
Inserted(i) ==
    <<CallOf("countFunc", i, i.ip)>>
    \o (IF i.executed
        THEN [n \in DOMAIN i.reads |-> CallOf("RecordMemRead", i, i.reads[n])]
        ELSE <<>>)
    \o OneIf(i.write # NoBlock /\ i.executed, CallOf("RecordWriteAddr", i, i.write))
    \o OneIf(i.write # NoBlock /\ i.after, CallOf("RecordMemWrite", i, NoBlock))

Begin(t, i) ==
    /\ todo[t] = <<>>
    /\ instCount < MaxInsts
    /\ todo' = [todo EXCEPT ![t] = Inserted(i)]
    /\ stored' = IF i.write # NoBlock /\ i.executed
                 THEN [stored EXCEPT ![i.write] = @ + 1] ELSE stored
    /\ UNCHANGED <<cvars, WriteAddr, instCount, written>>

countFunc(ip) ==
    /\ Access("L1_I", ip, ip, FALSE)
    /\ instCount' = instCount + 1
    /\ UNCHANGED <<WriteAddr, written>>

RecordMemRead(ip, addr) ==
    /\ Access("L1_D", addr, ip, FALSE)
    /\ UNCHANGED <<WriteAddr, instCount, written>>

RecordWriteAddr(addr) ==
    /\ WriteAddr' = addr
    /\ UNCHANGED <<cvars, instCount, written>>

RecordMemWrite(ip) ==
    /\ Access("L1_D", WriteAddr, ip, TRUE)
    /\ written' = [written EXCEPT ![WriteAddr] = @ + 1]
    /\ UNCHANGED <<WriteAddr, instCount>>

Call(t) ==
    /\ todo[t] # <<>>
    /\ LET c == Head(todo[t])
       IN  \/ c.fn = "countFunc" /\ countFunc(c.ip)
           \/ c.fn = "RecordMemRead" /\ RecordMemRead(c.ip, c.addr)
           \/ c.fn = "RecordWriteAddr" /\ RecordWriteAddr(c.addr)
           \/ c.fn = "RecordMemWrite" /\ RecordMemWrite(c.ip)
    /\ todo' = [todo EXCEPT ![t] = Tail(@)]
    /\ UNCHANGED stored

DNext == \E t \in Threads : Call(t) \/ \E i \in Insts : Begin(t, i)

DSpec == DInit /\ [][DNext]_dvars

-----------------------------------------------------------------------------
(* Lines 148-149, "the call happens iff the store will be actually         *)
(* executed": between two instructions the data cache has seen each store  *)
(* of the program once, at its address.                                    *)
StoresRecorded == (\A t \in Threads : todo[t] = <<>>) => written = stored

=============================================================================
