----------------------------- MODULE DbpSimProofs -----------------------------
(***************************************************************************)
(* The pintool under a program of one thread, for any instructions.  The   *)
(* caches keep their books, and with no predicated stores the data cache   *)
(* sees the stores of the program.  Of more threads nothing is claimed:    *)
(* nothing keeps their accesses from overlapping, and cacheSim::access     *)
(* takes no lock.                                                          *)
(***************************************************************************)
EXTENDS DbpSim, CacheProofs

(* A call that is still to be made.  RecordMemWrite has no address.        *)
Callback ==
    [fn : {"countFunc", "RecordMemRead", "RecordWriteAddr"}, ip : Blocks, addr : Blocks]
    \cup [fn : {"RecordMemWrite"}, ip : Blocks, addr : {NoBlock}]

CallsInv ==
    /\ WriteAddr \in Blocks
    /\ todo \in [Threads -> Seq(Callback)]

DInv == CacheInv /\ Books(State) /\ CallsInv

-----------------------------------------------------------------------------
(* The calls inserted for an instruction.                                  *)

StoreCalls(i) ==
    OneIf(i.write # NoBlock /\ i.executed, CallOf("RecordWriteAddr", i, i.write))
    \o OneIf(i.write # NoBlock /\ i.after, CallOf("RecordMemWrite", i, NoBlock))

LoadCalls(i) ==
    IF i.executed
    THEN [n \in DOMAIN i.reads |-> CallOf("RecordMemRead", i, i.reads[n])]
    ELSE <<>>

LEMMA InstFields ==
    ASSUME NEW i \in Inst
    PROVE  /\ i.ip \in Blocks /\ i.reads \in Seq(Blocks)
           /\ i.write \in Blocks \cup {NoBlock}
           /\ i.executed \in BOOLEAN /\ i.after \in BOOLEAN
BY DEF Inst

LEMMA LoadCallsAre ==
    ASSUME NEW i \in Inst
    PROVE  /\ LoadCalls(i) \in Seq(Callback)
           /\ \A n \in 1 .. Len(LoadCalls(i)) : LoadCalls(i)[n].fn = "RecordMemRead"
<1>1. CASE i.executed
    <2>1. LoadCalls(i) = [n \in 1 .. Len(i.reads) |->
                             [fn |-> "RecordMemRead", ip |-> i.ip, addr |-> i.reads[n]]]
        BY <1>1, InstFields DEF LoadCalls, CallOf
    <2>2. /\ Len(i.reads) \in Nat
          /\ \A n \in 1 .. Len(i.reads) : i.reads[n] \in Blocks
        BY InstFields
    <2>3. \A n \in 1 .. Len(i.reads) :
             [fn |-> "RecordMemRead", ip |-> i.ip, addr |-> i.reads[n]] \in Callback
        BY <2>2, InstFields DEF Callback
    <2>4. LoadCalls(i) \in Seq(Callback) /\ Len(LoadCalls(i)) = Len(i.reads)
        BY <2>1, <2>2, <2>3
    <2> QED
        BY <2>1, <2>4
<1>2. CASE ~i.executed
    BY <1>2 DEF LoadCalls
<1> QED
    BY <1>1, <1>2

LEMMA OneIfIs ==
    ASSUME NEW cond \in BOOLEAN, NEW call, cond => call \in Callback
    PROVE  OneIf(cond, call) \in Seq(Callback)
<1>1. CASE cond
    <2>1. <<call>> \in Seq(Callback)
        BY <1>1
    <2> QED
        BY <1>1, <2>1 DEF OneIf
<1>2. CASE ~cond
    BY <1>2, EmptySeq DEF OneIf
<1> QED
    BY <1>1, <1>2

LEMMA StoreCallsAre ==
    ASSUME NEW i \in Inst
    PROVE  /\ OneIf(i.write # NoBlock /\ i.executed, CallOf("RecordWriteAddr", i, i.write))
                  \in Seq(Callback)
           /\ OneIf(i.write # NoBlock /\ i.after, CallOf("RecordMemWrite", i, NoBlock))
                  \in Seq(Callback)
           /\ StoreCalls(i) \in Seq(Callback)
<1> DEFINE addrCond  == i.write # NoBlock /\ i.executed
           writeCond == i.write # NoBlock /\ i.after
           addrCall  == CallOf("RecordWriteAddr", i, i.write)
           writeCall == CallOf("RecordMemWrite", i, NoBlock)
<1>1. addrCond => addrCall \in Callback
    BY InstFields DEF CallOf, Callback
<1>2. writeCall \in Callback
    BY InstFields DEF CallOf, Callback
<1>3. addrCond \in BOOLEAN /\ writeCond \in BOOLEAN
    BY InstFields
<1>4. StoreCalls(i) = OneIf(addrCond, addrCall) \o OneIf(writeCond, writeCall)
    BY DEF StoreCalls
<1> HIDE DEF addrCond, writeCond, addrCall, writeCall
<1>5. /\ OneIf(addrCond, addrCall) \in Seq(Callback)
      /\ OneIf(writeCond, writeCall) \in Seq(Callback)
    BY <1>1, <1>2, <1>3, OneIfIs
<1>6. StoreCalls(i) \in Seq(Callback)
    BY <1>4, <1>5, ConcatProperties
<1> QED
    BY <1>5, <1>6 DEF addrCond, writeCond, addrCall, writeCall

LEMMA InsertedAre ==
    ASSUME NEW i \in Inst
    PROVE  /\ Inserted(i) \in Seq(Callback)
           /\ Inserted(i) = (<<CallOf("countFunc", i, i.ip)>> \o LoadCalls(i)) \o StoreCalls(i)
<1>1. <<CallOf("countFunc", i, i.ip)>> \in Seq(Callback)
    BY InstFields DEF CallOf, Callback
<1>4. Inserted(i) = (<<CallOf("countFunc", i, i.ip)>> \o LoadCalls(i)) \o StoreCalls(i)
    <2>1. PICK a, b, c, d :
             /\ a = <<CallOf("countFunc", i, i.ip)>> /\ b = LoadCalls(i)
             /\ c = OneIf(i.write # NoBlock /\ i.executed,
                          CallOf("RecordWriteAddr", i, i.write))
             /\ d = OneIf(i.write # NoBlock /\ i.after, CallOf("RecordMemWrite", i, NoBlock))
        OBVIOUS
    <2>2. a \in Seq(Callback) /\ b \in Seq(Callback) /\ c \in Seq(Callback) /\ d \in Seq(Callback)
        BY <1>1, <2>1, LoadCallsAre, StoreCallsAre
    <2>3. ((a \o b) \o c) \o d = (a \o b) \o (c \o d)
        <3> DEFINE ab == a \o b
        <3>1. ab \in Seq(Callback) /\ c \in Seq(Callback) /\ d \in Seq(Callback)
            BY <2>2, ConcatProperties
        <3> HIDE DEF ab
        <3>2. (ab \o c) \o d = ab \o (c \o d)
            BY <3>1, ConcatAssociative
        <3> QED
            BY <3>2 DEF ab
    <2>4. Inserted(i) = ((a \o b) \o c) \o d
        BY <2>1 DEF Inserted, LoadCalls
    <2> QED
        BY <2>1, <2>3, <2>4 DEF StoreCalls
<1> QED
    BY <1>1, <1>4, LoadCallsAre, StoreCallsAre, ConcatProperties

-----------------------------------------------------------------------------
(* The caches under the pintool.                                           *)

LEMMA SameCaches ==
    ASSUME DInv, UNCHANGED cvars
    PROVE  CacheInv' /\ Books(State)'
<1>1. State' = State /\ run' = run
    BY DEF cvars, State
<1>2. Books(State')
    BY <1>1 DEF DInv
<1> QED
    BY <1>1, <1>2 DEF DInv, CacheInv

LEMMA SomeAccess ==
    ASSUME DInv, NEW c \in L1s, NEW b \in Blocks, NEW pc \in Blocks, NEW wr \in BOOLEAN,
           Access(c, b, pc, wr)
    PROVE  CacheInv' /\ Books(State)'
<1>1. pc \in Nat
    BY CacheAssumption
<1> QED
    BY <1>1, AccessInv, AccessKeepsBooks DEF DInv

LEMMA CallInv ==
    ASSUME DInv, NEW t \in Threads, Call(t)
    PROVE  DInv'
<1>1. todo[t] \in Seq(Callback) /\ todo[t] # <<>>
    BY DEF DInv, CallsInv, Call
<1>2. Head(todo[t]) \in Callback /\ Tail(todo[t]) \in Seq(Callback)
    BY <1>1, HeadTailProperties
<1>3. PICK c \in Callback : c = Head(todo[t])
    BY <1>2
<1>4. todo' \in [Threads -> Seq(Callback)]
    BY <1>2 DEF DInv, CallsInv, Call
<1>5. c.ip \in Blocks /\ (c.fn # "RecordMemWrite" => c.addr \in Blocks)
    BY DEF Callback
<1>6. WriteAddr \in Blocks
    BY DEF DInv, CallsInv
<1>7. \/ c.fn = "countFunc" /\ countFunc(c.ip)
      \/ c.fn = "RecordMemRead" /\ RecordMemRead(c.ip, c.addr)
      \/ c.fn = "RecordWriteAddr" /\ RecordWriteAddr(c.addr)
      \/ c.fn = "RecordMemWrite" /\ RecordMemWrite(c.ip)
    BY <1>3 DEF Call
<1>8. CASE c.fn = "countFunc" /\ countFunc(c.ip)
    <2>1. CacheInv' /\ Books(State)'
        BY <1>5, <1>8, SomeAccess DEF countFunc, L1s
    <2> QED
        BY <1>4, <1>6, <1>8, <2>1 DEF DInv, CallsInv, countFunc
<1>9. CASE c.fn = "RecordMemRead" /\ RecordMemRead(c.ip, c.addr)
    <2>1. CacheInv' /\ Books(State)'
        BY <1>5, <1>9, SomeAccess DEF RecordMemRead, L1s
    <2> QED
        BY <1>4, <1>6, <1>9, <2>1 DEF DInv, CallsInv, RecordMemRead
<1>10. CASE c.fn = "RecordWriteAddr" /\ RecordWriteAddr(c.addr)
    <2>1. CacheInv' /\ Books(State)'
        BY <1>10, SameCaches DEF RecordWriteAddr
    <2> QED
        BY <1>4, <1>5, <1>10, <2>1 DEF DInv, CallsInv, RecordWriteAddr
<1>11. CASE c.fn = "RecordMemWrite" /\ RecordMemWrite(c.ip)
    <2>1. CacheInv' /\ Books(State)'
        BY <1>5, <1>6, <1>11, SomeAccess DEF RecordMemWrite, L1s
    <2> QED
        BY <1>4, <1>6, <1>11, <2>1 DEF DInv, CallsInv, RecordMemWrite
<1> QED
    BY <1>7, <1>8, <1>9, <1>10, <1>11

LEMMA DInvInitial ==
    ASSUME DInit, 0 \in Blocks
    PROVE  DInv
<1>1. CacheInv /\ Books(State)
    BY CacheInitInv, BooksInit DEF DInit
<1>2. <<>> \in Seq(Callback)
    BY EmptySeq
<1> QED
    BY <1>1, <1>2 DEF DInit, DInv, CallsInv

LEMMA DInvKept ==
    ASSUME DInv, Insts \subseteq Inst, [DNext]_dvars
    PROVE  DInv'
<1>1. ASSUME NEW t \in Threads, NEW i \in Insts, Begin(t, i)
      PROVE  DInv'
    <2>1. CacheInv' /\ Books(State)'
        BY <1>1, SameCaches DEF Begin
    <2>2. Inserted(i) \in Seq(Callback)
        BY InsertedAre
    <2> QED
        BY <1>1, <2>1, <2>2 DEF DInv, CallsInv, Begin
<1>2. CASE UNCHANGED dvars
    <2>1. CacheInv' /\ Books(State)'
        BY <1>2, SameCaches DEF dvars
    <2> QED
        BY <1>2, <2>1 DEF DInv, CallsInv, dvars
<1> QED
    BY <1>1, <1>2, CallInv DEF DNext

LEMMA DInvariant ==
    ASSUME Insts \subseteq Inst, 0 \in Blocks
    PROVE  DSpec => []DInv
<1>1. DInit => DInv
    BY DInvInitial
<1>2. DInv /\ [DNext]_dvars => DInv'
    BY DInvKept
<1> QED
    BY <1>1, <1>2, PTL DEF DSpec

(* The statistics that Fini prints add up, and the assertions of           *)
(* cacheSim.cpp:70 and dbpAndPrefetch.cpp:18 hold, after whatever calls    *)
(* Instruction has inserted for whatever instructions: with a false        *)
(* predicate, several loads, or a store sent to the address of an earlier  *)
(* one.  The program has one thread; block 0 is where WriteAddr points     *)
(* before the first store.                                                 *)
THEOREM CachesUnderPintool ==
    ASSUME NEW t, Threads = {t}, Insts \subseteq Inst, 0 \in Blocks
    PROVE  DSpec => [](/\ CacheTypeOK /\ MissesAccounted /\ TraceKnown /\ OneDemandEntry
                       /\ PredictionsAccounted /\ PrefetchesAccounted)
<1>1. DInv => /\ CacheTypeOK /\ MissesAccounted /\ TraceKnown /\ OneDemandEntry
              /\ PredictionsAccounted /\ PrefetchesAccounted
    BY TypesHold, TracesHold, DemandEntriesHold, MissesHold, PredictionsHold,
       PrefetchesHold DEF DInv
<1> QED
    BY <1>1, DInvariant, PTL

-----------------------------------------------------------------------------
(* The stores that reach the data cache.                                   *)

(* RecordMemWrite is the last of the calls left, and RecordWriteAddr comes *)
(* right before it and nowhere else.                                       *)
StoreOrder(s) ==
    \A n \in 1 .. Len(s) :
        /\ s[n].fn = "RecordMemWrite" => n = Len(s)
        /\ s[n].fn = "RecordWriteAddr"
               <=> n = Len(s) - 1 /\ s[Len(s)].fn = "RecordMemWrite"

(* The calls of s are still to write block b, if WriteAddr is w. *)
Owes(s, b, w) ==
    /\ s # <<>> /\ s[Len(s)].fn = "RecordMemWrite"
    /\ b = IF Len(s) = 1 THEN w ELSE s[Len(s) - 1].addr

StoresInv(t) ==
    /\ stored \in [Blocks -> Nat] /\ written \in [Blocks -> Nat]
    /\ StoreOrder(todo[t])
    /\ \A b \in Blocks :
          stored[b] = written[b] + IF Owes(todo[t], b, WriteAddr) THEN 1 ELSE 0

(* If i stores at all it does so always, and a RecordMemWrite follows it.  *)
Unpredicated(i) == i.write # NoBlock => i.executed /\ i.after

LEMMA BeforeTheStore ==
    ASSUME NEW i \in Inst
    PROVE  \E s \in Seq(Callback) :
              /\ s = <<CallOf("countFunc", i, i.ip)>> \o LoadCalls(i)
              /\ Len(s) >= 1
              /\ \A n \in 1 .. Len(s) : s[n].fn \notin {"RecordWriteAddr", "RecordMemWrite"}
<1>1. PICK a \in Seq(Callback) : /\ a = <<CallOf("countFunc", i, i.ip)>>
                                 /\ Len(a) = 1 /\ a[1].fn = "countFunc"
    <2> DEFINE call == CallOf("countFunc", i, i.ip)
    <2>0. call \in Callback
        BY InstFields DEF CallOf, Callback
    <2>1. PICK c \in Callback : c = call /\ c.fn = "countFunc"
        <3>1. call.fn = "countFunc"
            BY DEF CallOf
        <3> HIDE DEF call
        <3> QED
            BY <2>0, <3>1
    <2>2. <<c>> \in Seq(Callback) /\ Len(<<c>>) = 1 /\ <<c>>[1] = c
        OBVIOUS
    <2> QED
        BY <2>1, <2>2
<1>2. PICK r \in Seq(Callback) : /\ r = LoadCalls(i)
                                 /\ \A n \in 1 .. Len(r) : r[n].fn = "RecordMemRead"
    BY LoadCallsAre
<1>3. PICK s \in Seq(Callback) : s = a \o r
    BY ConcatProperties
<1>4. Len(s) = 1 + Len(r) /\ Len(r) \in Nat
    BY <1>1, <1>3, ConcatProperties, LenProperties
<1>5. ASSUME NEW n \in 1 .. Len(s)
      PROVE  s[n].fn \notin {"RecordWriteAddr", "RecordMemWrite"}
    <2>1. s[n] = IF n <= 1 THEN a[n] ELSE r[n - 1]
        BY <1>1, <1>3, <1>4, ConcatProperties
    <2>2. CASE n = 1
        BY <1>1, <2>1, <2>2
    <2>3. CASE n # 1
        <3>1. n - 1 \in 1 .. Len(r) /\ s[n] = r[n - 1]
            BY <1>4, <2>1, <2>3
        <3> QED
            BY <1>2, <3>1
    <2> QED
        BY <2>2, <2>3
<1>6. s = <<CallOf("countFunc", i, i.ip)>> \o LoadCalls(i)
    BY <1>1, <1>2, <1>3
<1>7. Len(s) >= 1
    BY <1>4
<1> QED
    BY <1>5, <1>6, <1>7

LEMMA StoresOfAnInst ==
    ASSUME NEW i \in Inst, Unpredicated(i), NEW w
    PROVE  /\ StoreOrder(Inserted(i))
           /\ \A b \in Blocks : Owes(Inserted(i), b, w) <=> b = i.write
<1>1. PICK s \in Seq(Callback) :
              /\ s = <<CallOf("countFunc", i, i.ip)>> \o LoadCalls(i)
              /\ Len(s) >= 1
              /\ \A n \in 1 .. Len(s) : s[n].fn \notin {"RecordWriteAddr", "RecordMemWrite"}
    BY BeforeTheStore
<1>2. PICK q \in Seq(Callback) : q = StoreCalls(i)
    BY StoreCallsAre
<1>3. PICK z \in Seq(Callback) : z = Inserted(i)
    BY InsertedAre
<1>4. z = s \o q
    BY <1>1, <1>2, <1>3, InsertedAre
<1>5. /\ Len(s) \in Nat /\ Len(q) \in Nat /\ Len(z) = Len(s) + Len(q)
      /\ \A n \in 1 .. Len(s) + Len(q) : z[n] = IF n <= Len(s) THEN s[n] ELSE q[n - Len(s)]
    BY <1>4, ConcatProperties, LenProperties
<1>6. CASE i.write = NoBlock
    <2>1. q = <<>>
        BY <1>2, <1>6 DEF StoreCalls, OneIf
    <2>2. Len(z) = Len(s) /\ \A n \in 1 .. Len(s) : z[n] = s[n]
        BY <1>5, <2>1
    <2>3. \A n \in 1 .. Len(z) : z[n].fn \notin {"RecordWriteAddr", "RecordMemWrite"}
        BY <1>1, <2>2
    <2>4. Len(z) \in 1 .. Len(z)
        BY <1>1, <1>5, <2>2
    <2>5. StoreOrder(z)
        BY <2>3, <2>4 DEF StoreOrder
    <2>6. \A b \in Blocks : ~Owes(z, b, w) /\ b # i.write
        BY <1>6, <2>3, <2>4, CacheAssumption DEF Owes
    <2> QED
        BY <1>3, <2>5, <2>6
<1>7. CASE i.write # NoBlock
    <2>1. /\ Len(q) = 2
          /\ q[1].fn = "RecordWriteAddr" /\ q[1].addr = i.write
          /\ q[2].fn = "RecordMemWrite"
        <3>1. PICK x \in Callback : x = CallOf("RecordWriteAddr", i, i.write)
            BY <1>7, InstFields DEF CallOf, Callback
        <3>2. PICK y \in Callback : y = CallOf("RecordMemWrite", i, NoBlock)
            BY InstFields DEF CallOf, Callback
        <3>3. Len(q) = 2 /\ q[1] = x /\ q[2] = y
            <4>1. q = <<x>> \o <<y>>
                BY <1>2, <1>7, <3>1, <3>2 DEF StoreCalls, OneIf, Unpredicated
            <4>2. /\ <<x>> \in Seq(Callback) /\ Len(<<x>>) = 1 /\ <<x>>[1] = x
                  /\ <<y>> \in Seq(Callback) /\ Len(<<y>>) = 1 /\ <<y>>[1] = y
                OBVIOUS
            <4> QED
                BY <4>1, <4>2, ConcatProperties
        <3>4. x.fn = "RecordWriteAddr" /\ x.addr = i.write /\ y.fn = "RecordMemWrite"
            BY <3>1, <3>2 DEF CallOf
        <3> QED
            BY <3>3, <3>4
    <2>2. /\ Len(z) = Len(s) + 2 /\ Len(z) \in Nat
          /\ \A n \in 1 .. Len(s) : z[n] = s[n]
          /\ z[Len(z) - 1] = q[1] /\ z[Len(z)] = q[2]
        BY <1>5, <2>1
    <2>3. ASSUME NEW n \in 1 .. Len(z)
          PROVE  /\ z[n].fn = "RecordMemWrite" => n = Len(z)
                 /\ z[n].fn = "RecordWriteAddr" <=> n = Len(z) - 1
        <3>1. CASE n \in 1 .. Len(s)
            <4>1. z[n] = s[n]
                BY <2>2, <3>1
            <4>2. z[n].fn # "RecordWriteAddr" /\ z[n].fn # "RecordMemWrite"
                BY <1>1, <3>1, <4>1
            <4>3. n # Len(z) - 1
                BY <1>5, <2>2, <3>1
            <4> QED
                BY <4>2, <4>3
        <3>2. CASE n = Len(z) - 1
            BY <2>1, <2>2, <3>2
        <3>3. CASE n = Len(z)
            BY <2>1, <2>2, <3>3
        <3> QED
            BY <1>5, <2>2, <3>1, <3>2, <3>3
    <2>4. StoreOrder(z)
        BY <2>1, <2>2, <2>3 DEF StoreOrder
    <2>5. z # <<>> /\ Len(z) # 1
        BY <1>1, <1>5, <2>2
    <2>6. \A b \in Blocks : Owes(z, b, w) <=> b = i.write
        BY <2>1, <2>2, <2>5 DEF Owes
    <2> QED
        BY <1>3, <2>4, <2>6
<1> QED
    BY <1>6, <1>7

LEMMA TailOrdered ==
    ASSUME NEW s \in Seq(Callback), s # <<>>, StoreOrder(s)
    PROVE  StoreOrder(Tail(s))
<1>1. PICK z \in Seq(Callback) : z = Tail(s)
    BY HeadTailProperties
<1>2. /\ Len(s) \in Nat /\ Len(s) >= 1 /\ Len(z) = Len(s) - 1
      /\ \A n \in 1 .. Len(z) : z[n] = s[n + 1]
    BY <1>1, HeadTailProperties, LenProperties, EmptySeq
<1>3. ASSUME NEW n \in 1 .. Len(z)
      PROVE  /\ z[n].fn = "RecordMemWrite" => n = Len(z)
             /\ z[n].fn = "RecordWriteAddr"
                    <=> n = Len(z) - 1 /\ z[Len(z)].fn = "RecordMemWrite"
    <2>1. n + 1 \in 1 .. Len(s) /\ z[n] = s[n + 1] /\ z[Len(z)] = s[Len(s)]
        BY <1>2
    <2>2. n + 1 = Len(s) <=> n = Len(z)
        BY <1>2
    <2>3. n + 1 = Len(s) - 1 <=> n = Len(z) - 1
        BY <1>2
    <2> QED
        BY <2>1, <2>2, <2>3 DEF StoreOrder
<1> QED
    BY <1>1, <1>3 DEF StoreOrder

(* What is owed after the first call of s: as much as before, unless the   *)
(* call is the write itself.                                               *)
LEMMA OwedByTail ==
    ASSUME NEW s \in Seq(Callback), s # <<>>, StoreOrder(s),
           NEW w, NEW w1, w1 = IF s[1].fn = "RecordWriteAddr" THEN s[1].addr ELSE w,
           NEW b
    PROVE  /\ s[1].fn # "RecordMemWrite" => (Owes(Tail(s), b, w1) <=> Owes(s, b, w))
           /\ s[1].fn = "RecordMemWrite" => ~Owes(Tail(s), b, w1) /\ (Owes(s, b, w) <=> b = w)
<1>1. PICK z \in Seq(Callback) : z = Tail(s)
    BY HeadTailProperties
<1>2. /\ Len(s) \in Nat /\ Len(s) >= 1 /\ Len(z) = Len(s) - 1
      /\ \A n \in 1 .. Len(z) : z[n] = s[n + 1]
    BY <1>1, HeadTailProperties, LenProperties, EmptySeq
<1>3. z = <<>> <=> Len(z) = 0
    BY EmptySeq
<1>4. CASE Len(s) = 1
    <2>1. ~Owes(z, b, w1)
        BY <1>2, <1>3, <1>4 DEF Owes
    <2>2. Owes(s, b, w) <=> s[1].fn = "RecordMemWrite" /\ b = w
        BY <1>4 DEF Owes
    <2> QED
        BY <1>1, <2>1, <2>2
<1>5. CASE Len(s) = 2
    <2>1. s[1].fn # "RecordMemWrite"
        BY <1>2, <1>5 DEF StoreOrder
    <2>2. s[1].fn = "RecordWriteAddr" <=> s[2].fn = "RecordMemWrite"
        BY <1>2, <1>5 DEF StoreOrder
    <2>3. Owes(s, b, w) <=> s[2].fn = "RecordMemWrite" /\ b = s[1].addr
        BY <1>5 DEF Owes
    <2>4. Len(z) = 1 /\ z[1] = s[2]
        BY <1>2, <1>5
    <2>5. Owes(z, b, w1) <=> s[2].fn = "RecordMemWrite" /\ b = w1
        BY <1>3, <2>4 DEF Owes
    <2> QED
        BY <1>1, <2>1, <2>2, <2>3, <2>5
<1>6. CASE Len(s) > 2
    <2>1. s[1].fn # "RecordMemWrite"
        BY <1>2, <1>6 DEF StoreOrder
    <2>2. /\ Len(z) # 1 /\ Len(z) - 1 \in 1 .. Len(z)
          /\ z[Len(z)] = s[Len(s)] /\ z[Len(z) - 1] = s[Len(s) - 1]
        BY <1>2, <1>6
    <2>3. Owes(s, b, w) <=> s[Len(s)].fn = "RecordMemWrite" /\ b = s[Len(s) - 1].addr
        BY <1>6 DEF Owes
    <2>4. Owes(z, b, w1) <=> s[Len(s)].fn = "RecordMemWrite" /\ b = s[Len(s) - 1].addr
        BY <1>2, <1>3, <1>6, <2>2 DEF Owes
    <2> QED
        BY <1>1, <2>1, <2>3, <2>4
<1> QED
    BY <1>2, <1>4, <1>5, <1>6

LEMMA StoresCall ==
    ASSUME DInv, NEW t \in Threads, Threads = {t}, StoresInv(t), Call(t)
    PROVE  StoresInv(t)'
<1>1. PICK s \in Seq(Callback) : s = todo[t] /\ s # <<>> /\ todo'[t] = Tail(s)
    BY DEF DInv, CallsInv, Call
<1>2. s[1] = Head(s) /\ s[1] \in Callback
    BY <1>1, HeadTailProperties
<1>3. PICK c \in Callback : c = s[1]
    BY <1>2
<1>4. StoreOrder(s) /\ StoreOrder(Tail(s))
    BY <1>1, TailOrdered DEF StoresInv
<1>5. /\ stored' = stored
      /\ WriteAddr' = IF c.fn = "RecordWriteAddr" THEN c.addr ELSE WriteAddr
      /\ written' = IF c.fn = "RecordMemWrite"
                    THEN [written EXCEPT ![WriteAddr] = @ + 1] ELSE written
    BY <1>1, <1>2, <1>3 DEF Call, countFunc, RecordMemRead, RecordWriteAddr, RecordMemWrite
<1>6. WriteAddr \in Blocks /\ stored \in [Blocks -> Nat] /\ written \in [Blocks -> Nat]
    BY DEF DInv, CallsInv, StoresInv
<1>7. written' \in [Blocks -> Nat]
    BY <1>5, <1>6
<1>8. ASSUME NEW b \in Blocks
      PROVE  stored'[b] = written'[b] + IF Owes(todo'[t], b, WriteAddr') THEN 1 ELSE 0
    <2>1. stored[b] = written[b] + IF Owes(s, b, WriteAddr) THEN 1 ELSE 0
        BY <1>1 DEF StoresInv
    <2>2. /\ c.fn # "RecordMemWrite"
                 => (Owes(Tail(s), b, WriteAddr') <=> Owes(s, b, WriteAddr))
          /\ c.fn = "RecordMemWrite"
                 => ~Owes(Tail(s), b, WriteAddr') /\ (Owes(s, b, WriteAddr) <=> b = WriteAddr)
        BY <1>1, <1>3, <1>4, <1>5, OwedByTail
    <2>3. written[b] \in Nat
        BY <1>6
    <2>4. CASE c.fn = "RecordMemWrite"
        <3>1. written'[b] = IF b = WriteAddr THEN written[b] + 1 ELSE written[b]
            BY <1>5, <1>6, <2>4
        <3> QED
            BY <1>1, <1>5, <2>1, <2>2, <2>3, <2>4, <3>1
    <2>5. CASE c.fn # "RecordMemWrite"
        BY <1>1, <1>5, <2>1, <2>2, <2>5
    <2> QED
        BY <2>4, <2>5
<1>9. StoreOrder(todo'[t]) /\ stored' \in [Blocks -> Nat]
    BY <1>1, <1>4, <1>5, <1>6
<1> QED
    BY <1>7, <1>8, <1>9 DEF StoresInv

LEMMA StoresBegin ==
    ASSUME DInv, NEW t \in Threads, Threads = {t}, StoresInv(t),
           NEW i \in Inst, Unpredicated(i), Begin(t, i)
    PROVE  StoresInv(t)'
<1>1. /\ todo[t] = <<>> /\ todo'[t] = Inserted(i)
      /\ WriteAddr' = WriteAddr /\ written' = written
    BY DEF Begin, DInv, CallsInv
<1>2. stored \in [Blocks -> Nat] /\ written \in [Blocks -> Nat]
    BY DEF StoresInv
<1>3. i.write \in Blocks \cup {NoBlock}
    BY InstFields
<1>4. stored' = IF i.write # NoBlock THEN [stored EXCEPT ![i.write] = @ + 1] ELSE stored
    BY DEF Begin, Unpredicated
<1>5. stored' \in [Blocks -> Nat]
    BY <1>2, <1>3, <1>4
<1>6. /\ StoreOrder(Inserted(i))
      /\ \A b \in Blocks : Owes(Inserted(i), b, WriteAddr') <=> b = i.write
    BY StoresOfAnInst
<1>7. ASSUME NEW b \in Blocks
      PROVE  stored'[b] = written'[b] + IF Owes(todo'[t], b, WriteAddr') THEN 1 ELSE 0
    <2>1. stored[b] = written[b] /\ written[b] \in Nat
        <3>1. ~Owes(todo[t], b, WriteAddr)
            BY <1>1 DEF Owes
        <3> QED
            BY <1>2, <3>1 DEF StoresInv
    <2>2. stored'[b] = IF b = i.write THEN stored[b] + 1 ELSE stored[b]
        BY <1>2, <1>3, <1>4, CacheAssumption
    <2>3. Owes(todo'[t], b, WriteAddr') <=> b = i.write
        BY <1>1, <1>6
    <2> QED
        BY <1>1, <2>1, <2>2, <2>3
<1> QED
    BY <1>1, <1>2, <1>5, <1>6, <1>7 DEF StoresInv

(* With one thread and no predicated store the data cache sees the stores  *)
(* of the program as they are: RecordMemWrite comes right after the        *)
(* RecordWriteAddr of its own instruction.  Lines 148-149 promise it of    *)
(* every program; a predicated store (line 159) or a second thread         *)
(* (line 106) breaks it.                                                   *)
THEOREM UnpredicatedStoresRecorded ==
    ASSUME NEW t, Threads = {t}, 0 \in Blocks,
           Insts \subseteq Inst, \A i \in Insts : Unpredicated(i)
    PROVE  DSpec => []StoresRecorded
<1>1. DSpec => []DInv
    BY DInvariant
<1>2. DInit => StoresInv(t)
    <2>1. SUFFICES ASSUME DInit PROVE StoresInv(t)
        OBVIOUS
    <2>2. todo[t] = <<>> /\ stored = [b \in Blocks |-> 0] /\ written = [b \in Blocks |-> 0]
        BY <2>1 DEF DInit
    <2>3. StoreOrder(todo[t]) /\ \A b \in Blocks : ~Owes(todo[t], b, WriteAddr)
        BY <2>2, EmptySeq DEF StoreOrder, Owes
    <2> QED
        BY <2>2, <2>3 DEF StoresInv
<1>3. DInv /\ StoresInv(t) /\ [DNext]_dvars => StoresInv(t)'
    <2>1. SUFFICES ASSUME DInv, StoresInv(t), [DNext]_dvars PROVE StoresInv(t)'
        OBVIOUS
    <2>2. CASE Call(t)
        BY <2>1, <2>2, StoresCall
    <2>3. ASSUME NEW i \in Insts, Begin(t, i) PROVE StoresInv(t)'
        <3>1. i \in Inst /\ Unpredicated(i)
            OBVIOUS
        <3> QED
            BY <2>1, <2>3, <3>1, StoresBegin
    <2>4. CASE UNCHANGED dvars
        BY <2>1, <2>4 DEF dvars, StoresInv
    <2> QED
        BY <2>1, <2>2, <2>3, <2>4 DEF DNext
<1>4. StoresInv(t) => StoresRecorded
    <2>1. SUFFICES ASSUME StoresInv(t), todo[t] = <<>> PROVE written = stored
        BY DEF StoresRecorded
    <2>2. ASSUME NEW b \in Blocks PROVE written[b] = stored[b]
        <3>1. ~Owes(todo[t], b, WriteAddr)
            BY <2>1 DEF Owes
        <3>2. written[b] \in Nat
            BY <2>1 DEF StoresInv
        <3> QED
            BY <2>1, <3>1, <3>2 DEF StoresInv
    <2> QED
        BY <2>1, <2>2 DEF StoresInv
<1> QED
    BY <1>1, <1>2, <1>3, <1>4, PTL DEF DSpec

=============================================================================
