-------------------------------- MODULE CbpMain --------------------------------
(***************************************************************************)
(* The driver of the branch predictor, main of cbp/sim/main.cc: for every  *)
(* conditional branch of the trace it looks the branch up in a marking     *)
(* table, asks the predictor, trains it with the outcome and counts.  The  *)
(* loop body runs in two steps, around the two calls of the predictor.     *)
(***************************************************************************)
EXTENDS Tage

CONSTANTS
    NoPC,
    MaxRecords    \* records of the trace: the bound of a run

ASSUME CbpAssumption == NoPC \notin PCs /\ MaxRecords \in Nat

VARIABLES
    myBtb,        \* 0 only not taken so far, 1 only taken, 2 both
    branch,       \* the record at hand: pc, branchTaken, predDir, its class
    cond, mispred,            \* per class of the marking table
    numMispred, cond_branches, uncond_branches

dvars == <<tvars, myBtb, branch, cond, mispred, numMispred, cond_branches, uncond_branches>>

Classes == {"MISS", "ANSF", "ATSF", "DYN"}

Unseen == -1

NoBranch == [pc |-> NoPC, taken |-> FALSE, pred |-> FALSE, class |-> "MISS"]

DriverTypeOK ==
    /\ myBtb \in [PCs -> {Unseen, 0, 1, 2}]
    /\ branch \in [pc : PCs, taken : BOOLEAN, pred : BOOLEAN, class : Classes]
                   \cup {NoBranch}
    /\ cond \in [Classes -> Nat]
    /\ mispred \in [Classes -> Nat]
    /\ numMispred \in Nat
    /\ cond_branches \in Nat
    /\ uncond_branches \in Nat

(* Once a branch has been trained, the path history has LOG_TAGGED + 1     *)
(* bits, whatever was there at the start.                                  *)
PathTruncated ==
    cond_branches > 0 => \A k \in LogTagged + 1 .. IntBits - 1 : path_history[k] = 0

CbpTypeOK == TageTypeOK /\ DriverTypeOK /\ PathTruncated

CbpInit ==
    /\ TageInit
    /\ myBtb = [pc \in PCs |-> Unseen]
    /\ branch = NoBranch
    /\ cond = [k \in Classes |-> 0]
    /\ mispred = [k \in Classes |-> 0]
    /\ numMispred = 0
    /\ cond_branches = 0
    /\ uncond_branches = 0

MoreRecords == branch = NoBranch /\ cond_branches + uncond_branches < MaxRecords

ClassOf(mark) ==
    CASE mark = Unseen -> "MISS"
      [] mark = 0 -> "ANSF"
      [] mark = 1 -> "ATSF"
      [] mark = 2 -> "DYN"

(* A branch once missed is missed again. *)
NeverMarked(mark, taken) == mark

(* A miss marks the branch with its outcome. *)
MarkOnMiss(mark, taken) ==
    IF mark = Unseen THEN (IF taken THEN 1 ELSE 0) ELSE mark

(* Only the first change of direction of a branch that began taken. *)
UpgradeTakenOnly(class, mark, taken) ==
    IF class = "ATSF" /\ ~taken THEN 2 ELSE mark

Upgrade(class, mark, taken) ==
    IF \/ class = "ANSF" /\ taken
       \/ class = "ATSF" /\ ~taken
    THEN 2 ELSE mark

(* A conditional branch of the trace: marking table and prediction. *)
Predict(pc, taken) ==
    /\ MoreRecords
    /\ myBtb' = [myBtb EXCEPT ![pc] = MarkOnMiss(@, taken)]
    /\ \E dir \in BOOLEAN :
          /\ GetPrediction(pc, dir)
          /\ branch' = [pc |-> pc, taken |-> taken, pred |-> dir,
                        class |-> ClassOf(myBtb[pc])]
    /\ UNCHANGED <<cond, mispred, numMispred, cond_branches, uncond_branches>>

Missed(k) == IF branch.pred # branch.taken /\ branch.class = k THEN 1 ELSE 0

(* The same branch: training, the change of its mark, and the counters. *)
Resolve ==
    /\ branch # NoBranch
    /\ UpdatePredictor(branch.pc, branch.taken, branch.pred)
    /\ myBtb' = [myBtb EXCEPT ![branch.pc] = Upgrade(branch.class, @, branch.taken)]
    /\ mispred' = [k \in Classes |-> mispred[k] + Missed(k)]
    /\ numMispred' = IF branch.pred # branch.taken THEN numMispred + 1 ELSE numMispred
    /\ cond' = [cond EXCEPT ![branch.class] = @ + 1]
    /\ cond_branches' = cond_branches + 1
    /\ branch' = NoBranch
    /\ UNCHANGED uncond_branches

(* An unconditional branch: TrackOtherInst does nothing. *)
Unconditional ==
    /\ MoreRecords
    /\ uncond_branches' = uncond_branches + 1
    /\ UNCHANGED <<tvars, myBtb, branch, cond, mispred, numMispred, cond_branches>>

CbpNext ==
    \/ \E pc \in PCs, taken \in BOOLEAN : Predict(pc, taken)
    \/ Resolve
    \/ Unconditional

CbpSpec == CbpInit /\ [][CbpNext]_dvars

=============================================================================
