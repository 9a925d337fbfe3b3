------------------------------ MODULE CbpHistory ------------------------------
(***************************************************************************)
(* CbpMain with history variables, for what the marks, the usefulness      *)
(* counts and the folded histories ought to mean.                          *)
(***************************************************************************)
EXTENDS CbpMain

VARIABLES
    outcomes,   \* the directions each branch has taken
    earned      \* how often an entry was right where the alternative was not

bhvars == <<dvars, outcomes, earned>>

BHInit ==
    /\ CbpInit
    /\ outcomes = [pc \in PCs |-> {}]
    /\ earned = [b \in Banks |-> [x \in Indices |-> 0]]

Replaced(b) ==
    /\ b < provider_idx
    /\ Allocates(branch.taken, branch.pred)
    /\ b = FirstBank(Replaceable)

(* The provider overruled the alternative and was right. *)
Overruled(b) ==
    b = provider_idx /\ alternative_pred # branch.pred /\ branch.pred = branch.taken

BHNext ==
    /\ CbpNext
    /\ outcomes' = IF branch = NoBranch /\ branch' # NoBranch
                   THEN [outcomes EXCEPT ![branch'.pc] = @ \cup {branch'.taken}]
                   ELSE outcomes
    /\ earned' = IF branch = NoBranch THEN earned
                 ELSE [b \in Banks |-> [earned[b] EXCEPT ![t_indices[b]] =
                          IF Replaced(b) THEN 0
                          ELSE IF Overruled(b) THEN @ + 1 ELSE @]]

BHSpec == BHInit /\ [][BHNext]_bhvars

Resolving == branch # NoBranch /\ branch' = NoBranch

-----------------------------------------------------------------------------
(* folded_history::update (predictor.h:65-71) keeps each register equal to *)
(* the history of its length folded by exclusive or, however many branches *)
(* have passed: no bit stays in after it left the history.                 *)
FoldOf(n, c) ==
    [j \in 0 .. c - 1 |->
        Cardinality({k \in 0 .. n - 1 : k % c = j /\ global_history[k] = 1}) % 2]

FoldsExact ==
    \A b \in Banks :
        /\ hist_i[b] = FoldOf(HistLen[b], LogTagged)
        /\ hist_t0[b] = FoldOf(HistLen[b], TagBits)
        /\ hist_t1[b] = FoldOf(HistLen[b], TagBits - 1)

(* An entry is called useful only as often as it was right against the     *)
(* alternative since it was allocated, and never less than not at all: the *)
(* unguarded decrement of alloc_tagged_entry (predictor.h:201) does not    *)
(* bring a count below zero.                                               *)
UsefulnessEarned ==
    \A b \in Banks, x \in Indices :
        tagged_table[b][x].ubit \in 0 .. earned[b][x]

(* Allocation takes over one entry at most, of a longer history than the   *)
(* provider's, after a misprediction, and never one that is still useful.  *)
UsefulKept ==
    [][\A b, c \in Banks :
          LET old == tagged_table[b][t_indices[b]]
              new == tagged_table'[b][t_indices[b]]
          IN  Resolving /\ b # provider_idx /\ <<old.tag, old.pred>> # <<new.tag, new.pred>>
              => /\ old.ubit = 0
                 /\ b < provider_idx
                 /\ branch.pred # branch.taken
                 /\ c < b => tagged_table[c][t_indices[c]].ubit > 0
      ]_bhvars

(* A misprediction is never without consequence: replayed with the same    *)
(* history, the branch is provided by an entry that says what it did; or   *)
(* the provider is the longest bank, or new and right but overruled; or    *)
(* all longer entries have aged.                                           *)
MistakesTeach ==
    [][Resolving /\ branch.pred # branch.taken =>
          LET p == FirstBank(Matching(tagged_table', branch.pc))
          IN  \/ /\ p < provider_idx
                 /\ (tagged_table'[p][t_indices[p]].pred >= 0) = branch.taken
              \/ /\ p = provider_idx
                 /\ \/ provider_idx = 0
                    \/ RecentProvider /\ ProviderPred = branch.taken
                    \/ \A b \in 0 .. provider_idx - 1 :
                          tagged_table'[b][t_indices[b]].ubit
                              = tagged_table[b][t_indices[b]].ubit - 1
      ]_bhvars

MarkOf(seen) ==
    CASE seen = {} -> Unseen
      [] seen = {FALSE} -> 0
      [] seen = {TRUE} -> 1
      [] seen = BOOLEAN -> 2

(* The marking table knows what each branch has done (main.cc:210-229):    *)
(* between two records its mark is 2 exactly if it went both ways.         *)
MarksExact ==
    branch = NoBranch => \A pc \in PCs : myBtb[pc] = MarkOf(outcomes[pc])

Total(f) == f["MISS"] + f["ANSF"] + f["ATSF"] + f["DYN"]

(* The statistics printed at the end agree with each other: the classes    *)
(* add up, no class has more mispredictions than branches, and each branch *)
(* of the program is a miss of the marking table once.                     *)
StatsAgree ==
    /\ numMispred = Total(mispred)
    /\ cond_branches = Total(cond)
    /\ \A k \in Classes : mispred[k] <= cond[k]
    /\ branch = NoBranch =>
          cond["MISS"] = Cardinality({pc \in PCs : outcomes[pc] # {}})

-----------------------------------------------------------------------------
(* What a comment says and the predictor does not do.                      *)

(* predictor.h:112, "bits to determine if new entries should be considered *)
(* as valid or not for prediction": an entry that is not new makes the     *)
(* prediction, whatever the bias.                                          *)
EstablishedProviderUsed ==
    branch # NoBranch /\ Provided /\ ~Recent(Provider) => branch.pred = ProviderPred

=============================================================================
