-------------------------------- MODULE MCCbp --------------------------------
(***************************************************************************)
(* A small predictor for CbpHistory: two banks of two entries, two-bit     *)
(* tags, and hashes that add what they are given, as the ^ of the code     *)
(* does, so that entries of different branches meet.                       *)
(***************************************************************************)
EXTENDS CbpHistory

MCPCs == 0..1
MCSatLow == -2
MCHistLen == [b \in Banks |-> IF b = 0 THEN 3 ELSE 1]
MCPathBit == [pc \in PCs |-> pc]
MCBaseIndex == [pc \in PCs |-> 0]

Value(v) == v[0] + (IF 1 \in DOMAIN v THEN 2 * v[1] ELSE 0)

MCIndexOf(pc, b, f, p) == (pc + Value(f) + Value(p)) % 2
MCTagOf(pc, b, f, g) == (pc + Value(f) + 2 * Value(g)) % 4

=============================================================================
