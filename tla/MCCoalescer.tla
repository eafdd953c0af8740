------------------------------ MODULE MCCoalescer ------------------------------
(* Coalescer on eight addresses: requests that touch, overlap, leave a gap,   *)
(* lie in another area, end at the last address, or are too large to batch.   *)
EXTENDS Coalescer, TLC

CONSTANTS r1, r2, r3

AllRequests == {r1, r2, r3}
None        == {}
OneRequest  == {r1}
Symmetry    == Permutations(Requests \ Deadlined)
DM == 130
WR == 177
TwoAreas == {DM, WR}
At(area, address, count) ==
  [area |-> area, address |-> address, count |-> count]
SomeReads ==
  {At(DM, 3, 2), At(DM, 4, 2), At(WR, 4, 2), At(DM, 6, 2), At(DM, 0, 4)}
================================================================================
