---------------------------- MODULE MCBondDispute ----------------------------
(***************************************************************************)
(* Timing policies with no slack at all, with slack, one block short and   *)
(* overflowing; bond policies that fit, that overflow, and the boundary.   *)
(***************************************************************************)
EXTENDS BondDispute

MCTiming(challenge, window, rounds, margin, take, recovery) ==
  [challenge |-> challenge, window |-> window, rounds |-> rounds,
   margin |-> margin, take |-> take, recovery |-> recovery]

MCPolicies ==
  {MCTiming(1, 1, 2, 1, 4, 5), MCTiming(2, 2, 1, 1, 5, 7),
   MCTiming(1, 1, 2, 1, 3, 5), MCTiming(0, 1, 1, 0, 1, 2),
   MCTiming(3, 3, 2, 2, 7, 8), MCTiming(1, 1, 1, 1, 4, 4)}

MCBond(value, reward, vbytes, feeRate) ==
  [value |-> value, reward |-> reward, vbytes |-> vbytes, feeRate |-> feeRate]

MCBondPolicies == {MCBond(3, 2, 2, 5), MCBond(4, 2, 2, 5), MCBond(3, 2, 4, 4)}
=============================================================================
