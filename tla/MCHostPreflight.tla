--------------------------- MODULE MCHostPreflight ---------------------------
(***************************************************************************)
(* Two VTXOs of two owners; spends that are plain or odd in one part;      *)
(* payout tables that fit the VTXO, fit it otherwise, or wrap around.      *)
(***************************************************************************)
EXTENDS HostPreflight

MCVtxo(id, amount, delta, owner) ==
  [id |-> id, point |-> id, amount |-> amount, delta |-> delta,
   owner |-> owner, anchor |-> "anchor of " \o id]

VtxoA == MCVtxo("A", 10, 2, "alice")
VtxoB == MCVtxo("B", 4, 3, "bob")

MCVtxos == {VtxoA, VtxoB}

MCPay(amount, script) == [amount |-> amount, script |-> script]

MCDemoExit == <<MCPay(9, "a")>>
MCDemoPayouts == <<MCPay(6, "a"), MCPay(4, "b")>>
OtherTable == <<MCPay(1, "a"), MCPay(3, "b")>>
WrappingTable == <<MCPay(15, "a"), MCPay(5, "b")>>

MCTables == {MCDemoPayouts, OtherTable}

MCSpends ==
  LET plain == OwnerSpend(VtxoA, MCDemoPayouts) IN
  {plain, OwnerSpend(VtxoB, OtherTable), OwnerSpend(VtxoA, WrappingTable)}
    \cup {[plain EXCEPT !.sequence.blocks = 4],
          [plain EXCEPT !.sequence.blocks = 1],
          [plain EXCEPT !.sequence.disabled = TRUE]}

MCRegtests == <<"regtest", "mainnet">>
=============================================================================
