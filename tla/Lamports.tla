------------------------------- MODULE Lamports -------------------------------
(***************************************************************************)
(* The lamports of all accounts together.                                  *)
(***************************************************************************)
EXTENDS ChessProgram, FiniteSets, Functions

\* Lamports are neither created nor lost: wallets, vaults and the rent locked in
\* open accounts always add up to what the wallets held at the start.
LamportsConserved ==
  SumFunctionOnSet(wallet, Wallets) + SumFunctionOnSet(vault, GameIds)
  + Cardinality({g \in GameIds : Exists(g)}) * (GameRent + StreamRent)
  = SumFunctionOnSet(Funds, Wallets)

=============================================================================
