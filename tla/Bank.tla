-------------------------------- MODULE Bank --------------------------------
(***************************************************************************)
(* The bank keeper of the Cosmos SDK as the modules of this chain use it:  *)
(* balances by account and denomination, and a supply by denomination that *)
(* only minting and burning change.  A ledger is a value, so that a        *)
(* handler that makes several bank calls is a composition of operators; a  *)
(* transaction that fails half way keeps the ledger it started from.       *)
(***************************************************************************)
EXTENDS Integers

CONSTANTS Account, Denom

(* That a supply covers the balances is a fact about handlers, not a type.  *)
Ledger == [bal: [Account -> [Denom -> Nat]], supply: [Denom -> Int]]

CanSpend(L, a, d, x) == L.bal[a][d] >= x

(* SendCoins.  A send to oneself leaves the balance as it is.               *)
SendCoins(L, from, to, d, x) ==
  LET debited == [L.bal EXCEPT ![from][d] = @ - x]
  IN  [L EXCEPT !.bal = [debited EXCEPT ![to][d] = @ + x]]

(* MintCoins into a module account and SendCoinsFromModuleToAccount.        *)
MintTo(L, a, d, x) ==
  [bal |-> [L.bal EXCEPT ![a][d] = @ + x], supply |-> [L.supply EXCEPT ![d] = @ + x]]

(* SendCoinsFromAccountToModule and BurnCoins out of the module account.    *)
BurnFrom(L, a, d, x) ==
  [bal |-> [L.bal EXCEPT ![a][d] = @ - x], supply |-> [L.supply EXCEPT ![d] = @ - x]]
=============================================================================
