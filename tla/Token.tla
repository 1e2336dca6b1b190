------------------------------- MODULE Token --------------------------------
(***************************************************************************)
(* The Stellar token contracts the exit layer moves money with: USDC and   *)
(* the participation tokens.  Their code is not in this repository; what   *)
(* is modelled is what the callers rely on.  A transfer moves a            *)
(* non-negative amount the sender holds, and a transfer that fails makes   *)
(* the calling contract revert, which is a disabled action here.           *)
(*                                                                         *)
(* CanTransfer and Transfer take the balances as a value, so that one      *)
(* contract call can chain several transfers.                              *)
(***************************************************************************)
EXTENDS Addresses, Totals

CONSTANTS
    Tokens,         \* every token contract, the assets included
    Usdc,           \* the settlement asset
    Holders,        \* every address that can hold a token, contracts included
    InitialBalance  \* what each address holds before the first call

ASSUME TokenAssumption ==
    /\ Usdc \in Tokens /\ Assets \subseteq Tokens
    /\ InitialBalance \in [Tokens -> [Holders -> Nat]]

VARIABLE balance    \* balance[token][holder]

CanTransfer(b, token, from, amount) ==
    /\ amount >= 0
    /\ b[token][from] >= amount

\* The credit sees the debit, so a transfer to oneself changes nothing.
Transfer(b, token, from, to, amount) ==
    LET debited == [b[token] EXCEPT ![from] = @ - amount]
    IN  [b EXCEPT ![token] = [debited EXCEPT ![to] = @ + amount]]

TokenInit == balance = InitialBalance

TokenTypeOK == balance \in [Tokens -> [Holders -> Nat]]
=============================================================================
