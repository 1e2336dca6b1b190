-------------------------- MODULE SettlementRouter --------------------------
(***************************************************************************)
(* The settlement_router contract on top of the vault it pays from: the    *)
(* escrow of participation tokens, one per exit, and the settlement that   *)
(* exchanges them for a node's committed USDC net of the protocol fee.     *)
(*                                                                         *)
(* A call constrains what it writes (escrows, balance, nodes); the callers *)
(* say what else stays unchanged.  RouterSpec leaves the wired auction     *)
(* free to make any call, partial settlements included.                    *)
(***************************************************************************)
EXTENDS LpVault

CONSTANTS
    Sellers,
    Treasuries,             \* where the admin may send the protocol fee
    RouterAddr,
    MAX_PROTOCOL_FEE_BPS,
    SaleAmounts, Fees       \* inputs enumerated

ASSUME RouterAssumption ==
    /\ Sellers \cup Treasuries \subseteq Payees
    /\ RouterAddr \in Holders \ (Nodes \cup Sellers \cup {VaultAddr})
    /\ VaultAddr \notin Sellers
    /\ MAX_PROTOCOL_FEE_BPS \in 0 .. (BPS_DENOMINATOR - 1)
    /\ NoAddr \notin Sellers \cup Treasuries \cup Assets
    /\ SaleAmounts \subseteq Int /\ Fees \subseteq Nat

VARIABLES
    routerConfig,   \* DataKey::Config
    escrows         \* DataKey::Escrow(exit_id)

routerStorage == <<routerConfig, escrows>>
routerVars == <<vaultVars, routerStorage>>

RouterConfigs ==
    [stored : BOOLEAN, admin : Admins \cup {NoAddr}, treasury : Treasuries \cup {NoAddr},
     auction : Auctions \cup {NoAddr}, protocol_fee_bps : 0 .. MAX_PROTOCOL_FEE_BPS]
EscrowStates ==
    [stored : BOOLEAN, seller : Sellers \cup {NoAddr},
     asset : Assets \cup {NoAddr}, amount : Nat]

NoRouterConfig ==
    [stored |-> FALSE, admin |-> NoAddr, treasury |-> NoAddr,
     auction |-> NoAddr, protocol_fee_bps |-> 0]
NoEscrow == [stored |-> FALSE, seller |-> NoAddr, asset |-> NoAddr, amount |-> 0]

\* Types of the router's storage: the fee that initialize and set_protocol_fee_bps
\* accept never exceeds its ceiling, and settle leaves no negative escrow.
RouterTypeOK ==
    /\ VaultTypeOK
    /\ routerConfig \in RouterConfigs
    /\ escrows \in [ExitIds -> EscrowStates]

-----------------------------------------------------------------------------
(* Wiring.  The vault and USDC addresses are the deployed ones.            *)

router_initialize(admin, treasury, fee) ==
    /\ ~routerConfig.stored
    /\ fee <= MAX_PROTOCOL_FEE_BPS
    /\ routerConfig' = [stored |-> TRUE, admin |-> admin, treasury |-> treasury,
                        auction |-> NoAddr, protocol_fee_bps |-> fee]
    /\ UNCHANGED <<vaultVars, escrows>>

RouterAdminSigns(signer) == routerConfig.stored /\ routerConfig.admin = signer

router_set_auction(signer, auction) ==
    /\ RouterAdminSigns(signer)
    /\ routerConfig' = [routerConfig EXCEPT !.auction = auction]
    /\ UNCHANGED <<vaultVars, escrows>>

router_set_admin(signer, new_admin) ==
    /\ RouterAdminSigns(signer)
    /\ routerConfig' = [routerConfig EXCEPT !.admin = new_admin]
    /\ UNCHANGED <<vaultVars, escrows>>

set_treasury(signer, treasury) ==
    /\ RouterAdminSigns(signer)
    /\ routerConfig' = [routerConfig EXCEPT !.treasury = treasury]
    /\ UNCHANGED <<vaultVars, escrows>>

set_protocol_fee_bps(signer, bps) ==
    /\ RouterAdminSigns(signer)
    /\ bps <= MAX_PROTOCOL_FEE_BPS
    /\ routerConfig' = [routerConfig EXCEPT !.protocol_fee_bps = bps]
    /\ UNCHANGED <<vaultVars, escrows>>

-----------------------------------------------------------------------------
(* The exit.                                                               *)

RouterFromAuction(caller) == routerConfig.stored /\ routerConfig.auction = caller

\* Mutant: an escrow that is already there is overwritten.
EscrowOverwrites(caller, id, seller, a, amount) ==
    /\ RouterFromAuction(caller)
    /\ amount > 0
    /\ CanTransfer(balance, a, seller, amount)
    /\ balance' = Transfer(balance, a, seller, RouterAddr, amount)
    /\ escrows' = [escrows EXCEPT ![id] =
         [stored |-> TRUE, seller |-> seller, asset |-> a, amount |-> amount]]

\* The seller signs too, which the auction's own require_auth has established.
escrow(caller, id, seller, a, amount) ==
    /\ RouterFromAuction(caller)
    /\ amount > 0
    /\ ~escrows[id].stored
    /\ CanTransfer(balance, a, seller, amount)
    /\ balance' = Transfer(balance, a, seller, RouterAddr, amount)
    /\ escrows' = [escrows EXCEPT ![id] =
         [stored |-> TRUE, seller |-> seller, asset |-> a, amount |-> amount]]

\* Mutant: the fee is rounded up.
FeeRoundedUp(usdc_amount) ==
    (usdc_amount * routerConfig.protocol_fee_bps + BPS_DENOMINATOR - 1) \div BPS_DENOMINATOR

protocol_fee(usdc_amount) ==
    (usdc_amount * routerConfig.protocol_fee_bps) \div BPS_DENOMINATOR

\* What a sale leaves in escrow; the record goes with the last token.
AfterSale(esc, token_amount) ==
    IF esc.amount = token_amount THEN NoEscrow
    ELSE [esc EXCEPT !.amount = @ - token_amount]

\* Both payouts and the transfer of the tokens, each against the state the one
\* before it left.
settle(caller, id, n, token_amount, usdc_amount) ==
    LET esc == escrows[id]
        fee == protocol_fee(usdc_amount)
        net == usdc_amount - fee
        paid == PayFromCommitted(nodes, n, net)
        sellerPaid == Transfer(balance, Usdc, VaultAddr, esc.seller, net)
        cashMoved == IF fee > 0
                     THEN Transfer(sellerPaid, Usdc, VaultAddr, routerConfig.treasury, fee)
                     ELSE sellerPaid
    IN  /\ RouterFromAuction(caller)
        /\ token_amount > 0 /\ usdc_amount > 0
        /\ esc.stored
        /\ token_amount <= esc.amount
        /\ FromRouter(RouterAddr)
        /\ PayOutAllowed(nodes, n, esc.asset, net)
        /\ CanTransfer(balance, Usdc, VaultAddr, net)
        /\ fee > 0 => /\ PayOutAllowed(paid, n, esc.asset, fee)
                      /\ CanTransfer(sellerPaid, Usdc, VaultAddr, fee)
        /\ CanTransfer(cashMoved, esc.asset, RouterAddr, token_amount)
        /\ nodes' = IF fee > 0 THEN PayFromCommitted(paid, n, fee) ELSE paid
        /\ balance' = Transfer(cashMoved, esc.asset, RouterAddr, n, token_amount)
        /\ escrows' = [escrows EXCEPT ![id] = AfterSale(@, token_amount)]

\* Mutant: the record of the escrow survives the refund.
RefundKeepsEscrow(caller, id) ==
    LET esc == escrows[id] IN
    /\ RouterFromAuction(caller)
    /\ esc.stored
    /\ CanTransfer(balance, esc.asset, RouterAddr, esc.amount)
    /\ balance' = Transfer(balance, esc.asset, RouterAddr, esc.seller, esc.amount)
    /\ UNCHANGED escrows

refund(caller, id) ==
    LET esc == escrows[id] IN
    /\ RouterFromAuction(caller)
    /\ esc.stored
    /\ CanTransfer(balance, esc.asset, RouterAddr, esc.amount)
    /\ escrows' = [escrows EXCEPT ![id] = NoEscrow]
    /\ balance' = Transfer(balance, esc.asset, RouterAddr, esc.seller, esc.amount)

quote_net(usdc_amount) ==
    usdc_amount - (usdc_amount * routerConfig.protocol_fee_bps) \div BPS_DENOMINATOR

-----------------------------------------------------------------------------
(* The router and the vault, with an auction that may do anything.         *)

RouterInit ==
    /\ VaultInit
    /\ routerConfig = NoRouterConfig
    /\ escrows = [id \in ExitIds |-> NoEscrow]

RouterAdminCalls ==
    \/ \E admin \in Admins, t \in Treasuries, f \in Fees : router_initialize(admin, t, f)
    \/ \E s \in Admins : \/ \E x \in Auctions : router_set_auction(s, x)
                         \/ \E x \in Admins : router_set_admin(s, x)
                         \/ \E x \in Treasuries : set_treasury(s, x)
                         \/ \E f \in Fees : set_protocol_fee_bps(s, f)

ExitCalls ==
    \E x \in Auctions, id \in ExitIds :
        \/ /\ \E s \in Sellers, a \in Assets, amt \in SaleAmounts : escrow(x, id, s, a, amt)
           /\ UNCHANGED <<vaultStorage, now, routerConfig>>
        \/ /\ \E n \in Nodes, amt \in SaleAmounts, u \in BidAmounts : settle(x, id, n, amt, u)
           /\ UNCHANGED <<vaultConfig, appetites, withdrawals, now, routerConfig>>
        \/ /\ refund(x, id)
           /\ UNCHANGED <<vaultStorage, now, routerConfig>>

RouterNext ==
    \/ /\ Tick \/ VaultAdminCalls \/ NodeCalls \/ AuctionCalls
       /\ UNCHANGED routerStorage
    \/ RouterAdminCalls
    \/ ExitCalls

RouterSpec == RouterInit /\ [][RouterNext]_routerVars

-----------------------------------------------------------------------------
(* Properties.                                                             *)

\* What is held in escrow for the exits of one asset.
EscrowedFor(a) ==
    Total([id \in ExitIds |-> IF escrows[id].asset = a THEN escrows[id].amount ELSE 0])

\* The router holds the tokens of every escrow it has recorded, so a refund or a
\* settlement of one exit never spends the tokens of another of the same asset.
EscrowBacked == \A a \in Assets : balance[a][RouterAddr] >= EscrowedFor(a)

\* Who trades with whom: no asset is the settlement asset itself, and the protocol fee
\* goes neither to the vault nor to a seller.  The contracts check none of it.
PartiesDistinct == Usdc \notin Assets /\ Treasuries \cap (Sellers \cup {VaultAddr}) = {}

\* What one address gains in a step.
Gain(token, h) == balance'[token][h] - balance[token][h]

\* Escrowed tokens leave in one of two ways.  Either all of them go back to the
\* seller and no USDC moves, or a node gets exactly what the escrow loses in the
\* same step in which its committed USDC pays for it: the seller gains what
\* quote_net says of the gross and the treasury the rest, at most
\* MAX_PROTOCOL_FEE_BPS of it.
DeliveryAgainstPayment ==
    [][\A id \in ExitIds :
          LET esc == escrows[id]
              sold == esc.amount - escrows'[id].amount
          IN  (esc.stored /\ escrows'[id] # esc) =>
                \/ /\ ~escrows'[id].stored
                   /\ Gain(esc.asset, esc.seller) = esc.amount
                   /\ UNCHANGED nodes
                   /\ Gain(Usdc, VaultAddr) = 0
                \/ \E n \in Nodes :
                     LET gross == nodes'[n].filled - nodes[n].filled
                         fee == Gain(Usdc, routerConfig.treasury)
                     IN  /\ gross > 0 /\ Gain(esc.asset, n) = sold
                         /\ Gain(Usdc, esc.seller) = quote_net(gross)
                         /\ fee = gross - quote_net(gross)
                         /\ fee * BPS_DENOMINATOR <= gross * MAX_PROTOCOL_FEE_BPS
                         /\ nodes[n].deposited - nodes'[n].deposited = gross
                         /\ nodes[n].committed - nodes'[n].committed = gross
      ]_routerVars
=============================================================================
