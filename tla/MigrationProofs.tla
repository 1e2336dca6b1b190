-------------------------- MODULE MigrationProofs ---------------------------
(***************************************************************************)
(* Proofs about the replacement of the auction: in whatever order the      *)
(* admin points the three contracts at one auction or the other, and       *)
(* whatever happens in between, they agree with the two auctions together. *)
(*                                                                         *)
(* ExitAuctionProofs shows what a call of one auction keeps while another  *)
(* one shares the vault, the router and the queue with it.  Its lemmas are *)
(* instantiated here twice.  OldP!cancel is Old!cancel under another name; *)
(* the lemmas called Same... say so.                                       *)
(***************************************************************************)
EXTENDS Migration, TLAPS

OldP == INSTANCE ExitAuctionProofs WITH
    AuctionAddr <- OldAuction,
    auctionConfig <- oldConfig, next_id <- oldNext, exits <- oldExits

NewP == INSTANCE ExitAuctionProofs WITH
    AuctionAddr <- NewAuction,
    auctionConfig <- newConfig, next_id <- newNext, exits <- newExits

\* The inductive invariant: what the old auction keeps beside the exits of the new one,
\* and the types and slots of the new one.
MigrationInv ==
    /\ OldP!SharedInv(newExits)
    /\ NewP!AuctionTypeOK
    /\ NewP!AuctionSlots

-----------------------------------------------------------------------------
(* One definition under several names.                                     *)

\* The assumptions of the instances are those of the migration.
LEMMA InstanceAssumptions ==
  /\ OldP!AddressAssumption /\ OldP!TokenAssumption /\ OldP!VaultAssumption
  /\ OldP!RouterAssumption /\ OldP!QueueAssumption /\ OldP!AuctionAssumption
  /\ NewP!AddressAssumption /\ NewP!TokenAssumption /\ NewP!VaultAssumption
  /\ NewP!RouterAssumption /\ NewP!QueueAssumption /\ NewP!AuctionAssumption
BY AddressAssumption, TokenAssumption, VaultAssumption, RouterAssumption, QueueAssumption,
   MigrationAssumption
   DEF IsFiniteSet, OldP!IsFiniteSet, NewP!IsFiniteSet

\* The calls of the old auction.
LEMMA SameOldCalls ==
  /\ Old!WiredInit <=> OldP!WiredInit
  /\ Old!SellerCalls <=> OldP!SellerCalls
  /\ \A n, id, amt : Old!place_bid(n, id, amt) <=> OldP!place_bid(n, id, amt)
  /\ \A id : Old!close(id) <=> OldP!close(id)
<1>1. Old!WiredInit <=> OldP!WiredInit
  BY DEF Old!WiredInit, OldP!WiredInit, Old!TokenInit, OldP!TokenInit, Old!EmptyVault,
       OldP!EmptyVault, Old!ExitIds, OldP!ExitIds, Old!NoEscrow, OldP!NoEscrow,
       Old!NothingOpened, OldP!NothingOpened, Old!NoNode, OldP!NoNode, Old!NoAppetite,
       OldP!NoAppetite, Old!NoWithdrawal, OldP!NoWithdrawal, Old!NoExit, OldP!NoExit
<1>2. Old!SellerCalls <=> OldP!SellerCalls
  BY DEF Old!SellerCalls, OldP!SellerCalls, Old!open_exit, OldP!open_exit, Old!ExitIds, OldP!ExitIds,
       Old!accept_bid, OldP!accept_bid, Old!cancel, OldP!cancel, Old!escrow, OldP!escrow,
       Old!vaultStorage, OldP!vaultStorage, Old!queueVars, OldP!queueVars, Old!Live,
       OldP!Live, Old!fill, OldP!fill, Old!release_best, OldP!release_best, Old!LeaveLine,
       OldP!LeaveLine, Old!refund, OldP!refund, Old!RouterFromAuction,
       OldP!RouterFromAuction, Old!CanTransfer, OldP!CanTransfer, Old!Transfer,
       OldP!Transfer, Old!AtHead, OldP!AtHead, Old!settle, OldP!settle, Old!FromAuction,
       OldP!FromAuction, Old!ReleaseAllowed, OldP!ReleaseAllowed, Old!LockCapital,
       OldP!LockCapital, Old!AddExposure, OldP!AddExposure, Old!dequeue, OldP!dequeue,
       Old!NoEscrow, OldP!NoEscrow, Old!protocol_fee, OldP!protocol_fee,
       Old!PayFromCommitted, OldP!PayFromCommitted, Old!FromRouter, OldP!FromRouter,
       Old!PayOutAllowed, OldP!PayOutAllowed, Old!AfterSale, OldP!AfterSale,
       Old!QueueFromAuction, OldP!QueueFromAuction, Old!InLine, OldP!InLine,
       Old!WithoutIndex, OldP!WithoutIndex, Old!position_of, OldP!position_of
<1>3. ASSUME NEW n, NEW id, NEW amt
      PROVE  Old!place_bid(n, id, amt) <=> OldP!place_bid(n, id, amt)
  BY DEF Old!place_bid, OldP!place_bid, Old!LockCapital, OldP!LockCapital, Old!AddExposure,
       OldP!AddExposure, Old!Live, OldP!Live, Old!Beats, OldP!Beats, Old!DiscountFits,
       OldP!DiscountFits, Old!FromAuction, OldP!FromAuction, Old!CommitAllowed,
       OldP!CommitAllowed, Old!discount_bps, OldP!discount_bps, Old!release_best,
       OldP!release_best, Old!routerStorage, OldP!routerStorage, Old!queueVars,
       OldP!queueVars, Old!TermsAllow, OldP!TermsAllow, Old!Free, OldP!Free,
       Old!single_fill_cap, OldP!single_fill_cap, Old!ReleaseAllowed, OldP!ReleaseAllowed,
       Old!reserved, OldP!reserved
<1>4. ASSUME NEW id PROVE Old!close(id) <=> OldP!close(id)
  BY DEF Old!close, OldP!close, Old!acceptable, OldP!acceptable, Old!AtHead, OldP!AtHead, Old!fill,
       OldP!fill, Old!enqueue, OldP!enqueue, Old!routerVars, OldP!routerVars, Old!settle,
       OldP!settle, Old!LeaveLine, OldP!LeaveLine, Old!QueueFromAuction,
       OldP!QueueFromAuction, Old!InLine, OldP!InLine, Old!vaultVars, OldP!vaultVars,
       Old!routerStorage, OldP!routerStorage, Old!protocol_fee, OldP!protocol_fee,
       Old!PayFromCommitted, OldP!PayFromCommitted, Old!Transfer, OldP!Transfer,
       Old!RouterFromAuction, OldP!RouterFromAuction, Old!FromRouter, OldP!FromRouter,
       Old!PayOutAllowed, OldP!PayOutAllowed, Old!CanTransfer, OldP!CanTransfer,
       Old!AfterSale, OldP!AfterSale, Old!dequeue, OldP!dequeue, Old!vaultStorage,
       OldP!vaultStorage, Old!NoEscrow, OldP!NoEscrow, Old!WithoutIndex, OldP!WithoutIndex,
       Old!position_of, OldP!position_of
<1> QED BY <1>1, <1>2, <1>3, <1>4

\* The calls of the new auction.
LEMMA SameNewCalls ==
  /\ New!NothingOpened <=> NewP!NothingOpened
  /\ New!SellerCalls <=> NewP!SellerCalls
  /\ \A n, id, amt : New!place_bid(n, id, amt) <=> NewP!place_bid(n, id, amt)
  /\ \A id : New!close(id) <=> NewP!close(id)
<1>1. New!NothingOpened <=> NewP!NothingOpened
  BY DEF New!NothingOpened, NewP!NothingOpened, New!ExitIds, NewP!ExitIds, New!NoExit, NewP!NoExit
<1>2. New!SellerCalls <=> NewP!SellerCalls
  BY DEF New!SellerCalls, NewP!SellerCalls, New!open_exit, NewP!open_exit, New!ExitIds, NewP!ExitIds,
       New!accept_bid, NewP!accept_bid, New!cancel, NewP!cancel, New!escrow, NewP!escrow,
       New!vaultStorage, NewP!vaultStorage, New!queueVars, NewP!queueVars, New!Live,
       NewP!Live, New!fill, NewP!fill, New!release_best, NewP!release_best, New!LeaveLine,
       NewP!LeaveLine, New!refund, NewP!refund, New!RouterFromAuction,
       NewP!RouterFromAuction, New!CanTransfer, NewP!CanTransfer, New!Transfer,
       NewP!Transfer, New!AtHead, NewP!AtHead, New!settle, NewP!settle, New!FromAuction,
       NewP!FromAuction, New!ReleaseAllowed, NewP!ReleaseAllowed, New!LockCapital,
       NewP!LockCapital, New!AddExposure, NewP!AddExposure, New!dequeue, NewP!dequeue,
       New!NoEscrow, NewP!NoEscrow, New!protocol_fee, NewP!protocol_fee,
       New!PayFromCommitted, NewP!PayFromCommitted, New!FromRouter, NewP!FromRouter,
       New!PayOutAllowed, NewP!PayOutAllowed, New!AfterSale, NewP!AfterSale,
       New!QueueFromAuction, NewP!QueueFromAuction, New!InLine, NewP!InLine,
       New!WithoutIndex, NewP!WithoutIndex, New!position_of, NewP!position_of
<1>3. ASSUME NEW n, NEW id, NEW amt
      PROVE  New!place_bid(n, id, amt) <=> NewP!place_bid(n, id, amt)
  BY DEF New!place_bid, NewP!place_bid, New!LockCapital, NewP!LockCapital, New!AddExposure,
       NewP!AddExposure, New!Live, NewP!Live, New!Beats, NewP!Beats, New!DiscountFits,
       NewP!DiscountFits, New!FromAuction, NewP!FromAuction, New!CommitAllowed,
       NewP!CommitAllowed, New!discount_bps, NewP!discount_bps, New!release_best,
       NewP!release_best, New!routerStorage, NewP!routerStorage, New!queueVars,
       NewP!queueVars, New!TermsAllow, NewP!TermsAllow, New!Free, NewP!Free,
       New!single_fill_cap, NewP!single_fill_cap, New!ReleaseAllowed, NewP!ReleaseAllowed,
       New!reserved, NewP!reserved
<1>4. ASSUME NEW id PROVE New!close(id) <=> NewP!close(id)
  BY DEF New!close, NewP!close, New!acceptable, NewP!acceptable, New!AtHead, NewP!AtHead, New!fill,
       NewP!fill, New!enqueue, NewP!enqueue, New!routerVars, NewP!routerVars, New!settle,
       NewP!settle, New!LeaveLine, NewP!LeaveLine, New!QueueFromAuction,
       NewP!QueueFromAuction, New!InLine, NewP!InLine, New!vaultVars, NewP!vaultVars,
       New!routerStorage, NewP!routerStorage, New!protocol_fee, NewP!protocol_fee,
       New!PayFromCommitted, NewP!PayFromCommitted, New!Transfer, NewP!Transfer,
       New!RouterFromAuction, NewP!RouterFromAuction, New!FromRouter, NewP!FromRouter,
       New!PayOutAllowed, NewP!PayOutAllowed, New!CanTransfer, NewP!CanTransfer,
       New!AfterSale, NewP!AfterSale, New!dequeue, NewP!dequeue, New!vaultStorage,
       NewP!vaultStorage, New!NoEscrow, NewP!NoEscrow, New!WithoutIndex, NewP!WithoutIndex,
       New!position_of, NewP!position_of
<1> QED BY <1>1, <1>2, <1>3, <1>4

\* The calls that belong to neither auction.
LEMMA SameOtherCalls ==
  /\ Tick <=> OldP!Tick
  /\ NodeCalls <=> OldP!NodeCalls
  /\ \A s, x : vault_set_auction(s, x) <=> OldP!vault_set_auction(s, x)
  /\ \A s, x : router_set_auction(s, x) <=> OldP!router_set_auction(s, x)
  /\ \A s, x : queue_set_auction(s, x) <=> OldP!queue_set_auction(s, x)
<1>1. Tick <=> OldP!Tick
  BY DEF Tick, OldP!Tick, vaultStorage, OldP!vaultStorage
<1>2. NodeCalls <=> OldP!NodeCalls
  BY DEF NodeCalls, OldP!NodeCalls, deposit, OldP!deposit, request_withdrawal,
       OldP!request_withdrawal, cancel_withdrawal, OldP!cancel_withdrawal,
       execute_withdrawal, OldP!execute_withdrawal, set_appetite, OldP!set_appetite,
       reduce_exposure, OldP!reduce_exposure, CanTransfer, OldP!CanTransfer, Transfer,
       OldP!Transfer, NoWithdrawal, OldP!NoWithdrawal, BackedAt, OldP!BackedAt
<1>3. ASSUME NEW s, NEW x
      PROVE  /\ vault_set_auction(s, x) <=> OldP!vault_set_auction(s, x)
             /\ router_set_auction(s, x) <=> OldP!router_set_auction(s, x)
             /\ queue_set_auction(s, x) <=> OldP!queue_set_auction(s, x)
  BY DEF vault_set_auction, OldP!vault_set_auction, router_set_auction, OldP!router_set_auction,
       queue_set_auction, OldP!queue_set_auction, VaultAdminSigns, OldP!VaultAdminSigns,
       RouterAdminSigns, OldP!RouterAdminSigns, vaultVars, OldP!vaultVars, vaultStorage,
       OldP!vaultStorage
<1> QED BY <1>1, <1>2, <1>3

\* What the two instances say of the contracts they share.
LEMMA SameShared ==
  /\ OldP!RouterInv <=> NewP!RouterInv
  /\ OldP!QueueInv <=> NewP!QueueInv
  /\ OldP!ExitIds = NewP!ExitIds /\ OldP!ExitStates = NewP!ExitStates
  /\ \A f : OldP!Total(f) = NewP!Total(f)
<1>1. OldP!RouterInv <=> NewP!RouterInv
  BY DEF OldP!RouterInv, NewP!RouterInv, OldP!VaultInv, NewP!VaultInv, OldP!RouterTypeOK,
       NewP!RouterTypeOK, OldP!RouterSlots, NewP!RouterSlots, OldP!EscrowBacked,
       NewP!EscrowBacked, OldP!VaultTypeOK, NewP!VaultTypeOK, OldP!Covered, NewP!Covered,
       OldP!VaultSolvent, NewP!VaultSolvent, OldP!SlotsConsistent, NewP!SlotsConsistent,
       OldP!RouterConfigs, NewP!RouterConfigs, OldP!ExitIds, NewP!ExitIds,
       OldP!EscrowStates, NewP!EscrowStates, OldP!NoEscrow, NewP!NoEscrow, OldP!EscrowedFor,
       NewP!EscrowedFor, OldP!TokenTypeOK, NewP!TokenTypeOK, OldP!VaultConfigs,
       NewP!VaultConfigs, OldP!NodeStates, NewP!NodeStates, OldP!AppetiteStates,
       NewP!AppetiteStates, OldP!WithdrawRequests, NewP!WithdrawRequests, OldP!Total,
       NewP!Total, OldP!Cardinality, NewP!Cardinality, OldP!Units, NewP!Units
<1>2. OldP!QueueInv <=> NewP!QueueInv
  BY DEF OldP!QueueInv, NewP!QueueInv, OldP!QueueTypeOK, NewP!QueueTypeOK, OldP!LineWellFormed,
       NewP!LineWellFormed, OldP!QueueConfigs, NewP!QueueConfigs, OldP!ExitIds, NewP!ExitIds
<1>3. OldP!ExitIds = NewP!ExitIds /\ OldP!ExitStates = NewP!ExitStates
  BY DEF OldP!ExitIds, NewP!ExitIds, OldP!ExitStates, NewP!ExitStates
<1>4. ASSUME NEW f PROVE OldP!Total(f) = NewP!Total(f)
  BY DEF OldP!Total, NewP!Total, OldP!Cardinality, NewP!Cardinality, OldP!Units, NewP!Units
<1> QED BY <1>1, <1>2, <1>3, <1>4

-----------------------------------------------------------------------------
(* The two auctions are in the same position.                              *)

\* The invariant as the new auction sees it.
LEMMA BothWays ==
  MigrationInv <=> /\ NewP!SharedInv(oldExits)
                   /\ OldP!AuctionTypeOK
                   /\ OldP!AuctionSlots
<1> DEFINE Types == /\ oldExits \in [OldP!ExitIds -> OldP!ExitStates]
                    /\ newExits \in [OldP!ExitIds -> OldP!ExitStates]
<1>1. ASSUME Types
      PROVE  OldP!CapitalAgrees(oldExits, newExits) <=> NewP!CapitalAgrees(newExits, oldExits)
  <2>1. ASSUME NEW n, NEW S
        PROVE  /\ OldP!Total(OldP!Bids(oldExits, n, S)) = NewP!Total(NewP!Bids(oldExits, n, S))
               /\ OldP!Total(OldP!Bids(newExits, n, S)) = NewP!Total(NewP!Bids(newExits, n, S))
               /\ OldP!Total(OldP!Bids(oldExits, n, S)) \in Nat
               /\ OldP!Total(OldP!Bids(newExits, n, S)) \in Nat
    <3>1. /\ OldP!Bids(oldExits, n, S) = NewP!Bids(oldExits, n, S)
          /\ OldP!Bids(newExits, n, S) = NewP!Bids(newExits, n, S)
      BY DEF OldP!Bids, NewP!Bids, OldP!ExitIds, NewP!ExitIds
    <3>2. /\ OldP!Total(OldP!Bids(oldExits, n, S)) \in Nat
          /\ OldP!Total(OldP!Bids(newExits, n, S)) \in Nat
      BY <1>1, InstanceAssumptions, OldP!BidsType
    <3> QED BY <3>1, <3>2, SameShared
  <2>2. OldP!LiveStatuses = NewP!LiveStatuses
    BY DEF OldP!LiveStatuses, NewP!LiveStatuses
  <2>3. \A j, k \in Nat : j + k = k + j
    OBVIOUS
  <2> QED BY <2>1, <2>2, <2>3 DEF OldP!CapitalAgrees, NewP!CapitalAgrees
<1>2. OldP!EscrowsAgree(oldExits, newExits) <=> NewP!EscrowsAgree(newExits, oldExits)
  BY DEF OldP!EscrowsAgree, NewP!EscrowsAgree, OldP!ExitIds, NewP!ExitIds, OldP!Live, NewP!Live,
       OldP!EscrowOf, NewP!EscrowOf, OldP!NoEscrow, NewP!NoEscrow
<1>3. OldP!LinesAgree(oldExits, newExits) <=> NewP!LinesAgree(newExits, oldExits)
  BY DEF OldP!LinesAgree, NewP!LinesAgree, OldP!ExitIds, NewP!ExitIds, OldP!InLine, NewP!InLine,
       OldP!Waits, NewP!Waits
<1>4. /\ MigrationInv => Types
      /\ NewP!SharedInv(oldExits) => Types
  BY SameShared DEF MigrationInv, OldP!SharedInv, NewP!SharedInv, OldP!AuctionTypeOK,
                    NewP!AuctionTypeOK
<1> QED BY <1>1, <1>2, <1>3, <1>4, SameShared
        DEF MigrationInv, OldP!SharedInv, NewP!SharedInv, OldP!AuctionTypeOK, NewP!AuctionTypeOK

-----------------------------------------------------------------------------
(* The invariant.                                                          *)

\* The invariant holds when the new auction has been deployed.
LEMMA MigrationInvInit == MigrationInit => MigrationInv
<1> SUFFICES ASSUME MigrationInit PROVE MigrationInv
  OBVIOUS
<1>1. OldP!WiredInit /\ NewP!NothingOpened /\ newConfig = oldConfig
  BY SameOldCalls, SameNewCalls DEF MigrationInit
<1>2. OldP!SharedInv(OldP!NoExits)
  <2>1. OldP!LayerInv
    BY <1>1, InstanceAssumptions, OldP!LayerInvWired
  <2> QED BY <2>1, InstanceAssumptions, OldP!LayerIsShared
<1>3. newExits = OldP!NoExits
  BY <1>1 DEF NewP!NothingOpened, OldP!NothingOpened, NewP!NoExits, OldP!NoExits, NewP!ExitIds,
       OldP!ExitIds, NewP!NoExit, OldP!NoExit
<1>4. NewP!AuctionTypeOK
  <2>1. oldConfig \in NewP!AuctionConfigs
    BY <1>2 DEF OldP!SharedInv, OldP!AuctionTypeOK, OldP!AuctionConfigs, NewP!AuctionConfigs
  <2>2. newNext \in 1 .. (MaxExits + 1)
    BY <1>1, AddressAssumption DEF NewP!NothingOpened
  <2>3. newExits \in [NewP!ExitIds -> NewP!ExitStates]
    BY <1>2, <1>3, SameShared DEF OldP!SharedInv
  <2> QED BY <1>1, <2>1, <2>2, <2>3 DEF NewP!AuctionTypeOK
<1>5. NewP!AuctionSlots
  BY <1>1 DEF NewP!NothingOpened, NewP!AuctionSlots, NewP!ExitIds
<1> QED BY <1>2, <1>3, <1>4, <1>5 DEF MigrationInv

\* The clock, the nodes and the admin of the three contracts keep the invariant.
LEMMA OthersKeepInv ==
  ASSUME MigrationInv, UNCHANGED <<oldStorage, newStorage>>,
         \/ (Tick \/ NodeCalls) /\ UNCHANGED <<routerStorage, queueVars>>
         \/ Rewire
         \/ UNCHANGED migrationVars
  PROVE  MigrationInv'
<1>1. UNCHANGED <<oldConfig, oldNext, oldExits, newConfig, newNext, newExits>>
  BY DEF oldStorage, newStorage
<1>2. OldP!SharedInv(newExits)
  BY DEF MigrationInv
<1>3. UNCHANGED OldP!auctionStorage
  BY <1>1 DEF OldP!auctionStorage
<1>4. \/ OldP!LayerTick
      \/ OldP!VaultAdminCalls /\ UNCHANGED <<OldP!routerStorage, OldP!queueVars, OldP!auctionStorage>>
      \/ OldP!RouterAdminCalls /\ UNCHANGED <<OldP!queueVars, OldP!auctionStorage>>
      \/ OldP!NodeCalls /\ UNCHANGED <<OldP!routerStorage, OldP!queueVars, OldP!auctionStorage>>
      \/ OldP!QueueAdminCalls /\ UNCHANGED <<OldP!routerVars, OldP!auctionStorage>>
      \/ UNCHANGED OldP!layerVars
  <2>1. /\ UNCHANGED routerStorage => UNCHANGED OldP!routerStorage
        /\ UNCHANGED queueVars => UNCHANGED OldP!queueVars
        /\ UNCHANGED routerVars => UNCHANGED OldP!routerVars
    BY DEF routerVars, OldP!routerVars, queueVars, OldP!queueVars, vaultVars, OldP!vaultVars,
       routerStorage, OldP!routerStorage, vaultStorage, OldP!vaultStorage
  <2>2. CASE (Tick \/ NodeCalls) /\ UNCHANGED <<routerStorage, queueVars>>
    BY <1>3, <2>1, <2>2, SameOtherCalls DEF OldP!LayerTick
  <2>3. CASE Rewire
    <3>1. PICK s \in Admins, x \in {OldAuction, NewAuction} :
             \/ vault_set_auction(s, x) /\ UNCHANGED <<routerStorage, queueVars>>
             \/ router_set_auction(s, x) /\ UNCHANGED queueVars
             \/ queue_set_auction(s, x) /\ UNCHANGED routerVars
      BY <2>3 DEF Rewire
    <3>2. x \in Auctions
      BY MigrationAssumption
    <3> QED BY <1>3, <2>1, <3>1, <3>2, SameOtherCalls
            DEF OldP!VaultAdminCalls, OldP!RouterAdminCalls, OldP!QueueAdminCalls
  <2>4. CASE UNCHANGED migrationVars
    BY <1>3, <2>1, <2>4 DEF migrationVars, OldP!layerVars
  <2> QED BY <2>2, <2>3, <2>4
<1>5. OldP!SharedInv(newExits)'
  <2>1. CASE \/ UNCHANGED OldP!layerVars
             \/ OldP!QueueAdminCalls /\ UNCHANGED <<OldP!routerVars, OldP!auctionStorage>>
    BY <1>1, <1>2, <2>1, InstanceAssumptions, OldP!ConfigKeepsInv
  <2>2. CASE \/ OldP!LayerTick
             \/ OldP!VaultAdminCalls /\ UNCHANGED <<OldP!routerStorage, OldP!queueVars, OldP!auctionStorage>>
             \/ OldP!RouterAdminCalls /\ UNCHANGED <<OldP!queueVars, OldP!auctionStorage>>
             \/ OldP!NodeCalls /\ UNCHANGED <<OldP!routerStorage, OldP!queueVars, OldP!auctionStorage>>
    BY <1>1, <1>2, <2>2, InstanceAssumptions, OldP!ElsewhereKeepsInv
  <2> QED BY <1>4, <2>1, <2>2
<1>6. NewP!AuctionTypeOK' /\ NewP!AuctionSlots'
  BY <1>1 DEF MigrationInv, NewP!AuctionTypeOK, NewP!AuctionSlots
<1> QED BY <1>5, <1>6 DEF MigrationInv

\* A call of the old auction keeps the invariant.
LEMMA OldCallsKeepInv ==
  ASSUME MigrationInv, OldCalls, UNCHANGED newStorage
  PROVE  MigrationInv'
<1>1. UNCHANGED <<newConfig, newNext, newExits>>
  BY DEF newStorage
<1>2. OldP!SharedInv(newExits)
  BY DEF MigrationInv
<1>3. \/ OldP!SellerCalls
      \/ \E n \in Nodes, id \in OldP!ExitIds, amt \in BidAmounts : OldP!place_bid(n, id, amt)
      \/ \E id \in OldP!ExitIds : OldP!close(id)
  BY SameOldCalls DEF OldCalls, OldP!ExitIds, ExitIds
<1>4. OldP!SharedInv(newExits)'
  BY <1>1, <1>2, <1>3, InstanceAssumptions, OldP!CallsKeepInv
<1>5. NewP!AuctionTypeOK' /\ NewP!AuctionSlots'
  BY <1>1 DEF MigrationInv, NewP!AuctionTypeOK, NewP!AuctionSlots
<1> QED BY <1>4, <1>5 DEF MigrationInv

\* A call of the new auction keeps the invariant.
LEMMA NewCallsKeepInv ==
  ASSUME MigrationInv, NewCalls, UNCHANGED oldStorage
  PROVE  MigrationInv'
<1>1. UNCHANGED <<oldConfig, oldNext, oldExits>>
  BY DEF oldStorage
<1>2. NewP!SharedInv(oldExits) /\ OldP!AuctionTypeOK /\ OldP!AuctionSlots
  BY BothWays
<1>3. \/ NewP!SellerCalls
      \/ \E n \in Nodes, id \in NewP!ExitIds, amt \in BidAmounts : NewP!place_bid(n, id, amt)
      \/ \E id \in NewP!ExitIds : NewP!close(id)
  BY SameNewCalls DEF NewCalls, NewP!ExitIds, ExitIds
<1>4. NewP!SharedInv(oldExits)'
  BY <1>1, <1>2, <1>3, InstanceAssumptions, NewP!CallsKeepInv
<1>5. OldP!AuctionTypeOK' /\ OldP!AuctionSlots'
  BY <1>1, <1>2 DEF OldP!AuctionTypeOK, OldP!AuctionSlots
<1>6. (MigrationInv <=> /\ NewP!SharedInv(oldExits)
                        /\ OldP!AuctionTypeOK
                        /\ OldP!AuctionSlots)'
  BY BothWays, PTL
<1> QED BY <1>4, <1>5, <1>6

\* The invariant holds in every state of the migration.
LEMMA MigrationInvariance == MigrationSpec => []MigrationInv
<1>1. MigrationInv /\ [MigrationNext]_migrationVars => MigrationInv'
  <2> SUFFICES ASSUME MigrationInv, [MigrationNext]_migrationVars PROVE MigrationInv'
    OBVIOUS
  <2>1. CASE (Tick \/ NodeCalls) /\ UNCHANGED <<routerStorage, queueVars, oldStorage, newStorage>>
    BY <2>1, OthersKeepInv
  <2>2. CASE Rewire /\ UNCHANGED <<oldStorage, newStorage>>
    BY <2>2, OthersKeepInv
  <2>3. CASE OldCalls /\ UNCHANGED newStorage
    BY <2>3, OldCallsKeepInv
  <2>4. CASE NewCalls /\ UNCHANGED oldStorage
    BY <2>4, NewCallsKeepInv
  <2>5. CASE UNCHANGED migrationVars
    BY <2>5, OthersKeepInv DEF migrationVars
  <2> QED BY <2>1, <2>2, <2>3, <2>4, <2>5 DEF MigrationNext
<1> QED BY <1>1, MigrationInvInit, PTL DEF MigrationSpec

-----------------------------------------------------------------------------
(* The theorems.                                                           *)

\* Two auctions that give out the same numbers never both sell under one of them, and
\* the escrow under a number belongs to the one that does: open_exit of either auction
\* is refused by the router while the other's exit is live, in whatever order
\* set_auction is called.
THEOREM OneAuctionPerNumber == MigrationSpec => []OneLivePerId
<1>1. MigrationInv => OneLivePerId
  <2> SUFFICES ASSUME MigrationInv, NEW id \in ExitIds
               PROVE  /\ ~(OldLive(id) /\ NewLive(id))
                      /\ escrows[id].stored <=> OldLive(id) \/ NewLive(id)
                      /\ OldLive(id) => escrows[id].seller = oldExits[id].seller
                                        /\ escrows[id].amount = oldExits[id].amount
                      /\ NewLive(id) => escrows[id].seller = newExits[id].seller
                                        /\ escrows[id].amount = newExits[id].amount
    BY DEF OneLivePerId
  <2> DEFINE old == OldP!Live(oldExits[id])  new == OldP!Live(newExits[id])
  <2>1. (OldLive(id) <=> old) /\ (NewLive(id) <=> new)
    BY DEF OldLive, NewLive, Old!Live, New!Live, OldP!Live
  <2>2. /\ ~(old /\ new)
        /\ old => escrows[id] = OldP!EscrowOf(oldExits[id])
        /\ new => escrows[id] = OldP!EscrowOf(newExits[id])
        /\ ~old /\ ~new => escrows[id] = OldP!NoEscrow
    BY DEF MigrationInv, OldP!SharedInv, OldP!EscrowsAgree, OldP!ExitIds, ExitIds
  <2>3. ASSUME NEW ex
        PROVE  LET esc == OldP!EscrowOf(ex)
               IN  esc.stored /\ esc.seller = ex.seller /\ esc.amount = ex.amount
    BY DEF OldP!EscrowOf
  <2>4. ~OldP!NoEscrow.stored
    BY DEF OldP!NoEscrow
  <2> HIDE DEF old, new
  <2>5. CASE old
    BY <2>1, <2>2, <2>3, <2>5
  <2>6. CASE new
    BY <2>1, <2>2, <2>3, <2>6
  <2>7. CASE ~old /\ ~new
    BY <2>1, <2>2, <2>4, <2>7
  <2> QED BY <2>5, <2>6, <2>7
<1> QED BY <1>1, MigrationInvariance, PTL

\* While the vault is pointed back and forth between the two auctions, no commit is lost
\* and no release is counted twice: what a node has committed is the sum of its standing
\* bids in both.
THEOREM BothAuctionsBacked == MigrationSpec => []BidsBackedInBoth
<1>1. MigrationInv => BidsBackedInBoth
  <2> SUFFICES ASSUME MigrationInv, NEW n \in Nodes
               PROVE  nodes[n].committed = Old!BidsOf(n, {"Open", "Queued"})
                                             + New!BidsOf(n, {"Open", "Queued"})
    BY DEF BidsBackedInBoth
  <2>1. nodes[n].committed = OldP!Total(OldP!Bids(oldExits, n, OldP!LiveStatuses))
                               + OldP!Total(OldP!Bids(newExits, n, OldP!LiveStatuses))
    BY DEF MigrationInv, OldP!SharedInv, OldP!CapitalAgrees
  <2>2. Old!BidsOf(n, {"Open", "Queued"}) = OldP!Total(OldP!Bids(oldExits, n, OldP!LiveStatuses))
    BY DEF Old!BidsOf, Old!Total, Old!ExitIds, Old!Cardinality, Old!Units, OldP!Bids, OldP!LiveStatuses, OldP!Total, OldP!ExitIds, OldP!Cardinality, OldP!Units
  <2>3. New!BidsOf(n, {"Open", "Queued"}) = OldP!Total(OldP!Bids(newExits, n, OldP!LiveStatuses))
    BY DEF New!BidsOf, New!Total, New!ExitIds, New!Cardinality, New!Units, OldP!Bids, OldP!LiveStatuses, OldP!Total, OldP!ExitIds, OldP!Cardinality, OldP!Units
  <2> QED BY <2>1, <2>2, <2>3
<1> QED BY <1>1, MigrationInvariance, PTL

\* The lines hold the queued exits of both auctions and nothing else, although enqueue
\* and dequeue know an exit by its number only.
THEOREM LinesServeBoth == MigrationSpec => []LinesHoldBoth
<1>1. MigrationInv => LinesHoldBoth
  BY DEF LinesHoldBoth, MigrationInv, OldP!SharedInv, OldP!LinesAgree, OldP!Waits,
         OldP!ExitIds, ExitIds, OldP!InLine, InLine
<1> QED BY <1>1, MigrationInvariance, PTL

\* The money stays where it belongs throughout: the vault covers every deposit, the router
\* every escrow of either auction, and no line has a gap, a duplicate or one too many.
THEOREM MigrationIsSafe == MigrationSpec => [](VaultSolvent /\ EscrowBacked /\ LineWellFormed)
<1>1. MigrationInv => VaultSolvent /\ EscrowBacked /\ LineWellFormed
  <2> SUFFICES ASSUME OldP!RouterInv, OldP!QueueInv
               PROVE  VaultSolvent /\ EscrowBacked /\ LineWellFormed
    BY DEF MigrationInv, OldP!SharedInv
  <2>1. VaultSolvent <=> OldP!VaultSolvent
    BY DEF VaultSolvent, OldP!VaultSolvent, Total, OldP!Total, Cardinality, OldP!Cardinality, Units,
       OldP!Units
  <2>2. EscrowBacked <=> OldP!EscrowBacked
    BY DEF EscrowBacked, OldP!EscrowBacked, EscrowedFor, OldP!EscrowedFor, Total, OldP!Total, ExitIds,
       OldP!ExitIds, Cardinality, OldP!Cardinality, Units, OldP!Units
  <2>3. LineWellFormed <=> OldP!LineWellFormed
    BY DEF LineWellFormed, OldP!LineWellFormed
  <2> QED BY <2>1, <2>2, <2>3 DEF OldP!RouterInv, OldP!VaultInv, OldP!QueueInv
<1> QED BY <1>1, MigrationInvariance, PTL
=============================================================================
