--------------------------------- MODULE Market ---------------------------------
(***************************************************************************)
(* The tools of the lyth server that keep something of their own or tell    *)
(* the user what others keep.  They meet in no file and no variable, so     *)
(* that a behaviour is one of one part, and the variables of the others     *)
(* stay as they are.  All parts have the calls that may overlap (Calls) and *)
(* the value for "nothing" (Null) of CommerceStores, and providers give     *)
(* their orders the ids of its records (Ids).                              *)
(***************************************************************************)
EXTENDS CommerceStores

(* The constants of the parts; each module says what its own stand for.     *)
CONSTANTS
    Vendors, Vendor, Symbols, Asset, PolicyPatches, OrderTasks, MaxOrderCalls,
    Amounts, Parties, LimitPatches, MaxAmount, DailyLimit, Party, Expiry,
    DefaultMax, MaxWalletCalls, MaxLocked, Midnight, MaxTime,
    Seats, SeatCount, Window, SeatLimit, MaxHeight, MaxBroken,
    Clusters, Page, SearchLimit, MaxChanges,
    SecretIds, Secrets, Passphrases, MaxKeys,
    Addresses, MaxApprovals,
    Delegates, CapPercent, MinimumClusters, Deposits, MaxHeld, Registries

(* The stores of orders, bookings and invoices are this module's own        *)
(* variables.                                                              *)
VARIABLES part,
    policies, answer, gatePc, gateTask, gateRead, gateOpened, denied, since, gateRaced,
    wallet, now, owner, walletCalls, transfer, pauseHeld,
    log, market, scan, head, batch, seatReads, listing,
    chain, seen, changes, readCall, reads, told,
    sealed, keyFile, keys, store, sealCall, accepted, keyRaced, storeOverlapped,
    shop, host, config, provider, receipts, buy, approved, paid, answered, failed,
        receiptsOverlapped,
    known, candidates, delegated, plan

gateVars == <<policies, answer, gatePc, gateTask, gateRead, gateOpened, denied, since, gateRaced>>
walletVars == <<wallet, now, owner, walletCalls, transfer, pauseHeld>>
seatVars == <<log, market, scan, head, batch, seatReads, listing>>
clusterVars == <<chain, seen, changes, readCall, reads, told>>
sealedVars == <<sealed, keyFile, keys, store, sealCall, accepted, keyRaced, storeOverlapped>>
checkoutVars == <<shop, host, config, provider, receipts, buy, approved, paid, answered,
                  failed, receiptsOverlapped>>
delegationVars == <<known, candidates, delegated, plan>>
marketVars == <<part, vars, gateVars, walletVars, seatVars, clusterVars, sealedVars,
                checkoutVars, delegationVars>>

G == INSTANCE MerchantGate WITH
        Patches <- PolicyPatches, MaxCalls <- MaxOrderCalls,
        pc <- gatePc, task <- gateTask, read <- gateRead, opened <- gateOpened,
        raced <- gateRaced
H == INSTANCE HotWalletPolicy WITH
        Patches <- LimitPatches, Owners <- Calls, MaxCalls <- MaxWalletCalls,
        calls <- walletCalls, held <- pauseHeld
V == INSTANCE SeatMarket WITH Limit <- SeatLimit, pending <- seatReads
C == INSTANCE ClusterReads WITH Limit <- SearchLimit, call <- readCall, pending <- reads
K == INSTANCE SealedStores WITH
        Ids <- SecretIds, None <- Null,
        kind <- sealed, call <- sealCall, raced <- keyRaced, overlapped <- storeOverlapped
X == INSTANCE Checkout WITH
        Orders <- Ids, None <- Null, call <- buy, overlapped <- receiptsOverlapped
D == INSTANCE Delegation WITH
        Clusters <- Delegates, Amounts <- Deposits, NoDraft <- Null,
        held <- delegated, draft <- plan

-----------------------------------------------------------------------------
(* What rests.                                                             *)
CommerceRests == Init /\ kind = "order"
GateRests == G!Init
WalletRests ==
    /\ wallet = Null /\ now = 0 /\ owner = Null /\ walletCalls = 0
    /\ transfer = Null /\ pauseHeld = "no"
SeatsRest ==
    /\ log = <<>> /\ market = <<>> /\ scan = "idle" /\ head = 0
    /\ batch = Null /\ seatReads = {} /\ listing = {}
ClustersRest ==
    /\ chain = Null /\ seen = Null /\ changes = 0
    /\ readCall = Null /\ reads = {} /\ told = Null
SealedRests ==
    /\ sealed = "none" /\ keyFile = Null /\ keys = 0 /\ store = Null
    /\ sealCall = Null /\ accepted = Null /\ keyRaced = FALSE /\ storeOverlapped = FALSE
CheckoutRests ==
    /\ shop = "none" /\ host = FALSE /\ config = Null /\ provider = Null /\ receipts = {}
    /\ buy = Null /\ approved = Null /\ paid = {} /\ answered = {} /\ failed = {}
    /\ receiptsOverlapped = FALSE
DelegationRests == known = {} /\ candidates = {} /\ delegated = Null /\ plan = Null

MarketInit ==
    /\ part \in {"commerce", "gate", "wallet", "seats", "clusters", "sealed", "checkout",
                "delegation"}
    /\ IF part = "commerce" THEN Init ELSE CommerceRests
    /\ IF part = "gate" THEN G!Init ELSE GateRests
    /\ IF part = "wallet" THEN H!Init ELSE WalletRests
    /\ IF part = "seats" THEN V!Init ELSE SeatsRest
    /\ IF part = "clusters" THEN C!Init ELSE ClustersRest
    /\ IF part = "sealed" THEN K!Init ELSE SealedRests
    /\ IF part = "checkout" THEN X!Init ELSE CheckoutRests
    /\ IF part = "delegation" THEN D!Init ELSE DelegationRests

MarketNext ==
    /\ UNCHANGED part
    /\ IF part = "commerce" THEN Next ELSE UNCHANGED vars
    /\ IF part = "gate" THEN G!Next ELSE UNCHANGED gateVars
    /\ IF part = "wallet" THEN H!Next ELSE UNCHANGED walletVars
    /\ IF part = "seats" THEN V!Next ELSE UNCHANGED seatVars
    /\ IF part = "clusters" THEN C!Next ELSE UNCHANGED clusterVars
    /\ IF part = "sealed" THEN K!Next ELSE UNCHANGED sealedVars
    /\ IF part = "checkout" THEN X!Next ELSE UNCHANGED checkoutVars
    /\ IF part = "delegation" THEN D!Next ELSE UNCHANGED delegationVars

MarketSpec == MarketInit /\ [][MarketNext]_marketVars

-----------------------------------------------------------------------------
MarketTypeOK ==
    /\ TypeOK
    /\ part = "gate" => G!TypeOK
    /\ part = "wallet" => H!WalletTypeOK
    /\ part = "seats" => V!TypeOK
    /\ part = "clusters" => C!ReadsTypeOK
    /\ part = "sealed" => K!SealedTypeOK
    /\ part = "checkout" => X!CheckoutTypeOK
    /\ part = "delegation" => D!DelegationTypeOK

(* The order tools say what the policy decided, and a denial that the user  *)
(* has been told of holds.                                                  *)
OrdersHeedPolicies == G!SummaryTellsTheOutcome /\ G!DenialHolds
PoliciesAreKept == G!PoliciesAreKept
HotSigningHolds == part = "wallet" => H!HotSigningHolds
ReportsAgree == part = "wallet" => H!ReportsAgree
SeatListIsExact == part = "seats" => V!SeatListIsExact
AnswersAreHonest == part = "clusters" => C!AnswersAreHonest
SecretsSurvive == part = "sealed" => K!SecretsSurvive
OrdersAreAccountedFor == part = "checkout" => X!OrdersAreAccountedFor
SwapsAreApproved == part = "checkout" => X!SwapsAreApproved
DraftsAreHonest == D!DraftsAreHonest

-----------------------------------------------------------------------------
(* What the proofs assume of the constants, and the inductive invariants.   *)
ASSUME CheckoutAssumption ==
    /\ IsFiniteSet(Calls) /\ IsFiniteSet(Ids)
    /\ Null \notin Ids \cup X!Placement
    /\ Addresses # {}

ASSUME LimitsAssumption ==
    /\ MaxAmount \in Nat /\ DailyLimit \in Nat /\ DefaultMax \in Nat
    /\ MaxWalletCalls \in Nat /\ MaxLocked \in Nat /\ Amounts \subseteq Nat
    /\ MaxTime \in Nat /\ Expiry \in 0..MaxTime /\ Party \in Parties
    /\ \A p \in LimitPatches :
          /\ p \in [max: SUBSET Nat, daily: SUBSET Nat,
                    expires: SUBSET (0..MaxTime), parties: SUBSET Parties]
          /\ \A m, n \in p.max : m = n

ASSUME GateAssumption ==
    /\ MaxOrderCalls \in Nat
    /\ \A t \in OrderTasks : G!IsOrderTask(t)
    /\ \A p \in PolicyPatches : G!IsPatch(p)
    /\ Null \notin G!Policy \cup OrderTasks \cup PolicyPatches
    /\ Null \notin [tool: {"merchant_policy"}, vendor: Vendors, patch: PolicyPatches \cup {Null}]

ASSUME SecretsAssumption ==
    /\ MaxKeys \in Nat
    /\ Null \notin Nat \cup Passphrases \cup Secrets \cup K!SealedBy(Nat \cup Passphrases)
    /\ \A p \in Passphrases : p \notin Nat
    /\ \A k \in {"provider", "connector", "profile"} : Null \notin K!Records(k) \cup K!Stores(k)

ASSUME SeatsAssumption ==
    SeatCount \in Nat \ {0} /\ Window \in Nat /\ SeatLimit \in Nat

ASSUME ReadsAssumption ==
    IsFiniteSet(Clusters) /\ Page \subseteq Clusters /\ SearchLimit \in Nat

(* In each of the three phases the cap times the minimum is at least the    *)
(* whole: 25 % of 4 clusters, 15 % of 7, 10 % of 10.                        *)
ASSUME DelegationAssumption ==
    /\ IsFiniteSet(Delegates) /\ Deposits \subseteq Nat /\ MaxHeld \in Nat
    /\ CapPercent \in 0..100 /\ MinimumClusters \in Nat
    /\ CapPercent * MinimumClusters >= 100
    /\ \A r \in Registries : r.candidates \subseteq r.known /\ r.known \subseteq Delegates
    /\ Null \notin D!Draft

CheckoutInv == part = "checkout" => X!CheckoutIInv
WalletInv == part = "wallet" => H!HotIInv
GateInv == G!GateIInv
SeatsInv == part = "seats" => V!SeatsIInv
ReadsInv == part = "clusters" => C!ReadsIInv
SealedInv == part = "sealed" => K!SealedIInv
DrawnInv == part = "sealed" => K!KeysWereDrawn
DelegationInv == part = "delegation" => D!DelegationIInv
=================================================================================
