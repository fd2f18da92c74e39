----------------------------- MODULE MerchantGate -----------------------------
(***************************************************************************)
(* The local merchant policies (src/src/merchant_policy.ts) and the tools  *)
(* that consult them before an order is written: merchant_risk_check,      *)
(* order_quote and order_create (src/src/index.ts), with the asset policy  *)
(* (assets.ts), the commerce screen (commerce_safety.ts) and the summary   *)
(* that is shown to the user (risk_renderer.ts).                           *)
(*                                                                         *)
(* merchant_policies.json is read, changed and renamed over without a      *)
(* lock, and an order is written some time after the policy was read.      *)
(* The vendor and the asset registry are files that do not change here.    *)
(***************************************************************************)
EXTENDS Integers, FiniteSets, FiniteSetsExt

CONSTANTS
    Vendors,
    Vendor,     \* the vendor registry: category (at most one), demo, price,
                \*   asset, accepts, cap, words (what the screen finds in it)
    Symbols,
    Asset,      \* the asset registry: kind, denomination, status, allowed,
                \*   blocked, noted
    Patches,    \* the patches merchant_policy_set may be called with
    OrderTasks, \* the calls of the three order tools
    Calls,
    MaxCalls,   \* bounds the calls of a behaviour
    Null

VARIABLES
    policies,   \* merchant_policies.json: vendor -> policy, or Null
    answer,     \* what the order tool that finished last did and answered
    pc, task,   \* per call: where it is, what it was asked
    read,       \* per call: the file, or the policy, it has read
    opened,     \* calls so far
    denied,     \* history: vendors whose denial is acknowledged and stands
    since,      \* history: per call, whether that has been so since it began
    raced       \* history: a policy call overwrote what it had not read

calls == <<pc, task, read>>
vars == <<policies, answer, calls, opened, denied, since, raced>>

-----------------------------------------------------------------------------
(* Policies.  An optional value is a set of at most one element.           *)
DefaultPolicy == [enabled |-> TRUE, allowlisted |-> FALSE, denylisted |-> FALSE,
                  max |-> {}, assets |-> {}, categories |-> {}]

IsPolicy(p) ==
    /\ DOMAIN p = DOMAIN DefaultPolicy
    /\ p.enabled \in BOOLEAN /\ p.allowlisted \in BOOLEAN /\ p.denylisted \in BOOLEAN
    /\ p.max \subseteq Nat /\ Cardinality(p.max) <= 1
    /\ p.assets \subseteq Symbols

(* Mutant of Upserted: what the patch does not name starts afresh.         *)
UpsertedAfresh(current, patch) ==
    [f \in DOMAIN DefaultPolicy |->
        IF f \in DOMAIN patch THEN patch[f] ELSE DefaultPolicy[f]]

(* upsertMerchantPolicy's next record: a field the patch leaves out keeps  *)
(* its value; an empty list in the patch lifts the restriction.            *)
Upserted(current, patch) ==
    LET base == IF current = Null THEN DefaultPolicy ELSE current
    IN  [f \in DOMAIN DefaultPolicy |->
            IF f \in DOMAIN patch THEN patch[f] ELSE base[f]]

-----------------------------------------------------------------------------
(* What an order is about.  quoteVendorOrder: the price is multiplied, the *)
(* asset is the one asked for and the price is not converted.  A risk      *)
(* check that is given an amount and names nothing of the catalog has no   *)
(* quote, so that its asset may be unknown.                                *)
Quoted(o) == o.named \/ o.amount = {}

Quote(o) ==
    [amount |-> IF o.amount = {} THEN o.quantity * Vendor[o.vendor].price
                ELSE CHOOSE n \in o.amount : TRUE,
     asset |-> IF o.asset = {} /\ Quoted(o) THEN {Vendor[o.vendor].asset} ELSE o.asset]

Evaluation(ok, violated, warned, level) ==
    [ok |-> ok, violations |-> violated, warnings |-> warned, level |-> level]

(* evaluateMerchantPolicy and its riskLevel.                               *)
OverCap(p, quote) == \E cap \in p.max : quote.amount > cap
WrongAsset(p, quote) == p.assets # {} /\ ~(quote.asset \subseteq p.assets)
WrongCategory(p, v) ==
    p.categories # {} /\ Vendor[v].category \cap p.categories = {}

(* Mutant of MerchantViolated: a denial counts only beside a cap.          *)
MerchantViolatedByOrder(p, v, quote) ==
    p.enabled /\ (OverCap(p, quote) \/ WrongAsset(p, quote) \/ WrongCategory(p, v))

MerchantViolated(p, v, quote) ==
    /\ p.enabled
    /\ \/ p.denylisted \/ OverCap(p, quote)
       \/ WrongAsset(p, quote) \/ WrongCategory(p, v)

MerchantRisk(p, v, quote) ==
    IF p = Null THEN Evaluation(TRUE, FALSE, TRUE, "unknown")
    ELSE LET bad == MerchantViolated(p, v, quote)
             warned == ~p.enabled \/ ~p.allowlisted \/ Vendor[v].demo
         IN  Evaluation(~bad, bad, warned,
                 IF bad THEN "blocked"
                 ELSE IF ~p.allowlisted THEN "high"
                 ELSE IF warned THEN "medium" ELSE "low")

(* assets.ts: assetUseCases, blockedUseCases, assetRisk.                   *)
PrivateBlocked == {"commerce", "service_payment", "escrow", "bridge", "staking",
                   "contract", "market", "discovery", "issuer_registration"}

UseCases(a) ==
    IF Asset[a].allowed # {} THEN Asset[a].allowed
    ELSE IF Asset[a].denomination = "private"
         THEN {"private_transfer", "private_burn", "cross_to_private", "view"}
    ELSE IF Asset[a].kind = "native"
         THEN PrivateBlocked \cup {"transfer", "view"}
    ELSE IF Asset[a].kind \in {"wrapped", "issuer_native", "mrc20"}
         THEN {"transfer", "commerce", "service_payment", "escrow", "bridge",
               "market", "view"}
    ELSE {"transfer", "view"}

BlockedUseCases(a) ==
    Asset[a].blocked \cup (IF Asset[a].denomination = "private" THEN PrivateBlocked ELSE {})

Withdrawn(a) == Asset[a].status \in {"blocked", "deprecated"}

AssetLevel(a) ==
    IF Withdrawn(a) THEN "blocked"
    ELSE IF Asset[a].denomination = "private" \/ Asset[a].kind = "wrapped" THEN "high"
    ELSE IF Asset[a].status = "draft" \/ Asset[a].noted \/ Asset[a].kind = "issuer_native"
         THEN "medium" ELSE "low"

(* evaluateAssetUseCase                                                    *)
AssetPolicy(a, useCase) ==
    LET bad == Withdrawn(a) \/ useCase \in BlockedUseCases(a)
    IN  Evaluation(~bad, bad, Asset[a].noted \/ useCase \notin UseCases(a), AssetLevel(a))

(* evaluateCommerceSafety: the words of the vendor and of the request.     *)
CommerceSafety(o) ==
    LET words == o.words \cup Vendor[o.vendor].words
        bad == "blocked" \in words
        warned == "restricted" \in words
    IN  Evaluation(~bad, bad, warned,
            IF bad THEN "block" ELSE IF warned THEN "warn" ELSE "allow")

(* renderRisk and its riskLevel, over the evaluations of one operation.    *)
RiskLevel(es) ==
    IF \E e \in es : e.violations \/ e.level \in {"blocked", "block"} THEN "blocked"
    ELSE IF \E e \in es : e.level = "high" THEN "high"
    ELSE IF \E e \in es : e.warnings \/ e.level \in {"medium", "unknown"} THEN "medium"
    ELSE "low"

RenderRisk(es) ==
    [ok |-> \A e \in es : ~e.violations /\ e.ok, level |-> RiskLevel(es)]

-----------------------------------------------------------------------------
(* Calls.                                                                  *)
OrderTools == {"merchant_risk_check", "order_quote", "order_create"}

IsOrderTask(t) ==
    /\ t.tool \in OrderTools /\ t.vendor \in Vendors /\ t.quantity \in 1..100
    /\ t.asset \subseteq Symbols /\ Cardinality(t.asset) <= 1
    /\ t.words \subseteq {"blocked", "restricted"}
    /\ t.amount \subseteq Nat /\ Cardinality(t.amount) <= 1 /\ t.named \in BOOLEAN
    /\ t.tool # "merchant_risk_check" => t.amount = {}

Init ==
    /\ policies = [v \in Vendors |-> Null]
    /\ answer = Null
    /\ pc = [c \in Calls |-> "idle"]
    /\ task = [c \in Calls |-> Null]
    /\ read = [c \in Calls |-> Null]
    /\ opened = 0
    /\ denied = {}
    /\ since = [c \in Calls |-> FALSE]
    /\ raced = FALSE

Begin(c, t) ==
    /\ pc[c] = "idle"
    /\ opened < MaxCalls
    /\ opened' = opened + 1
    /\ pc' = [pc EXCEPT ![c] = "reading"]
    /\ task' = [task EXCEPT ![c] = t]
    /\ UNCHANGED <<policies, answer, read, raced>>

Done(c) ==
    /\ pc' = [pc EXCEPT ![c] = "idle"]
    /\ task' = [task EXCEPT ![c] = Null]
    /\ read' = [read EXCEPT ![c] = Null]
    /\ since' = [since EXCEPT ![c] = FALSE]

(* merchant_policy_upsert and merchant_policy_remove.  What was denied may *)
(* be lifted from the moment such a call begins.                           *)
BeginPolicy(c, v, patch) ==
    /\ Begin(c, [tool |-> "merchant_policy", vendor |-> v, patch |-> patch])
    /\ denied' = denied \ {v}
    /\ since' = [d \in Calls |-> since[d] /\ task[d].vendor # v]

ReadPolicies(c) ==
    /\ pc[c] = "reading"
    /\ task[c].tool = "merchant_policy"
    /\ read' = [read EXCEPT ![c] = policies]
    /\ pc' = [pc EXCEPT ![c] = "writing"]
    /\ UNCHANGED <<policies, answer, task, opened, denied, since, raced>>

(* writeMerchantPolicyStore: the file as it was read, with the one change; *)
(* removing a policy that is not there writes nothing.                     *)
Writing(c) ==
    LET v == task[c].vendor
        next == IF task[c].patch = Null THEN Null ELSE Upserted(read[c][v], task[c].patch)
        written == ~(task[c].patch = Null /\ read[c][v] = Null)
    IN  /\ policies' = IF written THEN [read[c] EXCEPT ![v] = next] ELSE policies
        /\ raced' = (raced \/ (written /\ read[c] # policies))
        /\ denied' = IF next # Null /\ next.enabled /\ next.denylisted
                     /\ \A d \in Calls \ {c} :
                          task[d] # Null => ~(task[d].tool = "merchant_policy" /\ task[d].vendor = v)
                     THEN denied \cup {v} ELSE denied

WritePolicies(c) ==
    /\ pc[c] = "writing"
    /\ Writing(c)
    /\ Done(c)
    /\ UNCHANGED <<answer, opened>>

(* merchant_risk_check, order_quote and order_create up to the policy.     *)
BeginOrder(c, t) ==
    /\ Begin(c, t)
    /\ since' = [since EXCEPT ![c] = t.vendor \in denied]
    /\ UNCHANGED denied

ReadPolicy(c) ==
    /\ pc[c] = "reading"
    /\ task[c].tool \in OrderTools
    /\ read' = [read EXCEPT ![c] = policies[task[c].vendor]]
    /\ pc' = [pc EXCEPT ![c] = "deciding"]
    /\ UNCHANGED <<policies, answer, task, opened, denied, since, raced>>

(* The evaluations a tool makes; only the orders look at the asset.        *)
Evaluations(t, policy) ==
    LET quote == Quote(t)
    IN  {MerchantRisk(policy, t.vendor, quote), CommerceSafety(t)}
        \cup (IF t.tool = "merchant_risk_check" THEN {}
              ELSE {AssetPolicy(a, "commerce") : a \in quote.asset})

Permitted(t, policy) == \A e \in Evaluations(t, policy) : e.ok

(* What the tool answers: whether it wrote an order, and the summary.      *)
Answer(c, permitted) ==
    [tool |-> task[c].tool,
     permitted |-> permitted,
     summary |-> RenderRisk(Evaluations(task[c], read[c])),
     denied |-> since[c] /\ ~raced]

(* Refused, or allowed; order_create then writes the order.                *)
Decide(c) ==
    /\ pc[c] = "deciding"
    /\ answer' = Answer(c, Permitted(task[c], read[c]))
    /\ Done(c)
    /\ UNCHANGED <<policies, opened, denied, raced>>

Next ==
    \E c \in Calls :
        \/ \E v \in Vendors, patch \in Patches \cup {Null} : BeginPolicy(c, v, patch)
        \/ ReadPolicies(c) \/ WritePolicies(c)
        \/ \E t \in OrderTasks : BeginOrder(c, t)
        \/ ReadPolicy(c) \/ Decide(c)

Spec == Init /\ [][Next]_vars

-----------------------------------------------------------------------------
TypeOK ==
    /\ \A v \in Vendors : policies[v] = Null \/ IsPolicy(policies[v])
    /\ pc \in [Calls -> {"idle", "reading", "writing", "deciding"}]
    /\ \A c \in Calls : pc[c] = "idle" <=> task[c] = Null
    /\ \A t \in OrderTasks : IsOrderTask(t)
    /\ opened \in 0..MaxCalls
    /\ denied \subseteq Vendors
    /\ raced \in BOOLEAN

(* The summary that is shown with an order, a quote or a risk check says   *)
(* what the gates did: it is "allowed" exactly when nothing refused, and   *)
(* its level is "blocked" exactly when something did (renderRisk against   *)
(* the three refusals of order_create).                                    *)
SummaryTellsTheOutcome ==
    answer # Null =>
        /\ answer.summary.ok <=> answer.permitted
        /\ answer.summary.level = "blocked" <=> ~answer.permitted

(* Once a denial has been acknowledged, no order, quote or risk check that *)
(* begins later is allowed for the vendor, unless another policy call for  *)
(* it has begun or two policy calls have overlapped.                       *)
DenialHolds == answer # Null /\ answer.denied => ~answer.permitted

(* A policy call changes one vendor's policy, and of that only what it was *)
(* asked to change, unless it overlapped with another.                     *)
ChangedAsAsked(v) ==
    policies'[v] # policies[v] =>
        raced' \/ \E c \in Calls :
            /\ pc[c] = "writing" /\ pc'[c] = "idle" /\ task[c].vendor = v
            /\ task[c].patch # Null /\ policies[v] # Null =>
                 /\ policies'[v] # Null
                 /\ \A f \in DOMAIN DefaultPolicy \ DOMAIN task[c].patch :
                       policies'[v][f] = policies[v][f]

PoliciesAreKept == [][\A v \in Vendors : ChangedAsAsked(v)]_vars

-----------------------------------------------------------------------------
(* The inductive invariant of DenialHolds and PoliciesAreKept.              *)
Fields == DOMAIN DefaultPolicy
Policy == [enabled: BOOLEAN, allowlisted: BOOLEAN, denylisted: BOOLEAN,
           max: SUBSET Nat, assets: SUBSET Symbols, categories: SUBSET STRING]
File == [Vendors -> Policy \cup {Null}]

IsPatch(p) ==
    /\ DOMAIN p \subseteq Fields
    /\ \A f \in DOMAIN p \cap {"enabled", "allowlisted", "denylisted"} : p[f] \in BOOLEAN
    /\ "max" \in DOMAIN p => p["max"] \subseteq Nat /\ Cardinality(p["max"]) <= 1
    /\ "assets" \in DOMAIN p => p["assets"] \subseteq Symbols
    /\ "categories" \in DOMAIN p => p["categories"] \subseteq STRING

Denies(p) == p # Null /\ p.enabled /\ p.denylisted

IsPolicyTask(t) ==
    t.tool = "merchant_policy" /\ t.vendor \in Vendors /\ t.patch \in Patches \cup {Null}

CallsTyped ==
    /\ policies \in File
    /\ \A v \in Vendors : policies[v] # Null => Cardinality(policies[v].max) <= 1
    /\ pc \in [Calls -> {"idle", "reading", "writing", "deciding"}]
    /\ task = [c \in Calls |-> task[c]] /\ read = [c \in Calls |-> read[c]]
    /\ since \in [Calls -> BOOLEAN]
    /\ opened \in 0..MaxCalls /\ denied \subseteq Vendors /\ raced \in BOOLEAN

(* What a call was asked, and what it has read by then.                     *)
AskedAndRead(c) ==
    /\ pc[c] = "idle" <=> task[c] = Null
    /\ pc[c] = "idle" => ~since[c]
    /\ pc[c] = "reading" => IsPolicyTask(task[c]) \/ task[c] \in OrderTasks
    /\ pc[c] = "writing" =>
          /\ IsPolicyTask(task[c]) /\ read[c] \in File
          /\ \A v \in Vendors : read[c][v] # Null => Cardinality(read[c][v].max) <= 1
    /\ pc[c] = "deciding" => task[c] \in OrderTasks

(* A denial that stands is in the file, nobody is about to change the       *)
(* policy of its vendor, and an order task that began under it has read it. *)
DenialStands(c) ==
    /\ pc[c] # "idle" /\ task[c].tool = "merchant_policy" =>
          ~since[c] /\ task[c].vendor \notin denied
    /\ since[c] => task[c].vendor \in denied
    /\ ~raced /\ since[c] /\ pc[c] = "deciding" => Denies(read[c])

GateIInv ==
    /\ CallsTyped
    /\ \A c \in Calls : AskedAndRead(c) /\ DenialStands(c)
    /\ ~raced => \A v \in denied : Denies(policies[v])
    /\ SummaryTellsTheOutcome /\ DenialHolds
=============================================================================
