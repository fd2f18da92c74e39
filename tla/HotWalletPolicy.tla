---------------------------- MODULE HotWalletPolicy ----------------------------
(***************************************************************************)
(* The policy of one agent wallet and the places that read it: the         *)
(* simulation, the reports and the threshold advice of wallet_safety.ts,   *)
(* the preflight of a transfer and the signing backend.  They are written  *)
(* separately and should agree, while the owner pauses the wallet or       *)
(* changes its limits.                                                     *)
(*                                                                         *)
(* Every change of wallets.json reads the whole file, changes one record of *)
(* its copy and later renames the copy into place, so that it also writes  *)
(* back what it has read of all the rest: a reading and a writing action   *)
(* each, with the copy (the draft) between them.  The five buckets of the  *)
(* books are one locked amount; LowValueSpend has the buckets.  An optional *)
(* field is a set of at most one value.                                    *)
(***************************************************************************)
EXTENDS Naturals, FiniteSetsExt

CONSTANTS
    Amounts,        \* what a transfer may be worth
    Parties,        \* recipients
    Patches,        \* the arguments callers give agent_wallet_limits
    MaxAmount,      \* lowValueMaxAmount and lowValueDailyLimit of the wallet
    DailyLimit,     \*   as agent_wallet_create made it, ...
    Party,          \*   its allowed counterparty
    Expiry,         \*   and its expiresAt
    DefaultMax,     \* DEFAULT_LOW_VALUE_MAX, for a wallet that has no policy
    Owners,         \* calls that change wallets.json and may overlap
    MaxCalls,       \* bound of the model: how often they are called
    MaxLocked,      \* bound of the model: the most the books hold
    Midnight,       \* when the day changes
    MaxTime         \* bound of the model: the last moment

VARIABLES
    wallet,         \* the record in wallets.json
    now,            \* the clock
    owner,          \* each call's tool, which of its changes is under way, its
                    \* arguments and the draft it has read and is to write
    calls,          \* how many of them have been called
    transfer,       \* one wallet_build_transfer and what the simulation said
    held            \* history: whether a pause has "returned", with no limits
                    \* call under way or since, and if so whether its mark was
                    \* written with nobody else holding an unpaused draft, "alone"

vars == <<wallet, now, owner, calls, transfer, held>>

Idle == [tool |-> "none", step |-> "none", patch |-> [max |-> {}, daily |-> {}],
         draft |-> {}]
NoRequest == [amount |-> 0, party |-> "none", passphrase |-> FALSE]
NoTransfer == [stage |-> "none", request |-> NoRequest, mode |-> "none", before |-> {},
               after |-> {}, edge |-> FALSE, draft |-> {}, held |-> "no"]

(* agent_wallet_create protects the wallet by the local machine key, and   *)
(* wallet_create by a passphrase.                                          *)
Init ==
    /\ \E protection \in {"local_machine_key", "passphrase"} :
          wallet = [protection |-> protection, low |-> TRUE, max |-> MaxAmount,
                    daily |-> {DailyLimit}, locked |-> 0, day |-> 0,
                    paused |-> FALSE, expires |-> {Expiry}, parties |-> {Party}]
    /\ now = 0
    /\ owner = [o \in Owners |-> Idle]
    /\ calls = 0
    /\ transfer = NoTransfer
    /\ held = "no"

-----------------------------------------------------------------------------
(* Readers of the policy.                                                  *)

Today == IF now >= Midnight THEN 1 ELSE 0

(* summarizeLowValueAccounting: the books of another day do not count.     *)
LockedToday(w) == IF w.day = Today THEN w.locked ELSE 0

OverDaily(w, amount) == \E d \in w.daily : LockedToday(w) + amount > d

(* simulateHotWalletPolicy: the reasons against signing without a prompt.  *)
Simulate(w, r) ==
    {v \in {"disabled", "amount", "daily", "paused", "expired", "counterparty"} :
        CASE v = "disabled" -> ~w.low
          [] v = "amount" -> w.low /\ r.amount > w.max
          [] v = "daily" -> w.low /\ OverDaily(w, r.amount)
          [] v = "paused" -> w.paused
          [] v = "expired" -> \E e \in w.expires : e <= now
          [] OTHER -> w.parties # {} /\ r.party \notin w.parties}

(* Mutant of Preflight: a paused wallet is left to the signing backend.    *)
PreflightUnpaused(w, r) ==
    /\ \A e \in w.expires : e >= now
    /\ ~r.passphrase /\ w.low => r.amount <= w.max /\ ~OverDaily(w, r.amount)

(* preflightTransfer, as far as the wallet is concerned.                   *)
Preflight(w, r) ==
    /\ ~w.paused
    /\ \A e \in w.expires : e >= now
    /\ ~r.passphrase /\ w.low => r.amount <= w.max /\ ~OverDaily(w, r.amount)

(* resolveSigningBackend: how the payload is signed, "none" when it is not *)
(* and "throws" when assertLowValueAllowed does.                           *)
SigningMode(w, r) ==
    CASE w.protection = "passphrase" /\ r.passphrase -> "passphrase"
      [] ~w.low -> "none"
      [] r.amount > w.max \/ OverDaily(w, r.amount) -> "throws"
      [] OTHER -> "low_value"

(* Mutant of Tier: the cap itself is not within the cap.                   *)
TierBelowCap(amount, lowCap, passkeyCap, low, passkey) ==
    IF low /\ \E c \in lowCap : amount < c THEN "agent_hot_wallet"
    ELSE IF passkey /\ \E c \in passkeyCap : amount <= c
         THEN "passkey_or_wallet_handoff"
         ELSE "full_key_or_hardware_wallet"

(* explainWalletThresholds, for an amount.                                 *)
Tier(amount, lowCap, passkeyCap, low, passkey) ==
    IF low /\ \E c \in lowCap : amount <= c THEN "agent_hot_wallet"
    ELSE IF passkey /\ \E c \in passkeyCap : amount <= c
         THEN "passkey_or_wallet_handoff"
         ELSE "full_key_or_hardware_wallet"

(* accountSafetyProfile counts what is pending; profileRisk scores it, with *)
(* points for each reason that are capped per kind.                        *)
Score(w, signed, submitted, failed) ==
    LET lost(condition, points) == IF condition THEN points ELSE 0
        total == lost(w.protection = "local_machine_key", 20)
                 + lost(w.low, 15)
                 + Min({25, signed * 8}) + Min({15, submitted * 5})
                 + Min({20, failed * 5})
                 + lost(\E e \in w.expires : e <= now, 15)
    IN  IF total > 100 THEN 0 ELSE 100 - total

-----------------------------------------------------------------------------
(* The calls that change wallets.json.                                     *)

(* agent_wallet_limits reads the wallet for the cap it was not given; with  *)
(* no cap given at all it leaves the policy alone.                         *)
LimitsStarts(o, patch) ==
    LET givesCap == patch.max # {} \/ patch.daily # {}
        max == IF wallet.low THEN wallet.max ELSE DefaultMax
        daily == IF wallet.low THEN wallet.daily ELSE {}
    IN  /\ owner[o] = Idle
        /\ calls < MaxCalls /\ calls' = calls + 1
        /\ owner' = [owner EXCEPT ![o] =
              [tool |-> "limits", step |-> IF givesCap THEN "policy" ELSE "metadata",
               patch |-> [patch EXCEPT !.max = IF @ = {} THEN {max} ELSE @,
                                       !.daily = IF @ = {} THEN daily ELSE @],
               draft |-> {}]]
        /\ held' = "no"
        /\ transfer' = [transfer EXCEPT !.held = "no"]
        /\ UNCHANGED <<wallet, now>>

PauseStarts(o) ==
    /\ owner[o] = Idle
    /\ calls < MaxCalls /\ calls' = calls + 1
    /\ owner' = [owner EXCEPT ![o] = [Idle EXCEPT !.tool = "pause", !.step = "policy"]]
    /\ UNCHANGED <<wallet, now, transfer, held>>

(* configureLowValuePolicy: a pause deletes the policy; limits make a new   *)
(* one with empty books, for which they need the local machine key.        *)
Configured(call) ==
    IF call.tool = "pause"
    THEN [wallet EXCEPT !.low = FALSE, !.max = 0, !.daily = {}, !.locked = 0, !.day = 0]
    ELSE [wallet EXCEPT !.low = TRUE, !.max = Min(call.patch.max),
                        !.daily = call.patch.daily, !.locked = 0, !.day = Today]

(* updateAgentWalletMetadata: limits replace the expiry and the parties, by *)
(* nothing where they were not given, and lift the pause.                  *)
Described(call) ==
    IF call.tool = "pause"
    THEN [wallet EXCEPT !.paused = TRUE]
    ELSE [wallet EXCEPT !.expires = call.patch.expires,
                        !.parties = call.patch.parties, !.paused = FALSE]

(* The reading half of a change.                                           *)
ChangeReads(o) ==
    LET call == owner[o]
    IN  /\ call.step \in {"policy", "metadata"} /\ call.draft = {}
        /\ call.step = "policy" /\ call.tool = "limits"
              => wallet.protection = "local_machine_key"
        /\ owner' = [owner EXCEPT ![o].draft =
              {IF call.step = "policy" THEN Configured(call) ELSE Described(call)}]
        /\ UNCHANGED <<wallet, now, calls, transfer, held>>

PolicyWritten(o) ==
    /\ owner[o].step = "policy"
    /\ \E draft \in owner[o].draft : wallet' = draft
    /\ owner' = [owner EXCEPT ![o].step = "metadata", ![o].draft = {}]
    /\ UNCHANGED <<now, calls, transfer, held>>

(* The metadata is the last change of a limits call and of a pause.        *)
MetadataWritten(o) ==
    /\ owner[o].step = "metadata"
    /\ \E draft \in owner[o].draft : wallet' = draft
    /\ owner' = [owner EXCEPT ![o] = Idle]
    /\ held' = IF \E p \in Owners : owner[p].tool = "limits" THEN "no"
               ELSE IF \A draft \in transfer.draft \cup UNION {owner[p].draft : p \in Owners} :
                           draft.paused
                    THEN "alone" ELSE "returned"
    /\ UNCHANGED <<now, calls, transfer>>

(* moveLowValueAccounting: a payload of this wallet changes what is locked, *)
(* if it has a policy; for a payload of another wallet the file is written *)
(* back with this record as it was.                                        *)
BooksRead(o) ==
    /\ owner[o] = Idle
    /\ calls < MaxCalls /\ calls' = calls + 1
    /\ \E draft \in {wallet}
              \cup (IF wallet.low
                    THEN {[wallet EXCEPT !.locked = n, !.day = Today] : n \in 0..MaxLocked}
                    ELSE {}) :
          owner' = [owner EXCEPT ![o] = [Idle EXCEPT !.tool = "books", !.draft = {draft}]]
    /\ UNCHANGED <<wallet, now, transfer, held>>

BooksWritten(o) ==
    /\ owner[o].tool = "books"
    /\ \E draft \in owner[o].draft : wallet' = draft
    /\ owner' = [owner EXCEPT ![o] = Idle]
    /\ UNCHANGED <<now, calls, transfer, held>>

(* The process dies, or a read or write fails.                             *)
OwnerStops(o) ==
    /\ owner[o] # Idle
    /\ owner' = [owner EXCEPT ![o] = Idle]
    /\ UNCHANGED <<wallet, now, calls, transfer, held>>

-----------------------------------------------------------------------------
(* wallet_build_transfer, with sign and allowLowValueSigning as by default. *)

(* The preflight reads the wallet after the endpoint, chain, balance and    *)
(* nonce; a transfer that it refuses changes nothing.                      *)
TransferChecked(r) ==
    /\ transfer = NoTransfer
    /\ Preflight(wallet, r)
    /\ transfer' = [NoTransfer EXCEPT !.stage = "signing", !.request = r,
                       !.before = Simulate(wallet, r),
                       !.edge = now \in wallet.expires, !.held = held]
    /\ UNCHANGED <<wallet, now, owner, calls, held>>

(* The backend reads it again and signs.                                   *)
TransferSigned ==
    LET r == transfer.request
        mode == SigningMode(wallet, r)
    IN  /\ transfer.stage = "signing"
        /\ mode \in {"passphrase", "low_value"}
        /\ transfer' = [transfer EXCEPT !.stage = "signed", !.mode = mode,
                                        !.after = Simulate(wallet, r)]
        /\ UNCHANGED <<wallet, now, owner, calls, held>>

(* recordLowValueSpend reads the file once more; without a policy in it     *)
(* there is nothing to reserve.                                            *)
ReservationRead ==
    LET locked == LockedToday(wallet) + transfer.request.amount
    IN  /\ transfer.stage = "signed" /\ transfer.mode = "low_value"
        /\ locked <= MaxLocked
        /\ transfer' = [transfer EXCEPT !.stage = "reserving",
              !.draft = IF wallet.low THEN {[wallet EXCEPT !.locked = locked, !.day = Today]}
                        ELSE {}]
        /\ UNCHANGED <<wallet, now, owner, calls, held>>

ReservationWritten ==
    /\ transfer.stage = "reserving"
    /\ \E draft \in transfer.draft : wallet' = draft
    /\ transfer' = NoTransfer
    /\ UNCHANGED <<now, owner, calls, held>>

(* It is refused or fails somewhere, or its answer has been read.          *)
TransferEnds ==
    /\ transfer # NoTransfer
    /\ transfer' = NoTransfer
    /\ UNCHANGED <<wallet, now, owner, calls, held>>

Tick ==
    /\ now < MaxTime
    /\ now' = now + 1
    /\ UNCHANGED <<wallet, owner, calls, transfer, held>>

Requests == [amount : Amounts, party : Parties, passphrase : BOOLEAN]

Next ==
    \/ \E o \in Owners :
          \/ \E patch \in Patches : LimitsStarts(o, patch)
          \/ PauseStarts(o)
          \/ ChangeReads(o) \/ PolicyWritten(o) \/ MetadataWritten(o)
          \/ BooksRead(o) \/ BooksWritten(o)
          \/ OwnerStops(o)
    \/ \E r \in Requests : TransferChecked(r)
    \/ TransferSigned \/ ReservationRead \/ ReservationWritten
    \/ TransferEnds
    \/ Tick

Spec == Init /\ [][Next]_vars

-----------------------------------------------------------------------------
Signed == {"signed", "reserving"}

WalletTypeOK ==
    /\ wallet.protection \in {"local_machine_key", "passphrase"}
    /\ wallet.max \in Nat /\ wallet.locked \in Nat /\ wallet.daily \subseteq Nat
    /\ ~wallet.low => wallet.max = 0 /\ wallet.daily = {}
    /\ wallet.expires \subseteq 0..MaxTime /\ wallet.parties \subseteq Parties
    /\ transfer.stage \in {"none", "signing"} \cup Signed
    /\ transfer.stage \in Signed <=> transfer.mode \in {"passphrase", "low_value"}
    /\ held \in {"no", "returned", "alone"}

(* What is signed without a prompt, the simulation would have let pass at  *)
(* the preflight or, for what the backend checks again, at the signing.    *)
(* The counterparty is excepted, and the very moment of the expiry.        *)
SignedAsSimulated ==
    transfer.mode = "low_value" =>
        transfer.before \cap transfer.after
            \subseteq {"counterparty"} \cup (IF transfer.edge THEN {"expired"} ELSE {})

(* A pause that has returned holds if nobody else held an unpaused draft    *)
(* when its mark was written: no transfer checked afterwards is signed,    *)
(* by any key, unless the owner sets limits again, however the pause's two *)
(* changes were cut by other pauses, crashes and moves of the books.       *)
PauseHolds == transfer.stage \in Signed => transfer.held # "alone"

HotSigningHolds == SignedAsSimulated /\ PauseHolds

(* The advice for the wallet's own cap, the simulation and the report go   *)
(* together: the hot wallet is advised exactly for the amounts its cap     *)
(* allows, and no pending or failed payload more improves the report.      *)
ReportsAgree ==
  transfer = NoTransfer =>
    /\ \A r \in Requests :
          Tier(r.amount, {wallet.max}, {}, wallet.low, TRUE) = "agent_hot_wallet"
            <=> Simulate(wallet, r) \cap {"disabled", "amount"} = {}
    /\ \A s, t, f \in {0, 1, 3} :
          /\ Score(wallet, s, t, f) >= Score(wallet, s + 1, t, f)
          /\ Score(wallet, s, t, f) >= Score(wallet, s, t + 1, f)
          /\ Score(wallet, s, t, f) >= Score(wallet, s, t, f + 1)

(* The receipt of agent_wallet_pause says that the wallet "can no longer    *)
(* sign through low-value mode".  A draft that another call read before the *)
(* pause and writes after it brings back the policy and lifts the mark.    *)
PausedCannotSign == transfer.mode = "low_value" => transfer.held = "no"

-----------------------------------------------------------------------------
(* The inductive invariant of HotSigningHolds and ReportsAgree.             *)
Reasons == {"disabled", "amount", "daily", "paused", "expired", "counterparty"}
WalletRecord ==
    [protection: {"local_machine_key", "passphrase"}, low: BOOLEAN, max: Nat,
     daily: SUBSET Nat, locked: Nat, day: {0, 1}, paused: BOOLEAN,
     expires: SUBSET (0..MaxTime), parties: SUBSET Parties]
WithoutPolicyEmpty(w) == ~w.low => w.max = 0 /\ w.daily = {}
Patched == [max: SUBSET Nat, daily: SUBSET Nat,
            expires: SUBSET (0..MaxTime), parties: SUBSET Parties]
OwnerCall ==
    [tool: {"none", "limits", "pause", "books"}, step: {"none", "policy", "metadata"},
     patch: Patched \cup {Idle.patch}, draft: SUBSET WalletRecord]
Asked == [amount: Nat, party: Parties \cup {"none"}, passphrase: BOOLEAN]
Transfer ==
    [stage: {"none", "signing"} \cup Signed, request: Asked,
     mode: {"none", "passphrase", "low_value"}, before: SUBSET Reasons,
     after: SUBSET Reasons, edge: BOOLEAN, draft: SUBSET WalletRecord,
     held: {"no", "returned", "alone"}]

HotTyped ==
    /\ wallet \in WalletRecord /\ now \in 0..MaxTime
    /\ transfer \in Transfer /\ held \in {"no", "returned", "alone"}
    /\ transfer.stage \in Signed <=> transfer.mode \in {"passphrase", "low_value"}
    /\ owner \in [Owners -> OwnerCall] /\ calls \in 0..MaxCalls

(* A wallet without a policy has no caps, in the drafts too, and nobody     *)
(* holds an unpaused draft in the marking of a pause.                      *)
DraftsAreRecords ==
    /\ WithoutPolicyEmpty(wallet)
    /\ \A d \in transfer.draft : WithoutPolicyEmpty(d)
    /\ \A o \in Owners : \A d \in owner[o].draft :
          /\ WithoutPolicyEmpty(d)
          /\ owner[o].tool = "pause" /\ owner[o].step = "metadata" => d.paused

(* A limits call has a cap of each kind and the metadata to write.          *)
LimitsAreGiven ==
    \A o \in Owners :
        /\ owner[o].step # "none" => owner[o].tool \in {"limits", "pause"}
        /\ owner[o].tool = "limits" => /\ owner[o].patch \in Patched
                                      /\ \E n \in owner[o].patch.max : owner[o].patch.max = {n}

(* While a pause holds, the wallet is marked, and nobody is about to undo   *)
(* it or has read it from before.                                          *)
PauseIsMarked ==
    held = "alone" \/ transfer.held = "alone" =>
        /\ wallet.paused
        /\ \A d \in transfer.draft : d.paused
        /\ \A o \in Owners : /\ owner[o].tool # "limits"
                              /\ \A d \in owner[o].draft : d.paused

(* What the preflight and the backend have made sure of.                    *)
ChecksWereMade ==
    /\ transfer.stage \in {"signing"} \cup Signed =>
          /\ transfer.held # "alone"
          /\ "paused" \notin transfer.before
          /\ "expired" \in transfer.before => transfer.edge
    /\ transfer.mode = "low_value" =>
          transfer.after \cap {"disabled", "amount", "daily"} = {}

HotIInv ==
    HotTyped /\ DraftsAreRecords /\ LimitsAreGiven /\ PauseIsMarked /\ ChecksWereMade
=============================================================================
