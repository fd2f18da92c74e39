----------------------------- MODULE SpendingProofs -----------------------------
(***************************************************************************)
(* Theorems about what stands between a request and money that leaves: the *)
(* policy of an agent wallet (HotWalletPolicy), the policies of the        *)
(* merchants (MerchantGate), and the orders at the providers (Checkout),   *)
(* for any number of overlapping calls, vendors, policies, limits,         *)
(* amounts, orders, addresses and approvals.                               *)
(***************************************************************************)
EXTENDS Market, FiniteSetTheorems, TLAPS

-----------------------------------------------------------------------------
(* The readers of a wallet's policy.                                        *)
LEMMA Bookings ==
    ASSUME NEW w \in H!WalletRecord
    PROVE  /\ H!LockedToday(w) \in Nat
           /\ H!LockedToday(w) = w.locked \/ H!LockedToday(w) = 0
           /\ H!Today \in {0, 1}
  BY DEF H!LockedToday, H!Today, H!WalletRecord

(* What the backend signs without a passphrase, the simulation does not     *)
(* object to for its policy, cap or day.                                    *)
LEMMA BackendAgrees ==
    ASSUME NEW w \in H!WalletRecord, NEW r \in H!Asked,
           H!SigningMode(w, r) = "low_value"
    PROVE  /\ ~H!OverDaily(w, r.amount)
           /\ H!Simulate(w, r) \in SUBSET H!Reasons
           /\ H!Simulate(w, r) \cap {"disabled", "amount", "daily"} = {}
<1>1. w.low /\ ~(r.amount > w.max) /\ ~H!OverDaily(w, r.amount)
  BY DEF H!SigningMode
<1> QED
  BY <1>1 DEF H!Simulate, H!Reasons

(* What the preflight lets pass is not paused, and expires at the earliest  *)
(* at this very moment.                                                     *)
LEMMA PreflightAgrees ==
    ASSUME NEW w \in H!WalletRecord, NEW r \in H!Asked, now \in Nat,
           H!Preflight(w, r)
    PROVE  /\ ~w.paused
           /\ H!Simulate(w, r) \in SUBSET H!Reasons
           /\ "paused" \notin H!Simulate(w, r)
           /\ "expired" \in H!Simulate(w, r) => now \in w.expires
<1>1. ~w.paused /\ \A e \in w.expires : e >= now
  BY DEF H!Preflight
<1>2. ASSUME NEW e \in w.expires, e <= now PROVE e = now
  <2>1. e \in Nat
    BY LimitsAssumption DEF H!WalletRecord
  <2> QED
    BY <1>1, <1>2, <2>1
<1>3. "expired" \in H!Simulate(w, r) => \E e \in w.expires : e <= now
  BY DEF H!Simulate
<1>4. "paused" \notin H!Simulate(w, r)
  BY <1>1 DEF H!Simulate
<1>5. H!Simulate(w, r) \in SUBSET H!Reasons
  BY DEF H!Simulate, H!Reasons
<1> QED
  BY <1>1, <1>2, <1>3, <1>4, <1>5

LEMMA OnlyOne == \A n : H!Min({n}) = n
  BY DEF H!Min

-----------------------------------------------------------------------------
(* The owner and the transfer.                                              *)
Holds == pauseHeld = "alone" \/ transfer.held = "alone"

LEMMA HotInit == H!Init => H!HotIInv
<1> SUFFICES ASSUME H!Init PROVE H!HotIInv
  OBVIOUS
<1>1. wallet \in H!WalletRecord /\ wallet.low
  <2>1. PICK protection \in {"local_machine_key", "passphrase"} :
          wallet = [protection |-> protection, low |-> TRUE, max |-> MaxAmount,
                    daily |-> {DailyLimit}, locked |-> 0, day |-> 0,
                    paused |-> FALSE, expires |-> {Expiry}, parties |-> {Party}]
    BY DEF H!Init
  <2>2. MaxAmount \in Nat /\ DailyLimit \in Nat /\ Expiry \in 0..MaxTime /\ Party \in Parties
    BY LimitsAssumption
  <2>3. {DailyLimit} \in SUBSET Nat /\ {Expiry} \in SUBSET (0..MaxTime)
        /\ {Party} \in SUBSET Parties
    BY <2>2
  <2> QED
    BY <2>1, <2>2, <2>3 DEF H!WalletRecord
<1>2. H!NoTransfer \in H!Transfer
  BY DEF H!NoTransfer, H!NoRequest, H!Transfer, H!Asked
<1>3. /\ transfer.stage = "none" /\ transfer.mode = "none"
      /\ transfer.held = "no" /\ transfer.draft = {} /\ pauseHeld = "no"
  BY DEF H!Init, H!NoTransfer
<1>4. \A o \in Calls : owner[o].tool = "none" /\ owner[o].draft = {} /\ owner[o].step = "none"
  BY DEF H!Init, H!Idle
<1>5. H!HotTyped
  <2>1. now \in 0..MaxTime /\ walletCalls \in 0..MaxWalletCalls
    BY LimitsAssumption DEF H!Init
  <2>2. H!Idle \in H!OwnerCall
    BY DEF H!Idle, H!OwnerCall
  <2>3. owner \in [Calls -> H!OwnerCall] /\ transfer \in H!Transfer
    BY <1>2, <2>2 DEF H!Init
  <2> QED
    BY <1>1, <1>3, <2>1, <2>3 DEF H!HotTyped, H!Signed
<1>6. H!DraftsAreRecords
  BY <1>1, <1>3, <1>4 DEF H!DraftsAreRecords, H!WithoutPolicyEmpty
<1> QED
  BY <1>3, <1>4, <1>5, <1>6
  DEF H!HotIInv, H!LimitsAreGiven, H!PauseIsMarked, H!ChecksWereMade, H!Signed

LEMMA HotFacts ==
    ASSUME H!HotIInv
    PROVE  /\ wallet \in H!WalletRecord /\ now \in 0..MaxTime /\ now \in Nat
           /\ transfer \in H!Transfer /\ transfer.request \in H!Asked
           /\ walletCalls \in 0..MaxWalletCalls
           /\ H!WithoutPolicyEmpty(wallet)
           /\ Holds => wallet.paused
  BY LimitsAssumption
  DEF H!HotIInv, H!HotTyped, H!Transfer, H!DraftsAreRecords, H!PauseIsMarked, Holds

(* A step of one call that leaves the transfer and the clock.               *)
LEMMA OneOwner ==
    ASSUME H!HotIInv, NEW o \in Calls, NEW call \in H!OwnerCall,
           owner' = [owner EXCEPT ![o] = call],
           UNCHANGED <<now, transfer>>, walletCalls' \in 0..MaxWalletCalls,
           wallet' \in H!WalletRecord, H!WithoutPolicyEmpty(wallet'),
           \A d \in call.draft :
              /\ H!WithoutPolicyEmpty(d)
              /\ call.tool = "pause" /\ call.step = "metadata" => d.paused,
           call.step # "none" => call.tool \in {"limits", "pause"},
           call.tool = "limits" => owner[o].tool = "limits" /\ call.patch = owner[o].patch,
           pauseHeld' \in {"no", "returned", "alone"},
           H!PauseIsMarked'
    PROVE  H!HotIInv'
<1>1. /\ owner'[o] = call /\ \A q \in Calls : q # o => owner'[q] = owner[q]
      /\ owner' \in [Calls -> H!OwnerCall]
  BY DEF H!HotIInv, H!HotTyped
<1>2. H!HotTyped'
  BY <1>1 DEF H!HotIInv, H!HotTyped
<1>3. H!DraftsAreRecords'
  BY <1>1 DEF H!HotIInv, H!DraftsAreRecords
<1>4. H!LimitsAreGiven'
  BY <1>1 DEF H!HotIInv, H!LimitsAreGiven
<1>5. H!ChecksWereMade'
  BY DEF H!HotIInv, H!ChecksWereMade
<1> QED
  BY <1>2, <1>3, <1>4, <1>5 DEF H!HotIInv

(* A pause that holds, holds after a step in which nobody returns from one. *)
LEMMA StillMarked ==
    ASSUME H!HotIInv, NEW o \in Calls, NEW call,
           owner' = [owner EXCEPT ![o] = call],
           UNCHANGED <<transfer, pauseHeld>>,
           Holds => /\ wallet'.paused
                    /\ call.tool # "limits" /\ \A d \in call.draft : d.paused
    PROVE  H!PauseIsMarked'
<1>1. owner'[o] = call /\ \A q \in Calls : q # o => owner'[q] = owner[q]
  BY DEF H!HotIInv, H!HotTyped
<1> QED
  BY <1>1 DEF H!HotIInv, H!PauseIsMarked, Holds

LEMMA LimitsStart ==
    ASSUME H!HotIInv, NEW o \in Calls, NEW patch \in LimitPatches, H!LimitsStarts(o, patch)
    PROVE  H!HotIInv'
<1> DEFINE max == IF wallet.low THEN wallet.max ELSE DefaultMax
           limits == IF wallet.low THEN wallet.daily ELSE {}
           cap == IF patch.max = {} THEN {max} ELSE patch.max
           daily == IF patch.daily = {} THEN limits ELSE patch.daily
           step == IF patch.max # {} \/ patch.daily # {} THEN "policy" ELSE "metadata"
           given == [patch EXCEPT !.max = cap, !.daily = daily]
           call == [tool |-> "limits", step |-> step, patch |-> given, draft |-> {}]
<1>1. /\ pauseHeld' = "no"
      /\ transfer' = [transfer EXCEPT !.held = "no"]
      /\ walletCalls < MaxWalletCalls /\ walletCalls' = walletCalls + 1
      /\ UNCHANGED <<wallet, now>>
  BY DEF H!LimitsStarts
<1>2. owner' = [owner EXCEPT ![o] = call]
  BY DEF H!LimitsStarts
<1>3. /\ patch \in [max: SUBSET Nat, daily: SUBSET Nat,
                   expires: SUBSET (0..MaxTime), parties: SUBSET Parties]
      /\ \A m, n \in patch.max : m = n
      /\ max \in Nat /\ limits \in SUBSET Nat
  BY LimitsAssumption, HotFacts DEF H!WalletRecord
<1> HIDE DEF max, limits
<1>4. cap \in SUBSET Nat /\ daily \in SUBSET Nat /\ \E n \in cap : cap = {n}
  <2>1. patch.max # {} => \E n \in patch.max : patch.max = {n}
    BY <1>3
  <2>2. patch.max \in SUBSET Nat /\ patch.daily \in SUBSET Nat
    BY <1>3
  <2> QED
    BY <1>3, <2>1, <2>2
<1> HIDE DEF cap, daily
<1>5. given \in H!Patched /\ given.max = cap
  BY <1>3, <1>4 DEF H!Patched
<1>6. /\ call.tool = "limits" /\ call.patch = given /\ call.draft = {}
      /\ call \in H!OwnerCall
  BY <1>5 DEF H!OwnerCall
<1> HIDE DEF given, call
<1>7. /\ owner'[o] = call /\ \A q \in Calls : q # o => owner'[q] = owner[q]
      /\ owner' \in [Calls -> H!OwnerCall]
  BY <1>2, <1>6 DEF H!HotIInv, H!HotTyped
<1>8. /\ transfer' \in H!Transfer /\ transfer'.held = "no"
      /\ transfer'.stage = transfer.stage /\ transfer'.mode = transfer.mode
      /\ transfer'.before = transfer.before /\ transfer'.after = transfer.after
      /\ transfer'.edge = transfer.edge /\ transfer'.draft = transfer.draft
  BY <1>1, HotFacts DEF H!Transfer
<1>9. H!HotTyped'
  <2>1. walletCalls' \in 0..MaxWalletCalls
    BY <1>1, HotFacts, LimitsAssumption
  <2> QED
    BY <1>1, <1>7, <1>8, <2>1 DEF H!HotIInv, H!HotTyped
<1>10. H!DraftsAreRecords'
  BY <1>1, <1>6, <1>7, <1>8 DEF H!HotIInv, H!DraftsAreRecords
<1>11. H!LimitsAreGiven'
  BY <1>4, <1>5, <1>6, <1>7 DEF H!HotIInv, H!LimitsAreGiven
<1>12. H!ChecksWereMade'
  BY <1>8 DEF H!HotIInv, H!ChecksWereMade
<1>13. H!PauseIsMarked'
  BY <1>1, <1>8 DEF H!PauseIsMarked
<1> QED
  BY <1>9, <1>10, <1>11, <1>12, <1>13 DEF H!HotIInv

(* Who moves the books holds a copy with other books, or the same.          *)
LEMMA BooksCopied ==
    ASSUME H!HotIInv, NEW o \in Calls, H!BooksRead(o)
    PROVE  \E d \in H!WalletRecord :
              /\ H!WithoutPolicyEmpty(d) /\ (wallet.paused => d.paused)
              /\ owner' = [owner EXCEPT ![o] = [H!Idle EXCEPT !.tool = "books", !.draft = {d}]]
<1> DEFINE day == H!Today
           copies == IF wallet.low
                     THEN {[wallet EXCEPT !.locked = n, !.day = day] : n \in 0..MaxLocked}
                     ELSE {}
<1>0. \A n \in 0..MaxLocked : n \in Nat
  BY LimitsAssumption
<1>1. PICK d \in {wallet} \cup copies :
        owner' = [owner EXCEPT ![o] = [H!Idle EXCEPT !.tool = "books", !.draft = {d}]]
  BY DEF H!BooksRead
<1>2. day \in {0, 1}
  BY DEF H!Today
<1> HIDE DEF day
<1>3. ASSUME d \in copies
      PROVE  d \in H!WalletRecord /\ H!WithoutPolicyEmpty(d) /\ d.paused = wallet.paused
  <2>1. wallet.low /\ \E n \in 0..MaxLocked : d = [wallet EXCEPT !.locked = n, !.day = day]
    BY <1>3
  <2>2. PICK n \in 0..MaxLocked : d = [wallet EXCEPT !.locked = n, !.day = day]
    BY <2>1
  <2>3. n \in Nat
    BY <1>0, <2>2
  <2> QED
    BY <1>2, <2>1, <2>2, <2>3, HotFacts DEF H!WalletRecord, H!WithoutPolicyEmpty
<1> HIDE DEF copies
<1>4. d \in H!WalletRecord /\ H!WithoutPolicyEmpty(d) /\ (wallet.paused => d.paused)
  BY <1>1, <1>3, HotFacts
<1> QED
  BY <1>1, <1>4

LEMMA OwnerBegins ==
    ASSUME H!HotIInv, NEW o \in Calls, H!PauseStarts(o) \/ H!BooksRead(o)
    PROVE  H!HotIInv'
<1>1. /\ UNCHANGED <<wallet, now, transfer, pauseHeld>>
      /\ walletCalls < MaxWalletCalls /\ walletCalls' = walletCalls + 1
      /\ pauseHeld \in {"no", "returned", "alone"}
  BY DEF H!PauseStarts, H!BooksRead, H!HotIInv, H!HotTyped
<1>2. walletCalls' \in 0..MaxWalletCalls
  BY <1>1, HotFacts, LimitsAssumption
<1>3. CASE H!PauseStarts(o)
  <2> DEFINE call == [H!Idle EXCEPT !.tool = "pause", !.step = "policy"]
  <2>1. owner' = [owner EXCEPT ![o] = call]
    BY <1>3 DEF H!PauseStarts
  <2>2. /\ call.tool = "pause" /\ call.step = "policy" /\ call.draft = {}
        /\ call \in H!OwnerCall
    BY DEF H!Idle, H!OwnerCall
  <2> HIDE DEF call
  <2>3. H!PauseIsMarked'
    BY <1>1, <2>1, <2>2, HotFacts, StillMarked
  <2> QED
    BY <1>1, <1>2, <2>1, <2>2, <2>3, HotFacts, OneOwner
<1>4. CASE H!BooksRead(o)
  <2>1. PICK d \in H!WalletRecord :
              /\ H!WithoutPolicyEmpty(d) /\ (wallet.paused => d.paused)
              /\ owner' = [owner EXCEPT ![o] = [H!Idle EXCEPT !.tool = "books", !.draft = {d}]]
    BY <1>4, BooksCopied
  <2> DEFINE call == [H!Idle EXCEPT !.tool = "books", !.draft = {d}]
  <2>2. /\ call.tool = "books" /\ call.step = "none" /\ call.draft = {d}
        /\ call \in H!OwnerCall
    BY DEF H!Idle, H!OwnerCall
  <2>3. owner' = [owner EXCEPT ![o] = call]
    BY <2>1
  <2> HIDE DEF call
  <2>4. H!PauseIsMarked'
    BY <1>1, <2>1, <2>2, <2>3, HotFacts, StillMarked
  <2> QED
    BY <1>1, <1>2, <2>1, <2>2, <2>3, <2>4, HotFacts, OneOwner
<1> QED
  BY <1>3, <1>4

(* What a change makes of the copy it has read.                             *)
LEMMA Changed ==
    ASSUME H!HotIInv, NEW o \in Calls, owner[o].tool \in {"limits", "pause"}
    PROVE  /\ H!Configured(owner[o]) \in H!WalletRecord
           /\ H!WithoutPolicyEmpty(H!Configured(owner[o]))
           /\ H!Configured(owner[o]).paused = wallet.paused
           /\ H!Described(owner[o]) \in H!WalletRecord
           /\ H!WithoutPolicyEmpty(H!Described(owner[o]))
           /\ owner[o].tool = "pause" => H!Described(owner[o]).paused
<1>1. H!Today \in {0, 1}
  BY DEF H!Today
<1>2. CASE owner[o].tool = "pause"
  BY <1>2, HotFacts DEF H!Configured, H!Described, H!WalletRecord, H!WithoutPolicyEmpty
<1>3. CASE owner[o].tool = "limits"
  <2>1. owner[o].patch \in H!Patched /\ \E n \in owner[o].patch.max : owner[o].patch.max = {n}
    BY <1>3 DEF H!HotIInv, H!LimitsAreGiven
  <2>2. /\ H!Min(owner[o].patch.max) \in Nat /\ owner[o].patch.daily \in SUBSET Nat
        /\ owner[o].patch.expires \in SUBSET (0..MaxTime)
        /\ owner[o].patch.parties \in SUBSET Parties
    BY <2>1, OnlyOne DEF H!Patched
  <2> DEFINE max == H!Min(owner[o].patch.max)
             day == H!Today
             copy == [wallet EXCEPT !.low = TRUE, !.max = max, !.daily = owner[o].patch.daily,
                                    !.locked = 0, !.day = day]
  <2>3. H!Configured(owner[o]) = copy
    BY <1>3 DEF H!Configured
  <2>4. max \in Nat /\ day \in {0, 1}
    BY <1>1, <2>2
  <2> HIDE DEF max, day
  <2>5. copy \in H!WalletRecord /\ copy.low /\ copy.paused = wallet.paused
    BY <2>2, <2>4, HotFacts DEF H!WalletRecord
  <2>6. /\ H!Described(owner[o]) \in H!WalletRecord
        /\ H!WithoutPolicyEmpty(H!Described(owner[o]))
    BY <1>3, <2>2, HotFacts DEF H!Described, H!WalletRecord, H!WithoutPolicyEmpty
  <2> QED
    BY <1>3, <2>3, <2>5, <2>6 DEF H!WithoutPolicyEmpty
<1> QED
  BY <1>2, <1>3

LEMMA ChangeRead ==
    ASSUME H!HotIInv, NEW o \in Calls, H!ChangeReads(o)
    PROVE  H!HotIInv'
<1> DEFINE copy == IF owner[o].step = "policy" THEN H!Configured(owner[o])
                   ELSE H!Described(owner[o])
           call == [owner[o] EXCEPT !.draft = {copy}]
<1>1. /\ owner[o].step \in {"policy", "metadata"}
      /\ owner' = [owner EXCEPT ![o].draft = {copy}]
      /\ UNCHANGED <<wallet, now, walletCalls, transfer, pauseHeld>>
  BY DEF H!ChangeReads
<1>a. owner[o].tool \in {"limits", "pause"} /\ owner[o] \in H!OwnerCall
  BY <1>1 DEF H!HotIInv, H!HotTyped, H!LimitsAreGiven
<1>2. owner' = [owner EXCEPT ![o] = call]
  BY <1>1
<1>3. /\ copy \in H!WalletRecord /\ H!WithoutPolicyEmpty(copy)
      /\ owner[o].tool = "pause" /\ owner[o].step = "metadata" => copy.paused
      /\ owner[o].tool = "pause" /\ wallet.paused => copy.paused
  BY <1>1, <1>a, Changed
<1> HIDE DEF copy
<1>4. /\ call.tool = owner[o].tool /\ call.step = owner[o].step
      /\ call.patch = owner[o].patch /\ call.draft = {copy}
      /\ call \in H!OwnerCall
  BY <1>3, <1>a DEF H!OwnerCall
<1> HIDE DEF call
<1>5. Holds => wallet.paused /\ owner[o].tool # "limits"
  BY DEF Holds, H!HotIInv, H!PauseIsMarked
<1>6. H!PauseIsMarked'
  <2>1. Holds => wallet'.paused /\ call.tool # "limits" /\ \A d \in call.draft : d.paused
    BY <1>1, <1>3, <1>4, <1>5, <1>a
  <2> QED
    BY <1>1, <1>2, <2>1, StillMarked
<1>7. pauseHeld' \in {"no", "returned", "alone"}
  BY <1>1 DEF H!HotIInv, H!HotTyped
<1>8. \A d \in call.draft : /\ H!WithoutPolicyEmpty(d)
                            /\ call.tool = "pause" /\ call.step = "metadata" => d.paused
  BY <1>3, <1>4
<1>9. /\ wallet' \in H!WalletRecord /\ H!WithoutPolicyEmpty(wallet')
      /\ UNCHANGED <<now, transfer>> /\ walletCalls' \in 0..MaxWalletCalls
  BY <1>1, HotFacts
<1>10. /\ call.step # "none" => call.tool \in {"limits", "pause"}
       /\ call.tool = "limits" => owner[o].tool = "limits" /\ call.patch = owner[o].patch
  BY <1>4, <1>a
<1> QED
  BY <1>2, <1>4, <1>6, <1>7, <1>8, <1>9, <1>10, OneOwner

(* A call writes its draft, and goes on or ends.                            *)
LEMMA DraftWritten ==
    ASSUME H!HotIInv, NEW o \in Calls, NEW call \in H!OwnerCall,
           \E copied \in owner[o].draft : wallet' = copied,
           owner' = [owner EXCEPT ![o] = call],
           UNCHANGED <<now, walletCalls, transfer>>,
           call.draft = {},
           call.step # "none" => call.tool \in {"limits", "pause"},
           call.tool = "limits" => owner[o].tool = "limits" /\ call.patch = owner[o].patch,
           pauseHeld' \in {"no", "returned", "alone"},
           UNCHANGED pauseHeld \/ H!PauseIsMarked'
    PROVE  H!HotIInv'
<1>1. PICK copied \in owner[o].draft : wallet' = copied
  OBVIOUS
<1>2. /\ copied \in H!WalletRecord /\ H!WithoutPolicyEmpty(copied)
      /\ Holds => copied.paused /\ owner[o].tool # "limits"
  BY DEF H!HotIInv, H!HotTyped, H!OwnerCall, H!DraftsAreRecords, H!PauseIsMarked, Holds
<1>3. UNCHANGED pauseHeld => H!PauseIsMarked'
  BY <1>1, <1>2, StillMarked
<1> QED
  BY <1>1, <1>2, <1>3, HotFacts, OneOwner

LEMMA CapsWrite ==
    ASSUME H!HotIInv, NEW o \in Calls, H!PolicyWritten(o)
    PROVE  H!HotIInv'
<1> DEFINE call == [owner[o] EXCEPT !.step = "metadata", !.draft = {}]
<1>1. /\ owner[o].step = "policy"
      /\ \E copied \in owner[o].draft : wallet' = copied
      /\ owner' = [owner EXCEPT ![o].step = "metadata", ![o].draft = {}]
      /\ UNCHANGED <<now, walletCalls, transfer, pauseHeld>>
  BY DEF H!PolicyWritten
<1>2. owner[o] \in H!OwnerCall /\ owner \in [Calls -> H!OwnerCall]
      /\ owner[o].tool \in {"limits", "pause"}
      /\ pauseHeld \in {"no", "returned", "alone"}
  BY <1>1 DEF H!HotIInv, H!HotTyped, H!LimitsAreGiven
<1>3. owner' = [owner EXCEPT ![o] = call]
  BY <1>1, <1>2
<1>4. /\ call \in H!OwnerCall /\ call.draft = {}
      /\ call.tool = owner[o].tool /\ call.patch = owner[o].patch
  BY <1>2 DEF H!OwnerCall
<1> HIDE DEF call
<1> QED
  BY <1>1, <1>2, <1>3, <1>4, DraftWritten

(* A pause returns with nobody else holding an unpaused draft, or the       *)
(* history forgets what it knew.                                           *)
LEMMA MetadataWrite ==
    ASSUME H!HotIInv, NEW o \in Calls, H!MetadataWritten(o)
    PROVE  H!HotIInv'
<1> DEFINE drafts == transfer.draft \cup UNION {owner[p].draft : p \in Calls}
<1>1. /\ owner[o].step = "metadata"
      /\ \E copied \in owner[o].draft : wallet' = copied
      /\ owner' = [owner EXCEPT ![o] = H!Idle]
      /\ UNCHANGED <<now, walletCalls, transfer>>
  BY DEF H!MetadataWritten
<1>2. pauseHeld' = IF \E p \in Calls : owner[p].tool = "limits" THEN "no"
                   ELSE IF \A copied \in drafts : copied.paused THEN "alone" ELSE "returned"
  BY DEF H!MetadataWritten
<1>3. /\ H!Idle \in H!OwnerCall /\ H!Idle.draft = {}
      /\ H!Idle.step = "none" /\ H!Idle.tool = "none"
  BY DEF H!Idle, H!OwnerCall
<1>4. owner'[o] = H!Idle /\ \A q \in Calls : q # o => owner'[q] = owner[q]
  BY <1>1 DEF H!HotIInv, H!HotTyped
<1>5. H!PauseIsMarked'
  <2>1. CASE pauseHeld' = "alone"
    <3>1. (\A p \in Calls : owner[p].tool # "limits") /\ \A copied \in drafts : copied.paused
      BY <1>2, <2>1
    <3>2. wallet'.paused
      BY <1>1, <3>1
    <3>3. /\ \A d \in transfer.draft : d.paused
          /\ \A p \in Calls : \A d \in owner[p].draft : d.paused
      BY <3>1
    <3> QED
      BY <1>1, <1>3, <1>4, <3>1, <3>2, <3>3 DEF H!PauseIsMarked
  <2>2. CASE pauseHeld' # "alone"
    <3> SUFFICES ASSUME transfer.held = "alone"
                 PROVE  /\ wallet'.paused
                        /\ \A d \in transfer'.draft : d.paused
                        /\ \A p \in Calls : /\ owner'[p].tool # "limits"
                                             /\ \A d \in owner'[p].draft : d.paused
      BY <1>1, <2>2 DEF H!PauseIsMarked
    <3>1. /\ \A d \in transfer.draft : d.paused
          /\ \A p \in Calls : /\ owner[p].tool # "limits"
                               /\ \A d \in owner[p].draft : d.paused
      BY DEF H!HotIInv, H!PauseIsMarked
    <3> QED
      BY <1>1, <1>3, <1>4, <3>1
  <2> QED
    BY <2>1, <2>2
<1>6. pauseHeld' \in {"no", "returned", "alone"}
  BY <1>2
<1> QED
  BY <1>1, <1>3, <1>5, <1>6, DraftWritten

LEMMA OwnerRests ==
    ASSUME H!HotIInv, NEW o \in Calls, H!BooksWritten(o) \/ H!OwnerStops(o)
    PROVE  H!HotIInv'
<1>1. /\ H!Idle \in H!OwnerCall /\ H!Idle.draft = {}
      /\ H!Idle.step = "none" /\ H!Idle.tool = "none"
  BY DEF H!Idle, H!OwnerCall
<1>2. /\ owner' = [owner EXCEPT ![o] = H!Idle]
      /\ UNCHANGED <<now, walletCalls, transfer, pauseHeld>>
      /\ pauseHeld \in {"no", "returned", "alone"}
  BY DEF H!BooksWritten, H!OwnerStops, H!HotIInv, H!HotTyped
<1>3. CASE H!BooksWritten(o)
  <2>1. \E copied \in owner[o].draft : wallet' = copied
    BY <1>3 DEF H!BooksWritten
  <2> QED
    BY <1>1, <1>2, <2>1, DraftWritten
<1>4. CASE H!OwnerStops(o)
  <2>1. UNCHANGED wallet
    BY <1>4 DEF H!OwnerStops
  <2>2. H!PauseIsMarked'
    BY <1>1, <1>2, <2>1, HotFacts, StillMarked
  <2> QED
    BY <1>1, <1>2, <2>1, <2>2, HotFacts, OneOwner
<1> QED
  BY <1>3, <1>4

LEMMA TransferCheck ==
    ASSUME H!HotIInv, NEW r \in H!Requests, H!TransferChecked(r)
    PROVE  H!HotIInv'
<1> DEFINE before == H!Simulate(wallet, r)
           edge == now \in wallet.expires
<1>1. /\ H!Preflight(wallet, r)
      /\ transfer' = [H!NoTransfer EXCEPT !.stage = "signing", !.request = r,
                         !.before = before, !.edge = edge, !.held = pauseHeld]
      /\ UNCHANGED <<wallet, now, owner, walletCalls, pauseHeld>>
  BY DEF H!TransferChecked
<1>2. r \in H!Asked
  BY LimitsAssumption DEF H!Asked, H!Requests
<1>3. /\ ~wallet.paused /\ before \in SUBSET H!Reasons
      /\ "paused" \notin before /\ ("expired" \in before => edge)
      /\ edge \in BOOLEAN
  BY <1>1, <1>2, HotFacts, PreflightAgrees
<1> HIDE DEF before, edge
<1>4. pauseHeld \in {"no", "returned"}
  BY <1>3, HotFacts DEF Holds, H!HotIInv, H!HotTyped
<1>5. /\ transfer' \in H!Transfer
      /\ transfer'.stage = "signing" /\ transfer'.mode = "none"
      /\ transfer'.before = before /\ transfer'.edge = edge
      /\ transfer'.held = pauseHeld /\ transfer'.draft = {}
  BY <1>1, <1>2, <1>3, <1>4 DEF H!NoTransfer, H!NoRequest, H!Transfer, H!Asked
<1>6. H!HotTyped'
  BY <1>1, <1>5 DEF H!HotIInv, H!HotTyped, H!Signed
<1>7. H!ChecksWereMade'
  BY <1>3, <1>4, <1>5 DEF H!ChecksWereMade
<1>8. H!PauseIsMarked' /\ H!DraftsAreRecords' /\ H!LimitsAreGiven'
  BY <1>1, <1>4, <1>5
  DEF H!HotIInv, H!DraftsAreRecords, H!LimitsAreGiven, H!PauseIsMarked
<1> QED
  BY <1>6, <1>7, <1>8 DEF H!HotIInv

LEMMA TransferSign ==
    ASSUME H!HotIInv, H!TransferSigned
    PROVE  H!HotIInv'
<1> DEFINE r == transfer.request
           mode == H!SigningMode(wallet, r)
           after == H!Simulate(wallet, r)
<1>1. /\ transfer.stage = "signing"
      /\ mode \in {"passphrase", "low_value"}
      /\ transfer' = [transfer EXCEPT !.stage = "signed", !.mode = mode, !.after = after]
      /\ UNCHANGED <<wallet, now, owner, walletCalls, pauseHeld>>
  BY DEF H!TransferSigned
<1>2. after \in SUBSET H!Reasons
  BY DEF H!Simulate, H!Reasons
<1>3. mode = "low_value" => after \cap {"disabled", "amount", "daily"} = {}
  BY HotFacts, BackendAgrees
<1> HIDE DEF after, mode
<1>4. /\ transfer' \in H!Transfer
      /\ transfer'.stage = "signed" /\ transfer'.mode = mode /\ transfer'.after = after
      /\ transfer'.before = transfer.before /\ transfer'.edge = transfer.edge
      /\ transfer'.held = transfer.held /\ transfer'.draft = transfer.draft
  BY <1>1, <1>2, HotFacts DEF H!Transfer, H!Signed
<1>5. H!HotTyped'
  BY <1>1, <1>4 DEF H!HotIInv, H!HotTyped, H!Signed
<1>6. H!ChecksWereMade'
  BY <1>1, <1>3, <1>4 DEF H!HotIInv, H!ChecksWereMade
<1>7. H!PauseIsMarked' /\ H!DraftsAreRecords' /\ H!LimitsAreGiven'
  BY <1>1, <1>4
  DEF H!HotIInv, H!DraftsAreRecords, H!LimitsAreGiven, H!PauseIsMarked
<1> QED
  BY <1>5, <1>6, <1>7 DEF H!HotIInv

(* The reservation is a copy of the wallet with more in its books.          *)
LEMMA Reserve ==
    ASSUME H!HotIInv, H!ReservationRead
    PROVE  H!HotIInv'
<1> DEFINE locked == H!LockedToday(wallet) + transfer.request.amount
           day == H!Today
           copy == [wallet EXCEPT !.locked = locked, !.day = day]
           drafts == IF wallet.low THEN {copy} ELSE {}
<1>1. /\ transfer.stage = "signed"
      /\ transfer' = [transfer EXCEPT !.stage = "reserving", !.draft = drafts]
      /\ UNCHANGED <<wallet, now, owner, walletCalls, pauseHeld>>
  BY DEF H!ReservationRead
<1>2. locked \in Nat /\ day \in {0, 1}
  BY HotFacts, Bookings DEF H!Asked
<1> HIDE DEF locked, day
<1>3. copy \in H!WalletRecord /\ copy.paused = wallet.paused
      /\ (wallet.low => H!WithoutPolicyEmpty(copy))
  BY <1>2, HotFacts DEF H!WalletRecord, H!WithoutPolicyEmpty
<1> HIDE DEF copy
<1>4. \A d \in drafts : /\ d \in H!WalletRecord /\ d.paused = wallet.paused
                         /\ H!WithoutPolicyEmpty(d)
  BY <1>3
<1> HIDE DEF drafts
<1>5. /\ transfer' \in H!Transfer
      /\ transfer'.stage = "reserving" /\ transfer'.mode = transfer.mode
      /\ transfer'.before = transfer.before /\ transfer'.edge = transfer.edge
      /\ transfer'.held = transfer.held /\ transfer'.draft = drafts
      /\ transfer'.after = transfer.after
  BY <1>1, <1>4, HotFacts DEF H!Transfer, H!Signed
<1>6. H!HotTyped'
  BY <1>1, <1>5 DEF H!HotIInv, H!HotTyped, H!Signed
<1>7. H!ChecksWereMade'
  BY <1>1, <1>5 DEF H!HotIInv, H!ChecksWereMade, H!Signed
<1>8. H!PauseIsMarked' /\ H!DraftsAreRecords' /\ H!LimitsAreGiven'
  BY <1>1, <1>4, <1>5
  DEF H!HotIInv, H!DraftsAreRecords, H!LimitsAreGiven, H!PauseIsMarked
<1> QED
  BY <1>6, <1>7, <1>8 DEF H!HotIInv

LEMMA TransferEnd ==
    ASSUME H!HotIInv, H!ReservationWritten \/ H!TransferEnds
    PROVE  H!HotIInv'
<1>1. transfer' = H!NoTransfer /\ UNCHANGED <<now, owner, walletCalls, pauseHeld>>
  BY DEF H!TransferEnds, H!ReservationWritten
<1>2. wallet' = wallet \/ wallet' \in transfer.draft
  BY DEF H!TransferEnds, H!ReservationWritten
<1>3. /\ wallet' \in H!WalletRecord /\ H!WithoutPolicyEmpty(wallet')
      /\ pauseHeld = "alone" => wallet'.paused
  BY <1>2, HotFacts
  DEF H!HotIInv, H!DraftsAreRecords, H!PauseIsMarked, H!Transfer
<1>4. H!NoTransfer \in H!Transfer
  BY DEF H!NoTransfer, H!NoRequest, H!Transfer, H!Asked
<1>5. /\ transfer'.stage = "none" /\ transfer'.mode = "none"
      /\ transfer'.held = "no" /\ transfer'.draft = {}
  BY <1>1 DEF H!NoTransfer
<1>6. H!HotTyped'
  BY <1>1, <1>3, <1>4, <1>5 DEF H!HotIInv, H!HotTyped, H!Signed
<1>7. H!ChecksWereMade'
  BY <1>5 DEF H!ChecksWereMade, H!Signed
<1>8. H!PauseIsMarked' /\ H!DraftsAreRecords' /\ H!LimitsAreGiven'
  BY <1>1, <1>3, <1>5
  DEF H!HotIInv, H!DraftsAreRecords, H!LimitsAreGiven, H!PauseIsMarked
<1> QED
  BY <1>6, <1>7, <1>8 DEF H!HotIInv

LEMMA ClockTicks ==
    ASSUME H!HotIInv, H!Tick
    PROVE  H!HotIInv'
<1>1. now' \in 0..MaxTime
  BY HotFacts, LimitsAssumption DEF H!Tick
<1> QED
  BY <1>1
  DEF H!Tick, H!HotIInv, H!HotTyped, H!DraftsAreRecords, H!LimitsAreGiven, H!PauseIsMarked,
      H!ChecksWereMade

LEMMA HotStep ==
    ASSUME H!HotIInv, H!Next
    PROVE  H!HotIInv'
  BY LimitsStart, OwnerBegins, ChangeRead, CapsWrite, MetadataWrite, OwnerRests,
     TransferCheck, TransferSign, Reserve, TransferEnd, ClockTicks
  DEF H!Next

LEMMA HotUnchanged ==
    ASSUME H!HotIInv, UNCHANGED walletVars
    PROVE  H!HotIInv'
  BY DEF walletVars, H!HotIInv, H!HotTyped, H!DraftsAreRecords, H!LimitsAreGiven,
         H!PauseIsMarked, H!ChecksWereMade

-----------------------------------------------------------------------------
(* The advice and the report.                                               *)
Least(a, b) == IF a <= b THEN a ELSE b

LEMMA LeastOfTwo == ASSUME NEW a \in Int, NEW b \in Int PROVE H!Min({a, b}) = Least(a, b)
<1>1. Least(a, b) \in {a, b} /\ \A y \in {a, b} : Least(a, b) <= y
  BY DEF Least
<1>2. \A x \in {a, b} : (\A y \in {a, b} : x <= y) => x = Least(a, b)
  BY DEF Least
<1> QED
  BY <1>1, <1>2 DEF H!Min

(* What the score loses whatever is pending, and what it is.                *)
Lost(w) ==
    (IF w.protection = "local_machine_key" THEN 20 ELSE 0) + (IF w.low THEN 15 ELSE 0)
        + (IF \E e \in w.expires : e <= now THEN 15 ELSE 0)
LostInAll(w, s, t, f) == Lost(w) + Least(25, s * 8) + Least(15, t * 5) + Least(20, f * 5)

LEMMA Scored ==
    ASSUME NEW w, NEW s \in Nat, NEW t \in Nat, NEW f \in Nat
    PROVE  H!Score(w, s, t, f) =
             IF LostInAll(w, s, t, f) > 100 THEN 0 ELSE 100 - LostInAll(w, s, t, f)
<1>1. /\ H!Min({25, s * 8}) = Least(25, s * 8) /\ Least(25, s * 8) \in Nat
      /\ H!Min({15, t * 5}) = Least(15, t * 5) /\ Least(15, t * 5) \in Nat
      /\ H!Min({20, f * 5}) = Least(20, f * 5) /\ Least(20, f * 5) \in Nat
  BY LeastOfTwo DEF Least
<1> QED
  BY <1>1 DEF H!Score, LostInAll, Lost

LEMMA MoreIsWorse ==
    ASSUME NEW w, NEW s \in Nat, NEW t \in Nat, NEW f \in Nat
    PROVE  /\ H!Score(w, s, t, f) >= H!Score(w, s + 1, t, f)
           /\ H!Score(w, s, t, f) >= H!Score(w, s, t + 1, f)
           /\ H!Score(w, s, t, f) >= H!Score(w, s, t, f + 1)
<1>1. Lost(w) \in Nat
  BY DEF Lost
<1>2. /\ LostInAll(w, s, t, f) \in Nat
      /\ LostInAll(w, s + 1, t, f) \in Nat
      /\ LostInAll(w, s, t + 1, f) \in Nat
      /\ LostInAll(w, s, t, f + 1) \in Nat
      /\ LostInAll(w, s, t, f) <= LostInAll(w, s + 1, t, f)
      /\ LostInAll(w, s, t, f) <= LostInAll(w, s, t + 1, f)
      /\ LostInAll(w, s, t, f) <= LostInAll(w, s, t, f + 1)
  BY <1>1 DEF LostInAll, Least
<1>3. s + 1 \in Nat /\ t + 1 \in Nat /\ f + 1 \in Nat
  OBVIOUS
<1> QED
  BY <1>2, <1>3, Scored

LEMMA AdviceAgrees ==
    ASSUME NEW w \in H!WalletRecord, NEW r \in H!Requests
    PROVE  H!Tier(r.amount, {w.max}, {}, w.low, TRUE) = "agent_hot_wallet"
             <=> H!Simulate(w, r) \cap {"disabled", "amount"} = {}
<1>1. r.amount \in Nat /\ w.max \in Nat /\ w.low \in BOOLEAN
  BY LimitsAssumption DEF H!Requests, H!WalletRecord
<1>2. H!Tier(r.amount, {w.max}, {}, w.low, TRUE) = "agent_hot_wallet"
        <=> w.low /\ r.amount <= w.max
  BY DEF H!Tier
<1>3. H!Simulate(w, r) \cap {"disabled", "amount"} = {} <=> w.low /\ ~(r.amount > w.max)
  BY <1>1 DEF H!Simulate
<1>4. ~(r.amount > w.max) <=> r.amount <= w.max
  BY <1>1
<1> QED
  BY <1>1, <1>2, <1>3, <1>4, Zenon

-----------------------------------------------------------------------------
(* Pauses, new limits, moves of the books and transfers may interleave in   *)
(* any way, each reading wallets.json and later writing back what it read. *)
THEOREM WalletInvariance == MarketSpec => []WalletInv
<1>1. MarketInit => WalletInv
  BY HotInit DEF MarketInit, WalletInv
<1>2. WalletInv /\ [MarketNext]_marketVars => WalletInv'
  <2> SUFFICES ASSUME WalletInv, [MarketNext]_marketVars, part' = "wallet"
               PROVE  H!HotIInv'
    BY DEF WalletInv
  <2>1. part = "wallet" /\ H!HotIInv
    BY DEF WalletInv, MarketNext, marketVars
  <2>2. CASE MarketNext
    BY <2>1, <2>2, HotStep DEF MarketNext
  <2>3. CASE UNCHANGED marketVars
    BY <2>1, <2>3, HotUnchanged DEF marketVars
  <2> QED
    BY <2>2, <2>3
<1> QED
  BY <1>1, <1>2, PTL DEF MarketSpec

(* What the backend signs on its own, the simulation would have let pass,   *)
(* but for the counterparty and the very moment of the expiry; and nothing  *)
(* is signed that was checked after a pause whose mark no draft of another *)
(* call could erase (wallet_safety.ts, updateAgentWalletMetadata).         *)
THEOREM SigningHolds == MarketSpec => []HotSigningHolds
<1>1. WalletInv => HotSigningHolds
  <2> SUFFICES ASSUME H!HotIInv PROVE H!HotSigningHolds
    BY DEF WalletInv, HotSigningHolds
  <2>1. H!SignedAsSimulated
    <3> SUFFICES ASSUME transfer.mode = "low_value",
                        NEW v \in transfer.before \cap transfer.after,
                        v # "counterparty"
                 PROVE  transfer.edge /\ v = "expired"
      BY DEF H!SignedAsSimulated
    <3>1. transfer.stage \in H!Signed /\ v \in H!Reasons
      BY HotFacts DEF H!HotIInv, H!HotTyped, H!Transfer
    <3> QED
      BY <3>1 DEF H!HotIInv, H!ChecksWereMade, H!Reasons
  <2>2. H!PauseHolds
    BY DEF H!HotIInv, H!ChecksWereMade, H!PauseHolds
  <2> QED
    BY <2>1, <2>2 DEF H!HotSigningHolds
<1> QED
  BY <1>1, WalletInvariance, PTL

(* The hot wallet is advised exactly for what its cap allows, and nothing   *)
(* pending or failed improves the report (explainWalletThresholds,          *)
(* profileRisk).                                                            *)
THEOREM AdviceHolds == MarketSpec => []ReportsAgree
<1>1. WalletInv => ReportsAgree
  <2> SUFFICES ASSUME H!HotIInv PROVE H!ReportsAgree
    BY DEF WalletInv, ReportsAgree
  <2>1. {0, 1, 3} \subseteq Nat
    OBVIOUS
  <2> QED
    BY <2>1, HotFacts, AdviceAgrees, MoreIsWorse DEF H!ReportsAgree
<1> QED
  BY <1>1, WalletInvariance, PTL

-----------------------------------------------------------------------------
(* The evaluations of an order, and what its summary makes of them.         *)
LEMMA GateConstants ==
    /\ \A t \in OrderTasks :
          t # Null /\ t.tool \in G!OrderTools /\ t.tool # "merchant_policy"
    /\ \A v \in Vendors, p \in PolicyPatches \cup {Null} :
          [tool |-> "merchant_policy", vendor |-> v, patch |-> p] # Null
<1>1. \A v \in Vendors, p \in PolicyPatches \cup {Null} :
         [tool |-> "merchant_policy", vendor |-> v, patch |-> p]
           \in [tool: {"merchant_policy"}, vendor: Vendors, patch: PolicyPatches \cup {Null}]
  OBVIOUS
<1>2. \A t \in OrderTasks : G!IsOrderTask(t) /\ t # Null
  BY GateAssumption
<1>3. \A t \in OrderTasks : t.tool \in G!OrderTools
  BY <1>2 DEF G!IsOrderTask
<1> QED
  BY <1>1, <1>2, <1>3, GateAssumption DEF G!OrderTools

(* An evaluation is not ok exactly when it has violations, and a blocking   *)
(* level is never given without one.                                        *)
Consistent(e) ==
    /\ e.ok \in BOOLEAN /\ e.violations \in BOOLEAN
    /\ e.violations <=> ~e.ok
    /\ e.level \in {"blocked", "block"} => e.violations

LEMMA EvaluationIsConsistent ==
    ASSUME NEW bad \in BOOLEAN, NEW warned, NEW level,
           level \in {"blocked", "block"} => bad
    PROVE  Consistent(G!Evaluation(~bad, bad, warned, level))
  BY DEF Consistent, G!Evaluation

LEMMA MerchantIsConsistent ==
    ASSUME NEW p, NEW v, NEW quote
    PROVE  Consistent(G!MerchantRisk(p, v, quote))
<1> DEFINE bad == G!MerchantViolated(p, v, quote)
           warned == ~p.enabled \/ ~p.allowlisted \/ Vendor[v].demo
           level == IF bad THEN "blocked"
                    ELSE IF ~p.allowlisted THEN "high"
                    ELSE IF warned THEN "medium" ELSE "low"
<1>1. CASE p = Null
  BY <1>1, EvaluationIsConsistent DEF G!MerchantRisk, Consistent, G!Evaluation
<1>2. CASE p # Null
  <2>1. bad \in BOOLEAN
    BY DEF G!MerchantViolated
  <2>2. level \in {"blocked", "block"} => bad
    OBVIOUS
  <2>3. G!MerchantRisk(p, v, quote) = G!Evaluation(~bad, bad, warned, level)
    BY <1>2 DEF G!MerchantRisk
  <2> HIDE DEF bad, warned, level
  <2> QED
    BY <2>1, <2>2, <2>3, EvaluationIsConsistent
<1> QED
  BY <1>1, <1>2

LEMMA AssetIsConsistent ==
    ASSUME NEW a, NEW useCase
    PROVE  Consistent(G!AssetPolicy(a, useCase))
<1> DEFINE bad == G!Withdrawn(a) \/ useCase \in G!BlockedUseCases(a)
           warned == Asset[a].noted \/ useCase \notin G!UseCases(a)
<1>1. bad \in BOOLEAN
  OBVIOUS
<1>2. G!AssetLevel(a) \in {"blocked", "block"} => bad
  BY DEF G!AssetLevel
<1>3. G!AssetPolicy(a, useCase) = G!Evaluation(~bad, bad, warned, G!AssetLevel(a))
  BY DEF G!AssetPolicy
<1> HIDE DEF bad, warned
<1> QED
  BY <1>1, <1>2, <1>3, EvaluationIsConsistent

LEMMA ScreenIsConsistent ==
    ASSUME NEW t
    PROVE  Consistent(G!CommerceSafety(t))
<1> DEFINE words == t.words \cup Vendor[t.vendor].words
           bad == "blocked" \in words
           warned == "restricted" \in words
           level == IF bad THEN "block" ELSE IF warned THEN "warn" ELSE "allow"
<1>1. bad \in BOOLEAN /\ (level \in {"blocked", "block"} => bad)
  OBVIOUS
<1>2. G!CommerceSafety(t) = G!Evaluation(~bad, bad, warned, level)
  BY DEF G!CommerceSafety
<1> HIDE DEF words, bad, warned, level
<1> QED
  BY <1>1, <1>2, EvaluationIsConsistent

LEMMA SummaryIsTrue ==
    ASSUME NEW t, NEW p
    PROVE  /\ G!RenderRisk(G!Evaluations(t, p)).ok <=> G!Permitted(t, p)
           /\ G!RenderRisk(G!Evaluations(t, p)).level = "blocked" <=> ~G!Permitted(t, p)
<1> DEFINE es == G!Evaluations(t, p)
<1>1. \A e \in es : Consistent(e)
  BY MerchantIsConsistent, ScreenIsConsistent, AssetIsConsistent DEF G!Evaluations
<1>2. G!Permitted(t, p) <=> \A e \in es : e.ok
  BY DEF G!Permitted
<1> HIDE DEF es
<1>3. G!RenderRisk(es).ok <=> \A e \in es : ~e.violations /\ e.ok
  BY DEF G!RenderRisk
<1>4. (\A e \in es : ~e.violations /\ e.ok) <=> \A e \in es : e.ok
  BY <1>1 DEF Consistent
<1>5. G!RiskLevel(es) = "blocked" <=>
         \E e \in es : e.violations \/ e.level \in {"blocked", "block"}
  BY DEF G!RiskLevel
<1>6. (\E e \in es : e.violations \/ e.level \in {"blocked", "block"})
         <=> ~(\A e \in es : e.ok)
  BY <1>1 DEF Consistent
<1>7. G!RenderRisk(es).level = G!RiskLevel(es)
  BY DEF G!RenderRisk
<1>8. G!RenderRisk(es).ok <=> G!Permitted(t, p)
  BY <1>2, <1>3, <1>4, Zenon
<1>9. G!RenderRisk(es).level = "blocked" <=> ~G!Permitted(t, p)
  BY <1>2, <1>5, <1>6, <1>7, Zenon
<1> QED
  BY <1>8, <1>9 DEF es

LEMMA DeniedIsRefused ==
    ASSUME NEW t, NEW p, G!Denies(p)
    PROVE  ~G!Permitted(t, p)
<1>1. p # Null /\ G!MerchantViolated(p, t.vendor, G!Quote(t))
  BY DEF G!Denies, G!MerchantViolated
<1>2. ~G!MerchantRisk(p, t.vendor, G!Quote(t)).ok
  BY <1>1 DEF G!MerchantRisk, G!Evaluation
<1>3. G!MerchantRisk(p, t.vendor, G!Quote(t)) \in G!Evaluations(t, p)
  BY DEF G!Evaluations
<1> QED
  BY <1>2, <1>3 DEF G!Permitted

(* What a patch makes of a policy: every field it does not name is kept.    *)
LEMMA UpsertedKeeps ==
    ASSUME NEW current, current # Null, NEW patch
    PROVE  \A f \in G!Fields \ DOMAIN patch : G!Upserted(current, patch)[f] = current[f]
  BY DEF G!Upserted, G!Fields

Single(p) == G!Cardinality(p.max) <= 1

LEMMA NoCap == G!Cardinality({}) <= 1
<1>1. \A A : G!Cardinality(A) = Cardinality(A)
  BY DEF Cardinality, G!Cardinality, IsFiniteSet, G!IsFiniteSet
<1>2. Cardinality({}) = 0
  BY FS_EmptySet
<1> QED
  BY <1>1, <1>2

LEMMA UpsertedIsPolicy ==
    ASSUME NEW current \in G!Policy \cup {Null}, NEW patch \in PolicyPatches,
           current # Null => Single(current)
    PROVE  /\ G!Upserted(current, patch) \in G!Policy
           /\ G!Upserted(current, patch) # Null
           /\ Single(G!Upserted(current, patch))
<1> DEFINE base == IF current = Null THEN G!DefaultPolicy ELSE current
           next == G!Upserted(current, patch)
<1>1. G!Fields = {"enabled", "allowlisted", "denylisted", "max", "assets", "categories"}
  BY DEF G!Fields, G!DefaultPolicy
<1>2. G!IsPatch(patch)
  BY GateAssumption
<1>3. G!DefaultPolicy \in G!Policy /\ G!DefaultPolicy.max = {}
  BY DEF G!DefaultPolicy, G!Policy
<1>4. base \in G!Policy /\ Single(base)
  BY <1>3, NoCap DEF Single
<1>5. next = [f \in G!Fields |-> IF f \in DOMAIN patch THEN patch[f] ELSE base[f]]
  BY DEF G!Upserted, G!Fields
<1> HIDE DEF base, next
<1>6. /\ base.enabled \in BOOLEAN /\ base.allowlisted \in BOOLEAN /\ base.denylisted \in BOOLEAN
      /\ base.max \in SUBSET Nat /\ base.assets \in SUBSET Symbols
      /\ base.categories \in SUBSET STRING
  BY <1>4 DEF G!Policy
<1>7. next.enabled \in BOOLEAN /\ next.allowlisted \in BOOLEAN /\ next.denylisted \in BOOLEAN
  BY <1>1, <1>2, <1>5, <1>6 DEF G!IsPatch
<1>8. next.max \in SUBSET Nat /\ Single(next)
  BY <1>1, <1>2, <1>4, <1>5, <1>6 DEF G!IsPatch, Single
<1>9. next.assets \in SUBSET Symbols /\ next.categories \in SUBSET STRING
  BY <1>1, <1>2, <1>5, <1>6 DEF G!IsPatch
<1>10. next = [enabled |-> next.enabled, allowlisted |-> next.allowlisted,
               denylisted |-> next.denylisted, max |-> next.max, assets |-> next.assets,
               categories |-> next.categories]
  BY <1>1, <1>5
<1>11. next \in G!Policy
  BY <1>7, <1>8, <1>9, <1>10 DEF G!Policy
<1> QED
  BY <1>8, <1>11, GateAssumption DEF next

-----------------------------------------------------------------------------
(* The calls.                                                               *)
LEMMA GateInit == G!Init => G!GateIInv
<1> SUFFICES ASSUME G!Init PROVE G!GateIInv
  OBVIOUS
<1>1. G!CallsTyped
  <2>1. policies \in G!File /\ \A v \in Vendors : policies[v] = Null
    BY DEF G!Init, G!File
  <2>2. gateOpened \in 0..MaxOrderCalls
    BY GateAssumption DEF G!Init
  <2>3. /\ gatePc \in [Calls -> {"idle", "reading", "writing", "deciding"}]
        /\ since \in [Calls -> BOOLEAN]
        /\ gateTask = [c \in Calls |-> gateTask[c]] /\ gateRead = [c \in Calls |-> gateRead[c]]
        /\ denied \subseteq Vendors /\ gateRaced \in BOOLEAN
    BY DEF G!Init
  <2> QED
    BY <2>1, <2>2, <2>3 DEF G!CallsTyped
<1>2. ASSUME NEW c \in Calls PROVE G!AskedAndRead(c) /\ G!DenialStands(c)
  BY DEF G!Init, G!AskedAndRead, G!DenialStands
<1> QED
  BY <1>1, <1>2 DEF G!Init, G!GateIInv, G!SummaryTellsTheOutcome, G!DenialHolds

LEMMA GateFacts ==
    ASSUME G!GateIInv, NEW c \in Calls
    PROVE  /\ G!CallsTyped /\ G!AskedAndRead(c) /\ G!DenialStands(c)
           /\ ~gateRaced => \A v \in denied : G!Denies(policies[v])
  BY DEF G!GateIInv

(* A step of one call that keeps the file and the answer: what is left to   *)
(* show is about that call, and that nobody's denial is forgotten.          *)
LEMMA OneCaller ==
    ASSUME G!GateIInv, NEW c \in Calls,
           UNCHANGED <<policies, answer, gateRaced>>,
           gatePc' = [gatePc EXCEPT ![c] = gatePc'[c]],
           gateTask' = [gateTask EXCEPT ![c] = gateTask'[c]],
           gateRead' = [gateRead EXCEPT ![c] = gateRead'[c]],
           gatePc'[c] \in {"idle", "reading", "writing", "deciding"},
           gateOpened' \in 0..MaxOrderCalls,
           since' \in [Calls -> BOOLEAN], denied' \subseteq denied,
           G!AskedAndRead(c)', G!DenialStands(c)',
           \A d \in Calls \ {c} : since'[d] => since[d] /\ gateTask[d].vendor \in denied'
    PROVE  G!GateIInv'
<1>1. G!CallsTyped
  BY DEF G!GateIInv
<1>2. G!CallsTyped'
  BY <1>1 DEF G!CallsTyped
<1>3. ASSUME NEW d \in Calls \ {c} PROVE G!AskedAndRead(d)' /\ G!DenialStands(d)'
  <2>1. G!AskedAndRead(d) /\ G!DenialStands(d)
    BY DEF G!GateIInv
  <2>2. gatePc'[d] = gatePc[d] /\ gateTask'[d] = gateTask[d] /\ gateRead'[d] = gateRead[d]
    BY <1>1 DEF G!CallsTyped
  <2>3. since[d] \in BOOLEAN /\ since'[d] \in BOOLEAN
    BY <1>1, <1>2 DEF G!CallsTyped
  <2>4. since'[d] => since[d] /\ gateTask[d].vendor \in denied'
    OBVIOUS
  <2>5. G!AskedAndRead(d)'
    BY <2>1, <2>2, <2>3, <2>4 DEF G!AskedAndRead
  <2>6. G!DenialStands(d)'
    BY <2>1, <2>2, <2>3, <2>4 DEF G!DenialStands
  <2> QED
    BY <2>5, <2>6
<1>4. \A d \in Calls : G!AskedAndRead(d)' /\ G!DenialStands(d)'
  BY <1>3
<1>5. (~gateRaced => \A v \in denied : G!Denies(policies[v]))'
  BY DEF G!GateIInv, G!Denies
<1>6. G!SummaryTellsTheOutcome' /\ G!DenialHolds'
  BY DEF G!GateIInv, G!SummaryTellsTheOutcome, G!DenialHolds
<1> QED
  BY <1>2, <1>4, <1>5, <1>6 DEF G!GateIInv

LEMMA PolicyBegin ==
    ASSUME G!GateIInv, NEW c \in Calls, NEW v \in Vendors,
           NEW patch \in PolicyPatches \cup {Null}, G!BeginPolicy(c, v, patch)
    PROVE  G!GateIInv'
<1> DEFINE t == [tool |-> "merchant_policy", vendor |-> v, patch |-> patch]
<1>1. G!CallsTyped /\ G!AskedAndRead(c) /\ G!DenialStands(c)
  BY GateFacts
<1>2. t # Null /\ t.tool = "merchant_policy" /\ t.vendor = v /\ G!IsPolicyTask(t)
  BY GateConstants DEF G!IsPolicyTask
<1> HIDE DEF t
<1>3. /\ UNCHANGED <<policies, answer, gateRaced>>
      /\ gatePc[c] = "idle" /\ gatePc' = [gatePc EXCEPT ![c] = "reading"]
      /\ gateTask' = [gateTask EXCEPT ![c] = t] /\ gateRead' = gateRead
      /\ gateOpened < MaxOrderCalls /\ gateOpened' = gateOpened + 1
      /\ denied' = denied \ {v}
      /\ since' = [d \in Calls |-> since[d] /\ gateTask[d].vendor # v]
  BY DEF G!BeginPolicy, G!Begin, t
<1>4. gatePc'[c] = "reading" /\ gateTask'[c] = t
  BY <1>1, <1>3 DEF G!CallsTyped
<1>5. ~since[c] /\ ~since'[c]
  BY <1>1, <1>3 DEF G!AskedAndRead
<1>6. gateOpened' \in 0..MaxOrderCalls
  BY <1>1, <1>3, GateAssumption DEF G!CallsTyped
<1>7. since' \in [Calls -> BOOLEAN] /\ denied' \subseteq denied
  BY <1>3
<1>8. /\ gatePc' = [gatePc EXCEPT ![c] = gatePc'[c]]
      /\ gateTask' = [gateTask EXCEPT ![c] = gateTask'[c]]
      /\ gateRead' = [gateRead EXCEPT ![c] = gateRead'[c]]
  BY <1>1, <1>3, <1>4 DEF G!CallsTyped
<1>9. G!AskedAndRead(c)'
  BY <1>2, <1>4, <1>5 DEF G!AskedAndRead, G!IsPolicyTask
<1>10. G!DenialStands(c)'
  BY <1>2, <1>3, <1>4, <1>5 DEF G!DenialStands
<1>11. \A d \in Calls \ {c} : since'[d] => since[d] /\ gateTask[d].vendor \in denied'
  BY <1>3 DEF G!GateIInv, G!DenialStands
<1> QED
  BY <1>3, <1>4, <1>6, <1>7, <1>8, <1>9, <1>10, <1>11, OneCaller

LEMMA PoliciesRead ==
    ASSUME G!GateIInv, NEW c \in Calls, G!ReadPolicies(c)
    PROVE  G!GateIInv'
<1>1. G!CallsTyped /\ G!AskedAndRead(c) /\ G!DenialStands(c)
  BY GateFacts
<1>2. /\ UNCHANGED <<policies, answer, gateTask, gateOpened, denied, since, gateRaced>>
      /\ gatePc[c] = "reading" /\ gatePc' = [gatePc EXCEPT ![c] = "writing"]
      /\ gateTask[c].tool = "merchant_policy"
      /\ gateRead' = [gateRead EXCEPT ![c] = policies]
  BY DEF G!ReadPolicies
<1>3. gatePc'[c] = "writing" /\ gateRead'[c] = policies
  BY <1>1, <1>2 DEF G!CallsTyped
<1>4. G!IsPolicyTask(gateTask[c]) /\ gateTask[c] # Null
  BY <1>1, <1>2, GateConstants DEF G!AskedAndRead
<1>5. G!AskedAndRead(c)'
  BY <1>1, <1>2, <1>3, <1>4 DEF G!AskedAndRead, G!CallsTyped, G!IsPolicyTask, G!File, G!Policy
<1>6. G!DenialStands(c)'
  BY <1>1, <1>2, <1>3 DEF G!DenialStands
<1>7. \A d \in Calls \ {c} : since'[d] => since[d] /\ gateTask[d].vendor \in denied'
  BY <1>2 DEF G!GateIInv, G!DenialStands
<1>8. /\ gatePc' = [gatePc EXCEPT ![c] = gatePc'[c]]
      /\ gateTask' = [gateTask EXCEPT ![c] = gateTask'[c]]
      /\ gateRead' = [gateRead EXCEPT ![c] = gateRead'[c]]
  BY <1>1, <1>2, <1>3 DEF G!CallsTyped
<1> QED
  BY <1>1, <1>2, <1>3, <1>5, <1>6, <1>7, <1>8, OneCaller DEF G!CallsTyped

LEMMA OrderBegin ==
    ASSUME G!GateIInv, NEW c \in Calls, NEW t \in OrderTasks, G!BeginOrder(c, t)
    PROVE  G!GateIInv'
<1>1. G!CallsTyped /\ G!AskedAndRead(c) /\ G!DenialStands(c)
  BY GateFacts
<1>2. t # Null /\ t.tool # "merchant_policy"
  BY GateConstants
<1>3. /\ UNCHANGED <<policies, answer, gateRaced, denied>>
      /\ gatePc[c] = "idle" /\ gatePc' = [gatePc EXCEPT ![c] = "reading"]
      /\ gateTask' = [gateTask EXCEPT ![c] = t] /\ gateRead' = gateRead
      /\ gateOpened < MaxOrderCalls /\ gateOpened' = gateOpened + 1
      /\ since' = [since EXCEPT ![c] = t.vendor \in denied]
  BY DEF G!BeginOrder, G!Begin
<1>4. gatePc'[c] = "reading" /\ gateTask'[c] = t /\ (since'[c] <=> t.vendor \in denied)
  BY <1>1, <1>3 DEF G!CallsTyped
<1>5. gateOpened' \in 0..MaxOrderCalls
  BY <1>1, <1>3, GateAssumption DEF G!CallsTyped
<1>6. since' \in [Calls -> BOOLEAN]
  BY <1>1, <1>3 DEF G!CallsTyped
<1>7. G!AskedAndRead(c)'
  BY <1>2, <1>4 DEF G!AskedAndRead
<1>8. G!DenialStands(c)'
  BY <1>2, <1>3, <1>4 DEF G!DenialStands
<1>9. \A d \in Calls \ {c} : since'[d] => since[d] /\ gateTask[d].vendor \in denied'
  BY <1>1, <1>3 DEF G!GateIInv, G!DenialStands, G!CallsTyped
<1>10. /\ gatePc' = [gatePc EXCEPT ![c] = gatePc'[c]]
       /\ gateTask' = [gateTask EXCEPT ![c] = gateTask'[c]]
       /\ gateRead' = [gateRead EXCEPT ![c] = gateRead'[c]]
  BY <1>1, <1>3, <1>4 DEF G!CallsTyped
<1> QED
  BY <1>3, <1>4, <1>5, <1>6, <1>7, <1>8, <1>9, <1>10, OneCaller

LEMMA PolicyRead ==
    ASSUME G!GateIInv, NEW c \in Calls, G!ReadPolicy(c)
    PROVE  G!GateIInv'
<1>1. /\ G!CallsTyped /\ G!AskedAndRead(c) /\ G!DenialStands(c)
      /\ ~gateRaced => \A v \in denied : G!Denies(policies[v])
  BY GateFacts
<1>2. /\ UNCHANGED <<policies, answer, gateTask, gateOpened, denied, since, gateRaced>>
      /\ gatePc[c] = "reading" /\ gatePc' = [gatePc EXCEPT ![c] = "deciding"]
      /\ gateTask[c].tool \in G!OrderTools
      /\ gateRead' = [gateRead EXCEPT ![c] = policies[gateTask[c].vendor]]
  BY DEF G!ReadPolicy
<1>3. gatePc'[c] = "deciding" /\ gateRead'[c] = policies[gateTask[c].vendor]
  BY <1>1, <1>2 DEF G!CallsTyped
<1>4. gateTask[c] \in OrderTasks /\ gateTask[c] # Null
  BY <1>1, <1>2 DEF G!AskedAndRead, G!IsPolicyTask, G!OrderTools
<1>5. G!AskedAndRead(c)'
  BY <1>1, <1>2, <1>3, <1>4 DEF G!AskedAndRead
<1>6. G!DenialStands(c)'
  BY <1>1, <1>2, <1>3 DEF G!DenialStands, G!OrderTools, G!Denies
<1>7. \A d \in Calls \ {c} : since'[d] => since[d] /\ gateTask[d].vendor \in denied'
  BY <1>2 DEF G!GateIInv, G!DenialStands
<1>8. /\ gatePc' = [gatePc EXCEPT ![c] = gatePc'[c]]
      /\ gateTask' = [gateTask EXCEPT ![c] = gateTask'[c]]
      /\ gateRead' = [gateRead EXCEPT ![c] = gateRead'[c]]
  BY <1>1, <1>2, <1>3 DEF G!CallsTyped
<1> QED
  BY <1>1, <1>2, <1>3, <1>5, <1>6, <1>7, <1>8, OneCaller DEF G!CallsTyped

(* The call that returns: nothing is left of it.                            *)
LEMMA Returned ==
    ASSUME G!GateIInv, NEW c \in Calls, G!Done(c)
    PROVE  /\ gatePc'[c] = "idle" /\ gateTask'[c] = Null /\ ~since'[c]
           /\ gatePc' \in [Calls -> {"idle", "reading", "writing", "deciding"}]
           /\ gateTask' = [d \in Calls |-> gateTask'[d]]
           /\ gateRead' = [d \in Calls |-> gateRead'[d]]
           /\ since' \in [Calls -> BOOLEAN]
           /\ \A d \in Calls \ {c} :
                 /\ gatePc'[d] = gatePc[d] /\ gateTask'[d] = gateTask[d]
                 /\ gateRead'[d] = gateRead[d] /\ since'[d] = since[d]
           /\ \A d \in Calls : G!AskedAndRead(d)'
<1>1. G!CallsTyped /\ \A d \in Calls : G!AskedAndRead(d)
  BY DEF G!GateIInv
<1>2. /\ gatePc' = [gatePc EXCEPT ![c] = "idle"] /\ gateTask' = [gateTask EXCEPT ![c] = Null]
      /\ gateRead' = [gateRead EXCEPT ![c] = Null] /\ since' = [since EXCEPT ![c] = FALSE]
  BY DEF G!Done
<1>3. gatePc'[c] = "idle" /\ gateTask'[c] = Null /\ ~since'[c]
  BY <1>1, <1>2 DEF G!CallsTyped
<1>4. /\ gatePc' \in [Calls -> {"idle", "reading", "writing", "deciding"}]
      /\ gateTask' = [d \in Calls |-> gateTask'[d]]
      /\ gateRead' = [d \in Calls |-> gateRead'[d]]
      /\ since' \in [Calls -> BOOLEAN]
  BY <1>1, <1>2 DEF G!CallsTyped
<1>5. \A d \in Calls \ {c} :
         /\ gatePc'[d] = gatePc[d] /\ gateTask'[d] = gateTask[d]
         /\ gateRead'[d] = gateRead[d] /\ since'[d] = since[d]
  BY <1>1, <1>2 DEF G!CallsTyped
<1>6. G!AskedAndRead(c)'
  BY <1>3 DEF G!AskedAndRead
<1>7. ASSUME NEW d \in Calls \ {c} PROVE G!AskedAndRead(d)'
  BY <1>1, <1>5 DEF G!AskedAndRead
<1> QED
  BY <1>3, <1>4, <1>5, <1>6, <1>7

LEMMA OrderDecide ==
    ASSUME G!GateIInv, NEW c \in Calls, G!Decide(c)
    PROVE  G!GateIInv'
<1>1. /\ G!CallsTyped /\ G!AskedAndRead(c) /\ G!DenialStands(c)
      /\ ~gateRaced => \A v \in denied : G!Denies(policies[v])
  BY GateFacts
<1> DEFINE t == gateTask[c]
           p == gateRead[c]
           permitted == G!Permitted(t, p)
<1>2. /\ gatePc[c] = "deciding" /\ G!Done(c)
      /\ UNCHANGED <<policies, gateOpened, denied, gateRaced>>
      /\ answer' = [tool |-> t.tool, permitted |-> permitted,
                    summary |-> G!RenderRisk(G!Evaluations(t, p)),
                    denied |-> since[c] /\ ~gateRaced]
  BY DEF G!Decide, G!Answer
<1>3. permitted \in BOOLEAN /\ gateRaced \in BOOLEAN /\ since[c] \in BOOLEAN
  BY <1>1 DEF G!Permitted, G!CallsTyped
<1>4. /\ G!RenderRisk(G!Evaluations(t, p)).ok <=> permitted
      /\ G!RenderRisk(G!Evaluations(t, p)).level = "blocked" <=> ~permitted
  BY SummaryIsTrue
<1>5. since[c] /\ ~gateRaced => ~permitted
  BY <1>1, <1>2, DeniedIsRefused DEF G!DenialStands
<1> HIDE DEF t, p, permitted
<1>6. G!SummaryTellsTheOutcome'
  BY <1>2, <1>3, <1>4 DEF G!SummaryTellsTheOutcome
<1>7. G!DenialHolds'
  BY <1>2, <1>3, <1>5 DEF G!DenialHolds
<1>8. G!CallsTyped' /\ \A d \in Calls : G!AskedAndRead(d)'
  BY <1>1, <1>2, Returned DEF G!CallsTyped
<1>9. ASSUME NEW d \in Calls PROVE G!DenialStands(d)'
  <2>1. CASE d = c
    BY <1>2, <2>1, Returned DEF G!DenialStands
  <2>2. CASE d # c
    BY <1>2, <2>2, Returned DEF G!DenialStands, G!GateIInv
  <2> QED
    BY <2>1, <2>2
<1>10. (~gateRaced => \A v \in denied : G!Denies(policies[v]))'
  BY <1>1, <1>2 DEF G!Denies
<1> QED
  BY <1>6, <1>7, <1>8, <1>9, <1>10 DEF G!GateIInv

(* A policy call that writes.  Unless it overwrites what it had not read it *)
(* changes only the policy it was asked about, which is not denied.         *)
LEMMA PolicyWritten ==
    ASSUME G!GateIInv, NEW c \in Calls, G!WritePolicies(c)
    PROVE  LET v == gateTask[c].vendor
               next == IF gateTask[c].patch = Null THEN Null
                       ELSE G!Upserted(gateRead[c][v], gateTask[c].patch)
           IN  /\ v \in Vendors /\ v \notin denied
               /\ policies' \in G!File
               /\ \A w \in Vendors : policies'[w] # Null => Single(policies'[w])
               /\ gateRaced \in BOOLEAN /\ gateRaced' \in BOOLEAN
               /\ ~gateRaced' =>
                     /\ ~gateRaced
                     /\ policies' = policies \/ gateRead[c] = policies
                     /\ policies' # policies => policies' = [policies EXCEPT ![v] = next]
                     /\ next # Null => policies' = [policies EXCEPT ![v] = next]
<1> DEFINE v == gateTask[c].vendor
           patch == gateTask[c].patch
           next == IF patch = Null THEN Null ELSE G!Upserted(gateRead[c][v], patch)
           written == ~(patch = Null /\ gateRead[c][v] = Null)
<1>1. G!CallsTyped /\ G!AskedAndRead(c) /\ G!DenialStands(c)
  BY GateFacts
<1>2. /\ gatePc[c] = "writing"
      /\ policies' = IF written THEN [gateRead[c] EXCEPT ![v] = next] ELSE policies
      /\ gateRaced' = (gateRaced \/ (written /\ gateRead[c] # policies))
  BY DEF G!WritePolicies, G!Writing
<1>3. /\ G!IsPolicyTask(gateTask[c]) /\ gateRead[c] \in G!File
      /\ \A w \in Vendors : gateRead[c][w] # Null => Single(gateRead[c][w])
  BY <1>1, <1>2 DEF G!AskedAndRead, Single
<1>4. v \in Vendors /\ patch \in PolicyPatches \cup {Null} /\ v \notin denied
  BY <1>1, <1>2, <1>3 DEF G!IsPolicyTask, G!DenialStands
<1>5. gateRead[c][v] \in G!Policy \cup {Null}
  BY <1>3, <1>4 DEF G!File
<1>6. next \in G!Policy \cup {Null} /\ (next # Null => Single(next))
  <2>1. CASE patch = Null
    BY <2>1
  <2>2. CASE patch # Null
    BY <1>3, <1>4, <1>5, <2>2, UpsertedIsPolicy
  <2> QED
    BY <2>1, <2>2
<1>7. patch = Null => next = Null
  OBVIOUS
<1>8. policies \in G!File /\ gateRaced \in BOOLEAN /\ written \in BOOLEAN
      /\ \A w \in Vendors : policies[w] # Null => Single(policies[w])
  BY <1>1 DEF G!CallsTyped, Single
<1>9. written \/ (patch = Null /\ ~written)
  OBVIOUS
<1> HIDE DEF v, patch, next, written
<1>10. policies' \in G!File
  BY <1>2, <1>3, <1>6, <1>8 DEF G!File
<1>11. \A w \in Vendors : policies'[w] # Null => Single(policies'[w])
  BY <1>2, <1>3, <1>6, <1>8 DEF G!File, Single
<1>12. gateRaced' \in BOOLEAN
  BY <1>2, <1>8
<1>13. ~gateRaced' =>
          /\ ~gateRaced
          /\ policies' = policies \/ gateRead[c] = policies
          /\ policies' # policies => policies' = [policies EXCEPT ![v] = next]
          /\ next # Null => policies' = [policies EXCEPT ![v] = next]
  BY <1>2, <1>7, <1>8, <1>9
<1> QED
  BY <1>4, <1>8, <1>10, <1>11, <1>12, <1>13 DEF v, next, patch

LEMMA PolicyWrite ==
    ASSUME G!GateIInv, NEW c \in Calls, G!WritePolicies(c)
    PROVE  G!GateIInv'
<1> DEFINE v == gateTask[c].vendor
           next == IF gateTask[c].patch = Null THEN Null
                   ELSE G!Upserted(gateRead[c][v], gateTask[c].patch)
           alone == \A d \in Calls \ {c} :
                      gateTask[d] # Null =>
                        ~(gateTask[d].tool = "merchant_policy" /\ gateTask[d].vendor = v)
<1>1. /\ G!CallsTyped /\ \A d \in Calls : G!AskedAndRead(d) /\ G!DenialStands(d)
      /\ ~gateRaced => \A w \in denied : G!Denies(policies[w])
  BY DEF G!GateIInv
<1>2. /\ G!Done(c) /\ UNCHANGED <<answer, gateOpened>>
      /\ denied' = IF next # Null /\ next.enabled /\ next.denylisted /\ alone
                   THEN denied \cup {v} ELSE denied
  BY DEF G!WritePolicies, G!Writing
<1>3. /\ v \in Vendors /\ v \notin denied
      /\ policies' \in G!File
      /\ \A w \in Vendors : policies'[w] # Null => Single(policies'[w])
      /\ gateRaced \in BOOLEAN /\ gateRaced' \in BOOLEAN
      /\ ~gateRaced' =>
            /\ ~gateRaced
            /\ policies' # policies => policies' = [policies EXCEPT ![v] = next]
            /\ next # Null => policies' = [policies EXCEPT ![v] = next]
  BY PolicyWritten
<1>4. alone => \A d \in Calls \ {c} :
                 gateTask[d] # Null /\ gateTask[d].tool = "merchant_policy"
                   => gateTask[d].vendor # v
  OBVIOUS
<1>5. gateRaced => gateRaced'
  BY DEF G!WritePolicies, G!Writing
<1> HIDE DEF v, next, alone
<1>6. denied \subseteq denied' /\ denied' \subseteq Vendors
  BY <1>1, <1>2, <1>3 DEF G!CallsTyped
<1>7. G!CallsTyped' /\ \A d \in Calls : G!AskedAndRead(d)'
  BY <1>1, <1>2, <1>3, <1>6, Returned DEF G!CallsTyped, Single
<1>8. ASSUME NEW d \in Calls PROVE G!DenialStands(d)'
  <2>1. CASE d = c
    BY <1>2, <2>1, Returned DEF G!DenialStands
  <2>2. CASE d # c
    <3>1. /\ gatePc'[d] = gatePc[d] /\ gateTask'[d] = gateTask[d]
          /\ gateRead'[d] = gateRead[d] /\ since'[d] = since[d]
      BY <1>2, <2>2, Returned
    <3>2. G!AskedAndRead(d) /\ G!DenialStands(d)
      BY <1>1
    <3>3. gatePc[d] # "idle" /\ gateTask[d].tool = "merchant_policy" =>
             ~since[d] /\ gateTask[d].vendor \notin denied'
      BY <1>2, <1>4, <2>2, <3>2 DEF G!AskedAndRead, G!DenialStands
    <3> QED
      BY <1>5, <1>6, <3>1, <3>2, <3>3 DEF G!DenialStands, G!Denies
  <2> QED
    BY <2>1, <2>2
<1>9. ASSUME ~gateRaced', NEW w \in denied' PROVE G!Denies(policies'[w])
  <2>1. policies \in G!File /\ w \in Vendors
    BY <1>1, <1>6 DEF G!CallsTyped
  <2>2. CASE w = v
    <3>1. next # Null /\ next.enabled /\ next.denylisted
      BY <1>2, <1>3, <2>2
    <3>2. policies'[w] = next
      BY <1>3, <1>9, <2>1, <2>2, <3>1 DEF G!File
    <3> QED
      BY <3>1, <3>2 DEF G!Denies
  <2>3. CASE w # v
    <3>1. w \in denied
      BY <1>2, <2>3
    <3>2. policies'[w] = policies[w]
      BY <1>3, <1>9, <2>1, <2>3 DEF G!File
    <3>3. G!Denies(policies[w])
      BY <1>1, <1>3, <1>9, <3>1
    <3> QED
      BY <3>2, <3>3
  <2> QED
    BY <2>2, <2>3
<1>10. (~gateRaced => \A w \in denied : G!Denies(policies[w]))'
  BY <1>9 DEF G!Denies
<1>11. G!SummaryTellsTheOutcome' /\ G!DenialHolds'
  BY <1>2 DEF G!GateIInv, G!SummaryTellsTheOutcome, G!DenialHolds
<1> QED
  BY <1>7, <1>8, <1>10, <1>11 DEF G!GateIInv

LEMMA GateStep ==
    ASSUME G!GateIInv, G!Next
    PROVE  G!GateIInv'
  BY PolicyBegin, PoliciesRead, PolicyWrite, OrderBegin, PolicyRead, OrderDecide DEF G!Next

LEMMA GateUnchanged ==
    ASSUME G!GateIInv, UNCHANGED gateVars
    PROVE  G!GateIInv'
  BY DEF gateVars, G!GateIInv, G!CallsTyped, G!AskedAndRead, G!DenialStands, G!Denies,
         G!SummaryTellsTheOutcome, G!DenialHolds

(* Policies and orders may be called, and interleave, in any way.           *)
THEOREM GateInvariance == MarketSpec => []GateInv
<1>1. MarketInit => GateInv
  BY GateInit DEF MarketInit, GateRests, GateInv
<1>2. GateInv /\ [MarketNext]_marketVars => GateInv'
  <2> SUFFICES ASSUME G!GateIInv, [MarketNext]_marketVars
               PROVE  G!GateIInv'
    BY DEF GateInv
  <2>1. CASE MarketNext
    BY <2>1, GateStep, GateUnchanged DEF MarketNext
  <2>2. CASE UNCHANGED marketVars
    BY <2>2, GateUnchanged DEF marketVars
  <2> QED
    BY <2>1, <2>2
<1> QED
  BY <1>1, <1>2, PTL DEF MarketSpec

(* The summary shown with an order tells what its gates did, and a denial   *)
(* that was acknowledged refuses whatever begins later (merchant_policy.ts, *)
(* risk_renderer.ts and the order tools).                                   *)
THEOREM PoliciesHeeded == MarketSpec => []OrdersHeedPolicies
<1>1. GateInv => OrdersHeedPolicies
  BY DEF GateInv, G!GateIInv, OrdersHeedPolicies
<1> QED
  BY <1>1, GateInvariance, PTL

(* A policy call changes what it was asked to change of one policy, unless  *)
(* it overwrites what it has not read (writeMerchantPolicyStore).           *)
THEOREM PoliciesKept == MarketSpec => PoliciesAreKept
<1>1. ASSUME G!GateIInv, NEW c \in Calls, G!WritePolicies(c), NEW v \in Vendors,
             policies'[v] # policies[v], ~gateRaced'
      PROVE  /\ gatePc[c] = "writing" /\ gatePc'[c] = "idle" /\ gateTask[c].vendor = v
             /\ gateTask[c].patch # Null /\ policies[v] # Null =>
                  /\ policies'[v] # Null
                  /\ \A f \in DOMAIN G!DefaultPolicy \ DOMAIN gateTask[c].patch :
                        policies'[v][f] = policies[v][f]
  <2> DEFINE patch == gateTask[c].patch
             next == IF patch = Null THEN Null ELSE G!Upserted(policies[v], patch)
  <2>1. G!CallsTyped /\ G!AskedAndRead(c) /\ gatePc[c] = "writing"
    BY <1>1 DEF G!GateIInv, G!WritePolicies
  <2>2. gatePc'[c] = "idle"
    BY <1>1, Returned DEF G!WritePolicies
  <2>3. gateTask[c].vendor = v
    BY <1>1, <2>1, PolicyWritten DEF G!CallsTyped, G!File
  <2>4. gateRead[c] = policies /\ policies' = [policies EXCEPT ![v] = next]
    BY <1>1, <2>3, PolicyWritten
  <2>5. policies'[v] = next /\ policies[v] \in G!Policy \cup {Null}
    BY <1>1, <2>1, <2>4 DEF G!CallsTyped, G!File
  <2>6. ASSUME patch # Null, policies[v] # Null
        PROVE  /\ policies'[v] # Null
               /\ \A f \in DOMAIN G!DefaultPolicy \ DOMAIN patch :
                     policies'[v][f] = policies[v][f]
    <3>1. patch \in PolicyPatches /\ Single(policies[v])
      BY <1>1, <2>1, <2>6 DEF G!AskedAndRead, G!IsPolicyTask, G!CallsTyped, Single
    <3>2. policies'[v] = G!Upserted(policies[v], patch)
      BY <2>5, <2>6
    <3> HIDE DEF patch, next
    <3>3. policies'[v] # Null
      BY <2>5, <3>1, <3>2, UpsertedIsPolicy
    <3> QED
      BY <2>6, <3>2, <3>3, UpsertedKeeps DEF G!Fields
  <2> QED
    BY <2>1, <2>2, <2>3, <2>6
<1>2. ASSUME G!GateIInv, [MarketNext]_marketVars, NEW v \in Vendors
      PROVE  G!ChangedAsAsked(v)
  <2> SUFFICES ASSUME policies'[v] # policies[v], ~gateRaced'
               PROVE  \E c \in Calls : G!WritePolicies(c)
    BY <1>1, <1>2 DEF G!ChangedAsAsked
  <2>1. G!Next
    BY <1>2 DEF MarketNext, marketVars, gateVars
  <2> QED
    BY <2>1
    DEF G!Next, G!BeginPolicy, G!ReadPolicies, G!BeginOrder, G!ReadPolicy, G!Decide, G!Begin
<1>3. GateInv /\ [MarketNext]_marketVars => [\A v \in Vendors : G!ChangedAsAsked(v)]_G!vars
  BY <1>2 DEF GateInv
<1> QED
  BY <1>3, GateInvariance, PTL DEF MarketSpec, PoliciesAreKept, G!PoliciesAreKept

-----------------------------------------------------------------------------
(* Counting.                                                               *)
LEMMA CountsUp ==
    ASSUME NEW A, IsFiniteSet(A), NEW x, NEW B, B \subseteq A \cup {x}
    PROVE  Cardinality(B) \in Nat /\ Cardinality(B) <= Cardinality(A) + 1
<1>0. Cardinality(A) \in Nat
  BY FS_CardinalityType
<1>1. /\ IsFiniteSet(A \cup {x})
      /\ Cardinality(A \cup {x}) = IF x \in A THEN Cardinality(A) ELSE Cardinality(A) + 1
  BY FS_AddElement
<1> QED
  BY <1>0, <1>1, FS_Subset, FS_CardinalityType

LEMMA CountsDown ==
    ASSUME NEW A, IsFiniteSet(A), NEW x \in A, NEW B, B \subseteq A \ {x}
    PROVE  Cardinality(B) \in Nat /\ Cardinality(B) + 1 <= Cardinality(A)
<1>0. Cardinality(A) \in Nat
  BY FS_CardinalityType
<1>1. /\ IsFiniteSet(A \ {x})
      /\ Cardinality(A \ {x}) = IF x \in A THEN Cardinality(A) - 1 ELSE Cardinality(A)
  BY FS_RemoveElement
<1> QED
  BY <1>0, <1>1, FS_Subset, FS_CardinalityType

LEMMA CountsKept ==
    ASSUME NEW A, IsFiniteSet(A), NEW B, B \subseteq A
    PROVE  Cardinality(B) \in Nat /\ Cardinality(B) <= Cardinality(A)
  BY FS_Subset, FS_CardinalityType

LEMMA SameCount == \A A : X!Cardinality(A) = Cardinality(A)
  BY DEF Cardinality, X!Cardinality, IsFiniteSet, X!IsFiniteSet

LEMMA SwapsAreFinite ==
    \A a : /\ IsFiniteSet(X!Swaps(a)) /\ IsFiniteSet(X!Cleared(a))
           /\ Cardinality(X!Swaps(a)) \in Nat /\ Cardinality(X!Cleared(a)) \in Nat
<1> TAKE a
<1>1. X!Swaps(a) \subseteq Ids /\ X!Cleared(a) \subseteq Calls
  BY DEF X!Swaps, X!Cleared
<1> QED
  BY <1>1, FS_Subset, FS_CardinalityType, CheckoutAssumption

-----------------------------------------------------------------------------
(* What the invariant says of one call.                                     *)
LEMMA BuyFacts ==
    ASSUME X!CheckoutIInv, NEW c \in Calls
    PROVE  /\ X!Typed /\ X!Knows(c) /\ X!SettledArePaid
           /\ buy[c] \in X!CheckoutCall
           /\ buy \in [Calls -> X!CheckoutCall]
  BY DEF X!CheckoutIInv, X!Typed

(* A step that changes one call only, and what is approved, answered or     *)
(* failed, keeps the invariant if the call knows what it should, its order  *)
(* is accounted for and the approvals cover the swaps.                      *)
LEMMA OneBuyer ==
    ASSUME X!CheckoutIInv, NEW c \in Calls,
           buy' = [buy EXCEPT ![c] = buy'[c]], buy'[c] \in X!CheckoutCall,
           UNCHANGED <<shop, host, config, provider, receipts, paid, receiptsOverlapped>>,
           approved' \in [Addresses -> Nat],
           answered' \subseteq Ids, failed' \subseteq Ids,
           answered \subseteq answered', failed \subseteq failed',
           X!Knows(c)',
           \A o \in Ids : buy[c].order = o /\ buy[c].tool \in X!Posting /\ provider[o] # Null
             => X!AccountedFor(o)',
           X!ApprovalsCover'
    PROVE  X!CheckoutIInv'
<1>1. X!Typed'
  BY DEF X!CheckoutIInv, X!Typed
<1>2. ASSUME NEW d \in Calls
      PROVE  X!Knows(d)'
  <2>1. CASE d # c
    <3>1. buy'[d] = buy[d]
      BY <2>1 DEF X!CheckoutIInv, X!Typed
    <3> QED
      BY <3>1 DEF X!CheckoutIInv, X!Knows, X!Warranted
  <2> QED
    BY <2>1
<1>3. X!SettledArePaid'
  BY DEF X!CheckoutIInv, X!SettledArePaid
<1>4. ASSUME NEW o \in Ids, provider[o] # Null
      PROVE  X!AccountedFor(o)'
  <2>1. X!AccountedFor(o)
    BY <1>4 DEF X!CheckoutIInv, X!OrdersAreAccountedFor
  <2>2. CASE \E d \in Calls : buy[d].order = o /\ buy[d].tool \in X!Posting
    <3>1. PICK d \in Calls : buy[d].order = o /\ buy[d].tool \in X!Posting
      BY <2>2
    <3>2. CASE d = c
      BY <3>1, <3>2, <1>4
    <3>3. CASE d # c
      <4>1. buy'[d] = buy[d]
        BY <3>3 DEF X!CheckoutIInv, X!Typed
      <4> QED
        BY <3>1, <4>1 DEF X!AccountedFor
    <3> QED
      BY <3>2, <3>3
  <2>3. CASE ~\E d \in Calls : buy[d].order = o /\ buy[d].tool \in X!Posting
    BY <2>1, <2>3 DEF X!AccountedFor
  <2> QED
    BY <2>2, <2>3
<1>5. X!OrdersAreAccountedFor'
  BY <1>4 DEF X!CheckoutIInv, X!OrdersAreAccountedFor
<1> QED
  BY <1>1, <1>2, <1>3, <1>5 DEF X!CheckoutIInv

(* The approvals still cover the swaps when a call that does not become     *)
(* cleared changes and no swap is placed.                                   *)
LEMMA CoverKept ==
    ASSUME X!CheckoutIInv, UNCHANGED <<host, provider>>,
           approved' \in [Addresses -> Nat],
           \A a \in Addresses : approved'[a] >= approved[a],
           \A c \in Calls : buy'[c].pc = "post" /\ buy'[c].tool = "swap" => buy'[c] = buy[c]
    PROVE  X!ApprovalsCover'
<1>5. host \in BOOLEAN /\ host' \in BOOLEAN
  BY DEF X!CheckoutIInv, X!Typed
<1> SUFFICES ASSUME host, NEW a \in Addresses
             PROVE  (Cardinality(X!Swaps(a)) + Cardinality(X!Cleared(a)) <= approved[a])'
  BY <1>5, SameCount DEF X!ApprovalsCover
<1>1. Cardinality(X!Swaps(a)) + Cardinality(X!Cleared(a)) <= approved[a]
  BY SameCount DEF X!CheckoutIInv, X!ApprovalsCover
<1>2. X!Swaps(a)' = X!Swaps(a) /\ X!Cleared(a)' \subseteq X!Cleared(a)
  BY DEF X!Swaps, X!Cleared
<1>3. Cardinality(X!Cleared(a)') \in Nat /\ Cardinality(X!Cleared(a)') <= Cardinality(X!Cleared(a))
  BY <1>2, CountsKept, SwapsAreFinite
<1>4. approved[a] \in Nat
  BY DEF X!CheckoutIInv, X!Typed
<1> QED
  BY <1>1, <1>2, <1>3, <1>4, SwapsAreFinite

-----------------------------------------------------------------------------
(* The steps of a call before its post.                                     *)
LEMMA CheckoutInit == X!Init => X!CheckoutIInv
<1> SUFFICES ASSUME X!Init PROVE X!CheckoutIInv
  OBVIOUS
<1>1. X!Typed
  <2>1. config \in Addresses
    BY CheckoutAssumption DEF X!Init
  <2>2. host \in BOOLEAN
    BY DEF X!Init
  <2>3. X!Idle \in X!CheckoutCall
    BY DEF X!Idle, X!CheckoutCall
  <2> QED
    BY <2>1, <2>2, <2>3 DEF X!Init, X!Typed
<1>2. ASSUME NEW c \in Calls PROVE X!Knows(c)
  BY DEF X!Init, X!Knows, X!Idle, X!Posting, X!OnOrders, X!Posted
<1>3. X!SettledArePaid /\ X!OrdersAreAccountedFor
  BY DEF X!Init, X!SettledArePaid, X!OrdersAreAccountedFor
<1>4. X!ApprovalsCover
  <2>1. ASSUME NEW a \in Addresses
        PROVE  X!Swaps(a) = {} /\ X!Cleared(a) = {} /\ approved[a] = 0
    BY DEF X!Init, X!Swaps, X!Cleared, X!Idle
  <2> QED
    BY <2>1, SameCount, FS_EmptySet DEF X!ApprovalsCover
<1> QED
  BY <1>1, <1>2, <1>3, <1>4 DEF X!CheckoutIInv

LEMMA BeginBuy ==
    ASSUME X!CheckoutIInv, NEW c \in Calls, NEW tool \in X!Posting \cup X!OnOrders,
           NEW order \in Ids \cup {Null}, X!Begin(c, tool, order)
    PROVE  X!CheckoutIInv'
<1>1. /\ buy[c] = X!Idle
      /\ tool \in X!OnOrders => order # Null /\ provider[order] # Null
      /\ tool \notin X!OnOrders => order = Null
      /\ UNCHANGED <<shop, host, config, provider, receipts>>
      /\ UNCHANGED <<approved, paid, answered, failed, receiptsOverlapped>>
  BY DEF X!Begin, X!histories
<1>2. /\ buy' = [buy EXCEPT ![c] = buy'[c]]
      /\ buy'[c] = [X!Idle EXCEPT !.tool = tool, !.order = order, !.pc = "config"]
  BY BuyFacts DEF X!Begin
<1>3. /\ buy'[c] \in X!CheckoutCall
      /\ buy'[c].pc = "config" /\ buy'[c].tool = tool /\ buy'[c].order = order
  BY <1>2 DEF X!Idle, X!CheckoutCall
<1>4. X!Knows(c)'
  BY <1>1, <1>3 DEF X!Knows, X!Posting, X!OnOrders, X!Posted
<1>5. buy[c].order = Null
  BY <1>1 DEF X!Idle
<1>6. X!ApprovalsCover'
  <2>1. \A d \in Calls : buy'[d].pc = "post" => buy'[d] = buy[d]
    BY <1>2, <1>3, BuyFacts DEF X!CheckoutCall
  <2> QED
    BY <1>1, <2>1, BuyFacts, CoverKept DEF X!Typed
<1>7. /\ approved' \in [Addresses -> Nat] /\ answered' \subseteq Ids /\ failed' \subseteq Ids
  BY <1>1, BuyFacts DEF X!Typed
<1> QED
  BY <1>1, <1>2, <1>3, <1>4, <1>5, <1>6, <1>7, OneBuyer, CheckoutAssumption

LEMMA ConfigRead ==
    ASSUME X!CheckoutIInv, NEW c \in Calls, X!ReadConfig(c)
    PROVE  X!CheckoutIInv'
<1>1. /\ buy[c].pc = "config"
      /\ UNCHANGED <<shop, host, config, provider, receipts>>
      /\ UNCHANGED <<approved, paid, answered, failed, receiptsOverlapped>>
  BY DEF X!ReadConfig, X!histories
<1>2. /\ buy' = [buy EXCEPT ![c] = buy'[c]]
      /\ buy'[c] = [buy[c] EXCEPT
           !.refund = IF buy[c].tool = "swap" THEN config ELSE Null,
           !.pc = IF buy[c].tool = "swap" /\ host THEN "approval" ELSE "post"]
  BY BuyFacts DEF X!ReadConfig
<1>3. /\ buy'[c] \in X!CheckoutCall
      /\ buy'[c].tool = buy[c].tool /\ buy'[c].order = buy[c].order
      /\ buy'[c].refund = IF buy[c].tool = "swap" THEN config ELSE Null
      /\ buy'[c].pc = IF buy[c].tool = "swap" /\ host THEN "approval" ELSE "post"
  BY <1>2, BuyFacts DEF X!CheckoutCall, X!Typed
<1>4. X!Knows(c)'
  BY <1>1, <1>3, BuyFacts DEF X!Knows, X!Posting, X!OnOrders, X!Posted, X!Typed
<1>5. X!ApprovalsCover'
  <2>1. CASE host
    <3>1. \A d \in Calls : buy'[d].pc = "post" /\ buy'[d].tool = "swap" => buy'[d] = buy[d]
      BY <1>2, <1>3, <2>1, BuyFacts DEF X!CheckoutCall
    <3> QED
      BY <1>1, <3>1, BuyFacts, CoverKept DEF X!Typed
  <2>2. CASE ~host
    <3>1. ~host' /\ host' \in BOOLEAN
      BY <1>1, <2>2, BuyFacts DEF X!Typed
    <3> QED
      BY <3>1 DEF X!ApprovalsCover
  <2> QED
    BY <2>1, <2>2
<1>6. /\ approved' \in [Addresses -> Nat] /\ answered' \subseteq Ids /\ failed' \subseteq Ids
  BY <1>1, BuyFacts DEF X!Typed
<1>7. \A o \in Ids : buy[c].order = o /\ buy[c].tool \in X!Posting => FALSE
  BY <1>1, BuyFacts, CheckoutAssumption DEF X!Knows, X!Posted
<1> QED
  BY <1>1, <1>2, <1>3, <1>4, <1>5, <1>6, <1>7, OneBuyer

(* A call that ends has its order among those answered or failed.           *)
LEMMA CallOver ==
    ASSUME X!CheckoutIInv, NEW c \in Calls, NEW how \in {"ok", "error"},
           X!EndsWith(c, how),
           UNCHANGED <<shop, host, config, provider, receipts, paid, receiptsOverlapped>>,
           how = "ok" => buy[c].tool \notin X!WithReceipt /\ buy[c].pc \in X!Posted,
           approved' \in [Addresses -> Nat],
           \A a \in Addresses : approved'[a] >= approved[a]
    PROVE  X!CheckoutIInv'
<1>1. /\ buy' = [buy EXCEPT ![c] = buy'[c]]
      /\ buy'[c] = X!Idle
  BY BuyFacts DEF X!EndsWith
<1>2. /\ buy'[c] \in X!CheckoutCall
      /\ buy'[c].pc = "idle" /\ buy'[c].tool = "none" /\ buy'[c].order = Null
  BY <1>1 DEF X!Idle, X!CheckoutCall
<1>3. X!Knows(c)'
  BY <1>2 DEF X!Knows, X!Posting, X!OnOrders, X!Posted
<1>4. X!ApprovalsCover'
  <2>1. \A d \in Calls : buy'[d].pc = "post" => buy'[d] = buy[d]
    BY <1>1, <1>2, BuyFacts
  <2> QED
    BY <2>1, CoverKept
<1>5. /\ answered \subseteq answered' /\ answered' \subseteq Ids
      /\ failed \subseteq failed' /\ failed' \subseteq Ids
  BY BuyFacts, CheckoutAssumption DEF X!EndsWith, X!Typed, X!CheckoutCall
<1>6. ASSUME NEW o \in Ids, buy[c].order = o, buy[c].tool \in X!Posting, provider[o] # Null
      PROVE  X!AccountedFor(o)'
  <2>1. o # Null
    BY CheckoutAssumption
  <2>2. CASE how = "ok"
    <3>1. o \in answered'
      BY <1>6, <2>1, <2>2 DEF X!EndsWith
    <3>2. provider'[o].tool \notin X!WithReceipt
      BY <1>6, <2>2, BuyFacts DEF X!Knows
    <3> QED
      BY <3>1, <3>2 DEF X!AccountedFor, X!WithReceipt
  <2>3. CASE how # "ok"
    <3>1. o \in failed'
      BY <1>6, <2>1, <2>3 DEF X!EndsWith
    <3> QED
      BY <3>1 DEF X!AccountedFor
  <2> QED
    BY <2>2, <2>3
<1> QED
  BY <1>1, <1>2, <1>3, <1>4, <1>5, <1>6, OneBuyer

LEMMA Undecided ==
    ASSUME X!CheckoutIInv, NEW c \in Calls,
           X!Unapproved(c) \/ X!PostFails(c) \/ X!ReplyLost(c) \/ X!ReceiptFails(c)
    PROVE  X!CheckoutIInv'
<1>1. /\ X!EndsWith(c, "error")
      /\ UNCHANGED <<shop, host, config, provider, receipts, paid, receiptsOverlapped>>
      /\ UNCHANGED approved
  BY DEF X!Unapproved, X!PostFails, X!ReplyLost, X!ReceiptFails
<1>2. /\ approved' \in [Addresses -> Nat]
      /\ \A a \in Addresses : approved'[a] >= approved[a]
  BY <1>1, BuyFacts DEF X!Typed
<1> QED
  BY <1>1, <1>2, CallOver

LEMMA Approval ==
    ASSUME X!CheckoutIInv, NEW c \in Calls, X!Approves(c)
    PROVE  X!CheckoutIInv'
<1>1. /\ buy[c].pc = "approval"
      /\ approved' = [approved EXCEPT ![buy[c].refund] = @ + 1]
      /\ UNCHANGED <<shop, host, config, provider, receipts, paid, receiptsOverlapped>>
  BY DEF X!Approves
<1>2. buy[c].tool = "swap" /\ buy[c].refund \in Addresses /\ buy[c].order = Null
  BY <1>1, BuyFacts DEF X!Knows, X!Posting, X!Posted
<1>3. /\ approved' \in [Addresses -> Nat]
      /\ \A a \in Addresses : approved'[a] >= approved[a]
      /\ approved'[buy[c].refund] = approved[buy[c].refund] + 1
  BY <1>1, <1>2, BuyFacts DEF X!Typed
<1>4. CASE X!EndsWith(c, "error")
  BY <1>1, <1>3, <1>4, CallOver
<1>5. CASE buy' = [buy EXCEPT ![c].pc = "post"] /\ UNCHANGED <<answered, failed>>
  <2>1. /\ buy' = [buy EXCEPT ![c] = buy'[c]]
        /\ buy'[c] = [buy[c] EXCEPT !.pc = "post"]
    BY <1>5, BuyFacts
  <2>2. /\ buy'[c] \in X!CheckoutCall
        /\ buy'[c].tool = "swap" /\ buy'[c].order = Null
        /\ buy'[c].refund = buy[c].refund /\ buy'[c].pc = "post"
    BY <1>2, <2>1, BuyFacts DEF X!CheckoutCall
  <2>3. X!Knows(c)'
    BY <1>2, <2>2, BuyFacts DEF X!Knows, X!Posting, X!OnOrders, X!Posted
  <2>4. X!ApprovalsCover'
    <3>1. host \in BOOLEAN /\ host' \in BOOLEAN
      BY <1>1, BuyFacts DEF X!Typed
    <3> SUFFICES ASSUME host, NEW a \in Addresses
                 PROVE  (Cardinality(X!Swaps(a)) + Cardinality(X!Cleared(a)) <= approved[a])'
      BY <1>1, <3>1, SameCount DEF X!ApprovalsCover
    <3>2. Cardinality(X!Swaps(a)) + Cardinality(X!Cleared(a)) <= approved[a]
      BY SameCount DEF X!CheckoutIInv, X!ApprovalsCover
    <3>3. X!Swaps(a)' = X!Swaps(a)
      BY <1>1 DEF X!Swaps
    <3>4. approved[a] \in Nat /\ approved'[a] \in Nat
      BY <1>3, BuyFacts DEF X!Typed
    <3>5. CASE a = buy[c].refund
      <4>1. X!Cleared(a)' \subseteq X!Cleared(a) \cup {c}
        BY <2>1, BuyFacts DEF X!Cleared
      <4>2. Cardinality(X!Cleared(a)') \in Nat
            /\ Cardinality(X!Cleared(a)') <= Cardinality(X!Cleared(a)) + 1
        BY <4>1, CountsUp, SwapsAreFinite
      <4>3. approved'[a] = approved[a] + 1
        BY <1>3, <3>5
      <4> QED
        BY <3>2, <3>3, <3>4, <4>2, <4>3, SwapsAreFinite
    <3>6. CASE a # buy[c].refund
      <4>1. X!Cleared(a)' \subseteq X!Cleared(a)
        BY <2>1, <2>2, <3>6, BuyFacts DEF X!Cleared
      <4>2. Cardinality(X!Cleared(a)') \in Nat
            /\ Cardinality(X!Cleared(a)') <= Cardinality(X!Cleared(a))
        BY <4>1, CountsKept, SwapsAreFinite
      <4>3. approved'[a] = approved[a]
        BY <1>1, <3>6, BuyFacts DEF X!Typed
      <4> QED
        BY <3>2, <3>3, <3>4, <4>2, <4>3, SwapsAreFinite
    <3> QED
      BY <3>5, <3>6
  <2>5. answered' \subseteq Ids /\ failed' \subseteq Ids
    BY <1>5, BuyFacts DEF X!Typed
  <2> QED
    BY <1>1, <1>2, <1>3, <1>5, <2>1, <2>2, <2>3, <2>4, <2>5, OneBuyer, CheckoutAssumption
<1> QED
  BY <1>4, <1>5 DEF X!Approves

-----------------------------------------------------------------------------
(* What the provider makes of its orders.                                   *)
LEMMA PlacedOrder ==
    ASSUME NEW tool \in X!Posting, NEW refund \in Addresses \cup {Null}
    PROVE  /\ X!Placed(tool, refund) \in X!Placement
           /\ X!Placed(tool, refund).tool = tool
           /\ X!Placed(tool, refund).refund = refund
           /\ tool = "instant" => X!Placed(tool, refund).status = "paid"
           /\ tool = "hold" => X!Placed(tool, refund).status = "held"
  BY DEF X!Placed, X!Placement, X!Statuses, X!Posting

LEMMA ChangedOrder ==
    ASSUME NEW tool, NEW order \in X!Placement
    PROVE  /\ X!Changed(tool, order) \in X!Placement
           /\ X!Changed(tool, order).tool = order.tool
           /\ X!Changed(tool, order).refund = order.refund
<1>1. ASSUME NEW s \in X!Statuses
      PROVE  /\ [order EXCEPT !.status = s] \in X!Placement
             /\ [order EXCEPT !.status = s].tool = order.tool
             /\ [order EXCEPT !.status = s].refund = order.refund
  BY <1>1 DEF X!Placement
<1>2. {"paid", "cancelling", "cancelled"} \subseteq X!Statuses
  BY DEF X!Statuses
<1>3. \/ X!Changed(tool, order) = order
      \/ \E s \in X!Statuses : X!Changed(tool, order) = [order EXCEPT !.status = s]
  BY <1>2 DEF X!Changed
<1>4. CASE X!Changed(tool, order) = order
  BY <1>4
<1>5. CASE \E s \in X!Statuses : X!Changed(tool, order) = [order EXCEPT !.status = s]
  <2>1. PICK s \in X!Statuses : X!Changed(tool, order) = [order EXCEPT !.status = s]
    BY <1>5
  <2> QED
    BY <1>1, <2>1
<1> QED
  BY <1>3, <1>4, <1>5

(* An order changes at the provider and is paid if its new status says so.  *)
LEMMA OrderChanges ==
    ASSUME X!CheckoutIInv, NEW o \in Ids, NEW after \in X!Placement,
           provider' = [provider EXCEPT ![o] = after],
           paid' \subseteq Ids, paid \subseteq paid',
           after.status \in X!Settled => o \in paid'
    PROVE  /\ provider' \in [Ids -> X!Placement \cup {Null}]
           /\ X!SettledArePaid'
           /\ provider'[o] = after /\ after # Null
           /\ \A e \in Ids : e # o => provider'[e] = provider[e]
<1>1. provider' \in [Ids -> X!Placement \cup {Null}] /\ provider'[o] = after
  BY BuyFacts DEF X!CheckoutIInv, X!Typed
<1>2. \A e \in Ids : e # o => provider'[e] = provider[e]
  BY DEF X!CheckoutIInv, X!Typed
<1>3. X!SettledArePaid'
  BY <1>1, <1>2 DEF X!CheckoutIInv, X!SettledArePaid
<1>4. after # Null
  BY CheckoutAssumption
<1> QED
  BY <1>1, <1>2, <1>3, <1>4

(* A call that does not change knows what it did before when an order that  *)
(* was there keeps its tool, or a new one is taken.                         *)
LEMMA OthersKnow ==
    ASSUME X!CheckoutIInv, NEW d \in Calls, NEW o \in Ids, NEW after,
           buy'[d] = buy[d],
           provider' = [provider EXCEPT ![o] = after], after # Null,
           provider[o] # Null => after.tool = provider[o].tool,
           paid \subseteq paid', UNCHANGED receipts
    PROVE  X!Knows(d)'
<1>1. provider'[o] = after /\ \A e \in Ids : e # o => provider'[e] = provider[e]
  BY DEF X!CheckoutIInv, X!Typed
<1>2. X!Warranted(buy[d].base) => X!Warranted(buy[d].base)'
  BY DEF X!Warranted
<1> QED
  BY <1>1, <1>2, BuyFacts DEF X!Knows

LEMMA Payment ==
    ASSUME X!CheckoutIInv, NEW o \in Ids, X!PaidOutside(o)
    PROVE  X!CheckoutIInv'
<1>1. /\ provider[o] # Null
      /\ provider' = [provider EXCEPT ![o].status =
                          IF @ = "held" THEN "paid" ELSE "finished"]
      /\ paid' = paid \cup {o}
      /\ UNCHANGED <<shop, host, config, receipts, buy, approved, answered, failed>>
      /\ UNCHANGED receiptsOverlapped
  BY DEF X!PaidOutside
<1> DEFINE after == [provider[o] EXCEPT !.status =
                        IF provider[o].status = "held" THEN "paid" ELSE "finished"]
<1>2. X!Typed
  BY DEF X!CheckoutIInv
<1>3. provider[o] \in X!Placement
  BY <1>1, <1>2 DEF X!Typed
<1>4. after \in X!Placement /\ after.tool = provider[o].tool /\ after.refund = provider[o].refund
  BY <1>3 DEF X!Placement, X!Statuses
<1>5. provider' = [provider EXCEPT ![o] = after]
  BY <1>1, <1>2 DEF X!Typed
<1> HIDE DEF after
<1>6. paid' \subseteq Ids /\ paid \subseteq paid' /\ o \in paid'
  BY <1>1, <1>2 DEF X!Typed
<1>7. /\ provider' \in [Ids -> X!Placement \cup {Null}]
      /\ X!SettledArePaid'
      /\ provider'[o] = after /\ after # Null
      /\ \A e \in Ids : e # o => provider'[e] = provider[e]
  BY <1>4, <1>5, <1>6, OrderChanges
<1>8. X!Typed'
  BY <1>1, <1>2, <1>6, <1>7 DEF X!Typed
<1>9. ASSUME NEW d \in Calls PROVE X!Knows(d)'
  <2>1. buy'[d] = buy[d] /\ UNCHANGED receipts
    BY <1>1
  <2> QED
    BY <1>4, <1>5, <1>6, <1>7, <2>1, OthersKnow
<1>10. X!OrdersAreAccountedFor'
  <2>1. ASSUME NEW e \in Ids, provider'[e] # Null PROVE X!AccountedFor(e)'
    <3>1. provider[e] # Null /\ provider'[e].tool = provider[e].tool
      BY <1>1, <1>4, <1>7, <2>1
    <3> QED
      BY <1>1, <3>1 DEF X!CheckoutIInv, X!OrdersAreAccountedFor, X!AccountedFor
  <2> QED
    BY <1>1, <2>1 DEF X!CheckoutIInv, X!OrdersAreAccountedFor
<1>11. X!ApprovalsCover'
  <2>1. ASSUME NEW a \in Addresses
        PROVE  X!Swaps(a)' = X!Swaps(a) /\ X!Cleared(a)' = X!Cleared(a)
    <3>1. ASSUME NEW e \in Ids
          PROVE  /\ provider'[e] # Null <=> provider[e] # Null
                 /\ provider[e] # Null => /\ provider'[e].tool = provider[e].tool
                                         /\ provider'[e].refund = provider[e].refund
      BY <1>1, <1>4, <1>7
    <3> QED
      BY <1>1, <3>1 DEF X!Swaps, X!Cleared
  <2>2. host \in BOOLEAN /\ host' = host
    BY <1>1, <1>2 DEF X!Typed
  <2> QED
    BY <1>1, <2>1, <2>2 DEF X!CheckoutIInv, X!ApprovalsCover
<1> QED
  BY <1>7, <1>8, <1>9, <1>10, <1>11 DEF X!CheckoutIInv

LEMMA ConfigChanges ==
    ASSUME X!CheckoutIInv, NEW a \in Addresses, X!Configure(a)
    PROVE  X!CheckoutIInv'
<1>1. /\ config' = a
      /\ UNCHANGED <<shop, host, provider, receipts, buy>>
      /\ UNCHANGED <<approved, paid, answered, failed, receiptsOverlapped>>
  BY DEF X!Configure, X!histories
<1>2. X!Typed'
  BY <1>1 DEF X!CheckoutIInv, X!Typed
<1>3. (\A c \in Calls : X!Knows(c))' /\ X!SettledArePaid'
  BY <1>1 DEF X!CheckoutIInv, X!Knows, X!SettledArePaid, X!Warranted
<1>4. X!OrdersAreAccountedFor'
  BY <1>1 DEF X!CheckoutIInv, X!OrdersAreAccountedFor, X!AccountedFor
<1>5. X!ApprovalsCover'
  BY <1>1, BuyFacts, CoverKept DEF X!CheckoutIInv, X!Typed
<1> QED
  BY <1>2, <1>3, <1>4, <1>5 DEF X!CheckoutIInv

LEMMA ReplyArrives ==
    ASSUME X!CheckoutIInv, NEW c \in Calls, X!Replies(c)
    PROVE  X!CheckoutIInv'
<1>1. /\ buy[c].pc = "reply"
      /\ UNCHANGED <<shop, host, config, provider, receipts>>
      /\ UNCHANGED <<approved, paid, receiptsOverlapped>>
  BY DEF X!Replies
<1>2. /\ approved' \in [Addresses -> Nat]
      /\ \A a \in Addresses : approved'[a] >= approved[a]
  BY <1>1, BuyFacts DEF X!Typed
<1>3. CASE buy[c].tool \notin X!WithReceipt
  <2>1. X!EndsWith(c, "ok")
    BY <1>3 DEF X!Replies
  <2> QED
    BY <1>1, <1>2, <1>3, <2>1, CallOver DEF X!Posted
<1>4. CASE buy[c].tool \in X!WithReceipt
  <2>1. /\ buy' = [buy EXCEPT ![c] = buy'[c]]
        /\ buy'[c] = [buy[c] EXCEPT !.pc = "read"]
        /\ UNCHANGED <<answered, failed>>
    BY <1>4, BuyFacts DEF X!Replies
  <2>2. /\ buy'[c] \in X!CheckoutCall /\ buy'[c].pc = "read"
        /\ buy'[c].tool = buy[c].tool /\ buy'[c].order = buy[c].order
        /\ buy'[c].refund = buy[c].refund /\ buy'[c].reply = buy[c].reply
    BY <2>1, BuyFacts DEF X!CheckoutCall
  <2>3. X!Knows(c)'
    BY <1>1, <1>4, <2>2, BuyFacts DEF X!Knows, X!Posted
  <2>4. X!ApprovalsCover'
    <3>1. \A d \in Calls : buy'[d].pc = "post" => buy'[d] = buy[d]
      BY <2>1, <2>2, BuyFacts
    <3> QED
      BY <1>1, <1>2, <3>1, CoverKept
  <2>5. \A o \in Ids : buy[c].order = o /\ buy[c].tool \in X!Posting => X!AccountedFor(o)'
    BY <2>2 DEF X!AccountedFor
  <2>6. answered' \subseteq Ids /\ failed' \subseteq Ids
    BY <2>1, BuyFacts DEF X!Typed
  <2> QED
    BY <1>1, <1>2, <2>1, <2>2, <2>3, <2>4, <2>5, <2>6, OneBuyer
<1> QED
  BY <1>3, <1>4

LEMMA ReceiptsRead ==
    ASSUME X!CheckoutIInv, NEW c \in Calls, X!ReadReceipts(c)
    PROVE  X!CheckoutIInv'
<1>1. /\ buy[c].pc = "read"
      /\ UNCHANGED <<shop, host, config, provider, receipts>>
      /\ UNCHANGED <<approved, paid, answered, failed, receiptsOverlapped>>
  BY DEF X!ReadReceipts, X!histories
<1>2. /\ buy' = [buy EXCEPT ![c] = buy'[c]]
      /\ buy'[c] = [buy[c] EXCEPT !.base = receipts, !.pc = "write"]
  BY BuyFacts DEF X!ReadReceipts
<1>3. /\ buy'[c] \in X!CheckoutCall /\ buy'[c].pc = "write" /\ buy'[c].base = receipts
      /\ buy'[c].tool = buy[c].tool /\ buy'[c].order = buy[c].order
      /\ buy'[c].refund = buy[c].refund /\ buy'[c].reply = buy[c].reply
  BY <1>2, BuyFacts DEF X!CheckoutCall, X!Typed
<1>4. X!Warranted(receipts)'
  BY <1>1 DEF X!CheckoutIInv, X!OrdersAreAccountedFor, X!Warranted
<1>5. X!Knows(c)'
  BY <1>1, <1>3, <1>4, BuyFacts DEF X!Knows, X!Posted
<1>6. /\ approved' \in [Addresses -> Nat] /\ answered' \subseteq Ids /\ failed' \subseteq Ids
      /\ \A a \in Addresses : approved'[a] >= approved[a]
  BY <1>1, BuyFacts DEF X!Typed
<1>7. X!ApprovalsCover'
  <2>1. \A d \in Calls : buy'[d].pc = "post" => buy'[d] = buy[d]
    BY <1>2, <1>3, BuyFacts
  <2> QED
    BY <1>1, <1>6, <2>1, CoverKept
<1>8. \A o \in Ids : buy[c].order = o /\ buy[c].tool \in X!Posting => X!AccountedFor(o)'
  BY <1>3 DEF X!AccountedFor
<1> QED
  BY <1>1, <1>2, <1>3, <1>5, <1>6, <1>7, <1>8, OneBuyer

(* The post: what a call asks for is placed, with the refund address it has *)
(* carried since its configuration was read, or changes the order it names. *)
LEMMA PostArrives ==
    ASSUME X!CheckoutIInv, NEW c \in Calls, X!Posts(c)
    PROVE  X!CheckoutIInv'
<1> DEFINE posting == buy[c].tool \in X!Posting
<1>1. /\ buy[c].pc = "post"
      /\ UNCHANGED <<shop, host, config, receipts, approved, answered, failed>>
      /\ UNCHANGED receiptsOverlapped
  BY DEF X!Posts
<1>2. /\ buy[c].tool \in X!Posting \cup X!OnOrders
      /\ posting => buy[c].order = Null
      /\ ~posting => buy[c].order \in Ids /\ provider[buy[c].order] # Null
      /\ buy[c].tool = "swap" => buy[c].refund \in Addresses
  BY <1>1, BuyFacts DEF X!Knows, X!CheckoutCall, X!Posting, X!OnOrders, X!Posted
<1>3. PICK o \in (IF posting THEN {x \in Ids : provider[x] = Null} ELSE {buy[c].order}) :
          LET after == IF posting THEN X!Placed(buy[c].tool, X!BodyPosted(c))
                       ELSE X!Changed(buy[c].tool, provider[o])
          IN  /\ provider' = [provider EXCEPT ![o] = after]
              /\ paid' = IF after.status \in X!Settled THEN paid \cup {o} ELSE paid
              /\ buy' = [buy EXCEPT ![c].order = o, ![c].reply = after.status,
                                    ![c].pc = "reply"]
  BY DEF X!Posts
<1> DEFINE after == IF posting THEN X!Placed(buy[c].tool, X!BodyPosted(c))
                    ELSE X!Changed(buy[c].tool, provider[o])
<1>4. o \in Ids /\ (posting <=> provider[o] = Null) /\ (~posting => o = buy[c].order)
  BY <1>2, <1>3
<1>5. X!Typed
  BY BuyFacts
<1>6. /\ after \in X!Placement
      /\ posting => after.tool = buy[c].tool /\ after.refund = buy[c].refund
      /\ provider[o] # Null => /\ after.tool = provider[o].tool
                              /\ after.refund = provider[o].refund
      /\ buy[c].tool = "instant" => after.status = "paid"
      /\ buy[c].tool = "hold" => after.status = "held"
  <2>1. CASE posting
    <3>1. buy[c].refund \in Addresses \cup {Null}
      BY BuyFacts DEF X!CheckoutCall
    <3> QED
      BY <1>4, <2>1, <3>1, PlacedOrder DEF X!BodyPosted
  <2>2. CASE ~posting
    <3>1. provider[o] \in X!Placement
      BY <1>4, <1>5, <2>2 DEF X!Typed
    <3>2. buy[c].tool \notin {"instant", "hold"}
      BY <2>2 DEF X!Posting
    <3> QED
      BY <1>4, <2>2, <3>1, <3>2, ChangedOrder
  <2> QED
    BY <2>1, <2>2
<1>7. /\ provider' = [provider EXCEPT ![o] = after]
      /\ paid' = IF after.status \in X!Settled THEN paid \cup {o} ELSE paid
      /\ buy' = [buy EXCEPT ![c].order = o, ![c].reply = after.status, ![c].pc = "reply"]
  BY <1>3
<1> HIDE DEF after
<1>8. /\ buy' = [buy EXCEPT ![c] = buy'[c]]
      /\ buy'[c] = [buy[c] EXCEPT !.order = o, !.reply = after.status, !.pc = "reply"]
  BY <1>7, BuyFacts
<1>9. after.status \in X!Statuses
  BY <1>6 DEF X!Placement
<1>10. /\ buy'[c] \in X!CheckoutCall
       /\ buy'[c].pc = "reply" /\ buy'[c].order = o /\ buy'[c].reply = after.status
       /\ buy'[c].tool = buy[c].tool
  BY <1>4, <1>8, <1>9, BuyFacts DEF X!CheckoutCall
<1>11. paid' \subseteq Ids /\ paid \subseteq paid' /\ (after.status \in X!Settled => o \in paid')
  BY <1>4, <1>5, <1>7 DEF X!Typed
<1>12. /\ provider' \in [Ids -> X!Placement \cup {Null}]
       /\ X!SettledArePaid'
       /\ provider'[o] = after /\ after # Null
       /\ \A e \in Ids : e # o => provider'[e] = provider[e]
  BY <1>4, <1>6, <1>7, <1>11, OrderChanges
<1>13. X!Typed'
  <2>1. buy' \in [Calls -> X!CheckoutCall]
    BY <1>8, <1>10, BuyFacts
  <2> QED
    BY <1>1, <1>5, <1>11, <1>12, <2>1 DEF X!Typed
<1>14. ASSUME NEW d \in Calls PROVE X!Knows(d)'
  <2>1. CASE d # c
    <3>1. buy'[d] = buy[d] /\ UNCHANGED receipts
      BY <1>1, <1>8, <2>1, BuyFacts
    <3> QED
      BY <1>4, <1>6, <1>7, <1>11, <1>12, <3>1, OthersKnow
  <2>2. X!Knows(c)'
    <3>1. provider'[buy'[c].order] = after
      BY <1>10, <1>12
    <3>2. posting => provider'[buy'[c].order].tool = buy'[c].tool
      BY <1>6, <1>10, <3>1
    <3>3. buy'[c].tool \in X!Posting \cup X!OnOrders /\ buy'[c].order \in Ids
      BY <1>2, <1>4, <1>10
    <3> QED
      BY <1>6, <1>10, <1>11, <1>12, <3>1, <3>2, <3>3
      DEF X!Knows, X!Posted, X!Posting, X!OnOrders, X!Settled
  <2> QED
    BY <2>1, <2>2
<1>15. X!OrdersAreAccountedFor'
  <2>1. ASSUME NEW e \in Ids, provider'[e] # Null PROVE X!AccountedFor(e)'
    <3>1. CASE e = o /\ posting
      BY <1>10, <3>1 DEF X!AccountedFor
    <3>2. CASE ~(e = o /\ posting)
      <4>1. provider[e] # Null /\ provider'[e].tool = provider[e].tool
        BY <1>4, <1>6, <1>12, <2>1, <3>2
      <4>2. X!AccountedFor(e)
        BY <4>1 DEF X!CheckoutIInv, X!OrdersAreAccountedFor
      <4>3. ASSUME NEW d \in Calls, buy[d].order = e, buy[d].tool \in X!Posting
            PROVE  X!AccountedFor(e)'
        <5>1. d # c
          BY <1>2, <4>3, CheckoutAssumption
        <5>2. buy'[d] = buy[d]
          BY <1>8, <5>1, BuyFacts
        <5> QED
          BY <4>3, <5>2 DEF X!AccountedFor
      <4> QED
        BY <1>1, <4>1, <4>2, <4>3 DEF X!AccountedFor
    <3> QED
      BY <3>1, <3>2
  <2> QED
    BY <1>1, <1>11, <2>1 DEF X!CheckoutIInv, X!OrdersAreAccountedFor
<1>16. X!ApprovalsCover'
  <2>1. host \in BOOLEAN /\ host' \in BOOLEAN
    BY <1>1, <1>5 DEF X!Typed
  <2> SUFFICES ASSUME host, NEW a \in Addresses
               PROVE  (Cardinality(X!Swaps(a)) + Cardinality(X!Cleared(a)) <= approved[a])'
    BY <1>1, <2>1, SameCount DEF X!ApprovalsCover
  <2>2. Cardinality(X!Swaps(a)) + Cardinality(X!Cleared(a)) <= approved[a]
    BY SameCount DEF X!CheckoutIInv, X!ApprovalsCover
  <2>3. approved[a] \in Nat /\ approved'[a] = approved[a]
    BY <1>1, <1>5 DEF X!Typed
  <2>4. CASE buy[c].tool = "swap" /\ buy[c].refund = a
    <3>1. c \in X!Cleared(a) /\ X!Cleared(a)' \subseteq X!Cleared(a) \ {c}
      BY <1>1, <1>8, <1>10, <2>4, BuyFacts DEF X!Cleared
    <3>2. X!Swaps(a)' \subseteq X!Swaps(a) \cup {o}
      BY <1>12 DEF X!Swaps
    <3>3. Cardinality(X!Cleared(a)') \in Nat
          /\ Cardinality(X!Cleared(a)') + 1 <= Cardinality(X!Cleared(a))
      BY <3>1, CountsDown, SwapsAreFinite
    <3>4. Cardinality(X!Swaps(a)') \in Nat
          /\ Cardinality(X!Swaps(a)') <= Cardinality(X!Swaps(a)) + 1
      BY <3>2, CountsUp, SwapsAreFinite
    <3> QED
      BY <2>2, <2>3, <3>3, <3>4, SwapsAreFinite
  <2>5. CASE ~(buy[c].tool = "swap" /\ buy[c].refund = a)
    <3>1. X!Cleared(a)' \subseteq X!Cleared(a)
      BY <1>8, <1>10, BuyFacts DEF X!Cleared
    <3>2. X!Swaps(a)' \subseteq X!Swaps(a)
      BY <1>4, <1>6, <1>12, <2>5 DEF X!Swaps
    <3>3. Cardinality(X!Cleared(a)') \in Nat
          /\ Cardinality(X!Cleared(a)') <= Cardinality(X!Cleared(a))
      BY <3>1, CountsKept, SwapsAreFinite
    <3>4. Cardinality(X!Swaps(a)') \in Nat
          /\ Cardinality(X!Swaps(a)') <= Cardinality(X!Swaps(a))
      BY <3>2, CountsKept, SwapsAreFinite
    <3> QED
      BY <2>2, <2>3, <3>3, <3>4, SwapsAreFinite
  <2> QED
    BY <2>4, <2>5
<1> QED
  BY <1>12, <1>13, <1>14, <1>15, <1>16 DEF X!CheckoutIInv

(* A receipt that says confirmed is written only of what has been paid.     *)
LEMMA ReceiptIsWarranted ==
    ASSUME X!CheckoutIInv, NEW c \in Calls, buy[c].pc = "write"
    PROVE  /\ X!ReceiptStatus(c) \in {"submitted", "confirmed"}
           /\ X!ReceiptStatus(c) = "confirmed" => buy[c].order \in paid
  BY BuyFacts DEF X!ReceiptStatus, X!Knows, X!Posted, X!WithReceipt

LEMMA ReceiptsWritten ==
    ASSUME X!CheckoutIInv, NEW c \in Calls, X!WriteReceipts(c)
    PROVE  X!CheckoutIInv'
<1> DEFINE new == [order |-> buy[c].order, status |-> X!ReceiptStatus(c)]
<1>1. /\ buy[c].pc = "write"
      /\ receipts' = buy[c].base \cup {new}
      /\ answered' = answered \cup {o \in {buy[c].order} : buy[c].tool \in X!Posting}
      /\ buy' = [d \in Calls |-> IF d = c THEN X!Idle
                                ELSE [buy[d] EXCEPT !.outdated = (buy[d].pc = "write")]]
      /\ receiptsOverlapped' = (receiptsOverlapped \/ buy[c].outdated)
      /\ UNCHANGED <<shop, host, config, provider, approved, paid, failed>>
  BY DEF X!WriteReceipts
<1>2. X!Typed
  BY BuyFacts
<1>3. /\ buy[c].base \subseteq X!Receipt /\ buy[c].outdated \in BOOLEAN
      /\ X!Warranted(buy[c].base) /\ (buy[c].outdated \/ buy[c].base = receipts)
      /\ buy[c].order \in Ids
  BY <1>1, BuyFacts DEF X!CheckoutCall, X!Knows, X!Posted
<1>4. new \in X!Receipt /\ new.order = buy[c].order
      /\ (new.status = "confirmed" => buy[c].order \in paid)
  BY <1>1, <1>3, ReceiptIsWarranted DEF X!Receipt
<1> HIDE DEF new
<1>5. ASSUME NEW d \in Calls, d # c
      PROVE  /\ buy'[d] \in X!CheckoutCall
             /\ buy'[d].pc = buy[d].pc /\ buy'[d].tool = buy[d].tool
             /\ buy'[d].order = buy[d].order /\ buy'[d].reply = buy[d].reply
             /\ buy'[d].refund = buy[d].refund /\ buy'[d].base = buy[d].base
             /\ buy[d].pc = "write" => buy'[d].outdated
  <2>1. buy'[d] = [buy[d] EXCEPT !.outdated = (buy[d].pc = "write")]
    BY <1>1, <1>5
  <2> QED
    BY <2>1, BuyFacts DEF X!CheckoutCall
<1>6. buy'[c] = X!Idle
  BY <1>1
<1>7. /\ buy'[c] \in X!CheckoutCall
      /\ buy'[c].pc = "idle" /\ buy'[c].tool = "none" /\ buy'[c].order = Null
  BY <1>6 DEF X!Idle, X!CheckoutCall
<1>8. X!Typed'
  <2>1. buy' \in [Calls -> X!CheckoutCall]
    BY <1>1, <1>5, <1>7
  <2>2. receipts' \subseteq X!Receipt
    BY <1>1, <1>3, <1>4
  <2>3. receiptsOverlapped' \in BOOLEAN /\ answered' \subseteq Ids
    BY <1>1, <1>2, <1>3 DEF X!Typed
  <2> QED
    BY <1>1, <1>2, <2>1, <2>2, <2>3 DEF X!Typed
<1>9. X!Warranted(receipts)'
  BY <1>1, <1>3, <1>4 DEF X!Warranted
<1>10. ASSUME NEW d \in Calls PROVE X!Knows(d)'
  <2>1. CASE d # c
    <3>1. X!Warranted(buy[d].base) => X!Warranted(buy[d].base)'
      BY <1>1, <1>5, <2>1 DEF X!Warranted
    <3> QED
      BY <1>1, <1>5, <2>1, <3>1, BuyFacts DEF X!Knows
  <2>2. CASE d = c
    BY <1>7, <2>2 DEF X!Knows, X!Posting, X!OnOrders, X!Posted
  <2> QED
    BY <2>1, <2>2
<1>11. X!SettledArePaid'
  BY <1>1 DEF X!CheckoutIInv, X!SettledArePaid
<1>12. X!OrdersAreAccountedFor'
  <2>1. ASSUME NEW e \in Ids, provider'[e] # Null PROVE X!AccountedFor(e)'
    <3>1. X!AccountedFor(e)
      BY <1>1, <2>1 DEF X!CheckoutIInv, X!OrdersAreAccountedFor
    <3>2. CASE e \in failed
      BY <1>1, <3>2 DEF X!AccountedFor
    <3>3. CASE \E d \in Calls : buy[d].order = e /\ buy[d].tool \in X!Posting
      <4>1. PICK d \in Calls : buy[d].order = e /\ buy[d].tool \in X!Posting
        BY <3>3
      <4>2. CASE d # c
        BY <1>5, <4>1, <4>2 DEF X!AccountedFor
      <4>3. CASE d = c
        <5>1. e \in answered' /\ new \in receipts' /\ new.order = e
          BY <1>1, <1>4, <4>1, <4>3
        <5> QED
          BY <5>1 DEF X!AccountedFor
      <4> QED
        BY <4>2, <4>3
    <3>4. CASE /\ e \in answered
               /\ receiptsOverlapped \/ provider[e].tool \notin X!WithReceipt
                    \/ \E r \in receipts : r.order = e
      <4>1. e \in answered'
        BY <1>1, <3>4
      <4>2. receiptsOverlapped' \/ provider'[e].tool \notin X!WithReceipt
              \/ \E r \in receipts' : r.order = e
        BY <1>1, <1>2, <1>3, <3>4 DEF X!Typed
      <4> QED
        BY <4>1, <4>2 DEF X!AccountedFor, X!WithReceipt
    <3> QED
      BY <3>1, <3>2, <3>3, <3>4 DEF X!AccountedFor
  <2> QED
    BY <1>9, <2>1 DEF X!OrdersAreAccountedFor, X!Warranted
<1>13. X!ApprovalsCover'
  <2>1. ASSUME NEW a \in Addresses
        PROVE  X!Swaps(a)' = X!Swaps(a) /\ X!Cleared(a)' = X!Cleared(a)
    <3>1. ASSUME NEW d \in Calls
          PROVE  (buy'[d].pc = "post" /\ buy'[d].tool = "swap" /\ buy'[d].refund = a)
                 <=> (buy[d].pc = "post" /\ buy[d].tool = "swap" /\ buy[d].refund = a)
      BY <1>1, <1>5, <1>7
    <3> QED
      BY <1>1, <3>1 DEF X!Swaps, X!Cleared
  <2>2. host \in BOOLEAN /\ host' = host
    BY <1>1, <1>2 DEF X!Typed
  <2> QED
    BY <1>1, <2>1, <2>2 DEF X!CheckoutIInv, X!ApprovalsCover
<1> QED
  BY <1>8, <1>10, <1>11, <1>12, <1>13 DEF X!CheckoutIInv

(* When the process dies, what its calls have placed counts as failed.      *)
LEMMA ShopperDies ==
    ASSUME X!CheckoutIInv, X!Dies
    PROVE  X!CheckoutIInv'
<1>1. /\ failed' = failed \cup {buy[c].order : c \in {d \in Calls :
                          buy[d].order # Null /\ buy[d].tool \in X!Posting}}
      /\ buy' = [c \in Calls |-> X!Idle]
      /\ UNCHANGED <<shop, host, config, provider, receipts, approved, paid, answered>>
      /\ UNCHANGED receiptsOverlapped
  BY DEF X!Dies
<1>2. X!Typed
  BY DEF X!CheckoutIInv
<1>3. X!Idle \in X!CheckoutCall /\ X!Idle.pc = "idle" /\ X!Idle.tool = "none"
      /\ X!Idle.order = Null
  BY DEF X!Idle, X!CheckoutCall
<1>4. failed \subseteq failed' /\ failed' \subseteq Ids
  BY <1>1, <1>2 DEF X!Typed, X!CheckoutCall
<1>5. X!Typed'
  BY <1>1, <1>2, <1>3, <1>4 DEF X!Typed
<1>6. ASSUME NEW d \in Calls PROVE X!Knows(d)'
  <2>1. buy'[d] = X!Idle
    BY <1>1
  <2> QED
    BY <1>3, <2>1 DEF X!Knows, X!Posting, X!OnOrders, X!Posted
<1>7. X!SettledArePaid'
  BY <1>1 DEF X!CheckoutIInv, X!SettledArePaid
<1>8. X!OrdersAreAccountedFor'
  <2>1. ASSUME NEW e \in Ids, provider'[e] # Null PROVE X!AccountedFor(e)'
    <3>1. X!AccountedFor(e)
      BY <1>1, <2>1 DEF X!CheckoutIInv, X!OrdersAreAccountedFor
    <3>2. CASE \E d \in Calls : buy[d].order = e /\ buy[d].tool \in X!Posting
      <4>1. e \in failed'
        BY <1>1, <3>2, CheckoutAssumption
      <4> QED
        BY <4>1 DEF X!AccountedFor
    <3>3. CASE ~\E d \in Calls : buy[d].order = e /\ buy[d].tool \in X!Posting
      BY <1>1, <1>4, <3>1, <3>3 DEF X!AccountedFor
    <3> QED
      BY <3>2, <3>3
  <2> QED
    BY <1>1, <2>1 DEF X!CheckoutIInv, X!OrdersAreAccountedFor
<1>9. X!ApprovalsCover'
  <2>1. \A d \in Calls : buy'[d].pc # "post"
    BY <1>1, <1>3
  <2>2. \A a \in Addresses : approved'[a] >= approved[a]
    BY <1>1, <1>2 DEF X!Typed
  <2>3. approved' \in [Addresses -> Nat]
    BY <1>1, <1>2 DEF X!Typed
  <2> QED
    BY <1>1, <2>1, <2>2, <2>3, CoverKept
<1> QED
  BY <1>5, <1>6, <1>7, <1>8, <1>9 DEF X!CheckoutIInv

LEMMA CheckoutStep ==
    ASSUME X!CheckoutIInv, X!Next
    PROVE  X!CheckoutIInv'
  BY BeginBuy, ConfigRead, Approval, Undecided, PostArrives, ReplyArrives, ReceiptsRead,
     ReceiptsWritten, ConfigChanges, Payment, ShopperDies
  DEF X!Next

LEMMA CheckoutUnchanged ==
    ASSUME X!CheckoutIInv, UNCHANGED checkoutVars
    PROVE  X!CheckoutIInv'
<1>1. X!Typed'
  BY DEF checkoutVars, X!CheckoutIInv, X!Typed
<1>2. (\A c \in Calls : X!Knows(c))' /\ X!SettledArePaid'
  BY DEF checkoutVars, X!CheckoutIInv, X!Knows, X!SettledArePaid, X!Warranted
<1>3. X!OrdersAreAccountedFor'
  BY DEF checkoutVars, X!CheckoutIInv, X!OrdersAreAccountedFor, X!AccountedFor
<1>4. X!ApprovalsCover'
  BY BuyFacts, CoverKept DEF checkoutVars, X!CheckoutIInv, X!Typed
<1> QED
  BY <1>1, <1>2, <1>3, <1>4 DEF X!CheckoutIInv

-----------------------------------------------------------------------------
(* Lost replies, receipts that cannot be written, deaths of the process and *)
(* other calls do not break the invariant of the orders.                    *)
THEOREM CheckoutInvariance == MarketSpec => []CheckoutInv
<1>1. MarketInit => CheckoutInv
  BY CheckoutInit DEF MarketInit, CheckoutInv
<1>2. CheckoutInv /\ [MarketNext]_marketVars => CheckoutInv'
  <2> SUFFICES ASSUME CheckoutInv, [MarketNext]_marketVars, part' = "checkout"
               PROVE  X!CheckoutIInv'
    BY DEF CheckoutInv
  <2>1. part = "checkout" /\ X!CheckoutIInv
    BY DEF CheckoutInv, MarketNext, marketVars
  <2>2. CASE MarketNext
    BY <2>1, <2>2, CheckoutStep DEF MarketNext
  <2>3. CASE UNCHANGED marketVars
    BY <2>1, <2>3, CheckoutUnchanged DEF marketVars
  <2> QED
    BY <2>2, <2>3
<1> QED
  BY <1>1, <1>2, PTL DEF MarketSpec

(* Every order a provider has taken is known to a call, to an error that    *)
(* was answered or to an answer, with its receipt unless two calls replaced *)
(* each other's, and no receipt says "confirmed" of what nobody has paid.   *)
THEOREM OrdersKnown == MarketSpec => []OrdersAreAccountedFor
<1>1. CheckoutInv => OrdersAreAccountedFor
  BY DEF CheckoutInv, X!CheckoutIInv, OrdersAreAccountedFor
<1> QED
  BY <1>1, CheckoutInvariance, PTL

(* With a host, no more swaps are placed than the user approved, each with  *)
(* the refund address the user was shown (requireApproval,                  *)
(* changenowCreateSwap).                                                    *)
THEOREM SwapsCovered == MarketSpec => []SwapsAreApproved
<1>1. CheckoutInv => SwapsAreApproved
  <2> SUFFICES ASSUME X!CheckoutIInv PROVE X!SwapsAreApproved
    BY DEF CheckoutInv, SwapsAreApproved
  <2>1. host \in BOOLEAN
    BY BuyFacts DEF X!CheckoutIInv, X!Typed
  <2> SUFFICES ASSUME host, NEW a \in Addresses
               PROVE  Cardinality(X!Swaps(a)) <= approved[a]
    BY <2>1, SameCount DEF X!SwapsAreApproved, X!Swaps
  <2>2. Cardinality(X!Swaps(a)) + Cardinality(X!Cleared(a)) <= approved[a]
    BY SameCount DEF X!CheckoutIInv, X!ApprovalsCover
  <2>3. approved[a] \in Nat
    BY DEF X!CheckoutIInv, X!Typed
  <2> QED
    BY <2>2, <2>3, SwapsAreFinite
<1> QED
  BY <1>1, CheckoutInvariance, PTL
=================================================================================
