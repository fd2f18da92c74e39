-------------------------------- MODULE Checkout --------------------------------
(***************************************************************************)
(* Orders at the providers that move money: flights (Duffel), payments and *)
(* invoices (NOWPayments), swaps (ChangeNow) and what is forwarded to      *)
(* Travala's server; src/src/duffel.ts, nowpayments.ts, changenow.ts,      *)
(* travala.ts, approval.ts, receipts.ts and their tools in src/src/index.ts. *)
(*                                                                         *)
(* A call reads the configuration, asks the host for its approval (swaps,  *)
(* when there is a host), posts once, without a key that would make a      *)
(* repetition harmless, and enters a receipt when the reply arrives.  What *)
(* the provider did and what the call has seen of it come apart when a     *)
(* reply is lost, a receipt cannot be written or the process dies.         *)
(*                                                                         *)
(* External: the provider, the user at the host's approval dialogue.       *)
(***************************************************************************)
EXTENDS Naturals, FiniteSetsExt

CONSTANTS
    Calls,              \* the calls under way at one time
    Orders,             \* orders the providers ever take (bound of the model)
    Addresses,          \* refund addresses
    None,
    MaxApprovals        \* bound of the model: approvals the user ever gives

VARIABLES
    shop,               \* the provider a behaviour is about
    host,               \* LYTH_MCP_APPROVAL_URL is set
    config,             \* the provider's configuration: its refund address
    provider,           \* order -> [tool, refund, status] or None
    receipts,           \* receipts.json
    call,
    approved,           \* history: address -> swaps the user approved
    paid,               \* history: orders that have been paid at some time
    answered,           \* history: orders a call has answered with
    failed,             \* history: orders whose call answered an error or died
    overlapped          \* history: receipts.json was written over a newer one

checkoutVars == <<shop, host, config, provider, receipts, call, approved, paid, answered,
                  failed, overlapped>>
histories == <<approved, paid, answered, failed, overlapped>>

Tools(s) ==
    CASE s = "duffel" -> {"hold", "instant", "pay", "cancel", "cancel_confirm"}
      [] s = "nowpayments" -> {"payment", "track"}
      [] s = "changenow" -> {"swap"}
      [] s = "travala" -> {"proxy"}
Shops == {"duffel", "nowpayments", "changenow", "travala"}
Posting == {"hold", "instant", "payment", "swap", "proxy"}
OnOrders == {"pay", "cancel", "cancel_confirm", "track"}
WithReceipt == {"hold", "instant", "payment", "track"}

Idle == [pc |-> "idle", tool |-> "none", order |-> None, refund |-> None,
         reply |-> None, base |-> {}, outdated |-> FALSE]

Init ==
    /\ shop \in Shops
    /\ host \in IF shop = "changenow" THEN BOOLEAN ELSE {FALSE}
    /\ config \in IF shop = "changenow" THEN Addresses ELSE {CHOOSE a \in Addresses : TRUE}
    /\ provider = [o \in Orders |-> None]
    /\ receipts = {}
    /\ call = [c \in Calls |-> Idle]
    /\ approved = [a \in Addresses |-> 0]
    /\ paid = {} /\ answered = {} /\ failed = {}
    /\ overlapped = FALSE

Begin(c, tool, order) ==
    /\ call[c] = Idle
    /\ tool \in Tools(shop)
    /\ tool \in OnOrders => order # None /\ provider[order] # None
    /\ tool \notin OnOrders => order = None
    /\ call' = [call EXCEPT ![c] = [Idle EXCEPT !.tool = tool, !.order = order,
                                                !.pc = "config"]]
    /\ UNCHANGED <<shop, host, config, provider, receipts, histories>>

(* changenow_configure: another default refund address.                    *)
Configure(a) ==
    /\ shop = "changenow"
    /\ config # a
    /\ config' = a
    /\ UNCHANGED <<shop, host, provider, receipts, call, histories>>

(* A call ends; the error of one whose order is at the provider is the     *)
(* last that is heard of it.                                               *)
EndsWith(c, how) ==
    /\ call' = [call EXCEPT ![c] = Idle]
    /\ LET own == {o \in {call[c].order} \ {None} : call[c].tool \in Posting}
       IN  /\ answered' = IF how = "ok" THEN answered \cup own ELSE answered
           /\ failed' = IF how = "ok" THEN failed ELSE failed \cup own

-----------------------------------------------------------------------------
(* requireConfig; changenowCreateSwap prepares the body from it.           *)
ReadConfig(c) ==
    /\ call[c].pc = "config"
    /\ call' = [call EXCEPT ![c].refund = IF call[c].tool = "swap" THEN config ELSE None,
                            ![c].pc = IF call[c].tool = "swap" /\ host
                                      THEN "approval" ELSE "post"]
    /\ UNCHANGED <<shop, host, config, provider, receipts, histories>>

(* requireApproval: the user decides about the body the host was sent, ... *)
Approves(c) ==
    /\ call[c].pc = "approval"
    /\ approved[call[c].refund] < MaxApprovals
    /\ approved' = [approved EXCEPT ![call[c].refund] = @ + 1]
    /\ \/ call' = [call EXCEPT ![c].pc = "post"] /\ UNCHANGED <<answered, failed>>
       \/ EndsWith(c, "error")                  \* the decision comes too late
    /\ UNCHANGED <<shop, host, config, provider, receipts, paid, overlapped>>

(* ... refuses, cannot be asked, or lets APPROVAL_TIMEOUT_MS pass.         *)
Unapproved(c) ==
    /\ call[c].pc = "approval"
    /\ EndsWith(c, "error")
    /\ UNCHANGED <<shop, host, config, provider, receipts, approved, paid, overlapped>>

-----------------------------------------------------------------------------
(* The provider.                                                           *)
Placed(tool, refund) ==
    [tool |-> tool, refund |-> refund,
     status |-> CASE tool = "instant" -> "paid"
                  [] tool = "hold" -> "held"
                  [] OTHER -> "waiting"]

Settled == {"paid", "finished"}

(* What the provider makes of a request about an order it has.             *)
Changed(tool, order) ==
    CASE tool = "pay" /\ order.status = "held" -> [order EXCEPT !.status = "paid"]
      [] tool = "cancel" /\ order.tool \in {"hold", "instant"}
           /\ order.status \in {"held", "paid"} -> [order EXCEPT !.status = "cancelling"]
      [] tool = "cancel_confirm" /\ order.status = "cancelling" ->
           [order EXCEPT !.status = "cancelled"]
      [] OTHER -> order

(* The deposit of a payment or a swap arrives, a held flight is paid.      *)
PaidOutside(o) ==
    /\ provider[o] # None
    /\ provider[o].status \in {"held", "waiting"}
    /\ provider' = [provider EXCEPT ![o].status =
                       IF @ = "held" THEN "paid" ELSE "finished"]
    /\ paid' = paid \cup {o}
    /\ UNCHANGED <<shop, host, config, receipts, call, approved, answered, failed, overlapped>>

(* Mutant of BodyPosted: the body is made again after the approval.        *)
BodyPostedAfresh(c) == IF call[c].tool = "swap" THEN config ELSE None
BodyPosted(c) == call[c].refund

(* duffelRequest, npRequest, cnRequest, mcpJsonRpc: one fetch; its reply   *)
(* arrives, ...                                                            *)
Posts(c) ==
    /\ call[c].pc = "post"
    /\ \E o \in IF call[c].tool \in Posting
                THEN {x \in Orders : provider[x] = None} ELSE {call[c].order} :
          LET after == IF call[c].tool \in Posting
                       THEN Placed(call[c].tool, BodyPosted(c))
                       ELSE Changed(call[c].tool, provider[o])
          IN  /\ provider' = [provider EXCEPT ![o] = after]
              /\ paid' = IF after.status \in Settled THEN paid \cup {o} ELSE paid
              /\ call' = [call EXCEPT ![c].order = o, ![c].reply = after.status,
                                      ![c].pc = "reply"]
    /\ UNCHANGED <<shop, host, config, receipts, approved, answered, failed, overlapped>>

(* ... or the request was refused or never arrived.                        *)
PostFails(c) ==
    /\ call[c].pc = "post"
    /\ EndsWith(c, "error")
    /\ UNCHANGED <<shop, host, config, provider, receipts, approved, paid, overlapped>>

Replies(c) ==
    /\ call[c].pc = "reply"
    /\ IF call[c].tool \in WithReceipt
       THEN call' = [call EXCEPT ![c].pc = "read"] /\ UNCHANGED <<answered, failed>>
       ELSE EndsWith(c, "ok")
    /\ UNCHANGED <<shop, host, config, provider, receipts, approved, paid, overlapped>>

(* The reply is lost, is an error, or cannot be parsed.                    *)
ReplyLost(c) ==
    /\ call[c].pc = "reply"
    /\ EndsWith(c, "error")
    /\ UNCHANGED <<shop, host, config, provider, receipts, approved, paid, overlapped>>

-----------------------------------------------------------------------------
(* addReceipt: an unlocked read, and a rename.                             *)
ReceiptStatus(c) ==
    CASE call[c].tool = "instant" -> "confirmed"
      [] call[c].tool = "hold" -> IF call[c].reply = "held" THEN "submitted" ELSE "confirmed"
      [] call[c].tool = "track" -> IF call[c].reply = "finished" THEN "confirmed"
                                   ELSE "submitted"
      [] OTHER -> "submitted"

ReadReceipts(c) ==
    /\ call[c].pc = "read"
    /\ call' = [call EXCEPT ![c].base = receipts, ![c].pc = "write"]
    /\ UNCHANGED <<shop, host, config, provider, receipts, histories>>

(* Mutant of WriteReceipts: no receipt for what awaits its payment.        *)
WriteReceiptsOfConfirmed(c) ==
    /\ call[c].pc = "write"
    /\ receipts' = call[c].base \cup
         {r \in {[order |-> call[c].order, status |-> ReceiptStatus(c)]} :
             r.status = "confirmed"}
    /\ EndsWith(c, "ok")
    /\ overlapped' = (overlapped \/ call[c].outdated)
    /\ UNCHANGED <<shop, host, config, provider, approved, paid>>

WriteReceipts(c) ==
    /\ call[c].pc = "write"
    /\ receipts' = call[c].base \cup {[order |-> call[c].order, status |-> ReceiptStatus(c)]}
    /\ LET own == {o \in {call[c].order} : call[c].tool \in Posting}
       IN  answered' = answered \cup own
    /\ call' = [d \in Calls |-> IF d = c THEN Idle
                                ELSE [call[d] EXCEPT !.outdated = (call[d].pc = "write")]]
    /\ overlapped' = (overlapped \/ call[c].outdated)
    /\ UNCHANGED <<shop, host, config, provider, approved, paid, failed>>

ReceiptFails(c) ==
    /\ call[c].pc \in {"read", "write"}
    /\ EndsWith(c, "error")
    /\ UNCHANGED <<shop, host, config, provider, receipts, approved, paid, overlapped>>

Dies ==
    /\ \E c \in Calls : call[c] # Idle
    /\ failed' = failed \cup {call[c].order : c \in {d \in Calls :
                                 call[d].order # None /\ call[d].tool \in Posting}}
    /\ call' = [c \in Calls |-> Idle]
    /\ UNCHANGED <<shop, host, config, provider, receipts, approved, paid, answered, overlapped>>

Next ==
    \/ \E c \in Calls :
          \/ \E tool \in Posting \cup OnOrders, order \in Orders \cup {None} :
                Begin(c, tool, order)
          \/ ReadConfig(c) \/ Approves(c) \/ Unapproved(c)
          \/ Posts(c) \/ PostFails(c) \/ Replies(c) \/ ReplyLost(c)
          \/ ReadReceipts(c) \/ WriteReceipts(c) \/ ReceiptFails(c)
    \/ \E a \in Addresses : Configure(a)
    \/ \E o \in Orders : PaidOutside(o)
    \/ Dies

Spec == Init /\ [][Next]_checkoutVars

-----------------------------------------------------------------------------
CheckoutTypeOK ==
    /\ config \in Addresses
    /\ \A o \in Orders : provider[o] # None =>
          /\ provider[o].tool \in Posting
          /\ provider[o].status \in
                {"held", "waiting", "paid", "finished", "cancelling", "cancelled"}
    /\ receipts \subseteq [order: Orders, status: {"submitted", "confirmed"}]
    /\ \A c \in Calls : call[c].pc \in
          {"idle", "config", "approval", "post", "reply", "read", "write"}

(* Who knows of an order that the provider has taken.                      *)
AccountedFor(o) ==
    \/ \E c \in Calls : call[c].order = o /\ call[c].tool \in Posting
    \/ o \in failed
    \/ /\ o \in answered
       /\ overlapped \/ provider[o].tool \notin WithReceipt
          \/ \E r \in receipts : r.order = o

(* Every order the provider has taken is behind a call that is still under *)
(* way, behind one that ended in an error or died with the process, or has *)
(* been answered, and then it is in the receipts if its tool keeps them,   *)
(* unless two calls replaced each other's receipts.  And a receipt that    *)
(* says "confirmed" is of an order that has been paid.                     *)
OrdersAreAccountedFor ==
    /\ \A o \in Orders : provider[o] # None => AccountedFor(o)
    /\ \A r \in receipts : r.status = "confirmed" => r.order \in paid

(* With a host, no more swaps are placed than the user has approved, each  *)
(* with the refund address the user was shown, also when the configuration *)
(* changes, the decision arrives late or other swaps are asked for in the  *)
(* meantime.                                                               *)
SwapsAreApproved ==
    host => \A a \in Addresses :
        Cardinality({o \in Orders : provider[o] # None /\ provider[o].tool = "swap"
                                      /\ provider[o].refund = a}) <= approved[a]

-----------------------------------------------------------------------------
(* The inductive invariants of OrdersAreAccountedFor and SwapsAreApproved.  *)
Statuses == {"held", "waiting", "paid", "finished", "cancelling", "cancelled"}
Placement == [tool: Posting, refund: Addresses \cup {None}, status: Statuses]
Receipt == [order: Orders, status: {"submitted", "confirmed"}]
CheckoutCall ==
    [pc: {"idle", "config", "approval", "post", "reply", "read", "write"},
     tool: Posting \cup OnOrders \cup {"none"}, order: Orders \cup {None},
     refund: Addresses \cup {None}, reply: Statuses \cup {None},
     base: SUBSET Receipt, outdated: BOOLEAN]

Typed ==
    /\ host \in BOOLEAN /\ config \in Addresses
    /\ provider \in [Orders -> Placement \cup {None}]
    /\ receipts \subseteq Receipt
    /\ call \in [Calls -> CheckoutCall]
    /\ approved \in [Addresses -> Nat]
    /\ paid \subseteq Orders /\ answered \subseteq Orders /\ failed \subseteq Orders
    /\ overlapped \in BOOLEAN

(* What is called confirmed has been paid.                                 *)
Warranted(kept) == \A r \in kept : r.status = "confirmed" => r.order \in paid

(* What a call knows: before its post it has an order only if it was given  *)
(* one; afterwards the order is one it placed, or was given, and the reply  *)
(* it goes by is still true where its receipt will say so; what it is about *)
(* to write over is what receipts.json holds, unless it is marked outdated. *)
Posted == {"reply", "read", "write"}
Knows(c) ==
    /\ call[c].pc = "idle" <=> call[c].tool = "none"
    /\ call[c].tool \in Posting \cup {"none"} /\ call[c].pc \notin Posted => call[c].order = None
    /\ call[c].tool \in OnOrders \/ call[c].pc \in Posted =>
          call[c].order \in Orders /\ provider[call[c].order] # None
    /\ call[c].tool \in Posting /\ call[c].pc \in Posted =>
          provider[call[c].order].tool = call[c].tool
    /\ call[c].pc \in Posted =>
          /\ call[c].tool = "instant" => call[c].order \in paid
          /\ call[c].tool = "hold" => call[c].reply = "held"
          /\ call[c].tool = "track" /\ call[c].reply = "finished" => call[c].order \in paid
    /\ call[c].pc \in {"read", "write"} => call[c].tool \in WithReceipt
    /\ call[c].pc = "approval" => call[c].tool = "swap"
    /\ call[c].pc \in {"approval", "post"} /\ call[c].tool = "swap" =>
          call[c].refund \in Addresses
    /\ call[c].pc = "write" =>
          Warranted(call[c].base) /\ (call[c].outdated \/ call[c].base = receipts)

SettledArePaid ==
    \A o \in Orders : provider[o] # None /\ provider[o].status \in Settled => o \in paid

(* Swaps placed, and those approved whose post has not been decided yet.    *)
Swaps(a) == {o \in Orders : provider[o] # None /\ provider[o].tool = "swap"
                               /\ provider[o].refund = a}
Cleared(a) == {c \in Calls : call[c].pc = "post" /\ call[c].tool = "swap"
                               /\ call[c].refund = a}
ApprovalsCover ==
    host => \A a \in Addresses : Cardinality(Swaps(a)) + Cardinality(Cleared(a)) <= approved[a]

CheckoutIInv ==
    /\ Typed
    /\ \A c \in Calls : Knows(c)
    /\ SettledArePaid
    /\ OrdersAreAccountedFor
    /\ ApprovalsCover
=============================================================================
