---------------------------- MODULE CommerceStores ----------------------------
(***************************************************************************)
(* The local order book, booking book and invoice book of the MCP server,  *)
(* and any number of tool calls over one of them.  No handler touches two  *)
(* of the three files, so a behaviour is about one of them, chosen in Init.*)
(*                                                                         *)
(* A handler reads the record and decides; it then waits (for other files, *)
(* for the vendor's webhook); updateOrder, updateBooking or updateInvoice  *)
(* reads the whole file again, merges the patch the handler made from its  *)
(* first read, and renames the new file over whatever is there by then.    *)
(* Nothing locks the file.  Receipts are a log nothing reads back.         *)
(***************************************************************************)
EXTENDS Naturals, FiniteSets

CONSTANTS
  Kinds,     \* the stores a behaviour may be about
  Calls,     \* tool calls that may be under way at the same time
  Ids,       \* the records that may be created
  MaxCalls,  \* bounds the calls of a behaviour
  Null       \* no record, no call, no draft

VARIABLES
  kind,      \* which store this is: "order", "booking" or "invoice"
  records,   \* the file: id -> record
  late,      \* whether the invoices' expiry time has passed
  pc,        \* where each call is
  task,      \* its tool, its record and the patch it made
  draft,     \* the file it is about to write
  overtaken, \* history: another call wrote the file since its first read
  opened     \* calls so far

calls == <<pc, task, draft, overtaken>>
vars == <<kind, records, late, calls, opened>>

ASSUME ConstantsAssumption ==
  /\ Kinds \subseteq {"order", "booking", "invoice"}
  /\ MaxCalls \in Nat

-----------------------------------------------------------------------------
(* Records.  "hash" says whether a payment transaction is recorded,        *)
(* "evidence" what is known of the delivery, "escrow" whether an escrow    *)
(* has been prepared, "due" whether the record has an expiry time.         *)

OrderStatuses == {"created", "payment_prepared", "paid",
                  "fulfillment_requested", "fulfilled_demo",
                  "fulfilled_manual", "cancelled"}

BookingStatuses == {"requested", "provider_requested", "accepted_demo",
                    "escrow_prepared", "paid", "completed_demo",
                    "cancelled", "disputed_demo"}

InvoiceStatuses == {"open", "paid", "cancelled", "expired"}

Statuses == OrderStatuses \cup BookingStatuses \cup InvoiceStatuses

Evidence == {"none", "requested", "delivered"}

Record == [status : Statuses, hash : BOOLEAN, evidence : Evidence,
           escrow : BOOLEAN, due : BOOLEAN]

ASSUME NullAssumption == Null \notin Record

Delivered == {"fulfilled_demo", "fulfilled_manual"}

Status(r) == IF records[r] = Null THEN "none" ELSE records[r].status

(* normalizeInvoiceStatus *)
Normal(record) ==
  IF record # Null /\ record.status = "open" /\ record.due /\ late
    THEN [record EXCEPT !.status = "expired"]
    ELSE record

(* createOrder, createBooking, createInvoice *)
NewRecord(due) ==
  Normal([status |-> CASE kind = "order" -> "created"
                       [] kind = "booking" -> "requested"
                       [] OTHER -> "open",
          hash |-> FALSE, evidence |-> "none", escrow |-> FALSE, due |-> due])

(* Mutant of Merged: what the patch does not name starts afresh.           *)
MergedAfresh(record, patch) ==
  [f \in DOMAIN record |->
     IF f \in DOMAIN patch THEN patch[f] ELSE NewRecord(record.due)[f]]

(* The record as updateOrder writes it: { ...order, ...patch }.            *)
Merged(record, patch) ==
  [f \in DOMAIN record |-> IF f \in DOMAIN patch THEN patch[f] ELSE record[f]]

-----------------------------------------------------------------------------
(* Calls.                                                                  *)

Init ==
  /\ kind \in Kinds
  /\ records = [r \in Ids |-> Null]
  /\ late = FALSE
  /\ pc = [c \in Calls |-> "idle"]
  /\ task = [c \in Calls |-> Null]
  /\ draft = [c \in Calls |-> Null]
  /\ overtaken = [c \in Calls |-> FALSE]
  /\ opened = 0

Begin(c, label, t) ==
  /\ pc[c] = "idle"
  /\ opened < MaxCalls
  /\ opened' = opened + 1
  /\ pc' = [pc EXCEPT ![c] = label]
  /\ task' = [task EXCEPT ![c] = t]
  /\ overtaken' = [overtaken EXCEPT ![c] = FALSE]
  /\ UNCHANGED <<kind, records, late>>

Task(tool, r, patch, retry) ==
  [tool |-> tool, id |-> r, patch |-> patch, retry |-> retry]

(* A handler that has read the record and let it pass.                     *)
Decide(c, tool, r, patch) ==
  /\ records[r] # Null
  /\ Begin(c, "update", Task(tool, r, patch, FALSE))
  /\ UNCHANGED draft

End(c) ==
  /\ pc' = [pc EXCEPT ![c] = "idle"]
  /\ task' = [task EXCEPT ![c] = Null]
  /\ draft' = [draft EXCEPT ![c] = Null]
  /\ UNCHANGED overtaken

(* The second read of the file, into which the patch is merged.  A record  *)
(* that is no longer there makes the call throw.                           *)
UpdateRead(c) ==
  /\ pc[c] = "update"
  /\ LET id == task[c].id
     IN  IF records[id] = Null
           THEN End(c)
           ELSE /\ draft' = [draft EXCEPT ![c] =
                     [records EXCEPT ![id] = Normal(Merged(Normal(@), task[c].patch))]]
                /\ pc' = [pc EXCEPT ![c] = "write"]
                /\ UNCHANGED <<task, overtaken>>
  /\ UNCHANGED <<kind, records, late, opened>>

(* The rename of the temporary file.                                       *)
Write(c) ==
  /\ pc[c] = "write"
  /\ records' = draft[c]
  /\ pc' = [pc EXCEPT ![c] = "idle"]
  /\ task' = [task EXCEPT ![c] = Null]
  /\ draft' = [draft EXCEPT ![c] = Null]
  /\ overtaken' = [d \in Calls |-> d # c]
  /\ UNCHANGED <<kind, late, opened>>

(* The process dies, a policy gate refuses, a file cannot be read, no      *)
(* connector is found: the call ends with nothing more written.            *)
Interrupted(c) ==
  /\ pc[c] # "idle"
  /\ End(c)
  /\ UNCHANGED <<kind, records, late, opened>>

ExpiryPasses ==
  /\ kind = "invoice"
  /\ ~late
  /\ late' = TRUE
  /\ UNCHANGED <<kind, records, calls, opened>>

Fresh(r) == records[r] = Null /\ \A c \in Calls : task[c] # Null => task[c].id # r

(* The new record and the one write of the file that creates it.           *)
Create(c, r, due) ==
  /\ Fresh(r)
  /\ Begin(c, "write", Task("create", r, <<>>, FALSE))
  /\ draft' = [draft EXCEPT ![c] = [records EXCEPT ![r] = NewRecord(due)]]

-----------------------------------------------------------------------------
(* Orders.                                                                 *)

(* order_create, once the policies of MerchantGate have let it pass.       *)
OrderCreate(c, r) == kind = "order" /\ Create(c, r, FALSE)

(* Mutant of OrderPay: the order takes the status of the receipt.          *)
OrderPayReceiptStatus(c, r, hash) ==
  /\ kind = "order"
  /\ Status(r) # "cancelled"
  /\ Decide(c, "order_pay", r,
            [status |-> IF hash THEN "submitted" ELSE "drafted", hash |-> hash])

(* Mutant of OrderPay: paid, whether or not there is a transaction.        *)
OrderPayAssumed(c, r, hash) ==
  /\ kind = "order"
  /\ Status(r) # "cancelled"
  /\ Decide(c, "order_pay", r, [status |-> "paid", hash |-> hash])

OrderPay(c, r, hash) ==
  /\ kind = "order"
  /\ Status(r) # "cancelled"
  /\ Decide(c, "order_pay", r,
            [status |-> IF hash THEN "paid" ELSE "payment_prepared", hash |-> hash])

OrderMarkPaid(c, r) ==
  /\ kind = "order"
  /\ Decide(c, "order_mark_paid", r, [status |-> "paid", hash |-> TRUE])

OrderCancel(c, r) ==
  /\ kind = "order"
  /\ Status(r) \notin Delivered
  /\ Decide(c, "order_cancel", r, [status |-> "cancelled"])

OrderFulfill(c, r, how) ==
  /\ kind = "order"
  /\ Status(r) \notin Delivered \cup {"cancelled"}
  /\ Decide(c, "order_fulfill", r, [status |-> how, evidence |-> "delivered"])

OrderFulfillDryRun(c, r) == OrderFulfill(c, r, "fulfilled_demo")

OrderFulfillManual(c, r) == OrderFulfill(c, r, "fulfilled_manual")

(* A handler that sends the record to the vendor before it updates it.     *)
Send(c, tool, r, patch, allowRetry) ==
  /\ records[r] # Null
  /\ Begin(c, "send", Task(tool, r, patch, allowRetry))
  /\ UNCHANGED draft

OrderFulfillWebhook(c, r, allowUnpaid, allowRetry) ==
  /\ kind = "order"
  /\ Status(r) \notin Delivered \cup {"cancelled"}
  /\ Status(r) = "fulfillment_requested" => allowRetry
  /\ allowUnpaid \/ Status(r) = "paid"
  /\ Send(c, "order_fulfill_webhook", r,
          [status |-> "fulfillment_requested", evidence |-> "requested"], allowRetry)

(* sendConnectorJson: the vendor answers that it accepts.                  *)
VendorAccepts(c) ==
  /\ pc[c] = "send"
  /\ pc' = [pc EXCEPT ![c] = "update"]
  /\ UNCHANGED <<kind, records, late, task, draft, overtaken, opened>>

(* It refuses, or no answer comes: only an event is added to the record.   *)
VendorFails(c) ==
  /\ pc[c] = "send"
  /\ pc' = [pc EXCEPT ![c] = "update"]
  /\ task' = [task EXCEPT ![c].patch = <<>>]
  /\ UNCHANGED <<kind, records, late, draft, overtaken, opened>>

-----------------------------------------------------------------------------
(* Bookings.                                                               *)

BookingRequestCreate(c, r) == kind = "booking" /\ Create(c, r, FALSE)

BookingAccept(c, r) ==
  /\ kind = "booking"
  /\ Status(r) \notin {"cancelled", "completed_demo"}
  /\ Decide(c, "booking_accept_demo", r, [status |-> "accepted_demo"])

BookingSendWebhook(c, r, allowRetry) ==
  /\ kind = "booking"
  /\ Status(r) \notin {"cancelled", "completed_demo", "disputed_demo"}
  /\ Status(r) = "provider_requested" => allowRetry
  /\ Send(c, "booking_send_webhook", r, [status |-> "provider_requested"], allowRetry)

BookingPrepareEscrow(c, r) ==
  /\ kind = "booking"
  /\ Status(r) \notin {"cancelled", "completed_demo"}
  /\ Decide(c, "booking_prepare_escrow", r,
            [status |-> "escrow_prepared", escrow |-> TRUE])

(* Mutant of BookingMarkPaid: the status is not looked at.                 *)
BookingMarkPaidAlways(c, r) ==
  /\ kind = "booking"
  /\ records[r] # Null
  /\ Decide(c, "booking_mark_paid", r,
            [status |-> "paid", hash |-> TRUE, escrow |-> records[r].escrow])

(* The escrow is written back as the handler first read it.                *)
BookingMarkPaid(c, r) ==
  /\ kind = "booking"
  /\ Status(r) \notin {"none", "cancelled"}
  /\ Decide(c, "booking_mark_paid", r,
            [status |-> "paid", hash |-> TRUE, escrow |-> records[r].escrow])

BookingComplete(c, r) ==
  /\ kind = "booking"
  /\ Status(r) \notin {"cancelled", "disputed_demo"}
  /\ Decide(c, "booking_complete_dry_run", r,
            [status |-> "completed_demo", evidence |-> "delivered"])

BookingDispute(c, r) ==
  /\ kind = "booking"
  /\ Status(r) \notin {"cancelled", "completed_demo"}
  /\ Decide(c, "booking_dispute_demo", r, [status |-> "disputed_demo"])

BookingCancel(c, r) ==
  /\ kind = "booking"
  /\ Status(r) # "completed_demo"
  /\ Decide(c, "booking_cancel", r, [status |-> "cancelled"])

-----------------------------------------------------------------------------
(* Invoices and funding requests.                                          *)

(* invoice_create and funding_request_create, with or without an expiry.   *)
InvoiceCreate(c, r, due) == kind = "invoice" /\ Create(c, r, due)

(* updateInvoice is the handler's first read.                              *)
InvoiceMarkPaid(c, r) ==
  /\ kind = "invoice"
  /\ records[r] # Null
  /\ LET patch == [status |-> "paid", hash |-> TRUE]
     IN  /\ Begin(c, "write", Task("invoice_mark_paid", r, patch, FALSE))
         /\ draft' = [draft EXCEPT ![c] =
                        [records EXCEPT ![r] = Normal(Merged(Normal(@), patch))]]

InvoiceCancel(c, r) ==
  /\ kind = "invoice"
  /\ Status(r) # "paid"
  /\ Decide(c, "invoice_cancel", r, [status |-> "cancelled"])

(* listInvoices writes the file it read when an invoice in it has expired. *)
InvoiceList(c) ==
  LET normalized == [r \in Ids |-> Normal(records[r])]
  IN  /\ kind = "invoice"
      /\ normalized # records
      /\ Begin(c, "write", Task("invoice_list", Null, <<>>, FALSE))
      /\ draft' = [draft EXCEPT ![c] = normalized]

-----------------------------------------------------------------------------

OrderCall(c, r) ==
  \/ OrderCreate(c, r)
  \/ \E hash \in BOOLEAN : OrderPay(c, r, hash)
  \/ OrderMarkPaid(c, r)
  \/ OrderCancel(c, r)
  \/ OrderFulfillDryRun(c, r)
  \/ OrderFulfillManual(c, r)
  \/ \E allowUnpaid, allowRetry \in BOOLEAN :
        OrderFulfillWebhook(c, r, allowUnpaid, allowRetry)

BookingCall(c, r) ==
  \/ BookingRequestCreate(c, r)
  \/ BookingAccept(c, r)
  \/ \E allowRetry \in BOOLEAN : BookingSendWebhook(c, r, allowRetry)
  \/ BookingPrepareEscrow(c, r)
  \/ BookingMarkPaid(c, r)
  \/ BookingComplete(c, r)
  \/ BookingDispute(c, r)
  \/ BookingCancel(c, r)

InvoiceCall(c, r) ==
  \/ \E due \in BOOLEAN : InvoiceCreate(c, r, due)
  \/ InvoiceMarkPaid(c, r)
  \/ InvoiceCancel(c, r)

CallStep(c) ==
  \/ \E r \in Ids :
        \/ OrderCall(c, r)
        \/ BookingCall(c, r)
        \/ InvoiceCall(c, r)
  \/ InvoiceList(c)
  \/ VendorAccepts(c)
  \/ VendorFails(c)
  \/ UpdateRead(c)
  \/ Write(c)
  \/ Interrupted(c)

Next == ExpiryPasses \/ \E c \in Calls : CallStep(c)

Spec == Init /\ [][Next]_vars

-----------------------------------------------------------------------------
(* Properties.                                                             *)

Patch ==
  {<<>>} \cup [status : Statuses]
         \cup [status : Statuses, hash : BOOLEAN]
         \cup [status : Statuses, evidence : Evidence]
         \cup [status : Statuses, escrow : BOOLEAN]
         \cup [status : Statuses, hash : BOOLEAN, escrow : BOOLEAN]

Book == [Ids -> Record \cup {Null}]

Tools ==
  {"create", "order_pay", "order_mark_paid", "order_cancel", "order_fulfill",
   "order_fulfill_webhook", "booking_accept_demo", "booking_send_webhook",
   "booking_prepare_escrow", "booking_mark_paid", "booking_complete_dry_run",
   "booking_dispute_demo", "booking_cancel", "invoice_mark_paid",
   "invoice_cancel", "invoice_list"}

Tasks == [tool : Tools, id : Ids \cup {Null}, patch : Patch, retry : BOOLEAN]

(* The types of the variables; a call that writes has the file to write.   *)
TypeOK ==
  /\ kind \in Kinds
  /\ records \in Book
  /\ late \in BOOLEAN
  /\ pc \in [Calls -> {"idle", "send", "update", "write"}]
  /\ task \in [Calls -> Tasks \cup {Null}]
  /\ draft \in [Calls -> Book \cup {Null}]
  /\ overtaken \in [Calls -> BOOLEAN]
  /\ opened \in 0 .. MaxCalls
  /\ \A c \in Calls :
       /\ pc[c] # "idle" => task[c] \in Tasks
       /\ pc[c] \in {"send", "update"} => task[c].id \in Ids
       /\ pc[c] = "write" => draft[c] \in Book

Coherent(record) ==
  /\ record.status = "paid" => record.hash
  /\ record.status = "escrow_prepared" => record.escrow
  /\ record.status = "fulfillment_requested" => record.evidence = "requested"
  /\ record.status \in Delivered \cup {"completed_demo"} => record.evidence = "delivered"

(* Whatever calls overlap, a status is never without what it claims: a     *)
(* paid record has its transaction, a delivered one its confirmation, a    *)
(* prepared escrow its runbook.  A handler's status and its evidence reach *)
(* the file in one merge, or not at all.                                   *)
RecordsCohere == \A r \in Ids : records[r] # Null => Coherent(records[r])

(* The tools whose own guard lets them move a finished record on.          *)
Reopeners(status) ==
  CASE kind = "order" /\ status = "cancelled" -> {"order_mark_paid"}
    [] kind = "order" /\ status \in Delivered -> {"order_pay", "order_mark_paid"}
    [] kind = "booking" /\ status = "completed_demo" -> {"booking_mark_paid"}
    [] OTHER -> {}

Finished ==
  CASE kind = "order" -> Delivered \cup {"cancelled"}
    [] kind = "booking" -> {"cancelled", "completed_demo"}
    [] OTHER -> {"paid"}

StatusChange(tool, old, new) ==
  old # Null /\ old.status \in Finished =>
    /\ new # Null
    /\ new.status = old.status \/ tool \in Reopeners(old.status)

(* A finished record (a cancelled or delivered order, a cancelled or       *)
(* completed booking, a paid invoice) stays as it is, except for the tools *)
(* that may reopen it, unless the call that changes it was overtaken by    *)
(* another call's write after its first read.                              *)
FinishedStaysFinished ==
  [][\A c \in Calls : pc[c] = "write" /\ ~overtaken[c] /\ pc'[c] = "idle" =>
       \A r \in Ids : StatusChange(task[c].tool, records[r], records'[r])]_vars

FactsKept(tool, old, new) ==
  old # Null =>
    /\ new # Null
    /\ old.hash => new.hash \/ tool = "order_pay"
    /\ old.escrow => new.escrow
    /\ old.evidence # "none" => new.evidence # "none"

(* No record, payment, escrow or proof of delivery disappears from a file, *)
(* unless the call that writes it was overtaken; only order_pay, prepared  *)
(* again without a transaction, drops the payment recorded before.         *)
FactsAreKept ==
  [][\A c \in Calls : pc[c] = "write" /\ ~overtaken[c] /\ pc'[c] = "idle" =>
       \A r \in Ids : FactsKept(task[c].tool, records[r], records'[r])]_vars

-----------------------------------------------------------------------------
(* Why these hold: a call that was not overtaken still finds the record    *)
(* its guard let pass, and its draft is the file with one step made in it. *)

Sound(patch) ==
  "status" \in DOMAIN patch =>
    /\ patch.status = "paid" => "hash" \in DOMAIN patch /\ patch.hash
    /\ patch.status = "escrow_prepared" => "escrow" \in DOMAIN patch /\ patch.escrow
    /\ patch.status = "fulfillment_requested" =>
         "evidence" \in DOMAIN patch /\ patch.evidence = "requested"
    /\ patch.status \in Delivered \cup {"completed_demo"} =>
         "evidence" \in DOMAIN patch /\ patch.evidence = "delivered"
    /\ patch.status # "open"
    /\ "evidence" \in DOMAIN patch => patch.evidence # "none"

Step(tool, old, new) == StatusChange(tool, old, new) /\ FactsKept(tool, old, new)

CallInv(c) ==
  /\ pc[c] \in {"send", "update"} =>
       /\ Sound(task[c].patch)
       /\ ~overtaken[c] =>
            LET old == records[task[c].id]
            IN  old # Null /\ Step(task[c].tool, old, Merged(old, task[c].patch))
  /\ pc[c] = "write" =>
       /\ \A r \in Ids : draft[c][r] # Null => Coherent(draft[c][r])
       /\ ~overtaken[c] => \A r \in Ids : Step(task[c].tool, records[r], draft[c][r])

IInv == TypeOK /\ RecordsCohere /\ \A c \in Calls : CallInv(c)

=============================================================================
