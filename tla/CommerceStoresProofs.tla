------------------------- MODULE CommerceStoresProofs -------------------------
(***************************************************************************)
(* For any number of calls and records: records cohere whatever overlaps,  *)
(* and only an overtaken call, or one of the tools named, undoes what is   *)
(* finished or forgets what was recorded.  The argument is IInv: as long   *)
(* as nobody else has written, the record a call decided on is unchanged.  *)
(***************************************************************************)
EXTENDS CommerceStores, TLAPS

-----------------------------------------------------------------------------
(* Merging and normalising.                                                *)

LEMMA MergedFields ==
  ASSUME NEW record \in Record, NEW patch \in Patch
  PROVE  LET new == Merged(record, patch)
         IN  /\ new \in Record
             /\ new.status = IF "status" \in DOMAIN patch THEN patch.status ELSE record.status
             /\ new.hash = IF "hash" \in DOMAIN patch THEN patch.hash ELSE record.hash
             /\ new.evidence = IF "evidence" \in DOMAIN patch THEN patch.evidence ELSE record.evidence
             /\ new.escrow = IF "escrow" \in DOMAIN patch THEN patch.escrow ELSE record.escrow
             /\ new.due = record.due
<1> DEFINE new == Merged(record, patch)
<1>1. DOMAIN record = {"status", "hash", "evidence", "escrow", "due"}
  BY DEF Record
<1>2. CASE patch = <<>>
  <2>1. new = [f \in DOMAIN record |-> record[f]]
    BY <1>2 DEF Merged
  <2>2. new = record
    BY <2>1, <1>1 DEF Record
  <2> QED
    BY <1>2, <2>2
<1>3. CASE patch \in [status : Statuses]
  BY <1>1, <1>3 DEF Merged, Record
<1>4. CASE patch \in [status : Statuses, hash : BOOLEAN]
  BY <1>1, <1>4 DEF Merged, Record
<1>5. CASE patch \in [status : Statuses, evidence : Evidence]
  BY <1>1, <1>5 DEF Merged, Record
<1>6. CASE patch \in [status : Statuses, escrow : BOOLEAN]
  BY <1>1, <1>6 DEF Merged, Record
<1>7. CASE patch \in [status : Statuses, hash : BOOLEAN, escrow : BOOLEAN]
  BY <1>1, <1>7 DEF Merged, Record
<1> QED
  BY <1>2, <1>3, <1>4, <1>5, <1>6, <1>7 DEF Patch

LEMMA NormalFields ==
  ASSUME NEW record \in Record
  PROVE  /\ Normal(record) \in Record
         /\ Normal(record).hash = record.hash
         /\ Normal(record).evidence = record.evidence
         /\ Normal(record).escrow = record.escrow
         /\ Normal(record).status \in {record.status, "expired"}
         /\ record.status # "open" => Normal(record) = record
BY NullAssumption DEF Normal, Record, Statuses, InvoiceStatuses

LEMMA NormalNull == Normal(Null) = Null
BY DEF Normal

LEMMA MergedCoheres ==
  ASSUME NEW record \in Record, Coherent(record), NEW patch \in Patch, Sound(patch)
  PROVE  Coherent(Merged(record, patch))
<1>1. CASE patch = <<>>
  BY <1>1, MergedFields DEF Coherent
<1>2. CASE "status" \in DOMAIN patch
  BY <1>2, MergedFields DEF Coherent, Sound, Delivered
<1>3. patch = <<>> \/ "status" \in DOMAIN patch
  BY DEF Patch
<1> QED
  BY <1>1, <1>2, <1>3

LEMMA NormalCoheres ==
  ASSUME NEW record \in Record, Coherent(record)
  PROVE  Coherent(Normal(record))
BY NormalFields DEF Coherent, Delivered

LEMMA StepReflexive ==
  ASSUME NEW tool, NEW record \in Record \cup {Null}
  PROVE  Step(tool, record, record)
BY DEF Step, StatusChange, FactsKept

(* Normalising on the way does not turn an allowed step into another.      *)
LEMMA NormalisedStep ==
  ASSUME NEW tool, NEW record \in Record, NEW patch \in Patch, Sound(patch),
         kind \in {"order", "booking", "invoice"},
         Step(tool, record, Merged(record, patch))
  PROVE  Step(tool, record, Normal(Merged(Normal(record), patch)))
<1> DEFINE old == Normal(record)
           new == Merged(old, patch)
<1>1. old \in Record /\ new \in Record
  BY NormalFields, MergedFields
<1>2. record.status = "open" => record.status \notin Finished
  BY DEF Finished, Delivered
<1>3. record.status # "open" => old = record
  BY NormalFields
<1>4. record.status \in Finished => Normal(new).status = Merged(record, patch).status
  <2>1. SUFFICES ASSUME record.status \in Finished
                 PROVE  Normal(new).status = Merged(record, patch).status
    OBVIOUS
  <2>2. old = record /\ record.status # "open"
    BY <1>2, <1>3, <2>1
  <2>3. new.status # "open"
    BY <2>2, MergedFields, <1>1 DEF Sound
  <2> QED
    BY <2>2, <2>3, NormalFields, <1>1
<1>5. /\ Normal(new).hash = Merged(record, patch).hash
      /\ Normal(new).escrow = Merged(record, patch).escrow
      /\ Normal(new).evidence = Merged(record, patch).evidence
  BY <1>1, MergedFields, NormalFields
<1>6. Normal(new) # Null /\ Merged(record, patch) # Null
  BY <1>1, NormalFields, MergedFields, NullAssumption
<1> QED
  BY <1>4, <1>5, <1>6 DEF Step, StatusChange, FactsKept

-----------------------------------------------------------------------------
(* The initial state, and a call that does not move.                       *)

LEMMA InitHolds == Init => IInv
<1> SUFFICES ASSUME Init PROVE IInv
  OBVIOUS
<1>1. TypeOK
  <2>1. records \in Book
    BY DEF Init, Book
  <2>2. opened \in 0 .. MaxCalls
    BY ConstantsAssumption DEF Init
  <2>3. \A c \in Calls : pc[c] = "idle"
    BY DEF Init
  <2> QED
    BY <2>1, <2>2, <2>3 DEF Init, TypeOK
<1>2. RecordsCohere
  BY DEF Init, RecordsCohere
<1>3. \A c \in Calls : CallInv(c)
  BY DEF Init, CallInv
<1> QED
  BY <1>1, <1>2, <1>3 DEF IInv

Untouched(d) ==
  /\ pc'[d] = pc[d]
  /\ task'[d] = task[d]
  /\ draft'[d] = draft[d]

LEMMA CallFrame ==
  ASSUME NEW d \in Calls, CallInv(d), Untouched(d), kind' = kind,
         \/ records' = records /\ overtaken'[d] = overtaken[d]
         \/ overtaken'[d]
  PROVE  CallInv(d)'
BY DEF CallInv, Untouched, Step, StatusChange, FactsKept, Finished, Reopeners

LEMMA Frame ==
  ASSUME IInv, NEW c \in Calls, TypeOK', RecordsCohere', CallInv(c)', kind' = kind,
         \A d \in Calls \ {c} :
            /\ Untouched(d)
            /\ \/ records' = records /\ overtaken'[d] = overtaken[d]
               \/ overtaken'[d]
  PROVE  IInv'
<1>1. \A d \in Calls \ {c} : CallInv(d)'
  BY CallFrame DEF IInv
<1> QED
  BY <1>1 DEF IInv

(* A call that ends, or begins, has only to keep its own part.             *)
LEMMA EndHolds ==
  ASSUME IInv, NEW c \in Calls, End(c), UNCHANGED <<kind, records, late, opened>>
  PROVE  IInv'
<1>1. TypeOK'
  BY DEF IInv, TypeOK, End
<1>2. CallInv(c)'
  BY DEF IInv, TypeOK, End, CallInv
<1>3. RecordsCohere'
  BY DEF IInv, RecordsCohere
<1> QED
  BY <1>1, <1>2, <1>3, Frame DEF End, Untouched, IInv, TypeOK

LEMMA DecideHolds ==
  ASSUME IInv, NEW c \in Calls, NEW r \in Ids, records[r] # Null,
         NEW label \in {"send", "update"}, NEW tool \in Tools, NEW retry \in BOOLEAN,
         NEW STATE patch, patch \in Patch, Sound(patch),
         Step(tool, records[r], Merged(records[r], patch)),
         Begin(c, label, Task(tool, r, patch, retry)), UNCHANGED draft
  PROVE  IInv'
<1>1. TypeOK'
  BY ConstantsAssumption DEF IInv, TypeOK, Begin, Task, Tasks
<1>2. RecordsCohere'
  BY DEF IInv, RecordsCohere, Begin
<1>3. /\ pc'[c] = label /\ ~overtaken'[c] /\ records' = records /\ kind' = kind
      /\ task'[c] = Task(tool, r, patch, retry)
  BY DEF IInv, TypeOK, Begin
<1>4. CallInv(c)'
  BY <1>3 DEF CallInv, Task, Step, StatusChange, FactsKept, Finished, Reopeners
<1> QED
  BY <1>1, <1>2, <1>4, Frame DEF Begin, Untouched, IInv, TypeOK

LEMMA DraftHolds ==
  ASSUME IInv, NEW c \in Calls, NEW STATE t, t \in Tasks, NEW STATE box, box \in Book,
         \A r \in Ids : box[r] # Null => Coherent(box[r]),
         \A r \in Ids : Step(t.tool, records[r], box[r]),
         Begin(c, "write", t), draft' = [draft EXCEPT ![c] = box]
  PROVE  IInv'
<1>1. TypeOK'
  BY ConstantsAssumption DEF IInv, TypeOK, Begin
<1>2. RecordsCohere'
  BY DEF IInv, RecordsCohere, Begin
<1>3. /\ pc'[c] = "write" /\ ~overtaken'[c] /\ records' = records /\ kind' = kind
      /\ task'[c] = t /\ draft'[c] = box
  BY DEF IInv, TypeOK, Begin
<1>4. CallInv(c)'
  BY <1>3 DEF CallInv, Step, StatusChange, FactsKept, Finished, Reopeners
<1> QED
  BY <1>1, <1>2, <1>4, Frame DEF Begin, Untouched, IInv, TypeOK

-----------------------------------------------------------------------------
(* Every call begins with a step its tool is allowed.                      *)

LEMMA OrderPayHolds ==
  ASSUME IInv, NEW c \in Calls, NEW r \in Ids, NEW hash \in BOOLEAN, OrderPay(c, r, hash)
  PROVE  IInv'
<1> DEFINE patch == [status |-> IF hash THEN "paid" ELSE "payment_prepared", hash |-> hash]
<1>1. records[r] # Null /\ records[r] \in Record
  BY DEF OrderPay, Decide, IInv, TypeOK, Book
<1>2. patch \in Patch
  BY <1>1 DEF Patch, Statuses, OrderStatuses, BookingStatuses, InvoiceStatuses, Evidence, Record
<1>3. Sound(patch)
  BY DEF Sound, Delivered
<1>4. Step("order_pay", records[r], Merged(records[r], patch))
  <2>1. Merged(records[r], patch) # Null
    BY <1>1, <1>2, MergedFields, NullAssumption
  <2> QED
    BY <1>1, <1>2, <2>1, MergedFields
    DEF OrderPay, Step, StatusChange, FactsKept, Finished, Reopeners, Delivered, Status
<1>5. Begin(c, "update", Task("order_pay", r, patch, FALSE)) /\ UNCHANGED draft
  BY DEF OrderPay, Decide
<1> HIDE DEF patch
<1> QED
  BY <1>1, <1>2, <1>3, <1>4, <1>5, DecideHolds DEF Tools

LEMMA OrderMarkPaidHolds ==
  ASSUME IInv, NEW c \in Calls, NEW r \in Ids, OrderMarkPaid(c, r)
  PROVE  IInv'
<1> DEFINE patch == [status |-> "paid", hash |-> TRUE]
<1>1. records[r] # Null /\ records[r] \in Record
  BY DEF OrderMarkPaid, Decide, IInv, TypeOK, Book
<1>2. patch \in Patch
  BY <1>1 DEF Patch, Statuses, OrderStatuses, BookingStatuses, InvoiceStatuses, Evidence, Record
<1>3. Sound(patch)
  BY DEF Sound, Delivered
<1>4. Step("order_mark_paid", records[r], Merged(records[r], patch))
  <2>1. Merged(records[r], patch) # Null
    BY <1>1, <1>2, MergedFields, NullAssumption
  <2> QED
    BY <1>1, <1>2, <2>1, MergedFields
    DEF OrderMarkPaid, Step, StatusChange, FactsKept, Finished, Reopeners, Delivered, Status
<1>5. Begin(c, "update", Task("order_mark_paid", r, patch, FALSE)) /\ UNCHANGED draft
  BY DEF OrderMarkPaid, Decide
<1> HIDE DEF patch
<1> QED
  BY <1>1, <1>2, <1>3, <1>4, <1>5, DecideHolds DEF Tools

LEMMA OrderCancelHolds ==
  ASSUME IInv, NEW c \in Calls, NEW r \in Ids, OrderCancel(c, r)
  PROVE  IInv'
<1> DEFINE patch == [status |-> "cancelled"]
<1>1. records[r] # Null /\ records[r] \in Record
  BY DEF OrderCancel, Decide, IInv, TypeOK, Book
<1>2. patch \in Patch
  BY <1>1 DEF Patch, Statuses, OrderStatuses, BookingStatuses, InvoiceStatuses, Evidence, Record
<1>3. Sound(patch)
  BY DEF Sound, Delivered
<1>4. Step("order_cancel", records[r], Merged(records[r], patch))
  <2>1. Merged(records[r], patch) # Null
    BY <1>1, <1>2, MergedFields, NullAssumption
  <2> QED
    BY <1>1, <1>2, <2>1, MergedFields
    DEF OrderCancel, Step, StatusChange, FactsKept, Finished, Reopeners, Delivered, Status
<1>5. Begin(c, "update", Task("order_cancel", r, patch, FALSE)) /\ UNCHANGED draft
  BY DEF OrderCancel, Decide
<1> HIDE DEF patch
<1> QED
  BY <1>1, <1>2, <1>3, <1>4, <1>5, DecideHolds DEF Tools

LEMMA OrderFulfillHolds ==
  ASSUME IInv, NEW c \in Calls, NEW r \in Ids, NEW how \in Delivered, OrderFulfill(c, r, how)
  PROVE  IInv'
<1> DEFINE patch == [status |-> how, evidence |-> "delivered"]
<1>1. records[r] # Null /\ records[r] \in Record
  BY DEF OrderFulfill, Decide, IInv, TypeOK, Book
<1>2. patch \in Patch
  BY <1>1 DEF Patch, Statuses, OrderStatuses, BookingStatuses, InvoiceStatuses, Evidence, Record, Delivered
<1>3. Sound(patch)
  BY DEF Sound, Delivered
<1>4. Step("order_fulfill", records[r], Merged(records[r], patch))
  <2>1. Merged(records[r], patch) # Null
    BY <1>1, <1>2, MergedFields, NullAssumption
  <2> QED
    BY <1>1, <1>2, <2>1, MergedFields
    DEF OrderFulfill, Step, StatusChange, FactsKept, Finished, Reopeners, Delivered, Status
<1>5. Begin(c, "update", Task("order_fulfill", r, patch, FALSE)) /\ UNCHANGED draft
  BY DEF OrderFulfill, Decide
<1> HIDE DEF patch
<1> QED
  BY <1>1, <1>2, <1>3, <1>4, <1>5, DecideHolds DEF Tools

LEMMA OrderFulfillWebhookHolds ==
  ASSUME IInv, NEW c \in Calls, NEW r \in Ids, NEW allowUnpaid \in BOOLEAN, NEW allowRetry \in BOOLEAN, OrderFulfillWebhook(c, r, allowUnpaid, allowRetry)
  PROVE  IInv'
<1> DEFINE patch == [status |-> "fulfillment_requested", evidence |-> "requested"]
<1>1. records[r] # Null /\ records[r] \in Record
  BY DEF OrderFulfillWebhook, Send, IInv, TypeOK, Book
<1>2. patch \in Patch
  BY <1>1 DEF Patch, Statuses, OrderStatuses, BookingStatuses, InvoiceStatuses, Evidence, Record
<1>3. Sound(patch)
  BY DEF Sound, Delivered
<1>4. Step("order_fulfill_webhook", records[r], Merged(records[r], patch))
  <2>1. Merged(records[r], patch) # Null
    BY <1>1, <1>2, MergedFields, NullAssumption
  <2> QED
    BY <1>1, <1>2, <2>1, MergedFields
    DEF OrderFulfillWebhook, Step, StatusChange, FactsKept, Finished, Reopeners, Delivered, Status
<1>5. Begin(c, "send", Task("order_fulfill_webhook", r, patch, allowRetry)) /\ UNCHANGED draft
  BY DEF OrderFulfillWebhook, Send
<1> HIDE DEF patch
<1> QED
  BY <1>1, <1>2, <1>3, <1>4, <1>5, DecideHolds DEF Tools

LEMMA BookingAcceptHolds ==
  ASSUME IInv, NEW c \in Calls, NEW r \in Ids, BookingAccept(c, r)
  PROVE  IInv'
<1> DEFINE patch == [status |-> "accepted_demo"]
<1>1. records[r] # Null /\ records[r] \in Record
  BY DEF BookingAccept, Decide, IInv, TypeOK, Book
<1>2. patch \in Patch
  BY <1>1 DEF Patch, Statuses, OrderStatuses, BookingStatuses, InvoiceStatuses, Evidence, Record
<1>3. Sound(patch)
  BY DEF Sound, Delivered
<1>4. Step("booking_accept_demo", records[r], Merged(records[r], patch))
  <2>1. Merged(records[r], patch) # Null
    BY <1>1, <1>2, MergedFields, NullAssumption
  <2> QED
    BY <1>1, <1>2, <2>1, MergedFields
    DEF BookingAccept, Step, StatusChange, FactsKept, Finished, Reopeners, Delivered, Status
<1>5. Begin(c, "update", Task("booking_accept_demo", r, patch, FALSE)) /\ UNCHANGED draft
  BY DEF BookingAccept, Decide
<1> HIDE DEF patch
<1> QED
  BY <1>1, <1>2, <1>3, <1>4, <1>5, DecideHolds DEF Tools

LEMMA BookingSendWebhookHolds ==
  ASSUME IInv, NEW c \in Calls, NEW r \in Ids, NEW allowRetry \in BOOLEAN, BookingSendWebhook(c, r, allowRetry)
  PROVE  IInv'
<1> DEFINE patch == [status |-> "provider_requested"]
<1>1. records[r] # Null /\ records[r] \in Record
  BY DEF BookingSendWebhook, Send, IInv, TypeOK, Book
<1>2. patch \in Patch
  BY <1>1 DEF Patch, Statuses, OrderStatuses, BookingStatuses, InvoiceStatuses, Evidence, Record
<1>3. Sound(patch)
  BY DEF Sound, Delivered
<1>4. Step("booking_send_webhook", records[r], Merged(records[r], patch))
  <2>1. Merged(records[r], patch) # Null
    BY <1>1, <1>2, MergedFields, NullAssumption
  <2> QED
    BY <1>1, <1>2, <2>1, MergedFields
    DEF BookingSendWebhook, Step, StatusChange, FactsKept, Finished, Reopeners, Delivered, Status
<1>5. Begin(c, "send", Task("booking_send_webhook", r, patch, allowRetry)) /\ UNCHANGED draft
  BY DEF BookingSendWebhook, Send
<1> HIDE DEF patch
<1> QED
  BY <1>1, <1>2, <1>3, <1>4, <1>5, DecideHolds DEF Tools

LEMMA BookingPrepareEscrowHolds ==
  ASSUME IInv, NEW c \in Calls, NEW r \in Ids, BookingPrepareEscrow(c, r)
  PROVE  IInv'
<1> DEFINE patch == [status |-> "escrow_prepared", escrow |-> TRUE]
<1>1. records[r] # Null /\ records[r] \in Record
  BY DEF BookingPrepareEscrow, Decide, IInv, TypeOK, Book
<1>2. patch \in Patch
  BY <1>1 DEF Patch, Statuses, OrderStatuses, BookingStatuses, InvoiceStatuses, Evidence, Record
<1>3. Sound(patch)
  BY DEF Sound, Delivered
<1>4. Step("booking_prepare_escrow", records[r], Merged(records[r], patch))
  <2>1. Merged(records[r], patch) # Null
    BY <1>1, <1>2, MergedFields, NullAssumption
  <2> QED
    BY <1>1, <1>2, <2>1, MergedFields
    DEF BookingPrepareEscrow, Step, StatusChange, FactsKept, Finished, Reopeners, Delivered, Status
<1>5. Begin(c, "update", Task("booking_prepare_escrow", r, patch, FALSE)) /\ UNCHANGED draft
  BY DEF BookingPrepareEscrow, Decide
<1> HIDE DEF patch
<1> QED
  BY <1>1, <1>2, <1>3, <1>4, <1>5, DecideHolds DEF Tools

LEMMA BookingMarkPaidHolds ==
  ASSUME IInv, NEW c \in Calls, NEW r \in Ids, BookingMarkPaid(c, r)
  PROVE  IInv'
<1> DEFINE patch == [status |-> "paid", hash |-> TRUE, escrow |-> records[r].escrow]
<1>1. records[r] # Null /\ records[r] \in Record
  BY DEF BookingMarkPaid, Decide, IInv, TypeOK, Book
<1>2. patch \in Patch
  BY <1>1 DEF Patch, Statuses, OrderStatuses, BookingStatuses, InvoiceStatuses, Evidence, Record
<1>3. Sound(patch)
  BY DEF Sound, Delivered
<1>4. Step("booking_mark_paid", records[r], Merged(records[r], patch))
  <2>1. Merged(records[r], patch) # Null
    BY <1>1, <1>2, MergedFields, NullAssumption
  <2> QED
    BY <1>1, <1>2, <2>1, MergedFields
    DEF BookingMarkPaid, Step, StatusChange, FactsKept, Finished, Reopeners, Delivered, Status
<1>5. Begin(c, "update", Task("booking_mark_paid", r, patch, FALSE)) /\ UNCHANGED draft
  BY DEF BookingMarkPaid, Decide
<1> HIDE DEF patch
<1> QED
  BY <1>1, <1>2, <1>3, <1>4, <1>5, DecideHolds DEF Tools

LEMMA BookingCompleteHolds ==
  ASSUME IInv, NEW c \in Calls, NEW r \in Ids, BookingComplete(c, r)
  PROVE  IInv'
<1> DEFINE patch == [status |-> "completed_demo", evidence |-> "delivered"]
<1>1. records[r] # Null /\ records[r] \in Record
  BY DEF BookingComplete, Decide, IInv, TypeOK, Book
<1>2. patch \in Patch
  BY <1>1 DEF Patch, Statuses, OrderStatuses, BookingStatuses, InvoiceStatuses, Evidence, Record
<1>3. Sound(patch)
  BY DEF Sound, Delivered
<1>4. Step("booking_complete_dry_run", records[r], Merged(records[r], patch))
  <2>1. Merged(records[r], patch) # Null
    BY <1>1, <1>2, MergedFields, NullAssumption
  <2> QED
    BY <1>1, <1>2, <2>1, MergedFields
    DEF BookingComplete, Step, StatusChange, FactsKept, Finished, Reopeners, Delivered, Status
<1>5. Begin(c, "update", Task("booking_complete_dry_run", r, patch, FALSE)) /\ UNCHANGED draft
  BY DEF BookingComplete, Decide
<1> HIDE DEF patch
<1> QED
  BY <1>1, <1>2, <1>3, <1>4, <1>5, DecideHolds DEF Tools

LEMMA BookingDisputeHolds ==
  ASSUME IInv, NEW c \in Calls, NEW r \in Ids, BookingDispute(c, r)
  PROVE  IInv'
<1> DEFINE patch == [status |-> "disputed_demo"]
<1>1. records[r] # Null /\ records[r] \in Record
  BY DEF BookingDispute, Decide, IInv, TypeOK, Book
<1>2. patch \in Patch
  BY <1>1 DEF Patch, Statuses, OrderStatuses, BookingStatuses, InvoiceStatuses, Evidence, Record
<1>3. Sound(patch)
  BY DEF Sound, Delivered
<1>4. Step("booking_dispute_demo", records[r], Merged(records[r], patch))
  <2>1. Merged(records[r], patch) # Null
    BY <1>1, <1>2, MergedFields, NullAssumption
  <2> QED
    BY <1>1, <1>2, <2>1, MergedFields
    DEF BookingDispute, Step, StatusChange, FactsKept, Finished, Reopeners, Delivered, Status
<1>5. Begin(c, "update", Task("booking_dispute_demo", r, patch, FALSE)) /\ UNCHANGED draft
  BY DEF BookingDispute, Decide
<1> HIDE DEF patch
<1> QED
  BY <1>1, <1>2, <1>3, <1>4, <1>5, DecideHolds DEF Tools

LEMMA BookingCancelHolds ==
  ASSUME IInv, NEW c \in Calls, NEW r \in Ids, BookingCancel(c, r)
  PROVE  IInv'
<1> DEFINE patch == [status |-> "cancelled"]
<1>1. records[r] # Null /\ records[r] \in Record
  BY DEF BookingCancel, Decide, IInv, TypeOK, Book
<1>2. patch \in Patch
  BY <1>1 DEF Patch, Statuses, OrderStatuses, BookingStatuses, InvoiceStatuses, Evidence, Record
<1>3. Sound(patch)
  BY DEF Sound, Delivered
<1>4. Step("booking_cancel", records[r], Merged(records[r], patch))
  <2>1. Merged(records[r], patch) # Null
    BY <1>1, <1>2, MergedFields, NullAssumption
  <2> QED
    BY <1>1, <1>2, <2>1, MergedFields
    DEF BookingCancel, Step, StatusChange, FactsKept, Finished, Reopeners, Delivered, Status
<1>5. Begin(c, "update", Task("booking_cancel", r, patch, FALSE)) /\ UNCHANGED draft
  BY DEF BookingCancel, Decide
<1> HIDE DEF patch
<1> QED
  BY <1>1, <1>2, <1>3, <1>4, <1>5, DecideHolds DEF Tools

LEMMA InvoiceCancelHolds ==
  ASSUME IInv, NEW c \in Calls, NEW r \in Ids, InvoiceCancel(c, r)
  PROVE  IInv'
<1> DEFINE patch == [status |-> "cancelled"]
<1>1. records[r] # Null /\ records[r] \in Record
  BY DEF InvoiceCancel, Decide, IInv, TypeOK, Book
<1>2. patch \in Patch
  BY <1>1 DEF Patch, Statuses, OrderStatuses, BookingStatuses, InvoiceStatuses, Evidence, Record
<1>3. Sound(patch)
  BY DEF Sound, Delivered
<1>4. Step("invoice_cancel", records[r], Merged(records[r], patch))
  <2>1. Merged(records[r], patch) # Null
    BY <1>1, <1>2, MergedFields, NullAssumption
  <2> QED
    BY <1>1, <1>2, <2>1, MergedFields
    DEF InvoiceCancel, Step, StatusChange, FactsKept, Finished, Reopeners, Delivered, Status
<1>5. Begin(c, "update", Task("invoice_cancel", r, patch, FALSE)) /\ UNCHANGED draft
  BY DEF InvoiceCancel, Decide
<1> HIDE DEF patch
<1> QED
  BY <1>1, <1>2, <1>3, <1>4, <1>5, DecideHolds DEF Tools

LEMMA CreateHolds ==
  ASSUME IInv, NEW c \in Calls, NEW r \in Ids, NEW due \in BOOLEAN, Create(c, r, due)
  PROVE  IInv'
<1> DEFINE new == NewRecord(due)
           box == [records EXCEPT ![r] = new]
           raw == [status |-> CASE kind = "order" -> "created"
                                [] kind = "booking" -> "requested"
                                [] OTHER -> "open",
                   hash |-> FALSE, evidence |-> "none", escrow |-> FALSE, due |-> due]
           t == Task("create", r, <<>>, FALSE)
<1>1. records \in Book /\ records[r] = Null
  BY DEF IInv, TypeOK, Create, Fresh
<1>2. raw \in Record /\ Coherent(raw)
  BY DEF Record, Statuses, OrderStatuses, BookingStatuses, InvoiceStatuses, Evidence,
         Coherent, Delivered
<1>3. new \in Record /\ Coherent(new)
  <2> HIDE DEF raw
  <2>1. Normal(raw) \in Record /\ Coherent(Normal(raw))
    BY <1>2, NormalFields, NormalCoheres
  <2>2. new = Normal(raw)
    BY DEF raw, NewRecord
  <2> QED
    BY <2>1, <2>2
<1> HIDE DEF new, raw
<1>4. box \in Book
  BY <1>1, <1>3 DEF Book
<1>5. \A i \in Ids : box[i] # Null => Coherent(box[i])
  BY <1>1, <1>3 DEF Book, IInv, RecordsCohere
<1>6. \A i \in Ids : Step("create", records[i], box[i])
  <2>1. ASSUME NEW i \in Ids, i # r
        PROVE  Step("create", records[i], box[i])
    <3>1. box[i] = records[i] /\ records[i] \in Record \cup {Null}
      BY <1>1, <2>1 DEF Book
    <3> QED
      BY <3>1, StepReflexive
  <2>2. Step("create", records[r], box[r])
    BY <1>1 DEF Step, StatusChange, FactsKept
  <2> QED
    BY <2>1, <2>2
<1>7. t \in Tasks /\ t.tool = "create"
  BY DEF Task, Tasks, Tools, Patch
<1>8. Begin(c, "write", t) /\ draft' = [draft EXCEPT ![c] = box]
  BY DEF Create, new
<1> HIDE DEF box, t
<1> QED
  BY <1>4, <1>5, <1>6, <1>7, <1>8, DraftHolds

(* A whole file in which one record is merged and normalised.              *)
LEMMA MergedBook ==
  ASSUME IInv, NEW r \in Ids, NEW tool, NEW STATE patch, patch \in Patch, Sound(patch),
         records[r] # Null
  PROVE  LET box == [records EXCEPT ![r] = Normal(Merged(Normal(@), patch))]
         IN  /\ box \in Book
             /\ \A i \in Ids : box[i] # Null => Coherent(box[i])
             /\ Step(tool, records[r], Merged(records[r], patch)) =>
                  \A i \in Ids : Step(tool, records[i], box[i])
<1> DEFINE new == Normal(Merged(Normal(records[r]), patch))
           box == [records EXCEPT ![r] = new]
<1>1. records \in Book /\ records[r] \in Record /\ Coherent(records[r])
  BY DEF IInv, TypeOK, Book, RecordsCohere
<1>2. Normal(records[r]) \in Record /\ Coherent(Normal(records[r]))
  BY <1>1, NormalFields, NormalCoheres
<1>3. /\ Merged(Normal(records[r]), patch) \in Record
      /\ Coherent(Merged(Normal(records[r]), patch))
  BY <1>2, MergedFields, MergedCoheres
<1>4. new \in Record /\ Coherent(new)
  BY <1>3, NormalFields, NormalCoheres
<1>5. kind \in {"order", "booking", "invoice"}
  BY ConstantsAssumption DEF IInv, TypeOK
<1>6. Step(tool, records[r], Merged(records[r], patch)) => Step(tool, records[r], new)
  BY <1>1, <1>5, NormalisedStep
<1> HIDE DEF new
<1>7. box \in Book
  BY <1>1, <1>4 DEF Book
<1>8. \A i \in Ids : box[i] # Null => Coherent(box[i])
  BY <1>1, <1>4 DEF Book, IInv, RecordsCohere
<1>9. ASSUME Step(tool, records[r], new), NEW i \in Ids
      PROVE  Step(tool, records[i], box[i])
  <2>1. CASE i = r
    BY <1>1, <1>9, <2>1 DEF Book
  <2>2. CASE i # r
    <3>1. box[i] = records[i] /\ records[i] \in Record \cup {Null}
      BY <1>1, <2>2 DEF Book
    <3> QED
      BY <3>1, StepReflexive
  <2> QED
    BY <2>1, <2>2
<1>10. box = [records EXCEPT ![r] = Normal(Merged(Normal(@), patch))]
  BY <1>1 DEF new, Book
<1> QED
  BY <1>6, <1>7, <1>8, <1>9, <1>10

LEMMA InvoiceMarkPaidHolds ==
  ASSUME IInv, NEW c \in Calls, NEW r \in Ids, InvoiceMarkPaid(c, r)
  PROVE  IInv'
<1> DEFINE patch == [status |-> "paid", hash |-> TRUE]
           box == [records EXCEPT ![r] = Normal(Merged(Normal(@), patch))]
           t == Task("invoice_mark_paid", r, patch, FALSE)
<1>1. records[r] # Null /\ records[r] \in Record
  BY DEF InvoiceMarkPaid, IInv, TypeOK, Book
<1>2. patch \in Patch /\ Sound(patch)
  BY DEF Patch, Statuses, OrderStatuses, Sound, Delivered
<1>3. Step("invoice_mark_paid", records[r], Merged(records[r], patch))
  <2>1. Merged(records[r], patch) # Null
    BY <1>1, <1>2, MergedFields, NullAssumption
  <2> QED
    BY <1>1, <1>2, <2>1, MergedFields
    DEF InvoiceMarkPaid, Step, StatusChange, FactsKept, Finished, Reopeners
<1>4. t \in Tasks /\ t.tool = "invoice_mark_paid"
  BY <1>2 DEF Task, Tasks, Tools
<1>5. Begin(c, "write", t) /\ draft' = [draft EXCEPT ![c] = box]
  BY DEF InvoiceMarkPaid
<1> HIDE DEF patch
<1>6. /\ box \in Book
      /\ \A i \in Ids : box[i] # Null => Coherent(box[i])
      /\ \A i \in Ids : Step("invoice_mark_paid", records[i], box[i])
  BY <1>1, <1>2, <1>3, MergedBook
<1> HIDE DEF box, t
<1> QED
  BY <1>4, <1>5, <1>6, DraftHolds

LEMMA InvoiceListHolds ==
  ASSUME IInv, NEW c \in Calls, InvoiceList(c)
  PROVE  IInv'
<1> DEFINE box == [r \in Ids |-> Normal(records[r])]
           t == Task("invoice_list", Null, <<>>, FALSE)
<1>1. \A r \in Ids : records[r] \in Record \cup {Null}
  BY DEF IInv, TypeOK, Book
<1>2. box \in Book
  BY <1>1, NormalFields, NormalNull DEF Book
<1>3. \A r \in Ids : box[r] # Null => Coherent(box[r])
  BY <1>1, NormalCoheres, NormalNull DEF IInv, RecordsCohere
<1>4. ASSUME NEW r \in Ids
      PROVE  Step("invoice_list", records[r], box[r])
  <2>1. CASE records[r] = Null
    BY <2>1 DEF Step, StatusChange, FactsKept
  <2>2. CASE records[r] \in Record
    <3>1. Normal(records[r]) # Null
      BY <2>2, NormalFields, NullAssumption
    <3>2. kind = "invoice"
      BY DEF InvoiceList
    <3>3. records[r].status \in Finished => Normal(records[r]) = records[r]
      BY <2>2, <3>2, NormalFields DEF Finished
    <3> QED
      BY <2>2, <3>1, <3>3, NormalFields DEF Step, StatusChange, FactsKept
  <2> QED
    BY <1>1, <2>1, <2>2
<1>5. t \in Tasks /\ t.tool = "invoice_list"
  BY DEF Task, Tasks, Tools, Patch
<1>6. Begin(c, "write", t) /\ draft' = [draft EXCEPT ![c] = box]
  BY DEF InvoiceList
<1> HIDE DEF box, t
<1> QED
  BY <1>2, <1>3, <1>4, <1>5, <1>6, DraftHolds

-----------------------------------------------------------------------------
(* The steps of calls under way.                                           *)

LEMMA VendorAcceptsHolds ==
  ASSUME IInv, NEW c \in Calls, VendorAccepts(c)
  PROVE  IInv'
<1>1. TypeOK'
  BY DEF IInv, TypeOK, VendorAccepts
<1>2. RecordsCohere'
  BY DEF IInv, RecordsCohere, VendorAccepts
<1>3. pc'[c] = "update" /\ CallInv(c)
  BY DEF IInv, TypeOK, VendorAccepts
<1>4. CallInv(c)'
  BY <1>3 DEF VendorAccepts, CallInv, Step, StatusChange, FactsKept, Finished, Reopeners
<1> QED
  BY <1>1, <1>2, <1>4, Frame DEF VendorAccepts, Untouched, IInv, TypeOK

LEMMA VendorFailsHolds ==
  ASSUME IInv, NEW c \in Calls, VendorFails(c)
  PROVE  IInv'
<1> DEFINE t == task[c]
           id == task[c].id
<1>1. t \in Tasks /\ id \in Ids /\ CallInv(c) /\ pc[c] = "send"
  BY DEF IInv, TypeOK, VendorFails
<1>2. [t EXCEPT !.patch = <<>>] \in Tasks
  BY <1>1 DEF Tasks, Patch
<1>3. TypeOK'
  BY <1>1, <1>2 DEF IInv, TypeOK, VendorFails, Tasks
<1>4. RecordsCohere'
  BY DEF IInv, RecordsCohere, VendorFails
<1>5. /\ pc'[c] = "update" /\ task'[c].id = id /\ task'[c].patch = <<>>
      /\ task'[c].tool = t.tool
      /\ records' = records /\ kind' = kind /\ overtaken' = overtaken
  BY <1>1 DEF IInv, TypeOK, VendorFails, Tasks
<1>6. Sound(<<>>)
  BY DEF Sound
<1>7. ASSUME ~overtaken[c]
      PROVE  records[id] # Null /\ Step(t.tool, records[id], Merged(records[id], <<>>))
  <2>1. records[id] \in Record
    BY <1>1, <1>7 DEF CallInv, IInv, TypeOK, Book
  <2>2. Merged(records[id], <<>>) = records[id]
    BY <2>1 DEF Merged, Record
  <2> QED
    BY <2>1, <2>2, StepReflexive, NullAssumption
<1>8. CallInv(c)'
  BY <1>5, <1>6, <1>7 DEF CallInv, Step, StatusChange, FactsKept, Finished, Reopeners
<1> QED
  BY <1>3, <1>4, <1>8, Frame DEF VendorFails, Untouched, IInv, TypeOK

LEMMA UpdateReadHolds ==
  ASSUME IInv, NEW c \in Calls, UpdateRead(c)
  PROVE  IInv'
<1> DEFINE id == task[c].id
           patch == task[c].patch
           tool == task[c].tool
           box == [records EXCEPT ![id] = Normal(Merged(Normal(@), patch))]
<1>1. CASE records[id] = Null
  <2>1. End(c) /\ UNCHANGED <<kind, records, late, opened>>
    BY <1>1 DEF UpdateRead
  <2> QED
    BY <2>1, EndHolds
<1>2. CASE records[id] # Null
  <2>1. /\ id \in Ids /\ patch \in Patch /\ Sound(patch) /\ CallInv(c)
        /\ pc[c] = "update" /\ task[c] \in Tasks
    BY DEF IInv, TypeOK, Tasks, UpdateRead, CallInv
  <2>2. /\ draft' = [draft EXCEPT ![c] = box]
        /\ pc' = [pc EXCEPT ![c] = "write"]
        /\ UNCHANGED <<task, overtaken, kind, records, late, opened>>
    BY <1>2 DEF UpdateRead
  <2> HIDE DEF patch
  <2>3. /\ box \in Book
        /\ \A i \in Ids : box[i] # Null => Coherent(box[i])
        /\ Step(tool, records[id], Merged(records[id], patch)) =>
             \A i \in Ids : Step(tool, records[i], box[i])
    BY <1>2, <2>1, MergedBook
  <2>4. ~overtaken[c] => Step(tool, records[id], Merged(records[id], patch))
    BY <2>1 DEF CallInv, patch
  <2> HIDE DEF box
  <2>5. TypeOK'
    BY <2>1, <2>2, <2>3 DEF IInv, TypeOK
  <2>6. RecordsCohere'
    BY <2>2 DEF IInv, RecordsCohere
  <2>7. draft'[c] = box /\ pc'[c] = "write"
    BY <2>2 DEF IInv, TypeOK
  <2>8. CallInv(c)'
    BY <2>2, <2>3, <2>4, <2>7 DEF CallInv, Step, StatusChange, FactsKept, Finished, Reopeners
  <2> QED
    BY <2>2, <2>5, <2>6, <2>8, Frame DEF Untouched, IInv, TypeOK
<1> QED
  BY <1>1, <1>2

LEMMA WriteHolds ==
  ASSUME IInv, NEW c \in Calls, Write(c)
  PROVE  IInv'
<1>1. draft[c] \in Book /\ CallInv(c) /\ pc[c] = "write"
  BY DEF IInv, TypeOK, Write
<1>2. TypeOK'
  BY <1>1 DEF IInv, TypeOK, Write
<1>3. RecordsCohere'
  BY <1>1 DEF RecordsCohere, Write, CallInv
<1>4. CallInv(c)'
  BY DEF IInv, TypeOK, Write, CallInv
<1>5. \A d \in Calls \ {c} : overtaken'[d] /\ Untouched(d)
  BY DEF Write, Untouched, IInv, TypeOK
<1> QED
  BY <1>2, <1>3, <1>4, <1>5, Frame DEF Write

LEMMA ExpiryPassesHolds ==
  ASSUME IInv, ExpiryPasses
  PROVE  IInv'
<1>1. TypeOK'
  BY DEF IInv, TypeOK, ExpiryPasses, calls
<1>2. RecordsCohere'
  BY DEF IInv, RecordsCohere, ExpiryPasses
<1>3. \A d \in Calls : CallInv(d)'
  BY CallFrame DEF ExpiryPasses, calls, Untouched, IInv
<1> QED
  BY <1>1, <1>2, <1>3 DEF IInv

LEMMA CallStepHolds ==
  ASSUME IInv, NEW c \in Calls, CallStep(c)
  PROVE  IInv'
<1>1. ASSUME NEW r \in Ids, OrderCall(c, r)
      PROVE  IInv'
  <2>1. CASE OrderFulfillDryRun(c, r)
    BY <2>1, OrderFulfillHolds DEF OrderFulfillDryRun, Delivered
  <2>2. CASE OrderFulfillManual(c, r)
    BY <2>2, OrderFulfillHolds DEF OrderFulfillManual, Delivered
  <2> QED
    BY <1>1, <2>1, <2>2, CreateHolds, OrderPayHolds, OrderMarkPaidHolds, OrderCancelHolds,
       OrderFulfillWebhookHolds DEF OrderCall, OrderCreate
<1>2. ASSUME NEW r \in Ids, BookingCall(c, r)
      PROVE  IInv'
  BY <1>2, CreateHolds, BookingAcceptHolds, BookingSendWebhookHolds,
     BookingPrepareEscrowHolds, BookingMarkPaidHolds, BookingCompleteHolds,
     BookingDisputeHolds, BookingCancelHolds
  DEF BookingCall, BookingRequestCreate
<1>3. ASSUME NEW r \in Ids, InvoiceCall(c, r)
      PROVE  IInv'
  BY <1>3, CreateHolds, InvoiceMarkPaidHolds, InvoiceCancelHolds
  DEF InvoiceCall, InvoiceCreate
<1>4. CASE Interrupted(c)
  BY <1>4, EndHolds DEF Interrupted
<1> QED
  BY <1>1, <1>2, <1>3, <1>4, InvoiceListHolds, VendorAcceptsHolds,
     VendorFailsHolds, UpdateReadHolds, WriteHolds DEF CallStep

LEMMA NextHolds == IInv /\ [Next]_vars => IInv'
<1> SUFFICES ASSUME IInv, [Next]_vars
             PROVE  IInv'
  OBVIOUS
<1>1. CASE ExpiryPasses
  BY <1>1, ExpiryPassesHolds
<1>2. ASSUME NEW c \in Calls, CallStep(c)
      PROVE  IInv'
  BY <1>2, CallStepHolds
<1>3. CASE UNCHANGED vars
  <2>1. TypeOK'
    BY <1>3 DEF IInv, TypeOK, vars, calls
  <2>2. RecordsCohere'
    BY <1>3 DEF IInv, RecordsCohere, vars
  <2>3. \A d \in Calls : CallInv(d)'
    BY <1>3, CallFrame DEF vars, calls, Untouched, IInv
  <2> QED
    BY <2>1, <2>2, <2>3 DEF IInv
<1> QED
  BY <1>1, <1>2, <1>3 DEF Next

-----------------------------------------------------------------------------
(* The theorems.                                                           *)

(* The invariant of the whole argument, for any number of calls, records   *)
(* and steps.                                                              *)
THEOREM Invariance == Spec => []IInv
BY InitHolds, NextHolds, PTL DEF Spec

(* Every variable keeps its type.                                          *)
THEOREM TypeCorrectness == Spec => []TypeOK
<1>1. IInv => TypeOK
  BY DEF IInv
<1> QED
  BY <1>1, Invariance, PTL

(* No overlap of calls leaves a record whose status lacks what it claims.  *)
THEOREM Coherence == Spec => []RecordsCohere
<1>1. IInv => RecordsCohere
  BY DEF IInv
<1> QED
  BY <1>1, Invariance, PTL

LEMMA WritesStep ==
  ASSUME IInv, [Next]_vars, NEW c \in Calls,
         pc[c] = "write", ~overtaken[c], pc'[c] = "idle", NEW r \in Ids
  PROVE  Step(task[c].tool, records[r], records'[r])
<1>1. CallInv(c) /\ records[r] \in Record \cup {Null}
  BY DEF IInv, TypeOK, Book
<1>2. records' = draft[c] \/ records' = records
  <2>1. ASSUME NEW d \in Calls, Write(d)
        PROVE  records' = draft[c]
    <3>1. d = c
      BY <2>1 DEF Write, IInv, TypeOK
    <3> QED
      BY <2>1, <3>1 DEF Write
  <2>2. ASSUME NEW d \in Calls, CallStep(d), ~Write(d)
        PROVE  records' = records
    BY <2>2 DEF CallStep, OrderCall, BookingCall, InvoiceCall, OrderCreate,
       BookingRequestCreate, InvoiceCreate, Create, Begin, Decide, Send,
       OrderPay, OrderMarkPaid, OrderCancel, OrderFulfillDryRun, OrderFulfillManual,
       OrderFulfill, OrderFulfillWebhook, BookingAccept, BookingSendWebhook,
       BookingPrepareEscrow, BookingMarkPaid, BookingComplete, BookingDispute,
       BookingCancel, InvoiceMarkPaid, InvoiceCancel, InvoiceList, VendorAccepts,
       VendorFails, UpdateRead, Interrupted
  <2>3. ExpiryPasses \/ UNCHANGED vars => records' = records
    BY DEF ExpiryPasses, vars
  <2> QED
    BY <2>1, <2>2, <2>3 DEF Next
<1> QED
  BY <1>1, <1>2, StepReflexive DEF CallInv

(* What is finished stays finished, unless the writing call was overtaken  *)
(* or is one of the tools that may reopen it.                              *)
THEOREM Finality == Spec => FinishedStaysFinished
<1>1. IInv /\ [Next]_vars =>
        [\A c \in Calls : pc[c] = "write" /\ ~overtaken[c] /\ pc'[c] = "idle" =>
           \A r \in Ids : StatusChange(task[c].tool, records[r], records'[r])]_vars
  BY WritesStep DEF Step
<1> QED
  BY <1>1, Invariance, PTL DEF Spec, FinishedStaysFinished

(* Nothing recorded disappears, unless the writing call was overtaken.     *)
THEOREM Retention == Spec => FactsAreKept
<1>1. IInv /\ [Next]_vars =>
        [\A c \in Calls : pc[c] = "write" /\ ~overtaken[c] /\ pc'[c] = "idle" =>
           \A r \in Ids : FactsKept(task[c].tool, records[r], records'[r])]_vars
  BY WritesStep DEF Step
<1> QED
  BY <1>1, Invariance, PTL DEF Spec, FactsAreKept

=============================================================================
