----------------------------- MODULE LowValueSpend -----------------------------
(***************************************************************************)
(* One local wallet with low-value signing: its policy and daily books in  *)
(* wallets.json, its signed payloads in outbox.json, and any number of     *)
(* tool calls over both, of one server or of several.                      *)
(*                                                                         *)
(* Nothing locks either file.  A store operation is therefore two actions: *)
(* the read, which computes what will be written, and the rename of the    *)
(* temporary file, which replaces whatever is there by then.               *)
(*                                                                         *)
(* A payload and its outbox entry have one name.  An entry is reduced to   *)
(* its status and whether it has a tx hash: the amount and the flag        *)
(* lowValueReserved never change and are kept with the payload.            *)
(***************************************************************************)
EXTENDS Naturals, FiniteSets, FiniteSetsExt

CONSTANTS
  Calls,           \* tool calls that may be under way at the same time
  Payloads,        \* the payloads that may be signed (bounds the builds)
  Amounts,         \* what a transfer may be worth
  MaxAmount,       \* the policy's cap per transaction ...
  DailyLimit,      \* ... and per day
  LastDay,         \* bounds the calendar
  MaxBooked,       \* bounds each bucket of the books
  MaxFaults,       \* bounds the crashes and I/O failures
  Ops,             \* the operations callers use
  ByHash,          \* whether callers pass tx_status_summary the tx hash
  ReleaseTargets,  \* the targets callers give to tx_outbox_release
  Null             \* no policy, no entry, no call, nothing to write

VARIABLES
  store,      \* wallets.json: the wallet's policy and its paused flag
  outbox,     \* outbox.json: payload -> entry
  today,      \* the calendar day
  payload,    \* history: what was signed, and on which day
  chain,      \* what the node knows of a payload
  pc,         \* where each call is
  task,       \* what it works on, with the entry it read first
  nextStore,  \* the wallets.json it is about to write
  nextOutbox, \* the outbox.json it is about to write
  faults      \* crashes and failures so far

files == <<store, outbox>>
drafts == <<nextStore, nextOutbox>>
world == <<today, payload, chain, faults>>
vars == <<files, world, pc, task, drafts>>

ASSUME ConstantsAssumption ==
  /\ Amounts \subseteq Nat
  /\ MaxAmount \in Nat
  /\ DailyLimit \in Nat
  /\ LastDay \in Nat
  /\ ByHash \in BOOLEAN
  /\ ReleaseTargets \subseteq {"expired", "failed"}
  /\ Null \notin [amount : Nat, lowValue : BOOLEAN, day : Nat]
  /\ MaxBooked \in Nat
  /\ MaxFaults \in Nat

-----------------------------------------------------------------------------
(* The policy's books.                                                     *)

Buckets == {"reserved", "submitted", "confirmed", "failed", "expired"}

Policy == [{"day"} \cup Buckets -> Nat]

(* createLowValuePolicy: enabling it again starts from empty books.        *)
NewPolicy == [f \in {"day"} \cup Buckets |-> IF f = "day" THEN today ELSE 0]

(* resetLowValueDayIfNeeded: the books of another day are dropped.         *)
Current(p) == IF p.day = today THEN p ELSE NewPolicy

(* Mutant of Locked: what was submitted no longer counts.                  *)
LockedReservedOnly(p) == Current(p).reserved + Current(p).confirmed

(* lowValueLockedUnits *)
Locked(p) ==
  LET books == Current(p)
  IN  books.reserved + books.submitted + books.confirmed

(* assertLowValueAllowed; preflightTransfer comes to the same verdict.     *)
Allowed(p, amount) ==
  /\ amount <= MaxAmount
  /\ Locked(p) + amount <= DailyLimit

(* recordLowValueSpend *)
Reserved(p, amount) == [Current(p) EXCEPT !.reserved = @ + amount]

Less(a, b) == IF a > b THEN a - b ELSE 0

(* moveLowValueAccounting *)
Moved(p, amount, from, to) ==
  [[Current(p) EXCEPT ![from] = Less(@, amount)] EXCEPT ![to] = @ + amount]

-----------------------------------------------------------------------------
(* Entries and calls.                                                      *)

Statuses == {"signed", "submitted", "confirmed", "failed", "expired"}

Status(p) == IF outbox[p] = Null THEN "none" ELSE outbox[p].status

NewEntry == [status |-> "signed", hashed |-> FALSE]

(* Mutant of From: a retried amount is always taken from the reservations. *)
FromReserved(t) == IF t.op = "status" THEN "submitted" ELSE "reserved"

(* The bucket the entry's amount is in, going by the entry read first.     *)
From(t) ==
  IF t.op = "status" THEN "submitted"
  ELSE IF t.op # "release" /\ t.was = "expired" THEN "expired"
  ELSE "reserved"

(* The condition each handler puts on its call of moveLowValueAccounting.  *)
Moves(t) ==
  /\ t.lowValue
  /\ t.was \in IF t.op = "status" THEN {"submitted"} ELSE {"signed", "expired"}

Goto(c, label) == pc' = [pc EXCEPT ![c] = label]

(* The call returns or throws.                                             *)
End(c) ==
  /\ Goto(c, "idle")
  /\ task' = [task EXCEPT ![c] = Null]

Continue(c, label) == Goto(c, label) /\ UNCHANGED task

Begin(c, label, t) ==
  /\ pc[c] = "idle"
  /\ t.op \in Ops
  /\ Goto(c, label)
  /\ task' = [task EXCEPT ![c] = t]

Task(o, p, was, to, amount, lowValue) ==
  [op |-> o, id |-> p, was |-> was, to |-> to,
   amount |-> amount, lowValue |-> lowValue]

(* A handler that starts from the outbox entry it reads.                   *)
TaskOn(o, p, to) == Task(o, p, outbox[p].status, to, payload[p].amount, payload[p].lowValue)

(* After the broadcast, drained wallets are paused as well.                *)
AfterTransfer(c) == IF task[c].op = "drain" THEN Continue(c, "disableRead") ELSE End(c)

DraftStore(c, s, label) ==
  /\ nextStore' = [nextStore EXCEPT ![c] = s]
  /\ Continue(c, label)
  /\ UNCHANGED <<files, world, nextOutbox>>

DraftOutbox(c, o, label) ==
  /\ nextOutbox' = [nextOutbox EXCEPT ![c] = o]
  /\ Continue(c, label)
  /\ UNCHANGED <<files, world, nextStore>>

WriteStore(c) ==
  /\ store' = nextStore[c]
  /\ nextStore' = [nextStore EXCEPT ![c] = Null]
  /\ UNCHANGED <<outbox, world, nextOutbox>>

WriteOutbox(c) ==
  /\ outbox' = nextOutbox[c]
  /\ nextOutbox' = [nextOutbox EXCEPT ![c] = Null]
  /\ UNCHANGED <<store, world, nextStore>>

-----------------------------------------------------------------------------
(* The initial state: a wallet created with low-value mode on.             *)

Init ==
  /\ today = 1
  /\ store = [policy |-> NewPolicy, paused |-> FALSE]
  /\ outbox = [p \in Payloads |-> Null]
  /\ payload = [p \in Payloads |-> Null]
  /\ chain = [p \in Payloads |-> "unknown"]
  /\ pc = [c \in Calls |-> "idle"]
  /\ task = [c \in Calls |-> Null]
  /\ nextStore = [c \in Calls |-> Null]
  /\ nextOutbox = [c \in Calls |-> Null]
  /\ faults = 0

-----------------------------------------------------------------------------
(* wallet_build_transfer and agent_wallet_drain: sign, reserve, record.    *)

Fresh(p) == payload[p] = Null /\ \A c \in Calls : task[c] # Null => task[c].id # p

(* preflightTransfer.  With low-value mode off it only warns.              *)
StartBuild(c, p, amount, lowValue) ==
  /\ Fresh(p)
  /\ ~store.paused
  /\ lowValue /\ store.policy # Null => Allowed(store.policy, amount)
  /\ Begin(c, "sign", Task("build", p, "signed", "submitted", amount, lowValue))
  /\ UNCHANGED <<files, world, drafts>>

(* A drain signs with the wallet's own key, paused or not.                 *)
StartDrain(c, p, amount) ==
  /\ Fresh(p)
  /\ Begin(c, "sign", Task("drain", p, "signed", "submitted", amount, FALSE))
  /\ UNCHANGED <<files, world, drafts>>

SigningAllowed(t) ==
  t.lowValue => store.policy # Null /\ Allowed(store.policy, t.amount)

(* resolveSigningBackend reads the wallet again.                           *)
Sign(c) ==
  /\ pc[c] = "sign"
  /\ SigningAllowed(task[c])
  /\ payload' = [payload EXCEPT ![task[c].id] =
                   [amount |-> task[c].amount, lowValue |-> task[c].lowValue,
                    day |-> today]]
  /\ Continue(c, IF task[c].lowValue THEN "reserveRead" ELSE "addRead")
  /\ UNCHANGED <<files, today, chain, faults, drafts>>

SignRefused(c) ==
  /\ pc[c] = "sign"
  /\ ~SigningAllowed(task[c])
  /\ End(c)
  /\ UNCHANGED <<files, world, drafts>>

(* The policy may be gone by now; the payload is signed all the same.      *)
ReserveRead(c) ==
  /\ pc[c] = "reserveRead"
  /\ IF store.policy = Null
       THEN Continue(c, "addRead") /\ UNCHANGED <<files, world, drafts>>
       ELSE DraftStore(c, [store EXCEPT !.policy = Reserved(@, task[c].amount)],
                       "reserveWrite")

ReserveWrite(c) ==
  /\ pc[c] = "reserveWrite"
  /\ WriteStore(c)
  /\ Continue(c, "addRead")

AddRead(c) ==
  /\ pc[c] = "addRead"
  /\ DraftOutbox(c, [outbox EXCEPT ![task[c].id] = NewEntry], "addWrite")

(* The payload is broadcast if the caller asked for it.                    *)
AddWrite(c) ==
  /\ pc[c] = "addWrite"
  /\ WriteOutbox(c)
  /\ Continue(c, "submit") \/ AfterTransfer(c)

-----------------------------------------------------------------------------
(* Broadcast, also by tx_outbox_retry and submit_signed_transaction.       *)

(* An expired entry is retried only with allowExpired.                     *)
StartRetry(c, p) ==
  /\ outbox[p] # Null
  /\ Begin(c, "submit", TaskOn("retry", p, "submitted"))
  /\ UNCHANGED <<files, world, drafts>>

(* A node takes a payload once: the nonce of an included one is spent.     *)
Pending(p) == chain[p] \in {"unknown", "pending"}

SubmitAccepted(c) ==
  /\ pc[c] = "submit"
  /\ Pending(task[c].id)
  /\ chain' = [chain EXCEPT ![task[c].id] = "pending"]
  /\ Continue(c, "attemptRead")
  /\ UNCHANGED <<files, today, payload, faults, drafts>>

(* Accepted, but the answer is lost or echoes another hash.                *)
SubmitLost(c) ==
  /\ pc[c] = "submit"
  /\ Pending(task[c].id)
  /\ chain' = [chain EXCEPT ![task[c].id] = "pending"]
  /\ Continue(c, "failRead")
  /\ UNCHANGED <<files, today, payload, faults, drafts>>

(* Mutant of SubmitRejected: the answer is not looked at.                  *)
SubmitRejectedUnnoticed(c) ==
  /\ pc[c] = "submit"
  /\ Continue(c, "attemptRead")
  /\ UNCHANGED <<files, world, drafts>>

SubmitRejected(c) ==
  /\ pc[c] = "submit"
  /\ Continue(c, "failRead")
  /\ UNCHANGED <<files, world, drafts>>

(* recordOutboxAttempt after an accepted broadcast; a missing entry throws *)
(* into the catch clause.                                                  *)
AttemptRead(c) ==
  /\ pc[c] = "attemptRead"
  /\ IF outbox[task[c].id] = Null
       THEN Continue(c, "failRead") /\ UNCHANGED <<files, world, drafts>>
       ELSE DraftOutbox(c, [outbox EXCEPT ![task[c].id] =
                              [status |-> "submitted", hashed |-> TRUE]],
                        "attemptWrite")

AttemptWrite(c) ==
  /\ pc[c] = "attemptWrite"
  /\ WriteOutbox(c)
  /\ IF Moves(task[c]) THEN Continue(c, "moveRead") ELSE AfterTransfer(c)

(* Mutant of FailRead: a failed attempt marks the entry failed.            *)
FailReadMarks(c) ==
  /\ pc[c] = "failRead"
  /\ IF outbox[task[c].id] = Null
       THEN End(c) /\ UNCHANGED <<files, world, drafts>>
       ELSE DraftOutbox(c, [outbox EXCEPT ![task[c].id].status = "failed"], "failWrite")

(* The catch clause records the failed attempt, which changes no status    *)
(* but does rewrite the file; its own failure leaves the handler.          *)
FailRead(c) ==
  /\ pc[c] = "failRead"
  /\ IF outbox[task[c].id] = Null
       THEN End(c) /\ UNCHANGED <<files, world, drafts>>
       ELSE DraftOutbox(c, outbox, "failWrite")

FailWrite(c) ==
  /\ pc[c] = "failWrite"
  /\ WriteOutbox(c)
  /\ AfterTransfer(c)

-----------------------------------------------------------------------------
(* moveLowValueAccounting, which nothing but a missing policy skips.       *)

AfterMove(c) ==
  IF task[c].op = "release" THEN Continue(c, "statusRead") ELSE AfterTransfer(c)

MoveRead(c) ==
  /\ pc[c] = "moveRead"
  /\ store.policy # Null => store.policy[task[c].to] + task[c].amount <= MaxBooked
  /\ IF store.policy = Null
       THEN AfterMove(c) /\ UNCHANGED <<files, world, drafts>>
       ELSE DraftStore(c, [store EXCEPT !.policy =
                             Moved(@, task[c].amount, From(task[c]), task[c].to)],
                       "moveWrite")

MoveWrite(c) ==
  /\ pc[c] = "moveWrite"
  /\ WriteStore(c)
  /\ AfterMove(c)

-----------------------------------------------------------------------------
(* tx_outbox_release, tx_outbox_expire_stale, tx_status_summary, tx_watch. *)

(* releaseLowValueReservation: the books first, the entry afterwards.      *)
StartRelease(c, p, target) ==
  /\ Status(p) = "signed"
  /\ payload[p].lowValue
  /\ Begin(c, "moveRead", TaskOn("release", p, target))
  /\ UNCHANGED <<files, world, drafts>>

(* txStatusSummary on an outbox entry; the tx hash is the entry's, unless  *)
(* the caller gives it.                                                    *)
StartStatus(c, p) ==
  /\ outbox[p] # Null
  /\ outbox[p].hashed \/ ByHash
  /\ Begin(c, "ask", TaskOn("status", p, "submitted"))
  /\ UNCHANGED <<files, world, drafts>>

(* The node is asked for the receipt; without one nothing changes.         *)
Ask(c) ==
  /\ pc[c] = "ask"
  /\ CASE chain[task[c].id] = "included" ->
            /\ task' = [task EXCEPT ![c].to = "confirmed"]
            /\ Goto(c, "statusRead")
       [] chain[task[c].id] = "reverted" ->
            /\ task' = [task EXCEPT ![c].to = "failed"]
            /\ Goto(c, "statusRead")
       [] OTHER -> End(c)
  /\ UNCHANGED <<files, world, drafts>>

(* updateOutboxStatus, with the tx hash of a status query.  A missing      *)
(* entry throws.                                                           *)
StatusRead(c) ==
  /\ pc[c] = "statusRead"
  /\ IF outbox[task[c].id] = Null
       THEN End(c) /\ UNCHANGED <<files, world, drafts>>
       ELSE DraftOutbox(c, [outbox EXCEPT ![task[c].id] =
                              [status |-> task[c].to,
                               hashed |-> @.hashed \/ task[c].op = "status"]],
                        "statusWrite")

StatusWrite(c) ==
  /\ pc[c] = "statusWrite"
  /\ WriteOutbox(c)
  /\ IF task[c].op = "status" /\ Moves(task[c])
       THEN Continue(c, "moveRead") ELSE End(c)

-----------------------------------------------------------------------------
(* tx_outbox_forget and the administration of the wallet.                  *)

(* The first read and the guard are one step of these operations.          *)
StartForget(c, p) ==
  /\ outbox[p] # Null
  /\ Begin(c, "forgetWrite", TaskOn("forget", p, "submitted"))
  /\ nextOutbox' = [nextOutbox EXCEPT ![c] = [outbox EXCEPT ![p] = Null]]
  /\ UNCHANGED <<files, world, nextStore>>

ForgetWrite(c) ==
  /\ pc[c] = "forgetWrite"
  /\ WriteOutbox(c)
  /\ End(c)

AdminTask(o) == Task(o, Null, "signed", "submitted", 0, FALSE)

(* wallet_configure_low_value, enabled: also replaces a policy in force.   *)
StartEnable(c) ==
  /\ Begin(c, "enableWrite", AdminTask("enable"))
  /\ nextStore' = [nextStore EXCEPT ![c] = [store EXCEPT !.policy = NewPolicy]]
  /\ UNCHANGED <<files, world, nextOutbox>>

EnableWrite(c) ==
  /\ pc[c] = "enableWrite"
  /\ WriteStore(c)
  /\ End(c)

(* wallet_configure_low_value, disabled, and agent_wallet_pause.           *)
StartDisable(c, o) ==
  /\ Begin(c, "disableRead", AdminTask(o))
  /\ UNCHANGED <<files, world, drafts>>

DisableRead(c) ==
  /\ pc[c] = "disableRead"
  /\ DraftStore(c, [store EXCEPT !.policy = Null], "disableWrite")

DisableWrite(c) ==
  /\ pc[c] = "disableWrite"
  /\ WriteStore(c)
  /\ IF task[c].op = "disable" THEN End(c) ELSE Continue(c, "pauseRead")

(* updateAgentWalletMetadata *)
PauseRead(c) ==
  /\ pc[c] = "pauseRead"
  /\ DraftStore(c, [store EXCEPT !.paused = TRUE], "pauseWrite")

PauseWrite(c) ==
  /\ pc[c] = "pauseWrite"
  /\ WriteStore(c)
  /\ End(c)

-----------------------------------------------------------------------------
(* Failures, and everything around the calls.                              *)

Fault ==
  /\ faults < MaxFaults
  /\ faults' = faults + 1
  /\ UNCHANGED <<files, today, payload, chain>>

DropDrafts(c) ==
  /\ nextStore' = [nextStore EXCEPT ![c] = Null]
  /\ nextOutbox' = [nextOutbox EXCEPT ![c] = Null]

InTry(c) ==
  /\ task[c].op \in {"build", "drain", "retry"}
  /\ pc[c] \in {"attemptRead", "attemptWrite", "moveRead", "moveWrite"}

(* A store operation throws inside the try of a broadcast.                 *)
Throw(c) ==
  /\ pc[c] # "idle"
  /\ InTry(c)
  /\ Fault
  /\ DropDrafts(c)
  /\ Continue(c, "failRead")

(* A store operation throws anywhere else, or the server dies.             *)
Crash(c) ==
  /\ pc[c] # "idle"
  /\ Fault
  /\ DropDrafts(c)
  /\ End(c)

(* Whoever has read a payload can send it without the outbox.              *)
SubmitElsewhere(p) ==
  /\ outbox[p] # Null
  /\ chain[p] = "unknown"
  /\ chain' = [chain EXCEPT ![p] = "pending"]
  /\ UNCHANGED <<files, today, payload, faults, pc, task, drafts>>

Settle(p) ==
  /\ chain[p] = "pending"
  /\ \E result \in {"included", "reverted"} : chain' = [chain EXCEPT ![p] = result]
  /\ UNCHANGED <<files, today, payload, faults, pc, task, drafts>>

DayPasses ==
  /\ today < LastDay
  /\ today' = today + 1
  /\ UNCHANGED <<files, payload, chain, faults, pc, task, drafts>>

-----------------------------------------------------------------------------
BuildStep(c) ==
  Sign(c) \/ SignRefused(c) \/ ReserveRead(c) \/ ReserveWrite(c)
    \/ AddRead(c) \/ AddWrite(c)

SubmitStep(c) ==
  SubmitAccepted(c) \/ SubmitLost(c) \/ SubmitRejected(c)
    \/ AttemptRead(c) \/ AttemptWrite(c) \/ FailRead(c) \/ FailWrite(c)

BooksStep(c) ==
  MoveRead(c) \/ MoveWrite(c) \/ Ask(c) \/ StatusRead(c) \/ StatusWrite(c)

AdminStep(c) ==
  ForgetWrite(c) \/ EnableWrite(c) \/ DisableRead(c) \/ DisableWrite(c)
    \/ PauseRead(c) \/ PauseWrite(c)

StartOn(c, p) ==
  \/ \E amount \in Amounts : StartDrain(c, p, amount)
  \/ \E amount \in Amounts, lowValue \in BOOLEAN : StartBuild(c, p, amount, lowValue)
  \/ \E target \in ReleaseTargets : StartRelease(c, p, target)
  \/ StartRetry(c, p) \/ StartStatus(c, p) \/ StartForget(c, p)

Start(c) ==
  \/ \E p \in Payloads : StartOn(c, p)
  \/ StartEnable(c) \/ StartDisable(c, "disable") \/ StartDisable(c, "pause")

Next ==
  \/ \E c \in Calls : Start(c)
  \/ \E c \in Calls : BuildStep(c) \/ SubmitStep(c) \/ BooksStep(c) \/ AdminStep(c)
  \/ \E c \in Calls : Throw(c) \/ Crash(c)
  \/ \E p \in Payloads : SubmitElsewhere(p) \/ Settle(p)
  \/ DayPasses

Spec == Init /\ [][Next]_vars

-----------------------------------------------------------------------------
(* Types.                                                                  *)

StoreType == [policy : Policy \cup {Null}, paused : BOOLEAN]

OutboxType == [Payloads -> [status : Statuses, hashed : BOOLEAN] \cup {Null}]

PayloadType == [amount : Nat, lowValue : BOOLEAN, day : Nat]

TaskType ==
  [op : {"build", "drain", "retry", "release", "status", "forget",
         "enable", "disable", "pause"},
   id : Payloads \cup {Null}, was : Statuses, to : Statuses \ {"signed"},
   amount : Nat, lowValue : BOOLEAN]

(* Null is none of the values whose absence it stands for.                 *)
ASSUME NullAssumption ==
  /\ Null \notin Policy
  /\ Null \notin [status : Statuses, hashed : BOOLEAN]
  /\ Null \notin TaskType

Labels ==
  {"idle", "sign", "reserveRead", "reserveWrite", "addRead", "addWrite", "submit",
   "attemptRead", "attemptWrite", "failRead", "failWrite", "moveRead", "moveWrite",
   "ask", "statusRead", "statusWrite", "forgetWrite", "enableWrite",
   "disableRead", "disableWrite", "pauseRead", "pauseWrite"}

(* Every variable has its type; in particular no bucket ever goes negative.*)
TypeOK ==
  /\ store \in StoreType
  /\ outbox \in OutboxType
  /\ today \in Nat
  /\ payload \in [Payloads -> PayloadType \cup {Null}]
  /\ chain \in [Payloads -> {"unknown", "pending", "included", "reverted"}]
  /\ pc \in [Calls -> Labels]
  /\ task \in [Calls -> TaskType \cup {Null}]
  /\ nextStore \in [Calls -> StoreType \cup {Null}]
  /\ nextOutbox \in [Calls -> OutboxType \cup {Null}]
  /\ faults \in Nat

-----------------------------------------------------------------------------
(* Properties of the books.                                                *)

Value(S) == MapThenSumSet(LAMBDA p : payload[p].amount, S)

TodaysReservations ==
  {p \in Payloads : payload[p] # Null /\ payload[p].lowValue /\ payload[p].day = today}

(* Todays low-value payloads with an entry of this status.                 *)
InOutbox(status) == {p \in TodaysReservations : Status(p) = status}

UnderConstruction ==
  {p \in TodaysReservations :
     outbox[p] = Null /\ \E c \in Calls : task[c] # Null /\ task[c].id = p}

(* What can still cost the wallet money today, as far as the outbox tells. *)
Live ==
  InOutbox("signed") \cup InOutbox("submitted") \cup InOutbox("confirmed")
    \cup UnderConstruction

Quiet == \A c \in Calls : pc[c] = "idle"

(* Between calls the buckets hold at least the payloads whose entries say  *)
(* they are in them, and all that is locked covers all that can be spent:  *)
(* a retry, a release, an expiry and a settlement move an amount out of    *)
(* the bucket it is in, at most once.                                      *)
BucketsCover ==
  Quiet /\ store.policy # Null =>
    LET books == Current(store.policy)
    IN  /\ books.reserved >= Value(InOutbox("signed"))
        /\ books.submitted >= Value(InOutbox("submitted"))
        /\ books.confirmed >= Value(InOutbox("confirmed"))
        /\ Locked(store.policy) >= Value(Live)

(* Between calls the five buckets add up to what was signed today: no      *)
(* amount is lost by the clamp at zero, none is counted twice.             *)
BooksBalance ==
  Quiet /\ store.policy # Null =>
    LET books == Current(store.policy)
    IN  books.reserved + books.submitted + books.confirmed + books.failed
          + books.expired = Value(TodaysReservations)

(* Between calls, whatever crashed before, the locked amount is at least   *)
(* the value of the payloads that can still be spent.                      *)
BooksCover ==
  Quiet /\ store.policy # Null => Locked(store.policy) >= Value(Live)

(* A payload signed without a passphrase is, with those signed today and   *)
(* not released or failed, worth no more than the daily limit.             *)
WithinLimit ==
  \A p \in Payloads :
    payload[p] = Null /\ payload'[p] # Null /\ payload'[p].lowValue
      => Value(Live) + payload'[p].amount <= DailyLimit

(* No payload is signed without a passphrase beyond the daily limit.       *)
DailyLimitHolds == [][WithinLimit]_vars

(* An entry leaves "submitted" only for what the chain says of its payload *)
(* and never leaves "confirmed"; only forgetting it removes either.        *)
FollowsChain ==
  \A p \in Payloads :
    /\ Status(p) = "submitted" =>
         \/ Status(p)' \in {"submitted", "none"}
         \/ Status(p)' = "confirmed" /\ chain[p] = "included"
         \/ Status(p)' = "failed" /\ chain[p] = "reverted"
    /\ Status(p) = "confirmed" => Status(p)' \in {"confirmed", "none"}

(* An outbox that claims no more than what was signed and what the chain   *)
(* knows.                                                                  *)
Warranted(box, signed, known) ==
  \A p \in Payloads :
    /\ box[p] # Null => signed[p] # Null
    /\ box[p] # Null /\ box[p].status = "submitted" => known[p] # "unknown"
    /\ box[p] # Null /\ box[p].status = "confirmed" => known[p] = "included"

(* However calls interleave and whatever writes are lost, an entry is only *)
(* "submitted" once a node took the payload and "confirmed" once it was    *)
(* included, and an entry has a signed payload.                            *)
StatusIsWarranted == Warranted(outbox, payload, chain)

AdminLabels == {"enableWrite", "disableRead", "disableWrite", "pauseRead", "pauseWrite"}

(* What a call has read, and has still to write, is warranted too; what it *)
(* is about to record, the chain has confirmed.                            *)
CallInv(c) ==
  /\ pc[c] # "idle" => task[c] \in TaskType
  /\ pc[c] \notin AdminLabels \cup {"idle"} => task[c].id \in Payloads
  /\ pc[c] \in {"reserveRead", "reserveWrite", "addRead"} => payload[task[c].id] # Null
  /\ pc[c] = "attemptRead" => chain[task[c].id] # "unknown"
  /\ pc[c] # "idle" /\ task[c].op = "release" => task[c].to \in {"expired", "failed"}
  /\ pc[c] = "ask" => task[c].op = "status"
  /\ pc[c] = "statusRead" =>
       /\ task[c].to # "submitted"
       /\ task[c].to = "confirmed" => chain[task[c].id] = "included"
  /\ pc[c] \in {"reserveWrite", "moveWrite", "enableWrite", "disableWrite", "pauseWrite"} =>
       nextStore[c] \in StoreType
  /\ pc[c] \in {"addWrite", "attemptWrite", "failWrite", "statusWrite", "forgetWrite"} =>
       /\ nextOutbox[c] \in OutboxType
       /\ Warranted(nextOutbox[c], payload, chain)

(* The inductive invariant behind StatusIsWarranted.                       *)
IInv ==
  /\ TypeOK
  /\ StatusIsWarranted
  /\ \A c \in Calls : CallInv(c)
=============================================================================
