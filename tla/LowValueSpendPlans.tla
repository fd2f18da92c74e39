-------------------------- MODULE LowValueSpendPlans --------------------------
(***************************************************************************)
(* The books under four plans that are too large to explore together.  One *)
(* call at a time: with releases and no failure, with crashes and          *)
(* forgotten entries, or with an owner who drains and changes the policy   *)
(* over two days.  And concurrent calls on one payload.                    *)
(***************************************************************************)
EXTENDS LowValueSpend

CONSTANT MaxSigned          \* bounds the payloads of the plans with one call

VARIABLE plan

PlanOps ==
  [releases   |-> {"build", "retry", "release", "status"},
   faults     |-> {"build", "retry", "status", "forget"},
   owner      |-> {"build", "drain", "enable", "disable", "pause"},
   concurrent |-> {"build", "retry", "release", "status", "forget", "disable"}]

PlanPayloads ==
  [releases |-> MaxSigned, faults |-> MaxSigned, owner |-> MaxSigned, concurrent |-> 1]

PlanDays == [releases |-> 1, faults |-> 1, owner |-> LastDay, concurrent |-> 1]

PlanFaults == [releases |-> 0, faults |-> MaxFaults, owner |-> 0, concurrent |-> 0]

ASSUME CallsAssumption == Calls # {}

Busy == {c \in Calls : pc[c] # "idle"}

Caller == CHOOSE c \in Calls : TRUE

(* In the sequential plans the caller leaves the tx hash to the entry.     *)
OneByOne ==
  /\ Busy \subseteq {Caller}
  /\ \A c \in Busy :
       /\ pc[c] = "ask" => outbox[task[c].id].hashed
       /\ task[c].op = "release" => task[c].to = "expired"

(* One unit at most in each bucket that is about to be written.            *)
Small ==
  /\ \A p \in Payloads : payload[p] # Null => payload[p].amount = 1
  /\ \A c \in Busy :
       /\ task[c].amount <= 1
       /\ nextStore[c] # Null /\ nextStore[c].policy # Null =>
            \A b \in Buckets : nextStore[c].policy[b] <= 1

InPlan ==
  /\ \A c \in Busy : task[c].op \in PlanOps[plan]
  /\ Cardinality({p \in Payloads :
       payload[p] # Null \/ \E c \in Busy : task[c].id = p}) <= PlanPayloads[plan]
  /\ today <= PlanDays[plan]
  /\ faults <= PlanFaults[plan]
  /\ IF plan = "concurrent" THEN Small ELSE OneByOne

PlanInit == Init /\ plan \in DOMAIN PlanOps

PlanNext == Next /\ UNCHANGED plan /\ InPlan'

PlanSpec == PlanInit /\ [][PlanNext]_<<vars, plan>>

(* Between calls the books cover every payload that can still be spent,    *)
(* whatever crashed before; and where nothing crashes and no entry is      *)
(* forgotten, each bucket holds its payloads and the buckets add up to     *)
(* what was signed.                                                        *)
BooksAddUp ==
  /\ plan \in {"releases", "faults"} => BooksCover
  /\ plan = "releases" => BucketsCover /\ BooksBalance

(* One call at a time, no payload is signed beyond the daily limit: the    *)
(* description of wallet_configure_low_value, "daily cap".                 *)
LimitHoldsOneByOne ==
  [][(plan # "owner" /\ plan # "concurrent") => WithinLimit]_vars

(* One call at a time, an entry leaves "submitted" and "confirmed" only    *)
(* for what the chain says.                                                *)
EntryFollowsChain == [][plan # "concurrent" => FollowsChain]_vars

-----------------------------------------------------------------------------
(* The inductive invariant behind them.                                    *)

Sequential == plan # "concurrent"

Under(p, labels) == pc[Caller] \in labels /\ task[Caller].id = p

Signed == {p \in Payloads : payload[p] # Null}

(* One call at a time, the entry is as the call found it or left it, and    *)
(* what it is about to write differs from the file in this entry only.     *)
FoundOrLeft(c) ==
  LET t == task[c]
      p == t.id
  IN  /\ pc[c] \in {"sign", "reserveRead", "reserveWrite", "addRead", "addWrite"} =>
           t.op \in {"build", "drain"} /\ t.was = "signed" /\ outbox[p] = Null
      /\ pc[c] \in {"submit", "attemptRead", "attemptWrite"} =>
           t.op \in {"build", "drain", "retry"} /\ t.to = "submitted" /\ Status(p) = t.was
      /\ pc[c] \in {"attemptRead", "attemptWrite"} => Status(p) \notin {"confirmed", "failed"}
      /\ pc[c] \in {"failRead", "failWrite"} =>
           t.op \in {"build", "drain", "retry"} /\ outbox[p] # Null
      /\ pc[c] \in {"moveRead", "moveWrite"} =>
           /\ Moves(t) /\ t.op # "forget"
           /\ Status(p) = IF t.op = "release" THEN t.was ELSE t.to
      /\ pc[c] \in {"ask", "statusRead", "statusWrite"} =>
           t.op \in {"release", "status"} /\ Status(p) = t.was
      /\ pc[c] = "forgetWrite" => t.op = "forget"
      /\ t.op \in {"build", "drain", "retry"} => t.to = "submitted"
      /\ t.op = "release" => t.to = "expired" /\ t.was = "signed" /\ t.lowValue
      /\ t.op = "status" /\ pc[c] \in {"ask", "statusRead", "statusWrite"} => outbox[p].hashed
      /\ t.op = "status" /\ pc[c] \in {"statusRead", "statusWrite", "moveRead", "moveWrite"} =>
           \/ t.to = "confirmed" /\ chain[p] = "included"
           \/ t.to = "failed" /\ chain[p] = "reverted"

OutboxDrafted(c) ==
  LET t == task[c]
      p == t.id
  IN  /\ pc[c] = "addWrite" => nextOutbox[c] = [outbox EXCEPT ![p] = NewEntry]
      /\ pc[c] = "attemptWrite" =>
           nextOutbox[c] = [outbox EXCEPT ![p] = [status |-> "submitted", hashed |-> TRUE]]
      /\ pc[c] = "failWrite" => nextOutbox[c] = outbox
      /\ pc[c] = "statusWrite" =>
           nextOutbox[c] = [outbox EXCEPT ![p] =
                              [status |-> t.to, hashed |-> @.hashed \/ t.op = "status"]]
      /\ pc[c] = "forgetWrite" => nextOutbox[c] = [outbox EXCEPT ![p] = Null]

EntriesFollow ==
  \A p \in Payloads :
    outbox[p] # Null =>
      /\ outbox[p].status = "failed" => chain[p] = "reverted"
      /\ outbox[p].hashed => outbox[p].status \in {"submitted", "confirmed", "failed"}

SequentialInv ==
  /\ Busy \subseteq {Caller}
  /\ \A c \in Busy : FoundOrLeft(c) /\ OutboxDrafted(c)
  /\ EntriesFollow

(* The plans of one day: what a call will write of the books.              *)
OneDay == plan \in {"releases", "faults"}

OfTheDay(c) ==
  LET t == task[c]
  IN  /\ t.op \in PlanOps[plan]
      /\ pc[c] \notin AdminLabels
      /\ pc[c] = "sign" => payload[t.id] = Null
      /\ pc[c] # "sign" =>
           t.amount = payload[t.id].amount /\ t.lowValue = payload[t.id].lowValue
      /\ pc[c] \in {"reserveRead", "reserveWrite"} => t.lowValue
      /\ pc[c] = "reserveWrite" =>
           nextStore[c].policy = Reserved(store.policy, t.amount)
      /\ pc[c] = "moveWrite" =>
           nextStore[c].policy = Moved(store.policy, t.amount, From(t), t.to)

DayInv ==
  /\ today = 1 /\ store.policy # Null /\ store.policy.day = 1
  /\ \A p \in Signed : payload[p].day = 1
  /\ \A c \in Busy : OfTheDay(c)

(* The bucket the amount of a payload is in: that of its entry's status,    *)
(* but while a call is between its two writes.                             *)
StatusBucket(p) == IF Status(p) \in {"none", "signed"} THEN "reserved" ELSE Status(p)

Bucket(p) ==
  IF Under(p, {"reserveRead", "reserveWrite"}) THEN "none"
  ELSE IF Under(p, {"moveRead", "moveWrite"}) THEN From(task[Caller])
  ELSE IF Under(p, {"statusRead", "statusWrite"}) /\ task[Caller].op = "release" THEN "expired"
  ELSE StatusBucket(p)

In(bucket) == {p \in TodaysReservations : Bucket(p) = bucket}

(* Without failures each bucket holds exactly what is in it, and what was   *)
(* signed has an entry or is about to get one.                             *)
LedgerInv ==
  /\ \A b \in Buckets : store.policy[b] = Value(In(b))
  /\ \A p \in Payloads :
       payload[p] # Null /\ outbox[p] = Null =>
         Under(p, {"reserveRead", "reserveWrite", "addRead", "addWrite"})

(* With failures and no releases, what is locked covers what can be spent, *)
(* but for what is about to be reserved, and with it what has failed and   *)
(* is about to be taken out.                                               *)
TakenOut ==
  {p \in TodaysReservations :
     Under(p, {"moveRead", "moveWrite"}) /\ task[Caller].to = "failed"}

Covered ==
  {p \in Live : ~Under(p, {"reserveRead", "reserveWrite"})} \cup TakenOut

CoverInv ==
  /\ \A p \in Payloads : Status(p) # "expired"
  /\ Locked(store.policy) >= Value(Covered)

PlanIInv ==
  /\ IInv
  /\ plan \in DOMAIN PlanOps
  /\ IsFiniteSet(Signed)
  /\ \A c \in Calls : pc[c] = "idle" => task[c] = Null
  /\ Sequential => SequentialInv
  /\ OneDay => DayInv
  /\ plan = "releases" => LedgerInv
  /\ plan = "faults" => CoverInv
=============================================================================
