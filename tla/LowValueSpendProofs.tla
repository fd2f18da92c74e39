------------------------- MODULE LowValueSpendProofs -------------------------
(***************************************************************************)
(* That the outbox is warranted, for any number of calls, payloads, days   *)
(* and faults and whatever writes are lost.  IInv is inductive: every      *)
(* draft was warranted when it was read, and what warrants it only grows.  *)
(* A step of a call is shown to keep the types, the outbox and the call's  *)
(* own part; Frame gives the rest.                                         *)
(*                                                                         *)
(* And that the books add up, one call at a time.  PlanIInv says which     *)
(* bucket each payload's amount is in at every point of a call, and that a *)
(* bucket holds the sum of its payloads; a step moves the amount of one    *)
(* payload at most.  Each part of PlanIInv has its own section: the call   *)
(* and the outbox, the day, the books without failures, the books with     *)
(* failures.                                                               *)
(***************************************************************************)
EXTENDS LowValueSpendPlans, Sums

-----------------------------------------------------------------------------
(* What was signed stays signed, what the chain has taken stays taken.     *)

Grows ==
  \A p \in Payloads :
    /\ payload[p] # Null => payload'[p] # Null
    /\ chain[p] # "unknown" => chain'[p] # "unknown"
    /\ chain[p] = "included" => chain'[p] = "included"

LEMMA StillWarranted ==
  ASSUME NEW box, Warranted(box, payload, chain), Grows
  PROVE  Warranted(box, payload', chain')
BY DEF Warranted, Grows

Untouched(d) ==
  /\ pc'[d] = pc[d]
  /\ task'[d] = task[d]
  /\ nextStore'[d] = nextStore[d]
  /\ nextOutbox'[d] = nextOutbox[d]

(* A call that does not move keeps its part of the invariant.              *)
LEMMA CallFrame ==
  ASSUME NEW d \in Calls, CallInv(d), Untouched(d), Grows
  PROVE  CallInv(d)'
<1>1. pc[d] \in {"addWrite", "attemptWrite", "failWrite", "statusWrite", "forgetWrite"} =>
        Warranted(nextOutbox[d], payload', chain')
  BY StillWarranted DEF CallInv
<1>2. pc[d] \notin AdminLabels \cup {"idle"} => task[d].id \in Payloads
  BY DEF CallInv
<1>3. pc[d] = "attemptRead" => chain'[task[d].id] # "unknown"
  BY <1>2 DEF CallInv, Grows, AdminLabels
<1>4. pc[d] \in {"reserveRead", "reserveWrite", "addRead"} => payload'[task[d].id] # Null
  BY <1>2 DEF CallInv, Grows, AdminLabels
<1>5. pc[d] = "statusRead" =>
        /\ task[d].to # "submitted"
        /\ task[d].to = "confirmed" => chain'[task[d].id] = "included"
  BY <1>2 DEF CallInv, Grows, AdminLabels
<1> QED
  BY <1>1, <1>2, <1>3, <1>4, <1>5 DEF CallInv, Untouched

LEMMA Frame ==
  ASSUME IInv, NEW c \in Calls, TypeOK', StatusIsWarranted', CallInv(c)', Grows,
         \A d \in Calls \ {c} : Untouched(d)
  PROVE  IInv'
<1>1. \A d \in Calls \ {c} : CallInv(d)'
  BY CallFrame DEF IInv
<1> QED
  BY <1>1 DEF IInv

-----------------------------------------------------------------------------
(* The books keep their type.                                              *)

LEMMA CurrentType ==
  ASSUME TypeOK, NEW p \in Policy
  PROVE  Current(p) \in Policy
BY DEF Current, NewPolicy, Policy, TypeOK

LEMMA ReservedType ==
  ASSUME TypeOK, NEW p \in Policy, NEW n \in Nat
  PROVE  Reserved(p, n) \in Policy
<1> DEFINE books == Current(p)
<1>1. books \in [{"day"} \cup Buckets -> Nat]
  BY CurrentType DEF Policy
<1> HIDE DEF books
<1>2. [books EXCEPT !.reserved = @ + n] \in [{"day"} \cup Buckets -> Nat]
  BY <1>1 DEF Buckets
<1> QED
  BY <1>2 DEF books, Reserved, Policy

LEMMA MovedType ==
  ASSUME TypeOK, NEW p \in Policy, NEW n \in Nat,
         NEW from \in Buckets, NEW to \in Buckets
  PROVE  Moved(p, n, from, to) \in Policy
<1> DEFINE books == Current(p)
           less == [books EXCEPT ![from] = Less(@, n)]
<1>1. books \in [{"day"} \cup Buckets -> Nat]
  BY CurrentType DEF Policy
<1> HIDE DEF books
<1>2. less \in [{"day"} \cup Buckets -> Nat]
  <2>1. books[from] \in Nat
    BY <1>1
  <2>2. Less(books[from], n) \in Nat
    BY <2>1 DEF Less
  <2> QED
    BY <1>1, <2>2
<1> HIDE DEF less
<1>3. [less EXCEPT ![to] = @ + n] \in [{"day"} \cup Buckets -> Nat]
  BY <1>2 DEF Buckets
<1> QED
  BY <1>3 DEF less, books, Moved, Policy

LEMMA NewPolicyType ==
  ASSUME TypeOK
  PROVE  NewPolicy \in Policy
BY DEF NewPolicy, Policy, TypeOK

LEMMA StorePolicy ==
  ASSUME TypeOK, NEW p \in Policy \cup {Null}
  PROVE  /\ [store EXCEPT !.policy = p] \in StoreType
         /\ [store EXCEPT !.paused = TRUE] \in StoreType
BY DEF TypeOK, StoreType

-----------------------------------------------------------------------------
(* One lemma per action: it keeps the invariant.                           *)

LEMMA StartBuildKeeps ==
  ASSUME IInv, NEW c \in Calls, NEW p \in Payloads, NEW amount \in Amounts, NEW lowValue \in BOOLEAN, StartBuild(c, p, amount, lowValue)
  PROVE  IInv'
<1> USE DEF StartBuild, Begin, Goto, Task, files, drafts, world
<1>a. Task("build", p, "signed", "submitted", amount, lowValue) \in TaskType
  BY ConstantsAssumption DEF IInv, TypeOK, TaskType, StatusIsWarranted, Warranted, OutboxType, PayloadType, Statuses
<1>1. TypeOK'
  BY <1>a DEF IInv, TypeOK, Labels
<1>2. Grows
  BY DEF IInv, TypeOK, Grows
<1>3. StatusIsWarranted'
  BY <1>2, StillWarranted DEF IInv, StatusIsWarranted
<1>4. CallInv(c)'
  BY <1>a, <1>2, StillWarranted DEF IInv, TypeOK, CallInv, AdminLabels
<1> QED
  BY <1>1, <1>2, <1>3, <1>4, Frame DEF IInv, TypeOK, Untouched

LEMMA StartDrainKeeps ==
  ASSUME IInv, NEW c \in Calls, NEW p \in Payloads, NEW amount \in Amounts, StartDrain(c, p, amount)
  PROVE  IInv'
<1> USE DEF StartDrain, Begin, Goto, Task, files, drafts, world
<1>a. Task("drain", p, "signed", "submitted", amount, FALSE) \in TaskType
  BY ConstantsAssumption DEF IInv, TypeOK, TaskType, StatusIsWarranted, Warranted, OutboxType, PayloadType, Statuses
<1>1. TypeOK'
  BY <1>a DEF IInv, TypeOK, Labels
<1>2. Grows
  BY DEF IInv, TypeOK, Grows
<1>3. StatusIsWarranted'
  BY <1>2, StillWarranted DEF IInv, StatusIsWarranted
<1>4. CallInv(c)'
  BY <1>a, <1>2, StillWarranted DEF IInv, TypeOK, CallInv, AdminLabels
<1> QED
  BY <1>1, <1>2, <1>3, <1>4, Frame DEF IInv, TypeOK, Untouched

LEMMA StartRetryKeeps ==
  ASSUME IInv, NEW c \in Calls, NEW p \in Payloads, StartRetry(c, p)
  PROVE  IInv'
<1> USE DEF StartRetry, Begin, Goto, Task, TaskOn, files, drafts, world
<1>a. TaskOn("retry", p, "submitted") \in TaskType
  BY ConstantsAssumption DEF IInv, TypeOK, TaskType, StatusIsWarranted, Warranted, OutboxType, PayloadType, Statuses
<1>1. TypeOK'
  BY <1>a DEF IInv, TypeOK, Labels
<1>2. Grows
  BY DEF IInv, TypeOK, Grows
<1>3. StatusIsWarranted'
  BY <1>2, StillWarranted DEF IInv, StatusIsWarranted
<1>4. CallInv(c)'
  BY <1>a, <1>2, StillWarranted DEF IInv, TypeOK, CallInv, AdminLabels
<1> QED
  BY <1>1, <1>2, <1>3, <1>4, Frame DEF IInv, TypeOK, Untouched

LEMMA StartReleaseKeeps ==
  ASSUME IInv, NEW c \in Calls, NEW p \in Payloads, NEW target \in ReleaseTargets, StartRelease(c, p, target)
  PROVE  IInv'
<1> USE DEF StartRelease, Begin, Goto, Task, TaskOn, Status, files, drafts, world
<1>a. TaskOn("release", p, target) \in TaskType
  BY ConstantsAssumption DEF IInv, TypeOK, TaskType, StatusIsWarranted, Warranted, OutboxType, PayloadType, Statuses
<1>1. TypeOK'
  BY <1>a DEF IInv, TypeOK, Labels
<1>2. Grows
  BY DEF IInv, TypeOK, Grows
<1>3. StatusIsWarranted'
  BY <1>2, StillWarranted DEF IInv, StatusIsWarranted
<1>4. CallInv(c)'
  BY <1>a, ConstantsAssumption, <1>2, StillWarranted DEF IInv, TypeOK, CallInv, AdminLabels
<1> QED
  BY <1>1, <1>2, <1>3, <1>4, Frame DEF IInv, TypeOK, Untouched

LEMMA StartStatusKeeps ==
  ASSUME IInv, NEW c \in Calls, NEW p \in Payloads, StartStatus(c, p)
  PROVE  IInv'
<1> USE DEF StartStatus, Begin, Goto, Task, TaskOn, files, drafts, world
<1>a. TaskOn("status", p, "submitted") \in TaskType
  BY ConstantsAssumption DEF IInv, TypeOK, TaskType, StatusIsWarranted, Warranted, OutboxType, PayloadType, Statuses
<1>1. TypeOK'
  BY <1>a DEF IInv, TypeOK, Labels
<1>2. Grows
  BY DEF IInv, TypeOK, Grows
<1>3. StatusIsWarranted'
  BY <1>2, StillWarranted DEF IInv, StatusIsWarranted
<1>4. CallInv(c)'
  BY <1>a, <1>2, StillWarranted DEF IInv, TypeOK, CallInv, AdminLabels
<1> QED
  BY <1>1, <1>2, <1>3, <1>4, Frame DEF IInv, TypeOK, Untouched

LEMMA StartForgetKeeps ==
  ASSUME IInv, NEW c \in Calls, NEW p \in Payloads, StartForget(c, p)
  PROVE  IInv'
<1> USE DEF StartForget, Begin, Goto, Task, TaskOn, files, drafts, world
<1>a. TaskOn("forget", p, "submitted") \in TaskType
  BY DEF TaskOn, Task, IInv, TypeOK, TaskType, StatusIsWarranted, Warranted, OutboxType, PayloadType, Statuses
<1>b. [outbox EXCEPT ![p] = Null] \in OutboxType
  BY DEF IInv, TypeOK, OutboxType
<1>c. Warranted([outbox EXCEPT ![p] = Null], payload, chain)
  BY DEF IInv, TypeOK, OutboxType, StatusIsWarranted, Warranted
<1>1. TypeOK'
  BY <1>a, <1>b DEF IInv, TypeOK, Labels
<1>2. Grows
  BY DEF IInv, TypeOK, Grows
<1>3. StatusIsWarranted'
  BY <1>2, StillWarranted DEF IInv, StatusIsWarranted
<1>4. CallInv(c)'
  BY <1>a, <1>b, <1>c, <1>2, StillWarranted DEF IInv, TypeOK, CallInv, AdminLabels
<1> QED
  BY <1>1, <1>2, <1>3, <1>4, Frame DEF IInv, TypeOK, Untouched

LEMMA StartEnableKeeps ==
  ASSUME IInv, NEW c \in Calls, StartEnable(c)
  PROVE  IInv'
<1> USE DEF StartEnable, AdminTask, Begin, Goto, Task, files, drafts, world
<1>a. AdminTask("enable") \in TaskType
  BY DEF AdminTask, Task, TaskType, Statuses
<1>b. [store EXCEPT !.policy = NewPolicy] \in StoreType
  BY NewPolicyType, StorePolicy DEF IInv
<1>1. TypeOK'
  BY <1>a, <1>b DEF IInv, TypeOK, Labels
<1>2. Grows
  BY DEF IInv, TypeOK, Grows
<1>3. StatusIsWarranted'
  BY <1>2, StillWarranted DEF IInv, StatusIsWarranted
<1>4. CallInv(c)'
  BY <1>a, <1>b, <1>2, StillWarranted DEF IInv, TypeOK, CallInv, AdminLabels
<1> QED
  BY <1>1, <1>2, <1>3, <1>4, Frame DEF IInv, TypeOK, Untouched

LEMMA StartDisableKeeps ==
  ASSUME IInv, NEW c \in Calls, NEW o \in {"disable", "pause"}, StartDisable(c, o)
  PROVE  IInv'
<1> USE DEF StartDisable, AdminTask, Begin, Goto, Task, files, drafts, world
<1>a. AdminTask(o) \in TaskType
  BY DEF AdminTask, Task, TaskType, Statuses
<1>1. TypeOK'
  BY <1>a DEF IInv, TypeOK, Labels
<1>2. Grows
  BY DEF IInv, TypeOK, Grows
<1>3. StatusIsWarranted'
  BY <1>2, StillWarranted DEF IInv, StatusIsWarranted
<1>4. CallInv(c)'
  BY <1>a, <1>2, StillWarranted DEF IInv, TypeOK, CallInv, AdminLabels
<1> QED
  BY <1>1, <1>2, <1>3, <1>4, Frame DEF IInv, TypeOK, Untouched

LEMMA SignKeeps ==
  ASSUME IInv, NEW c \in Calls, Sign(c)
  PROVE  IInv'
<1> USE DEF Sign, Continue, Goto, End, files, drafts, world
<1>a. task[c] \in TaskType
  BY DEF IInv, CallInv
<1>b. task[c].id \in Payloads
  BY DEF IInv, CallInv, AdminLabels
<1>c. /\ payload'[task[c].id] # Null
      /\ payload' \in [Payloads -> PayloadType \cup {Null}]
  BY <1>a, <1>b, ConstantsAssumption DEF IInv, TypeOK, PayloadType, TaskType
<1>1. TypeOK'
  BY <1>c DEF IInv, TypeOK, Labels
<1>2. Grows
  BY <1>b, <1>c DEF IInv, TypeOK, Grows
<1>3. StatusIsWarranted'
  BY <1>2, StillWarranted DEF IInv, StatusIsWarranted
<1>4. CallInv(c)'
  BY <1>a, <1>b, <1>c, <1>2, StillWarranted DEF IInv, TypeOK, CallInv, AdminLabels
<1> QED
  BY <1>1, <1>2, <1>3, <1>4, Frame DEF IInv, TypeOK, Untouched

LEMMA SignRefusedKeeps ==
  ASSUME IInv, NEW c \in Calls, SignRefused(c)
  PROVE  IInv'
<1> USE DEF SignRefused, Continue, Goto, End, files, drafts, world
<1>1. TypeOK'
  BY DEF IInv, TypeOK, Labels
<1>2. Grows
  BY DEF IInv, TypeOK, Grows
<1>3. StatusIsWarranted'
  BY <1>2, StillWarranted DEF IInv, StatusIsWarranted
<1>4. CallInv(c)'
  BY <1>2, StillWarranted DEF IInv, TypeOK, CallInv, AdminLabels
<1> QED
  BY <1>1, <1>2, <1>3, <1>4, Frame DEF IInv, TypeOK, Untouched

LEMMA ReserveReadKeeps ==
  ASSUME IInv, NEW c \in Calls, ReserveRead(c)
  PROVE  IInv'
<1> USE DEF ReserveRead, DraftStore, Continue, Goto, End, files, drafts, world
<1>a. task[c] \in TaskType
  BY DEF IInv, CallInv
<1>b. store.policy # Null =>
        [store EXCEPT !.policy = Reserved(@, task[c].amount)] \in StoreType
  BY <1>a, ReservedType DEF IInv, TypeOK, StoreType, TaskType
<1>1. TypeOK'
  BY <1>b DEF IInv, TypeOK, Labels
<1>2. Grows
  BY DEF IInv, TypeOK, Grows
<1>3. StatusIsWarranted'
  BY <1>2, StillWarranted DEF IInv, StatusIsWarranted
<1>4. CallInv(c)'
  BY <1>a, <1>b, <1>2, StillWarranted DEF IInv, TypeOK, CallInv, AdminLabels
<1> QED
  BY <1>1, <1>2, <1>3, <1>4, Frame DEF IInv, TypeOK, Untouched

LEMMA ReserveWriteKeeps ==
  ASSUME IInv, NEW c \in Calls, ReserveWrite(c)
  PROVE  IInv'
<1> USE DEF ReserveWrite, WriteStore, Continue, Goto, End, files, drafts, world
<1>a. nextStore[c] \in StoreType
  BY DEF IInv, CallInv
<1>1. TypeOK'
  BY <1>a DEF IInv, TypeOK, Labels
<1>2. Grows
  BY DEF IInv, TypeOK, Grows
<1>3. StatusIsWarranted'
  BY <1>2, StillWarranted DEF IInv, StatusIsWarranted
<1>4. CallInv(c)'
  BY <1>2, StillWarranted DEF IInv, TypeOK, CallInv, AdminLabels
<1> QED
  BY <1>1, <1>2, <1>3, <1>4, Frame DEF IInv, TypeOK, Untouched

LEMMA AddReadKeeps ==
  ASSUME IInv, NEW c \in Calls, AddRead(c)
  PROVE  IInv'
<1> USE DEF AddRead, DraftOutbox, Continue, Goto, End, files, drafts, world
<1>a. task[c] \in TaskType /\ task[c].id \in Payloads
  BY DEF IInv, CallInv, AdminLabels
<1>b. [outbox EXCEPT ![task[c].id] = NewEntry] \in OutboxType
  BY <1>a DEF IInv, TypeOK, OutboxType, Statuses, TaskType, NewEntry
<1>c. Warranted([outbox EXCEPT ![task[c].id] = NewEntry], payload, chain)
  BY <1>a DEF IInv, TypeOK, OutboxType, StatusIsWarranted, Warranted, CallInv, NewEntry
<1>1. TypeOK'
  BY <1>b DEF IInv, TypeOK, Labels
<1>2. Grows
  BY DEF IInv, TypeOK, Grows
<1>3. StatusIsWarranted'
  BY <1>2, StillWarranted DEF IInv, StatusIsWarranted
<1>4. CallInv(c)'
  BY <1>a, <1>b, <1>c, <1>2, StillWarranted DEF IInv, TypeOK, CallInv, AdminLabels
<1> QED
  BY <1>1, <1>2, <1>3, <1>4, Frame DEF IInv, TypeOK, Untouched

LEMMA AddWriteKeeps ==
  ASSUME IInv, NEW c \in Calls, AddWrite(c)
  PROVE  IInv'
<1> USE DEF AddWrite, WriteOutbox, AfterTransfer, Continue, Goto, End, files, drafts, world
<1>a. nextOutbox[c] \in OutboxType /\ Warranted(nextOutbox[c], payload, chain)
  BY DEF IInv, CallInv
<1>1. TypeOK'
  BY <1>a DEF IInv, TypeOK, Labels
<1>2. Grows
  BY DEF IInv, TypeOK, Grows
<1>3. StatusIsWarranted'
  BY <1>a, <1>2, StillWarranted DEF IInv, StatusIsWarranted
<1>4. CallInv(c)'
  BY <1>2, StillWarranted DEF IInv, TypeOK, CallInv, AdminLabels
<1> QED
  BY <1>1, <1>2, <1>3, <1>4, Frame DEF IInv, TypeOK, Untouched

LEMMA SubmitAcceptedKeeps ==
  ASSUME IInv, NEW c \in Calls, SubmitAccepted(c)
  PROVE  IInv'
<1> USE DEF SubmitAccepted, Pending, Continue, Goto, End, files, drafts, world
<1>a. task[c] \in TaskType /\ task[c].id \in Payloads
  BY DEF IInv, CallInv, AdminLabels
<1>1. TypeOK'
  BY <1>a DEF IInv, TypeOK, Labels
<1>2. Grows
  BY <1>a DEF IInv, TypeOK, Grows
<1>3. StatusIsWarranted'
  BY <1>2, StillWarranted DEF IInv, StatusIsWarranted
<1>4. CallInv(c)'
  BY <1>a, <1>2, StillWarranted DEF IInv, TypeOK, CallInv, AdminLabels
<1> QED
  BY <1>1, <1>2, <1>3, <1>4, Frame DEF IInv, TypeOK, Untouched

LEMMA SubmitLostKeeps ==
  ASSUME IInv, NEW c \in Calls, SubmitLost(c)
  PROVE  IInv'
<1> USE DEF SubmitLost, Pending, Continue, Goto, End, files, drafts, world
<1>a. task[c] \in TaskType /\ task[c].id \in Payloads
  BY DEF IInv, CallInv, AdminLabels
<1>1. TypeOK'
  BY <1>a DEF IInv, TypeOK, Labels
<1>2. Grows
  BY <1>a DEF IInv, TypeOK, Grows
<1>3. StatusIsWarranted'
  BY <1>2, StillWarranted DEF IInv, StatusIsWarranted
<1>4. CallInv(c)'
  BY <1>a, <1>2, StillWarranted DEF IInv, TypeOK, CallInv, AdminLabels
<1> QED
  BY <1>1, <1>2, <1>3, <1>4, Frame DEF IInv, TypeOK, Untouched

LEMMA SubmitRejectedKeeps ==
  ASSUME IInv, NEW c \in Calls, SubmitRejected(c)
  PROVE  IInv'
<1> USE DEF SubmitRejected, Continue, Goto, End, files, drafts, world
<1>1. TypeOK'
  BY DEF IInv, TypeOK, Labels
<1>2. Grows
  BY DEF IInv, TypeOK, Grows
<1>3. StatusIsWarranted'
  BY <1>2, StillWarranted DEF IInv, StatusIsWarranted
<1>4. CallInv(c)'
  BY <1>2, StillWarranted DEF IInv, TypeOK, CallInv, AdminLabels
<1> QED
  BY <1>1, <1>2, <1>3, <1>4, Frame DEF IInv, TypeOK, Untouched

LEMMA AttemptReadKeeps ==
  ASSUME IInv, NEW c \in Calls, AttemptRead(c)
  PROVE  IInv'
<1> USE DEF AttemptRead, DraftOutbox, Continue, Goto, End, files, drafts, world
<1>a. task[c] \in TaskType /\ task[c].id \in Payloads
  BY DEF IInv, CallInv, AdminLabels
<1>b. outbox[task[c].id] # Null =>
        [outbox EXCEPT ![task[c].id] =
              [status |-> "submitted", hashed |-> TRUE]] \in OutboxType
  BY <1>a DEF IInv, TypeOK, OutboxType, Statuses, TaskType, NewEntry
<1>c. outbox[task[c].id] # Null =>
        Warranted([outbox EXCEPT ![task[c].id] =
              [status |-> "submitted", hashed |-> TRUE]], payload, chain)
  BY <1>a DEF IInv, TypeOK, OutboxType, StatusIsWarranted, Warranted, CallInv, NewEntry
<1>1. TypeOK'
  BY <1>b DEF IInv, TypeOK, Labels
<1>2. Grows
  BY DEF IInv, TypeOK, Grows
<1>3. StatusIsWarranted'
  BY <1>2, StillWarranted DEF IInv, StatusIsWarranted
<1>4. CallInv(c)'
  BY <1>a, <1>b, <1>c, <1>2, StillWarranted DEF IInv, TypeOK, CallInv, AdminLabels
<1> QED
  BY <1>1, <1>2, <1>3, <1>4, Frame DEF IInv, TypeOK, Untouched

LEMMA AttemptWriteKeeps ==
  ASSUME IInv, NEW c \in Calls, AttemptWrite(c)
  PROVE  IInv'
<1> USE DEF AttemptWrite, WriteOutbox, AfterTransfer, Continue, Goto, End, Moves, files, drafts, world
<1>a. nextOutbox[c] \in OutboxType /\ Warranted(nextOutbox[c], payload, chain)
  BY DEF IInv, CallInv
<1>1. TypeOK'
  BY <1>a DEF IInv, TypeOK, Labels
<1>2. Grows
  BY DEF IInv, TypeOK, Grows
<1>3. StatusIsWarranted'
  BY <1>a, <1>2, StillWarranted DEF IInv, StatusIsWarranted
<1>4. CallInv(c)'
  BY <1>2, StillWarranted DEF IInv, TypeOK, CallInv, AdminLabels
<1> QED
  BY <1>1, <1>2, <1>3, <1>4, Frame DEF IInv, TypeOK, Untouched

LEMMA FailReadKeeps ==
  ASSUME IInv, NEW c \in Calls, FailRead(c)
  PROVE  IInv'
<1> USE DEF FailRead, DraftOutbox, Continue, Goto, End, files, drafts, world
<1>a. Warranted(outbox, payload, chain)
  BY DEF IInv, StatusIsWarranted
<1>1. TypeOK'
  BY DEF IInv, TypeOK, Labels
<1>2. Grows
  BY DEF IInv, TypeOK, Grows
<1>3. StatusIsWarranted'
  BY <1>2, StillWarranted DEF IInv, StatusIsWarranted
<1>4. CallInv(c)'
  BY <1>a, <1>2, StillWarranted DEF IInv, TypeOK, CallInv, AdminLabels
<1> QED
  BY <1>1, <1>2, <1>3, <1>4, Frame DEF IInv, TypeOK, Untouched

LEMMA FailWriteKeeps ==
  ASSUME IInv, NEW c \in Calls, FailWrite(c)
  PROVE  IInv'
<1> USE DEF FailWrite, WriteOutbox, AfterTransfer, Continue, Goto, End, files, drafts, world
<1>a. nextOutbox[c] \in OutboxType /\ Warranted(nextOutbox[c], payload, chain)
  BY DEF IInv, CallInv
<1>1. TypeOK'
  BY <1>a DEF IInv, TypeOK, Labels
<1>2. Grows
  BY DEF IInv, TypeOK, Grows
<1>3. StatusIsWarranted'
  BY <1>a, <1>2, StillWarranted DEF IInv, StatusIsWarranted
<1>4. CallInv(c)'
  BY <1>2, StillWarranted DEF IInv, TypeOK, CallInv, AdminLabels
<1> QED
  BY <1>1, <1>2, <1>3, <1>4, Frame DEF IInv, TypeOK, Untouched

LEMMA MoveReadKeeps ==
  ASSUME IInv, NEW c \in Calls, MoveRead(c)
  PROVE  IInv'
<1> USE DEF MoveRead, DraftStore, AfterMove, AfterTransfer, Continue, Goto, End, files, drafts, world
<1>a. task[c] \in TaskType /\ task[c].id \in Payloads
  BY DEF IInv, CallInv, AdminLabels
<1>b. store.policy # Null =>
        [store EXCEPT !.policy = Moved(@, task[c].amount, From(task[c]), task[c].to)]
          \in StoreType
  BY <1>a, MovedType DEF IInv, TypeOK, StoreType, TaskType, Statuses, Buckets, From
<1>1. TypeOK'
  BY <1>b DEF IInv, TypeOK, Labels
<1>2. Grows
  BY DEF IInv, TypeOK, Grows
<1>3. StatusIsWarranted'
  BY <1>2, StillWarranted DEF IInv, StatusIsWarranted
<1>4. CallInv(c)'
  BY <1>a, <1>b, <1>2, StillWarranted DEF IInv, TypeOK, CallInv, AdminLabels
<1> QED
  BY <1>1, <1>2, <1>3, <1>4, Frame DEF IInv, TypeOK, Untouched

LEMMA MoveWriteKeeps ==
  ASSUME IInv, NEW c \in Calls, MoveWrite(c)
  PROVE  IInv'
<1> USE DEF MoveWrite, WriteStore, AfterMove, AfterTransfer, Continue, Goto, End, files, drafts, world
<1>a. nextStore[c] \in StoreType
  BY DEF IInv, CallInv
<1>1. TypeOK'
  BY <1>a DEF IInv, TypeOK, Labels
<1>2. Grows
  BY DEF IInv, TypeOK, Grows
<1>3. StatusIsWarranted'
  BY <1>2, StillWarranted DEF IInv, StatusIsWarranted
<1>4. CallInv(c)'
  BY <1>2, StillWarranted DEF IInv, TypeOK, CallInv, AdminLabels
<1> QED
  BY <1>1, <1>2, <1>3, <1>4, Frame DEF IInv, TypeOK, Untouched

LEMMA AskKeeps ==
  ASSUME IInv, NEW c \in Calls, Ask(c)
  PROVE  IInv'
<1> USE DEF Ask, Continue, Goto, End, files, drafts, world
<1>a. task[c] \in TaskType /\ task[c].id \in Payloads
  BY DEF IInv, CallInv, AdminLabels
<1>b. /\ [task[c] EXCEPT !.to = "confirmed"] \in TaskType
      /\ [task[c] EXCEPT !.to = "failed"] \in TaskType
  BY <1>a DEF TaskType, Statuses
<1>c. pc'[c] = "statusRead" =>
        /\ task'[c] \in TaskType
        /\ task'[c].op = "status"
        /\ task'[c].id = task[c].id
        /\ task'[c].to \in {"confirmed", "failed"}
        /\ task'[c].to = "confirmed" => chain[task[c].id] = "included"
  BY <1>a, <1>b DEF IInv, TypeOK, CallInv, TaskType
<1>d. pc'[c] = "idle" \/ pc'[c] = "statusRead"
  BY <1>a DEF IInv, TypeOK
<1>1. TypeOK'
  BY <1>b DEF IInv, TypeOK, Labels
<1>2. Grows
  BY DEF IInv, TypeOK, Grows
<1>3. StatusIsWarranted'
  BY <1>2, StillWarranted DEF IInv, StatusIsWarranted
<1>4. CallInv(c)'
  BY <1>a, <1>c, <1>d, <1>2, StillWarranted DEF IInv, TypeOK, CallInv, AdminLabels
<1> QED
  BY <1>1, <1>2, <1>3, <1>4, Frame DEF IInv, TypeOK, Untouched

LEMMA StatusReadKeeps ==
  ASSUME IInv, NEW c \in Calls, StatusRead(c)
  PROVE  IInv'
<1> USE DEF StatusRead, DraftOutbox, Continue, Goto, End, files, drafts, world
<1>a. task[c] \in TaskType /\ task[c].id \in Payloads
  BY DEF IInv, CallInv, AdminLabels
<1>b. outbox[task[c].id] # Null =>
        [outbox EXCEPT ![task[c].id] =
              [status |-> task[c].to,
               hashed |-> @.hashed \/ task[c].op = "status"]] \in OutboxType
  BY <1>a DEF IInv, TypeOK, OutboxType, Statuses, TaskType, NewEntry
<1>c. outbox[task[c].id] # Null =>
        Warranted([outbox EXCEPT ![task[c].id] =
              [status |-> task[c].to,
               hashed |-> @.hashed \/ task[c].op = "status"]], payload, chain)
  BY <1>a DEF IInv, TypeOK, OutboxType, StatusIsWarranted, Warranted, CallInv, NewEntry
<1>1. TypeOK'
  BY <1>b DEF IInv, TypeOK, Labels
<1>2. Grows
  BY DEF IInv, TypeOK, Grows
<1>3. StatusIsWarranted'
  BY <1>2, StillWarranted DEF IInv, StatusIsWarranted
<1>4. CallInv(c)'
  BY <1>a, <1>b, <1>c, <1>2, StillWarranted DEF IInv, TypeOK, CallInv, AdminLabels
<1> QED
  BY <1>1, <1>2, <1>3, <1>4, Frame DEF IInv, TypeOK, Untouched

LEMMA StatusWriteKeeps ==
  ASSUME IInv, NEW c \in Calls, StatusWrite(c)
  PROVE  IInv'
<1> USE DEF StatusWrite, WriteOutbox, Moves, Continue, Goto, End, files, drafts, world
<1>a. nextOutbox[c] \in OutboxType /\ Warranted(nextOutbox[c], payload, chain)
  BY DEF IInv, CallInv
<1>1. TypeOK'
  BY <1>a DEF IInv, TypeOK, Labels
<1>2. Grows
  BY DEF IInv, TypeOK, Grows
<1>3. StatusIsWarranted'
  BY <1>a, <1>2, StillWarranted DEF IInv, StatusIsWarranted
<1>4. CallInv(c)'
  BY <1>2, StillWarranted DEF IInv, TypeOK, CallInv, AdminLabels
<1> QED
  BY <1>1, <1>2, <1>3, <1>4, Frame DEF IInv, TypeOK, Untouched

LEMMA ForgetWriteKeeps ==
  ASSUME IInv, NEW c \in Calls, ForgetWrite(c)
  PROVE  IInv'
<1> USE DEF ForgetWrite, WriteOutbox, AfterTransfer, Continue, Goto, End, files, drafts, world
<1>a. nextOutbox[c] \in OutboxType /\ Warranted(nextOutbox[c], payload, chain)
  BY DEF IInv, CallInv
<1>1. TypeOK'
  BY <1>a DEF IInv, TypeOK, Labels
<1>2. Grows
  BY DEF IInv, TypeOK, Grows
<1>3. StatusIsWarranted'
  BY <1>a, <1>2, StillWarranted DEF IInv, StatusIsWarranted
<1>4. CallInv(c)'
  BY <1>2, StillWarranted DEF IInv, TypeOK, CallInv, AdminLabels
<1> QED
  BY <1>1, <1>2, <1>3, <1>4, Frame DEF IInv, TypeOK, Untouched

LEMMA EnableWriteKeeps ==
  ASSUME IInv, NEW c \in Calls, EnableWrite(c)
  PROVE  IInv'
<1> USE DEF EnableWrite, WriteStore, Continue, Goto, End, files, drafts, world
<1>a. nextStore[c] \in StoreType
  BY DEF IInv, CallInv
<1>1. TypeOK'
  BY <1>a DEF IInv, TypeOK, Labels
<1>2. Grows
  BY DEF IInv, TypeOK, Grows
<1>3. StatusIsWarranted'
  BY <1>2, StillWarranted DEF IInv, StatusIsWarranted
<1>4. CallInv(c)'
  BY <1>2, StillWarranted DEF IInv, TypeOK, CallInv, AdminLabels
<1> QED
  BY <1>1, <1>2, <1>3, <1>4, Frame DEF IInv, TypeOK, Untouched

LEMMA DisableWriteKeeps ==
  ASSUME IInv, NEW c \in Calls, DisableWrite(c)
  PROVE  IInv'
<1> USE DEF DisableWrite, WriteStore, Continue, Goto, End, files, drafts, world
<1>a. nextStore[c] \in StoreType
  BY DEF IInv, CallInv
<1>1. TypeOK'
  BY <1>a DEF IInv, TypeOK, Labels
<1>2. Grows
  BY DEF IInv, TypeOK, Grows
<1>3. StatusIsWarranted'
  BY <1>2, StillWarranted DEF IInv, StatusIsWarranted
<1>4. CallInv(c)'
  BY <1>2, StillWarranted DEF IInv, TypeOK, CallInv, AdminLabels
<1> QED
  BY <1>1, <1>2, <1>3, <1>4, Frame DEF IInv, TypeOK, Untouched

LEMMA PauseWriteKeeps ==
  ASSUME IInv, NEW c \in Calls, PauseWrite(c)
  PROVE  IInv'
<1> USE DEF PauseWrite, WriteStore, Continue, Goto, End, files, drafts, world
<1>a. nextStore[c] \in StoreType
  BY DEF IInv, CallInv
<1>1. TypeOK'
  BY <1>a DEF IInv, TypeOK, Labels
<1>2. Grows
  BY DEF IInv, TypeOK, Grows
<1>3. StatusIsWarranted'
  BY <1>2, StillWarranted DEF IInv, StatusIsWarranted
<1>4. CallInv(c)'
  BY <1>2, StillWarranted DEF IInv, TypeOK, CallInv, AdminLabels
<1> QED
  BY <1>1, <1>2, <1>3, <1>4, Frame DEF IInv, TypeOK, Untouched

LEMMA DisableReadKeeps ==
  ASSUME IInv, NEW c \in Calls, DisableRead(c)
  PROVE  IInv'
<1> USE DEF DisableRead, DraftStore, Continue, Goto, End, files, drafts, world
<1>a. [store EXCEPT !.policy = Null] \in StoreType
  BY StorePolicy DEF IInv
<1>1. TypeOK'
  BY <1>a DEF IInv, TypeOK, Labels
<1>2. Grows
  BY DEF IInv, TypeOK, Grows
<1>3. StatusIsWarranted'
  BY <1>2, StillWarranted DEF IInv, StatusIsWarranted
<1>4. CallInv(c)'
  BY <1>a, <1>2, StillWarranted DEF IInv, TypeOK, CallInv, AdminLabels
<1> QED
  BY <1>1, <1>2, <1>3, <1>4, Frame DEF IInv, TypeOK, Untouched

LEMMA PauseReadKeeps ==
  ASSUME IInv, NEW c \in Calls, PauseRead(c)
  PROVE  IInv'
<1> USE DEF PauseRead, DraftStore, Continue, Goto, End, files, drafts, world
<1>a. [store EXCEPT !.paused = TRUE] \in StoreType
  BY StorePolicy DEF IInv
<1>1. TypeOK'
  BY <1>a DEF IInv, TypeOK, Labels
<1>2. Grows
  BY DEF IInv, TypeOK, Grows
<1>3. StatusIsWarranted'
  BY <1>2, StillWarranted DEF IInv, StatusIsWarranted
<1>4. CallInv(c)'
  BY <1>a, <1>2, StillWarranted DEF IInv, TypeOK, CallInv, AdminLabels
<1> QED
  BY <1>1, <1>2, <1>3, <1>4, Frame DEF IInv, TypeOK, Untouched

LEMMA ThrowKeeps ==
  ASSUME IInv, NEW c \in Calls, Throw(c)
  PROVE  IInv'
<1> USE DEF Throw, InTry, Fault, DropDrafts, Continue, Goto, End, files, drafts, world
<1>1. TypeOK'
  BY ConstantsAssumption DEF IInv, TypeOK, Labels
<1>2. Grows
  BY DEF IInv, TypeOK, Grows
<1>3. StatusIsWarranted'
  BY <1>2, StillWarranted DEF IInv, StatusIsWarranted
<1>4. CallInv(c)'
  BY <1>2, StillWarranted DEF IInv, TypeOK, CallInv, AdminLabels
<1> QED
  BY <1>1, <1>2, <1>3, <1>4, Frame DEF IInv, TypeOK, Untouched

LEMMA CrashKeeps ==
  ASSUME IInv, NEW c \in Calls, Crash(c)
  PROVE  IInv'
<1> USE DEF Crash, Fault, DropDrafts, Continue, Goto, End, files, drafts, world
<1>1. TypeOK'
  BY ConstantsAssumption DEF IInv, TypeOK, Labels
<1>2. Grows
  BY DEF IInv, TypeOK, Grows
<1>3. StatusIsWarranted'
  BY <1>2, StillWarranted DEF IInv, StatusIsWarranted
<1>4. CallInv(c)'
  BY <1>2, StillWarranted DEF IInv, TypeOK, CallInv, AdminLabels
<1> QED
  BY <1>1, <1>2, <1>3, <1>4, Frame DEF IInv, TypeOK, Untouched

LEMMA SubmitElsewhereKeeps ==
  ASSUME IInv, NEW p \in Payloads, SubmitElsewhere(p)
  PROVE  IInv'
<1> USE DEF SubmitElsewhere, files, drafts
<1>1. TypeOK'
  BY DEF IInv, TypeOK
<1>2. Grows
  BY DEF IInv, TypeOK, Grows
<1>3. StatusIsWarranted'
  BY <1>2, StillWarranted DEF IInv, StatusIsWarranted
<1>4. \A c \in Calls : CallInv(c)'
  BY <1>2, CallFrame DEF IInv, Untouched
<1> QED
  BY <1>1, <1>3, <1>4 DEF IInv

LEMMA SettleKeeps ==
  ASSUME IInv, NEW p \in Payloads, Settle(p)
  PROVE  IInv'
<1> USE DEF Settle, files, drafts
<1>1. TypeOK'
  BY DEF IInv, TypeOK
<1>2. Grows
  BY DEF IInv, TypeOK, Grows
<1>3. StatusIsWarranted'
  BY <1>2, StillWarranted DEF IInv, StatusIsWarranted
<1>4. \A c \in Calls : CallInv(c)'
  BY <1>2, CallFrame DEF IInv, Untouched
<1> QED
  BY <1>1, <1>3, <1>4 DEF IInv

LEMMA DayPassesKeeps ==
  ASSUME IInv, DayPasses
  PROVE  IInv'
<1> USE DEF DayPasses, files, drafts
<1>1. TypeOK'
  BY DEF IInv, TypeOK
<1>2. Grows
  BY DEF IInv, TypeOK, Grows
<1>3. StatusIsWarranted'
  BY <1>2, StillWarranted DEF IInv, StatusIsWarranted
<1>4. \A c \in Calls : CallInv(c)'
  BY <1>2, CallFrame DEF IInv, Untouched
<1> QED
  BY <1>1, <1>3, <1>4 DEF IInv

-----------------------------------------------------------------------------
(* The invariant and the theorems.                                         *)

LEMMA InitEstablishes == Init => IInv
<1> SUFFICES ASSUME Init PROVE IInv
  OBVIOUS
<1>1. TypeOK
  BY ConstantsAssumption DEF Init, TypeOK, StoreType, OutboxType, NewPolicy, Policy, Labels
<1>2. StatusIsWarranted
  BY DEF Init, StatusIsWarranted, Warranted
<1>3. \A c \in Calls : CallInv(c)
  BY DEF Init, CallInv, AdminLabels
<1> QED
  BY <1>1, <1>2, <1>3 DEF IInv

LEMMA StartKeeps ==
  ASSUME IInv, NEW c \in Calls, Start(c)
  PROVE  IInv'
<1>1. ASSUME NEW p \in Payloads, StartOn(c, p) PROVE IInv'
  BY <1>1, StartBuildKeeps, StartDrainKeeps, StartReleaseKeeps, StartRetryKeeps,
     StartStatusKeeps, StartForgetKeeps DEF StartOn
<1>2. CASE StartEnable(c)
  BY <1>2, StartEnableKeeps
<1>3. ASSUME NEW o \in {"disable", "pause"}, StartDisable(c, o) PROVE IInv'
  BY <1>3, StartDisableKeeps
<1> QED
  BY <1>1, <1>2, <1>3 DEF Start

LEMMA NextKeeps == IInv /\ [Next]_vars => IInv'
<1> SUFFICES ASSUME IInv, [Next]_vars PROVE IInv'
  OBVIOUS
<1>1. ASSUME NEW c \in Calls, Start(c) PROVE IInv'
  BY <1>1, StartKeeps
<1>2. ASSUME NEW c \in Calls, BuildStep(c) PROVE IInv'
  BY <1>2, SignKeeps, SignRefusedKeeps, ReserveReadKeeps, ReserveWriteKeeps,
     AddReadKeeps, AddWriteKeeps DEF BuildStep
<1>3. ASSUME NEW c \in Calls, SubmitStep(c) PROVE IInv'
  BY <1>3, SubmitAcceptedKeeps, SubmitLostKeeps, SubmitRejectedKeeps, AttemptReadKeeps,
     AttemptWriteKeeps, FailReadKeeps, FailWriteKeeps DEF SubmitStep
<1>4. ASSUME NEW c \in Calls, BooksStep(c) PROVE IInv'
  BY <1>4, MoveReadKeeps, MoveWriteKeeps, AskKeeps, StatusReadKeeps, StatusWriteKeeps
     DEF BooksStep
<1>5. ASSUME NEW c \in Calls, AdminStep(c) PROVE IInv'
  BY <1>5, ForgetWriteKeeps, EnableWriteKeeps, DisableReadKeeps, DisableWriteKeeps,
     PauseReadKeeps, PauseWriteKeeps DEF AdminStep
<1>6. ASSUME NEW c \in Calls, Throw(c) \/ Crash(c) PROVE IInv'
  BY <1>6, ThrowKeeps, CrashKeeps
<1>7. ASSUME NEW p \in Payloads, SubmitElsewhere(p) \/ Settle(p) PROVE IInv'
  BY <1>7, SubmitElsewhereKeeps, SettleKeeps
<1>8. CASE DayPasses
  BY <1>8, DayPassesKeeps
<1>9. CASE UNCHANGED vars
  <2>1. TypeOK' /\ StatusIsWarranted'
    BY <1>9 DEF vars, files, world, drafts, IInv, TypeOK, StatusIsWarranted
  <2>2. \A c \in Calls : CallInv(c)'
    BY <1>9, CallFrame DEF vars, files, world, drafts, IInv, Untouched, Grows
  <2> QED
    BY <2>1, <2>2 DEF IInv
<1> QED
  BY <1>1, <1>2, <1>3, <1>4, <1>5, <1>6, <1>7, <1>8, <1>9 DEF Next

(* The inductive invariant holds.                                          *)
THEOREM Inductive == Spec => []IInv
<1> QED
  BY InitEstablishes, NextKeeps, PTL DEF Spec

(* Every variable keeps its type and no bucket goes negative.              *)
THEOREM TypeCorrect == Spec => []TypeOK
<1>1. IInv => TypeOK
  BY DEF IInv
<1> QED
  BY <1>1, Inductive, PTL

(* No interleaving, lost write, lost answer or crash makes the outbox      *)
(* claim a submission the chain never saw or a confirmation it never gave. *)
THEOREM OutboxIsWarranted == Spec => []StatusIsWarranted
<1>1. IInv => StatusIsWarranted
  BY DEF IInv
<1> QED
  BY <1>1, Inductive, PTL

-----------------------------------------------------------------------------
(* What Value sums up, for any record of what was signed.                  *)
ValueOf(signed, S) == MapThenSumSet(LAMBDA p : signed[p].amount, S)

UnfoldsValue(signed, S, g) ==
  g = [s \in SUBSET S |->
         IF s = {} THEN 0 ELSE signed[Pick(s)].amount + g[s \ {Pick(s)}]]

LEMMA ValueIsSum ==
  ASSUME NEW S, IsFiniteSet(S), NEW signed, NEW a, \A p \in S : a[p] = signed[p].amount
  PROVE  ValueOf(signed, S) = Sum(a, S)
<1>1. ValueOf(signed, S) = (CHOOSE g : UnfoldsValue(signed, S, g))[S]
  BY Zenon DEF ValueOf, MapThenSumSet, MapThenFoldSet, UnfoldsValue, Pick
<1>2. ASSUME NEW g PROVE Unfolds(a, S, g) <=> UnfoldsValue(signed, S, g)
  <2> DEFINE e(s) == IF s = {} THEN 0 ELSE a[Pick(s)] + g[s \ {Pick(s)}]
             f(s) == IF s = {} THEN 0 ELSE signed[Pick(s)].amount + g[s \ {Pick(s)}]
  <2>1. \A s \in SUBSET S : e(s) = f(s)
    BY PickIn
  <2>2. /\ Unfolds(a, S, g) <=> g = [s \in SUBSET S |-> e(s)]
        /\ UnfoldsValue(signed, S, g) <=> g = [s \in SUBSET S |-> f(s)]
    BY DEF Unfolds, UnfoldsValue
  <2> HIDE DEF e, f
  <2>3. [s \in SUBSET S |-> e(s)] = [s \in SUBSET S |-> f(s)]
    BY <2>1
  <2> QED
    BY <2>2, <2>3
<1>3. Unfolds(a, S, Fold(a, S))
  BY FoldUnfolds
<1>4. PICK h : UnfoldsValue(signed, S, h) /\ ValueOf(signed, S) = h[S]
  <2>1. \E g : UnfoldsValue(signed, S, g)
    BY <1>2, <1>3
  <2> DEFINE h == CHOOSE g : UnfoldsValue(signed, S, g)
  <2>2. UnfoldsValue(signed, S, h)
    BY <2>1
  <2>3. ValueOf(signed, S) = h[S]
    BY <1>1
  <2> QED
    BY <2>2, <2>3
<1>5. Fold(a, S)[S] = h[S]
  <2>1. Unfolds(a, S, h) /\ S \in SUBSET S
    BY <1>2, <1>4
  <2> QED
    BY <1>3, <2>1, FoldIsUnique
<1> QED
  BY <1>4, <1>5 DEF Sum

LEMMA ValueIsNow ==
  ASSUME NEW S
  PROVE  Value(S) = ValueOf(payload, S)
BY Zenon DEF Value, ValueOf

(* What the amounts of a set of payloads come to.                          *)
LEMMA ValueType ==
  ASSUME NEW S, IsFiniteSet(S), NEW signed, \A p \in S : signed[p].amount \in Nat
  PROVE  ValueOf(signed, S) \in Nat
<1> DEFINE a == [p \in S |-> signed[p].amount]
<1>1. ValueOf(signed, S) = Sum(a, S)
  BY ValueIsSum
<1>2. \A p \in S : a[p] \in Nat
  OBVIOUS
<1> HIDE DEF a
<1> QED
  BY <1>1, <1>2, SumType

LEMMA ValueOfNone ==
  ASSUME NEW signed
  PROVE  ValueOf(signed, {}) = 0
BY ValueIsSum, SumIs, FS_EmptySet

LEMMA ValueSame ==
  ASSUME NEW S, IsFiniteSet(S), NEW signed, NEW other, \A p \in S : signed[p] = other[p]
  PROVE  ValueOf(signed, S) = ValueOf(other, S)
<1> DEFINE a == [p \in S |-> signed[p].amount]
<1>1. ValueOf(signed, S) = Sum(a, S) /\ ValueOf(other, S) = Sum(a, S)
  BY ValueIsSum
<1> QED
  BY <1>1

LEMMA ValueAdds ==
  ASSUME NEW S, IsFiniteSet(S), NEW p, p \notin S, NEW signed,
         \A q \in S \cup {p} : signed[q].amount \in Nat
  PROVE  ValueOf(signed, S \cup {p}) = signed[p].amount + ValueOf(signed, S)
<1> DEFINE a == [q \in S \cup {p} |-> signed[q].amount]
<1>1. IsFiniteSet(S \cup {p})
  BY FS_AddElement
<1>2. /\ \A q \in S \cup {p} : a[q] \in Nat /\ a[q] = signed[q].amount
      /\ a[p] = signed[p].amount
  OBVIOUS
<1> HIDE DEF a
<1>3. ValueOf(signed, S \cup {p}) = Sum(a, S \cup {p})
  BY <1>1, <1>2, ValueIsSum
<1>4. ValueOf(signed, S) = Sum(a, S)
  BY <1>2, ValueIsSum
<1>5. Sum(a, S \cup {p}) = a[p] + Sum(a, S)
  BY <1>2, SumAdds
<1> QED
  BY <1>2, <1>3, <1>4, <1>5

LEMMA ValueParts ==
  ASSUME NEW S, IsFiniteSet(S), NEW T \in SUBSET S, NEW signed,
         \A q \in S : signed[q].amount \in Nat
  PROVE  /\ ValueOf(signed, S) = ValueOf(signed, T) + ValueOf(signed, S \ T)
         /\ ValueOf(signed, T) <= ValueOf(signed, S)
<1> DEFINE a == [q \in S |-> signed[q].amount]
<1>1. IsFiniteSet(T) /\ IsFiniteSet(S \ T)
  BY FS_Subset
<1>2. \A q \in S : a[q] \in Nat /\ a[q] = signed[q].amount
  OBVIOUS
<1> HIDE DEF a
<1>3. /\ ValueOf(signed, S) = Sum(a, S)
      /\ ValueOf(signed, T) = Sum(a, T)
      /\ ValueOf(signed, S \ T) = Sum(a, S \ T)
  BY <1>1, <1>2, ValueIsSum
<1>4. Sum(a, S) = Sum(a, T) + Sum(a, S \ T) /\ Sum(a, T) <= Sum(a, S)
  BY <1>2, SumUnion, SumGrows
<1> QED
  BY <1>3, <1>4

-----------------------------------------------------------------------------
(* One call at a time, the outbox is as the caller found it or left it.    *)

(* In a plan of one call at a time, what an action has to show.            *)
OneCall ==
  /\ PlanIInv /\ Sequential /\ Caller \in Calls
  /\ IInv' /\ InPlan' /\ plan' = plan

LEMMA OneCallFacts ==
  ASSUME OneCall
  PROVE  /\ pc[Caller] # "idle" => FoundOrLeft(Caller) /\ OutboxDrafted(Caller)
         /\ EntriesFollow
         /\ TypeOK /\ CallInv(Caller) /\ StatusIsWarranted
         /\ Caller \in Calls
         /\ OneByOne'
<1>1. OneByOne'
  BY DEF OneCall, InPlan, Sequential
<1> QED
  BY <1>1 DEF OneCall, PlanIInv, Sequential, SequentialInv, Busy, IInv

LEMMA SequentialNext ==
  ASSUME OneCall, EntriesFollow',
         pc'[Caller] # "idle" => FoundOrLeft(Caller)',
         pc'[Caller] # "idle" => OutboxDrafted(Caller)'
  PROVE  SequentialInv'
<1>1. (Busy \subseteq {Caller})'
  BY OneCallFacts DEF OneByOne
<1>2. (\A c \in Busy : FoundOrLeft(c) /\ OutboxDrafted(c))'
  BY <1>1 DEF Busy
<1> QED
  BY <1>1, <1>2 DEF SequentialInv

LEMMA EntryNotNull ==
  /\ NewEntry # Null
  /\ \A s \in Statuses : [status |-> s, hashed |-> TRUE] # Null /\ [status |-> s, hashed |-> FALSE] # Null
<1> SUFFICES ASSUME NEW s \in Statuses
             PROVE  [status |-> s, hashed |-> TRUE] # Null /\ [status |-> s, hashed |-> FALSE] # Null
  BY DEF NewEntry, Statuses
<1>2. [status |-> s, hashed |-> TRUE] \in [status : Statuses, hashed : BOOLEAN]
  OBVIOUS
<1>3. [status |-> s, hashed |-> FALSE] \in [status : Statuses, hashed : BOOLEAN]
  OBVIOUS
<1> QED
  BY <1>2, <1>3, NullAssumption

LEMMA StartBuildInTurn ==
  ASSUME OneCall, NEW p \in Payloads, NEW amount \in Amounts, NEW lowValue \in BOOLEAN, StartBuild(Caller, p, amount, lowValue)
  PROVE  SequentialInv'
<1> USE OneCallFacts DEF StartBuild, Begin, Goto, Task, files, drafts, world, Fresh
<1>1. EntriesFollow'
  BY DEF EntriesFollow, TypeOK
<1>2. pc'[Caller] # "idle" => FoundOrLeft(Caller)'
  BY DEF TypeOK, FoundOrLeft, Status, CallInv, AdminLabels, StatusIsWarranted, Warranted, EntriesFollow, OneByOne, Busy, NewEntry, OutboxType, Moves
<1>3. pc'[Caller] # "idle" => OutboxDrafted(Caller)'
  BY DEF OutboxDrafted, TypeOK
<1> QED
  BY <1>1, <1>2, <1>3, SequentialNext

LEMMA StartDrainInTurn ==
  ASSUME OneCall, NEW p \in Payloads, NEW amount \in Amounts, StartDrain(Caller, p, amount)
  PROVE  SequentialInv'
<1> USE OneCallFacts DEF StartDrain, Begin, Goto, Task, files, drafts, world, Fresh
<1>1. EntriesFollow'
  BY DEF EntriesFollow, TypeOK
<1>2. pc'[Caller] # "idle" => FoundOrLeft(Caller)'
  BY DEF TypeOK, FoundOrLeft, Status, CallInv, AdminLabels, StatusIsWarranted, Warranted, EntriesFollow, OneByOne, Busy, NewEntry, OutboxType, Moves
<1>3. pc'[Caller] # "idle" => OutboxDrafted(Caller)'
  BY DEF OutboxDrafted, TypeOK
<1> QED
  BY <1>1, <1>2, <1>3, SequentialNext

LEMMA StartRetryInTurn ==
  ASSUME OneCall, NEW p \in Payloads, StartRetry(Caller, p)
  PROVE  SequentialInv'
<1> USE OneCallFacts DEF StartRetry, Begin, Goto, Task, files, drafts, world, TaskOn
<1>1. EntriesFollow'
  BY DEF EntriesFollow, TypeOK
<1>2. pc'[Caller] # "idle" => FoundOrLeft(Caller)'
  BY DEF TypeOK, FoundOrLeft, Status, CallInv, AdminLabels, StatusIsWarranted, Warranted, EntriesFollow, OneByOne, Busy, NewEntry, OutboxType, Moves
<1>3. pc'[Caller] # "idle" => OutboxDrafted(Caller)'
  BY DEF OutboxDrafted, TypeOK
<1> QED
  BY <1>1, <1>2, <1>3, SequentialNext

LEMMA StartReleaseInTurn ==
  ASSUME OneCall, NEW p \in Payloads, NEW target \in ReleaseTargets, StartRelease(Caller, p, target)
  PROVE  SequentialInv'
<1> USE OneCallFacts DEF StartRelease, Begin, Goto, Task, files, drafts, world, TaskOn
<1>1. EntriesFollow'
  BY DEF EntriesFollow, TypeOK
<1>2. pc'[Caller] # "idle" => FoundOrLeft(Caller)'
  BY DEF TypeOK, FoundOrLeft, Status, CallInv, AdminLabels, StatusIsWarranted, Warranted, EntriesFollow, OneByOne, Busy, NewEntry, OutboxType, Moves
<1>3. pc'[Caller] # "idle" => OutboxDrafted(Caller)'
  BY DEF OutboxDrafted, TypeOK
<1> QED
  BY <1>1, <1>2, <1>3, SequentialNext

LEMMA StartStatusInTurn ==
  ASSUME OneCall, NEW p \in Payloads, StartStatus(Caller, p)
  PROVE  SequentialInv'
<1> USE OneCallFacts DEF StartStatus, Begin, Goto, Task, files, drafts, world, TaskOn
<1>1. EntriesFollow'
  BY DEF EntriesFollow, TypeOK
<1>2. pc'[Caller] # "idle" => FoundOrLeft(Caller)'
  BY DEF TypeOK, FoundOrLeft, Status, CallInv, AdminLabels, StatusIsWarranted, Warranted, EntriesFollow, OneByOne, Busy, NewEntry, OutboxType, Moves
<1>3. pc'[Caller] # "idle" => OutboxDrafted(Caller)'
  BY DEF OutboxDrafted, TypeOK
<1> QED
  BY <1>1, <1>2, <1>3, SequentialNext

LEMMA StartForgetInTurn ==
  ASSUME OneCall, NEW p \in Payloads, StartForget(Caller, p)
  PROVE  SequentialInv'
<1> USE OneCallFacts DEF StartForget, Begin, Goto, Task, files, drafts, world, TaskOn
<1>1. EntriesFollow'
  BY DEF EntriesFollow, TypeOK
<1>2. pc'[Caller] # "idle" => FoundOrLeft(Caller)'
  BY DEF TypeOK, FoundOrLeft, Status, CallInv, AdminLabels, StatusIsWarranted, Warranted, EntriesFollow, OneByOne, Busy, NewEntry, OutboxType, Moves
<1>3. pc'[Caller] # "idle" => OutboxDrafted(Caller)'
  BY DEF OutboxDrafted, TypeOK
<1> QED
  BY <1>1, <1>2, <1>3, SequentialNext

LEMMA StartEnableInTurn ==
  ASSUME OneCall, StartEnable(Caller)
  PROVE  SequentialInv'
<1> USE OneCallFacts DEF StartEnable, Begin, Goto, Task, files, drafts, world, AdminTask
<1>1. EntriesFollow'
  BY DEF EntriesFollow, TypeOK
<1>2. pc'[Caller] # "idle" => FoundOrLeft(Caller)'
  BY DEF TypeOK, FoundOrLeft, Status, CallInv, AdminLabels, StatusIsWarranted, Warranted, EntriesFollow, OneByOne, Busy, NewEntry, OutboxType, Moves
<1>3. pc'[Caller] # "idle" => OutboxDrafted(Caller)'
  BY DEF OutboxDrafted, TypeOK
<1> QED
  BY <1>1, <1>2, <1>3, SequentialNext

LEMMA StartDisableInTurn ==
  ASSUME OneCall, NEW o \in {"disable", "pause"}, StartDisable(Caller, o)
  PROVE  SequentialInv'
<1> USE OneCallFacts DEF StartDisable, Begin, Goto, Task, files, drafts, world, AdminTask
<1>1. EntriesFollow'
  BY DEF EntriesFollow, TypeOK
<1>2. pc'[Caller] # "idle" => FoundOrLeft(Caller)'
  BY DEF TypeOK, FoundOrLeft, Status, CallInv, AdminLabels, StatusIsWarranted, Warranted, EntriesFollow, OneByOne, Busy, NewEntry, OutboxType, Moves
<1>3. pc'[Caller] # "idle" => OutboxDrafted(Caller)'
  BY DEF OutboxDrafted, TypeOK
<1> QED
  BY <1>1, <1>2, <1>3, SequentialNext

LEMMA SignInTurn ==
  ASSUME OneCall, Sign(Caller)
  PROVE  SequentialInv'
<1> USE OneCallFacts DEF Sign, Continue, Goto, End, files, drafts, world
<1>1. EntriesFollow'
  BY DEF EntriesFollow, TypeOK
<1>2. pc'[Caller] # "idle" => FoundOrLeft(Caller)'
  BY DEF TypeOK, FoundOrLeft, Status, CallInv, AdminLabels, StatusIsWarranted, Warranted, EntriesFollow, OneByOne, Busy, NewEntry, OutboxType, Moves
<1>3. pc'[Caller] # "idle" => OutboxDrafted(Caller)'
  BY DEF OutboxDrafted, TypeOK
<1> QED
  BY <1>1, <1>2, <1>3, SequentialNext

LEMMA SignRefusedInTurn ==
  ASSUME OneCall, SignRefused(Caller)
  PROVE  SequentialInv'
<1> USE OneCallFacts DEF SignRefused, Continue, Goto, End, files, drafts, world
<1>1. EntriesFollow'
  BY DEF EntriesFollow, TypeOK
<1>2. pc'[Caller] # "idle" => FoundOrLeft(Caller)'
  BY DEF TypeOK, FoundOrLeft, Status, CallInv, AdminLabels, StatusIsWarranted, Warranted, EntriesFollow, OneByOne, Busy, NewEntry, OutboxType, Moves
<1>3. pc'[Caller] # "idle" => OutboxDrafted(Caller)'
  BY DEF OutboxDrafted, TypeOK
<1> QED
  BY <1>1, <1>2, <1>3, SequentialNext

LEMMA ReserveReadInTurn ==
  ASSUME OneCall, ReserveRead(Caller)
  PROVE  SequentialInv'
<1> USE OneCallFacts DEF ReserveRead, Continue, Goto, End, files, drafts, world, DraftStore
<1>1. EntriesFollow'
  BY DEF EntriesFollow, TypeOK
<1>2. pc'[Caller] # "idle" => FoundOrLeft(Caller)'
  BY DEF TypeOK, FoundOrLeft, Status, CallInv, AdminLabels, StatusIsWarranted, Warranted, EntriesFollow, OneByOne, Busy, NewEntry, OutboxType, Moves
<1>3. pc'[Caller] # "idle" => OutboxDrafted(Caller)'
  BY DEF OutboxDrafted, TypeOK
<1> QED
  BY <1>1, <1>2, <1>3, SequentialNext

LEMMA ReserveWriteInTurn ==
  ASSUME OneCall, ReserveWrite(Caller)
  PROVE  SequentialInv'
<1> USE OneCallFacts DEF ReserveWrite, Continue, Goto, End, files, drafts, world, WriteStore
<1>1. EntriesFollow'
  BY DEF EntriesFollow, TypeOK
<1>2. pc'[Caller] # "idle" => FoundOrLeft(Caller)'
  BY DEF TypeOK, FoundOrLeft, Status, CallInv, AdminLabels, StatusIsWarranted, Warranted, EntriesFollow, OneByOne, Busy, NewEntry, OutboxType, Moves
<1>3. pc'[Caller] # "idle" => OutboxDrafted(Caller)'
  BY DEF OutboxDrafted, TypeOK
<1> QED
  BY <1>1, <1>2, <1>3, SequentialNext

LEMMA AddReadInTurn ==
  ASSUME OneCall, AddRead(Caller)
  PROVE  SequentialInv'
<1> USE OneCallFacts DEF AddRead, Continue, Goto, End, files, drafts, world, DraftOutbox
<1>1. EntriesFollow'
  BY DEF EntriesFollow, TypeOK
<1>2. pc'[Caller] # "idle" => FoundOrLeft(Caller)'
  BY DEF TypeOK, FoundOrLeft, Status, CallInv, AdminLabels, StatusIsWarranted, Warranted, EntriesFollow, OneByOne, Busy, NewEntry, OutboxType, Moves
<1>3. pc'[Caller] # "idle" => OutboxDrafted(Caller)'
  BY DEF OutboxDrafted, TypeOK
<1> QED
  BY <1>1, <1>2, <1>3, SequentialNext

LEMMA AddWriteInTurn ==
  ASSUME OneCall, AddWrite(Caller)
  PROVE  SequentialInv'
<1> USE OneCallFacts DEF AddWrite, Continue, Goto, End, files, drafts, world, WriteOutbox, AfterTransfer
<1>t. task[Caller] \in TaskType /\ task[Caller].id \in Payloads
  BY DEF CallInv, AdminLabels
<1>b. /\ \A q \in Payloads : q # task[Caller].id => outbox'[q] = outbox[q]
      /\ outbox'[task[Caller].id] = NewEntry
  BY <1>t DEF OutboxDrafted, TypeOK, OutboxType
<1>0. \A p \in Payloads : p = task[Caller].id => Status(p)' = "signed"
  BY <1>b, <1>t, EntryNotNull DEF Status, NewEntry, Statuses, TaskType
<1>1. EntriesFollow'
  BY <1>t, <1>b, <1>0 DEF EntriesFollow, TypeOK, OutboxDrafted, OutboxType, CallInv, AdminLabels, NewEntry
<1>2. pc'[Caller] # "idle" => FoundOrLeft(Caller)'
  BY <1>t, <1>b, <1>0 DEF TypeOK, FoundOrLeft, Status, CallInv, AdminLabels, StatusIsWarranted, Warranted, EntriesFollow, OneByOne, Busy, NewEntry, OutboxType, OutboxDrafted, Moves
<1>3. pc'[Caller] # "idle" => OutboxDrafted(Caller)'
  BY <1>t, <1>b, <1>0 DEF OutboxDrafted, TypeOK
<1> QED
  BY <1>1, <1>2, <1>3, SequentialNext

LEMMA SubmitAcceptedInTurn ==
  ASSUME OneCall, SubmitAccepted(Caller)
  PROVE  SequentialInv'
<1> USE OneCallFacts DEF SubmitAccepted, Continue, Goto, End, files, drafts, world, Pending
<1>1. EntriesFollow'
  BY DEF EntriesFollow, TypeOK
<1>2. pc'[Caller] # "idle" => FoundOrLeft(Caller)'
  BY DEF TypeOK, FoundOrLeft, Status, CallInv, AdminLabels, StatusIsWarranted, Warranted, EntriesFollow, OneByOne, Busy, NewEntry, OutboxType, Moves
<1>3. pc'[Caller] # "idle" => OutboxDrafted(Caller)'
  BY DEF OutboxDrafted, TypeOK
<1> QED
  BY <1>1, <1>2, <1>3, SequentialNext

LEMMA SubmitLostInTurn ==
  ASSUME OneCall, SubmitLost(Caller)
  PROVE  SequentialInv'
<1> USE OneCallFacts DEF SubmitLost, Continue, Goto, End, files, drafts, world, Pending
<1>t. task[Caller] \in TaskType /\ task[Caller].id \in Payloads
  BY DEF CallInv, AdminLabels
<1>0. outbox[task[Caller].id] # Null
  BY <1>t DEF FoundOrLeft, Status, TaskType, Statuses
<1>1. EntriesFollow'
  BY <1>t, <1>0 DEF EntriesFollow, TypeOK
<1>2. pc'[Caller] # "idle" => FoundOrLeft(Caller)'
  BY <1>t, <1>0 DEF TypeOK, FoundOrLeft, Status, CallInv, AdminLabels, StatusIsWarranted, Warranted, EntriesFollow, OneByOne, Busy, NewEntry, OutboxType, Moves
<1>3. pc'[Caller] # "idle" => OutboxDrafted(Caller)'
  BY <1>t, <1>0 DEF OutboxDrafted, TypeOK
<1> QED
  BY <1>1, <1>2, <1>3, SequentialNext

LEMMA SubmitRejectedInTurn ==
  ASSUME OneCall, SubmitRejected(Caller)
  PROVE  SequentialInv'
<1> USE OneCallFacts DEF SubmitRejected, Continue, Goto, End, files, drafts, world
<1>t. task[Caller] \in TaskType /\ task[Caller].id \in Payloads
  BY DEF CallInv, AdminLabels
<1>0. outbox[task[Caller].id] # Null
  BY <1>t DEF FoundOrLeft, Status, TaskType, Statuses
<1>1. EntriesFollow'
  BY <1>t, <1>0 DEF EntriesFollow, TypeOK
<1>2. pc'[Caller] # "idle" => FoundOrLeft(Caller)'
  BY <1>t, <1>0 DEF TypeOK, FoundOrLeft, Status, CallInv, AdminLabels, StatusIsWarranted, Warranted, EntriesFollow, OneByOne, Busy, NewEntry, OutboxType, Moves
<1>3. pc'[Caller] # "idle" => OutboxDrafted(Caller)'
  BY <1>t, <1>0 DEF OutboxDrafted, TypeOK
<1> QED
  BY <1>1, <1>2, <1>3, SequentialNext

LEMMA AttemptReadInTurn ==
  ASSUME OneCall, AttemptRead(Caller)
  PROVE  SequentialInv'
<1> USE OneCallFacts DEF AttemptRead, Continue, Goto, End, files, drafts, world, DraftOutbox
<1>t. task[Caller] \in TaskType /\ task[Caller].id \in Payloads
  BY DEF CallInv, AdminLabels
<1>0. outbox[task[Caller].id] # Null
  BY <1>t DEF FoundOrLeft, Status, TaskType, Statuses
<1>1. EntriesFollow'
  BY <1>t, <1>0 DEF EntriesFollow, TypeOK
<1>2. pc'[Caller] # "idle" => FoundOrLeft(Caller)'
  BY <1>t, <1>0 DEF TypeOK, FoundOrLeft, Status, CallInv, AdminLabels, StatusIsWarranted, Warranted, EntriesFollow, OneByOne, Busy, NewEntry, OutboxType, Moves
<1>3. pc'[Caller] # "idle" => OutboxDrafted(Caller)'
  BY <1>t, <1>0 DEF OutboxDrafted, TypeOK
<1> QED
  BY <1>1, <1>2, <1>3, SequentialNext

LEMMA AttemptWriteInTurn ==
  ASSUME OneCall, AttemptWrite(Caller)
  PROVE  SequentialInv'
<1> USE OneCallFacts DEF AttemptWrite, Continue, Goto, End, files, drafts, world, WriteOutbox, AfterTransfer, Moves
<1>t. task[Caller] \in TaskType /\ task[Caller].id \in Payloads
  BY DEF CallInv, AdminLabels
<1>b. /\ \A q \in Payloads : q # task[Caller].id => outbox'[q] = outbox[q]
      /\ outbox'[task[Caller].id] = [status |-> "submitted", hashed |-> TRUE]
  BY <1>t DEF OutboxDrafted, TypeOK, OutboxType
<1>0. \A p \in Payloads : p = task[Caller].id => Status(p)' = "submitted"
  BY <1>b, <1>t, EntryNotNull DEF Status, NewEntry, Statuses, TaskType
<1>1. EntriesFollow'
  BY <1>t, <1>b, <1>0 DEF EntriesFollow, TypeOK, OutboxDrafted, OutboxType, CallInv, AdminLabels, NewEntry
<1>2. pc'[Caller] # "idle" => FoundOrLeft(Caller)'
  BY <1>t, <1>b, <1>0 DEF TypeOK, FoundOrLeft, Status, CallInv, AdminLabels, StatusIsWarranted, Warranted, EntriesFollow, OneByOne, Busy, NewEntry, OutboxType, OutboxDrafted
<1>3. pc'[Caller] # "idle" => OutboxDrafted(Caller)'
  BY <1>t, <1>b, <1>0 DEF OutboxDrafted, TypeOK
<1> QED
  BY <1>1, <1>2, <1>3, SequentialNext

LEMMA FailReadInTurn ==
  ASSUME OneCall, FailRead(Caller)
  PROVE  SequentialInv'
<1> USE OneCallFacts DEF FailRead, Continue, Goto, End, files, drafts, world, DraftOutbox
<1>1. EntriesFollow'
  BY DEF EntriesFollow, TypeOK
<1>2. pc'[Caller] # "idle" => FoundOrLeft(Caller)'
  BY DEF TypeOK, FoundOrLeft, Status, CallInv, AdminLabels, StatusIsWarranted, Warranted, EntriesFollow, OneByOne, Busy, NewEntry, OutboxType, Moves
<1>3. pc'[Caller] # "idle" => OutboxDrafted(Caller)'
  BY DEF OutboxDrafted, TypeOK
<1> QED
  BY <1>1, <1>2, <1>3, SequentialNext

LEMMA FailWriteInTurn ==
  ASSUME OneCall, FailWrite(Caller)
  PROVE  SequentialInv'
<1> USE OneCallFacts DEF FailWrite, Continue, Goto, End, files, drafts, world, WriteOutbox, AfterTransfer
<1>1. EntriesFollow'
  BY DEF EntriesFollow, TypeOK, OutboxDrafted, OutboxType, CallInv, AdminLabels, NewEntry
<1>2. pc'[Caller] # "idle" => FoundOrLeft(Caller)'
  BY DEF TypeOK, FoundOrLeft, Status, CallInv, AdminLabels, StatusIsWarranted, Warranted, EntriesFollow, OneByOne, Busy, NewEntry, OutboxType, OutboxDrafted, Moves
<1>3. pc'[Caller] # "idle" => OutboxDrafted(Caller)'
  BY DEF OutboxDrafted, TypeOK
<1> QED
  BY <1>1, <1>2, <1>3, SequentialNext

LEMMA MoveReadInTurn ==
  ASSUME OneCall, MoveRead(Caller)
  PROVE  SequentialInv'
<1> USE OneCallFacts DEF MoveRead, Continue, Goto, End, files, drafts, world, DraftStore, AfterMove, AfterTransfer, Moves
<1>1. EntriesFollow'
  BY DEF EntriesFollow, TypeOK
<1>2. pc'[Caller] # "idle" => FoundOrLeft(Caller)'
  BY DEF TypeOK, FoundOrLeft, Status, CallInv, AdminLabels, StatusIsWarranted, Warranted, EntriesFollow, OneByOne, Busy, NewEntry, OutboxType
<1>3. pc'[Caller] # "idle" => OutboxDrafted(Caller)'
  BY DEF OutboxDrafted, TypeOK
<1> QED
  BY <1>1, <1>2, <1>3, SequentialNext

LEMMA MoveWriteInTurn ==
  ASSUME OneCall, MoveWrite(Caller)
  PROVE  SequentialInv'
<1> USE OneCallFacts DEF MoveWrite, Continue, Goto, End, files, drafts, world, WriteStore, AfterMove, AfterTransfer, Moves
<1>1. EntriesFollow'
  BY DEF EntriesFollow, TypeOK
<1>2. pc'[Caller] # "idle" => FoundOrLeft(Caller)'
  BY DEF TypeOK, FoundOrLeft, Status, CallInv, AdminLabels, StatusIsWarranted, Warranted, EntriesFollow, OneByOne, Busy, NewEntry, OutboxType
<1>3. pc'[Caller] # "idle" => OutboxDrafted(Caller)'
  BY DEF OutboxDrafted, TypeOK
<1> QED
  BY <1>1, <1>2, <1>3, SequentialNext

LEMMA StatusReadInTurn ==
  ASSUME OneCall, StatusRead(Caller)
  PROVE  SequentialInv'
<1> USE OneCallFacts DEF StatusRead, Continue, Goto, End, files, drafts, world, DraftOutbox
<1>t. task[Caller] \in TaskType /\ task[Caller].id \in Payloads
  BY DEF CallInv, AdminLabels
<1>0. outbox[task[Caller].id] # Null
  BY <1>t DEF FoundOrLeft, Status, TaskType, Statuses
<1>1. EntriesFollow'
  BY <1>t, <1>0 DEF EntriesFollow, TypeOK
<1>2. pc'[Caller] # "idle" => FoundOrLeft(Caller)'
  BY <1>t, <1>0 DEF TypeOK, FoundOrLeft, Status, CallInv, AdminLabels, StatusIsWarranted, Warranted, EntriesFollow, OneByOne, Busy, NewEntry, OutboxType, Moves
<1>3. pc'[Caller] # "idle" => OutboxDrafted(Caller)'
  BY <1>t, <1>0 DEF OutboxDrafted, TypeOK
<1> QED
  BY <1>1, <1>2, <1>3, SequentialNext

LEMMA StatusWriteInTurn ==
  ASSUME OneCall, StatusWrite(Caller)
  PROVE  SequentialInv'
<1> USE OneCallFacts DEF StatusWrite, Continue, Goto, End, files, drafts, world, WriteOutbox, Moves
<1>t. task[Caller] \in TaskType /\ task[Caller].id \in Payloads
  BY DEF CallInv, AdminLabels
<1>0. outbox[task[Caller].id] # Null
  BY <1>t DEF FoundOrLeft, Status, TaskType, Statuses
<1>b. /\ \A q \in Payloads : q # task[Caller].id => outbox'[q] = outbox[q]
      /\ outbox'[task[Caller].id] =
           [status |-> task[Caller].to,
            hashed |-> outbox[task[Caller].id].hashed \/ task[Caller].op = "status"]
  BY <1>t DEF OutboxDrafted, TypeOK, OutboxType
<1>c. outbox[task[Caller].id].hashed \in BOOLEAN
  BY <1>0, <1>t DEF TypeOK, OutboxType
<1>e. \/ outbox'[task[Caller].id] = [status |-> task[Caller].to, hashed |-> TRUE]
      \/ /\ outbox'[task[Caller].id] = [status |-> task[Caller].to, hashed |-> FALSE]
         /\ ~outbox[task[Caller].id].hashed /\ task[Caller].op # "status"
  BY <1>b, <1>c
<1>d. \A p \in Payloads : p = task[Caller].id => Status(p)' = task[Caller].to
  BY <1>e, <1>t, EntryNotNull DEF Status, Statuses, TaskType
<1>1. EntriesFollow'
  BY <1>t, <1>0, <1>b, <1>e, <1>d DEF EntriesFollow, TypeOK, OutboxDrafted, OutboxType, CallInv, AdminLabels, NewEntry, FoundOrLeft, Status
<1>2. pc'[Caller] # "idle" => FoundOrLeft(Caller)'
  BY <1>t, <1>0, <1>b, <1>e, <1>d DEF TypeOK, FoundOrLeft, Status, CallInv, AdminLabels, StatusIsWarranted, Warranted, EntriesFollow, OneByOne, Busy, NewEntry, OutboxType, OutboxDrafted
<1>3. pc'[Caller] # "idle" => OutboxDrafted(Caller)'
  BY <1>t, <1>0, <1>b, <1>e, <1>d DEF OutboxDrafted, TypeOK
<1> QED
  BY <1>1, <1>2, <1>3, SequentialNext

LEMMA ForgetWriteInTurn ==
  ASSUME OneCall, ForgetWrite(Caller)
  PROVE  SequentialInv'
<1> USE OneCallFacts DEF ForgetWrite, Continue, Goto, End, files, drafts, world, WriteOutbox
<1>1. EntriesFollow'
  BY DEF EntriesFollow, TypeOK, OutboxDrafted, OutboxType, CallInv, AdminLabels, NewEntry
<1>2. pc'[Caller] # "idle" => FoundOrLeft(Caller)'
  BY DEF TypeOK, FoundOrLeft, Status, CallInv, AdminLabels, StatusIsWarranted, Warranted, EntriesFollow, OneByOne, Busy, NewEntry, OutboxType, OutboxDrafted, Moves
<1>3. pc'[Caller] # "idle" => OutboxDrafted(Caller)'
  BY DEF OutboxDrafted, TypeOK
<1> QED
  BY <1>1, <1>2, <1>3, SequentialNext

LEMMA EnableWriteInTurn ==
  ASSUME OneCall, EnableWrite(Caller)
  PROVE  SequentialInv'
<1> USE OneCallFacts DEF EnableWrite, Continue, Goto, End, files, drafts, world, WriteStore
<1>1. EntriesFollow'
  BY DEF EntriesFollow, TypeOK
<1>2. pc'[Caller] # "idle" => FoundOrLeft(Caller)'
  BY DEF TypeOK, FoundOrLeft, Status, CallInv, AdminLabels, StatusIsWarranted, Warranted, EntriesFollow, OneByOne, Busy, NewEntry, OutboxType, Moves
<1>3. pc'[Caller] # "idle" => OutboxDrafted(Caller)'
  BY DEF OutboxDrafted, TypeOK
<1> QED
  BY <1>1, <1>2, <1>3, SequentialNext

LEMMA DisableReadInTurn ==
  ASSUME OneCall, DisableRead(Caller)
  PROVE  SequentialInv'
<1> USE OneCallFacts DEF DisableRead, Continue, Goto, End, files, drafts, world, DraftStore
<1>1. EntriesFollow'
  BY DEF EntriesFollow, TypeOK
<1>2. pc'[Caller] # "idle" => FoundOrLeft(Caller)'
  BY DEF TypeOK, FoundOrLeft, Status, CallInv, AdminLabels, StatusIsWarranted, Warranted, EntriesFollow, OneByOne, Busy, NewEntry, OutboxType, Moves
<1>3. pc'[Caller] # "idle" => OutboxDrafted(Caller)'
  BY DEF OutboxDrafted, TypeOK
<1> QED
  BY <1>1, <1>2, <1>3, SequentialNext

LEMMA DisableWriteInTurn ==
  ASSUME OneCall, DisableWrite(Caller)
  PROVE  SequentialInv'
<1> USE OneCallFacts DEF DisableWrite, Continue, Goto, End, files, drafts, world, WriteStore
<1>1. EntriesFollow'
  BY DEF EntriesFollow, TypeOK
<1>2. pc'[Caller] # "idle" => FoundOrLeft(Caller)'
  BY DEF TypeOK, FoundOrLeft, Status, CallInv, AdminLabels, StatusIsWarranted, Warranted, EntriesFollow, OneByOne, Busy, NewEntry, OutboxType, Moves
<1>3. pc'[Caller] # "idle" => OutboxDrafted(Caller)'
  BY DEF OutboxDrafted, TypeOK
<1> QED
  BY <1>1, <1>2, <1>3, SequentialNext

LEMMA PauseReadInTurn ==
  ASSUME OneCall, PauseRead(Caller)
  PROVE  SequentialInv'
<1> USE OneCallFacts DEF PauseRead, Continue, Goto, End, files, drafts, world, DraftStore
<1>1. EntriesFollow'
  BY DEF EntriesFollow, TypeOK
<1>2. pc'[Caller] # "idle" => FoundOrLeft(Caller)'
  BY DEF TypeOK, FoundOrLeft, Status, CallInv, AdminLabels, StatusIsWarranted, Warranted, EntriesFollow, OneByOne, Busy, NewEntry, OutboxType, Moves
<1>3. pc'[Caller] # "idle" => OutboxDrafted(Caller)'
  BY DEF OutboxDrafted, TypeOK
<1> QED
  BY <1>1, <1>2, <1>3, SequentialNext

LEMMA PauseWriteInTurn ==
  ASSUME OneCall, PauseWrite(Caller)
  PROVE  SequentialInv'
<1> USE OneCallFacts DEF PauseWrite, Continue, Goto, End, files, drafts, world, WriteStore
<1>1. EntriesFollow'
  BY DEF EntriesFollow, TypeOK
<1>2. pc'[Caller] # "idle" => FoundOrLeft(Caller)'
  BY DEF TypeOK, FoundOrLeft, Status, CallInv, AdminLabels, StatusIsWarranted, Warranted, EntriesFollow, OneByOne, Busy, NewEntry, OutboxType, Moves
<1>3. pc'[Caller] # "idle" => OutboxDrafted(Caller)'
  BY DEF OutboxDrafted, TypeOK
<1> QED
  BY <1>1, <1>2, <1>3, SequentialNext

LEMMA ThrowInTurn ==
  ASSUME OneCall, Throw(Caller)
  PROVE  SequentialInv'
<1> USE OneCallFacts DEF Throw, Continue, Goto, End, files, drafts, world, InTry, Fault, DropDrafts
<1>t. task[Caller] \in TaskType /\ task[Caller].id \in Payloads
  BY DEF CallInv, AdminLabels
<1>0. outbox[task[Caller].id] # Null
  BY <1>t DEF FoundOrLeft, Status, TaskType, Statuses
<1>1. EntriesFollow'
  BY <1>t, <1>0 DEF EntriesFollow, TypeOK
<1>2. pc'[Caller] # "idle" => FoundOrLeft(Caller)'
  BY <1>t, <1>0 DEF TypeOK, FoundOrLeft, Status, CallInv, AdminLabels, StatusIsWarranted, Warranted, EntriesFollow, OneByOne, Busy, NewEntry, OutboxType, Moves
<1>3. pc'[Caller] # "idle" => OutboxDrafted(Caller)'
  BY <1>t, <1>0 DEF OutboxDrafted, TypeOK
<1> QED
  BY <1>1, <1>2, <1>3, SequentialNext

LEMMA CrashInTurn ==
  ASSUME OneCall, Crash(Caller)
  PROVE  SequentialInv'
<1> USE OneCallFacts DEF Crash, Continue, Goto, End, files, drafts, world, Fault, DropDrafts
<1>1. EntriesFollow'
  BY DEF EntriesFollow, TypeOK
<1>2. pc'[Caller] # "idle" => FoundOrLeft(Caller)'
  BY DEF TypeOK, FoundOrLeft, Status, CallInv, AdminLabels, StatusIsWarranted, Warranted, EntriesFollow, OneByOne, Busy, NewEntry, OutboxType, Moves
<1>3. pc'[Caller] # "idle" => OutboxDrafted(Caller)'
  BY DEF OutboxDrafted, TypeOK
<1> QED
  BY <1>1, <1>2, <1>3, SequentialNext

LEMMA AskInTurn ==
  ASSUME OneCall, Ask(Caller)
  PROVE  SequentialInv'
<1> USE OneCallFacts DEF Ask, End, Goto, files, drafts, world
<1>t. task[Caller] \in TaskType /\ task[Caller].id \in Payloads
  BY DEF CallInv, AdminLabels
<1>1. EntriesFollow'
  BY DEF EntriesFollow, TypeOK
<1>2. CASE chain[task[Caller].id] = "included"
  <2>1. /\ task'[Caller] = [task[Caller] EXCEPT !.to = "confirmed"]
        /\ pc'[Caller] = "statusRead"
    BY <1>2 DEF TypeOK
  <2>2. FoundOrLeft(Caller)'
    BY <1>t, <1>2, <2>1 DEF FoundOrLeft, Status, CallInv, TaskType
  <2>3. OutboxDrafted(Caller)'
    BY <2>1 DEF OutboxDrafted
  <2> QED
    BY <1>1, <2>2, <2>3, SequentialNext
<1>3. CASE chain[task[Caller].id] = "reverted"
  <2>1. /\ task'[Caller] = [task[Caller] EXCEPT !.to = "failed"]
        /\ pc'[Caller] = "statusRead"
    BY <1>3 DEF TypeOK
  <2>2. FoundOrLeft(Caller)'
    BY <1>t, <1>3, <2>1 DEF FoundOrLeft, Status, CallInv, TaskType
  <2>3. OutboxDrafted(Caller)'
    BY <2>1 DEF OutboxDrafted
  <2> QED
    BY <1>1, <2>2, <2>3, SequentialNext
<1>4. CASE chain[task[Caller].id] \notin {"included", "reverted"}
  <2>1. pc'[Caller] = "idle"
    BY <1>4 DEF TypeOK
  <2> QED
    BY <1>1, <2>1, SequentialNext
<1> QED
  BY <1>2, <1>3, <1>4

(* What happens around a call does not change what it works on.            *)
LEMMA SequentialAround ==
  ASSUME PlanIInv, Sequential, UNCHANGED <<outbox, pc, task, nextOutbox>>,
         \A p \in Payloads : chain[p] \in {"included", "reverted"} => chain'[p] = chain[p]
  PROVE  SequentialInv'
<1>1. SequentialInv /\ IInv
  BY DEF PlanIInv
<1>2. EntriesFollow'
  BY <1>1 DEF SequentialInv, EntriesFollow
<1>3. (Busy \subseteq {Caller})'
  BY <1>1 DEF SequentialInv, Busy
<1>4. ASSUME NEW c \in Busy PROVE FoundOrLeft(c)' /\ OutboxDrafted(c)'
  <2>1. /\ FoundOrLeft(c) /\ OutboxDrafted(c) /\ CallInv(c) /\ c \in Calls
        /\ pc[c] \notin AdminLabels => task[c].id \in Payloads
    BY <1>1 DEF SequentialInv, IInv, Busy, CallInv
  <2>2. pc[c] \in {"statusRead", "statusWrite", "moveRead", "moveWrite"} => task[c].id \in Payloads
    BY <2>1 DEF AdminLabels
  <2>3. FoundOrLeft(c)'
    BY <2>1, <2>2 DEF FoundOrLeft, Status
  <2> QED
    BY <2>1, <2>3 DEF OutboxDrafted
<1>5. Busy' = Busy
  BY DEF Busy
<1> QED
  BY <1>2, <1>3, <1>4, <1>5 DEF SequentialInv

CallStep(c) ==
  \/ Start(c) \/ BuildStep(c) \/ SubmitStep(c) \/ BooksStep(c) \/ AdminStep(c)
  \/ Throw(c) \/ Crash(c)

(* It is the one caller that acts.                                         *)
LEMMA WhoActs ==
  ASSUME PlanIInv, Sequential, InPlan', plan' = plan, NEW c \in Calls, CallStep(c)
  PROVE  c = Caller
<1>1. TypeOK
  BY DEF PlanIInv, IInv
<1>2. (Busy \subseteq {Caller})' /\ Busy \subseteq {Caller}
  BY DEF InPlan, Sequential, OneByOne, PlanIInv, SequentialInv
<1>3. SUFFICES pc[c] # "idle" \/ pc'[c] # "idle"
  BY <1>2 DEF Busy
<1>4. CASE Start(c)
  <2> USE <1>1 DEF Begin, Goto, TypeOK
  <2>1. ASSUME NEW p \in Payloads, StartOn(c, p) PROVE pc'[c] # "idle"
    BY <2>1 DEF StartOn, StartDrain, StartBuild, StartRelease, StartRetry, StartStatus, StartForget
  <2>2. CASE StartEnable(c) \/ StartDisable(c, "disable") \/ StartDisable(c, "pause")
    BY <2>2 DEF StartEnable, StartDisable
  <2> QED
    BY <1>4, <2>1, <2>2 DEF Start
<1>5. CASE BuildStep(c)
  BY <1>5 DEF BuildStep, Sign, SignRefused, ReserveRead, ReserveWrite, AddRead, AddWrite
<1>6. CASE SubmitStep(c)
  BY <1>6 DEF SubmitStep, SubmitAccepted, SubmitLost, SubmitRejected, AttemptRead,
              AttemptWrite, FailRead, FailWrite
<1>7. CASE BooksStep(c)
  BY <1>7 DEF BooksStep, MoveRead, MoveWrite, Ask, StatusRead, StatusWrite
<1>8. CASE AdminStep(c)
  BY <1>8 DEF AdminStep, ForgetWrite, EnableWrite, DisableRead, DisableWrite, PauseRead, PauseWrite
<1>9. CASE Throw(c) \/ Crash(c)
  BY <1>9 DEF Throw, Crash
<1> QED
  BY <1>4, <1>5, <1>6, <1>7, <1>8, <1>9 DEF CallStep

LEMMA SequentialCall ==
  ASSUME OneCall, CallStep(Caller)
  PROVE  SequentialInv'
<1>1. ASSUME NEW p \in Payloads, StartOn(Caller, p) PROVE SequentialInv'
  BY <1>1, StartBuildInTurn, StartDrainInTurn, StartReleaseInTurn, StartRetryInTurn,
     StartStatusInTurn, StartForgetInTurn DEF StartOn
<1>2. CASE Start(Caller)
  BY <1>1, <1>2, StartEnableInTurn, StartDisableInTurn DEF Start
<1>3. CASE BuildStep(Caller)
  BY <1>3, SignInTurn, SignRefusedInTurn, ReserveReadInTurn, ReserveWriteInTurn,
     AddReadInTurn, AddWriteInTurn DEF BuildStep
<1>4. CASE SubmitStep(Caller)
  BY <1>4, SubmitAcceptedInTurn, SubmitLostInTurn, SubmitRejectedInTurn, AttemptReadInTurn,
     AttemptWriteInTurn, FailReadInTurn, FailWriteInTurn DEF SubmitStep
<1>5. CASE BooksStep(Caller)
  BY <1>5, MoveReadInTurn, MoveWriteInTurn, AskInTurn, StatusReadInTurn, StatusWriteInTurn
     DEF BooksStep
<1>6. CASE AdminStep(Caller)
  BY <1>6, ForgetWriteInTurn, EnableWriteInTurn, DisableReadInTurn, DisableWriteInTurn,
     PauseReadInTurn, PauseWriteInTurn DEF AdminStep
<1>7. CASE Throw(Caller) \/ Crash(Caller)
  BY <1>7, ThrowInTurn, CrashInTurn
<1> QED
  BY <1>2, <1>3, <1>4, <1>5, <1>6, <1>7 DEF CallStep

(* What a step is, in the plans.                                           *)
LEMMA StepIs ==
  ASSUME [PlanNext]_<<vars, plan>>
  PROVE  /\ plan' = plan
         /\ \/ InPlan' /\ \E c \in Calls : CallStep(c)
            \/ InPlan' /\ \E p \in Payloads : SubmitElsewhere(p) \/ Settle(p)
            \/ InPlan' /\ DayPasses
            \/ UNCHANGED vars
BY DEF PlanNext, Next, CallStep

LEMMA SequentialStep ==
  ASSUME PlanIInv, Sequential, [PlanNext]_<<vars, plan>>, IInv'
  PROVE  SequentialInv'
<1>0. plan' = plan /\ TypeOK
  BY StepIs DEF PlanIInv, IInv
<1>1. ASSUME NEW c \in Calls, CallStep(c), InPlan' PROVE SequentialInv'
  <2>1. c = Caller
    BY <1>0, <1>1, WhoActs
  <2>2. OneCall /\ CallStep(Caller)
    BY <1>0, <1>1, <2>1 DEF OneCall
  <2> QED
    BY <2>2, SequentialCall
<1>2. ASSUME NEW p \in Payloads, SubmitElsewhere(p) \/ Settle(p) PROVE SequentialInv'
  BY <1>0, <1>2, SequentialAround DEF SubmitElsewhere, Settle, files, drafts, TypeOK
<1>3. CASE DayPasses
  BY <1>3, SequentialAround DEF DayPasses, files, drafts
<1>4. CASE UNCHANGED vars
  BY <1>4, SequentialAround DEF vars, files, drafts, world
<1> QED
  BY <1>1, <1>2, <1>3, <1>4, StepIs

-----------------------------------------------------------------------------
(* The plans of one day.                                                   *)

LEMMA DayFacts ==
  ASSUME OneCall, OneDay
  PROVE  /\ TypeOK /\ CallInv(Caller) /\ StatusIsWarranted /\ Caller \in Calls
         /\ today = 1 /\ today' <= 1
         /\ store.policy \in Policy /\ store.policy.day = 1
         /\ \A p \in Payloads : payload[p] # Null => payload[p].day = 1
         /\ pc[Caller] # "idle" => OfTheDay(Caller) /\ FoundOrLeft(Caller)
         /\ pc'[Caller] # "idle" => task'[Caller].op \in PlanOps[plan]
         /\ PlanOps[plan] \subseteq {"build", "retry", "release", "status", "forget"}
         /\ plan = "releases" => faults' <= 0
         /\ plan = "faults" => PlanOps[plan] = {"build", "retry", "status", "forget"}
<1>1. DayInv /\ SequentialInv /\ IInv
  BY DEF OneCall, PlanIInv
<1>2. pc[Caller] # "idle" => Caller \in Busy
  BY DEF OneCall, Busy
<1>3. pc'[Caller] # "idle" => Caller \in Busy'
  BY DEF OneCall, Busy
<1>4. today' <= 1 /\ (plan = "releases" => faults' <= 0)
  BY DEF OneCall, OneDay, InPlan, PlanDays, PlanFaults
<1>5. pc'[Caller] # "idle" => task'[Caller].op \in PlanOps[plan]
  BY <1>3 DEF OneCall, InPlan, PlanOps
<1>6. /\ PlanOps[plan] \subseteq {"build", "retry", "release", "status", "forget"}
      /\ plan = "faults" => PlanOps[plan] = {"build", "retry", "status", "forget"}
  BY DEF OneDay, PlanOps
<1>7. store.policy \in Policy
  BY <1>1 DEF DayInv, IInv, TypeOK, StoreType
<1> QED
  BY <1>1, <1>2, <1>4, <1>5, <1>6, <1>7 DEF DayInv, SequentialInv, IInv, OneCall, Signed

LEMMA DayNext ==
  ASSUME OneCall, OneDay, today' = today,
         store'.policy # Null, store'.policy.day = 1,
         \A p \in Payloads : payload'[p] # Null => payload'[p].day = 1,
         pc'[Caller] # "idle" => OfTheDay(Caller)'
  PROVE  DayInv'
<1>1. (Busy \subseteq {Caller})'
  BY OneCallFacts DEF OneByOne
<1>2. (\A c \in Busy : OfTheDay(c))'
  BY <1>1 DEF Busy
<1>3. (\A p \in Signed : payload[p].day = 1)'
  BY DEF Signed
<1> QED
  BY <1>2, <1>3, DayFacts DEF DayInv

(* A step that touches neither the books nor what was signed.              *)
LEMMA DayStays ==
  ASSUME OneCall, OneDay, UNCHANGED <<today, store, payload>>,
         pc'[Caller] # "idle" => OfTheDay(Caller)'
  PROVE  DayInv'
BY DayFacts, DayNext, NullAssumption

LEMMA PolicyOfDay ==
  ASSUME TypeOK, today = 1, NEW books \in Policy, books.day = 1, NEW n \in Nat
  PROVE  /\ Current(books) = books
         /\ Reserved(books, n) \in Policy /\ Reserved(books, n) # Null
         /\ Reserved(books, n).day = 1
         /\ \A from \in Buckets, to \in Buckets :
              /\ Moved(books, n, from, to) \in Policy /\ Moved(books, n, from, to) # Null
              /\ Moved(books, n, from, to).day = 1
<1>1. Current(books) = books
  BY DEF Current
<1>2. Reserved(books, n) \in Policy /\ Reserved(books, n) # Null
  BY ReservedType, NullAssumption
<1>3. Reserved(books, n).day = 1
  BY <1>1 DEF Reserved, Policy
<1> SUFFICES ASSUME NEW from \in Buckets, NEW to \in Buckets
             PROVE  /\ Moved(books, n, from, to) \in Policy
                    /\ Moved(books, n, from, to) # Null
                    /\ Moved(books, n, from, to).day = 1
  BY <1>1, <1>2, <1>3
<1>4. Moved(books, n, from, to) \in Policy /\ Moved(books, n, from, to) # Null
  BY MovedType, NullAssumption
<1> DEFINE less == [books EXCEPT ![from] = Less(@, n)]
<1>5. less.day = 1 /\ DOMAIN less = {"day"} \cup Buckets
  BY DEF Policy, Buckets
<1> HIDE DEF less
<1>6. [less EXCEPT ![to] = @ + n].day = 1
  BY <1>5 DEF Buckets
<1>7. Moved(books, n, from, to) = [less EXCEPT ![to] = @ + n]
  BY <1>1, Zenon DEF Moved, less
<1> QED
  BY <1>4, <1>6, <1>7

LEMMA StartBuildOnDay ==
  ASSUME OneCall, OneDay, NEW p \in Payloads, NEW amount \in Amounts, NEW lowValue \in BOOLEAN, StartBuild(Caller, p, amount, lowValue)
  PROVE  DayInv'
<1> USE DayFacts DEF StartBuild, Begin, Goto, Task, files, drafts, world, Fresh
<1>1. pc'[Caller] # "idle" => OfTheDay(Caller)'
  BY DEF OneCall, OfTheDay, AdminLabels, TypeOK
<1> QED
  BY <1>1, DayStays

LEMMA StartDrainOnDay ==
  ASSUME OneCall, OneDay, NEW p \in Payloads, NEW amount \in Amounts, StartDrain(Caller, p, amount)
  PROVE  DayInv'
<1> USE DayFacts DEF StartDrain, Begin, Goto, Task, files, drafts, world, Fresh
<1>1. pc'[Caller] # "idle" => OfTheDay(Caller)'
  BY DEF OneCall, OfTheDay, AdminLabels, TypeOK
<1> QED
  BY <1>1, DayStays

LEMMA StartRetryOnDay ==
  ASSUME OneCall, OneDay, NEW p \in Payloads, StartRetry(Caller, p)
  PROVE  DayInv'
<1> USE DayFacts DEF StartRetry, Begin, Goto, Task, files, drafts, world, TaskOn
<1>1. pc'[Caller] # "idle" => OfTheDay(Caller)'
  BY DEF OneCall, OfTheDay, AdminLabels, TypeOK
<1> QED
  BY <1>1, DayStays

LEMMA StartReleaseOnDay ==
  ASSUME OneCall, OneDay, NEW p \in Payloads, NEW target \in ReleaseTargets, StartRelease(Caller, p, target)
  PROVE  DayInv'
<1> USE DayFacts DEF StartRelease, Begin, Goto, Task, files, drafts, world, TaskOn
<1>1. pc'[Caller] # "idle" => OfTheDay(Caller)'
  BY DEF OneCall, OfTheDay, AdminLabels, TypeOK
<1> QED
  BY <1>1, DayStays

LEMMA StartStatusOnDay ==
  ASSUME OneCall, OneDay, NEW p \in Payloads, StartStatus(Caller, p)
  PROVE  DayInv'
<1> USE DayFacts DEF StartStatus, Begin, Goto, Task, files, drafts, world, TaskOn
<1>1. pc'[Caller] # "idle" => OfTheDay(Caller)'
  BY DEF OneCall, OfTheDay, AdminLabels, TypeOK
<1> QED
  BY <1>1, DayStays

LEMMA StartForgetOnDay ==
  ASSUME OneCall, OneDay, NEW p \in Payloads, StartForget(Caller, p)
  PROVE  DayInv'
<1> USE DayFacts DEF StartForget, Begin, Goto, Task, files, drafts, world, TaskOn
<1>1. pc'[Caller] # "idle" => OfTheDay(Caller)'
  BY DEF OneCall, OfTheDay, AdminLabels, TypeOK
<1> QED
  BY <1>1, DayStays

LEMMA StartEnableOnDay ==
  ASSUME OneCall, OneDay, StartEnable(Caller)
  PROVE  DayInv'
<1> USE DayFacts DEF StartEnable, Begin, Goto, Task, files, drafts, world, AdminTask
<1>1. pc'[Caller] # "idle" => OfTheDay(Caller)'
  BY DEF OneCall, OfTheDay, AdminLabels, TypeOK
<1> QED
  BY <1>1, DayStays

LEMMA StartDisableOnDay ==
  ASSUME OneCall, OneDay, NEW o \in {"disable", "pause"}, StartDisable(Caller, o)
  PROVE  DayInv'
<1> USE DayFacts DEF StartDisable, Begin, Goto, Task, files, drafts, world, AdminTask
<1>1. pc'[Caller] # "idle" => OfTheDay(Caller)'
  BY DEF OneCall, OfTheDay, AdminLabels, TypeOK
<1> QED
  BY <1>1, DayStays

LEMMA SignRefusedOnDay ==
  ASSUME OneCall, OneDay, SignRefused(Caller)
  PROVE  DayInv'
<1> USE DayFacts DEF SignRefused, Continue, Goto, End, files, drafts, world
<1>1. pc'[Caller] # "idle" => OfTheDay(Caller)'
  BY DEF OneCall, OfTheDay, AdminLabels, TypeOK
<1> QED
  BY <1>1, DayStays

LEMMA AddReadOnDay ==
  ASSUME OneCall, OneDay, AddRead(Caller)
  PROVE  DayInv'
<1> USE DayFacts DEF AddRead, Continue, Goto, End, files, drafts, world, DraftOutbox
<1>1. pc'[Caller] # "idle" => OfTheDay(Caller)'
  BY DEF OneCall, OfTheDay, AdminLabels, TypeOK
<1> QED
  BY <1>1, DayStays

LEMMA AddWriteOnDay ==
  ASSUME OneCall, OneDay, AddWrite(Caller)
  PROVE  DayInv'
<1> USE DayFacts DEF AddWrite, Continue, Goto, End, files, drafts, world, WriteOutbox, AfterTransfer
<1>1. pc'[Caller] # "idle" => OfTheDay(Caller)'
  BY DEF OneCall, OfTheDay, AdminLabels, TypeOK
<1> QED
  BY <1>1, DayStays

LEMMA SubmitAcceptedOnDay ==
  ASSUME OneCall, OneDay, SubmitAccepted(Caller)
  PROVE  DayInv'
<1> USE DayFacts DEF SubmitAccepted, Continue, Goto, End, files, drafts, world, Pending
<1>1. pc'[Caller] # "idle" => OfTheDay(Caller)'
  BY DEF OneCall, OfTheDay, AdminLabels, TypeOK
<1> QED
  BY <1>1, DayStays

LEMMA SubmitLostOnDay ==
  ASSUME OneCall, OneDay, SubmitLost(Caller)
  PROVE  DayInv'
<1> USE DayFacts DEF SubmitLost, Continue, Goto, End, files, drafts, world, Pending
<1>1. pc'[Caller] # "idle" => OfTheDay(Caller)'
  BY DEF OneCall, OfTheDay, AdminLabels, TypeOK
<1> QED
  BY <1>1, DayStays

LEMMA SubmitRejectedOnDay ==
  ASSUME OneCall, OneDay, SubmitRejected(Caller)
  PROVE  DayInv'
<1> USE DayFacts DEF SubmitRejected, Continue, Goto, End, files, drafts, world
<1>1. pc'[Caller] # "idle" => OfTheDay(Caller)'
  BY DEF OneCall, OfTheDay, AdminLabels, TypeOK
<1> QED
  BY <1>1, DayStays

LEMMA AttemptReadOnDay ==
  ASSUME OneCall, OneDay, AttemptRead(Caller)
  PROVE  DayInv'
<1> USE DayFacts DEF AttemptRead, Continue, Goto, End, files, drafts, world, DraftOutbox
<1>1. pc'[Caller] # "idle" => OfTheDay(Caller)'
  BY DEF OneCall, OfTheDay, AdminLabels, TypeOK
<1> QED
  BY <1>1, DayStays

LEMMA AttemptWriteOnDay ==
  ASSUME OneCall, OneDay, AttemptWrite(Caller)
  PROVE  DayInv'
<1> USE DayFacts DEF AttemptWrite, Continue, Goto, End, files, drafts, world, WriteOutbox, AfterTransfer, Moves
<1>1. pc'[Caller] # "idle" => OfTheDay(Caller)'
  BY DEF OneCall, OfTheDay, AdminLabels, TypeOK
<1> QED
  BY <1>1, DayStays

LEMMA FailReadOnDay ==
  ASSUME OneCall, OneDay, FailRead(Caller)
  PROVE  DayInv'
<1> USE DayFacts DEF FailRead, Continue, Goto, End, files, drafts, world, DraftOutbox
<1>1. pc'[Caller] # "idle" => OfTheDay(Caller)'
  BY DEF OneCall, OfTheDay, AdminLabels, TypeOK
<1> QED
  BY <1>1, DayStays

LEMMA FailWriteOnDay ==
  ASSUME OneCall, OneDay, FailWrite(Caller)
  PROVE  DayInv'
<1> USE DayFacts DEF FailWrite, Continue, Goto, End, files, drafts, world, WriteOutbox, AfterTransfer
<1>1. pc'[Caller] # "idle" => OfTheDay(Caller)'
  BY DEF OneCall, OfTheDay, AdminLabels, TypeOK
<1> QED
  BY <1>1, DayStays

LEMMA StatusReadOnDay ==
  ASSUME OneCall, OneDay, StatusRead(Caller)
  PROVE  DayInv'
<1> USE DayFacts DEF StatusRead, Continue, Goto, End, files, drafts, world, DraftOutbox
<1>1. pc'[Caller] # "idle" => OfTheDay(Caller)'
  BY DEF OneCall, OfTheDay, AdminLabels, TypeOK
<1> QED
  BY <1>1, DayStays

LEMMA StatusWriteOnDay ==
  ASSUME OneCall, OneDay, StatusWrite(Caller)
  PROVE  DayInv'
<1> USE DayFacts DEF StatusWrite, Continue, Goto, End, files, drafts, world, WriteOutbox, Moves
<1>1. pc'[Caller] # "idle" => OfTheDay(Caller)'
  BY DEF OneCall, OfTheDay, AdminLabels, TypeOK
<1> QED
  BY <1>1, DayStays

LEMMA ForgetWriteOnDay ==
  ASSUME OneCall, OneDay, ForgetWrite(Caller)
  PROVE  DayInv'
<1> USE DayFacts DEF ForgetWrite, Continue, Goto, End, files, drafts, world, WriteOutbox
<1>1. pc'[Caller] # "idle" => OfTheDay(Caller)'
  BY DEF OneCall, OfTheDay, AdminLabels, TypeOK
<1> QED
  BY <1>1, DayStays

LEMMA ThrowOnDay ==
  ASSUME OneCall, OneDay, Throw(Caller)
  PROVE  DayInv'
<1> USE DayFacts DEF Throw, Continue, Goto, End, files, drafts, world, InTry, Fault, DropDrafts
<1>1. pc'[Caller] # "idle" => OfTheDay(Caller)'
  BY DEF OneCall, OfTheDay, AdminLabels, TypeOK
<1> QED
  BY <1>1, DayStays

LEMMA CrashOnDay ==
  ASSUME OneCall, OneDay, Crash(Caller)
  PROVE  DayInv'
<1> USE DayFacts DEF Crash, Continue, Goto, End, files, drafts, world, Fault, DropDrafts
<1>1. pc'[Caller] # "idle" => OfTheDay(Caller)'
  BY DEF OneCall, OfTheDay, AdminLabels, TypeOK
<1> QED
  BY <1>1, DayStays

LEMMA NoAdminOnDay ==
  ASSUME OneCall, OneDay,
         EnableWrite(Caller) \/ DisableRead(Caller) \/ DisableWrite(Caller)
           \/ PauseRead(Caller) \/ PauseWrite(Caller)
  PROVE  FALSE
BY DayFacts DEF OfTheDay, AdminLabels, EnableWrite, DisableRead, DisableWrite, PauseRead, PauseWrite

LEMMA SignOnDay ==
  ASSUME OneCall, OneDay, Sign(Caller)
  PROVE  DayInv'
<1> USE DayFacts DEF Sign, Continue, Goto, files, drafts
<1>t. task[Caller] \in TaskType /\ task[Caller].id \in Payloads
  BY DEF CallInv, AdminLabels
<1>0. /\ \A p \in Payloads : p # task[Caller].id => payload'[p] = payload[p]
      /\ payload'[task[Caller].id] =
           [amount |-> task[Caller].amount, lowValue |-> task[Caller].lowValue, day |-> today]
  BY <1>t DEF TypeOK
<1>1. \A p \in Payloads : payload'[p] # Null => payload'[p].day = 1
  BY <1>0
<1>2. pc'[Caller] # "idle" => OfTheDay(Caller)'
  BY <1>t, <1>0 DEF OneCall, OfTheDay, AdminLabels, TypeOK
<1> QED
  BY <1>1, <1>2, DayNext, NullAssumption

LEMMA ReserveReadOnDay ==
  ASSUME OneCall, OneDay, ReserveRead(Caller)
  PROVE  DayInv'
<1> USE DayFacts DEF ReserveRead, DraftStore, Continue, Goto, files, drafts, world
<1>t. task[Caller] \in TaskType /\ task[Caller].id \in Payloads
  BY DEF CallInv, AdminLabels
<1>0. /\ nextStore'[Caller].policy = Reserved(store.policy, task[Caller].amount)
      /\ pc'[Caller] = "reserveWrite"
  BY NullAssumption DEF TypeOK, StoreType
<1>1. Reserved(store.policy, task[Caller].amount)' = Reserved(store.policy, task[Caller].amount)
  BY NullAssumption DEF Reserved, Current, NewPolicy
<1>2. pc'[Caller] # "idle" => OfTheDay(Caller)'
  BY <1>t, <1>0, <1>1, NullAssumption DEF OneCall, OfTheDay, AdminLabels
<1> QED
  BY <1>2, DayStays, NullAssumption

LEMMA ReserveWriteOnDay ==
  ASSUME OneCall, OneDay, ReserveWrite(Caller)
  PROVE  DayInv'
<1> USE DayFacts DEF ReserveWrite, WriteStore, Continue, Goto, files, drafts, world
<1>t. task[Caller] \in TaskType /\ task[Caller].id \in Payloads /\ task[Caller].amount \in Nat
  BY DEF CallInv, AdminLabels, TaskType
<1>0. store'.policy = Reserved(store.policy, task[Caller].amount)
  BY DEF OfTheDay
<1>1. store'.policy # Null /\ store'.policy.day = 1
  BY <1>0, <1>t, PolicyOfDay
<1>2. pc'[Caller] # "idle" => OfTheDay(Caller)'
  BY <1>t DEF OneCall, OfTheDay, AdminLabels, TypeOK
<1> QED
  BY <1>1, <1>2, DayNext

LEMMA MoveType ==
  ASSUME OneCall, OneDay, pc[Caller] \in {"moveRead", "moveWrite"}
  PROVE  /\ task[Caller] \in TaskType /\ task[Caller].id \in Payloads
         /\ task[Caller].amount \in Nat
         /\ From(task[Caller]) \in Buckets /\ task[Caller].to \in Buckets
         /\ From(task[Caller]) # task[Caller].to
         /\ Moves(task[Caller])
<1>t. /\ task[Caller] \in TaskType /\ task[Caller].id \in Payloads
      /\ task[Caller].amount \in Nat
  BY DayFacts DEF CallInv, AdminLabels, TaskType
<1>1. Moves(task[Caller]) /\ task[Caller].op \in PlanOps[plan]
  BY DayFacts DEF FoundOrLeft, OfTheDay
<1>2. /\ task[Caller].op \in {"build", "retry"} => task[Caller].to = "submitted"
      /\ task[Caller].op = "release" => task[Caller].to = "expired"
      /\ task[Caller].op = "status" => task[Caller].to \in {"confirmed", "failed"}
  BY DayFacts DEF FoundOrLeft
<1>3. task[Caller].op \in {"build", "retry", "release", "status"}
  BY <1>1, DayFacts DEF FoundOrLeft, OfTheDay
<1> QED
  BY <1>t, <1>1, <1>2, <1>3 DEF From, Buckets

LEMMA MoveOfDay ==
  ASSUME OneCall, OneDay, pc[Caller] \in {"moveRead", "moveWrite"}
  PROVE  LET next == Moved(store.policy, task[Caller].amount, From(task[Caller]), task[Caller].to)
         IN  next # Null /\ next.day = 1
<1> DEFINE from == From(task[Caller])
           to == task[Caller].to
           n == task[Caller].amount
           books == store.policy
<1>1. from \in Buckets /\ to \in Buckets /\ n \in Nat
  BY MoveType
<1>2. TypeOK /\ today = 1 /\ books \in Policy /\ books.day = 1
  BY DayFacts
<1> HIDE DEF from, to, n, books
<1>3. Moved(books, n, from, to) # Null /\ Moved(books, n, from, to).day = 1
  BY <1>1, <1>2, PolicyOfDay
<1> QED
  BY <1>3 DEF from, to, n, books

LEMMA MoveReadOnDay ==
  ASSUME OneCall, OneDay, MoveRead(Caller)
  PROVE  DayInv'
<1> USE DayFacts, MoveType DEF MoveRead, DraftStore, Continue, Goto, files, drafts, world
<1>0. /\ nextStore'[Caller].policy =
           Moved(store.policy, task[Caller].amount, From(task[Caller]), task[Caller].to)
      /\ pc'[Caller] = "moveWrite"
  BY NullAssumption DEF TypeOK, StoreType
<1>1. Moved(store.policy, task[Caller].amount, From(task[Caller]), task[Caller].to)'
        = Moved(store.policy, task[Caller].amount, From(task[Caller]), task[Caller].to)
  BY NullAssumption DEF Moved, Current, NewPolicy
<1>2. pc'[Caller] # "idle" => OfTheDay(Caller)'
  BY <1>0, <1>1, NullAssumption DEF OneCall, OfTheDay, AdminLabels
<1> QED
  BY <1>2, DayStays, NullAssumption

LEMMA MoveWriteOnDay ==
  ASSUME OneCall, OneDay, MoveWrite(Caller)
  PROVE  DayInv'
<1> USE DayFacts, MoveType DEF MoveWrite, WriteStore, AfterMove, AfterTransfer, Continue, End, Goto, files, drafts, world
<1>0. store'.policy =
        Moved(store.policy, task[Caller].amount, From(task[Caller]), task[Caller].to)
  BY DEF OfTheDay
<1>1. store'.policy # Null /\ store'.policy.day = 1
  BY <1>0, MoveOfDay
<1>2. pc'[Caller] # "idle" => OfTheDay(Caller)'
  BY DEF OneCall, OfTheDay, AdminLabels, TypeOK
<1> QED
  BY <1>1, <1>2, DayNext

LEMMA AskOnDay ==
  ASSUME OneCall, OneDay, Ask(Caller)
  PROVE  DayInv'
<1> USE DayFacts DEF Ask, End, Goto, files, drafts, world
<1>t. task[Caller] \in TaskType
  BY DEF CallInv
<1>1. pc'[Caller] # "idle" =>
        /\ pc'[Caller] = "statusRead"
        /\ task'[Caller].op = task[Caller].op /\ task'[Caller].id = task[Caller].id
        /\ task'[Caller].amount = task[Caller].amount
        /\ task'[Caller].lowValue = task[Caller].lowValue
  BY <1>t DEF TypeOK, TaskType
<1>2. pc'[Caller] # "idle" => OfTheDay(Caller)'
  BY <1>1 DEF OneCall, OfTheDay, AdminLabels
<1> QED
  BY <1>2, DayStays

LEMMA DayAround ==
  ASSUME PlanIInv, OneDay, plan' = plan, UNCHANGED <<today, store, payload, pc, task, nextStore>>
  PROVE  DayInv'
<1>1. DayInv
  BY DEF PlanIInv
<1>2. Busy' = Busy
  BY DEF Busy
<1>3. ASSUME NEW c \in Busy PROVE OfTheDay(c)'
  <2>1. OfTheDay(c)
    BY <1>1 DEF DayInv
  <2>2. Reserved(store.policy, task[c].amount)' = Reserved(store.policy, task[c].amount)
    BY DEF Reserved, Current, NewPolicy
  <2>3. Moved(store.policy, task[c].amount, From(task[c]), task[c].to)'
          = Moved(store.policy, task[c].amount, From(task[c]), task[c].to)
    BY DEF Moved, Current, NewPolicy
  <2> QED
    BY <2>1, <2>2, <2>3 DEF OfTheDay
<1> QED
  BY <1>1, <1>2, <1>3 DEF DayInv, Signed

LEMMA DayCall ==
  ASSUME OneCall, OneDay, CallStep(Caller)
  PROVE  DayInv'
<1>1. ASSUME NEW p \in Payloads, StartOn(Caller, p) PROVE DayInv'
  BY <1>1, StartBuildOnDay, StartDrainOnDay, StartReleaseOnDay, StartRetryOnDay,
     StartStatusOnDay, StartForgetOnDay DEF StartOn
<1>2. CASE Start(Caller)
  BY <1>1, <1>2, StartEnableOnDay, StartDisableOnDay DEF Start
<1>3. CASE BuildStep(Caller)
  BY <1>3, SignOnDay, SignRefusedOnDay, ReserveReadOnDay, ReserveWriteOnDay,
     AddReadOnDay, AddWriteOnDay DEF BuildStep
<1>4. CASE SubmitStep(Caller)
  BY <1>4, SubmitAcceptedOnDay, SubmitLostOnDay, SubmitRejectedOnDay, AttemptReadOnDay,
     AttemptWriteOnDay, FailReadOnDay, FailWriteOnDay DEF SubmitStep
<1>5. CASE BooksStep(Caller)
  BY <1>5, MoveReadOnDay, MoveWriteOnDay, AskOnDay, StatusReadOnDay, StatusWriteOnDay
     DEF BooksStep
<1>6. CASE AdminStep(Caller)
  BY <1>6, ForgetWriteOnDay, NoAdminOnDay DEF AdminStep
<1>7. CASE Throw(Caller) \/ Crash(Caller)
  BY <1>7, ThrowOnDay, CrashOnDay
<1> QED
  BY <1>2, <1>3, <1>4, <1>5, <1>6, <1>7 DEF CallStep

LEMMA DayStep ==
  ASSUME PlanIInv, OneDay, [PlanNext]_<<vars, plan>>, IInv'
  PROVE  DayInv'
<1>0. plan' = plan /\ Sequential
  BY StepIs DEF OneDay, Sequential
<1>1. ASSUME NEW c \in Calls, CallStep(c), InPlan' PROVE DayInv'
  <2>1. c = Caller
    BY <1>0, <1>1, WhoActs
  <2>2. OneCall /\ CallStep(Caller)
    BY <1>0, <1>1, <2>1 DEF OneCall
  <2> QED
    BY <2>2, DayCall
<1>2. ASSUME NEW p \in Payloads, SubmitElsewhere(p) \/ Settle(p) PROVE DayInv'
  BY <1>0, <1>2, DayAround DEF SubmitElsewhere, Settle, files, drafts
<1>3. ASSUME DayPasses, InPlan' PROVE DayInv'
  <2>1. today = 1 /\ today' <= 1
    BY <1>0, <1>3 DEF PlanIInv, DayInv, InPlan, PlanDays, OneDay
  <2> QED
    BY <1>3, <2>1 DEF DayPasses
<1>4. CASE UNCHANGED vars
  BY <1>0, <1>4, DayAround DEF vars, files, drafts, world
<1> QED
  BY <1>1, <1>2, <1>3, <1>4, StepIs

-----------------------------------------------------------------------------
(* The books of the plan without failures.                                 *)

LEMMA ReleaseFacts ==
  ASSUME OneCall, plan = "releases"
  PROVE  /\ OneDay
         /\ PlanOps[plan] = {"build", "retry", "release", "status"}
         /\ \A b \in Buckets : store.policy[b] = ValueOf(payload, In(b))
         /\ \A p \in Payloads : payload[p] # Null /\ outbox[p] = Null =>
              Under(p, {"reserveRead", "reserveWrite", "addRead", "addWrite"})
         /\ EntriesFollow
         /\ pc[Caller] # "idle" => OutboxDrafted(Caller)
<1>1. \A b \in Buckets : Value(In(b)) = ValueOf(payload, In(b))
  BY ValueIsNow
<1> QED
  BY <1>1, OneCallFacts DEF OneCall, PlanIInv, LedgerInv, OneDay, PlanOps

LEMMA InIsFinite ==
  ASSUME IsFiniteSet(Signed), TypeOK, NEW b
  PROVE  /\ IsFiniteSet(In(b)) /\ In(b) \subseteq Payloads
         /\ \A p \in In(b) : payload[p].amount \in Nat
<1>1. In(b) \subseteq Signed /\ In(b) \subseteq Payloads
  BY DEF In, TodaysReservations, Signed
<1> QED
  BY <1>1, FS_Subset DEF TypeOK, PayloadType, Signed

LEMMA LedgerNext ==
  ASSUME OneCall, plan = "releases",
         \A b \in Buckets : store'.policy[b] = ValueOf(payload', In(b)'),
         \A q \in Payloads : payload'[q] # Null /\ outbox'[q] = Null =>
           Under(q, {"reserveRead", "reserveWrite", "addRead", "addWrite"})'
  PROVE  LedgerInv'
<1>1. \A b \in Buckets : Value(In(b))' = ValueOf(payload', In(b)')
  BY Zenon DEF Value, ValueOf, MapThenSumSet, MapThenFoldSet
<1> QED
  BY <1>1 DEF LedgerInv

LEMMA LedgerStays ==
  ASSUME OneCall, plan = "releases", UNCHANGED <<store, today, payload>>,
         \A q \in TodaysReservations : Bucket(q)' = Bucket(q),
         \A q \in Payloads : payload'[q] # Null /\ outbox'[q] = Null =>
           Under(q, {"reserveRead", "reserveWrite", "addRead", "addWrite"})'
  PROVE  LedgerInv'
<1>1. TodaysReservations' = TodaysReservations
  BY DEF TodaysReservations
<1>2. \A b : In(b)' = In(b)
  BY <1>1 DEF In
<1> QED
  BY <1>2, ReleaseFacts, LedgerNext

LEMMA ValueLater ==
  ASSUME NEW S, IsFiniteSet(S), \A q \in S : payload[q] = payload'[q]
  PROVE  ValueOf(payload, S) = ValueOf(payload', S)
<1> DEFINE old == payload
           new == payload'
<1>1. \A q \in S : old[q] = new[q]
  OBVIOUS
<1> HIDE DEF old, new
<1>2. ValueOf(old, S) = ValueOf(new, S)
  BY <1>1, ValueSame
<1> QED
  BY <1>2 DEF old, new

LEMMA StartBuildInBooks ==
  ASSUME OneCall, plan = "releases", NEW p \in Payloads, NEW amount \in Amounts, NEW lowValue \in BOOLEAN, StartBuild(Caller, p, amount, lowValue)
  PROVE  LedgerInv'
<1> USE ReleaseFacts, DayFacts DEF StartBuild, Begin, Goto, Task, files, drafts, world, Fresh
<1>1. \A q \in TodaysReservations : Bucket(q)' = Bucket(q)
  BY DEF Bucket, StatusBucket, Status, Under, From, Moves, TodaysReservations, FoundOrLeft, OfTheDay, TypeOK, OutboxDrafted
<1>2. \A q \in Payloads : payload'[q] # Null /\ outbox'[q] = Null =>
         Under(q, {"reserveRead", "reserveWrite", "addRead", "addWrite"})'
  BY DEF Under, TypeOK, FoundOrLeft, OfTheDay, Status, OutboxDrafted
<1> QED
  BY <1>1, <1>2, LedgerStays

LEMMA StartRetryInBooks ==
  ASSUME OneCall, plan = "releases", NEW p \in Payloads, StartRetry(Caller, p)
  PROVE  LedgerInv'
<1> USE ReleaseFacts, DayFacts DEF StartRetry, Begin, Goto, Task, files, drafts, world, TaskOn
<1>1. \A q \in TodaysReservations : Bucket(q)' = Bucket(q)
  BY DEF Bucket, StatusBucket, Status, Under, From, Moves, TodaysReservations, FoundOrLeft, OfTheDay, TypeOK, OutboxDrafted
<1>2. \A q \in Payloads : payload'[q] # Null /\ outbox'[q] = Null =>
         Under(q, {"reserveRead", "reserveWrite", "addRead", "addWrite"})'
  BY DEF Under, TypeOK, FoundOrLeft, OfTheDay, Status, OutboxDrafted
<1> QED
  BY <1>1, <1>2, LedgerStays

LEMMA StartReleaseInBooks ==
  ASSUME OneCall, plan = "releases", NEW p \in Payloads, NEW target \in ReleaseTargets, StartRelease(Caller, p, target)
  PROVE  LedgerInv'
<1> USE ReleaseFacts, DayFacts DEF StartRelease, Begin, Goto, Task, files, drafts, world, TaskOn
<1>1. \A q \in TodaysReservations : Bucket(q)' = Bucket(q)
  BY DEF Bucket, StatusBucket, Status, Under, From, Moves, TodaysReservations, FoundOrLeft, OfTheDay, TypeOK, OutboxDrafted
<1>2. \A q \in Payloads : payload'[q] # Null /\ outbox'[q] = Null =>
         Under(q, {"reserveRead", "reserveWrite", "addRead", "addWrite"})'
  BY DEF Under, TypeOK, FoundOrLeft, OfTheDay, Status, OutboxDrafted
<1> QED
  BY <1>1, <1>2, LedgerStays

LEMMA StartStatusInBooks ==
  ASSUME OneCall, plan = "releases", NEW p \in Payloads, StartStatus(Caller, p)
  PROVE  LedgerInv'
<1> USE ReleaseFacts, DayFacts DEF StartStatus, Begin, Goto, Task, files, drafts, world, TaskOn
<1>1. \A q \in TodaysReservations : Bucket(q)' = Bucket(q)
  BY DEF Bucket, StatusBucket, Status, Under, From, Moves, TodaysReservations, FoundOrLeft, OfTheDay, TypeOK, OutboxDrafted
<1>2. \A q \in Payloads : payload'[q] # Null /\ outbox'[q] = Null =>
         Under(q, {"reserveRead", "reserveWrite", "addRead", "addWrite"})'
  BY DEF Under, TypeOK, FoundOrLeft, OfTheDay, Status, OutboxDrafted
<1> QED
  BY <1>1, <1>2, LedgerStays

LEMMA SignRefusedInBooks ==
  ASSUME OneCall, plan = "releases", SignRefused(Caller)
  PROVE  LedgerInv'
<1> USE ReleaseFacts, DayFacts DEF SignRefused, Continue, Goto, End, files, drafts, world
<1>t. task[Caller] \in TaskType /\ task[Caller].id \in Payloads
  BY DEF CallInv, AdminLabels
<1>1. \A q \in TodaysReservations : Bucket(q)' = Bucket(q)
  BY <1>t DEF Bucket, StatusBucket, Status, Under, From, Moves, TodaysReservations, FoundOrLeft, OfTheDay, TypeOK, OutboxDrafted
<1>2. \A q \in Payloads : payload'[q] # Null /\ outbox'[q] = Null =>
         Under(q, {"reserveRead", "reserveWrite", "addRead", "addWrite"})'
  BY <1>t DEF Under, TypeOK, FoundOrLeft, OfTheDay, Status, OutboxDrafted
<1> QED
  BY <1>1, <1>2, LedgerStays

LEMMA ReserveReadInBooks ==
  ASSUME OneCall, plan = "releases", ReserveRead(Caller)
  PROVE  LedgerInv'
<1> USE ReleaseFacts, DayFacts DEF ReserveRead, Continue, Goto, End, files, drafts, world, DraftStore
<1>t. task[Caller] \in TaskType /\ task[Caller].id \in Payloads
  BY DEF CallInv, AdminLabels
<1>1. \A q \in TodaysReservations : Bucket(q)' = Bucket(q)
  BY <1>t , NullAssumption DEF Bucket, StatusBucket, Status, Under, From, Moves, TodaysReservations, FoundOrLeft, OfTheDay, TypeOK, OutboxDrafted
<1>2. \A q \in Payloads : payload'[q] # Null /\ outbox'[q] = Null =>
         Under(q, {"reserveRead", "reserveWrite", "addRead", "addWrite"})'
  BY <1>t DEF Under, TypeOK, FoundOrLeft, OfTheDay, Status, OutboxDrafted
<1> QED
  BY <1>1, <1>2, LedgerStays

LEMMA AddReadInBooks ==
  ASSUME OneCall, plan = "releases", AddRead(Caller)
  PROVE  LedgerInv'
<1> USE ReleaseFacts, DayFacts DEF AddRead, Continue, Goto, End, files, drafts, world, DraftOutbox
<1>t. task[Caller] \in TaskType /\ task[Caller].id \in Payloads
  BY DEF CallInv, AdminLabels
<1>1. \A q \in TodaysReservations : Bucket(q)' = Bucket(q)
  BY <1>t DEF Bucket, StatusBucket, Status, Under, From, Moves, TodaysReservations, FoundOrLeft, OfTheDay, TypeOK, OutboxDrafted
<1>2. \A q \in Payloads : payload'[q] # Null /\ outbox'[q] = Null =>
         Under(q, {"reserveRead", "reserveWrite", "addRead", "addWrite"})'
  BY <1>t DEF Under, TypeOK, FoundOrLeft, OfTheDay, Status, OutboxDrafted
<1> QED
  BY <1>1, <1>2, LedgerStays

LEMMA AddWriteInBooks ==
  ASSUME OneCall, plan = "releases", AddWrite(Caller)
  PROVE  LedgerInv'
<1> USE ReleaseFacts, DayFacts DEF AddWrite, Continue, Goto, End, files, drafts, world, WriteOutbox, AfterTransfer
<1>t. task[Caller] \in TaskType /\ task[Caller].id \in Payloads
  BY DEF CallInv, AdminLabels
<1>b. /\ \A q \in Payloads : q # task[Caller].id => outbox'[q] = outbox[q]
      /\ outbox'[task[Caller].id] = NewEntry
  BY <1>t DEF OutboxDrafted, TypeOK, OutboxType
<1>0. \A p \in Payloads : p = task[Caller].id => Status(p)' = "signed"
  BY <1>b, <1>t, EntryNotNull DEF Status, NewEntry, Statuses, TaskType
<1>1. \A q \in TodaysReservations : Bucket(q)' = Bucket(q)
  BY <1>t, <1>b, <1>0 DEF Bucket, StatusBucket, Status, Under, From, Moves, TodaysReservations, FoundOrLeft, OfTheDay, TypeOK, OutboxDrafted
<1>2. \A q \in Payloads : payload'[q] # Null /\ outbox'[q] = Null =>
         Under(q, {"reserveRead", "reserveWrite", "addRead", "addWrite"})'
  BY <1>t, <1>b, <1>0 DEF Under, TypeOK, FoundOrLeft, OfTheDay, Status, OutboxDrafted
<1> QED
  BY <1>1, <1>2, LedgerStays

LEMMA SubmitAcceptedInBooks ==
  ASSUME OneCall, plan = "releases", SubmitAccepted(Caller)
  PROVE  LedgerInv'
<1> USE ReleaseFacts, DayFacts DEF SubmitAccepted, Continue, Goto, End, files, drafts, world, Pending
<1>t. task[Caller] \in TaskType /\ task[Caller].id \in Payloads
  BY DEF CallInv, AdminLabels
<1>1. \A q \in TodaysReservations : Bucket(q)' = Bucket(q)
  BY <1>t DEF Bucket, StatusBucket, Status, Under, From, Moves, TodaysReservations, FoundOrLeft, OfTheDay, TypeOK, OutboxDrafted
<1>2. \A q \in Payloads : payload'[q] # Null /\ outbox'[q] = Null =>
         Under(q, {"reserveRead", "reserveWrite", "addRead", "addWrite"})'
  BY <1>t DEF Under, TypeOK, FoundOrLeft, OfTheDay, Status, OutboxDrafted
<1> QED
  BY <1>1, <1>2, LedgerStays

LEMMA SubmitLostInBooks ==
  ASSUME OneCall, plan = "releases", SubmitLost(Caller)
  PROVE  LedgerInv'
<1> USE ReleaseFacts, DayFacts DEF SubmitLost, Continue, Goto, End, files, drafts, world, Pending
<1>t. task[Caller] \in TaskType /\ task[Caller].id \in Payloads
  BY DEF CallInv, AdminLabels
<1>0. outbox[task[Caller].id] # Null
  BY <1>t DEF FoundOrLeft, Status, TaskType, Statuses
<1>1. \A q \in TodaysReservations : Bucket(q)' = Bucket(q)
  BY <1>t, <1>0 DEF Bucket, StatusBucket, Status, Under, From, Moves, TodaysReservations, FoundOrLeft, OfTheDay, TypeOK, OutboxDrafted
<1>2. \A q \in Payloads : payload'[q] # Null /\ outbox'[q] = Null =>
         Under(q, {"reserveRead", "reserveWrite", "addRead", "addWrite"})'
  BY <1>t, <1>0 DEF Under, TypeOK, FoundOrLeft, OfTheDay, Status, OutboxDrafted
<1> QED
  BY <1>1, <1>2, LedgerStays

LEMMA SubmitRejectedInBooks ==
  ASSUME OneCall, plan = "releases", SubmitRejected(Caller)
  PROVE  LedgerInv'
<1> USE ReleaseFacts, DayFacts DEF SubmitRejected, Continue, Goto, End, files, drafts, world
<1>t. task[Caller] \in TaskType /\ task[Caller].id \in Payloads
  BY DEF CallInv, AdminLabels
<1>0. outbox[task[Caller].id] # Null
  BY <1>t DEF FoundOrLeft, Status, TaskType, Statuses
<1>1. \A q \in TodaysReservations : Bucket(q)' = Bucket(q)
  BY <1>t, <1>0 DEF Bucket, StatusBucket, Status, Under, From, Moves, TodaysReservations, FoundOrLeft, OfTheDay, TypeOK, OutboxDrafted
<1>2. \A q \in Payloads : payload'[q] # Null /\ outbox'[q] = Null =>
         Under(q, {"reserveRead", "reserveWrite", "addRead", "addWrite"})'
  BY <1>t, <1>0 DEF Under, TypeOK, FoundOrLeft, OfTheDay, Status, OutboxDrafted
<1> QED
  BY <1>1, <1>2, LedgerStays

LEMMA AttemptReadInBooks ==
  ASSUME OneCall, plan = "releases", AttemptRead(Caller)
  PROVE  LedgerInv'
<1> USE ReleaseFacts, DayFacts DEF AttemptRead, Continue, Goto, End, files, drafts, world, DraftOutbox
<1>t. task[Caller] \in TaskType /\ task[Caller].id \in Payloads
  BY DEF CallInv, AdminLabels
<1>0. outbox[task[Caller].id] # Null
  BY <1>t DEF FoundOrLeft, Status, TaskType, Statuses
<1>1. \A q \in TodaysReservations : Bucket(q)' = Bucket(q)
  BY <1>t, <1>0 DEF Bucket, StatusBucket, Status, Under, From, Moves, TodaysReservations, FoundOrLeft, OfTheDay, TypeOK, OutboxDrafted
<1>2. \A q \in Payloads : payload'[q] # Null /\ outbox'[q] = Null =>
         Under(q, {"reserveRead", "reserveWrite", "addRead", "addWrite"})'
  BY <1>t, <1>0 DEF Under, TypeOK, FoundOrLeft, OfTheDay, Status, OutboxDrafted
<1> QED
  BY <1>1, <1>2, LedgerStays

LEMMA AttemptWriteInBooks ==
  ASSUME OneCall, plan = "releases", AttemptWrite(Caller)
  PROVE  LedgerInv'
<1> USE ReleaseFacts, DayFacts DEF AttemptWrite, Continue, Goto, End, files, drafts, world, WriteOutbox, AfterTransfer, Moves
<1>t. task[Caller] \in TaskType /\ task[Caller].id \in Payloads
  BY DEF CallInv, AdminLabels
<1>b. /\ \A q \in Payloads : q # task[Caller].id => outbox'[q] = outbox[q]
      /\ outbox'[task[Caller].id] = [status |-> "submitted", hashed |-> TRUE]
  BY <1>t DEF OutboxDrafted, TypeOK, OutboxType
<1>0. \A p \in Payloads : p = task[Caller].id => Status(p)' = "submitted"
  BY <1>b, <1>t, EntryNotNull DEF Status, NewEntry, Statuses, TaskType
<1>m. \A q \in Payloads : q # task[Caller].id => Bucket(q)' = Bucket(q)
  BY <1>t, <1>b DEF Bucket, StatusBucket, Status, Under, TypeOK
<1>n. ASSUME NEW q \in TodaysReservations, q = task[Caller].id PROVE Bucket(q)' = Bucket(q)
  <2>1. q \in Payloads /\ task[Caller].lowValue
    BY <1>n DEF TodaysReservations, OfTheDay
  <2>2. Status(q) = task[Caller].was /\ Status(q) \notin {"confirmed", "failed", "none"}
    BY <1>n, <1>t DEF FoundOrLeft, TaskType, Statuses
  <2>3. Bucket(q) = IF Status(q) = "signed" THEN "reserved" ELSE Status(q)
    BY <2>2 DEF Bucket, StatusBucket, Under
  <2>4. CASE task[Caller].was \in {"signed", "expired"}
    <3>1. task[Caller].op # "status" /\ task[Caller].op # "release"
      BY DEF FoundOrLeft
    <3>2. pc'[Caller] = "moveRead" /\ task' = task
      BY <2>1, <2>4, <3>1 DEF TypeOK
    <3>3. Bucket(q)' = From(task[Caller])
      BY <1>n, <3>2 DEF Bucket, Under
    <3> QED
      BY <2>2, <2>3, <2>4, <3>1, <3>3 DEF From
  <2>5. CASE task[Caller].was = "submitted"
    <3>1. task[Caller].op # "status" /\ task[Caller].op # "drain"
      BY DEF FoundOrLeft, OfTheDay
    <3>2. pc'[Caller] = "idle"
      BY <2>5, <3>1 DEF TypeOK
    <3>3. Bucket(q)' = "submitted"
      BY <1>0, <1>n, <2>1, <3>2 DEF Bucket, StatusBucket, Under
    <3> QED
      BY <2>2, <2>3, <2>5, <3>3
  <2> QED
    BY <1>t, <2>2, <2>4, <2>5 DEF TaskType, Statuses
<1>1. \A q \in TodaysReservations : Bucket(q)' = Bucket(q)
  BY <1>m, <1>n DEF TodaysReservations
<1>2. \A q \in Payloads : payload'[q] # Null /\ outbox'[q] = Null =>
         Under(q, {"reserveRead", "reserveWrite", "addRead", "addWrite"})'
  BY <1>t, <1>b, <1>0 DEF Under, TypeOK, FoundOrLeft, OfTheDay, Status, OutboxDrafted
<1> QED
  BY <1>1, <1>2, LedgerStays

LEMMA FailReadInBooks ==
  ASSUME OneCall, plan = "releases", FailRead(Caller)
  PROVE  LedgerInv'
<1> USE ReleaseFacts, DayFacts DEF FailRead, Continue, Goto, End, files, drafts, world, DraftOutbox
<1>t. task[Caller] \in TaskType /\ task[Caller].id \in Payloads
  BY DEF CallInv, AdminLabels
<1>1. \A q \in TodaysReservations : Bucket(q)' = Bucket(q)
  BY <1>t DEF Bucket, StatusBucket, Status, Under, From, Moves, TodaysReservations, FoundOrLeft, OfTheDay, TypeOK, OutboxDrafted
<1>2. \A q \in Payloads : payload'[q] # Null /\ outbox'[q] = Null =>
         Under(q, {"reserveRead", "reserveWrite", "addRead", "addWrite"})'
  BY <1>t DEF Under, TypeOK, FoundOrLeft, OfTheDay, Status, OutboxDrafted
<1> QED
  BY <1>1, <1>2, LedgerStays

LEMMA FailWriteInBooks ==
  ASSUME OneCall, plan = "releases", FailWrite(Caller)
  PROVE  LedgerInv'
<1> USE ReleaseFacts, DayFacts DEF FailWrite, Continue, Goto, End, files, drafts, world, WriteOutbox, AfterTransfer
<1>t. task[Caller] \in TaskType /\ task[Caller].id \in Payloads
  BY DEF CallInv, AdminLabels
<1>1. \A q \in TodaysReservations : Bucket(q)' = Bucket(q)
  BY <1>t DEF Bucket, StatusBucket, Status, Under, From, Moves, TodaysReservations, FoundOrLeft, OfTheDay, TypeOK, OutboxDrafted
<1>2. \A q \in Payloads : payload'[q] # Null /\ outbox'[q] = Null =>
         Under(q, {"reserveRead", "reserveWrite", "addRead", "addWrite"})'
  BY <1>t DEF Under, TypeOK, FoundOrLeft, OfTheDay, Status, OutboxDrafted
<1> QED
  BY <1>1, <1>2, LedgerStays

LEMMA MoveReadInBooks ==
  ASSUME OneCall, plan = "releases", MoveRead(Caller)
  PROVE  LedgerInv'
<1> USE ReleaseFacts, DayFacts DEF MoveRead, Continue, Goto, End, files, drafts, world, DraftStore, AfterMove, AfterTransfer, Moves
<1>t. task[Caller] \in TaskType /\ task[Caller].id \in Payloads
  BY DEF CallInv, AdminLabels
<1>1. \A q \in TodaysReservations : Bucket(q)' = Bucket(q)
  BY <1>t , NullAssumption DEF Bucket, StatusBucket, Status, Under, From, Moves, TodaysReservations, FoundOrLeft, OfTheDay, TypeOK, OutboxDrafted
<1>2. \A q \in Payloads : payload'[q] # Null /\ outbox'[q] = Null =>
         Under(q, {"reserveRead", "reserveWrite", "addRead", "addWrite"})'
  BY <1>t DEF Under, TypeOK, FoundOrLeft, OfTheDay, Status, OutboxDrafted
<1> QED
  BY <1>1, <1>2, LedgerStays

LEMMA StatusReadInBooks ==
  ASSUME OneCall, plan = "releases", StatusRead(Caller)
  PROVE  LedgerInv'
<1> USE ReleaseFacts, DayFacts DEF StatusRead, Continue, Goto, End, files, drafts, world, DraftOutbox
<1>t. task[Caller] \in TaskType /\ task[Caller].id \in Payloads
  BY DEF CallInv, AdminLabels
<1>0. outbox[task[Caller].id] # Null
  BY <1>t DEF FoundOrLeft, Status, TaskType, Statuses
<1>1. \A q \in TodaysReservations : Bucket(q)' = Bucket(q)
  BY <1>t, <1>0 DEF Bucket, StatusBucket, Status, Under, From, Moves, TodaysReservations, FoundOrLeft, OfTheDay, TypeOK, OutboxDrafted
<1>2. \A q \in Payloads : payload'[q] # Null /\ outbox'[q] = Null =>
         Under(q, {"reserveRead", "reserveWrite", "addRead", "addWrite"})'
  BY <1>t, <1>0 DEF Under, TypeOK, FoundOrLeft, OfTheDay, Status, OutboxDrafted
<1> QED
  BY <1>1, <1>2, LedgerStays

LEMMA StatusWriteInBooks ==
  ASSUME OneCall, plan = "releases", StatusWrite(Caller)
  PROVE  LedgerInv'
<1> USE ReleaseFacts, DayFacts DEF StatusWrite, Continue, Goto, End, files, drafts, world, WriteOutbox, Moves
<1>t. task[Caller] \in TaskType /\ task[Caller].id \in Payloads
  BY DEF CallInv, AdminLabels
<1>0. outbox[task[Caller].id] # Null
  BY <1>t DEF FoundOrLeft, Status, TaskType, Statuses
<1>b. /\ \A q \in Payloads : q # task[Caller].id => outbox'[q] = outbox[q]
      /\ outbox'[task[Caller].id] =
           [status |-> task[Caller].to,
            hashed |-> outbox[task[Caller].id].hashed \/ task[Caller].op = "status"]
  BY <1>t DEF OutboxDrafted, TypeOK, OutboxType
<1>c. outbox[task[Caller].id].hashed \in BOOLEAN
  BY <1>0, <1>t DEF TypeOK, OutboxType
<1>e. \/ outbox'[task[Caller].id] = [status |-> task[Caller].to, hashed |-> TRUE]
      \/ /\ outbox'[task[Caller].id] = [status |-> task[Caller].to, hashed |-> FALSE]
         /\ ~outbox[task[Caller].id].hashed /\ task[Caller].op # "status"
  BY <1>b, <1>c
<1>d. \A p \in Payloads : p = task[Caller].id => Status(p)' = task[Caller].to
  BY <1>e, <1>t, EntryNotNull DEF Status, Statuses, TaskType
<1>m. \A q \in Payloads : q # task[Caller].id => Bucket(q)' = Bucket(q)
  BY <1>t, <1>b DEF Bucket, StatusBucket, Status, Under, TypeOK
<1>n. ASSUME NEW q \in TodaysReservations, q = task[Caller].id PROVE Bucket(q)' = Bucket(q)
  <2>1. q \in Payloads /\ task[Caller].lowValue
    BY <1>n DEF TodaysReservations, OfTheDay
  <2>2. Status(q) = task[Caller].was
    BY <1>n, <1>t DEF FoundOrLeft
  <2>3. CASE task[Caller].op = "release"
    <3>1. Bucket(q) = "expired" /\ task[Caller].to = "expired"
      BY <1>n, <2>3 DEF Bucket, Under, FoundOrLeft
    <3>2. pc'[Caller] = "idle"
      BY <2>3 DEF TypeOK
    <3>3. Bucket(q)' = "expired"
      BY <1>d, <1>n, <2>1, <3>1, <3>2 DEF Bucket, StatusBucket, Under
    <3> QED
      BY <3>1, <3>3
  <2>4. CASE task[Caller].op = "status"
    <3>1. task[Caller].was \in {"submitted", "confirmed", "failed"}
      BY <1>n, <1>0, <2>1, <2>2, <2>4 DEF FoundOrLeft, EntriesFollow, Status
    <3>2. Bucket(q) = task[Caller].was
      BY <2>2, <2>4, <3>1 DEF Bucket, StatusBucket, Under
    <3>3. CASE task[Caller].was = "submitted"
      <4>1. pc'[Caller] = "moveRead" /\ task' = task
        BY <2>1, <2>4, <3>3 DEF TypeOK
      <4> QED
        BY <1>n, <2>4, <3>2, <3>3, <4>1 DEF Bucket, Under, From
    <3>4. CASE task[Caller].was \in {"confirmed", "failed"}
      <4>1. task[Caller].to = task[Caller].was
        BY <1>n, <1>0, <2>1, <2>2, <2>4, <3>4
           DEF FoundOrLeft, EntriesFollow, Status, StatusIsWarranted, Warranted
      <4>2. pc'[Caller] = "idle"
        BY <2>4, <3>4 DEF TypeOK
      <4>3. Bucket(q)' = task[Caller].to
        BY <1>d, <1>n, <2>1, <3>4, <4>1, <4>2 DEF Bucket, StatusBucket, Under
      <4> QED
        BY <3>2, <4>1, <4>3
    <3> QED
      BY <3>1, <3>3, <3>4
  <2> QED
    BY <2>3, <2>4 DEF FoundOrLeft
<1>1. \A q \in TodaysReservations : Bucket(q)' = Bucket(q)
  BY <1>m, <1>n DEF TodaysReservations
<1>2. \A q \in Payloads : payload'[q] # Null /\ outbox'[q] = Null =>
         Under(q, {"reserveRead", "reserveWrite", "addRead", "addWrite"})'
  BY <1>t, <1>0, <1>b, <1>c, <1>e, <1>d DEF Under, TypeOK, FoundOrLeft, OfTheDay, Status, OutboxDrafted
<1> QED
  BY <1>1, <1>2, LedgerStays

LEMMA AskInBooks ==
  ASSUME OneCall, plan = "releases", Ask(Caller)
  PROVE  LedgerInv'
<1> USE ReleaseFacts, DayFacts DEF Ask, End, Goto, files, drafts, world
<1>t. task[Caller] \in TaskType /\ task[Caller].id \in Payloads /\ task[Caller].op = "status"
  BY DEF CallInv, AdminLabels
<1>0. /\ pc'[Caller] \in {"idle", "statusRead"}
      /\ pc'[Caller] = "statusRead" => task'[Caller].op = "status"
  BY <1>t DEF TypeOK, TaskType
<1>1. \A q \in TodaysReservations : Bucket(q)' = Bucket(q)
  BY <1>t, <1>0 DEF Bucket, StatusBucket, Status, Under
<1>2. \A q \in Payloads : payload'[q] # Null /\ outbox'[q] = Null =>
         Under(q, {"reserveRead", "reserveWrite", "addRead", "addWrite"})'
  BY <1>0 DEF Under
<1> QED
  BY <1>1, <1>2, LedgerStays

LEMMA SignInBooks ==
  ASSUME OneCall, plan = "releases", Sign(Caller)
  PROVE  LedgerInv'
<1> USE ReleaseFacts, DayFacts DEF Sign, Continue, Goto, files, drafts
<1>t. task[Caller] \in TaskType /\ task[Caller].id \in Payloads
  BY DEF CallInv, AdminLabels
<1>0. /\ \A q \in Payloads : q # task[Caller].id => payload'[q] = payload[q]
      /\ payload'[task[Caller].id] =
           [amount |-> task[Caller].amount, lowValue |-> task[Caller].lowValue, day |-> today]
      /\ payload[task[Caller].id] = Null
      /\ task' = task /\ outbox' = outbox
      /\ pc'[Caller] = IF task[Caller].lowValue THEN "reserveRead" ELSE "addRead"
  BY <1>t DEF TypeOK, OfTheDay
<1>1. \A q \in Payloads : q # task[Caller].id =>
        /\ Bucket(q)' = Bucket(q)
        /\ q \in TodaysReservations' <=> q \in TodaysReservations
  BY <1>0 DEF Bucket, StatusBucket, Status, Under, TodaysReservations
<1>2. ASSUME NEW b \in Buckets PROVE In(b)' = In(b) /\ task[Caller].id \notin In(b)
  <2>1. task[Caller].id \notin In(b)
    BY <1>0 DEF In, TodaysReservations
  <2>2. ASSUME NEW q, q = task[Caller].id PROVE q \notin In(b)'
    <3>1. CASE task[Caller].lowValue
      <4>1. Bucket(q)' = "none"
        BY <1>0, <2>2, <3>1 DEF Bucket, Under
      <4> QED
        BY <4>1 DEF In, Buckets
    <3>2. CASE ~task[Caller].lowValue
      BY <1>0, <2>2, <3>2 DEF In, TodaysReservations
    <3> QED
      BY <3>1, <3>2
  <2>3. \A q \in Payloads : q # task[Caller].id => (q \in In(b)' <=> q \in In(b))
    BY <1>1 DEF In
  <2>4. In(b)' \subseteq Payloads /\ In(b) \subseteq Payloads
    BY DEF In, TodaysReservations
  <2> QED
    BY <2>1, <2>2, <2>3, <2>4
<1>3. ASSUME NEW b \in Buckets PROVE store'.policy[b] = ValueOf(payload', In(b)')
  <2>1. IsFiniteSet(In(b)) /\ In(b) \subseteq Payloads
    BY InIsFinite DEF OneCall, PlanIInv
  <2>2. \A q \in In(b) : payload[q] = payload'[q]
    BY <1>0, <1>2, <2>1
  <2>3. ValueOf(payload, In(b)) = ValueOf(payload', In(b))
    BY <2>1, <2>2, ValueLater
  <2> QED
    BY <1>2, <2>3
<1>4. \A q \in Payloads : payload'[q] # Null /\ outbox'[q] = Null =>
         Under(q, {"reserveRead", "reserveWrite", "addRead", "addWrite"})'
  BY <1>0 DEF Under
<1> QED
  BY <1>3, <1>4, LedgerNext

LEMMA BooksOfDay ==
  ASSUME TypeOK, today = 1, NEW books \in Policy, books.day = 1, NEW n \in Nat, NEW b \in Buckets
  PROVE  /\ Reserved(books, n)[b] = IF b = "reserved" THEN books[b] + n ELSE books[b]
         /\ \A from \in Buckets, to \in Buckets : from # to =>
              Moved(books, n, from, to)[b] =
                IF b = from THEN Less(books[b], n)
                ELSE IF b = to THEN books[b] + n ELSE books[b]
<1>1. Current(books) = books
  BY PolicyOfDay
<1>2. DOMAIN books = {"day"} \cup Buckets
  BY DEF Policy
<1>3. Reserved(books, n)[b] = IF b = "reserved" THEN books[b] + n ELSE books[b]
  BY <1>1, <1>2 DEF Reserved, Buckets
<1>4. ASSUME NEW from \in Buckets, NEW to \in Buckets, from # to
      PROVE  Moved(books, n, from, to)[b] =
                IF b = from THEN Less(books[b], n)
                ELSE IF b = to THEN books[b] + n ELSE books[b]
  <2> DEFINE less == [books EXCEPT ![from] = Less(@, n)]
  <2>1. /\ less[b] = IF b = from THEN Less(books[b], n) ELSE books[b]
        /\ DOMAIN less = {"day"} \cup Buckets
    BY <1>2
  <2> HIDE DEF less
  <2>2. [less EXCEPT ![to] = @ + n][b] = IF b = to THEN less[b] + n ELSE less[b]
    BY <2>1
  <2>3. Moved(books, n, from, to) = [less EXCEPT ![to] = @ + n]
    BY <1>1, Zenon DEF Moved, less
  <2> QED
    BY <1>4, <2>1, <2>2, <2>3
<1> QED
  BY <1>3, <1>4

LEMMA ReserveWriteInBooks ==
  ASSUME OneCall, plan = "releases", ReserveWrite(Caller)
  PROVE  LedgerInv'
<1> DEFINE t == task[Caller]
<1>t. t \in TaskType /\ t.id \in Payloads /\ t.amount \in Nat /\ payload[t.id] # Null
  BY DayFacts, ReleaseFacts DEF ReserveWrite, CallInv, AdminLabels, TaskType
<1>0. /\ store'.policy = Reserved(store.policy, t.amount)
      /\ payload' = payload /\ today' = today /\ outbox' = outbox /\ task' = task
      /\ pc'[Caller] = "addRead" /\ pc[Caller] = "reserveWrite"
      /\ t.lowValue = payload[t.id].lowValue /\ t.lowValue /\ outbox[t.id] = Null
      /\ t.amount = payload[t.id].amount
  BY DayFacts, ReleaseFacts
     DEF ReserveWrite, WriteStore, world, Continue, Goto, TypeOK, OfTheDay, FoundOrLeft
<1>1. t.id \in TodaysReservations /\ TodaysReservations' = TodaysReservations
  BY <1>t, <1>0, DayFacts, ReleaseFacts DEF TodaysReservations
<1>2. Bucket(t.id) = "none" /\ \A q : q = t.id => Bucket(q)' = "reserved"
  BY <1>0 DEF Bucket, Under, StatusBucket, Status
<1>3. \A q \in Payloads : q # t.id => Bucket(q)' = Bucket(q)
  BY <1>0 DEF Bucket, Under, StatusBucket, Status
<1>4. ASSUME NEW b \in Buckets
      PROVE  /\ t.id \notin In(b)
             /\ In(b)' = IF b = "reserved" THEN In(b) \cup {t.id} ELSE In(b)
  <2>1. t.id \notin In(b)
    BY <1>2 DEF In, Buckets
  <2>2. \A q \in Payloads : q # t.id => (q \in In(b)' <=> q \in In(b))
    BY <1>1, <1>3 DEF In
  <2>3. \A q : q = t.id => (q \in In(b)' <=> b = "reserved")
    BY <1>1, <1>2 DEF In
  <2>4. In(b)' \subseteq Payloads /\ In(b) \subseteq Payloads
    BY DEF In, TodaysReservations
  <2> HIDE DEF t
  <2> QED
    BY <1>t, <2>1, <2>2, <2>3, <2>4
<1>5. ASSUME NEW b \in Buckets PROVE store'.policy[b] = ValueOf(payload', In(b)')
  <2>1. /\ IsFiniteSet(In(b)) /\ In(b) \subseteq Payloads
        /\ \A q \in In(b) : payload[q].amount \in Nat
    BY InIsFinite, DayFacts, ReleaseFacts DEF OneCall, PlanIInv
  <2>2. ValueOf(payload, In(b) \cup {t.id}) = payload[t.id].amount + ValueOf(payload, In(b))
    <3> HIDE DEF t
    <3> QED
      BY <1>t, <1>0, <1>4, <2>1, ValueAdds
  <2>3. Reserved(store.policy, t.amount)[b] =
          IF b = "reserved" THEN store.policy[b] + t.amount ELSE store.policy[b]
    BY <1>t, BooksOfDay, DayFacts, ReleaseFacts
  <2>4. store.policy[b] = ValueOf(payload, In(b)) /\ ValueOf(payload, In(b)) \in Nat
    BY <2>1, ValueType, ReleaseFacts
  <2> HIDE DEF t
  <2> QED
    BY <1>t, <1>0, <1>4, <2>2, <2>3, <2>4
<1>6. \A q \in Payloads : payload'[q] # Null /\ outbox'[q] = Null =>
         Under(q, {"reserveRead", "reserveWrite", "addRead", "addWrite"})'
  BY <1>0, ReleaseFacts DEF Under
<1> QED
  BY <1>5, <1>6, LedgerNext

LEMMA MoveWriteInBooks ==
  ASSUME OneCall, plan = "releases", MoveWrite(Caller)
  PROVE  LedgerInv'
<1> DEFINE t == task[Caller]
           p == t.id
           from == From(t)
           to == t.to
           n == t.amount
<1>t. /\ t \in TaskType /\ p \in Payloads /\ n \in Nat
      /\ from \in Buckets /\ to \in Buckets /\ from # to /\ Moves(t)
      /\ OneDay /\ pc[Caller] = "moveWrite"
  BY MoveType, ReleaseFacts DEF MoveWrite
<1>0. /\ store'.policy = Moved(store.policy, n, from, to)
      /\ payload' = payload /\ today' = today /\ outbox' = outbox
      /\ IF t.op = "release" THEN pc'[Caller] = "statusRead" /\ task' = task ELSE pc'[Caller] = "idle"
      /\ t.lowValue = payload[p].lowValue /\ t.lowValue /\ n = payload[p].amount
      /\ Status(p) = IF t.op = "release" THEN t.was ELSE t.to
  <2>1. /\ store'.policy = Moved(store.policy, n, from, to)
        /\ payload' = payload /\ today' = today /\ outbox' = outbox
    BY <1>t, DayFacts DEF MoveWrite, WriteStore, world, OfTheDay
  <2>2. /\ t.lowValue = payload[p].lowValue /\ t.lowValue /\ n = payload[p].amount
        /\ Status(p) = IF t.op = "release" THEN t.was ELSE t.to
    BY <1>t, DayFacts DEF OfTheDay, FoundOrLeft, Moves
  <2>3. t.op # "drain"
    BY <1>t, DayFacts DEF OfTheDay
  <2>4. IF t.op = "release" THEN pc'[Caller] = "statusRead" /\ task' = task ELSE pc'[Caller] = "idle"
    BY <1>t, <2>3, DayFacts DEF MoveWrite, AfterMove, AfterTransfer, Continue, End, Goto, TypeOK
  <2> QED
    BY <2>1, <2>2, <2>4
<1>1. p \in TodaysReservations /\ TodaysReservations' = TodaysReservations /\ outbox[p] # Null
  <2>1. outbox[p] # Null
    BY <1>t, <1>0 DEF Status, TaskType, Statuses
  <2>2. payload[p] # Null
    BY <1>t, <2>1, DayFacts DEF StatusIsWarranted, Warranted
  <2> QED
    BY <1>t, <1>0, <2>1, <2>2, DayFacts DEF TodaysReservations
<1>2. Bucket(p) = from /\ \A q : q = p => Bucket(q)' = to
  <2>1. Bucket(p) = from
    BY <1>t DEF Bucket, Under
  <2>2. ASSUME NEW q, q = p PROVE Bucket(q)' = to
    <3>1. t.op = "release" => to = "expired"
      BY <1>t, DayFacts DEF FoundOrLeft
    <3>2. CASE t.op = "release"
      BY <1>0, <2>2, <3>1, <3>2 DEF Bucket, Under
    <3>3. CASE t.op # "release"
      <4>1. Status(q)' = to /\ to \notin {"none", "signed"}
        BY <1>t, <1>0, <2>2, <3>3 DEF Status, TaskType, Statuses
      <4> QED
        BY <1>0, <3>3, <4>1 DEF Bucket, Under, StatusBucket
    <3> QED
      BY <3>2, <3>3
  <2> QED
    BY <2>1, <2>2
<1>3. \A q \in Payloads : q # p => Bucket(q)' = Bucket(q)
  BY <1>t, <1>0 DEF Bucket, Under, StatusBucket, Status
<1>4. ASSUME NEW b \in Buckets
      PROVE  /\ b = from => p \in In(b) /\ In(b)' = In(b) \ {p}
             /\ b = to => p \notin In(b) /\ In(b)' = In(b) \cup {p}
             /\ b # from /\ b # to => In(b)' = In(b)
  <2>1. p \in In(b) <=> b = from
    BY <1>1, <1>2 DEF In
  <2>2. \A q \in Payloads : q # p => (q \in In(b)' <=> q \in In(b))
    BY <1>1, <1>3 DEF In
  <2>3. \A q : q = p => (q \in In(b)' <=> b = to)
    BY <1>1, <1>2 DEF In
  <2>4. In(b)' \subseteq Payloads /\ In(b) \subseteq Payloads
    BY DEF In, TodaysReservations
  <2> HIDE DEF p, from, to
  <2> QED
    BY <1>t, <2>1, <2>2, <2>3, <2>4
<1>5. ASSUME NEW b \in Buckets PROVE store'.policy[b] = ValueOf(payload', In(b)')
  <2>1. /\ IsFiniteSet(In(b)) /\ In(b) \subseteq Payloads
        /\ \A q \in In(b) : payload[q].amount \in Nat
    BY InIsFinite, DayFacts, ReleaseFacts DEF OneCall, PlanIInv
  <2>2. Moved(store.policy, n, from, to)[b] =
          IF b = from THEN Less(store.policy[b], n)
          ELSE IF b = to THEN store.policy[b] + n ELSE store.policy[b]
    <3>1. TypeOK /\ today = 1 /\ store.policy \in Policy /\ store.policy.day = 1
      BY <1>t, DayFacts
    <3> HIDE DEF from, to, n
    <3> QED
      BY <1>t, <3>1, BooksOfDay
  <2>3. store.policy[b] = ValueOf(payload, In(b)) /\ ValueOf(payload, In(b)) \in Nat
    BY <2>1, ValueType, ReleaseFacts
  <2> HIDE DEF p, from, to, n
  <2>4. CASE b = from
    <3>1. p \in In(b) /\ IsFiniteSet(In(b) \ {p}) /\ p \notin In(b) \ {p}
          /\ (In(b) \ {p}) \cup {p} = In(b)
      BY <1>4, <2>1, <2>4, FS_Subset
    <3>2. ValueOf(payload, In(b)) = n + ValueOf(payload, In(b) \ {p})
      BY <1>0, <2>1, <3>1, ValueAdds
    <3>3. ValueOf(payload, In(b) \ {p}) \in Nat
      BY <2>1, <3>1, ValueType
    <3>4. Less(store.policy[b], n) = ValueOf(payload, In(b) \ {p})
      BY <1>t, <2>3, <3>2, <3>3 DEF Less
    <3> QED
      BY <1>0, <1>4, <2>2, <2>4, <3>4
  <2>5. CASE b = to
    <3>1. ValueOf(payload, In(b) \cup {p}) = n + ValueOf(payload, In(b))
      BY <1>t, <1>0, <1>4, <2>1, <2>5, ValueAdds
    <3>2. b # from /\ In(b)' = In(b) \cup {p}
      BY <1>t, <1>4, <2>5
    <3>3. store'.policy[b] = store.policy[b] + n
      BY <1>0, <2>2, <2>5, <3>2
    <3>4. store'.policy[b] = n + ValueOf(payload, In(b))
      BY <1>t, <2>3, <3>3
    <3>5. payload' = payload
      BY <1>0
    <3> QED
      BY <3>1, <3>2, <3>4, <3>5
  <2>6. CASE b # from /\ b # to
    BY <1>0, <1>4, <2>2, <2>3, <2>6
  <2> QED
    BY <2>4, <2>5, <2>6
<1>6. \A q \in Payloads : payload'[q] # Null /\ outbox'[q] = Null =>
         Under(q, {"reserveRead", "reserveWrite", "addRead", "addWrite"})'
  BY <1>t, <1>0, ReleaseFacts DEF Under
<1> QED
  BY <1>5, <1>6, LedgerNext

LEMMA LedgerAround ==
  ASSUME PlanIInv, plan = "releases", UNCHANGED <<today, store, outbox, payload, pc, task>>
  PROVE  LedgerInv'
<1>1. LedgerInv
  BY DEF PlanIInv
<1>2. /\ TodaysReservations' = TodaysReservations
      /\ \A q : Bucket(q)' = Bucket(q)
  BY DEF TodaysReservations, Bucket, StatusBucket, Status, Under
<1>3. \A b : In(b)' = In(b)
  BY <1>2 DEF In
<1>4. \A b \in Buckets : Value(In(b))' = ValueOf(payload', In(b)')
  BY Zenon DEF Value, ValueOf, MapThenSumSet, MapThenFoldSet
<1>5. \A b \in Buckets : store'.policy[b] = Value(In(b))'
  BY <1>1, <1>3, <1>4, ValueIsNow DEF LedgerInv
<1> QED
  BY <1>1, <1>5 DEF LedgerInv, Under

LEMMA LedgerExcludes ==
  ASSUME OneCall, plan = "releases",
         \/ \E p \in Payloads : StartForget(Caller, p)
         \/ \E p \in Payloads, amount \in Amounts : StartDrain(Caller, p, amount)
         \/ StartEnable(Caller) \/ StartDisable(Caller, "disable") \/ StartDisable(Caller, "pause")
         \/ ForgetWrite(Caller) \/ Throw(Caller) \/ Crash(Caller)
  PROVE  FALSE
<1>1. ASSUME NEW p \in Payloads, StartForget(Caller, p) PROVE FALSE
  BY <1>1, ReleaseFacts, DayFacts DEF StartForget, Begin, Goto, TaskOn, Task, TypeOK
<1>2. ASSUME NEW p \in Payloads, NEW amount \in Amounts, StartDrain(Caller, p, amount)
      PROVE  FALSE
  BY <1>2, ReleaseFacts, DayFacts DEF StartDrain, Begin, Goto, Task, TypeOK
<1>3. ASSUME NEW o \in {"disable", "pause"}, StartDisable(Caller, o) PROVE FALSE
  BY <1>3, ReleaseFacts, DayFacts DEF StartDisable, Begin, Goto, AdminTask, Task, TypeOK
<1>4. CASE StartEnable(Caller)
  BY <1>4, ReleaseFacts, DayFacts DEF StartEnable, Begin, Goto, AdminTask, Task, TypeOK
<1>5. CASE ForgetWrite(Caller)
  BY <1>5, ReleaseFacts, DayFacts DEF ForgetWrite, FoundOrLeft, OfTheDay
<1>6. CASE Throw(Caller) \/ Crash(Caller)
  BY <1>6, ReleaseFacts, DayFacts DEF Throw, Crash, Fault, TypeOK
<1> QED
  BY <1>1, <1>2, <1>3, <1>4, <1>5, <1>6

LEMMA LedgerCall ==
  ASSUME OneCall, plan = "releases", CallStep(Caller)
  PROVE  LedgerInv'
<1>1. ASSUME NEW p \in Payloads, StartOn(Caller, p) PROVE LedgerInv'
  BY <1>1, LedgerExcludes, StartBuildInBooks, StartReleaseInBooks, StartRetryInBooks,
     StartStatusInBooks DEF StartOn
<1>2. CASE Start(Caller)
  BY <1>1, <1>2, LedgerExcludes DEF Start
<1>3. CASE BuildStep(Caller)
  BY <1>3, SignInBooks, SignRefusedInBooks, ReserveReadInBooks, ReserveWriteInBooks,
     AddReadInBooks, AddWriteInBooks DEF BuildStep
<1>4. CASE SubmitStep(Caller)
  BY <1>4, SubmitAcceptedInBooks, SubmitLostInBooks, SubmitRejectedInBooks, AttemptReadInBooks,
     AttemptWriteInBooks, FailReadInBooks, FailWriteInBooks DEF SubmitStep
<1>5. CASE BooksStep(Caller)
  BY <1>5, MoveReadInBooks, MoveWriteInBooks, AskInBooks, StatusReadInBooks, StatusWriteInBooks
     DEF BooksStep
<1>6. CASE AdminStep(Caller)
  BY <1>6, LedgerExcludes, NoAdminOnDay, ReleaseFacts DEF AdminStep
<1>7. CASE Throw(Caller) \/ Crash(Caller)
  BY <1>7, LedgerExcludes
<1> QED
  BY <1>2, <1>3, <1>4, <1>5, <1>6, <1>7 DEF CallStep

LEMMA LedgerStep ==
  ASSUME PlanIInv, plan = "releases", [PlanNext]_<<vars, plan>>, IInv'
  PROVE  LedgerInv'
<1>0. plan' = plan /\ Sequential /\ OneDay
  BY StepIs DEF OneDay, Sequential
<1>1. ASSUME NEW c \in Calls, CallStep(c), InPlan' PROVE LedgerInv'
  <2>1. c = Caller
    BY <1>0, <1>1, WhoActs
  <2>2. OneCall /\ CallStep(Caller)
    BY <1>0, <1>1, <2>1 DEF OneCall
  <2> QED
    BY <2>2, LedgerCall
<1>2. ASSUME NEW p \in Payloads, SubmitElsewhere(p) \/ Settle(p) PROVE LedgerInv'
  BY <1>0, <1>2, LedgerAround DEF SubmitElsewhere, Settle, files, drafts
<1>3. ASSUME DayPasses, InPlan' PROVE LedgerInv'
  <2>1. today = 1 /\ today' <= 1
    BY <1>0, <1>3 DEF PlanIInv, DayInv, InPlan, PlanDays, OneDay
  <2> QED
    BY <1>3, <2>1 DEF DayPasses
<1>4. CASE UNCHANGED vars
  BY <1>0, <1>4, LedgerAround DEF vars, files, drafts, world
<1> QED
  BY <1>1, <1>2, <1>3, <1>4, StepIs

-----------------------------------------------------------------------------
(* The books of the plan with failures.                                    *)

(* A call that has ended holds nothing, and no call touches another's.     *)
LEMMA OthersWait ==
  ASSUME TypeOK, NEW c \in Calls, CallStep(c)
  PROVE  /\ \A d \in Calls \ {c} : task'[d] = task[d] /\ pc'[d] = pc[d]
         /\ pc'[c] = "idle" => task'[c] = Null
<1> DEFINE Goal == /\ \A d \in Calls \ {c} : task'[d] = task[d] /\ pc'[d] = pc[d]
                   /\ pc'[c] = "idle" => task'[c] = Null
<1> USE DEF TypeOK, Begin, Continue, End, Goto, DraftStore, DraftOutbox, AfterTransfer, AfterMove
<1>1. ASSUME NEW p \in Payloads, StartOn(c, p) PROVE Goal
  BY <1>1 DEF StartOn, StartDrain, StartBuild, StartRelease, StartRetry, StartStatus, StartForget
<1>2. CASE Start(c)
  BY <1>1, <1>2 DEF Start, StartEnable, StartDisable
<1>3. CASE BuildStep(c)
  BY <1>3 DEF BuildStep, Sign, SignRefused, ReserveRead, ReserveWrite, AddRead, AddWrite
<1>4. CASE SubmitStep(c)
  BY <1>4 DEF SubmitStep, SubmitAccepted, SubmitLost, SubmitRejected, AttemptRead,
              AttemptWrite, FailRead, FailWrite
<1>5. CASE Ask(c)
  <2>1. task' = [task EXCEPT ![c].to = "confirmed"] /\ pc' = [pc EXCEPT ![c] = "statusRead"]
          => Goal
    OBVIOUS
  <2>2. task' = [task EXCEPT ![c].to = "failed"] /\ pc' = [pc EXCEPT ![c] = "statusRead"]
          => Goal
    OBVIOUS
  <2>3. End(c) => Goal
    OBVIOUS
  <2> QED
    BY <1>5, <2>1, <2>2, <2>3 DEF Ask
<1>6. CASE MoveRead(c) \/ MoveWrite(c) \/ StatusRead(c) \/ StatusWrite(c)
  BY <1>6 DEF MoveRead, MoveWrite, StatusRead, StatusWrite
<1>7. CASE AdminStep(c)
  BY <1>7 DEF AdminStep, ForgetWrite, EnableWrite, DisableRead, DisableWrite, PauseRead, PauseWrite
<1>8. CASE Throw(c) \/ Crash(c)
  BY <1>8 DEF Throw, Crash
<1> QED
  BY <1>2, <1>3, <1>4, <1>5, <1>6, <1>7, <1>8 DEF CallStep, BooksStep

Spendable(q) ==
  /\ q \in TodaysReservations
  /\ \/ /\ \/ Status(q) \in {"signed", "submitted", "confirmed"}
           \/ outbox[q] = Null /\ task[Caller] # Null /\ task[Caller].id = q
        /\ ~Under(q, {"reserveRead", "reserveWrite"})
     \/ Under(q, {"moveRead", "moveWrite"}) /\ task[Caller].to = "failed"

LEMMA CoveredIs ==
  ASSUME Caller \in Calls, \A d \in Calls \ {Caller} : task[d] = Null
  PROVE  \A q : q \in Covered <=> Spendable(q)
BY DEF Covered, Live, InOutbox, UnderConstruction, TakenOut, Spendable, TodaysReservations

LEMMA CoveredNext ==
  ASSUME Caller \in Calls, \A d \in Calls \ {Caller} : task'[d] = Null
  PROVE  \A q : q \in Covered' <=> Spendable(q)'
BY DEF Covered, Live, InOutbox, UnderConstruction, TakenOut, Spendable, TodaysReservations

LEMMA FaultFacts ==
  ASSUME OneCall, plan = "faults", CallStep(Caller)
  PROVE  /\ OneDay
         /\ \A q \in Payloads : Status(q) # "expired"
         /\ Locked(store.policy) >= ValueOf(payload, Covered)
         /\ EntriesFollow
         /\ pc[Caller] # "idle" => OutboxDrafted(Caller)
         /\ \A q : q \in Covered <=> Spendable(q)
         /\ \A q : q \in Covered' <=> Spendable(q)'
         /\ PlanOps[plan] = {"build", "retry", "status", "forget"}
<1>1. Value(Covered) = ValueOf(payload, Covered)
  BY ValueIsNow
<1>2. \A d \in Calls \ {Caller} : task[d] = Null /\ task'[d] = Null
  <2>1. \A d \in Calls \ {Caller} : pc[d] = "idle" /\ task[d] = Null
    BY DEF OneCall, PlanIInv, SequentialInv, Busy
  <2> QED
    BY <2>1, OthersWait, OneCallFacts
<1>3. /\ \A q : q \in Covered <=> Spendable(q)
      /\ \A q : q \in Covered' <=> Spendable(q)'
  BY <1>2, CoveredIs, CoveredNext, OneCallFacts
<1> QED
  BY <1>1, <1>3, OneCallFacts DEF OneCall, PlanIInv, CoverInv, OneDay, PlanOps

LEMMA CoverNext ==
  ASSUME OneCall, plan = "faults", \A q \in Payloads : Status(q)' # "expired",
         Locked(store.policy)' >= ValueOf(payload', Covered')
  PROVE  CoverInv'
<1>1. Value(Covered)' = ValueOf(payload', Covered')
  BY Zenon DEF Value, ValueOf, MapThenSumSet, MapThenFoldSet
<1> QED
  BY <1>1 DEF CoverInv

LEMMA CoveredIsFinite ==
  ASSUME IsFiniteSet(Signed), TypeOK
  PROVE  /\ IsFiniteSet(Covered) /\ Covered \subseteq Payloads
         /\ \A p \in Covered : payload[p].amount \in Nat
<1>1. Covered \subseteq Signed /\ Covered \subseteq Payloads
  BY DEF Covered, Live, TakenOut, InOutbox, UnderConstruction, TodaysReservations, Signed
<1> QED
  BY <1>1, FS_Subset DEF TypeOK, PayloadType, Signed

LEMMA LockedType ==
  ASSUME OneCall, OneDay
  PROVE  Locked(store.policy) \in Nat
         /\ Locked(store.policy) = store.policy.reserved + store.policy.submitted + store.policy.confirmed
<1>1. /\ Current(store.policy) = store.policy
      /\ store.policy \in Policy
  BY DayFacts, PolicyOfDay
<1>2. Locked(store.policy) = store.policy.reserved + store.policy.submitted + store.policy.confirmed
  BY <1>1 DEF Locked
<1> QED
  BY <1>1, <1>2 DEF Policy, Buckets

LEMMA CoverShrinks ==
  ASSUME OneCall, plan = "faults", CallStep(Caller), UNCHANGED <<today, store>>,
         \A q \in Covered : payload'[q] = payload[q],
         \A q \in Payloads : Spendable(q)' => Spendable(q),
         \A q \in Payloads : Status(q)' # "expired"
  PROVE  CoverInv'
<1>1. Covered' \subseteq Covered
  <2>1. Covered' \subseteq Payloads
    BY DEF Covered, Live, TakenOut, InOutbox, UnderConstruction, TodaysReservations
  <2> QED
    BY <2>1, FaultFacts
<1>2. /\ IsFiniteSet(Covered) /\ IsFiniteSet(Covered')
      /\ \A p \in Covered : payload[p].amount \in Nat
  BY <1>1, CoveredIsFinite, FS_Subset, OneCallFacts DEF OneCall, PlanIInv
<1>3. /\ ValueOf(payload, Covered') <= ValueOf(payload, Covered)
      /\ ValueOf(payload, Covered) \in Nat /\ ValueOf(payload, Covered') \in Nat
  <2> DEFINE S == Covered
             T == Covered'
  <2>1. /\ IsFiniteSet(S) /\ T \in SUBSET S /\ IsFiniteSet(T)
        /\ \A p \in S : payload[p].amount \in Nat
    BY <1>1, <1>2
  <2> HIDE DEF S, T
  <2>2. ValueOf(payload, T) <= ValueOf(payload, S)
    BY <2>1, ValueParts
  <2>3. ValueOf(payload, S) \in Nat /\ ValueOf(payload, T) \in Nat
    BY <2>1, ValueType
  <2> QED
    BY <2>2, <2>3 DEF S, T
<1>4. ValueOf(payload', Covered') = ValueOf(payload, Covered')
  <2> DEFINE T == Covered'
  <2>1. IsFiniteSet(T) /\ \A q \in T : payload[q] = payload'[q]
    BY <1>1, <1>2
  <2> HIDE DEF T
  <2>2. ValueOf(payload, T) = ValueOf(payload', T)
    BY <2>1, ValueLater
  <2> QED
    BY <2>2 DEF T
<1>5. Locked(store.policy)' = Locked(store.policy)
  BY DEF Locked, Current, NewPolicy
<1>6. Locked(store.policy) >= ValueOf(payload, Covered) /\ Locked(store.policy) \in Nat
  BY FaultFacts, LockedType
<1>7. Locked(store.policy)' >= ValueOf(payload', Covered')
  BY <1>3, <1>4, <1>5, <1>6
<1> QED
  BY <1>7, CoverNext

LEMMA StartBuildCovers ==
  ASSUME OneCall, plan = "faults", CallStep(Caller), NEW p \in Payloads, NEW amount \in Amounts, NEW lowValue \in BOOLEAN, StartBuild(Caller, p, amount, lowValue)
  PROVE  CoverInv'
<1> USE FaultFacts, DayFacts DEF StartBuild, Begin, Goto, Task, files, drafts, world, Fresh
<1>1. \A q \in Payloads : Spendable(q)' => Spendable(q)
  BY NullAssumption DEF Spendable, Status, Under, Moves, TodaysReservations, FoundOrLeft, OfTheDay, TypeOK, OutboxDrafted, EntriesFollow, StatusIsWarranted, Warranted
<1>2. \A q \in Payloads : Status(q)' # "expired"
  BY DEF Status, OutboxDrafted, FoundOrLeft, OfTheDay
<1> QED
  BY <1>1, <1>2, CoverShrinks

LEMMA StartRetryCovers ==
  ASSUME OneCall, plan = "faults", CallStep(Caller), NEW p \in Payloads, StartRetry(Caller, p)
  PROVE  CoverInv'
<1> USE FaultFacts, DayFacts DEF StartRetry, Begin, Goto, Task, files, drafts, world, TaskOn
<1>1. \A q \in Payloads : Spendable(q)' => Spendable(q)
  BY NullAssumption DEF Spendable, Status, Under, Moves, TodaysReservations, FoundOrLeft, OfTheDay, TypeOK, OutboxDrafted, EntriesFollow, StatusIsWarranted, Warranted
<1>2. \A q \in Payloads : Status(q)' # "expired"
  BY DEF Status, OutboxDrafted, FoundOrLeft, OfTheDay
<1> QED
  BY <1>1, <1>2, CoverShrinks

LEMMA StartStatusCovers ==
  ASSUME OneCall, plan = "faults", CallStep(Caller), NEW p \in Payloads, StartStatus(Caller, p)
  PROVE  CoverInv'
<1> USE FaultFacts, DayFacts DEF StartStatus, Begin, Goto, Task, files, drafts, world, TaskOn
<1>1. \A q \in Payloads : Spendable(q)' => Spendable(q)
  BY NullAssumption DEF Spendable, Status, Under, Moves, TodaysReservations, FoundOrLeft, OfTheDay, TypeOK, OutboxDrafted, EntriesFollow, StatusIsWarranted, Warranted
<1>2. \A q \in Payloads : Status(q)' # "expired"
  BY DEF Status, OutboxDrafted, FoundOrLeft, OfTheDay
<1> QED
  BY <1>1, <1>2, CoverShrinks

LEMMA StartForgetCovers ==
  ASSUME OneCall, plan = "faults", CallStep(Caller), NEW p \in Payloads, StartForget(Caller, p)
  PROVE  CoverInv'
<1> USE FaultFacts, DayFacts DEF StartForget, Begin, Goto, Task, files, drafts, world, TaskOn
<1>1. \A q \in Payloads : Spendable(q)' => Spendable(q)
  BY NullAssumption DEF Spendable, Status, Under, Moves, TodaysReservations, FoundOrLeft, OfTheDay, TypeOK, OutboxDrafted, EntriesFollow, StatusIsWarranted, Warranted
<1>2. \A q \in Payloads : Status(q)' # "expired"
  BY DEF Status, OutboxDrafted, FoundOrLeft, OfTheDay
<1> QED
  BY <1>1, <1>2, CoverShrinks

LEMMA SignRefusedCovers ==
  ASSUME OneCall, plan = "faults", CallStep(Caller), SignRefused(Caller)
  PROVE  CoverInv'
<1> USE FaultFacts, DayFacts DEF SignRefused, Continue, Goto, End, files, drafts, world
<1>t. task[Caller] \in TaskType /\ task[Caller].id \in Payloads
  BY DEF CallInv, AdminLabels
<1>1. \A q \in Payloads : Spendable(q)' => Spendable(q)
  BY <1>t, NullAssumption DEF Spendable, Status, Under, Moves, TodaysReservations, FoundOrLeft, OfTheDay, TypeOK, OutboxDrafted, EntriesFollow, StatusIsWarranted, Warranted
<1>2. \A q \in Payloads : Status(q)' # "expired"
  BY <1>t DEF Status, OutboxDrafted, FoundOrLeft, OfTheDay
<1> QED
  BY <1>1, <1>2, CoverShrinks

LEMMA ReserveReadCovers ==
  ASSUME OneCall, plan = "faults", CallStep(Caller), ReserveRead(Caller)
  PROVE  CoverInv'
<1> USE FaultFacts, DayFacts DEF ReserveRead, Continue, Goto, End, files, drafts, world, DraftStore
<1>t. task[Caller] \in TaskType /\ task[Caller].id \in Payloads
  BY DEF CallInv, AdminLabels
<1>1. \A q \in Payloads : Spendable(q)' => Spendable(q)
  BY <1>t, NullAssumption DEF Spendable, Status, Under, Moves, TodaysReservations, FoundOrLeft, OfTheDay, TypeOK, OutboxDrafted, EntriesFollow, StatusIsWarranted, Warranted
<1>2. \A q \in Payloads : Status(q)' # "expired"
  BY <1>t DEF Status, OutboxDrafted, FoundOrLeft, OfTheDay
<1> QED
  BY <1>1, <1>2, CoverShrinks

LEMMA AddReadCovers ==
  ASSUME OneCall, plan = "faults", CallStep(Caller), AddRead(Caller)
  PROVE  CoverInv'
<1> USE FaultFacts, DayFacts DEF AddRead, Continue, Goto, End, files, drafts, world, DraftOutbox
<1>t. task[Caller] \in TaskType /\ task[Caller].id \in Payloads
  BY DEF CallInv, AdminLabels
<1>1. \A q \in Payloads : Spendable(q)' => Spendable(q)
  BY <1>t, NullAssumption DEF Spendable, Status, Under, Moves, TodaysReservations, FoundOrLeft, OfTheDay, TypeOK, OutboxDrafted, EntriesFollow, StatusIsWarranted, Warranted
<1>2. \A q \in Payloads : Status(q)' # "expired"
  BY <1>t DEF Status, OutboxDrafted, FoundOrLeft, OfTheDay
<1> QED
  BY <1>1, <1>2, CoverShrinks

LEMMA AddWriteCovers ==
  ASSUME OneCall, plan = "faults", CallStep(Caller), AddWrite(Caller)
  PROVE  CoverInv'
<1> USE FaultFacts, DayFacts DEF AddWrite, Continue, Goto, End, files, drafts, world, WriteOutbox, AfterTransfer
<1>t. task[Caller] \in TaskType /\ task[Caller].id \in Payloads
  BY DEF CallInv, AdminLabels
<1>b. /\ \A q \in Payloads : q # task[Caller].id => outbox'[q] = outbox[q]
      /\ outbox'[task[Caller].id] = NewEntry
  BY <1>t DEF OutboxDrafted, TypeOK, OutboxType
<1>0. \A p \in Payloads : p = task[Caller].id => Status(p)' = "signed"
  BY <1>b, <1>t, EntryNotNull DEF Status, NewEntry, Statuses, TaskType
<1>m. \A q \in Payloads : q # task[Caller].id /\ Spendable(q)' => Spendable(q)
  BY <1>t, <1>b DEF Spendable, Status, Under, TodaysReservations, TypeOK
<1>n. \A q \in Payloads : q = task[Caller].id /\ Spendable(q)' => Spendable(q)
  BY <1>t, NullAssumption DEF Spendable, Under, TodaysReservations, FoundOrLeft
<1>1. \A q \in Payloads : Spendable(q)' => Spendable(q)
  BY <1>t, <1>b, <1>0, <1>m, <1>n DEF Spendable, Status, Under, Moves, TodaysReservations, FoundOrLeft, OfTheDay, TypeOK, OutboxDrafted, EntriesFollow, StatusIsWarranted, Warranted
<1>2. \A q \in Payloads : Status(q)' # "expired"
  BY <1>t, <1>b, <1>0 DEF Status, OutboxDrafted, FoundOrLeft, OfTheDay
<1> QED
  BY <1>1, <1>2, CoverShrinks

LEMMA SubmitAcceptedCovers ==
  ASSUME OneCall, plan = "faults", CallStep(Caller), SubmitAccepted(Caller)
  PROVE  CoverInv'
<1> USE FaultFacts, DayFacts DEF SubmitAccepted, Continue, Goto, End, files, drafts, world, Pending
<1>t. task[Caller] \in TaskType /\ task[Caller].id \in Payloads
  BY DEF CallInv, AdminLabels
<1>1. \A q \in Payloads : Spendable(q)' => Spendable(q)
  BY <1>t, NullAssumption DEF Spendable, Status, Under, Moves, TodaysReservations, FoundOrLeft, OfTheDay, TypeOK, OutboxDrafted, EntriesFollow, StatusIsWarranted, Warranted
<1>2. \A q \in Payloads : Status(q)' # "expired"
  BY <1>t DEF Status, OutboxDrafted, FoundOrLeft, OfTheDay
<1> QED
  BY <1>1, <1>2, CoverShrinks

LEMMA SubmitLostCovers ==
  ASSUME OneCall, plan = "faults", CallStep(Caller), SubmitLost(Caller)
  PROVE  CoverInv'
<1> USE FaultFacts, DayFacts DEF SubmitLost, Continue, Goto, End, files, drafts, world, Pending
<1>t. task[Caller] \in TaskType /\ task[Caller].id \in Payloads
  BY DEF CallInv, AdminLabels
<1>0. outbox[task[Caller].id] # Null
  BY <1>t DEF FoundOrLeft, Status, TaskType, Statuses
<1>1. \A q \in Payloads : Spendable(q)' => Spendable(q)
  BY <1>t, <1>0, NullAssumption DEF Spendable, Status, Under, Moves, TodaysReservations, FoundOrLeft, OfTheDay, TypeOK, OutboxDrafted, EntriesFollow, StatusIsWarranted, Warranted
<1>2. \A q \in Payloads : Status(q)' # "expired"
  BY <1>t, <1>0 DEF Status, OutboxDrafted, FoundOrLeft, OfTheDay
<1> QED
  BY <1>1, <1>2, CoverShrinks

LEMMA SubmitRejectedCovers ==
  ASSUME OneCall, plan = "faults", CallStep(Caller), SubmitRejected(Caller)
  PROVE  CoverInv'
<1> USE FaultFacts, DayFacts DEF SubmitRejected, Continue, Goto, End, files, drafts, world
<1>t. task[Caller] \in TaskType /\ task[Caller].id \in Payloads
  BY DEF CallInv, AdminLabels
<1>0. outbox[task[Caller].id] # Null
  BY <1>t DEF FoundOrLeft, Status, TaskType, Statuses
<1>1. \A q \in Payloads : Spendable(q)' => Spendable(q)
  BY <1>t, <1>0, NullAssumption DEF Spendable, Status, Under, Moves, TodaysReservations, FoundOrLeft, OfTheDay, TypeOK, OutboxDrafted, EntriesFollow, StatusIsWarranted, Warranted
<1>2. \A q \in Payloads : Status(q)' # "expired"
  BY <1>t, <1>0 DEF Status, OutboxDrafted, FoundOrLeft, OfTheDay
<1> QED
  BY <1>1, <1>2, CoverShrinks

LEMMA AttemptReadCovers ==
  ASSUME OneCall, plan = "faults", CallStep(Caller), AttemptRead(Caller)
  PROVE  CoverInv'
<1> USE FaultFacts, DayFacts DEF AttemptRead, Continue, Goto, End, files, drafts, world, DraftOutbox
<1>t. task[Caller] \in TaskType /\ task[Caller].id \in Payloads
  BY DEF CallInv, AdminLabels
<1>0. outbox[task[Caller].id] # Null
  BY <1>t DEF FoundOrLeft, Status, TaskType, Statuses
<1>1. \A q \in Payloads : Spendable(q)' => Spendable(q)
  BY <1>t, <1>0, NullAssumption DEF Spendable, Status, Under, Moves, TodaysReservations, FoundOrLeft, OfTheDay, TypeOK, OutboxDrafted, EntriesFollow, StatusIsWarranted, Warranted
<1>2. \A q \in Payloads : Status(q)' # "expired"
  BY <1>t, <1>0 DEF Status, OutboxDrafted, FoundOrLeft, OfTheDay
<1> QED
  BY <1>1, <1>2, CoverShrinks

LEMMA AttemptWriteCovers ==
  ASSUME OneCall, plan = "faults", CallStep(Caller), AttemptWrite(Caller)
  PROVE  CoverInv'
<1> USE FaultFacts, DayFacts DEF AttemptWrite, Continue, Goto, End, files, drafts, world, WriteOutbox, AfterTransfer, Moves
<1>t. task[Caller] \in TaskType /\ task[Caller].id \in Payloads
  BY DEF CallInv, AdminLabels
<1>b. /\ \A q \in Payloads : q # task[Caller].id => outbox'[q] = outbox[q]
      /\ outbox'[task[Caller].id] = [status |-> "submitted", hashed |-> TRUE]
  BY <1>t DEF OutboxDrafted, TypeOK, OutboxType
<1>0. \A p \in Payloads : p = task[Caller].id => Status(p)' = "submitted"
  BY <1>b, <1>t, EntryNotNull DEF Status, NewEntry, Statuses, TaskType
<1>m. \A q \in Payloads : q # task[Caller].id /\ Spendable(q)' => Spendable(q)
  BY <1>t, <1>b DEF Spendable, Status, Under, TodaysReservations, TypeOK
<1>n. \A q \in Payloads : q = task[Caller].id /\ Spendable(q)' => Spendable(q)
  <2>1. \A q \in Payloads : q = task[Caller].id => Status(q) \in {"signed", "submitted"}
    BY <1>t DEF FoundOrLeft, TaskType, Statuses
  <2> QED
    BY <1>t, <2>1 DEF Spendable, Under, TodaysReservations
<1>1. \A q \in Payloads : Spendable(q)' => Spendable(q)
  BY <1>t, <1>b, <1>0, <1>m, <1>n DEF Spendable, Status, Under, Moves, TodaysReservations, FoundOrLeft, OfTheDay, TypeOK, OutboxDrafted, EntriesFollow, StatusIsWarranted, Warranted
<1>2. \A q \in Payloads : Status(q)' # "expired"
  BY <1>t, <1>b, <1>0 DEF Status, OutboxDrafted, FoundOrLeft, OfTheDay
<1> QED
  BY <1>1, <1>2, CoverShrinks

LEMMA FailReadCovers ==
  ASSUME OneCall, plan = "faults", CallStep(Caller), FailRead(Caller)
  PROVE  CoverInv'
<1> USE FaultFacts, DayFacts DEF FailRead, Continue, Goto, End, files, drafts, world, DraftOutbox
<1>t. task[Caller] \in TaskType /\ task[Caller].id \in Payloads
  BY DEF CallInv, AdminLabels
<1>1. \A q \in Payloads : Spendable(q)' => Spendable(q)
  BY <1>t, NullAssumption DEF Spendable, Status, Under, Moves, TodaysReservations, FoundOrLeft, OfTheDay, TypeOK, OutboxDrafted, EntriesFollow, StatusIsWarranted, Warranted
<1>2. \A q \in Payloads : Status(q)' # "expired"
  BY <1>t DEF Status, OutboxDrafted, FoundOrLeft, OfTheDay
<1> QED
  BY <1>1, <1>2, CoverShrinks

LEMMA FailWriteCovers ==
  ASSUME OneCall, plan = "faults", CallStep(Caller), FailWrite(Caller)
  PROVE  CoverInv'
<1> USE FaultFacts, DayFacts DEF FailWrite, Continue, Goto, End, files, drafts, world, WriteOutbox, AfterTransfer
<1>t. task[Caller] \in TaskType /\ task[Caller].id \in Payloads
  BY DEF CallInv, AdminLabels
<1>1. \A q \in Payloads : Spendable(q)' => Spendable(q)
  BY <1>t, NullAssumption DEF Spendable, Status, Under, Moves, TodaysReservations, FoundOrLeft, OfTheDay, TypeOK, OutboxDrafted, EntriesFollow, StatusIsWarranted, Warranted
<1>2. \A q \in Payloads : Status(q)' # "expired"
  BY <1>t DEF Status, OutboxDrafted, FoundOrLeft, OfTheDay
<1> QED
  BY <1>1, <1>2, CoverShrinks

LEMMA MoveReadCovers ==
  ASSUME OneCall, plan = "faults", CallStep(Caller), MoveRead(Caller)
  PROVE  CoverInv'
<1> USE FaultFacts, DayFacts DEF MoveRead, Continue, Goto, End, files, drafts, world, DraftStore, AfterMove, AfterTransfer, Moves
<1>t. task[Caller] \in TaskType /\ task[Caller].id \in Payloads
  BY DEF CallInv, AdminLabels
<1>1. \A q \in Payloads : Spendable(q)' => Spendable(q)
  BY <1>t, NullAssumption DEF Spendable, Status, Under, Moves, TodaysReservations, FoundOrLeft, OfTheDay, TypeOK, OutboxDrafted, EntriesFollow, StatusIsWarranted, Warranted
<1>2. \A q \in Payloads : Status(q)' # "expired"
  BY <1>t DEF Status, OutboxDrafted, FoundOrLeft, OfTheDay
<1> QED
  BY <1>1, <1>2, CoverShrinks

LEMMA StatusReadCovers ==
  ASSUME OneCall, plan = "faults", CallStep(Caller), StatusRead(Caller)
  PROVE  CoverInv'
<1> USE FaultFacts, DayFacts DEF StatusRead, Continue, Goto, End, files, drafts, world, DraftOutbox
<1>t. task[Caller] \in TaskType /\ task[Caller].id \in Payloads
  BY DEF CallInv, AdminLabels
<1>0. outbox[task[Caller].id] # Null
  BY <1>t DEF FoundOrLeft, Status, TaskType, Statuses
<1>1. \A q \in Payloads : Spendable(q)' => Spendable(q)
  BY <1>t, <1>0, NullAssumption DEF Spendable, Status, Under, Moves, TodaysReservations, FoundOrLeft, OfTheDay, TypeOK, OutboxDrafted, EntriesFollow, StatusIsWarranted, Warranted
<1>2. \A q \in Payloads : Status(q)' # "expired"
  BY <1>t, <1>0 DEF Status, OutboxDrafted, FoundOrLeft, OfTheDay
<1> QED
  BY <1>1, <1>2, CoverShrinks

LEMMA StatusWriteCovers ==
  ASSUME OneCall, plan = "faults", CallStep(Caller), StatusWrite(Caller)
  PROVE  CoverInv'
<1> USE FaultFacts, DayFacts DEF StatusWrite, Continue, Goto, End, files, drafts, world, WriteOutbox, Moves
<1>t. task[Caller] \in TaskType /\ task[Caller].id \in Payloads
  BY DEF CallInv, AdminLabels
<1>0. outbox[task[Caller].id] # Null
  BY <1>t DEF FoundOrLeft, Status, TaskType, Statuses
<1>b. /\ \A q \in Payloads : q # task[Caller].id => outbox'[q] = outbox[q]
      /\ outbox'[task[Caller].id] =
           [status |-> task[Caller].to,
            hashed |-> outbox[task[Caller].id].hashed \/ task[Caller].op = "status"]
  BY <1>t DEF OutboxDrafted, TypeOK, OutboxType
<1>c. outbox[task[Caller].id].hashed \in BOOLEAN
  BY <1>0, <1>t DEF TypeOK, OutboxType
<1>e. \/ outbox'[task[Caller].id] = [status |-> task[Caller].to, hashed |-> TRUE]
      \/ /\ outbox'[task[Caller].id] = [status |-> task[Caller].to, hashed |-> FALSE]
         /\ ~outbox[task[Caller].id].hashed /\ task[Caller].op # "status"
  BY <1>b, <1>c
<1>d. \A p \in Payloads : p = task[Caller].id => Status(p)' = task[Caller].to
  BY <1>e, <1>t, EntryNotNull DEF Status, Statuses, TaskType
<1>1. \A q \in Payloads : Spendable(q)' => Spendable(q)
  BY <1>t, <1>0, <1>b, <1>c, <1>e, <1>d, NullAssumption DEF Spendable, Status, Under, Moves, TodaysReservations, FoundOrLeft, OfTheDay, TypeOK, OutboxDrafted, EntriesFollow, StatusIsWarranted, Warranted
<1>2. \A q \in Payloads : Status(q)' # "expired"
  BY <1>t, <1>0, <1>b, <1>c, <1>e, <1>d DEF Status, OutboxDrafted, FoundOrLeft, OfTheDay
<1> QED
  BY <1>1, <1>2, CoverShrinks

LEMMA ForgetWriteCovers ==
  ASSUME OneCall, plan = "faults", CallStep(Caller), ForgetWrite(Caller)
  PROVE  CoverInv'
<1> USE FaultFacts, DayFacts DEF ForgetWrite, Continue, Goto, End, files, drafts, world, WriteOutbox
<1>t. task[Caller] \in TaskType /\ task[Caller].id \in Payloads
  BY DEF CallInv, AdminLabels
<1>b. /\ \A q \in Payloads : q # task[Caller].id => outbox'[q] = outbox[q]
      /\ outbox'[task[Caller].id] = Null
  BY <1>t DEF OutboxDrafted, TypeOK, OutboxType
<1>1. \A q \in Payloads : Spendable(q)' => Spendable(q)
  BY <1>t, <1>b, NullAssumption DEF Spendable, Status, Under, Moves, TodaysReservations, FoundOrLeft, OfTheDay, TypeOK, OutboxDrafted, EntriesFollow, StatusIsWarranted, Warranted
<1>2. \A q \in Payloads : Status(q)' # "expired"
  BY <1>t, <1>b DEF Status, OutboxDrafted, FoundOrLeft, OfTheDay
<1> QED
  BY <1>1, <1>2, CoverShrinks

LEMMA ThrowCovers ==
  ASSUME OneCall, plan = "faults", CallStep(Caller), Throw(Caller)
  PROVE  CoverInv'
<1> USE FaultFacts, DayFacts DEF Throw, Continue, Goto, End, files, drafts, world, InTry, Fault, DropDrafts
<1>t. task[Caller] \in TaskType /\ task[Caller].id \in Payloads
  BY DEF CallInv, AdminLabels
<1>1. \A q \in Payloads : Spendable(q)' => Spendable(q)
  BY <1>t, NullAssumption DEF Spendable, Status, Under, Moves, TodaysReservations, FoundOrLeft, OfTheDay, TypeOK, OutboxDrafted, EntriesFollow, StatusIsWarranted, Warranted
<1>2. \A q \in Payloads : Status(q)' # "expired"
  BY <1>t DEF Status, OutboxDrafted, FoundOrLeft, OfTheDay
<1> QED
  BY <1>1, <1>2, CoverShrinks

LEMMA CrashCovers ==
  ASSUME OneCall, plan = "faults", CallStep(Caller), Crash(Caller)
  PROVE  CoverInv'
<1> USE FaultFacts, DayFacts DEF Crash, Continue, Goto, End, files, drafts, world, Fault, DropDrafts
<1>1. \A q \in Payloads : Spendable(q)' => Spendable(q)
  BY NullAssumption DEF Spendable, Status, Under, Moves, TodaysReservations, FoundOrLeft, OfTheDay, TypeOK, OutboxDrafted, EntriesFollow, StatusIsWarranted, Warranted
<1>2. \A q \in Payloads : Status(q)' # "expired"
  BY DEF Status, OutboxDrafted, FoundOrLeft, OfTheDay
<1> QED
  BY <1>1, <1>2, CoverShrinks

LEMMA AskCovers ==
  ASSUME OneCall, plan = "faults", CallStep(Caller), Ask(Caller)
  PROVE  CoverInv'
<1> USE FaultFacts, DayFacts DEF Ask, End, Goto, files, drafts, world
<1>t. task[Caller] \in TaskType /\ task[Caller].id \in Payloads /\ pc[Caller] = "ask"
  BY DEF CallInv, AdminLabels
<1>0. \/ /\ pc'[Caller] = "statusRead" /\ task'[Caller].id = task[Caller].id
      \/ /\ pc'[Caller] = "idle" /\ task'[Caller] = Null
  BY <1>t DEF TypeOK, TaskType
<1>1. \A q \in Payloads : Spendable(q)' => Spendable(q)
  BY <1>t, <1>0, NullAssumption DEF Spendable, Status, Under, TodaysReservations
<1>2. \A q \in Payloads : Status(q)' # "expired"
  BY DEF Status
<1> QED
  BY <1>1, <1>2, CoverShrinks

LEMMA SignCovers ==
  ASSUME OneCall, plan = "faults", CallStep(Caller), Sign(Caller)
  PROVE  CoverInv'
<1> USE FaultFacts, DayFacts DEF Sign, Continue, Goto, files, drafts
<1>t. task[Caller] \in TaskType /\ task[Caller].id \in Payloads
  BY DEF CallInv, AdminLabels
<1>0. /\ \A q \in Payloads : q # task[Caller].id => payload'[q] = payload[q]
      /\ payload'[task[Caller].id] =
           [amount |-> task[Caller].amount, lowValue |-> task[Caller].lowValue, day |-> today]
      /\ payload[task[Caller].id] = Null
      /\ task' = task /\ outbox' = outbox
      /\ pc'[Caller] = IF task[Caller].lowValue THEN "reserveRead" ELSE "addRead"
      /\ outbox[task[Caller].id] = Null
  BY <1>t DEF TypeOK, OfTheDay, FoundOrLeft
<1>1. \A q \in Payloads : q # task[Caller].id /\ Spendable(q)' => Spendable(q)
  BY <1>0 DEF Spendable, Status, Under, TodaysReservations
<1>2. \A q \in Payloads : q = task[Caller].id => ~Spendable(q)'
  BY <1>0 DEF Spendable, Status, Under, TodaysReservations
<1>3. \A q \in Covered : payload'[q] = payload[q]
  <2>1. \A q \in Covered : q \in Payloads /\ payload[q] # Null
    BY DEF Spendable, TodaysReservations
  <2> QED
    BY <1>0, <2>1
<1>4. \A q \in Payloads : Status(q)' # "expired"
  BY <1>0 DEF Status
<1> QED
  BY <1>1, <1>2, <1>3, <1>4, CoverShrinks

LEMMA ReserveWriteCovers ==
  ASSUME OneCall, plan = "faults", CallStep(Caller), ReserveWrite(Caller)
  PROVE  CoverInv'
<1> DEFINE t == task[Caller]
           p == t.id
           n == t.amount
<1>t. t \in TaskType /\ p \in Payloads /\ n \in Nat /\ payload[p] # Null
  BY DayFacts, FaultFacts DEF ReserveWrite, CallInv, AdminLabels, TaskType
<1>0. /\ store'.policy = Reserved(store.policy, n)
      /\ payload' = payload /\ today' = today /\ outbox' = outbox /\ task' = task
      /\ pc'[Caller] = "addRead" /\ pc[Caller] = "reserveWrite"
      /\ n = payload[p].amount
  BY DayFacts, FaultFacts
     DEF ReserveWrite, WriteStore, world, Continue, Goto, TypeOK, OfTheDay
<1>1. \A q \in Payloads : q # p /\ Spendable(q)' => Spendable(q)
  BY <1>0 DEF Spendable, Status, Under, TodaysReservations
<1>2. ~Spendable(p)
  BY <1>0 DEF Spendable, Under
<1> DEFINE S == Covered
           T == Covered'
<1>3. /\ IsFiniteSet(S) /\ S \subseteq Payloads
      /\ \A q \in S : payload[q].amount \in Nat
  BY CoveredIsFinite, OneCallFacts DEF OneCall, PlanIInv
<1>4. T \subseteq S \cup {p} /\ p \notin S
  <2>1. T \subseteq Payloads
    BY DEF Covered, Live, TakenOut, InOutbox, UnderConstruction, TodaysReservations
  <2> QED
    BY <1>1, <1>2, <2>1, FaultFacts
<1> HIDE DEF S, T
<1>5. ValueOf(payload, S \cup {p}) = n + ValueOf(payload, S)
  <2> HIDE DEF p, n
  <2> QED
    BY <1>t, <1>0, <1>3, <1>4, ValueAdds
<1>6. ValueOf(payload, T) <= n + ValueOf(payload, S) /\ ValueOf(payload, T) \in Nat
  <2> HIDE DEF p, n
  <2>1. IsFiniteSet(S \cup {p}) /\ \A q \in S \cup {p} : payload[q].amount \in Nat
    BY <1>t, <1>0, <1>3, FS_AddElement
  <2>2. ValueOf(payload, T) <= ValueOf(payload, S \cup {p})
    BY <1>4, <2>1, ValueParts
  <2>3. IsFiniteSet(T) /\ \A q \in T : payload[q].amount \in Nat
    BY <1>4, <2>1, FS_Subset
  <2>4. ValueOf(payload, T) \in Nat
    BY <2>3, ValueType
  <2> QED
    BY <1>5, <2>2, <2>4
<1>7. Locked(store.policy)' = Locked(store.policy) + n /\ Locked(store.policy) \in Nat
  <2> DEFINE old == store.policy
             new == Reserved(old, n)
  <2>1. /\ old \in Policy /\ old.day = 1 /\ today = 1 /\ TypeOK
        /\ Locked(old) = old.reserved + old.submitted + old.confirmed
        /\ Locked(old) \in Nat
    BY DayFacts, FaultFacts, LockedType
  <2>2. new.day = 1
    <3> HIDE DEF old, n
    <3> QED
      BY <1>t, <2>1, PolicyOfDay
  <2>3. Locked(store.policy)' = new.reserved + new.submitted + new.confirmed
    BY <1>0, <2>1, <2>2 DEF Locked, Current
  <2>4. /\ new["reserved"] = old["reserved"] + n
        /\ new["submitted"] = old["submitted"]
        /\ new["confirmed"] = old["confirmed"]
    <3> HIDE DEF old, n
    <3> QED
      BY <1>t, <2>1, BooksOfDay DEF Buckets
  <2>5. old.reserved \in Nat /\ old.submitted \in Nat /\ old.confirmed \in Nat
    BY <2>1 DEF Policy, Buckets
  <2> HIDE DEF old, new, n
  <2>6. new.reserved + new.submitted + new.confirmed
          = (old.reserved + old.submitted + old.confirmed) + n
    BY <1>t, <2>4, <2>5
  <2>7. Locked(store.policy) = Locked(old)
    BY DEF old
  <2> QED
    BY <2>1, <2>3, <2>6, <2>7
<1>8. Locked(store.policy) >= ValueOf(payload, S) /\ ValueOf(payload, S) \in Nat
  BY <1>3, FaultFacts, ValueType DEF S
<1>9. Locked(store.policy)' >= ValueOf(payload', T)
  <2> HIDE DEF n
  <2> QED
    BY <1>t, <1>0, <1>6, <1>7, <1>8
<1>10. \A q \in Payloads : Status(q)' # "expired"
  BY <1>0, FaultFacts DEF Status
<1> QED
  BY <1>9, <1>10, CoverNext DEF T

LEMMA MoveWriteCovers ==
  ASSUME OneCall, plan = "faults", CallStep(Caller), MoveWrite(Caller)
  PROVE  CoverInv'
<1> DEFINE t == task[Caller]
           p == t.id
           from == From(t)
           to == t.to
           n == t.amount
<1>t. /\ t \in TaskType /\ p \in Payloads /\ n \in Nat
      /\ from \in Buckets /\ to \in Buckets /\ from # to /\ Moves(t)
      /\ OneDay /\ pc[Caller] = "moveWrite"
      /\ t.op \in {"build", "retry", "status"}
  <2>1. OneDay /\ pc[Caller] = "moveWrite" /\ t.op \in {"build", "retry", "status"}
    BY FaultFacts, DayFacts DEF MoveWrite, OfTheDay, FoundOrLeft
  <2> QED
    BY <2>1, MoveType
<1>0. /\ store'.policy = Moved(store.policy, n, from, to)
      /\ payload' = payload /\ today' = today /\ outbox' = outbox
      /\ pc'[Caller] = "idle" /\ task'[Caller] = Null
      /\ t.lowValue = payload[p].lowValue /\ t.lowValue /\ n = payload[p].amount
      /\ Status(p) = to
  <2>1. /\ store'.policy = Moved(store.policy, n, from, to)
        /\ payload' = payload /\ today' = today /\ outbox' = outbox
    BY <1>t, DayFacts DEF MoveWrite, WriteStore, world, OfTheDay
  <2>2. /\ t.lowValue = payload[p].lowValue /\ t.lowValue /\ n = payload[p].amount
        /\ Status(p) = to
    BY <1>t, DayFacts DEF OfTheDay, FoundOrLeft, Moves
  <2>4. pc'[Caller] = "idle" /\ task'[Caller] = Null
    BY <1>t, DayFacts DEF MoveWrite, AfterMove, AfterTransfer, Continue, End, Goto, TypeOK
  <2> QED
    BY <2>1, <2>2, <2>4
<1> DEFINE S == Covered
           T == Covered'
<1>1. \A q \in Payloads : Spendable(q)' => Spendable(q)
  BY <1>t, <1>0 DEF Spendable, Status, Under, TodaysReservations
<1>2. \A q : q = p /\ to = "failed" => ~Spendable(q)'
  BY <1>t, <1>0, NullAssumption DEF Spendable, Status, Under
<1>3. to = "failed" => Spendable(p)
  <2>1. outbox[p] # Null
    BY <1>t, <1>0 DEF Status, TaskType, Statuses
  <2>2. payload[p] # Null
    BY <1>t, <2>1, DayFacts DEF StatusIsWarranted, Warranted
  <2> QED
    BY <1>t, <1>0, <2>1, <2>2, DayFacts DEF Spendable, TodaysReservations, Under
<1>4. /\ T \subseteq S
      /\ to = "failed" => p \in S /\ T \subseteq S \ {p}
  <2>1. T \subseteq Payloads
    BY DEF Covered, Live, TakenOut, InOutbox, UnderConstruction, TodaysReservations
  <2> QED
    BY <1>1, <1>2, <1>3, <2>1, FaultFacts
<1>5. /\ IsFiniteSet(S) /\ S \subseteq Payloads
      /\ \A q \in S : payload[q].amount \in Nat
  BY CoveredIsFinite, OneCallFacts DEF OneCall, PlanIInv
<1> HIDE DEF S, T
<1>6. /\ ValueOf(payload, T) \in Nat /\ ValueOf(payload, S) \in Nat
      /\ ValueOf(payload, T) <= ValueOf(payload, S)
      /\ to = "failed" => ValueOf(payload, T) + n <= ValueOf(payload, S)
  <2> HIDE DEF p, n, to
  <2>1. T \subseteq S
    BY <1>4
  <2>2. ValueOf(payload, T) <= ValueOf(payload, S)
    BY <1>5, <2>1, ValueParts
  <2>3. ValueOf(payload, T) \in Nat /\ ValueOf(payload, S) \in Nat
    BY <1>5, <2>1, ValueType, FS_Subset
  <2>4. ASSUME to = "failed" PROVE ValueOf(payload, T) + n <= ValueOf(payload, S)
    <3> DEFINE R == S \ {p}
    <3>1. p \in S /\ T \in SUBSET R /\ p \notin R /\ R \cup {p} = S /\ IsFiniteSet(R)
          /\ \A q \in R : payload[q].amount \in Nat
      BY <1>4, <1>5, <2>4, FS_Subset
    <3> HIDE DEF R
    <3>2. ValueOf(payload, S) = n + ValueOf(payload, R)
      BY <1>0, <1>5, <3>1, ValueAdds
    <3>3. ValueOf(payload, T) <= ValueOf(payload, R)
      BY <3>1, ValueParts
    <3>4. ValueOf(payload, R) \in Nat
      BY <3>1, ValueType
    <3> QED
      BY <1>t, <2>3, <3>2, <3>3, <3>4
  <2> QED
    BY <2>2, <2>3, <2>4
<1>7. /\ Locked(store.policy) \in Nat /\ Locked(store.policy)' \in Nat
      /\ Locked(store.policy)' + n >= Locked(store.policy)
      /\ to # "failed" => Locked(store.policy)' >= Locked(store.policy)
  <2> DEFINE old == store.policy
             new == Moved(old, n, from, to)
  <2>1. /\ old \in Policy /\ old.day = 1 /\ today = 1 /\ TypeOK
        /\ Locked(old) = old.reserved + old.submitted + old.confirmed
    BY <1>t, DayFacts, LockedType
  <2>2. new.day = 1
    <3> HIDE DEF old, n, from, to
    <3> QED
      BY <1>t, <2>1, PolicyOfDay
  <2>3. Locked(store.policy)' = new.reserved + new.submitted + new.confirmed
    BY <1>0, <2>1, <2>2 DEF Locked, Current
  <2>4. \A b \in Buckets : new[b] = IF b = from THEN Less(old[b], n)
                                    ELSE IF b = to THEN old[b] + n ELSE old[b]
    <3> HIDE DEF old, n, from, to
    <3> QED
      BY <1>t, <2>1, BooksOfDay
  <2>5. old.reserved \in Nat /\ old.submitted \in Nat /\ old.confirmed \in Nat
    BY <2>1 DEF Policy, Buckets
  <2>6. \/ from = "submitted" /\ to \in {"confirmed", "failed"}
        \/ from \in {"reserved", "expired"} /\ to = "submitted"
    BY <1>t, DayFacts DEF From, FoundOrLeft
  <2> HIDE DEF old, new, n, from, to
  <2>7. /\ new["reserved"] = IF from = "reserved" THEN Less(old["reserved"], n) ELSE old["reserved"]
        /\ new["submitted"] = IF from = "submitted" THEN Less(old["submitted"], n) ELSE old["submitted"] + n
        /\ new["confirmed"] = IF to = "confirmed" THEN old["confirmed"] + n ELSE old["confirmed"]
    BY <2>4, <2>6 DEF Buckets
  <2> DEFINE before == old.reserved + old.submitted + old.confirmed
             after == new.reserved + new.submitted + new.confirmed
  <2>8. /\ before \in Nat /\ after \in Nat /\ after + n >= before
        /\ to # "failed" => after >= before
    BY <1>t, <2>5, <2>6, <2>7 DEF Less
  <2>9. Locked(store.policy) = Locked(old)
    BY DEF old
  <2> HIDE DEF before, after
  <2>10. Locked(store.policy) = before /\ Locked(store.policy)' = after
    BY <2>1, <2>3, <2>9 DEF before, after
  <2> QED
    BY <2>8, <2>10
<1>8. Locked(store.policy) >= ValueOf(payload, S)
  BY FaultFacts DEF S
<1>9. Locked(store.policy)' >= ValueOf(payload', T)
  <2>1. payload' = payload
    BY <1>0
  <2> HIDE DEF n, to
  <2>2. Locked(store.policy)' >= ValueOf(payload, T)
    BY <1>t, <1>6, <1>7, <1>8
  <2> QED
    BY <2>1, <2>2
<1>10. \A q \in Payloads : Status(q)' # "expired"
  BY <1>0, FaultFacts DEF Status
<1> QED
  BY <1>9, <1>10, CoverNext DEF T

LEMMA CoverAround ==
  ASSUME PlanIInv, plan = "faults", UNCHANGED <<today, store, outbox, payload, pc, task>>
  PROVE  CoverInv'
<1>1. CoverInv
  BY DEF PlanIInv
<1>2. Covered' = Covered
  BY DEF Covered, Live, TakenOut, InOutbox, UnderConstruction, TodaysReservations, Under, Status
<1>3. Value(Covered)' = ValueOf(payload', Covered')
  BY Zenon DEF Value, ValueOf, MapThenSumSet, MapThenFoldSet
<1>4. Value(Covered) = ValueOf(payload, Covered)
  BY ValueIsNow
<1>5. Value(Covered)' = Value(Covered)
  BY <1>2, <1>3, <1>4
<1>6. Locked(store.policy)' = Locked(store.policy)
  BY DEF Locked, Current, NewPolicy
<1>7. \A p \in Payloads : Status(p)' # "expired"
  BY <1>1 DEF CoverInv, Status
<1> QED
  BY <1>1, <1>5, <1>6, <1>7 DEF CoverInv

LEMMA CoverExcludes ==
  ASSUME OneCall, plan = "faults", CallStep(Caller),
         \/ \E p \in Payloads, target \in ReleaseTargets : StartRelease(Caller, p, target)
         \/ \E p \in Payloads, amount \in Amounts : StartDrain(Caller, p, amount)
         \/ StartEnable(Caller) \/ StartDisable(Caller, "disable") \/ StartDisable(Caller, "pause")
  PROVE  FALSE
<1>1. ASSUME NEW p \in Payloads, NEW target \in ReleaseTargets, StartRelease(Caller, p, target)
      PROVE FALSE
  BY <1>1, FaultFacts, DayFacts DEF StartRelease, Begin, Goto, TaskOn, Task, TypeOK
<1>2. ASSUME NEW p \in Payloads, NEW amount \in Amounts, StartDrain(Caller, p, amount)
      PROVE  FALSE
  BY <1>2, FaultFacts, DayFacts DEF StartDrain, Begin, Goto, Task, TypeOK
<1>3. ASSUME NEW o \in {"disable", "pause"}, StartDisable(Caller, o) PROVE FALSE
  BY <1>3, FaultFacts, DayFacts DEF StartDisable, Begin, Goto, AdminTask, Task, TypeOK
<1>4. CASE StartEnable(Caller)
  BY <1>4, FaultFacts, DayFacts DEF StartEnable, Begin, Goto, AdminTask, Task, TypeOK
<1> QED
  BY <1>1, <1>2, <1>3, <1>4

LEMMA CoverCall ==
  ASSUME OneCall, plan = "faults", CallStep(Caller)
  PROVE  CoverInv'
<1>1. ASSUME NEW p \in Payloads, StartOn(Caller, p) PROVE CoverInv'
  BY <1>1, CoverExcludes, StartBuildCovers, StartForgetCovers, StartRetryCovers,
     StartStatusCovers DEF StartOn
<1>2. CASE Start(Caller)
  BY <1>1, <1>2, CoverExcludes DEF Start
<1>3. CASE BuildStep(Caller)
  BY <1>3, SignCovers, SignRefusedCovers, ReserveReadCovers, ReserveWriteCovers,
     AddReadCovers, AddWriteCovers DEF BuildStep
<1>4. CASE SubmitStep(Caller)
  BY <1>4, SubmitAcceptedCovers, SubmitLostCovers, SubmitRejectedCovers, AttemptReadCovers,
     AttemptWriteCovers, FailReadCovers, FailWriteCovers DEF SubmitStep
<1>5. CASE BooksStep(Caller)
  BY <1>5, MoveReadCovers, MoveWriteCovers, AskCovers, StatusReadCovers, StatusWriteCovers
     DEF BooksStep
<1>6. CASE AdminStep(Caller)
  BY <1>6, ForgetWriteCovers, NoAdminOnDay, FaultFacts DEF AdminStep
<1>7. CASE Throw(Caller) \/ Crash(Caller)
  BY <1>7, ThrowCovers, CrashCovers
<1> QED
  BY <1>2, <1>3, <1>4, <1>5, <1>6, <1>7 DEF CallStep

LEMMA CoverStep ==
  ASSUME PlanIInv, plan = "faults", [PlanNext]_<<vars, plan>>, IInv'
  PROVE  CoverInv'
<1>0. plan' = plan /\ Sequential /\ OneDay
  BY StepIs DEF OneDay, Sequential
<1>1. ASSUME NEW c \in Calls, CallStep(c), InPlan' PROVE CoverInv'
  <2>1. c = Caller
    BY <1>0, <1>1, WhoActs
  <2>2. OneCall /\ CallStep(Caller)
    BY <1>0, <1>1, <2>1 DEF OneCall
  <2> QED
    BY <2>2, CoverCall
<1>2. ASSUME NEW p \in Payloads, SubmitElsewhere(p) \/ Settle(p) PROVE CoverInv'
  BY <1>0, <1>2, CoverAround DEF SubmitElsewhere, Settle, files, drafts
<1>3. ASSUME DayPasses, InPlan' PROVE CoverInv'
  <2>1. today = 1 /\ today' <= 1
    BY <1>0, <1>3 DEF PlanIInv, DayInv, InPlan, PlanDays, OneDay
  <2> QED
    BY <1>3, <2>1 DEF DayPasses
<1>4. CASE UNCHANGED vars
  BY <1>0, <1>4, CoverAround DEF vars, files, drafts, world
<1> QED
  BY <1>1, <1>2, <1>3, <1>4, StepIs

-----------------------------------------------------------------------------
(* The invariant of the plans.                                             *)

LEMMA CallerIn == Caller \in Calls
BY CallsAssumption DEF Caller

(* Only signing adds a payload, only a write changes the outbox.           *)
LEMMA WhatChanges ==
  ASSUME NEW c \in Calls, CallStep(c)
  PROVE  /\ Sign(c) \/ UNCHANGED payload
         /\ \/ AddWrite(c) \/ AttemptWrite(c) \/ FailWrite(c) \/ StatusWrite(c) \/ ForgetWrite(c)
            \/ UNCHANGED outbox
<1> USE DEF files, world, WriteOutbox, WriteStore, DraftStore, DraftOutbox
<1>1. ASSUME NEW p \in Payloads, StartOn(c, p) PROVE UNCHANGED <<payload, outbox>>
  BY <1>1 DEF StartOn, StartDrain, StartBuild, StartRelease, StartRetry, StartStatus, StartForget
<1>2. CASE Start(c)
  BY <1>1, <1>2 DEF Start, StartEnable, StartDisable
<1>3. CASE BuildStep(c)
  BY <1>3 DEF BuildStep, Sign, SignRefused, ReserveRead, ReserveWrite, AddRead, AddWrite
<1>4. CASE SubmitStep(c)
  BY <1>4 DEF SubmitStep, SubmitAccepted, SubmitLost, SubmitRejected, AttemptRead,
              AttemptWrite, FailRead, FailWrite
<1>5. CASE BooksStep(c)
  BY <1>5 DEF BooksStep, MoveRead, MoveWrite, Ask, StatusRead, StatusWrite
<1>6. CASE AdminStep(c)
  BY <1>6 DEF AdminStep, ForgetWrite, EnableWrite, DisableRead, DisableWrite, PauseRead, PauseWrite
<1>7. CASE Throw(c) \/ Crash(c)
  BY <1>7 DEF Throw, Crash, Fault
<1> QED
  BY <1>2, <1>3, <1>4, <1>5, <1>6, <1>7 DEF CallStep

LEMMA SignedStaysFinite ==
  ASSUME IInv, IsFiniteSet(Signed), [PlanNext]_<<vars, plan>>
  PROVE  IsFiniteSet(Signed)'
<1>1. CASE UNCHANGED payload
  BY <1>1 DEF Signed
<1>2. ASSUME NEW c \in Calls, Sign(c) PROVE IsFiniteSet(Signed)'
  <2> DEFINE more == Signed \cup {task[c].id}
  <2>1. Signed' \subseteq more
    BY <1>2 DEF Signed, Sign, IInv, TypeOK
  <2>2. IsFiniteSet(more)
    BY FS_AddElement
  <2> HIDE DEF more
  <2> QED
    BY <2>1, <2>2, FS_Subset
<1>3. \/ UNCHANGED payload
      \/ \E c \in Calls : Sign(c)
  <2>1. ASSUME NEW p \in Payloads, SubmitElsewhere(p) \/ Settle(p) PROVE UNCHANGED payload
    BY <2>1 DEF SubmitElsewhere, Settle
  <2>2. CASE DayPasses \/ UNCHANGED vars
    BY <2>2 DEF DayPasses, vars, world
  <2> QED
    BY <2>1, <2>2, StepIs, WhatChanges
<1> QED
  BY <1>1, <1>2, <1>3

LEMMA IdleHoldsNothing ==
  ASSUME PlanIInv, [PlanNext]_<<vars, plan>>
  PROVE  (\A c \in Calls : pc[c] = "idle" => task[c] = Null)'
<1>0. TypeOK /\ \A c \in Calls : pc[c] = "idle" => task[c] = Null
  BY DEF PlanIInv, IInv
<1>1. ASSUME NEW c \in Calls, CallStep(c)
      PROVE  (\A d \in Calls : pc[d] = "idle" => task[d] = Null)'
  BY <1>0, <1>1, OthersWait
<1>2. ASSUME NEW p \in Payloads, SubmitElsewhere(p) \/ Settle(p) PROVE UNCHANGED <<pc, task>>
  BY <1>2 DEF SubmitElsewhere, Settle
<1>3. CASE DayPasses \/ UNCHANGED vars
  BY <1>0, <1>3 DEF DayPasses, vars
<1> QED
  BY <1>0, <1>1, <1>2, <1>3, StepIs

LEMMA PlanInitEstablishes == PlanInit => PlanIInv
<1> SUFFICES ASSUME PlanInit PROVE PlanIInv
  OBVIOUS
<1>0. Init /\ plan \in DOMAIN PlanOps
  BY DEF PlanInit
<1>1. IInv
  BY <1>0, InitEstablishes
<1>2. IsFiniteSet(Signed)
  <2>1. Signed = {}
    BY <1>0 DEF Init, Signed
  <2> QED
    BY <2>1, FS_EmptySet
<1>3. /\ \A c \in Calls : pc[c] = "idle" /\ task[c] = Null
      /\ \A p \in Payloads : payload[p] = Null /\ outbox[p] = Null
      /\ Busy = {}
  BY <1>0 DEF Init, Busy
<1>4. SequentialInv
  BY <1>3 DEF SequentialInv, EntriesFollow
<1>5. DayInv
  <2>1. /\ today = 1 /\ store.policy = NewPolicy /\ NewPolicy.day = 1
    BY <1>0 DEF Init, NewPolicy
  <2>2. store.policy # Null
    BY <1>1, <2>1, NewPolicyType, NullAssumption DEF IInv
  <2> QED
    BY <1>3, <2>1, <2>2 DEF DayInv, Signed
<1>6. LedgerInv
  <2>1. \A b \in Buckets : store.policy[b] = 0
    BY <1>0 DEF Init, NewPolicy, Buckets
  <2>2. \A b : In(b) = {}
    BY <1>3 DEF In, TodaysReservations
  <2>3. \A b : Value(In(b)) = 0
    BY <2>2, ValueIsNow, ValueOfNone
  <2> QED
    BY <1>3, <2>1, <2>3 DEF LedgerInv
<1>7. CoverInv
  <2>1. Covered = {}
    BY <1>3 DEF Covered, Live, TakenOut, InOutbox, UnderConstruction, TodaysReservations
  <2>2. Value(Covered) = 0
    BY <2>1, ValueIsNow, ValueOfNone
  <2>3. Locked(store.policy) = 0
    BY <1>0 DEF Init, NewPolicy, Locked, Current, Buckets
  <2> QED
    BY <1>3, <2>2, <2>3 DEF CoverInv, Status
<1> QED
  BY <1>0, <1>1, <1>2, <1>3, <1>4, <1>5, <1>6, <1>7 DEF PlanIInv

LEMMA PlanStepKeeps ==
  ASSUME PlanIInv, [PlanNext]_<<vars, plan>>
  PROVE  PlanIInv'
<1>1. IInv'
  BY NextKeeps DEF PlanIInv, PlanNext
<1>2. plan' = plan
  BY StepIs
<1>3. IsFiniteSet(Signed)' /\ (\A c \in Calls : pc[c] = "idle" => task[c] = Null)'
  BY SignedStaysFinite, IdleHoldsNothing DEF PlanIInv
<1>4. Sequential => SequentialInv'
  BY <1>1, SequentialStep
<1>5. OneDay => DayInv'
  BY <1>1, DayStep
<1>6. plan = "releases" => LedgerInv'
  BY <1>1, LedgerStep
<1>7. plan = "faults" => CoverInv'
  BY <1>1, CoverStep
<1>8. plan' \in DOMAIN PlanOps /\ (Sequential' <=> Sequential) /\ (OneDay' <=> OneDay)
  BY <1>2 DEF PlanIInv, Sequential, OneDay
<1> QED
  BY <1>1, <1>2, <1>3, <1>4, <1>5, <1>6, <1>7, <1>8 DEF PlanIInv

(* Under each of the plans the inductive invariant holds.                  *)
THEOREM PlanInvariance == PlanSpec => []PlanIInv
<1>1. PlanIInv /\ [PlanNext]_<<vars, plan>> => PlanIInv'
  BY PlanStepKeeps
<1> QED
  BY <1>1, PlanInitEstablishes, PTL DEF PlanSpec

-----------------------------------------------------------------------------
(* What the invariant says of the books.                                   *)

LEMMA ValueOfTwo ==
  ASSUME NEW S, IsFiniteSet(S), NEW T, IsFiniteSet(T), S \cap T = {}, NEW signed,
         \A q \in S \cup T : signed[q].amount \in Nat
  PROVE  /\ ValueOf(signed, S \cup T) = ValueOf(signed, S) + ValueOf(signed, T)
         /\ ValueOf(signed, S) \in Nat /\ ValueOf(signed, T) \in Nat
         /\ IsFiniteSet(S \cup T)
<1> DEFINE U == S \cup T
<1>1. IsFiniteSet(U) /\ S \in SUBSET U /\ U \ S = T
  BY FS_Union
<1> HIDE DEF U
<1>2. \A q \in U : signed[q].amount \in Nat
  BY DEF U
<1>3. ValueOf(signed, U) = ValueOf(signed, S) + ValueOf(signed, U \ S)
  BY <1>1, <1>2, ValueParts
<1>4. ValueOf(signed, S) \in Nat /\ ValueOf(signed, T) \in Nat
  BY ValueType
<1> QED
  BY <1>1, <1>3, <1>4 DEF U

(* While a call is not in the middle of something.                         *)
Settled == pc[Caller] \in {"idle", "sign"}

LEMMA SettledBooks ==
  ASSUME PlanIInv, plan = "releases", Settled
  PROVE  LET b == store.policy
         IN  /\ b.reserved = Value(InOutbox("signed"))
             /\ b.submitted = Value(InOutbox("submitted"))
             /\ b.confirmed = Value(InOutbox("confirmed"))
             /\ b.reserved + b.submitted + b.confirmed = Value(Live)
             /\ b.reserved + b.submitted + b.confirmed + b.failed + b.expired
                  = Value(TodaysReservations)
             /\ b.reserved \in Nat /\ b.submitted \in Nat /\ b.confirmed \in Nat
<1>0. /\ LedgerInv /\ TypeOK /\ IsFiniteSet(Signed) /\ DayInv
  BY DEF PlanIInv, IInv, OneDay
<1>1. \A q, labels : Under(q, labels) => pc[Caller] \in labels
  BY DEF Under
<1>2. \A q \in TodaysReservations :
        outbox[q] # Null /\ Status(q) \in Statuses /\ Bucket(q) = StatusBucket(q)
  <2> SUFFICES ASSUME NEW q \in TodaysReservations
               PROVE  outbox[q] # Null /\ Status(q) \in Statuses /\ Bucket(q) = StatusBucket(q)
    OBVIOUS
  <2>1. q \in Payloads /\ payload[q] # Null
    BY DEF TodaysReservations
  <2>2. outbox[q] # Null
    BY <1>0, <1>1, <2>1 DEF LedgerInv, Settled
  <2>3. Bucket(q) = StatusBucket(q)
    BY <1>1 DEF Bucket, Settled
  <2> QED
    BY <1>0, <2>1, <2>2, <2>3 DEF TypeOK, OutboxType, Status
<1>3. /\ In("reserved") = InOutbox("signed")
      /\ In("submitted") = InOutbox("submitted")
      /\ In("confirmed") = InOutbox("confirmed")
      /\ In("failed") = InOutbox("failed")
      /\ In("expired") = InOutbox("expired")
  BY <1>2 DEF In, InOutbox, StatusBucket, Statuses
<1> DEFINE R == InOutbox("signed")
           S == InOutbox("submitted")
           C == InOutbox("confirmed")
           F == InOutbox("failed")
           E == InOutbox("expired")
<1>4. /\ store.policy.reserved = ValueOf(payload, R)
      /\ store.policy.submitted = ValueOf(payload, S)
      /\ store.policy.confirmed = ValueOf(payload, C)
      /\ store.policy.failed = ValueOf(payload, F)
      /\ store.policy.expired = ValueOf(payload, E)
  BY <1>0, <1>3, ValueIsNow DEF LedgerInv, Buckets
<1>5. Live = (R \cup S) \cup C
  <2>1. UnderConstruction = {}
    BY <1>2 DEF UnderConstruction
  <2> QED
    BY <2>1 DEF Live
<1>6. TodaysReservations = (((R \cup S) \cup C) \cup F) \cup E
  BY <1>2 DEF InOutbox, Statuses
<1>7. /\ R \cap S = {} /\ (R \cup S) \cap C = {} /\ ((R \cup S) \cup C) \cap F = {}
      /\ (((R \cup S) \cup C) \cup F) \cap E = {}
  BY DEF InOutbox
<1>8. /\ IsFiniteSet(R) /\ IsFiniteSet(S) /\ IsFiniteSet(C) /\ IsFiniteSet(F) /\ IsFiniteSet(E)
      /\ \A q \in R \cup S \cup C \cup F \cup E : payload[q].amount \in Nat
  BY <1>0, <1>3, InIsFinite
<1> HIDE DEF R, S, C, F, E
<1>9. /\ ValueOf(payload, R \cup S) = ValueOf(payload, R) + ValueOf(payload, S)
      /\ IsFiniteSet(R \cup S)
      /\ ValueOf(payload, R) \in Nat /\ ValueOf(payload, S) \in Nat
  BY <1>7, <1>8, ValueOfTwo
<1>10. /\ ValueOf(payload, (R \cup S) \cup C) = ValueOf(payload, R \cup S) + ValueOf(payload, C)
       /\ IsFiniteSet((R \cup S) \cup C) /\ ValueOf(payload, C) \in Nat
  BY <1>7, <1>8, <1>9, ValueOfTwo
<1>11. /\ ValueOf(payload, ((R \cup S) \cup C) \cup F)
            = ValueOf(payload, (R \cup S) \cup C) + ValueOf(payload, F)
       /\ IsFiniteSet(((R \cup S) \cup C) \cup F)
  BY <1>7, <1>8, <1>10, ValueOfTwo
<1>12. ValueOf(payload, (((R \cup S) \cup C) \cup F) \cup E)
         = ValueOf(payload, ((R \cup S) \cup C) \cup F) + ValueOf(payload, E)
  BY <1>7, <1>8, <1>11, ValueOfTwo
<1>13. /\ Value(InOutbox("signed")) = ValueOf(payload, R)
       /\ Value(InOutbox("submitted")) = ValueOf(payload, S)
       /\ Value(InOutbox("confirmed")) = ValueOf(payload, C)
       /\ Value(Live) = ValueOf(payload, (R \cup S) \cup C)
       /\ Value(TodaysReservations) = ValueOf(payload, (((R \cup S) \cup C) \cup F) \cup E)
  BY <1>5, <1>6, ValueIsNow DEF R, S, C
<1> QED
  BY <1>4, <1>9, <1>10, <1>11, <1>12, <1>13

(* What is locked covers what can still be spent.                          *)
LEMMA LockedCovers ==
  ASSUME PlanIInv, OneDay, Settled
  PROVE  /\ Locked(store.policy) >= Value(Live)
         /\ Locked(store.policy) \in Nat /\ Value(Live) \in Nat
         /\ Current(store.policy) = store.policy
<1>0. TypeOK /\ DayInv /\ IsFiniteSet(Signed) /\ store.policy \in Policy
  <2>1. TypeOK /\ DayInv /\ IsFiniteSet(Signed)
    BY DEF PlanIInv, IInv
  <2> QED
    BY <2>1 DEF TypeOK, StoreType, DayInv
<1>1. Current(store.policy) = store.policy
  BY <1>0 DEF DayInv, Current
<1>2. /\ Locked(store.policy) =
           store.policy.reserved + store.policy.submitted + store.policy.confirmed
      /\ Locked(store.policy) \in Nat
  BY <1>0, <1>1 DEF Locked, Policy, Buckets
<1>3. CASE plan = "releases"
  BY <1>1, <1>2, <1>3, SettledBooks
<1>4. CASE plan = "faults"
  <2>1. Covered = Live
    BY DEF Covered, TakenOut, Under, Settled, Live, InOutbox, UnderConstruction, TodaysReservations
  <2>2. Value(Covered) \in Nat
    BY <1>0, CoveredIsFinite, ValueIsNow, ValueType
  <2>3. Locked(store.policy) >= Value(Covered)
    BY <1>4 DEF PlanIInv, CoverInv
  <2> QED
    BY <1>1, <1>2, <2>1, <2>2, <2>3
<1> QED
  BY <1>3, <1>4 DEF OneDay

(* Between calls, whatever crashed before, what is locked covers what can  *)
(* still be spent today; and where nothing crashes and nothing is          *)
(* forgotten, each bucket holds its payloads and the five add up to what   *)
(* was signed.                                                             *)
THEOREM BooksAddUpAlways == PlanSpec => []BooksAddUp
<1>1. ASSUME PlanIInv PROVE BooksAddUp
  <2>1. Quiet => Settled
    BY CallerIn DEF Quiet, Settled
  <2>2. plan \in {"releases", "faults"} => BooksCover
    BY <1>1, <2>1, LockedCovers DEF BooksCover, OneDay
  <2>3. plan = "releases" => BucketsCover /\ BooksBalance
    <3> SUFFICES ASSUME plan = "releases", Quiet PROVE BucketsCover /\ BooksBalance
      BY DEF BucketsCover, BooksBalance
    <3>1. /\ Current(store.policy) = store.policy
          /\ Locked(store.policy) >= Value(Live)
      BY <1>1, <2>1, LockedCovers DEF OneDay
    <3> DEFINE b == store.policy
    <3>2. /\ b.reserved = Value(InOutbox("signed"))
          /\ b.submitted = Value(InOutbox("submitted"))
          /\ b.confirmed = Value(InOutbox("confirmed"))
          /\ b.reserved + b.submitted + b.confirmed + b.failed + b.expired
               = Value(TodaysReservations)
          /\ b.reserved \in Nat /\ b.submitted \in Nat /\ b.confirmed \in Nat
      BY <1>1, <2>1, SettledBooks
    <3> QED
      BY <3>1, <3>2 DEF BucketsCover, BooksBalance
  <2> QED
    BY <2>2, <2>3 DEF BooksAddUp
<1> QED
  BY <1>1, PlanInvariance, PTL

(* One call at a time, whatever crashes, nothing is signed without a       *)
(* passphrase beyond the daily limit.                                      *)
THEOREM LimitHolds == PlanSpec => LimitHoldsOneByOne
<1>1. ASSUME PlanIInv, [PlanNext]_<<vars, plan>>, plan # "owner", plan # "concurrent"
      PROVE  WithinLimit
  <2>0. OneDay /\ Sequential /\ TypeOK /\ plan' = plan
    BY <1>1, StepIs DEF PlanIInv, PlanOps, OneDay, Sequential, IInv
  <2>1. CASE UNCHANGED payload
    BY <2>1 DEF WithinLimit
  <2>2. ASSUME NEW c \in Calls, CallStep(c), InPlan', Sign(c) PROVE WithinLimit
    <3>0. c = Caller
      BY <1>1, <2>0, <2>2, WhoActs
    <3>1. pc[Caller] = "sign" /\ SigningAllowed(task[Caller]) /\ Settled
      BY <2>2, <3>0 DEF Sign, Settled
    <3>2. /\ \A q \in Payloads : q # task[Caller].id => payload'[q] = payload[q]
          /\ \A q \in Payloads : q = task[Caller].id =>
               payload'[q].amount = task[Caller].amount
                 /\ payload'[q].lowValue = task[Caller].lowValue
      BY <2>0, <2>2, <3>0 DEF Sign, TypeOK
    <3>3. task[Caller].amount \in Nat
      BY <1>1, <3>1, CallerIn DEF PlanIInv, IInv, CallInv, TaskType
    <3>4. /\ Locked(store.policy) >= Value(Live)
          /\ Locked(store.policy) \in Nat /\ Value(Live) \in Nat
      BY <1>1, <2>0, <3>1, LockedCovers
    <3>5. task[Caller].lowValue => Value(Live) + task[Caller].amount <= DailyLimit
      BY <3>1, <3>3, <3>4, ConstantsAssumption DEF SigningAllowed, Allowed
    <3> QED
      BY <3>2, <3>5 DEF WithinLimit
  <2>3. ASSUME NEW p \in Payloads, SubmitElsewhere(p) \/ Settle(p) PROVE UNCHANGED payload
    BY <2>3 DEF SubmitElsewhere, Settle
  <2>4. CASE DayPasses \/ UNCHANGED vars
    BY <2>1, <2>4 DEF DayPasses, vars, world
  <2> QED
    BY <1>1, <2>1, <2>2, <2>3, <2>4, StepIs, WhatChanges
<1>2. PlanIInv /\ [PlanNext]_<<vars, plan>>
        => [(plan # "owner" /\ plan # "concurrent") => WithinLimit]_vars
  BY <1>1
<1> QED
  BY <1>2, PlanInvariance, PTL DEF PlanSpec, LimitHoldsOneByOne

OutboxWrites == {"addWrite", "attemptWrite", "failWrite", "statusWrite", "forgetWrite"}

LEMMA EntryFollows ==
  ASSUME OneCall, CallStep(Caller)
  PROVE  FollowsChain
<1> USE OneCallFacts
<1>t. pc[Caller] \in OutboxWrites => task[Caller] \in TaskType /\ task[Caller].id \in Payloads
  BY DEF CallInv, AdminLabels, OutboxWrites
<1>1. CASE UNCHANGED outbox
  BY <1>1 DEF FollowsChain, Status
<1>2. CASE AddWrite(Caller)
  BY <1>2, <1>t DEF AddWrite, WriteOutbox, OutboxDrafted, FoundOrLeft, FollowsChain, Status,
                    OutboxWrites, TypeOK, OutboxType
<1>3. CASE AttemptWrite(Caller)
  <2>1. /\ pc[Caller] = "attemptWrite"
        /\ outbox' = [outbox EXCEPT ![task[Caller].id] = [status |-> "submitted", hashed |-> TRUE]]
    BY <1>3 DEF AttemptWrite, WriteOutbox, OutboxDrafted
  <2>2. Status(task[Caller].id) \notin {"confirmed", "failed"}
    BY <2>1 DEF FoundOrLeft
  <2>3. \A q \in Payloads : q # task[Caller].id => Status(q)' = Status(q)
    BY <2>1 DEF Status, TypeOK, OutboxType
  <2>4. \A q \in Payloads : q = task[Caller].id => Status(q)' \in {"submitted", "none"}
    BY <2>1 DEF Status, TypeOK, OutboxType
  <2> QED
    BY <2>2, <2>3, <2>4 DEF FollowsChain
<1>4. CASE FailWrite(Caller)
  BY <1>4 DEF FailWrite, WriteOutbox, OutboxDrafted, FollowsChain, Status
<1>5. CASE StatusWrite(Caller)
  <2>1. /\ pc[Caller] = "statusWrite"
        /\ \A q \in Payloads : q # task[Caller].id => outbox'[q] = outbox[q]
        /\ \A q \in Payloads : q = task[Caller].id =>
             outbox'[q].status = task[Caller].to
    BY <1>5, <1>t DEF StatusWrite, WriteOutbox, OutboxDrafted, TypeOK, OutboxType, OutboxWrites
  <2>2. \A q \in Payloads : q # task[Caller].id => Status(q)' = Status(q)
    BY <2>1 DEF Status
  <2>3. \A q \in Payloads : q = task[Caller].id => Status(q)' \in {task[Caller].to, "none"}
    BY <2>1 DEF Status
  <2>4. Status(task[Caller].id) = task[Caller].was /\ task[Caller].op \in {"release", "status"}
    BY <2>1 DEF FoundOrLeft
  <2>5. CASE task[Caller].op = "release"
    BY <2>1, <2>2, <2>3, <2>4, <2>5 DEF FollowsChain, FoundOrLeft
  <2>6. CASE task[Caller].op = "status"
    <3>1. \/ task[Caller].to = "confirmed" /\ chain[task[Caller].id] = "included"
          \/ task[Caller].to = "failed" /\ chain[task[Caller].id] = "reverted"
      BY <2>1, <2>6 DEF FoundOrLeft
    <3>2. Status(task[Caller].id) = "confirmed" => chain[task[Caller].id] = "included"
      BY <1>t, <2>1 DEF StatusIsWarranted, Warranted, Status, OutboxWrites
    <3> QED
      BY <2>2, <2>3, <3>1, <3>2 DEF FollowsChain
  <2> QED
    BY <2>4, <2>5, <2>6
<1>6. CASE ForgetWrite(Caller)
  <2>1. outbox' = [outbox EXCEPT ![task[Caller].id] = Null]
    BY <1>6 DEF ForgetWrite, WriteOutbox, OutboxDrafted
  <2> QED
    BY <2>1 DEF FollowsChain, Status, TypeOK, OutboxType
<1> QED
  BY <1>1, <1>2, <1>3, <1>4, <1>5, <1>6, WhatChanges

(* One call at a time, an entry leaves "submitted" only for what the chain *)
(* says of its payload, and never leaves "confirmed".                      *)
THEOREM EntriesFollowTheChain == PlanSpec => EntryFollowsChain
<1>1. ASSUME PlanIInv, PlanIInv', [PlanNext]_<<vars, plan>>, Sequential PROVE FollowsChain
  <2>0. plan' = plan
    BY <1>1, StepIs
  <2>1. ASSUME NEW c \in Calls, CallStep(c), InPlan' PROVE FollowsChain
    <3>1. c = Caller
      BY <1>1, <2>0, <2>1, WhoActs
    <3>2. OneCall /\ CallStep(Caller)
      BY <1>1, <2>0, <2>1, <3>1 DEF OneCall, PlanIInv
    <3> QED
      BY <3>2, EntryFollows
  <2>2. ASSUME NEW p \in Payloads, SubmitElsewhere(p) \/ Settle(p) PROVE UNCHANGED outbox
    BY <2>2 DEF SubmitElsewhere, Settle, files
  <2>3. CASE DayPasses \/ UNCHANGED vars
    BY <2>3 DEF DayPasses, vars, files, FollowsChain, Status
  <2>4. CASE UNCHANGED outbox
    BY <2>4 DEF FollowsChain, Status
  <2> QED
    BY <1>1, <2>1, <2>2, <2>3, <2>4, StepIs
<1>2. PlanIInv /\ PlanIInv' /\ [PlanNext]_<<vars, plan>>
        => [plan # "concurrent" => FollowsChain]_vars
  BY <1>1 DEF Sequential
<1> QED
  BY <1>2, PlanInvariance, PTL DEF PlanSpec, EntryFollowsChain
=============================================================================
