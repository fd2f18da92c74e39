----------------------------- MODULE AgentWallet -----------------------------
(***************************************************************************)
(* The lifecycle of the dedicated Stele agent wallet: one public state     *)
(* file, the seeds in the native keyring, and any number of administrator  *)
(* processes running `create` or `repair`, each of which may die anywhere. *)
(*                                                                         *)
(* One action is one await: a read of the file, one atomic link, rename or *)
(* unlink, or one keyring call.  A replacement of the file is therefore    *)
(* two actions, the read that justifies it and the rename that ignores     *)
(* what has happened since.                                                *)
(*                                                                         *)
(* A seed, and the address derived from it, is named by the operation id   *)
(* of the creation that generated it.                                      *)
(***************************************************************************)
EXTENDS Naturals, FiniteSets

CONSTANTS
  Admins,          \* administrator processes; a name stands for a PID
  Creators,        \* those that run create ...
  Repairers,       \* ... and repair; the PID of one in both may be reused
  Ids,             \* random operation ids (bounds the creations)
  MaxFaults,       \* bounds the crashes and I/O failures
  NoFile,          \* the state file does not exist
  NoId             \* null: no id, no seed, no expected address

VARIABLES
  pc,       \* where each process is
  op,       \* "create" or "repair"
  id,       \* the credential id it works on
  addr,     \* the address it derived or read
  seen,     \* the lifecycle record it read last
  mine,     \* processes whose `provisioning` is set: a failure abandons it
  outcome,  \* what the call is about to report
  file,     \* the lifecycle record on disk
  seeds,    \* keyring: credential id -> seed
  used,     \* operation ids already drawn
  faults    \* crashes and failures so far

callVars == <<pc, op, id, addr, seen, mine, outcome>>
vars == <<callVars, file, seeds, used, faults>>

ASSUME ConstantsAssumption ==
  /\ Creators \subseteq Admins
  /\ Repairers \subseteq Admins
  /\ MaxFaults \in Nat
  /\ NoId \notin Ids

-----------------------------------------------------------------------------
(* Records.                                                                *)

Provisioning ==
  [state : {"provisioning"}, id : Ids, owner : Admins, active : BOOLEAN,
   expected : Ids \cup {NoId}]

Configured == [state : {"configured"}, id : Ids, address : Ids]

ASSUME NoFileAssumption == NoFile \notin Provisioning \cup Configured

IsProvisioning(r) == r # NoFile /\ r.state = "provisioning"

IsConfigured(r) == r # NoFile /\ r.state = "configured"

NewMarker(p, i) ==
  [state |-> "provisioning", id |-> i, owner |-> p, active |-> TRUE,
   expected |-> NoId]

(* Mutant of ProcessIsAlive: a PID that cannot be signalled counts as alive.*)
ProcessAssumedAlive(q) == TRUE

(* The owner's PID answers a signal; a later process may have taken it.    *)
ProcessIsAlive(q) == pc[q] # "idle"

IsProvisioningActive(r) == r.active /\ ProcessIsAlive(r.owner)

(* What listSeedIds returns.                                               *)
SeedIds == {i \in Ids : seeds[i] # NoId}

(* What the MCP server reports without opening the keyring.                *)
Status ==
  IF file = NoFile THEN "not_configured"
  ELSE IF IsConfigured(file) THEN "configured_locked" ELSE "repair_required"

-----------------------------------------------------------------------------
(* Process steps.                                                          *)

Goto(p, label) == pc' = [pc EXCEPT ![p] = label]

End(p, result) ==
  /\ Goto(p, "done")
  /\ outcome' = [outcome EXCEPT ![p] = result]

(* The catch clause: a marker the call created is abandoned, best effort.  *)
Fail(p, error) ==
  /\ Goto(p, IF p \in mine THEN "abandonRead" ELSE "done")
  /\ outcome' = [outcome EXCEPT ![p] = error]

NoFault == UNCHANGED faults

Fault ==
  /\ faults < MaxFaults
  /\ faults' = faults + 1

Forget(p) ==
  /\ Goto(p, "idle")
  /\ op' = [op EXCEPT ![p] = "none"]
  /\ id' = [id EXCEPT ![p] = NoId]
  /\ addr' = [addr EXCEPT ![p] = NoId]
  /\ seen' = [seen EXCEPT ![p] = NoFile]
  /\ mine' = mine \ {p}
  /\ outcome' = [outcome EXCEPT ![p] = "none"]

(* A rename or an unlink: done, failed without effect, or done but the     *)
(* directory could not be synchronized, which is an error all the same.    *)
Replaces(r) == file' = r /\ NoFault

ReplaceFails(r) == file' \in {file, r} /\ Fault

Init ==
  /\ pc = [p \in Admins |-> "idle"]
  /\ op = [p \in Admins |-> "none"]
  /\ id = [p \in Admins |-> NoId]
  /\ addr = [p \in Admins |-> NoId]
  /\ seen = [p \in Admins |-> NoFile]
  /\ mine = {}
  /\ outcome = [p \in Admins |-> "none"]
  /\ file = NoFile
  /\ seeds = [i \in Ids |-> NoId]
  /\ used = {}
  /\ faults = 0

(* The operation id and the seed are random: never one drawn before.  They *)
(* are drawn here, ahead of their first use.                               *)
StartCreate(p) ==
  /\ pc[p] = "idle"
  /\ p \in Creators
  /\ Goto(p, "readLifecycle")
  /\ op' = [op EXCEPT ![p] = "create"]
  /\ \E i \in Ids \ used :
       /\ id' = [id EXCEPT ![p] = i]
       /\ addr' = [addr EXCEPT ![p] = i]
       /\ used' = used \cup {i}
  /\ UNCHANGED <<seen, mine, outcome, file, seeds, faults>>

StartRepair(p) ==
  /\ pc[p] = "idle"
  /\ p \in Repairers
  /\ Goto(p, "readLifecycle")
  /\ op' = [op EXCEPT ![p] = "repair"]
  /\ UNCHANGED <<id, addr, seen, mine, outcome, file, seeds, used, faults>>

-----------------------------------------------------------------------------
(* Reading the lifecycle and the keyring.                                  *)

ReadForCreate(p) ==
  /\ pc[p] = "readLifecycle" /\ op[p] = "create"
  /\ IF IsConfigured(file) THEN End(p, "already_configured")
     ELSE IF IsProvisioning(file)
       THEN End(p, IF IsProvisioningActive(file) THEN "busy" ELSE "repair_required")
     ELSE Goto(p, "listSeeds") /\ UNCHANGED outcome
  /\ UNCHANGED <<op, id, addr, seen, mine, file, seeds, used, faults>>

(* Mutant of ReadForRepair: repair does not ask who owns the marker.       *)
ReadForRepairEager(p) ==
  /\ pc[p] = "readLifecycle" /\ op[p] = "repair"
  /\ seen' = [seen EXCEPT ![p] = file]
  /\ Goto(p, "listSeeds")
  /\ UNCHANGED <<op, id, addr, mine, outcome, file, seeds, used, faults>>

ReadForRepair(p) ==
  /\ pc[p] = "readLifecycle" /\ op[p] = "repair"
  /\ seen' = [seen EXCEPT ![p] = file]
  /\ IF IsProvisioning(file) /\ IsProvisioningActive(file) THEN End(p, "busy")
     ELSE Goto(p, "listSeeds") /\ UNCHANGED outcome
  /\ UNCHANGED <<op, id, addr, mine, file, seeds, used, faults>>

(* create: only over an empty keyring.                                     *)
ListForCreate(p) ==
  /\ pc[p] = "listSeeds" /\ op[p] = "create"
  /\ IF SeedIds # {} THEN End(p, "repair_required")
     ELSE Goto(p, "mark") /\ UNCHANGED outcome
  /\ UNCHANGED <<op, id, addr, seen, mine, file, seeds, used, faults>>

(* repair: what the record and the ids say together.                       *)
ListForRepair(p) ==
  /\ pc[p] = "listSeeds" /\ op[p] = "repair"
  /\ \/ /\ SeedIds = {} /\ seen[p] = NoFile
        /\ End(p, "none")
        /\ UNCHANGED id
     \/ /\ SeedIds = {} /\ IsProvisioning(seen[p])
        /\ Goto(p, "clearRead")
        /\ id' = [id EXCEPT ![p] = seen[p].id]
        /\ UNCHANGED outcome
     \/ /\ Cardinality(SeedIds) = 1
        /\ seen[p] # NoFile => SeedIds = {seen[p].id}
        /\ \E i \in SeedIds : id' = [id EXCEPT ![p] = i]
        /\ Goto(p, "readSeed")
        /\ UNCHANGED outcome
     \/ /\ \/ SeedIds = {} /\ IsConfigured(seen[p])
           \/ Cardinality(SeedIds) > 1
           \/ SeedIds # {} /\ seen[p] # NoFile /\ SeedIds # {seen[p].id}
        /\ End(p, "manual_recovery_required")
        /\ UNCHANGED id
  /\ UNCHANGED <<op, addr, seen, mine, file, seeds, used, faults>>

(* repair: the seed is read and its address derived again.                 *)
ReadSeed(p) ==
  /\ pc[p] = "readSeed"
  /\ LET seed == seeds[id[p]] IN
       /\ addr' = [addr EXCEPT ![p] = seed]
       /\ IF \/ seed = NoId
             \/ IsConfigured(seen[p]) /\ seen[p].address # seed
             \/ IsProvisioning(seen[p]) /\ seen[p].expected \notin {NoId, seed}
            THEN End(p, "manual_recovery_required")
          ELSE IF IsConfigured(seen[p]) THEN End(p, "verified")
          ELSE /\ Goto(p, IF seen[p] = NoFile THEN "mark"
                          ELSE IF seen[p].expected = NoId THEN "setRead"
                          ELSE "commitRead")
               /\ UNCHANGED outcome
  /\ UNCHANGED <<op, id, seen, mine, file, seeds, used, faults>>

-----------------------------------------------------------------------------
(* The provisioning marker.                                                *)

(* Mutant of CreateMarker: the temporary file is renamed, not linked.      *)
CreateMarkerOverwrites(p) ==
  /\ pc[p] = "mark"
  /\ file' = NewMarker(p, id[p])
  /\ mine' = mine \cup {p}
  /\ Goto(p, "setRead")
  /\ UNCHANGED <<op, id, addr, seen, outcome, seeds, used, faults>>

(* createProvisioning links a complete temporary file into place: the one  *)
(* step at which concurrent creations exclude each other.                  *)
CreateMarker(p) ==
  /\ pc[p] = "mark"
  /\ file = NoFile
  /\ file' = NewMarker(p, id[p])
  /\ mine' = mine \cup {p}
  /\ Goto(p, "setRead")
  /\ UNCHANGED <<op, id, addr, seen, outcome, seeds, used, faults>>

MarkerExists(p) ==
  /\ pc[p] = "mark"
  /\ file # NoFile
  /\ Goto(p, "probe")
  /\ UNCHANGED <<op, id, addr, seen, mine, outcome, file, seeds, used, faults>>

(* The link may be there although the call failed; nobody abandons it.     *)
MarkerFails(p) ==
  /\ pc[p] = "mark"
  /\ ReplaceFails(IF file = NoFile THEN NewMarker(p, id[p]) ELSE file)
  /\ End(p, "unavailable")
  /\ UNCHANGED <<op, id, addr, seen, mine, seeds, used>>

(* After EEXIST the record is read again to name the error.                *)
ProbeMarker(p) ==
  /\ pc[p] = "probe"
  /\ End(p, IF IsConfigured(file) THEN "already_configured"
            ELSE IF IsProvisioning(file) /\ IsProvisioningActive(file) THEN "busy"
            ELSE "repair_required")
  /\ UNCHANGED <<op, id, addr, seen, mine, file, seeds, used, faults>>

(* matchingProvisioning: the marker on disk is the one the call works on.  *)
Matches(p) == IsProvisioning(file) /\ file.id = id[p]

SetExpectedReads(p) ==
  /\ pc[p] = "setRead"
  /\ IF Matches(p) /\ file.expected \in {NoId, addr[p]}
       THEN /\ seen' = [seen EXCEPT ![p] = file]
            /\ Goto(p, "setWrite")
            /\ UNCHANGED outcome
       ELSE Fail(p, "manual_recovery_required") /\ UNCHANGED seen
  /\ UNCHANGED <<op, id, addr, mine, file, seeds, used, faults>>

WithExpected(p) == [seen[p] EXCEPT !.expected = addr[p]]

(* Mutant of SetExpectedWrites: create commits before it stores the seed.  *)
SetExpectedThenCommits(p) ==
  /\ pc[p] = "setWrite"
  /\ \/ /\ Replaces(WithExpected(p))
        /\ Goto(p, "commitRead")
        /\ UNCHANGED outcome
     \/ ReplaceFails(WithExpected(p)) /\ Fail(p, "unavailable")
  /\ UNCHANGED <<op, id, addr, seen, mine, seeds, used>>

SetExpectedWrites(p) ==
  /\ pc[p] = "setWrite"
  /\ \/ /\ Replaces(WithExpected(p))
        /\ Goto(p, IF op[p] = "create" THEN "seedRead" ELSE "commitRead")
        /\ UNCHANGED outcome
     \/ ReplaceFails(WithExpected(p)) /\ Fail(p, "unavailable")
  /\ UNCHANGED <<op, id, addr, seen, mine, seeds, used>>

CommitReads(p) ==
  /\ pc[p] = "commitRead"
  /\ IF Matches(p) /\ file.expected = addr[p]
       THEN /\ seen' = [seen EXCEPT ![p] = file]
            /\ Goto(p, "commitWrite")
            /\ UNCHANGED outcome
       ELSE Fail(p, "manual_recovery_required") /\ UNCHANGED seen
  /\ UNCHANGED <<op, id, addr, mine, file, seeds, used, faults>>

(* Mutant of AsConfigured: the marker's fields are carried over.           *)
AsConfiguredSpread(p) ==
  [state |-> "configured", id |-> seen[p].id, owner |-> seen[p].owner,
   active |-> seen[p].active, expected |-> seen[p].expected, address |-> addr[p]]

AsConfigured(p) ==
  [state |-> "configured", id |-> seen[p].id, address |-> addr[p]]

(* Mutant of CommitWrites: the error of the replacement is not thrown.     *)
CommitWritesUnchecked(p) ==
  /\ pc[p] = "commitWrite"
  /\ Replaces(AsConfigured(p)) \/ ReplaceFails(AsConfigured(p))
  /\ End(p, IF op[p] = "create" THEN "created" ELSE "recovered")
  /\ UNCHANGED <<op, id, addr, seen, mine, seeds, used>>

CommitWrites(p) ==
  /\ pc[p] = "commitWrite"
  /\ \/ /\ Replaces(AsConfigured(p))
        /\ End(p, IF op[p] = "create" THEN "created" ELSE "recovered")
     \/ ReplaceFails(AsConfigured(p)) /\ Fail(p, "unavailable")
  /\ UNCHANGED <<op, id, addr, seen, mine, seeds, used>>

(* Mutant of AbandonReads: the marker is not read again before it is       *)
(* abandoned.                                                              *)
AbandonReadsNothing(p) ==
  /\ pc[p] = "abandonRead"
  /\ Goto(p, IF IsProvisioning(seen[p]) THEN "abandonWrite" ELSE "done")
  /\ UNCHANGED <<op, id, addr, seen, mine, outcome, file, seeds, used, faults>>

(* abandonProvisioning; its own failures are swallowed.                    *)
AbandonReads(p) ==
  /\ pc[p] = "abandonRead"
  /\ IF Matches(p) /\ file.active
       THEN seen' = [seen EXCEPT ![p] = file] /\ Goto(p, "abandonWrite")
       ELSE Goto(p, "done") /\ UNCHANGED seen
  /\ UNCHANGED <<op, id, addr, mine, outcome, file, seeds, used, faults>>

Abandoned(p) == [seen[p] EXCEPT !.active = FALSE]

AbandonWrites(p) ==
  /\ pc[p] = "abandonWrite"
  /\ Replaces(Abandoned(p)) \/ ReplaceFails(Abandoned(p))
  /\ Goto(p, "done")
  /\ UNCHANGED <<op, id, addr, seen, mine, outcome, seeds, used>>

(* clearProvisioning: the marker is read again, then whatever is at the    *)
(* path is unlinked.                                                       *)
ClearReads(p) ==
  /\ pc[p] = "clearRead"
  /\ IF file = NoFile THEN End(p, "cleared_incomplete")
     ELSE IF Matches(p) THEN Goto(p, "clearWrite") /\ UNCHANGED outcome
     ELSE End(p, "manual_recovery_required")
  /\ UNCHANGED <<op, id, addr, seen, mine, file, seeds, used, faults>>

ClearWrites(p) ==
  /\ pc[p] = "clearWrite"
  /\ \/ Replaces(NoFile) /\ End(p, "cleared_incomplete")
     \/ ReplaceFails(NoFile) /\ End(p, "unavailable")
  /\ UNCHANGED <<op, id, addr, seen, mine, seeds, used>>

-----------------------------------------------------------------------------
(* The seed.                                                               *)

SeedCheckedAbsent(p) ==
  /\ pc[p] = "seedRead"
  /\ IF seeds[id[p]] = NoId THEN Goto(p, "seedWrite") /\ UNCHANGED outcome
     ELSE Fail(p, "repair_required")
  /\ UNCHANGED <<op, id, addr, seen, mine, file, seeds, used, faults>>

SeedStored(p) ==
  /\ pc[p] = "seedWrite"
  /\ seeds' = [seeds EXCEPT ![id[p]] = addr[p]]
  /\ Goto(p, "seedConfirm")
  /\ UNCHANGED <<op, id, addr, seen, mine, outcome, file, used, faults>>

SeedStoreFails(p) ==
  /\ pc[p] = "seedWrite"
  /\ Fault
  /\ seeds' \in {seeds, [seeds EXCEPT ![id[p]] = addr[p]]}
  /\ Fail(p, "credential_store_unavailable")
  /\ UNCHANGED <<op, id, addr, seen, mine, file, used>>

SeedReadBack(p) ==
  /\ pc[p] = "seedConfirm"
  /\ IF seeds[id[p]] = addr[p] THEN Goto(p, "relist") /\ UNCHANGED outcome
     ELSE Fail(p, "manual_recovery_required")
  /\ UNCHANGED <<op, id, addr, seen, mine, file, seeds, used, faults>>

SeedAlone(p) ==
  /\ pc[p] = "relist"
  /\ IF SeedIds = {id[p]} THEN Goto(p, "commitRead") /\ UNCHANGED outcome
     ELSE Fail(p, "manual_recovery_required")
  /\ UNCHANGED <<op, id, addr, seen, mine, file, seeds, used, faults>>

-----------------------------------------------------------------------------
(* Failures, and everything around the calls.                              *)

FileReads == {"readLifecycle", "probe", "setRead", "commitRead", "clearRead"}

KeyringReads == {"listSeeds", "readSeed", "seedRead", "seedConfirm", "relist"}

(* A read of the file or of the keyring throws.                            *)
ReadFails(p) ==
  /\ pc[p] \in FileReads \cup KeyringReads
  /\ Fault
  /\ Fail(p, IF pc[p] \in FileReads THEN "unavailable"
             ELSE "credential_store_unavailable")
  /\ UNCHANGED <<op, id, addr, seen, mine, file, seeds, used>>

(* Reading the marker to abandon it throws: it stays as it is.             *)
AbandonFails(p) ==
  /\ pc[p] = "abandonRead"
  /\ Fault
  /\ Goto(p, "done")
  /\ UNCHANGED <<op, id, addr, seen, mine, outcome, file, seeds, used>>

(* The outcome is printed and the process exits.                           *)
Exit(p) ==
  /\ pc[p] = "done"
  /\ Forget(p)
  /\ UNCHANGED <<file, seeds, used, faults>>

Crash(p) ==
  /\ pc[p] # "idle"
  /\ Fault
  /\ Forget(p)
  /\ UNCHANGED <<file, seeds, used>>

ReadStep(p) ==
  ReadForCreate(p) \/ ReadForRepair(p) \/ ListForCreate(p) \/ ListForRepair(p)
    \/ ReadSeed(p)

MarkerStep(p) ==
  CreateMarker(p) \/ MarkerExists(p) \/ MarkerFails(p) \/ ProbeMarker(p)

FileStep(p) ==
  SetExpectedReads(p) \/ SetExpectedWrites(p) \/ CommitReads(p) \/ CommitWrites(p)
    \/ AbandonReads(p) \/ AbandonWrites(p) \/ ClearReads(p) \/ ClearWrites(p)

SeedStep(p) ==
  SeedCheckedAbsent(p) \/ SeedStored(p) \/ SeedStoreFails(p) \/ SeedReadBack(p)
    \/ SeedAlone(p)

Proceed(p) ==
  ReadStep(p) \/ MarkerStep(p) \/ FileStep(p) \/ SeedStep(p)
    \/ ReadFails(p) \/ AbandonFails(p) \/ Exit(p)

Next ==
  \/ \E p \in Admins : Proceed(p) \/ Crash(p)
  \/ \E p \in Admins : StartCreate(p) \/ StartRepair(p)

Spec == Init /\ [][Next]_vars

(* Every await settles, and the owner runs repair again while the file is  *)
(* a marker, as every message that mentions it says to.                    *)
Fairness ==
  /\ \A p \in Admins : WF_vars(Proceed(p))
  /\ \A p \in Repairers : SF_vars(IsProvisioning(file) /\ StartRepair(p))

FairSpec == Spec /\ Fairness

-----------------------------------------------------------------------------
(* Type invariant.                                                         *)

Labels ==
  {"idle", "done", "mark", "setWrite", "commitWrite", "abandonRead",
   "abandonWrite", "clearWrite", "seedWrite"} \cup FileReads \cup KeyringReads

Outcomes ==
  {"none", "already_configured", "busy", "repair_required", "unavailable",
   "credential_store_unavailable", "manual_recovery_required", "created",
   "recovered", "verified", "cleared_incomplete"}

(* Every variable keeps the shape of the code's data; in particular a file *)
(* that is read always parses as one of the two records.                   *)
TypeOK ==
  /\ pc \in [Admins -> Labels]
  /\ op \in [Admins -> {"none", "create", "repair"}]
  /\ id \in [Admins -> Ids \cup {NoId}]
  /\ addr \in [Admins -> Ids \cup {NoId}]
  /\ seen \in [Admins -> Provisioning \cup Configured \cup {NoFile}]
  /\ mine \in SUBSET Admins
  /\ outcome \in [Admins -> Outcomes]
  /\ file \in Provisioning \cup Configured \cup {NoFile}
  /\ seeds \in [Ids -> Ids \cup {NoId}]
  /\ used \in SUBSET Ids
  /\ faults \in 0 .. MaxFaults

-----------------------------------------------------------------------------
(* Properties.                                                             *)

(* The public commitment is never ahead of the seed: whichever processes   *)
(* raced or died on the way, a configured file names a seed that is in the *)
(* keyring under that id and has that address.                             *)
ConfiguredHasItsSeed ==
  IsConfigured(file) => seeds[file.id] = file.address

(* What is done stays done.  No process overwrites or removes a seed       *)
(* (README, "It never deletes, reveals, exports, signs with, or replaces a *)
(* seed"), and while one repair runs at a time, however many creations     *)
(* race with it, a committed wallet stays committed.                       *)
NothingIsUndone ==
  [][ /\ \A i \in Ids : seeds[i] # NoId => seeds'[i] = seeds[i]
      /\ Status = "configured_locked" => file' = file ]_vars

(* There is one dedicated wallet: the test "atomic provisioning rejects    *)
(* concurrent creation before a second write".                             *)
AtMostOneSeed == Cardinality(SeedIds) <= 1

(* A marker is cleared only when there is no seed: README, "Repair may     *)
(* clear a provisioning marker only when the native store confirms that no *)
(* seed exists".                                                           *)
ClearsOnlyWithoutSeed ==
  [][ (file # NoFile /\ file' = NoFile) => SeedIds = {} ]_vars

(* What a call reports as done is so: the wallet it created, recovered or  *)
(* verified is the committed one.                                          *)
OutcomesAreTrue ==
  \A p \in Admins :
    (pc[p] = "done" /\ outcome[p] \in {"created", "recovered", "verified"}) =>
      /\ IsConfigured(file)
      /\ file.id = id[p]
      /\ file.address = addr[p]

(* An interrupted lifecycle does not stay interrupted: repair commits the  *)
(* seed or clears the marker, whatever crashed before.                     *)
MarkersAreReconciled == IsProvisioning(file) ~> ~IsProvisioning(file)
-----------------------------------------------------------------------------
(* The inductive invariants behind the safety properties.                  *)

BeforeMark == {"readLifecycle", "listSeeds", "mark", "probe"}

(* A creation between linking its marker and its last step.                *)
Marked ==
  {"setRead", "setWrite", "seedRead", "seedWrite", "seedConfirm", "relist",
   "commitRead", "commitWrite", "abandonRead", "abandonWrite"}

BeforeStore == BeforeMark \cup {"setRead", "setWrite", "seedRead", "seedWrite"}

Writing == {"setWrite", "commitWrite", "abandonWrite"}

(* A repair working on a seed, and on a marker.                            *)
Adopting == {"mark", "probe", "setRead", "setWrite", "commitRead", "commitWrite"}

Mending ==
  {"setRead", "setWrite", "commitRead", "commitWrite", "clearRead", "clearWrite"}

Creating(p) == op[p] = "create" /\ pc[p] # "done"

Repairing(p) == op[p] = "repair" /\ pc[p] # "done"

Committable(p) == id[p] \in Ids /\ addr[p] \in Ids /\ seeds[id[p]] = addr[p]

(* Ids are drawn once, and name the only seed their creation may store.    *)
IdsInv ==
  /\ \A i \in Ids : seeds[i] # NoId => seeds[i] = i /\ i \in used
  /\ \A p, q \in Admins :
       op[p] = "create" /\ op[q] = "create" /\ id[p] = id[q] => p = q

(* What each process knows, whichever others run: a creation has not stored*)
(* its seed before it comes to that, and a seed is in the keyring when its *)
(* address is about to be committed.                                       *)
CallInv(p) ==
  /\ pc[p] = "idle" <=> op[p] = "none"
  /\ pc[p] = "idle" => p \notin mine
  /\ pc[p] # "done" => outcome[p] \notin {"created", "recovered", "verified"}
  /\ op[p] = "create" => id[p] \in used /\ addr[p] = id[p]
  /\ pc[p] \in {"seedRead", "seedWrite", "seedConfirm", "relist"}
       => op[p] = "create"
  /\ pc[p] \in {"readSeed", "clearRead", "clearWrite"} => op[p] = "repair"
  /\ op[p] = "create" /\ pc[p] \in BeforeStore => seeds[id[p]] = NoId
  /\ pc[p] \in {"commitRead", "commitWrite"} => Committable(p)
  /\ op[p] = "repair" /\ pc[p] \in Adopting => Committable(p)
  /\ pc[p] = "readSeed" => id[p] \in SeedIds
  /\ pc[p] \in Writing => IsProvisioning(seen[p]) /\ seen[p].id = id[p]

SeedInv ==
  /\ TypeOK
  /\ IdsInv
  /\ \A p \in Admins : CallInv(p)
  /\ ConfiguredHasItsSeed

(* No creation with this id will take another step.                        *)
Retired(i) == \A p \in Admins : Creating(p) => id[p] # i

(* The marker of a creation under way is its own and active; nobody else   *)
(* has replaced it.                                                        *)
CreationInv(p) ==
  Creating(p) =>
    /\ IsProvisioning(file) /\ file.id = id[p] => file.owner = p /\ file.active
    /\ pc[p] \in BeforeMark => file = NoFile \/ file.id # id[p]
    /\ pc[p] \in Marked => file # NoFile /\ file.id = id[p]
    /\ pc[p] \in Marked \ {"abandonRead"} => IsProvisioning(file)
    /\ p \in mine => pc[p] \in Marked

(* A repair works on the marker, or the wallet, that it read first, and on *)
(* a marker only when the creation behind it is over.                      *)
RepairInv(p) ==
  Repairing(p) =>
    /\ p \notin mine
    /\ pc[p] \notin {"abandonRead", "abandonWrite"}
    /\ pc[p] \in {"listSeeds", "readSeed"} /\ seen[p] # NoFile =>
         /\ file = seen[p]
         /\ IsProvisioning(file) => Retired(file.id)
    /\ pc[p] = "readSeed" /\ seen[p] # NoFile => seen[p].id = id[p]
    /\ pc[p] \in Mending =>
         IsProvisioning(file) /\ file.id = id[p] /\ Retired(id[p])
    /\ pc[p] \in {"clearRead", "clearWrite"} => SeedIds = {}

(* With one repair at a time, a reading that is about to be replaced is    *)
(* still what the file says, and no seed is there without its file.        *)
IInv ==
  /\ SeedInv
  /\ \A p \in Admins : CreationInv(p) /\ RepairInv(p)
  /\ \A p \in Admins : pc[p] \in Writing => seen[p] = file
  /\ file # NoFile => file.id \in used
  /\ \A i \in SeedIds : file # NoFile /\ file.id = i
  /\ OutcomesAreTrue

(* The condition under which the code promises as much: nothing in it keeps*)
(* two repairs apart.                                                      *)
OneRepairAtATime ==
  \A p, q \in Admins : Repairing(p) /\ Repairing(q) => p = q
=============================================================================
