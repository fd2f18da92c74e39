-------------------------- MODULE AgentWalletProofs --------------------------
(***************************************************************************)
(* For any number of administrators, ids and faults: a configured wallet   *)
(* has its seed, and no seed is ever overwritten.  As long as one repair   *)
(* runs at a time there is at most one wallet, a call reports what is so,  *)
(* and what is committed stays committed.                                  *)
(*                                                                         *)
(* Most actions change one process only (Quiet); the lemmas on them say    *)
(* what that process knows afterwards, and SeedFrame and WalletFrame give  *)
(* the rest.                                                               *)
(***************************************************************************)
EXTENDS AgentWallet, FiniteSetTheorems, TLAPS

Records == Provisioning \cup Configured \cup {NoFile}

(* Only this process moves, ...                                            *)
Alone(p) ==
  \A q \in Admins \ {p} :
    /\ pc'[q] = pc[q] /\ op'[q] = op[q] /\ id'[q] = id[q] /\ addr'[q] = addr[q]
    /\ seen'[q] = seen[q] /\ outcome'[q] = outcome[q]
    /\ q \in mine' <=> q \in mine

(* ... it leaves file and keyring alone, and does not begin to create.     *)
Quiet(p) ==
  /\ Alone(p)
  /\ op'[p] = "create" => op[p] = "create" /\ id'[p] = id[p]
  /\ Creating(p)' => Creating(p)
  /\ UNCHANGED <<file, seeds, used>>

-----------------------------------------------------------------------------
(* Types.                                                                  *)

LEMMA RecordFacts ==
  ASSUME NEW r \in Records
  PROVE  /\ IsProvisioning(r) <=> r \in Provisioning
         /\ IsConfigured(r) <=> r \in Configured
         /\ r # NoFile => IsProvisioning(r) \/ IsConfigured(r)
         /\ ~(IsProvisioning(r) /\ IsConfigured(r))
         /\ r # NoFile => r.id \in Ids
         /\ IsProvisioning(r) => r.expected \in Ids \cup {NoId}
         /\ IsConfigured(r) => r.address \in Ids
BY NoFileAssumption DEF Records, Provisioning, Configured, IsProvisioning, IsConfigured

LEMMA Rewritten ==
  ASSUME NEW r \in Provisioning, NEW a \in Ids \cup {NoId}
  PROVE  /\ [r EXCEPT !.expected = a] \in Provisioning
         /\ [r EXCEPT !.active = FALSE] \in Provisioning
         /\ [r EXCEPT !.expected = a].id = r.id
         /\ [r EXCEPT !.active = FALSE].id = r.id
         /\ [r EXCEPT !.expected = a].owner = r.owner
         /\ [r EXCEPT !.expected = a].active = r.active
BY DEF Provisioning

LEMMA NewRecords ==
  ASSUME NEW p \in Admins, NEW i \in Ids, NEW a \in Ids
  PROVE  /\ NewMarker(p, i) \in Provisioning
         /\ NewMarker(p, i).id = i
         /\ NewMarker(p, i).owner = p
         /\ NewMarker(p, i).active = TRUE
         /\ [state |-> "configured", id |-> i, address |-> a] \in Configured
BY DEF NewMarker, Provisioning, Configured

LEMMA FaultType == TypeOK /\ (Fault \/ NoFault) => faults' \in 0 .. MaxFaults
BY ConstantsAssumption DEF TypeOK, Fault, NoFault

LEMMA InitTypes == Init => TypeOK
BY ConstantsAssumption DEF Init, TypeOK, Labels, Outcomes

-----------------------------------------------------------------------------
LEMMA ReadTypes ==
  ASSUME SeedInv, NEW p \in Admins, ReadStep(p) PROVE TypeOK'
<1>1. CASE ReadForCreate(p)
  BY <1>1 DEF SeedInv, TypeOK, ReadForCreate, End, Goto, Labels, Outcomes, KeyringReads
<1>2. CASE ReadForRepair(p)
  BY <1>2 DEF SeedInv, TypeOK, ReadForRepair, End, Goto, Labels, Outcomes, KeyringReads
<1>3. CASE ListForCreate(p)
  BY <1>3 DEF SeedInv, TypeOK, ListForCreate, End, Goto, Labels, Outcomes
<1>4. CASE ListForRepair(p)
  <2>1. seen[p] # NoFile => seen[p].id \in Ids
    BY RecordFacts DEF SeedInv, TypeOK, Records
  <2>2. id' \in [Admins -> Ids \cup {NoId}]
    BY <1>4, <2>1 DEF SeedInv, TypeOK, ListForRepair, SeedIds, IsProvisioning
  <2> QED
    BY <1>4, <2>2
    DEF SeedInv, TypeOK, ListForRepair, End, Goto, Labels, Outcomes, FileReads, KeyringReads
<1>5. CASE ReadSeed(p)
  <2>1. seeds[id[p]] \in Ids \cup {NoId}
    BY <1>5 DEF SeedInv, TypeOK, CallInv, ReadSeed, SeedIds
  <2> QED
    BY <1>5, <2>1 DEF SeedInv, TypeOK, ReadSeed, End, Goto, Labels, Outcomes, FileReads
<1> QED
  BY <1>1, <1>2, <1>3, <1>4, <1>5 DEF ReadStep

LEMMA MarkableId ==
  ASSUME SeedInv, NEW p \in Admins, pc[p] = "mark"
  PROVE  id[p] \in Ids /\ NewMarker(p, id[p]) \in Provisioning
<1>1. op[p] \in {"create", "repair"}
  BY DEF SeedInv, CallInv, TypeOK
<1>2. id[p] \in Ids
  BY <1>1 DEF SeedInv, CallInv, TypeOK, Adopting, Committable
<1> QED
  BY <1>2, NewRecords

LEMMA MarkerTypes ==
  ASSUME SeedInv, NEW p \in Admins, MarkerStep(p) PROVE TypeOK'
<1>1. CASE CreateMarker(p)
  BY <1>1, MarkableId
  DEF SeedInv, TypeOK, CreateMarker, Goto, Labels, FileReads
<1>2. CASE MarkerExists(p)
  BY <1>2 DEF SeedInv, TypeOK, MarkerExists, Goto, Labels, FileReads
<1>3. CASE MarkerFails(p)
  <2>1. file' \in Provisioning \cup Configured \cup {NoFile}
    BY <1>3, MarkableId DEF SeedInv, TypeOK, MarkerFails, ReplaceFails
  <2> QED
    BY <1>3, <2>1, FaultType
    DEF SeedInv, TypeOK, MarkerFails, ReplaceFails, End, Goto, Labels, Outcomes
<1>4. CASE ProbeMarker(p)
  BY <1>4 DEF SeedInv, TypeOK, ProbeMarker, End, Goto, Labels, Outcomes
<1> QED
  BY <1>1, <1>2, <1>3, <1>4 DEF MarkerStep

(* What a replacement writes, as long as it is a record.                   *)
LEMMA WrittenRecords ==
  ASSUME SeedInv, NEW p \in Admins, pc[p] \in Writing
  PROVE  /\ seen[p] \in Provisioning /\ seen[p].id = id[p] /\ id[p] \in Ids
         /\ WithExpected(p) \in Provisioning /\ WithExpected(p).id = id[p]
         /\ Abandoned(p) \in Provisioning /\ Abandoned(p).id = id[p]
         /\ pc[p] = "commitWrite" =>
              /\ AsConfigured(p) \in Configured
              /\ AsConfigured(p).id = id[p] /\ AsConfigured(p).address = addr[p]
<1>1. seen[p] \in Provisioning /\ seen[p].id = id[p] /\ id[p] \in Ids
  <2>1. seen[p] \in Records
    BY DEF SeedInv, TypeOK, Records
  <2>2. IsProvisioning(seen[p]) /\ seen[p].id = id[p]
    BY DEF SeedInv, CallInv
  <2> QED
    BY <2>1, <2>2, RecordFacts DEF Provisioning
<1>2. addr[p] \in Ids \cup {NoId} /\ (pc[p] = "commitWrite" => addr[p] \in Ids)
  BY DEF SeedInv, TypeOK, CallInv, Committable
<1>3. /\ WithExpected(p) \in Provisioning /\ WithExpected(p).id = id[p]
      /\ Abandoned(p) \in Provisioning /\ Abandoned(p).id = id[p]
  BY <1>1, <1>2, Rewritten DEF WithExpected, Abandoned
<1> QED
  BY <1>1, <1>2, <1>3, NewRecords DEF AsConfigured

LEMMA FileTypes ==
  ASSUME SeedInv, NEW p \in Admins, FileStep(p) PROVE TypeOK'
<1>1. CASE SetExpectedReads(p)
  BY <1>1 DEF SeedInv, TypeOK, SetExpectedReads, Fail, Goto, Labels, FileReads, Outcomes
<1>2. CASE SetExpectedWrites(p)
  <2>1. file' \in Provisioning \cup Configured \cup {NoFile} /\ (Fault \/ NoFault)
    BY <1>2, WrittenRecords
    DEF SeedInv, TypeOK, SetExpectedWrites, Writing, Replaces, ReplaceFails
  <2> QED
    BY <1>2, <2>1, FaultType
    DEF SeedInv, TypeOK, SetExpectedWrites, Fail, Goto, Labels, FileReads, KeyringReads, Outcomes
<1>3. CASE CommitReads(p)
  BY <1>3 DEF SeedInv, TypeOK, CommitReads, Fail, Goto, Labels, FileReads, Outcomes
<1>4. CASE CommitWrites(p)
  <2>1. file' \in Provisioning \cup Configured \cup {NoFile} /\ (Fault \/ NoFault)
    BY <1>4, WrittenRecords
    DEF SeedInv, TypeOK, CommitWrites, Writing, Replaces, ReplaceFails
  <2> QED
    BY <1>4, <2>1, FaultType
    DEF SeedInv, TypeOK, CommitWrites, Fail, End, Goto, Labels, Outcomes
<1>5. CASE AbandonReads(p)
  BY <1>5 DEF SeedInv, TypeOK, AbandonReads, Goto, Labels
<1>6. CASE AbandonWrites(p)
  <2>1. file' \in Provisioning \cup Configured \cup {NoFile} /\ (Fault \/ NoFault)
    BY <1>6, WrittenRecords
    DEF SeedInv, TypeOK, AbandonWrites, Writing, Replaces, ReplaceFails
  <2> QED
    BY <1>6, <2>1, FaultType DEF SeedInv, TypeOK, AbandonWrites, Goto, Labels
<1>7. CASE ClearReads(p)
  BY <1>7 DEF SeedInv, TypeOK, ClearReads, End, Goto, Labels, Outcomes
<1>8. CASE ClearWrites(p)
  <2>1. file' \in Provisioning \cup Configured \cup {NoFile} /\ (Fault \/ NoFault)
    BY <1>8 DEF SeedInv, TypeOK, ClearWrites, Replaces, ReplaceFails
  <2> QED
    BY <1>8, <2>1, FaultType DEF SeedInv, TypeOK, ClearWrites, End, Goto, Labels, Outcomes
<1> QED
  BY <1>1, <1>2, <1>3, <1>4, <1>5, <1>6, <1>7, <1>8 DEF FileStep

LEMMA SeedTypes ==
  ASSUME SeedInv, NEW p \in Admins, SeedStep(p) PROVE TypeOK'
<1>1. CASE SeedCheckedAbsent(p)
  BY <1>1 DEF SeedInv, TypeOK, SeedCheckedAbsent, Fail, Goto, Labels, FileReads, Outcomes
<1>2. CASE SeedStored(p)
  BY <1>2 DEF SeedInv, TypeOK, SeedStored, Goto, Labels, KeyringReads
<1>3. CASE SeedStoreFails(p)
  <2>1. seeds' \in [Ids -> Ids \cup {NoId}]
    BY <1>3 DEF SeedInv, TypeOK, SeedStoreFails
  <2> QED
    BY <1>3, <2>1, FaultType DEF SeedInv, TypeOK, SeedStoreFails, Fail, Goto, Labels, FileReads, Outcomes
<1>4. CASE SeedReadBack(p)
  BY <1>4 DEF SeedInv, TypeOK, SeedReadBack, Fail, Goto, Labels, FileReads, KeyringReads, Outcomes
<1>5. CASE SeedAlone(p)
  BY <1>5 DEF SeedInv, TypeOK, SeedAlone, Fail, Goto, Labels, FileReads, Outcomes
<1> QED
  BY <1>1, <1>2, <1>3, <1>4, <1>5 DEF SeedStep

LEMMA OtherTypes ==
  ASSUME SeedInv, NEW p \in Admins,
         \/ StartCreate(p) \/ StartRepair(p)
         \/ ReadFails(p) \/ AbandonFails(p) \/ Exit(p) \/ Crash(p)
  PROVE  TypeOK'
<1>1. CASE StartCreate(p)
  BY <1>1 DEF SeedInv, TypeOK, StartCreate, Goto, Labels, FileReads
<1>2. CASE StartRepair(p)
  BY <1>2 DEF SeedInv, TypeOK, StartRepair, Goto, Labels, FileReads
<1>3. CASE ReadFails(p)
  BY <1>3, FaultType DEF SeedInv, TypeOK, ReadFails, Fail, Goto, Labels, FileReads, Outcomes
<1>4. CASE AbandonFails(p)
  BY <1>4, FaultType DEF SeedInv, TypeOK, AbandonFails, Goto, Labels
<1>5. CASE Exit(p)
  BY <1>5 DEF SeedInv, TypeOK, Exit, Forget, Goto, Labels, Outcomes
<1>6. CASE Crash(p)
  BY <1>6, FaultType DEF SeedInv, TypeOK, Crash, Forget, Goto, Labels, Outcomes
<1> QED
  BY <1>1, <1>2, <1>3, <1>4, <1>5, <1>6

LEMMA StepTypes ==
  ASSUME SeedInv, NEW p \in Admins,
         Proceed(p) \/ Crash(p) \/ StartCreate(p) \/ StartRepair(p)
  PROVE  TypeOK'
BY ReadTypes, MarkerTypes, FileTypes, SeedTypes, OtherTypes DEF Proceed

-----------------------------------------------------------------------------
(* A configured wallet has its seed.                                       *)

LEMMA SeedInit == Init => SeedInv
<1> SUFFICES ASSUME Init PROVE SeedInv
  OBVIOUS
<1>1. TypeOK
  BY InitTypes
<1>2. IdsInv
  BY DEF Init, IdsInv
<1>3. ASSUME NEW p \in Admins PROVE CallInv(p)
  BY DEF Init, CallInv, BeforeStore, BeforeMark, Adopting, Writing
<1>4. ConfiguredHasItsSeed
  BY DEF Init, ConfiguredHasItsSeed, IsConfigured
<1> QED
  BY <1>1, <1>2, <1>3, <1>4 DEF SeedInv

(* Every step is one process's.                                            *)
LEMMA StepAlone ==
  ASSUME TypeOK, NEW p \in Admins,
         Proceed(p) \/ Crash(p) \/ StartCreate(p) \/ StartRepair(p)
  PROVE  Alone(p)
<1> USE DEF Alone, TypeOK, Goto, End, Fail, Forget
<1>1. CASE ReadStep(p)
  BY <1>1 DEF ReadStep, ReadForCreate, ReadForRepair, ListForCreate, ListForRepair, ReadSeed
<1>2. CASE MarkerStep(p)
  BY <1>2 DEF MarkerStep, CreateMarker, MarkerExists, MarkerFails, ProbeMarker
<1>3. CASE FileStep(p)
  BY <1>3 DEF FileStep, SetExpectedReads, SetExpectedWrites, CommitReads, CommitWrites,
              AbandonReads, AbandonWrites, ClearReads, ClearWrites
<1>4. CASE SeedStep(p)
  BY <1>4 DEF SeedStep, SeedCheckedAbsent, SeedStored, SeedStoreFails, SeedReadBack, SeedAlone
<1>5. CASE ReadFails(p) \/ AbandonFails(p) \/ Exit(p) \/ Crash(p)
  BY <1>5 DEF ReadFails, AbandonFails, Exit, Crash
<1>6. CASE StartCreate(p) \/ StartRepair(p)
  BY <1>6 DEF StartCreate, StartRepair
<1> QED
  BY <1>1, <1>2, <1>3, <1>4, <1>5, <1>6 DEF Proceed

(* A process that moves quietly disturbs nobody.                           *)
LEMMA SeedFrame ==
  ASSUME SeedInv, NEW p \in Admins, Quiet(p), TypeOK', CallInv(p)'
  PROVE  SeedInv'
<1>1. IdsInv'
  BY DEF SeedInv, IdsInv, Quiet, Alone
<1>2. ASSUME NEW q \in Admins PROVE CallInv(q)'
  <2>1. CASE q = p
    BY <2>1
  <2>2. CASE q # p
    BY <2>2 DEF SeedInv, CallInv, Quiet, Alone, Committable, SeedIds
  <2> QED
    BY <2>1, <2>2
<1>3. ConfiguredHasItsSeed'
  BY DEF SeedInv, ConfiguredHasItsSeed, Quiet, IsConfigured
<1> QED
  BY <1>1, <1>2, <1>3 DEF SeedInv

(* The actions that only read.                                             *)
QuietStep(p) ==
  \/ StartRepair(p) \/ ReadStep(p) \/ MarkerExists(p) \/ ProbeMarker(p)
  \/ SetExpectedReads(p) \/ CommitReads(p) \/ AbandonReads(p) \/ ClearReads(p)
  \/ SeedCheckedAbsent(p) \/ SeedReadBack(p) \/ SeedAlone(p)
  \/ ReadFails(p) \/ AbandonFails(p) \/ Exit(p) \/ Crash(p)

LEMMA QuietIsQuiet ==
  ASSUME SeedInv, NEW p \in Admins, QuietStep(p) PROVE Quiet(p)
<1>1. Alone(p)
  BY StepAlone DEF SeedInv, QuietStep, Proceed, ReadStep, MarkerStep, FileStep, SeedStep
<1>2. UNCHANGED <<file, seeds, used>>
  BY DEF QuietStep, StartRepair, ReadStep, ReadForCreate, ReadForRepair, ListForCreate,
         ListForRepair, ReadSeed, MarkerExists, ProbeMarker, SetExpectedReads,
         CommitReads, AbandonReads, ClearReads, SeedCheckedAbsent, SeedReadBack,
         SeedAlone, ReadFails, AbandonFails, Exit, Crash
<1>3. /\ op'[p] = "create" => op[p] = "create" /\ id'[p] = id[p]
      /\ Creating(p)' => Creating(p)
  <2> USE DEF SeedInv, TypeOK, Creating, End, Fail, Goto
  <2>1. CASE StartRepair(p)
    BY <2>1 DEF StartRepair
  <2>2. CASE ReadStep(p)
    BY <2>2 DEF ReadStep, ReadForCreate, ReadForRepair, ListForCreate, ListForRepair, ReadSeed
  <2>3. CASE MarkerExists(p) \/ ProbeMarker(p)
    BY <2>3 DEF MarkerExists, ProbeMarker
  <2>4. CASE SetExpectedReads(p) \/ CommitReads(p) \/ AbandonReads(p) \/ ClearReads(p)
    BY <2>4 DEF SetExpectedReads, CommitReads, AbandonReads, ClearReads
  <2>5. CASE SeedCheckedAbsent(p) \/ SeedReadBack(p) \/ SeedAlone(p)
    BY <2>5 DEF SeedCheckedAbsent, SeedReadBack, SeedAlone
  <2>6. CASE ReadFails(p) \/ AbandonFails(p)
    BY <2>6 DEF ReadFails, AbandonFails, FileReads, KeyringReads
  <2>7. CASE Exit(p) \/ Crash(p)
    BY <2>7 DEF Exit, Crash, Forget
  <2> QED
    BY <2>1, <2>2, <2>3, <2>4, <2>5, <2>6, <2>7 DEF QuietStep
<1> QED
  BY <1>1, <1>2, <1>3 DEF Quiet

LEMMA QuietCall ==
  ASSUME SeedInv, NEW p \in Admins, QuietStep(p) PROVE CallInv(p)'
<1> USE DEF SeedInv, TypeOK, CallInv, Goto, End, Fail, BeforeStore, BeforeMark, Adopting,
            Writing, Committable
<1>1. CASE StartRepair(p)
  BY <1>1 DEF StartRepair
<1>2. CASE ReadForCreate(p) \/ ReadForRepair(p) \/ ListForCreate(p)
  BY <1>2 DEF ReadForCreate, ReadForRepair, ListForCreate
<1>3. CASE ListForRepair(p)
  BY <1>3 DEF ListForRepair, SeedIds
<1>4. CASE ReadSeed(p)
  BY <1>4 DEF ReadSeed, SeedIds
<1>5. CASE MarkerExists(p) \/ ProbeMarker(p)
  BY <1>5 DEF MarkerExists, ProbeMarker
<1>6. CASE SetExpectedReads(p)
  BY <1>6 DEF SetExpectedReads, Matches
<1>7. CASE CommitReads(p)
  BY <1>7 DEF CommitReads, Matches
<1>8. CASE AbandonReads(p)
  BY <1>8 DEF AbandonReads, Matches
<1>9. CASE ClearReads(p)
  BY <1>9 DEF ClearReads
<1>10. CASE SeedCheckedAbsent(p)
  BY <1>10 DEF SeedCheckedAbsent
<1>11. CASE SeedReadBack(p)
  BY <1>11 DEF SeedReadBack
<1>12. CASE SeedAlone(p)
  <2>1. SeedIds = {id[p]} => id[p] \in Ids /\ seeds[id[p]] = id[p]
    BY DEF SeedIds, IdsInv
  <2> QED
    BY <1>12, <2>1 DEF SeedAlone
<1>13. CASE ReadFails(p) \/ AbandonFails(p)
  BY <1>13 DEF ReadFails, AbandonFails, FileReads, KeyringReads
<1>14. CASE Exit(p) \/ Crash(p)
  BY <1>14 DEF Exit, Crash, Forget
<1> QED
  BY <1>1, <1>2, <1>3, <1>4, <1>5, <1>6, <1>7, <1>8, <1>9, <1>10, <1>11, <1>12, <1>13, <1>14
  DEF QuietStep, ReadStep

(* The actions that write, one by one.                                     *)
LEMMA SeedStartCreate ==
  ASSUME SeedInv, NEW p \in Admins, StartCreate(p) PROVE SeedInv'
<1>1. TypeOK' /\ Alone(p)
  BY StepTypes, StepAlone DEF SeedInv
<1>2. PICK i \in Ids \ used : /\ id' = [id EXCEPT ![p] = i]
                              /\ addr' = [addr EXCEPT ![p] = i]
                              /\ used' = used \cup {i}
  BY DEF StartCreate
<1>3. /\ pc'[p] = "readLifecycle" /\ op'[p] = "create" /\ id'[p] = i /\ addr'[p] = i
      /\ UNCHANGED <<mine, outcome, file, seeds>>
  BY <1>2 DEF StartCreate, Goto, SeedInv, TypeOK
<1>4. \A q \in Admins : op[q] = "create" => id[q] # i
  BY <1>2 DEF SeedInv, CallInv
<1>5. IdsInv'
  BY <1>1, <1>2, <1>3, <1>4 DEF SeedInv, IdsInv, Alone
<1>6. CallInv(p)'
  <2>1. i \in used' /\ seeds'[i] = NoId
    BY <1>2, <1>3 DEF SeedInv, IdsInv
  <2>2. outcome'[p] \notin {"created", "recovered", "verified"}
    BY <1>3 DEF StartCreate, SeedInv, CallInv
  <2> QED
    BY <1>3, <2>1, <2>2 DEF CallInv, Writing, Adopting
<1>7. ASSUME NEW q \in Admins, q # p PROVE CallInv(q)'
  BY <1>1, <1>2, <1>3, <1>7 DEF SeedInv, CallInv, Alone, Committable, SeedIds
<1>8. ConfiguredHasItsSeed'
  BY <1>3 DEF SeedInv, ConfiguredHasItsSeed, IsConfigured
<1> QED
  BY <1>1, <1>5, <1>6, <1>7, <1>8 DEF SeedInv

(* Replacing the file, when the new record is a marker or has its seed.    *)
LEMMA FileFrame ==
  ASSUME SeedInv, NEW p \in Admins, Alone(p), TypeOK', CallInv(p)',
         op'[p] = op[p], id'[p] = id[p], UNCHANGED <<seeds, used>>,
         IsConfigured(file') => seeds[file'.id] = file'.address
  PROVE  SeedInv'
<1>1. IdsInv'
  BY DEF SeedInv, IdsInv, Alone
<1>2. ASSUME NEW q \in Admins, q # p PROVE CallInv(q)'
  BY <1>2 DEF SeedInv, CallInv, Alone, Committable, SeedIds
<1>3. ConfiguredHasItsSeed'
  BY DEF ConfiguredHasItsSeed, IsConfigured
<1> QED
  BY <1>1, <1>2, <1>3 DEF SeedInv

LEMMA SeedMarker ==
  ASSUME SeedInv, NEW p \in Admins, CreateMarker(p) \/ MarkerFails(p)
  PROVE  SeedInv'
<1>1. TypeOK' /\ Alone(p)
  BY StepTypes, StepAlone DEF SeedInv, Proceed, MarkerStep
<1>2. /\ pc[p] = "mark" /\ pc'[p] \in {"setRead", "done"}
      /\ pc'[p] = "setRead" => outcome' = outcome
      /\ UNCHANGED <<op, id, addr, seen, seeds, used>>
      /\ file' \in {file, NewMarker(p, id[p])}
  BY DEF CreateMarker, MarkerFails, ReplaceFails, Goto, End, SeedInv, TypeOK
<1>3. CallInv(p)'
  BY <1>2 DEF SeedInv, CallInv, BeforeStore, BeforeMark, Adopting, Writing, Committable
<1>4. ~IsConfigured(NewMarker(p, id[p]))
  BY DEF NewMarker, IsConfigured
<1>5. IsConfigured(file') => seeds[file'.id] = file'.address
  BY <1>2, <1>4 DEF SeedInv, ConfiguredHasItsSeed
<1> QED
  BY <1>1, <1>2, <1>3, <1>5, FileFrame

LEMMA SeedWrites ==
  ASSUME SeedInv, NEW p \in Admins,
         SetExpectedWrites(p) \/ CommitWrites(p) \/ AbandonWrites(p) \/ ClearWrites(p)
  PROVE  SeedInv'
<1>1. TypeOK' /\ Alone(p)
  BY StepTypes, StepAlone DEF SeedInv, Proceed, FileStep
<1>2. UNCHANGED <<op, id, addr, seen, seeds, used>>
  BY DEF SetExpectedWrites, CommitWrites, AbandonWrites, ClearWrites
<1>3. CallInv(p)'
  <2> USE <1>2 DEF SeedInv, TypeOK, CallInv, BeforeStore, BeforeMark, Adopting, Writing,
                   Committable, Goto, End, Fail
  <2>1. CASE SetExpectedWrites(p)
    BY <2>1 DEF SetExpectedWrites
  <2>2. CASE CommitWrites(p)
    BY <2>2 DEF CommitWrites
  <2>3. CASE AbandonWrites(p)
    BY <2>3 DEF AbandonWrites
  <2>4. CASE ClearWrites(p)
    BY <2>4 DEF ClearWrites
  <2> QED
    BY <2>1, <2>2, <2>3, <2>4
<1>4. IsConfigured(file') => seeds[file'.id] = file'.address
  <2>1. CASE CommitWrites(p)
    <3>1. file' \in {file, AsConfigured(p)}
      BY <2>1 DEF CommitWrites, Replaces, ReplaceFails
    <3>2. AsConfigured(p).id = id[p] /\ AsConfigured(p).address = addr[p]
      BY <2>1, WrittenRecords DEF CommitWrites, Writing
    <3>3. seeds[id[p]] = addr[p]
      BY <2>1 DEF SeedInv, CallInv, CommitWrites, Committable
    <3> QED
      BY <3>1, <3>2, <3>3 DEF SeedInv, ConfiguredHasItsSeed
  <2>2. CASE SetExpectedWrites(p) \/ AbandonWrites(p)
    <3>1. pc[p] \in Writing /\ file' \in {file, WithExpected(p), Abandoned(p)}
      BY <2>2 DEF SetExpectedWrites, AbandonWrites, Replaces, ReplaceFails, Writing
    <3>2. ~IsConfigured(WithExpected(p)) /\ ~IsConfigured(Abandoned(p))
      BY <3>1, WrittenRecords DEF Provisioning, IsConfigured
    <3> QED
      BY <3>1, <3>2 DEF SeedInv, ConfiguredHasItsSeed
  <2>3. CASE ClearWrites(p)
    <3>1. file' \in {file, NoFile}
      BY <2>3 DEF ClearWrites, Replaces, ReplaceFails
    <3> QED
      BY <3>1 DEF SeedInv, ConfiguredHasItsSeed, IsConfigured
  <2> QED
    BY <2>1, <2>2, <2>3
<1> QED
  BY <1>1, <1>2, <1>3, <1>4, FileFrame

(* The one write of a seed, which may take effect and fail all the same,   *)
(* is under an id nobody else works with.                                  *)
LEMMA OwnSeed ==
  ASSUME SeedInv, NEW p \in Admins, pc[p] = "seedWrite"
  PROVE  /\ op[p] = "create" /\ id[p] \in Ids /\ id[p] \in used
         /\ addr[p] = id[p] /\ seeds[id[p]] = NoId
         /\ \A q \in Admins : q # p /\ op[q] = "create" => id[q] # id[p]
         /\ \A q \in Admins : pc[q] = "readSeed" \/ Committable(q) => id[q] # id[p]
BY ConstantsAssumption
DEF SeedInv, TypeOK, IdsInv, CallInv, BeforeStore, BeforeMark, Committable, SeedIds

LEMMA SeedStores ==
  ASSUME SeedInv, NEW p \in Admins, SeedStored(p) \/ SeedStoreFails(p)
  PROVE  SeedInv'
<1>1. TypeOK' /\ Alone(p)
  BY StepTypes, StepAlone DEF SeedInv, Proceed, SeedStep
<1>2. /\ pc[p] = "seedWrite" /\ pc'[p] \in {"seedConfirm", "done", "abandonRead"}
      /\ outcome'[p] \in {outcome[p], "credential_store_unavailable"}
      /\ UNCHANGED <<op, id, addr, seen, file, used>>
      /\ seeds' \in {seeds, [seeds EXCEPT ![id[p]] = addr[p]]}
  BY DEF SeedStored, SeedStoreFails, Goto, Fail, SeedInv, TypeOK
<1>3. /\ \A i \in Ids \ {id[p]} : seeds'[i] = seeds[i]
      /\ seeds'[id[p]] \in {NoId, id[p]}
  BY <1>2, OwnSeed DEF SeedInv, TypeOK
<1>4. IdsInv'
  BY <1>1, <1>2, <1>3, OwnSeed DEF SeedInv, IdsInv
<1>5. CallInv(p)'
  BY <1>2, OwnSeed DEF SeedInv, CallInv, BeforeStore, BeforeMark, Adopting, Writing
<1>6. ASSUME NEW q \in Admins, q # p PROVE CallInv(q)'
  <2>1. /\ pc'[q] = pc[q] /\ outcome'[q] = outcome[q] /\ (q \in mine' <=> q \in mine)
        /\ CallInv(q)
    BY <1>1, <1>6 DEF Alone, SeedInv
  <2>2. op[q] = "create" => id[q] \in Ids /\ seeds'[id[q]] = seeds[id[q]]
    BY <1>2, <1>3, <1>6, <2>1, OwnSeed DEF SeedInv, TypeOK, CallInv
  <2>3. Committable(q) => Committable(q)'
    BY <1>2, <1>3, OwnSeed DEF Committable
  <2>4. pc[q] = "readSeed" /\ id[q] \in SeedIds => id[q] \in SeedIds'
    BY <1>2, <1>3, OwnSeed DEF SeedIds
  <2> QED
    BY <1>2, <2>1, <2>2, <2>3, <2>4 DEF CallInv
<1>7. ConfiguredHasItsSeed'
  <2>1. IsConfigured(file) => file.id \in Ids /\ file.address \in Ids
    <3>1. file \in Records
      BY DEF SeedInv, TypeOK, Records
    <3> QED
      BY <3>1, RecordFacts DEF IsConfigured
  <2>2. IsConfigured(file) => file.id # id[p]
    BY <1>2, <2>1, OwnSeed, ConstantsAssumption DEF SeedInv, ConfiguredHasItsSeed
  <2> QED
    BY <1>2, <1>3, <2>1, <2>2 DEF SeedInv, ConfiguredHasItsSeed, IsConfigured
<1> QED
  BY <1>1, <1>4, <1>5, <1>6, <1>7 DEF SeedInv

LEMMA SeedStep1 ==
  ASSUME SeedInv, NEW p \in Admins,
         Proceed(p) \/ Crash(p) \/ StartCreate(p) \/ StartRepair(p)
  PROVE  SeedInv'
<1>1. CASE QuietStep(p)
  <2>1. TypeOK'
    BY <1>1, StepTypes DEF QuietStep, Proceed, MarkerStep, FileStep, SeedStep
  <2> QED
    BY <1>1, <2>1, QuietIsQuiet, QuietCall, SeedFrame
<1>2. \/ QuietStep(p) \/ StartCreate(p) \/ CreateMarker(p) \/ MarkerFails(p)
      \/ SetExpectedWrites(p) \/ CommitWrites(p) \/ AbandonWrites(p) \/ ClearWrites(p)
      \/ SeedStored(p) \/ SeedStoreFails(p)
  BY DEF QuietStep, Proceed, MarkerStep, FileStep, SeedStep
<1> QED
  BY <1>1, <1>2, SeedStartCreate, SeedMarker, SeedWrites, SeedStores

(* A process steps, or nothing changes.                                    *)
LEMMA Steps ==
  ASSUME [Next]_vars
  PROVE  \/ UNCHANGED vars
         \/ \E p \in Admins :
              Proceed(p) \/ Crash(p) \/ StartCreate(p) \/ StartRepair(p)
BY DEF Next

LEMMA SeedInductive == SeedInv /\ [Next]_vars => SeedInv'
<1> SUFFICES ASSUME SeedInv, [Next]_vars PROVE SeedInv'
  OBVIOUS
<1>1. CASE UNCHANGED vars
  BY <1>1
  DEF vars, callVars, SeedInv, TypeOK, IdsInv, CallInv, ConfiguredHasItsSeed,
      Committable, SeedIds, IsConfigured, IsProvisioning
<1>2. ASSUME NEW p \in Admins,
             Proceed(p) \/ Crash(p) \/ StartCreate(p) \/ StartRepair(p)
      PROVE  SeedInv'
  BY <1>2, SeedStep1
<1> QED
  BY <1>1, <1>2, Steps

LEMMA SeedInvariant == Spec => []SeedInv
BY SeedInit, SeedInductive, PTL DEF Spec

(* Type correctness, for any number of processes and faults: whatever is   *)
(* read from the file parses as one of the two records.                    *)
THEOREM TypesAreKept == Spec => []TypeOK
<1>1. SeedInv => TypeOK
  BY DEF SeedInv
<1> QED
  BY <1>1, SeedInvariant, PTL

(* A configured file names a seed that is in the keyring, whichever        *)
(* creations and repairs overlap, crash or fail (AgentWallet).             *)
THEOREM CommitmentHasItsSeed == Spec => []ConfiguredHasItsSeed
<1>1. SeedInv => ConfiguredHasItsSeed
  BY DEF SeedInv
<1> QED
  BY <1>1, SeedInvariant, PTL

-----------------------------------------------------------------------------
(* One repair at a time.                                                   *)

(* The part of OutcomesAreTrue about one process.                          *)
Told(p) ==
  pc[p] = "done" /\ outcome[p] \in {"created", "recovered", "verified"} =>
    IsConfigured(file) /\ file.id = id[p] /\ file.address = addr[p]

(* A process that is not working on a file it has read.                    *)
Apart(p) ==
  /\ Creating(p) => pc[p] \in BeforeMark
  /\ Repairing(p) =>
       /\ pc[p] \notin Mending
       /\ pc[p] \in {"listSeeds", "readSeed"} => seen[p] = NoFile

LEMMA WalletInit == Init => IInv
<1> SUFFICES ASSUME Init PROVE IInv
  OBVIOUS
<1>1. SeedInv
  BY SeedInit
<1>2. ASSUME NEW p \in Admins PROVE CreationInv(p) /\ RepairInv(p) /\ pc[p] \notin Writing
  BY DEF Init, CreationInv, RepairInv, Creating, Repairing, Writing
<1>3. file = NoFile /\ SeedIds = {}
  BY DEF Init, SeedIds
<1>4. OutcomesAreTrue
  BY DEF Init, OutcomesAreTrue
<1> QED
  BY <1>1, <1>2, <1>3, <1>4 DEF IInv

(* Where the actions have a process.                                       *)
LEMMA Places ==
  ASSUME SeedInv, NEW p \in Admins
  PROVE  /\ Creating(p) => pc[p] \in BeforeMark \cup Marked
         /\ pc[p] \in Writing => Creating(p) \/ Repairing(p)
BY DEF SeedInv, TypeOK, CallInv, Creating, Repairing, Labels, FileReads, KeyringReads,
       BeforeMark, Marked, Writing

LEMMA WalletFrame ==
  ASSUME IInv, NEW p \in Admins, Quiet(p), SeedInv', CreationInv(p)', RepairInv(p)',
         pc'[p] \in Writing => seen'[p] = file, Told(p)'
  PROVE  IInv'
<1>1. \A i : Retired(i) => Retired(i)'
  BY DEF Retired, Quiet, Alone, Creating
<1>2. ASSUME NEW q \in Admins, q # p
      PROVE  /\ CreationInv(q)' /\ RepairInv(q)' /\ Told(q)'
             /\ pc'[q] \in Writing => seen'[q] = file
  <2>1. /\ pc'[q] = pc[q] /\ op'[q] = op[q] /\ id'[q] = id[q] /\ addr'[q] = addr[q]
        /\ seen'[q] = seen[q] /\ outcome'[q] = outcome[q] /\ (q \in mine' <=> q \in mine)
        /\ UNCHANGED <<file, seeds, used>>
    BY <1>2 DEF Quiet, Alone
  <2>2. CreationInv(q)'
    BY <2>1 DEF IInv, CreationInv, Creating, IsProvisioning
  <2>3. RepairInv(q)'
    BY <2>1, <1>1 DEF IInv, RepairInv, Repairing, IsProvisioning, SeedIds
  <2>4. Told(q)'
    BY <2>1 DEF IInv, OutcomesAreTrue, Told, IsConfigured
  <2> QED
    BY <2>1, <2>2, <2>3, <2>4 DEF IInv
<1>3. OutcomesAreTrue'
  BY <1>2 DEF OutcomesAreTrue, Told
<1> QED
  BY <1>2, <1>3 DEF IInv, Quiet, SeedIds

(* The file may be replaced, or a seed stored, when nobody else is at it.  *)
LEMMA WriteFrame ==
  ASSUME IInv, NEW p \in Admins, Alone(p), SeedInv',
         \A q \in Admins \ {p} : Apart(q), ~IsConfigured(file),
         \A q \in Admins \ {p} : Creating(q) => file' = NoFile \/ file'.id # id[q],
         CreationInv(p)', RepairInv(p)', pc'[p] \in Writing => seen'[p] = file', Told(p)',
         file' # NoFile => file'.id \in used',
         \A i \in SeedIds' : file' # NoFile /\ file'.id = i
  PROVE  IInv'
<1>1. ASSUME NEW q \in Admins, q # p
      PROVE  /\ CreationInv(q)' /\ RepairInv(q)' /\ Told(q)'
             /\ pc'[q] \notin Writing
  <2>1. /\ pc'[q] = pc[q] /\ op'[q] = op[q] /\ id'[q] = id[q] /\ addr'[q] = addr[q]
        /\ seen'[q] = seen[q] /\ outcome'[q] = outcome[q] /\ (q \in mine' <=> q \in mine)
        /\ Apart(q)
    BY <1>1 DEF Alone
  <2>2. CreationInv(q)'
    <3>1. SUFFICES ASSUME Creating(q) PROVE CreationInv(q)'
      BY <2>1 DEF CreationInv, Creating
    <3>2. pc[q] \in BeforeMark /\ q \notin mine
      BY <2>1, <3>1 DEF IInv, CreationInv, Apart, BeforeMark, Marked
    <3>3. file' = NoFile \/ file'.id # id[q]
      BY <1>1, <3>1
    <3> QED
      BY <2>1, <3>2, <3>3 DEF CreationInv, IsProvisioning, BeforeMark, Marked
  <2>3. RepairInv(q)'
    BY <2>1 DEF IInv, RepairInv, Repairing, Apart, Mending
  <2>4. Told(q)'
    BY <1>1, <2>1 DEF IInv, OutcomesAreTrue, Told
  <2>5. pc[q] \notin Writing
    BY <1>1, <2>1, Places DEF IInv, RepairInv, Apart, Writing, Mending, BeforeMark
  <2> QED
    BY <2>1, <2>2, <2>3, <2>4, <2>5
<1>2. OutcomesAreTrue'
  BY <1>1 DEF OutcomesAreTrue, Told
<1> QED
  BY <1>1, <1>2 DEF IInv

(* Who replaces a record is alone with it.                                 *)
LEMMA Exclusive ==
  ASSUME IInv, OneRepairAtATime, NEW p \in Admins,
         \/ Creating(p) /\ pc[p] \in Marked \ {"abandonRead"}
         \/ Repairing(p) /\ pc[p] \in Mending
  PROVE  /\ IsProvisioning(file) /\ file.id = id[p] /\ ~IsConfigured(file)
         /\ \A q \in Admins \ {p} : Apart(q) /\ (Creating(q) => file.id # id[q])
<1>1. IsProvisioning(file) /\ file.id = id[p]
  BY DEF IInv, CreationInv, RepairInv
<1>2. ~IsConfigured(file)
  BY <1>1 DEF IsProvisioning, IsConfigured
<1>3. ASSUME NEW q \in Admins, q # p, Creating(q) PROVE id[q] # id[p]
  BY <1>3 DEF IInv, SeedInv, IdsInv, Creating, RepairInv, Retired
<1>4. ASSUME NEW q \in Admins, q # p PROVE Apart(q)
  <2>1. Creating(q) => pc[q] \in BeforeMark
    BY <1>1, <1>3, <1>4, Places DEF IInv, CreationInv
  <2>2. Repairing(q) => Creating(p)
    BY <1>4 DEF OneRepairAtATime
  <2>3. Repairing(q) => pc[q] \notin Mending
    BY <1>1, <2>2 DEF IInv, RepairInv, Retired
  <2>4. Repairing(q) /\ pc[q] \in {"listSeeds", "readSeed"} => seen[q] = NoFile
    BY <1>1, <2>2 DEF IInv, RepairInv, Retired
  <2> QED
    BY <2>1, <2>3, <2>4 DEF Apart
<1> QED
  BY <1>1, <1>2, <1>3, <1>4

(* A process that only reads keeps its own part.                           *)
LEMMA OverMarker ==
  ASSUME IInv, IsProvisioning(file), ~IsProvisioningActive(file)
  PROVE  Retired(file.id)
BY DEF IInv, SeedInv, CallInv, CreationInv, Retired, Creating, IsProvisioningActive,
       ProcessIsAlive

LEMMA QuietCreation ==
  ASSUME IInv, NEW p \in Admins, QuietStep(p)
  PROVE  /\ CreationInv(p)'
         /\ Creating(p)' /\ pc'[p] \in Writing => seen'[p] = file
<1>1. Quiet(p) /\ TypeOK /\ CallInv(p) /\ CreationInv(p)
  BY QuietIsQuiet DEF IInv, SeedInv
<1>2. SUFFICES ASSUME Creating(p)'
               PROVE  /\ CreationInv(p)'
                      /\ pc'[p] \in Writing => seen'[p] = file
  BY DEF CreationInv
<1>3. Creating(p) /\ op'[p] = "create" /\ id'[p] = id[p] /\ file' = file
  BY <1>1, <1>2 DEF Quiet, Creating
<1>4. /\ p \in mine' <=> p \in mine
      /\ pc'[p] \in {"listSeeds", "mark", "probe", "setWrite", "commitWrite", "abandonRead",
                     "abandonWrite", "seedWrite", "relist", "commitRead"}
      /\ pc'[p] \in Writing => seen'[p] = file /\ IsProvisioning(file) /\ file.id = id[p]
      /\ pc'[p] \in BeforeMark <=> pc[p] \in BeforeMark
      /\ pc'[p] \in {"seedWrite", "relist", "commitRead"} => IsProvisioning(file)
      /\ pc'[p] \in Marked => pc[p] \in Marked
  <2> USE <1>1, <1>3
      DEF TypeOK, Creating, CallInv, CreationInv, Goto, End, Fail, BeforeMark, Marked, Writing
  <2>1. CASE StartRepair(p)
    BY <2>1 DEF StartRepair
  <2>2. CASE ReadStep(p)
    BY <2>2, <1>2
    DEF ReadStep, ReadForCreate, ReadForRepair, ListForCreate, ListForRepair, ReadSeed
  <2>3. CASE MarkerExists(p) \/ ProbeMarker(p)
    BY <2>3, <1>2 DEF MarkerExists, ProbeMarker
  <2>4. CASE SetExpectedReads(p)
    BY <2>4, <1>2 DEF SetExpectedReads, Matches
  <2>5. CASE CommitReads(p)
    BY <2>5, <1>2 DEF CommitReads, Matches
  <2>6. CASE AbandonReads(p)
    BY <2>6, <1>2 DEF AbandonReads, Matches
  <2>7. CASE ClearReads(p)
    BY <2>7, <1>2 DEF ClearReads
  <2>8. CASE SeedCheckedAbsent(p) \/ SeedReadBack(p) \/ SeedAlone(p)
    BY <2>8, <1>2 DEF SeedCheckedAbsent, SeedReadBack, SeedAlone
  <2>9. CASE ReadFails(p) \/ AbandonFails(p)
    BY <2>9, <1>2 DEF ReadFails, AbandonFails, FileReads, KeyringReads
  <2>10. CASE Exit(p) \/ Crash(p)
    BY <2>10, <1>2 DEF Exit, Crash, Forget
  <2> QED
    BY <2>1, <2>2, <2>3, <2>4, <2>5, <2>6, <2>7, <2>8, <2>9, <2>10 DEF QuietStep
<1> QED
  BY <1>1, <1>3, <1>4 DEF CreationInv, IsProvisioning, BeforeMark, Marked, Writing

LEMMA QuietRepair ==
  ASSUME IInv, NEW p \in Admins, QuietStep(p)
  PROVE  /\ RepairInv(p)'
         /\ Repairing(p)' /\ pc'[p] \in Writing => seen'[p] = file
<1>1. Quiet(p) /\ TypeOK /\ CallInv(p) /\ RepairInv(p)
  BY QuietIsQuiet DEF IInv, SeedInv
<1>2. SUFFICES ASSUME Repairing(p)'
               PROVE  /\ RepairInv(p)'
                      /\ pc'[p] \in Writing => seen'[p] = file
  BY DEF RepairInv
<1>3. file' = file /\ seeds' = seeds /\ \A i : Retired(i) => Retired(i)'
  BY <1>1 DEF Quiet, Alone, Retired, Creating
<1>4. SeedIds' = SeedIds /\ IsProvisioning(file)' = IsProvisioning(file)
  BY <1>3 DEF SeedIds, IsProvisioning
<1>5. CASE StartRepair(p)
  BY <1>1, <1>5 DEF StartRepair, Goto, TypeOK, CallInv, RepairInv, Mending, Writing
<1>6. CASE ~StartRepair(p)
  <2>1. Repairing(p) /\ (p \in mine' <=> p \in mine)
    <3> USE <1>1, <1>2, <1>6 DEF Repairing, TypeOK, CallInv, Goto, End, Fail
    <3>1. CASE ReadStep(p)
      BY <3>1
      DEF ReadStep, ReadForCreate, ReadForRepair, ListForCreate, ListForRepair, ReadSeed
    <3>2. CASE MarkerExists(p) \/ ProbeMarker(p)
      BY <3>2 DEF MarkerExists, ProbeMarker
    <3>3. CASE SetExpectedReads(p) \/ CommitReads(p) \/ AbandonReads(p) \/ ClearReads(p)
      BY <3>3 DEF SetExpectedReads, CommitReads, AbandonReads, ClearReads
    <3>4. CASE SeedCheckedAbsent(p) \/ SeedReadBack(p) \/ SeedAlone(p)
      BY <3>4 DEF SeedCheckedAbsent, SeedReadBack, SeedAlone
    <3>5. CASE ReadFails(p) \/ AbandonFails(p)
      BY <3>5 DEF ReadFails, AbandonFails, FileReads, KeyringReads
    <3>6. CASE Exit(p) \/ Crash(p)
      BY <3>6 DEF Exit, Crash, Forget
    <3> QED
      BY <3>1, <3>2, <3>3, <3>4, <3>5, <3>6 DEF QuietStep
  <2> USE <1>1, <1>2, <1>3, <1>4, <2>1
      DEF TypeOK, Repairing, RepairInv, CallInv, Goto, End, Fail, Mending, Writing
  <2>2. CASE ReadForCreate(p) \/ ListForCreate(p)
    BY <2>2 DEF ReadForCreate, ListForCreate
  <2>3. CASE ReadForRepair(p)
    <3>1. IsProvisioning(file) /\ ~IsProvisioningActive(file) => Retired(file.id)'
      BY OverMarker
    <3> QED
      BY <2>3, <3>1 DEF ReadForRepair
  <2>4. CASE ListForRepair(p)
    <3>1. CASE pc'[p] = "readSeed"
      BY <2>4, <3>1 DEF ListForRepair
    <3>2. CASE pc'[p] = "clearRead"
      BY <2>4, <3>2 DEF ListForRepair, IsProvisioning
    <3> QED
      BY <2>4, <3>1, <3>2 DEF ListForRepair
  <2>5. CASE ReadSeed(p)
    <3>1. seen[p] # NoFile => IsProvisioning(seen[p]) \/ IsConfigured(seen[p])
      <4>1. seen[p] \in Records
        BY DEF Records
      <4> QED
        BY <4>1, RecordFacts
    <3> QED
      BY <2>5, <3>1 DEF ReadSeed
  <2>6. CASE MarkerExists(p) \/ ProbeMarker(p)
    BY <2>6 DEF MarkerExists, ProbeMarker
  <2>7. CASE SetExpectedReads(p)
    BY <2>7 DEF SetExpectedReads, Matches
  <2>8. CASE CommitReads(p)
    BY <2>8 DEF CommitReads, Matches
  <2>9. CASE AbandonReads(p) \/ AbandonFails(p)
    BY <2>9 DEF AbandonReads, AbandonFails
  <2>10. CASE ClearReads(p)
    BY <2>10 DEF ClearReads
  <2>11. CASE SeedCheckedAbsent(p) \/ SeedReadBack(p) \/ SeedAlone(p)
    BY <2>11 DEF SeedCheckedAbsent, SeedReadBack, SeedAlone
  <2>12. CASE ReadFails(p)
    BY <2>12 DEF ReadFails, FileReads, KeyringReads
  <2>13. CASE Exit(p) \/ Crash(p)
    BY <2>13 DEF Exit, Crash, Forget
  <2> QED
    BY <1>6, <2>2, <2>3, <2>4, <2>5, <2>6, <2>7, <2>8, <2>9, <2>10, <2>11, <2>12, <2>13
    DEF QuietStep, ReadStep
<1> QED
  BY <1>5, <1>6

(* Of the outcomes that promise something, only "verified" is decided by a *)
(* read.                                                                   *)
LEMMA QuietTold ==
  ASSUME IInv, NEW p \in Admins, QuietStep(p) PROVE Told(p)'
<1> USE DEF IInv, SeedInv, TypeOK, Told, Goto, End, Fail
<1>1. CASE StartRepair(p)
  BY <1>1 DEF StartRepair
<1>2. CASE ReadForCreate(p) \/ ReadForRepair(p) \/ ListForCreate(p) \/ ListForRepair(p)
  BY <1>2 DEF ReadForCreate, ReadForRepair, ListForCreate, ListForRepair
<1>3. CASE ReadSeed(p)
  BY <1>3 DEF ReadSeed, RepairInv, Repairing, CallInv, IsConfigured
<1>4. CASE MarkerExists(p) \/ ProbeMarker(p)
  BY <1>4 DEF MarkerExists, ProbeMarker
<1>5. CASE SetExpectedReads(p) \/ CommitReads(p) \/ ClearReads(p)
  BY <1>5 DEF SetExpectedReads, CommitReads, ClearReads
<1>6. CASE SeedCheckedAbsent(p) \/ SeedReadBack(p) \/ SeedAlone(p)
  BY <1>6 DEF SeedCheckedAbsent, SeedReadBack, SeedAlone
<1>7. CASE ReadFails(p)
  BY <1>7 DEF ReadFails
<1>8. CASE Exit(p) \/ Crash(p)
  BY <1>8 DEF Exit, Crash, Forget
<1>9. CASE AbandonReads(p) \/ AbandonFails(p)
  BY <1>9 DEF AbandonReads, AbandonFails, CallInv
<1> QED
  BY <1>1, <1>2, <1>3, <1>4, <1>5, <1>6, <1>7, <1>8, <1>9 DEF QuietStep, ReadStep

LEMMA QuietWallet ==
  ASSUME IInv, NEW p \in Admins, QuietStep(p) PROVE IInv'
<1>1. Quiet(p) /\ SeedInv'
  BY QuietIsQuiet, SeedStep1 DEF IInv, QuietStep, Proceed, MarkerStep, FileStep, SeedStep
<1>2. CreationInv(p)' /\ RepairInv(p)' /\ Told(p)'
  BY QuietCreation, QuietRepair, QuietTold
<1>3. pc'[p] \in Writing => seen'[p] = file
  <2>1. pc'[p] \in Writing => Creating(p)' \/ Repairing(p)'
    BY <1>1 DEF SeedInv, TypeOK, CallInv, Creating, Repairing, Writing
  <2> QED
    BY <2>1, QuietCreation, QuietRepair
<1> QED
  BY <1>1, <1>2, <1>3, WalletFrame

LEMMA WalletStartCreate ==
  ASSUME IInv, NEW p \in Admins, StartCreate(p) PROVE IInv'
<1>1. SeedInv' /\ Alone(p)
  BY SeedStep1, StepAlone DEF IInv, SeedInv
<1>2. /\ pc[p] = "idle" /\ pc'[p] = "readLifecycle" /\ op'[p] = "create" /\ p \notin mine'
      /\ id'[p] \notin used /\ used \subseteq used' /\ UNCHANGED <<file, seeds>>
  BY DEF StartCreate, Goto, IInv, SeedInv, TypeOK, CallInv
<1>3. file # NoFile /\ Retired(file.id) => Retired(file.id)'
  BY <1>1, <1>2 DEF IInv, Retired, Alone, Creating
<1>4. ASSUME NEW q \in Admins, q # p
      PROVE  /\ CreationInv(q)' /\ RepairInv(q)' /\ Told(q)'
             /\ pc'[q] \in Writing => seen'[q] = file
  <2>1. /\ pc'[q] = pc[q] /\ op'[q] = op[q] /\ id'[q] = id[q] /\ addr'[q] = addr[q]
        /\ seen'[q] = seen[q] /\ outcome'[q] = outcome[q] /\ (q \in mine' <=> q \in mine)
        /\ UNCHANGED <<file, seeds>>
    BY <1>1, <1>2, <1>4 DEF Alone
  <2>2. CreationInv(q)'
    BY <2>1 DEF IInv, CreationInv, Creating, IsProvisioning
  <2>3. RepairInv(q)'
    BY <2>1, <1>3 DEF IInv, RepairInv, Repairing, IsProvisioning, SeedIds
  <2>4. Told(q)'
    BY <2>1 DEF IInv, OutcomesAreTrue, Told, IsConfigured
  <2> QED
    BY <2>1, <2>2, <2>3, <2>4 DEF IInv
<1>5. CreationInv(p)' /\ RepairInv(p)' /\ Told(p)' /\ pc'[p] \notin Writing
  BY <1>2 DEF IInv, CreationInv, RepairInv, Repairing, Creating, Told, Writing,
              BeforeMark, Marked, IsProvisioning
<1>6. OutcomesAreTrue'
  BY <1>4, <1>5 DEF OutcomesAreTrue, Told
<1> QED
  BY <1>1, <1>2, <1>4, <1>5, <1>6 DEF IInv, SeedIds

(* Linking the marker: there was no file, so nobody is at work on one.     *)
LEMMA NoFileApart ==
  ASSUME IInv, file = NoFile, NEW q \in Admins
  PROVE  Apart(q) /\ ~IsConfigured(file) /\ SeedIds = {}
<1>1. ~IsProvisioning(file) /\ ~IsConfigured(file) /\ SeedIds = {}
  BY DEF IsProvisioning, IsConfigured, IInv
<1> QED
  BY <1>1, Places DEF IInv, CreationInv, RepairInv, Apart

LEMMA WalletMarker ==
  ASSUME IInv, NEW p \in Admins, CreateMarker(p) \/ MarkerFails(p) PROVE IInv'
<1>1. SeedInv' /\ Alone(p)
  BY SeedStep1, StepAlone DEF IInv, SeedInv, Proceed, MarkerStep
<1>2. /\ pc[p] = "mark" /\ op' = op /\ id' = id /\ seen' = seen
      /\ UNCHANGED <<seeds, used>>
      /\ \/ pc'[p] = "setRead" /\ file = NoFile /\ file' = NewMarker(p, id[p])
         \/ /\ pc'[p] = "done" /\ outcome'[p] = "unavailable" /\ mine' = mine
            /\ file' = file \/ (file = NoFile /\ file' = NewMarker(p, id[p]))
  <2>1. CASE CreateMarker(p)
    BY <2>1 DEF CreateMarker, Goto, IInv, SeedInv, TypeOK
  <2>2. CASE MarkerFails(p)
    <3>1. file' = file \/ (file = NoFile /\ file' = NewMarker(p, id[p]))
      BY <2>2 DEF MarkerFails, ReplaceFails
    <3> QED
      BY <2>2, <3>1 DEF MarkerFails, ReplaceFails, Goto, End, IInv, SeedInv, TypeOK
  <2> QED
    BY <2>1, <2>2
<1>3. CASE file' = file
  <2>1. pc'[p] = "done" /\ outcome'[p] = "unavailable"
    <3>1. file = NoFile => file # NewMarker(p, id[p])
      BY <1>2, MarkableId, NoFileAssumption DEF IInv
    <3> QED
      BY <1>2, <1>3, <3>1
  <2>2. Quiet(p)
    BY <1>1, <1>2, <1>3, <2>1 DEF Quiet, Creating
  <2>3. CreationInv(p)' /\ RepairInv(p)' /\ Told(p)' /\ pc'[p] \notin Writing
    BY <2>1 DEF CreationInv, RepairInv, Creating, Repairing, Told, Writing
  <2> QED
    BY <1>1, <2>2, <2>3, WalletFrame
<1>4. CASE file = NoFile /\ file' = NewMarker(p, id[p])
  <2>1. /\ \A q \in Admins : Apart(q)
        /\ ~IsConfigured(file) /\ SeedIds = {}
    BY <1>4, NoFileApart
  <2>2. op[p] = "create"
    BY <1>2, <2>1, ConstantsAssumption
    DEF IInv, SeedInv, TypeOK, CallInv, Adopting, Committable, SeedIds
  <2>3. /\ id[p] \in Ids /\ id[p] \in used
        /\ file' # NoFile /\ file'.id = id[p] /\ file'.owner = p /\ file'.active = TRUE
        /\ IsProvisioning(file') /\ ~IsConfigured(file')
    <3>1. id[p] \in Ids /\ id[p] \in used /\ NewMarker(p, id[p]) \in Provisioning
      BY <1>2, <2>2, MarkableId DEF IInv, SeedInv, CallInv
    <3> QED
      BY <1>4, <3>1, NewRecords, NoFileAssumption
      DEF IsProvisioning, IsConfigured, NewMarker
  <2>4. \A q \in Admins \ {p} : Creating(q) => file'.id # id[q]
    BY <2>2, <2>3 DEF IInv, SeedInv, IdsInv, Creating
  <2>5. CreationInv(p)'
    BY <1>2, <2>2, <2>3 DEF CreationInv, Creating, IsProvisioning, BeforeMark, Marked
  <2>6. RepairInv(p)' /\ Told(p)' /\ pc'[p] \notin Writing
    BY <1>2, <2>2 DEF RepairInv, Repairing, Told, Writing
  <2>7. SeedIds' = {}
    BY <1>2, <2>1 DEF SeedIds
  <2> QED
    BY <1>1, <1>2, <2>1, <2>3, <2>4, <2>5, <2>6, <2>7, WriteFrame
<1> QED
  BY <1>2, <1>3, <1>4

(* Replacing the marker a process has just read.                           *)
LEMMA Rewriting ==
  ASSUME IInv, OneRepairAtATime, NEW p \in Admins, pc[p] \in Writing
  PROVE  /\ IsProvisioning(file) /\ file.id = id[p] /\ ~IsConfigured(file) /\ seen[p] = file
         /\ \A q \in Admins \ {p} : Apart(q) /\ (Creating(q) => file.id # id[q])
         /\ Creating(p) \/ Repairing(p)
         /\ Creating(p) => file.owner = p /\ file.active
         /\ Repairing(p) => Retired(id[p]) /\ p \notin mine /\ pc[p] # "abandonWrite"
         /\ file.id \in used /\ \A i \in SeedIds : file.id = i
<1>1. Creating(p) \/ Repairing(p)
  BY Places DEF IInv
<1>2. /\ Creating(p) => pc[p] \in Marked \ {"abandonRead"}
      /\ Repairing(p) => pc[p] \in Mending /\ pc[p] # "abandonWrite"
  BY DEF IInv, RepairInv, Writing, Marked, Mending
<1>3. /\ IsProvisioning(file) /\ file.id = id[p] /\ ~IsConfigured(file)
      /\ \A q \in Admins \ {p} : Apart(q) /\ (Creating(q) => file.id # id[q])
  BY <1>1, <1>2, Exclusive
<1>4. Creating(p) => file.owner = p /\ file.active
  BY <1>3 DEF IInv, CreationInv
<1>5. Repairing(p) => Retired(id[p]) /\ p \notin mine
  BY <1>2 DEF IInv, RepairInv
<1> QED
  BY <1>1, <1>2, <1>3, <1>4, <1>5 DEF IInv, IsProvisioning

LEMMA RewriteFrame ==
  ASSUME IInv, OneRepairAtATime, NEW p \in Admins, pc[p] \in Writing, Alone(p), SeedInv',
         UNCHANGED <<op, id, seeds, used>>, pc'[p] \notin Writing,
         file' # NoFile, file'.id = id[p], CreationInv(p)', RepairInv(p)', Told(p)'
  PROVE  IInv'
<1>1. /\ ~IsConfigured(file) /\ file.id = id[p] /\ id[p] \in used
      /\ \A q \in Admins \ {p} : Apart(q) /\ (Creating(q) => file.id # id[q])
      /\ \A i \in SeedIds : i = id[p]
  BY Rewriting
<1>2. SeedIds' = SeedIds
  BY DEF SeedIds
<1> QED
  BY <1>1, <1>2, WriteFrame

(* A process that leaves off creating retires its id, and no other.        *)
LEMMA StillRetired ==
  ASSUME NEW p \in Admins, Alone(p), op' = op, id' = id, pc[p] # "done", NEW i, Retired(i)
  PROVE  Retired(i)'
BY DEF Alone, Retired, Creating

LEMMA WalletSetsExpected ==
  ASSUME IInv, OneRepairAtATime, NEW p \in Admins, SetExpectedWrites(p) PROVE IInv'
<1>1. SeedInv' /\ Alone(p)
  BY SeedStep1, StepAlone DEF IInv, SeedInv, Proceed, FileStep
<1>2. /\ pc[p] = "setWrite" /\ pc[p] \in Writing
      /\ UNCHANGED <<op, id, mine, seeds, used>>
      /\ file' \in {file, WithExpected(p)}
      /\ pc'[p] \in {"seedRead", "commitRead", "abandonRead", "done"}
      /\ pc'[p] = "abandonRead" => p \in mine
      /\ pc'[p] = "seedRead" <=> pc'[p] # "abandonRead" /\ pc'[p] # "done" /\ op[p] = "create"
      /\ pc'[p] = "done" => outcome'[p] = "unavailable"
  BY DEF IInv, SeedInv, TypeOK, SetExpectedWrites, Replaces, ReplaceFails, Goto, Fail, Writing
<1>3. /\ IsProvisioning(file) /\ file.id = id[p] /\ seen[p] = file
      /\ Creating(p) \/ Repairing(p)
      /\ Creating(p) => file.owner = p /\ file.active
      /\ Repairing(p) => Retired(id[p]) /\ p \notin mine
  BY <1>2, Rewriting
<1>4. /\ file' # NoFile /\ IsProvisioning(file') /\ file'.id = id[p]
      /\ file'.owner = file.owner /\ file'.active = file.active
  <2>1. addr[p] \in Ids \cup {NoId} /\ seen[p] \in Provisioning
    BY <1>2, WrittenRecords DEF IInv, SeedInv, TypeOK
  <2>2. WithExpected(p) # NoFile /\ IsProvisioning(WithExpected(p))
    BY <1>2, WrittenRecords, NoFileAssumption DEF IInv, IsProvisioning, Provisioning
  <2>3. /\ WithExpected(p).id = file.id /\ WithExpected(p).owner = file.owner
        /\ WithExpected(p).active = file.active
    BY <1>3, <2>1, Rewritten DEF WithExpected
  <2> QED
    BY <1>2, <1>3, <2>2, <2>3 DEF IsProvisioning
<1>5. CreationInv(p)'
  BY <1>2, <1>3, <1>4 DEF CreationInv, Creating, Repairing, IsProvisioning, BeforeMark, Marked
<1>6. RepairInv(p)'
  <2>1. Repairing(p)' => Repairing(p) /\ Retired(id[p])'
    BY <1>1, <1>2, <1>3, StillRetired DEF Repairing
  <2> QED
    BY <1>2, <1>3, <1>4, <2>1 DEF RepairInv, Repairing, IsProvisioning, Mending
<1>7. Told(p)' /\ pc'[p] \notin Writing
  BY <1>2 DEF Told, Writing
<1> QED
  BY <1>1, <1>2, <1>4, <1>5, <1>6, <1>7, RewriteFrame

LEMMA WalletCommits ==
  ASSUME IInv, OneRepairAtATime, NEW p \in Admins, CommitWrites(p) PROVE IInv'
<1>1. SeedInv' /\ Alone(p)
  BY SeedStep1, StepAlone DEF IInv, SeedInv, Proceed, FileStep
<1>2. /\ pc[p] = "commitWrite" /\ pc[p] \in Writing
      /\ UNCHANGED <<op, id, addr, mine, seeds, used>>
      /\ file' \in {file, AsConfigured(p)}
      /\ pc'[p] \in {"abandonRead", "done"}
      /\ pc'[p] = "abandonRead" => p \in mine
      /\ pc'[p] = "done" => outcome'[p] = "unavailable" \/ file' = AsConfigured(p)
  BY DEF IInv, SeedInv, TypeOK, CommitWrites, Replaces, ReplaceFails, Goto, Fail, End, Writing
<1>3. /\ IsProvisioning(file) /\ file.id = id[p]
      /\ Creating(p) \/ Repairing(p)
      /\ Creating(p) => file.owner = p /\ file.active
      /\ Repairing(p) => p \notin mine
  BY <1>2, Rewriting
<1>4. /\ AsConfigured(p) # NoFile /\ IsConfigured(AsConfigured(p))
      /\ ~IsProvisioning(AsConfigured(p))
      /\ AsConfigured(p).id = id[p] /\ AsConfigured(p).address = addr[p]
  BY <1>2, WrittenRecords, NoFileAssumption
  DEF IInv, IsConfigured, IsProvisioning, Configured
<1>5. file' # NoFile /\ file'.id = id[p]
  BY <1>2, <1>3, <1>4 DEF IsProvisioning
<1>6. CreationInv(p)'
  <2>1. IsProvisioning(file') => file' = file
    BY <1>2, <1>4
  <2> QED
    BY <1>2, <1>3, <1>5, <2>1 DEF CreationInv, Creating, Repairing, BeforeMark, Marked
<1>7. RepairInv(p)'
  BY <1>2, <1>3 DEF RepairInv, Repairing, Creating
<1>8. Told(p)' /\ pc'[p] \notin Writing
  BY <1>2, <1>4 DEF Told, Writing
<1> QED
  BY <1>1, <1>2, <1>5, <1>6, <1>7, <1>8, RewriteFrame

LEMMA WalletAbandons ==
  ASSUME IInv, OneRepairAtATime, NEW p \in Admins, AbandonWrites(p) PROVE IInv'
<1>1. SeedInv' /\ Alone(p)
  BY SeedStep1, StepAlone DEF IInv, SeedInv, Proceed, FileStep
<1>2. /\ pc[p] = "abandonWrite" /\ pc[p] \in Writing /\ pc'[p] = "done"
      /\ UNCHANGED <<op, id, outcome, seeds, used>>
      /\ file' \in {file, Abandoned(p)}
  BY DEF IInv, SeedInv, TypeOK, AbandonWrites, Replaces, ReplaceFails, Goto, Writing
<1>3. IsProvisioning(file) /\ file.id = id[p]
  BY <1>2, Rewriting
<1>4. file' # NoFile /\ file'.id = id[p]
  BY <1>2, <1>3, WrittenRecords, NoFileAssumption DEF IInv, IsProvisioning
<1>5. CreationInv(p)' /\ RepairInv(p)' /\ pc'[p] \notin Writing
  BY <1>2 DEF CreationInv, RepairInv, Creating, Repairing, Writing
<1>6. Told(p)'
  BY <1>2 DEF IInv, SeedInv, CallInv, Told
<1> QED
  BY <1>1, <1>2, <1>4, <1>5, <1>6, RewriteFrame

LEMMA WalletClears ==
  ASSUME IInv, OneRepairAtATime, NEW p \in Admins, ClearWrites(p) PROVE IInv'
<1>1. SeedInv' /\ Alone(p)
  BY SeedStep1, StepAlone DEF IInv, SeedInv, Proceed, FileStep
<1>2. /\ pc[p] = "clearWrite" /\ pc'[p] = "done" /\ Repairing(p)
      /\ outcome'[p] \in {"cleared_incomplete", "unavailable"}
      /\ UNCHANGED <<op, id, seeds, used>>
      /\ file' \in {file, NoFile}
  BY DEF IInv, SeedInv, TypeOK, CallInv, ClearWrites, Replaces, ReplaceFails, Goto, End, Repairing
<1>3. /\ IsProvisioning(file) /\ ~IsConfigured(file) /\ SeedIds = {}
      /\ \A q \in Admins \ {p} : Apart(q) /\ (Creating(q) => file.id # id[q])
  BY <1>2, Exclusive DEF Mending, IInv, RepairInv
<1>4. CreationInv(p)' /\ RepairInv(p)' /\ pc'[p] \notin Writing /\ Told(p)'
  BY <1>2 DEF CreationInv, RepairInv, Creating, Repairing, Writing, Told
<1>5. SeedIds' = {}
  BY <1>2, <1>3 DEF SeedIds
<1>6. file' # NoFile => file'.id \in used'
  BY <1>2 DEF IInv
<1> QED
  BY <1>1, <1>2, <1>3, <1>4, <1>5, <1>6, WriteFrame

LEMMA WalletStores ==
  ASSUME IInv, OneRepairAtATime, NEW p \in Admins, SeedStored(p) \/ SeedStoreFails(p)
  PROVE  IInv'
<1>1. SeedInv' /\ Alone(p)
  BY SeedStep1, StepAlone DEF IInv, SeedInv, Proceed, SeedStep
<1>2. /\ pc[p] = "seedWrite" /\ pc'[p] \in {"seedConfirm", "done", "abandonRead"}
      /\ pc'[p] = "done" => outcome'[p] = "credential_store_unavailable"
      /\ UNCHANGED <<op, id, mine, file, used>>
      /\ seeds' \in {seeds, [seeds EXCEPT ![id[p]] = addr[p]]}
  BY DEF SeedStored, SeedStoreFails, Goto, Fail, IInv, SeedInv, TypeOK
<1>3. Creating(p) /\ pc[p] \in Marked \ {"abandonRead"}
  BY <1>2, OwnSeed DEF IInv, Creating, Marked
<1>4. /\ IsProvisioning(file) /\ file.id = id[p] /\ ~IsConfigured(file)
      /\ \A q \in Admins \ {p} : Apart(q) /\ (Creating(q) => file.id # id[q])
  BY <1>3, Exclusive
<1>5. CreationInv(p)'
  BY <1>2, <1>3, <1>4 DEF IInv, CreationInv, Creating, IsProvisioning, BeforeMark, Marked
<1>6. RepairInv(p)' /\ Told(p)' /\ pc'[p] \notin Writing
  BY <1>2, <1>3 DEF RepairInv, Repairing, Creating, Told, Writing
<1>7. \A i \in SeedIds' : file' # NoFile /\ file'.id = i
  BY <1>2, <1>4 DEF IInv, SeedInv, TypeOK, SeedIds, IsProvisioning
<1> QED
  BY <1>1, <1>2, <1>4, <1>5, <1>6, <1>7, WriteFrame DEF IInv

LEMMA WalletInductive == IInv /\ OneRepairAtATime /\ [Next]_vars => IInv'
<1> SUFFICES ASSUME IInv, OneRepairAtATime, [Next]_vars PROVE IInv'
  OBVIOUS
<1>1. CASE UNCHANGED vars
  <2>1. SeedInv'
    BY SeedInductive DEF IInv
  <2>2. ASSUME NEW p \in Admins PROVE CreationInv(p)' /\ RepairInv(p)'
    BY <1>1 DEF vars, callVars, IInv, CreationInv, RepairInv, Creating, Repairing, Retired,
                SeedIds, IsProvisioning
  <2>3. OutcomesAreTrue'
    BY <1>1 DEF vars, callVars, IInv, OutcomesAreTrue, IsConfigured
  <2> QED
    BY <1>1, <2>1, <2>2, <2>3 DEF vars, callVars, IInv, SeedIds
<1>2. ASSUME NEW p \in Admins,
             Proceed(p) \/ Crash(p) \/ StartCreate(p) \/ StartRepair(p)
      PROVE  IInv'
  <2>1. \/ QuietStep(p) \/ StartCreate(p) \/ CreateMarker(p) \/ MarkerFails(p)
        \/ SetExpectedWrites(p) \/ CommitWrites(p) \/ AbandonWrites(p) \/ ClearWrites(p)
        \/ SeedStored(p) \/ SeedStoreFails(p)
    BY <1>2 DEF QuietStep, Proceed, MarkerStep, FileStep, SeedStep
  <2> QED
    BY <2>1, QuietWallet, WalletStartCreate, WalletMarker, WalletSetsExpected, WalletCommits,
       WalletAbandons, WalletClears, WalletStores
<1> QED
  BY <1>1, <1>2, Steps

(* The inductive invariant: with one repair at a time, whatever a process  *)
(* is about to replace is what it read.                                    *)
THEOREM WalletInvariance == Spec /\ []OneRepairAtATime => []IInv
BY WalletInit, WalletInductive, PTL DEF Spec

(* With one repair at a time no interleaving of creations, crashes and     *)
(* failed writes leaves two seeds (AgentWallet).                           *)
THEOREM OneWallet == Spec /\ []OneRepairAtATime => []AtMostOneSeed
<1>1. IInv => AtMostOneSeed
  <2> SUFFICES ASSUME IInv PROVE AtMostOneSeed
    OBVIOUS
  <2>1. CASE SeedIds = {}
    BY <2>1, FS_EmptySet DEF AtMostOneSeed
  <2>2. CASE SeedIds # {}
    <3>1. PICK i \in SeedIds : SeedIds = {i}
      BY <2>2 DEF IInv
    <3> QED
      BY <3>1, FS_Singleton DEF AtMostOneSeed
  <2> QED
    BY <2>1, <2>2
<1> QED
  BY <1>1, WalletInvariance, PTL

(* With one repair at a time, what create and repair report as done is the *)
(* committed wallet (AgentWallet).                                         *)
THEOREM ReportsAreTrue == Spec /\ []OneRepairAtATime => []OutcomesAreTrue
<1>1. IInv => OutcomesAreTrue
  BY DEF IInv
<1> QED
  BY <1>1, WalletInvariance, PTL

-----------------------------------------------------------------------------
(* What a step may not do.                                                 *)

LEMMA SeedsStay ==
  ASSUME SeedInv, [Next]_vars, NEW i \in Ids, seeds[i] # NoId
  PROVE  seeds'[i] = seeds[i]
<1>1. CASE UNCHANGED vars
  BY <1>1 DEF vars
<1>2. ASSUME NEW p \in Admins,
             Proceed(p) \/ Crash(p) \/ StartCreate(p) \/ StartRepair(p)
      PROVE  seeds'[i] = seeds[i]
  <2>1. CASE SeedStored(p) \/ SeedStoreFails(p)
    <3>1. pc[p] = "seedWrite" /\ seeds' \in {seeds, [seeds EXCEPT ![id[p]] = addr[p]]}
      BY <2>1 DEF SeedStored, SeedStoreFails
    <3> QED
      BY <3>1, OwnSeed DEF SeedInv, TypeOK
  <2>2. CASE QuietStep(p)
    BY <2>2, QuietIsQuiet DEF Quiet
  <2>3. CASE \/ StartCreate(p) \/ CreateMarker(p) \/ MarkerFails(p) \/ SetExpectedWrites(p)
             \/ CommitWrites(p) \/ AbandonWrites(p) \/ ClearWrites(p)
    BY <2>3 DEF StartCreate, CreateMarker, MarkerFails, SetExpectedWrites, CommitWrites,
                AbandonWrites, ClearWrites
  <2> QED
    BY <1>2, <2>1, <2>2, <2>3 DEF QuietStep, Proceed, MarkerStep, FileStep, SeedStep
<1> QED
  BY <1>1, <1>2, Steps

(* A file that exists is replaced or removed only by a process that works  *)
(* on the marker in it.                                                    *)
LEMMA FileStays ==
  ASSUME IInv, OneRepairAtATime, [Next]_vars, file # NoFile, file' # file
  PROVE  IsProvisioning(file) /\ (file' = NoFile => SeedIds = {})
<1>1. ~UNCHANGED vars
  BY DEF vars
<1>2. PICK p \in Admins : Proceed(p) \/ Crash(p) \/ StartCreate(p) \/ StartRepair(p)
  BY <1>1, Steps
<1>3. ~QuietStep(p)
  BY QuietIsQuiet DEF IInv, Quiet
<1>4. \/ SetExpectedWrites(p) \/ CommitWrites(p) \/ AbandonWrites(p) \/ ClearWrites(p)
  BY <1>2, <1>3
  DEF QuietStep, Proceed, MarkerStep, FileStep, SeedStep, StartCreate, CreateMarker,
      MarkerFails, ReplaceFails, SeedStored, SeedStoreFails
<1>5. CASE ClearWrites(p)
  BY <1>5 DEF ClearWrites, IInv, SeedInv, CallInv, RepairInv, Repairing, Mending
<1>6. CASE SetExpectedWrites(p) \/ CommitWrites(p) \/ AbandonWrites(p)
  <2>1. pc[p] \in Writing
    BY <1>6 DEF SetExpectedWrites, CommitWrites, AbandonWrites, Writing
  <2>2. file' # NoFile
    <3>1. \/ file' \in {WithExpected(p), Abandoned(p)}
          \/ pc[p] = "commitWrite" /\ file' = AsConfigured(p)
      BY <1>6
      DEF SetExpectedWrites, CommitWrites, AbandonWrites, Replaces, ReplaceFails
    <3> QED
      BY <2>1, <3>1, WrittenRecords, NoFileAssumption DEF IInv
  <2> QED
    BY <2>1, <2>2, Rewriting
<1> QED
  BY <1>4, <1>5, <1>6

(* No process overwrites or removes a seed, and with one repair at a time a*)
(* committed wallet stays committed (AgentWallet).                         *)
THEOREM NothingUndone == Spec /\ []OneRepairAtATime => NothingIsUndone
<1>1. ASSUME IInv, OneRepairAtATime, [Next]_vars
      PROVE  [ /\ \A i \in Ids : seeds[i] # NoId => seeds'[i] = seeds[i]
               /\ Status = "configured_locked" => file' = file ]_vars
  <2>1. \A i \in Ids : seeds[i] # NoId => seeds'[i] = seeds[i]
    BY <1>1, SeedsStay DEF IInv
  <2>2. Status = "configured_locked" => file # NoFile /\ ~IsProvisioning(file)
    BY DEF Status, IsConfigured, IsProvisioning
  <2>3. Status = "configured_locked" => file' = file
    BY <1>1, <2>2, FileStays
  <2> QED
    BY <2>1, <2>3
<1> QED
  BY <1>1, WalletInvariance, PTL DEF Spec, NothingIsUndone

(* With one repair at a time, a marker is cleared only over an empty       *)
(* keyring (AgentWallet).                                                  *)
THEOREM ClearsOnlyEmpty == Spec /\ []OneRepairAtATime => ClearsOnlyWithoutSeed
<1>1. ASSUME IInv, OneRepairAtATime, [Next]_vars
      PROVE  [ (file # NoFile /\ file' = NoFile) => SeedIds = {} ]_vars
  BY <1>1, FileStays
<1> QED
  BY <1>1, WalletInvariance, PTL DEF Spec, ClearsOnlyWithoutSeed

(* However many repairs overlap, no seed is overwritten or removed.        *)
THEOREM SeedsAreKept ==
  Spec => [][\A i \in Ids : seeds[i] # NoId => seeds'[i] = seeds[i]]_vars
<1>1. ASSUME SeedInv, [Next]_vars
      PROVE  [\A i \in Ids : seeds[i] # NoId => seeds'[i] = seeds[i]]_vars
  BY <1>1, SeedsStay
<1> QED
  BY <1>1, SeedInvariant, PTL DEF Spec
=============================================================================
