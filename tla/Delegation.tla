------------------------------- MODULE Delegation -------------------------------
(***************************************************************************)
(* Planning of delegations against the phase caps, src/src/delegation.ts,   *)
(* and its tools in src/src/index.ts.  The user asks about the positions    *)
(* held, gets a draft with its warnings, and carries the draft out, or      *)
(* something else changes the positions in between.                        *)
(*                                                                         *)
(* Amounts are whole hundredths, as format() writes positions and totals,   *)
(* and the amount asked for has no more decimals.  The code adds two of     *)
(* them as binary fractions and compares the sum, unrounded, with a binary  *)
(* fraction of the total (0.1 + 0.2 is above a cap of 0.3).  Below a        *)
(* hundred thousand million the error is less than the ten-thousandth by    *)
(* which two sides that differ do differ: a position that stands exactly at *)
(* its cap is told either way, any other one truly.  The same holds for a   *)
(* share exactly between two hundredths.                                   *)
(*                                                                         *)
(* External: the user and the positions.                                   *)
(***************************************************************************)
EXTENDS Integers, FiniteSets, Functions

CONSTANTS
    Clusters,
    CapPercent, MinimumClusters,                \* the phase
    Amounts,                                    \* what may be asked for
    MaxHeld,                                    \* bound of the model
    Registries,         \* registries and the candidates they rank first
    NoDraft

VARIABLES
    known,          \* the cluster registry
    candidates,     \* the head of the registry's active clusters, as ranked
    held,           \* cluster -> hundredths delegated
    draft           \* the draft the user has: its warnings, and if it is current

delegationVars == <<known, candidates, held, draft>>

TotalOf(positions) == FoldFunction(+, 0, positions)
Selected(positions) == {c \in Clusters : positions[c] > 0}

(* Whether a stake is over its cap: both answers when it is exactly at it.  *)
OverCap(total, stake) ==
    IF stake > 0 /\ 100 * stake = CapPercent * total THEN BOOLEAN
    ELSE {100 * stake > CapPercent * total}

(* explainDelegationCaps: whether there is no warning.  The taper of an     *)
(* over-cap position adds to its warnings and changes nothing else.         *)
CapOk(total, current, additional, selected) ==
    {~over /\ selected >= MinimumClusters : over \in OverCap(total, current + additional)}

(* stakeStatus: every position, also the empty ones, against the total.  It *)
(* may be, and it must be, without a warning.                              *)
CapsOfStatus(positions, c) ==
    CapOk(TotalOf(positions), positions[c], 0, Cardinality(Selected(positions)))

MayBeClean(positions) ==
    /\ Cardinality(Selected(positions)) >= MinimumClusters
    /\ \A c \in Clusters : TRUE \in CapsOfStatus(positions, c)
    /\ Selected(positions) \subseteq known

MustBeClean(positions) ==
    /\ MayBeClean(positions)
    /\ \A c \in Clusters : FALSE \notin CapsOfStatus(positions, c)

(* Mutant of DelegateCap: the draft forgets what the cluster already has.   *)
DelegateCapOfTheAddition(positions, c, amount) ==
    CapOk(TotalOf(positions) + amount, 0, amount,
          Cardinality(Selected(positions) \cup {c}))

DelegateCap(positions, c, amount) ==
    CapOk(TotalOf(positions) + amount, positions[c], amount,
          Cardinality(Selected(positions) \cup {c}))

(* rebalanceDraft: the same amount, rounded, on every candidate.            *)
Targets(positions) ==
    LET n == Cardinality(candidates)
        total == TotalOf(positions)
        low == total \div n
    IN  IF candidates = {} THEN {0}
        ELSE {t \in {low, low + 1} : 2 * n * t <= 2 * total + n /\ 2 * total <= 2 * n * t + n}

-----------------------------------------------------------------------------
Draft == [op: {"delegate", "undelegate", "rebalance"}, cluster: Clusters \cup {NoDraft},
          amount: Int, warned: BOOLEAN, current: BOOLEAN]

(* rankClusters: any order of the active clusters, the first of which are   *)
(* the candidates.                                                         *)
Init ==
    /\ \E registry \in Registries :
          known = registry.known /\ candidates = registry.candidates
    /\ held = [c \in Clusters |-> 0]
    /\ draft = NoDraft

DelegateDraft(c, amount) ==
    /\ c \in known
    /\ \E ok \in DelegateCap(held, c, amount) :
          draft' = [op |-> "delegate", cluster |-> c, amount |-> amount,
                    warned |-> ~ok, current |-> TRUE]
    /\ UNCHANGED <<known, candidates, held>>

UndelegateDraft(c, amount) ==
    /\ c \in known
    /\ draft' = [op |-> "undelegate", cluster |-> c, amount |-> amount,
                 warned |-> amount > held[c], current |-> TRUE]
    /\ UNCHANGED <<known, candidates, held>>

RebalanceDraft ==
    /\ \E target \in Targets(held) :
          draft' = [op |-> "rebalance", cluster |-> NoDraft, amount |-> target,
                    warned |-> TotalOf(held) = 0, current |-> TRUE]
    /\ UNCHANGED <<known, candidates, held>>

-----------------------------------------------------------------------------
Changes(to) ==
    /\ \A c \in Clusters : to[c] \in 0..MaxHeld
    /\ held' = to
    /\ UNCHANGED <<known, candidates>>

CarriesOut ==
    /\ draft # NoDraft
    /\ \/ /\ draft.op = "delegate"
          /\ Changes([held EXCEPT ![draft.cluster] = @ + draft.amount])
       \/ /\ draft.op = "undelegate"
          /\ Changes([held EXCEPT ![draft.cluster] = @ - draft.amount])
       \/ /\ draft.op = "rebalance"
          /\ Changes([c \in Clusters |-> IF c \in candidates THEN draft.amount ELSE held[c]])
    /\ draft' = NoDraft

(* The positions change without a draft, also those of clusters the local   *)
(* registry does not list.                                                 *)
PositionsChange(c, amount) ==
    /\ Changes([held EXCEPT ![c] = amount])
    /\ draft' = IF draft = NoDraft THEN NoDraft ELSE [draft EXCEPT !.current = FALSE]

Next ==
    \/ \E c \in Clusters, amount \in Amounts :
          DelegateDraft(c, amount) \/ UndelegateDraft(c, amount) \/ PositionsChange(c, amount)
    \/ RebalanceDraft
    \/ CarriesOut

Spec == Init /\ [][Next]_delegationVars

-----------------------------------------------------------------------------
DelegationTypeOK ==
    /\ candidates \subseteq known /\ known \subseteq Clusters
    /\ held \in [Clusters -> 0..MaxHeld]
    /\ draft = NoDraft \/ draft \in Draft

(* Carrying out a draft does what the draft said of it, as far as rounding  *)
(* lets the code say anything.  From positions without a warning, a         *)
(* delegation whose draft warned leads to a position at its cap or beyond,  *)
(* and one whose draft did not to none beyond, though the draft looks at    *)
(* one cluster and the status at all.  A rebalancing of positions that are  *)
(* all on candidates leaves none beyond its cap, and none at it either when *)
(* there are more candidates than the cap asks for, unless there is too     *)
(* little to share out.                                                    *)
DraftsAreHonest ==
    [][(CarriesOut /\ draft.current) =>
          /\ (draft.op = "delegate" /\ MayBeClean(held)) =>
                IF draft.warned THEN ~MustBeClean(held') ELSE MayBeClean(held')
          /\ (draft.op = "rebalance" /\ Selected(held) \subseteq candidates
                /\ Cardinality(candidates) >= MinimumClusters /\ draft.amount > 0) =>
                /\ MayBeClean(held')
                /\ CapPercent * Cardinality(candidates) > 100 => MustBeClean(held')]_delegationVars

-----------------------------------------------------------------------------
(* The inductive invariant: a delegation's draft is about a registered      *)
(* cluster, and says what the caps say of it while it is current.           *)
DraftFollows ==
    draft # NoDraft /\ draft.op = "delegate" =>
        /\ draft.cluster \in known
        /\ draft.current =>
              /\ draft.amount \in Amounts
              /\ (~draft.warned) \in DelegateCap(held, draft.cluster, draft.amount)

DelegationIInv == DelegationTypeOK /\ DraftFollows
=============================================================================
