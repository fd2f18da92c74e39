----------------------------- MODULE ClusterReads -----------------------------
(***************************************************************************)
(* The live views of the node registry (src/src/clusters.ts and the reads  *)
(* of charter.ts).  One answer is put together from many RPC reads that    *)
(* run at the same time, each of which may fail, while the chain goes on:  *)
(* what is shown, labelled, listed or said to be missing comes from        *)
(* different moments and from the reads that did succeed.                  *)
(*                                                                         *)
(* A cell is one fact of the chain, true or false.  A field that an answer *)
(* takes from it is the set of the values it has been told: {} is null.    *)
(***************************************************************************)
EXTENDS Naturals, FiniteSetsExt

CONSTANTS
    Clusters,           \* the clusters of the registry
    Page,               \* those on the first page of the directory (0, 100)
    Limit,              \* args.limit of cluster_search
    MaxChanges          \* bound of the model: changes of the chain

Cells ==
    ({"active", "quorum", "independent", "member", "charter", "amendment"}
        \X Clusters)
    \cup {<<"registered", "operator">>}

VARIABLES
    chain,              \* cell -> its value
    seen,               \* history: cell -> its values since the call began
    changes,
    call,               \* the tool and its arguments
    pending,            \* the reads under way
    told                \* read -> the facts it returned; {} when it failed

chainVars == <<chain, changes>>
vars == <<chain, seen, changes, call, pending, told>>

NoCall == [tool |-> "none", stage |-> 0, cluster |-> {}, activeOnly |-> FALSE,
           independent |-> {}, answer |-> "none", listed |-> {}]

Init ==
    /\ chain \in {[x \in Cells |-> v] : v \in BOOLEAN}
    /\ seen = [x \in Cells |-> {}]
    /\ changes = 0
    /\ call = NoCall
    /\ pending = {}
    /\ told = <<>>

ChainMoves(x) ==
    /\ changes < MaxChanges
    /\ changes' = changes + 1
    /\ chain' = [chain EXCEPT ![x] = ~@]
    /\ seen' = IF call = NoCall THEN seen ELSE [seen EXCEPT ![x] = @ \cup {~chain[x]}]
    /\ UNCHANGED <<call, pending, told>>

-----------------------------------------------------------------------------
(* Reads and what they return.                                             *)

Read(part, what, of) == <<part, what, of>>

CellsOf(what, of) ==
    CASE what = "directory" -> {"active"} \X Page
      [] what = "status" -> {"quorum", "member"} \X {of}
      [] what = "entity" -> {<<"independent", of>>}
      [] what = "charter" -> {<<"charter", of>>}
      [] what = "amendment" -> {<<"amendment", of>>}
      [] OTHER -> {<<"registered", "operator">>}

Facts(r) == {<<x, chain[x]>> : x \in CellsOf(r[2], r[3])}

(* The value a part of the answer has for a cell: {} is null.              *)
Field(part, x) ==
    {v \in BOOLEAN : \E r \in DOMAIN told : r[1] = part /\ <<x, v>> \in told[r]}

(* readLiveCluster and enrichDirectoryEntry: the reads of one record; an   *)
(* entry of the directory is passed on to the latter.                      *)
RecordReads(part, c) == {Read(part, what, c) : what \in {"status", "entity"}}

Directory(part) == Read(part, "directory", "registry")

(* Mutant of ShapeLiveCluster: the entity is not "independent" when it     *)
(* could not be read either.                                               *)
ShapeLiveClusterUnguarded(part, directoryPart, c) ==
    [quorumMet |-> Field(part, <<"quorum", c>>),
     active |-> Field(directoryPart, <<"active", c>>),
     foundationControlled |-> {TRUE \notin Field(part, <<"independent", c>>)}]

ShapeLiveCluster(part, directoryPart, c) ==
    [quorumMet |-> Field(part, <<"quorum", c>>),
     active |-> Field(directoryPart, <<"active", c>>),
     foundationControlled |-> {~v : v \in Field(part, <<"independent", c>>)}]

(* liveClusterReputation; liveClusterSunsetStatus warns of the last two.   *)
Labels(record) ==
    {l \in {"foundation_controlled", "inactive", "below_threshold"} :
        CASE l = "foundation_controlled" -> record.foundationControlled = {TRUE}
          [] l = "inactive" -> record.active = {FALSE}
          [] OTHER -> record.quorumMet = {FALSE}}

(* searchLiveClusters *)
Matches(c) ==
    LET record == ShapeLiveCluster("entry", "search", c)
    IN  /\ call.activeOnly => record.active = {TRUE}
        /\ call.independent # {} =>
              record.foundationControlled = {~v : v \in call.independent}

-----------------------------------------------------------------------------
(* The tools.                                                              *)

Begin(tool, fields, reads) ==
    /\ call = NoCall
    /\ call' = [fields EXCEPT !.tool = tool, !.stage = 1]
    /\ pending' = reads
    /\ seen' = [x \in Cells |-> {chain[x]}]
    /\ UNCHANGED <<chainVars, told>>

(* liveClusterGet: the reputation, the entity flag and the roster, each of *)
(* them with reads of its own.                                             *)
ClusterGet(c) ==
    Begin("cluster_get", [NoCall EXCEPT !.cluster = {c}],
          RecordReads("reputation", c)
            \cup {Directory("reputation"), Read("foundation", "entity", c),
                  Read("roster", "status", c)})

ClusterSearch(activeOnly, independent) ==
    Begin("cluster_search",
          [NoCall EXCEPT !.activeOnly = activeOnly, !.independent = independent],
          {Directory("search")})

OperatorGet ==
    Begin("operator_get", NoCall,
          {Read("operator", "info", "operator"), Directory("operator")})

OperatorSearch == Begin("operator_search", NoCall, {Directory("search")})

(* readClusterCharter *)
CharterRead(c) ==
    Begin("charter_read", [NoCall EXCEPT !.cluster = {c}],
          {Read("charter", "charter", c), Read("charter", "amendment", c)})

(* lythOperatorInfo rejects for an operator that is not registered.        *)
ReadAnswers(r) ==
    /\ r \in pending
    /\ r[2] = "info" => chain[<<"registered", "operator">>]
    /\ told' = [q \in DOMAIN told \cup {r} |-> IF q = r THEN Facts(r) ELSE told[q]]
    /\ pending' = pending \ {r}
    /\ UNCHANGED <<chainVars, seen, call>>

(* The reads whose failure makes the whole call fail: the directory of a   *)
(* search, and the entity flag of cluster_get.                             *)
Required(r) == r[1] \in {"search", "foundation"}

ReadFails(r) ==
    /\ r \in pending
    /\ IF Required(r)
       THEN /\ call' = [call EXCEPT !.answer = "error"]
            /\ pending' = {}
            /\ UNCHANGED told
       ELSE /\ told' = [q \in DOMAIN told \cup {r} |-> IF q = r THEN {} ELSE told[q]]
            /\ pending' = pending \ {r}
            /\ UNCHANGED call
    /\ UNCHANGED <<chainVars, seen>>

Listed == {x[2] : x \in {y \in Cells : \E part \in {"search", "operator"} :
                            y[1] = "active" /\ Field(part, y) # {}}}

(* Once the directory is known: the record of every entry, or the roster   *)
(* of every cluster.                                                       *)
SecondReads ==
    CASE call.tool = "cluster_search" ->
            UNION {RecordReads("entry", c) : c \in Listed}
      [] OTHER -> {Read("roster", "status", c) : c \in Listed}

Members == {x \in Cells : x[1] = "member" /\ Field("roster", x) = {TRUE}}

NextStage ==
    /\ pending = {} /\ call.answer = "none"
    /\ \/ call.tool \in {"cluster_search", "operator_get", "operator_search"}
          /\ call.stage = 1
          /\ pending' = SecondReads
       \/ call.tool \in {"operator_search", "cluster_get"}
          /\ call.stage = (IF call.tool = "cluster_get" THEN 1 ELSE 2)
          /\ pending' = {Read("member", "info", "operator") : m \in Members}
    /\ call' = [call EXCEPT !.stage = IF call.tool = "cluster_get" THEN 3 ELSE @ + 1]
    /\ UNCHANGED <<chainVars, seen, told>>

LastStage ==
    CASE call.tool = "charter_read" -> 1
      [] call.tool \in {"cluster_get", "operator_search"} -> 3
      [] OTHER -> 2

(* liveOperatorGet *)
Found ==
    \/ Field("operator", <<"registered", "operator">>) = {TRUE}
    \/ Members # {}

Answer ==
    /\ pending = {} /\ call.answer = "none"
    /\ call.stage = LastStage
    /\ \E listed \in SUBSET {c \in Listed : Matches(c)} :
          /\ Cardinality(listed) =
                Min({Limit, Cardinality({c \in Listed : Matches(c)})})
          /\ call' = [call EXCEPT
                !.answer = IF call.tool = "operator_get" /\ ~Found
                           THEN "not_found" ELSE "ok",
                !.listed = IF call.tool = "cluster_search" THEN listed ELSE {}]
    /\ UNCHANGED <<chainVars, seen, pending, told>>

Return ==
    /\ call.answer # "none"
    /\ call' = NoCall
    /\ told' = <<>>
    /\ pending' = {}
    /\ seen' = [x \in Cells |-> {}]
    /\ UNCHANGED chainVars

Next ==
    \/ \E x \in Cells : ChainMoves(x)
    \/ \E c \in Clusters : ClusterGet(c) \/ CharterRead(c)
    \/ \E activeOnly \in BOOLEAN, independent \in {{}, {TRUE}, {FALSE}} :
          ClusterSearch(activeOnly, independent)
    \/ OperatorGet \/ OperatorSearch
    \/ \E r \in pending : ReadAnswers(r) \/ ReadFails(r)
    \/ NextStage \/ Answer \/ Return

Spec == Init /\ [][Next]_vars

-----------------------------------------------------------------------------
ReadsTypeOK ==
    /\ chain \in [Cells -> BOOLEAN]
    /\ \A r \in DOMAIN told : \A f \in told[r] : f[1] \in Cells /\ f[2] \in seen[f[1]]
    /\ call.listed \subseteq Clusters
    /\ call.answer \in {"none", "ok", "error", "not_found"}

(* A warning is about something that was so while the call ran, and one    *)
(* that was so all the time is missing only if its read failed or the      *)
(* cluster is beyond the first page.                                       *)
LabelsAreWarranted ==
    call.answer = "ok" /\ call.tool = "cluster_get" =>
        \A c \in call.cluster :
            LET labels == Labels(ShapeLiveCluster("reputation", "reputation", c))
                about(label, kind, v) ==
                    /\ label \in labels => v \in seen[<<kind, c>>]
                    /\ label \notin labels =>
                          \/ (~v) \in seen[<<kind, c>>]
                          \/ \E r \in DOMAIN told : r[1] = "reputation" /\ told[r] = {}
                          \/ kind = "active" /\ c \notin Page
            IN  /\ about("foundation_controlled", "independent", FALSE)
                /\ about("inactive", "active", FALSE)
                /\ about("below_threshold", "quorum", FALSE)

(* A cluster that is listed satisfied each filter while the call ran; one  *)
(* that satisfied them all the time is left out only if a read about it    *)
(* failed or the list is full.                                             *)
SearchIsHonest ==
    call.answer = "ok" /\ call.tool = "cluster_search" =>
        \A c \in Page :
            LET wanted(kind, values) == values = {} \/ seen[<<kind, c>>] = values
                possible(kind, values) == values \subseteq seen[<<kind, c>>]
                active == IF call.activeOnly THEN {TRUE} ELSE {}
            IN  /\ c \in call.listed =>
                      possible("active", active) /\ possible("independent", call.independent)
                /\ wanted("active", active) /\ wanted("independent", call.independent)
                    => \/ c \in call.listed
                       \/ \E r \in DOMAIN told : r[3] = c /\ told[r] = {}
                       \/ Cardinality(call.listed) = Limit

(* An operator is "not found" only if it was not registered at some moment *)
(* of the call and no member of any cluster on the page at some moment, or *)
(* reads failed: a failed read looks like an operator that is not there.   *)
NotFoundIsHonest ==
    call.answer = "not_found" =>
        \/ \E r \in DOMAIN told : told[r] = {} /\ r[2] # "info"
        \/ /\ FALSE \in seen[<<"registered", "operator">>]
                \/ told[Read("operator", "info", "operator")] = {}
           /\ \A c \in Page : FALSE \in seen[<<"member", c>>]

AnswersAreHonest == LabelsAreWarranted /\ SearchIsHonest /\ NotFoundIsHonest

-----------------------------------------------------------------------------
(* The inductive invariant of AnswersAreHonest.                            *)
Wishes == {{}, {TRUE}, {FALSE}}

CallRecord ==
    [tool: {"none", "cluster_get", "cluster_search", "operator_get",
            "operator_search", "charter_read"},
     stage: 0..3, cluster: SUBSET Clusters, activeOnly: BOOLEAN,
     independent: Wishes,
     answer: {"none", "ok", "error", "not_found"}, listed: SUBSET Clusters]

CallsTyped ==
    /\ chain \in [Cells -> BOOLEAN] /\ seen \in [Cells -> SUBSET BOOLEAN]
    /\ call \in CallRecord
    /\ \A r \in pending : CellsOf(r[2], r[3]) \subseteq Cells
    /\ call.tool = "none" => call = NoCall /\ pending = {} /\ DOMAIN told = {}

(* What a read said was so while the call ran, and it said all it was       *)
(* asked, or nothing.                                                      *)
ToldWasSo ==
    /\ call.tool # "none" => \A x \in Cells : chain[x] \in seen[x]
    /\ \A r \in DOMAIN told :
          /\ told[r] \subseteq Cells \X BOOLEAN
          /\ \A x \in Cells, v \in BOOLEAN : <<x, v>> \in told[r] => v \in seen[x]
          /\ told[r] # {} =>
                \A x \in CellsOf(r[2], r[3]) : \E v \in BOOLEAN : <<x, v>> \in told[r]

(* The reads an answer rests on have been asked for: the first ones when    *)
(* the call began, the second ones of all that the directory listed.       *)
Asked == DOMAIN told \cup pending

FirstReads ==
    CASE call.tool = "cluster_get" ->
            (UNION {RecordReads("reputation", c) : c \in call.cluster})
               \cup {Directory("reputation")}
      [] call.tool = "cluster_search" -> {Directory("search")}
      [] call.tool = "operator_get" ->
            {Read("operator", "info", "operator"), Directory("operator")}
      [] OTHER -> {}

ReadsAreAsked ==
    call.answer # "error" =>
        /\ FirstReads \subseteq Asked
        /\ \A r \in DOMAIN told :
              Required(r) /\ told[r] = {} => CellsOf(r[2], r[3]) = {}
        /\ call.stage = 2 /\ call.tool \in {"cluster_search", "operator_get"} =>
              /\ SecondReads \subseteq Asked
              /\ \A r \in pending : r[1] \notin {"search", "operator"}

Hits == {c \in Listed : Matches(c)}

AnswerFollows ==
    /\ call.answer \in {"ok", "not_found"} => pending = {} /\ call.stage = LastStage
    /\ call.answer = "not_found" => call.tool = "operator_get" /\ ~Found
    /\ call.answer = "ok" /\ call.tool = "cluster_search" =>
          /\ call.listed \subseteq Hits
          /\ Cardinality(call.listed) = Min({Limit, Cardinality(Hits)})

ReadsIInv == CallsTyped /\ ToldWasSo /\ ReadsAreAsked /\ AnswerFollows
=============================================================================
