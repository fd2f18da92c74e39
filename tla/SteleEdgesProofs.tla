---------------------------- MODULE SteleEdgesProofs ----------------------------
(***************************************************************************)
(* Theorems about the loopback of a login, the discovery of an operator    *)
(* and the tools that read the API, for any number of connections,         *)
(* requests, operators, reads and calls, and for bodies of any length.     *)
(*                                                                         *)
(* Each component has its inductive invariant (OAuthLoopback, OperatorFetch *)
(* and SteleReads say what it means); a step of one leaves the variables   *)
(* of the others alone, so that the three hold together.                   *)
(***************************************************************************)
EXTENDS MCSteleEdges, TLAPS

-----------------------------------------------------------------------------
(* The loopback.                                                           *)

(* parseCallback returns a callback or refuses; it never names an outcome   *)
(* that only the timer or close() may decide.                              *)
LEMMA CallbackParsed ==
    ASSUME NEW r \in Requests
    PROVE  ParseCallback(r) \in Callbacks \cup {"invalid_callback"}
<1>1. r.value \in {"token", "access_denied", "invalid_client", "name", "illegal"}
  BY RequestsAssumption DEF RequestType
<1>2. ErrorNamed(r.value) \in Callbacks \cup {"invalid_callback"}
  BY <1>1 DEF ErrorNamed, Callbacks
<1> QED
  BY <1>2 DEF ParseCallback, Callbacks

(* A step that changes neither the outcome nor the server, and opens no     *)
(* connection to a server that is off or closed, keeps the invariant.       *)
LEMMA OnlyConnections ==
    ASSUME IInv, NEW c \in Conns, NEW state \in {"open", "ended", "answered", "asked"},
           conn' = [conn EXCEPT ![c] = state],
           state # "ended" => server \notin {"off", "closed"},
           UNCHANGED <<attempt, server, bound, consumed, settled, timer, deciding,
                       promise, first>>
    PROVE  IInv'
<1>1. TypeOK'
  BY DEF IInv, TypeOK
<1>2. (IF settled THEN Decided ELSE Awaiting)'
  BY DEF IInv, Decided, Awaiting
<1>3. (server \in {"off", "closed"} => NoConnections)'
  BY DEF IInv, TypeOK, NoConnections
<1> QED
  BY <1>1, <1>2, <1>3 DEF IInv

(* finish, called for the first event: the outcome is the event's.          *)
LEMMA Finishes ==
    ASSUME IInv, server = "listening" \/ settled,
           NEW result \in Callbacks \cup Errors,
           result \in Callbacks => bound,
           Finish(result), Note(result),
           UNCHANGED <<attempt, bound, promise>>,
           conn' \in [Conns -> {"none", "open", "asked", "answered", "ended"}],
           server = "closed" => NoConnections',
           consumed' \in BOOLEAN
    PROVE  IInv'
<1> USE DEF IInv, TypeOK
<1>1. CASE settled
  <2>1. first # "nothing"
    BY <1>1 DEF Decided
  <2>2. UNCHANGED <<settled, deciding, server, timer, first>>
    BY <1>1, <2>1 DEF Finish, Note
  <2>3. Decided'
    BY <1>1, <2>2 DEF Decided
  <2>4. server # "off"
    BY <1>1 DEF Decided
  <2> QED
    BY <1>1, <2>2, <2>3, <2>4
<1>2. CASE ~settled
  <2>1. /\ server = "listening" /\ first = "nothing" /\ promise = "pending"
        /\ result # "nothing"
    BY <1>2 DEF Awaiting, Callbacks, Errors
  <2>2. /\ settled' = TRUE /\ deciding' = result /\ first' = result
        /\ server' = "closing" /\ timer' \in {"cleared", "fired"}
    BY <1>2, <2>1 DEF Finish, Note, CloseServer
  <2>3. Decided'
    BY <2>1, <2>2 DEF Decided
  <2> QED
    BY <2>1, <2>2, <2>3
<1> QED
  BY <1>1, <1>2

LEMMA LoopbackInit == Init => IInv
  BY DEF Init, IInv, TypeOK, Awaiting, NoConnections, Callbacks

LEMMA LoopbackIsOver == LoopbackOver => IInv
  BY DEF LoopbackOver, IInv, TypeOK, Awaiting, NoConnections, Callbacks

LEMMA ConnectionSteps ==
    ASSUME IInv, NEW c \in Conns,
           Connect(c) \/ RequestDestroyed(c) \/ AnswerFlushed(c) \/ HangUp(c)
    PROVE  IInv'
<1>1. CASE Connect(c)
  BY <1>1, OnlyConnections DEF Connect
<1>2. CASE RequestDestroyed(c)
  BY <1>2, OnlyConnections DEF RequestDestroyed
<1>3. CASE AnswerFlushed(c)
  BY <1>3, OnlyConnections DEF AnswerFlushed
<1>4. CASE HangUp(c)
  BY <1>4, OnlyConnections DEF HangUp
<1> QED
  BY <1>1, <1>2, <1>3, <1>4

(* Whoever has a connection talks to a server that listens, or that has     *)
(* decided and waits for its connections.                                  *)
LEMMA WhoIsConnected ==
    ASSUME IInv, NEW c \in Conns, conn[c] = "open"
    PROVE  /\ server \notin {"off", "closed"}
           /\ server = "listening" \/ settled
<1>1. server \notin {"off", "closed"}
  BY DEF IInv, NoConnections
<1> QED
  BY <1>1 DEF IInv, TypeOK, Awaiting

LEMMA RequestSteps ==
    ASSUME IInv, NEW c \in Conns, NEW r \in Requests, RequestConsumed(c, r)
    PROVE  IInv'
<1> DEFINE result == IF bound THEN ParseCallback(r) ELSE "invalid_callback"
<1>1. /\ server \notin {"off", "closed"}
      /\ server = "listening" \/ settled
  BY WhoIsConnected DEF RequestConsumed
<1>2. result \in Callbacks \cup Errors /\ (result \in Callbacks => bound)
  BY CallbackParsed DEF Callbacks, Errors
<1>3. /\ Finish(result) /\ Note(result)
      /\ UNCHANGED <<attempt, bound, promise>>
      /\ conn' \in [Conns -> {"none", "open", "asked", "answered", "ended"}]
      /\ consumed' \in BOOLEAN
  BY DEF RequestConsumed, IInv, TypeOK
<1> HIDE DEF result
<1> QED
  BY <1>1, <1>2, <1>3, Finishes

LEMMA ErrorSteps ==
    ASSUME IInv, NEW c \in Conns, ClientError(c)
    PROVE  IInv'
<1>1. /\ server \notin {"off", "closed"}
      /\ server = "listening" \/ settled
  BY WhoIsConnected DEF ClientError
<1>2. /\ conn' \in [Conns -> {"none", "open", "asked", "answered", "ended"}]
      /\ consumed' = TRUE /\ UNCHANGED <<attempt, bound, promise>>
  BY DEF ClientError, IInv, TypeOK
<1>3. CASE consumed
  <2>1. settled /\ Decided
    BY <1>3 DEF IInv, Awaiting
  <2>2. UNCHANGED <<settled, deciding, server, timer, first>>
    BY <1>3 DEF ClientError
  <2>3. Decided'
    BY <1>2, <2>1, <2>2 DEF Decided
  <2> QED
    BY <1>1, <1>2, <2>1, <2>2, <2>3 DEF IInv, TypeOK
<1>4. CASE ~consumed
  <2>1. Finish("invalid_callback") /\ Note("invalid_callback")
    BY <1>4 DEF ClientError
  <2>2. "invalid_callback" \in Callbacks \cup Errors /\ "invalid_callback" \notin Callbacks
    BY DEF Callbacks, Errors
  <2> QED
    BY <1>1, <1>2, <2>1, <2>2, Finishes
<1> QED
  BY <1>3, <1>4

LEMMA TimerSteps ==
    ASSUME IInv, TimerFires
    PROVE  IInv'
<1>1. ~settled /\ server = "listening"
  BY DEF IInv, TypeOK, TimerFires, Decided, Awaiting
<1>2. "timeout" \in Callbacks \cup Errors /\ "timeout" \notin Callbacks
  BY DEF Callbacks, Errors
<1>3. /\ Finish("timeout") /\ Note("timeout") /\ UNCHANGED <<attempt, bound, promise>>
      /\ conn' \in [Conns -> {"none", "open", "asked", "answered", "ended"}]
      /\ consumed' \in BOOLEAN
  BY DEF TimerFires, IInv, TypeOK
<1> QED
  BY <1>1, <1>2, <1>3, Finishes

LEMMA ServerSteps ==
    ASSUME IInv, ServerCloses \/ Settle
    PROVE  IInv'
<1> USE DEF IInv, TypeOK
<1>1. CASE ServerCloses
  <2>1. settled /\ Decided
    BY <1>1 DEF ServerCloses, Awaiting
  <2>2. Decided' /\ NoConnections' /\ UNCHANGED settled
    BY <1>1, <2>1 DEF ServerCloses, Decided, NoConnections
  <2> QED
    BY <1>1, <2>1, <2>2 DEF ServerCloses
<1>2. CASE Settle
  <2>1. settled /\ Decided
    BY <1>2 DEF Settle, Awaiting
  <2>2. Decided' /\ UNCHANGED settled
    BY <1>2, <2>1 DEF Settle, Decided
  <2>3. (server \in {"off", "closed"} => NoConnections)'
    BY <1>2 DEF Settle, NoConnections
  <2>4. promise' \in Callbacks \cup Errors
    BY <1>2 DEF Settle
  <2> QED
    BY <1>2, <2>1, <2>2, <2>3, <2>4 DEF Settle
<1> QED
  BY <1>1, <1>2

(* What only moves the owner on, and binds the state.                       *)
LEMMA OwnerMoves ==
    ASSUME IInv, WaitForCallback \/ AttemptFails \/ CallbackAwaited \/ AttemptEnds
    PROVE  IInv'
<1>1. /\ UNCHANGED <<server, conn, consumed, settled, timer, deciding, promise, first>>
      /\ server # "off" /\ attempt' # "starting"
      /\ attempt' \in {"registering", "waiting", "closing", "closed", "done"}
      /\ bound' \in BOOLEAN /\ (bound => bound')
  BY DEF IInv, TypeOK, WaitForCallback, AttemptFails, CallbackAwaited, AttemptEnds
<1>2. (IF settled THEN Decided ELSE Awaiting)'
  BY <1>1 DEF IInv, Decided, Awaiting
<1>3. (server \in {"off", "closed"} => NoConnections)'
  BY <1>1 DEF IInv, NoConnections
<1> QED
  BY <1>1, <1>2, <1>3 DEF IInv, TypeOK

LEMMA OwnerCloses ==
    ASSUME IInv, Start \/ CloseUnsettled \/ CloseSettled
    PROVE  IInv'
<1> USE DEF IInv, TypeOK
<1>1. CASE Start
  <2>1. ~settled /\ Awaiting
    BY <1>1 DEF Start, Decided
  <2>2. Awaiting' /\ NoConnections' /\ UNCHANGED settled
    BY <1>1, <2>1 DEF Start, Awaiting, NoConnections
  <2> QED
    BY <1>1, <2>1, <2>2 DEF Start
<1>2. CASE CloseUnsettled
  <2>1. Awaiting /\ server = "listening"
    BY <1>2 DEF CloseUnsettled, Awaiting
  <2>2. server' = "closing" /\ first' = "unavailable" /\ settled' = TRUE
    BY <1>2, <2>1 DEF CloseUnsettled, CloseServer, Note, Awaiting
  <2>3. Decided'
    BY <1>2, <2>1, <2>2 DEF CloseUnsettled, Decided, Awaiting
  <2> QED
    BY <1>2, <2>2, <2>3 DEF CloseUnsettled, Callbacks, Errors
<1>3. CASE CloseSettled
  <2>1. settled /\ Decided
    BY <1>3 DEF CloseSettled
  <2>2. UNCHANGED <<server, conn, bound, consumed, settled, timer, deciding, promise, first>>
    BY <1>3, <2>1 DEF CloseSettled, CloseServer, Decided
  <2>3. Decided' /\ (server \in {"off", "closed"} => NoConnections)'
    BY <2>1, <2>2 DEF Decided, NoConnections
  <2> QED
    BY <1>3, <2>1, <2>2, <2>3 DEF CloseSettled
<1> QED
  BY <1>1, <1>2, <1>3

LEMMA LoopbackUnchanged ==
    ASSUME IInv, UNCHANGED vars
    PROVE  IInv'
  BY DEF vars, IInv, TypeOK, Decided, Awaiting, NoConnections

LEMMA LoopbackStep ==
    ASSUME IInv, Next
    PROVE  IInv'
<1>1. CASE Owner \/ AttemptFails
  BY <1>1, OwnerMoves, OwnerCloses DEF Owner
<1>2. CASE \E c \in Conns : Connect(c) \/ Peer(c) \/ AnswerFlushed(c) \/ HangUp(c)
  BY <1>2, ConnectionSteps, RequestSteps, ErrorSteps DEF Peer
<1>3. CASE TimerFires \/ ServerCloses \/ Settle
  BY <1>3, TimerSteps, ServerSteps
<1>4. CASE Finished
  BY <1>4, LoopbackUnchanged DEF Finished
<1> QED
  BY <1>1, <1>2, <1>3, <1>4 DEF Next

LEMMA LoopbackKeepsItsWord ==
    ASSUME IInv
    PROVE  LoginIsToldTheFirst
  BY DEF IInv, TypeOK, Decided, Awaiting, LoginIsToldTheFirst, FirstEventDecides,
         OutcomeAfterClosing

-----------------------------------------------------------------------------
(* The discovery of an operator.                                           *)
LEMMA DiscoveryInit == F!Init => F!IInv
<1> SUFFICES ASSUME F!Init PROVE F!IInv
  OBVIOUS
<1>1. F!TypeOK
  BY DEF F!Init, F!TypeOK
<1>2. F!BodiesAreOwned /\ F!AbortsAreSeen
  BY DEF F!Init, F!BodiesAreOwned, F!AbortsAreSeen, F!BudgetSpent, F!Resumed
<1> QED
  BY <1>1, <1>2 DEF F!IInv

LEMMA DiscoveryIsOver == DiscoveryOver => F!IInv
  BY DEF DiscoveryOver, F!IInv, F!TypeOK, F!BodiesAreOwned, F!AbortsAreSeen, F!BudgetSpent,
         F!Resumed

(* A step of one request that leaves the budget alone keeps the invariant   *)
(* of the others, so that only its own part has to be looked at.            *)
LEMMA OneFetch ==
    ASSUME F!IInv, NEW r \in F!Fetches,
           phase' = [phase EXCEPT ![r] = phase'[r]],
           upstream' = [upstream EXCEPT ![r] = upstream'[r]],
           aborted' = [aborted EXCEPT ![r] = aborted'[r]],
           total' = [total EXCEPT ![r] = total'[r]],
           UNCHANGED <<probe, closed, budget>>,
           phase'[r] \in {"fetching", "answered", "reading", "chunk", "last",
                          "replied", "refused"},
           upstream'[r] \in {"none", "flying", "open", "cancelled", "drained"},
           aborted'[r] \in BOOLEAN, total'[r] \in Nat,
           upstream'[r] = "open" => phase'[r] \in {"answered", "reading", "chunk"},
           aborted'[r] => phase'[r] \in F!Resumed \cup {"replied"},
           phase'[r] \in {"fetching", "reading"} => ~F!BudgetSpent,
           F!BudgetSpent /\ phase'[r] \in F!Resumed => aborted'[r]
    PROVE  F!IInv'
<1> USE DEF F!IInv
<1>1. F!TypeOK'
  BY DEF F!TypeOK
<1>2. F!BodiesAreOwned'
  BY DEF F!TypeOK, F!BodiesAreOwned
<1>3. F!BudgetSpent' = F!BudgetSpent
  BY DEF F!BudgetSpent
<1>4. ASSUME NEW q \in F!Fetches
      PROVE  /\ aborted'[q] => phase'[q] \in F!Resumed \cup {"replied"}
             /\ F!BudgetSpent =>
                   /\ phase'[q] \notin {"fetching", "reading"}
                   /\ phase'[q] \in F!Resumed => aborted'[q]
  <2>1. CASE q = r
    BY <2>1
  <2>2. CASE q # r
    <3>1. phase'[q] = phase[q] /\ aborted'[q] = aborted[q]
      BY <2>2 DEF F!TypeOK
    <3> QED
      BY <3>1 DEF F!AbortsAreSeen
  <2> QED
    BY <2>1, <2>2
<1>5. F!AbortsAreSeen'
  BY <1>3, <1>4 DEF F!AbortsAreSeen, F!Resumed
<1> QED
  BY <1>1, <1>2, <1>5

(* The catch of #request leaves nothing open and nothing aborted.           *)
LEMMA Refusal ==
    ASSUME F!IInv, NEW r \in F!Fetches, F!Refuse(r), UNCHANGED <<probe, closed, budget>>
    PROVE  F!IInv'
<1> DEFINE u == F!Cancelled(upstream[r])
<1>1. /\ u \in {"none", "flying", "open", "cancelled", "drained"} /\ u # "open"
  BY DEF F!IInv, F!TypeOK, F!Cancelled
<1>2. /\ phase'[r] = "refused" /\ upstream'[r] = u
      /\ ~aborted'[r] /\ aborted'[r] \in BOOLEAN /\ total'[r] = 0
      /\ phase' = [phase EXCEPT ![r] = phase'[r]]
      /\ upstream' = [upstream EXCEPT ![r] = upstream'[r]]
      /\ aborted' = [aborted EXCEPT ![r] = aborted'[r]]
      /\ total' = [total EXCEPT ![r] = total'[r]]
  BY DEF F!Refuse, F!IInv, F!TypeOK
<1>3. "refused" \notin F!Resumed
  BY DEF F!Resumed
<1> HIDE DEF u
<1>4. /\ phase'[r] \notin F!Resumed \cup {"fetching", "reading"}
      /\ upstream'[r] # "open" /\ ~aborted'[r]
      /\ upstream'[r] \in {"none", "flying", "open", "cancelled", "drained"}
      /\ aborted'[r] \in BOOLEAN /\ total'[r] \in Nat
  BY <1>1, <1>2, <1>3
<1> QED
  BY <1>2, <1>4, OneFetch

(* Whatever is aborted, and for whatever reason, afterwards nothing waits   *)
(* for the operators on its behalf; the rest is as it was.                  *)
LEMMA Aborts ==
    ASSUME F!IInv, NEW rs \in SUBSET F!Fetches, F!AbortAll(rs),
           probe' \in Endpoints \cup {"selecting", "failed"}, closed' \in BOOLEAN,
           budget' \in {"running", "cleared", "fired"},
           F!BudgetSpent' => F!BudgetSpent \/ rs = F!Fetches
    PROVE  F!IInv'
<1> USE DEF F!IInv
<1> DEFINE hit == {r \in rs : F!InFlight(r)}
           lost == {r \in hit : phase[r] \in {"fetching", "reading"}}
<1>1. /\ aborted' = [r \in F!Fetches |-> aborted[r] \/ r \in hit \ lost]
      /\ phase' = [r \in F!Fetches |-> IF r \in lost THEN "refused" ELSE phase[r]]
      /\ total' = [r \in F!Fetches |-> IF r \in lost THEN 0 ELSE total[r]]
      /\ upstream' = [r \in F!Fetches |->
                        IF r \in lost THEN F!Cancelled(upstream[r]) ELSE upstream[r]]
  BY DEF F!AbortAll
<1>2. \A r \in F!Fetches :
        /\ r \in lost <=> r \in rs /\ phase[r] \in {"fetching", "reading"}
        /\ r \in hit \ lost <=> r \in rs /\ phase[r] \in F!Resumed
  BY DEF F!InFlight, F!Resumed
<1> HIDE DEF hit, lost
<1>3. F!TypeOK'
  <2>1. \A r \in F!Fetches : F!Cancelled(upstream[r]) \in {"none", "flying", "open", "cancelled", "drained"}
    BY DEF F!TypeOK, F!Cancelled
  <2> QED
    BY <1>1, <2>1 DEF F!TypeOK
<1>4. F!BodiesAreOwned'
  <2> SUFFICES ASSUME NEW r \in F!Fetches, upstream'[r] = "open"
               PROVE  phase'[r] \in {"answered", "reading", "chunk"}
    BY DEF F!BodiesAreOwned
  <2>1. r \notin lost
    BY <1>1 DEF F!Cancelled
  <2> QED
    BY <1>1, <2>1 DEF F!BodiesAreOwned
<1>5. F!AbortsAreSeen'
  <2> SUFFICES ASSUME NEW r \in F!Fetches
               PROVE  /\ aborted'[r] => phase'[r] \in F!Resumed \cup {"replied"}
                      /\ F!BudgetSpent' =>
                            /\ phase'[r] \notin {"fetching", "reading"}
                            /\ phase'[r] \in F!Resumed => aborted'[r]
    BY DEF F!AbortsAreSeen, F!Resumed
  <2>1. /\ aborted[r] => phase[r] \in F!Resumed \cup {"replied"}
        /\ F!BudgetSpent => /\ phase[r] \notin {"fetching", "reading"}
                            /\ phase[r] \in F!Resumed => aborted[r]
    BY DEF F!AbortsAreSeen
  <2>2. CASE r \in lost
    <3>1. phase'[r] = "refused" /\ phase[r] \in {"fetching", "reading"}
      BY <1>1, <1>2, <2>2
    <3>2. ~aborted'[r]
      BY <1>1, <1>2, <2>1, <2>2, <3>1 DEF F!Resumed
    <3> QED
      BY <3>1, <3>2 DEF F!Resumed
  <2>3. CASE r \notin lost
    <3>1. phase'[r] = phase[r] /\ aborted'[r] = (aborted[r] \/ r \in hit \ lost)
      BY <1>1, <2>3
    <3>2. aborted'[r] => phase'[r] \in F!Resumed \cup {"replied"}
      BY <1>2, <2>1, <3>1
    <3>3. ASSUME F!BudgetSpent'
          PROVE  /\ phase'[r] \notin {"fetching", "reading"}
                 /\ phase'[r] \in F!Resumed => aborted'[r]
      <4>1. CASE F!BudgetSpent
        BY <2>1, <3>1, <4>1
      <4>2. CASE rs = F!Fetches
        BY <1>2, <2>3, <3>1, <4>2
      <4> QED
        BY <3>3, <4>1, <4>2
    <3> QED
      BY <3>2, <3>3
  <2> QED
    BY <2>2, <2>3
<1> QED
  BY <1>3, <1>4, <1>5

(* Each step of a request names what becomes of it.                         *)
LEMMA FetchFacts ==
    ASSUME F!IInv, NEW r \in F!Fetches
    PROVE  /\ upstream[r] \in {"none", "flying", "open", "cancelled", "drained"}
           /\ aborted[r] \in BOOLEAN /\ total[r] \in Nat
           /\ upstream[r] = "open" => phase[r] \in {"answered", "reading", "chunk"}
           /\ aborted[r] => phase[r] \in F!Resumed \cup {"replied"}
           /\ F!BudgetSpent => /\ phase[r] \notin {"fetching", "reading"}
                               /\ phase[r] \in F!Resumed => aborted[r]
  BY DEF F!IInv, F!TypeOK, F!BodiesAreOwned, F!AbortsAreSeen

LEMMA IssueSteps ==
    ASSUME F!IInv, NEW r \in F!Fetches, F!RequestRefused(r) \/ F!RequestStarts(r)
    PROVE  F!IInv'
<1>1. CASE F!RequestRefused(r)
  <2>1. /\ phase'[r] = "refused" /\ upstream'[r] = upstream[r]
        /\ aborted'[r] = aborted[r] /\ total'[r] = total[r]
        /\ phase' = [phase EXCEPT ![r] = phase'[r]]
        /\ upstream' = [upstream EXCEPT ![r] = upstream'[r]]
        /\ aborted' = [aborted EXCEPT ![r] = aborted'[r]]
        /\ total' = [total EXCEPT ![r] = total'[r]]
        /\ UNCHANGED <<probe, closed, budget>>
    BY <1>1, FetchFacts DEF F!IInv, F!TypeOK, F!RequestRefused
  <2> QED
    BY <1>1, <2>1, FetchFacts, OneFetch DEF F!RequestRefused, F!Resumed
<1>2. CASE F!RequestStarts(r)
  <2>1. /\ phase'[r] = "fetching" /\ upstream'[r] = "flying"
        /\ aborted'[r] = aborted[r] /\ total'[r] = total[r]
        /\ phase' = [phase EXCEPT ![r] = phase'[r]]
        /\ upstream' = [upstream EXCEPT ![r] = upstream'[r]]
        /\ aborted' = [aborted EXCEPT ![r] = aborted'[r]]
        /\ total' = [total EXCEPT ![r] = total'[r]]
        /\ UNCHANGED <<probe, closed, budget>>
    BY <1>2, FetchFacts DEF F!IInv, F!TypeOK, F!RequestStarts
  <2> QED
    BY <1>2, <2>1, FetchFacts, OneFetch DEF F!RequestStarts, F!Resumed
<1> QED
  BY <1>1, <1>2

LEMMA ReplySteps ==
    ASSUME F!IInv, NEW r \in F!Fetches, F!Operator(r)
    PROVE  F!IInv'
<1>1. CASE F!ResponseArrives(r)
  <2>1. /\ phase'[r] = "answered" /\ upstream'[r] = "open"
        /\ aborted'[r] = aborted[r] /\ total'[r] = total[r]
        /\ phase' = [phase EXCEPT ![r] = phase'[r]]
        /\ upstream' = [upstream EXCEPT ![r] = upstream'[r]]
        /\ aborted' = [aborted EXCEPT ![r] = aborted'[r]]
        /\ total' = [total EXCEPT ![r] = total'[r]]
        /\ UNCHANGED <<probe, closed, budget>>
    BY <1>1, FetchFacts DEF F!IInv, F!TypeOK, F!ResponseArrives
  <2> QED
    BY <1>1, <2>1, FetchFacts, OneFetch DEF F!ResponseArrives, F!Resumed
<1>2. CASE F!FetchFails(r)
  <2>1. /\ phase'[r] = "refused" /\ upstream'[r] = "none"
        /\ aborted'[r] = aborted[r] /\ total'[r] = total[r]
        /\ phase' = [phase EXCEPT ![r] = phase'[r]]
        /\ upstream' = [upstream EXCEPT ![r] = upstream'[r]]
        /\ aborted' = [aborted EXCEPT ![r] = aborted'[r]]
        /\ total' = [total EXCEPT ![r] = total'[r]]
        /\ UNCHANGED <<probe, closed, budget>>
    BY <1>2, FetchFacts DEF F!IInv, F!TypeOK, F!FetchFails
  <2> QED
    BY <1>2, <2>1, FetchFacts, OneFetch DEF F!FetchFails, F!Resumed
<1>3. CASE F!ResponseArrivesLate(r)
  <2>1. /\ phase'[r] = "refused" /\ upstream'[r] = "cancelled"
        /\ aborted'[r] = aborted[r] /\ total'[r] = total[r]
        /\ phase' = [phase EXCEPT ![r] = phase'[r]]
        /\ upstream' = [upstream EXCEPT ![r] = upstream'[r]]
        /\ aborted' = [aborted EXCEPT ![r] = aborted'[r]]
        /\ total' = [total EXCEPT ![r] = total'[r]]
        /\ UNCHANGED <<probe, closed, budget>>
    BY <1>3, FetchFacts DEF F!IInv, F!TypeOK, F!ResponseArrivesLate
  <2> QED
    BY <1>3, <2>1, FetchFacts, OneFetch DEF F!ResponseArrivesLate, F!Resumed
<1>4. CASE F!ChunkArrives(r)
  <2>1. /\ phase'[r] = "chunk" /\ upstream'[r] = upstream[r]
        /\ aborted'[r] = aborted[r] /\ total'[r] = total[r] + 1
        /\ phase' = [phase EXCEPT ![r] = phase'[r]]
        /\ upstream' = [upstream EXCEPT ![r] = upstream'[r]]
        /\ aborted' = [aborted EXCEPT ![r] = aborted'[r]]
        /\ total' = [total EXCEPT ![r] = total'[r]]
        /\ UNCHANGED <<probe, closed, budget>>
    BY <1>4, FetchFacts DEF F!IInv, F!TypeOK, F!ChunkArrives
  <2> QED
    <3>1. phase[r] = "reading" /\ total'[r] \in Nat
      BY <1>4, <2>1, FetchFacts DEF F!ChunkArrives
    <3> QED
      BY <2>1, <3>1, FetchFacts, OneFetch DEF F!Resumed
<1>5. CASE F!BodyEnds(r)
  <2>1. /\ phase'[r] = "last" /\ upstream'[r] = "drained"
        /\ aborted'[r] = aborted[r] /\ total'[r] = total[r]
        /\ phase' = [phase EXCEPT ![r] = phase'[r]]
        /\ upstream' = [upstream EXCEPT ![r] = upstream'[r]]
        /\ aborted' = [aborted EXCEPT ![r] = aborted'[r]]
        /\ total' = [total EXCEPT ![r] = total'[r]]
        /\ UNCHANGED <<probe, closed, budget>>
    BY <1>5, FetchFacts DEF F!IInv, F!TypeOK, F!BodyEnds
  <2> QED
    BY <1>5, <2>1, FetchFacts, OneFetch DEF F!BodyEnds, F!Resumed
<1>6. CASE F!ReadFails(r)
  BY <1>6, Refusal DEF F!ReadFails
<1> QED
  BY <1>1, <1>2, <1>3, <1>4, <1>5, <1>6 DEF F!Operator

LEMMA ResumeSteps ==
    ASSUME F!IInv, NEW r \in F!Fetches, F!Resume(r)
    PROVE  F!IInv'
<1>1. CASE F!ResponseRefused(r)
  BY <1>1, Refusal DEF F!ResponseRefused
<1>2. CASE F!ReadStarts(r)
  <2>1. CASE aborted[r]
    BY <1>2, <2>1, Refusal DEF F!ReadStarts
  <2>2. CASE ~aborted[r]
    <3>1. /\ phase'[r] = "reading" /\ upstream'[r] = upstream[r]
          /\ aborted'[r] = aborted[r] /\ total'[r] = total[r]
          /\ phase' = [phase EXCEPT ![r] = phase'[r]]
          /\ upstream' = [upstream EXCEPT ![r] = upstream'[r]]
          /\ aborted' = [aborted EXCEPT ![r] = aborted'[r]]
          /\ total' = [total EXCEPT ![r] = total'[r]]
          /\ UNCHANGED <<probe, closed, budget>>
          /\ phase[r] = "answered"
      BY <1>2, <2>2, FetchFacts DEF F!ReadStarts, F!IInv, F!TypeOK
    <3> QED
      BY <2>2, <3>1, FetchFacts, OneFetch DEF F!Resumed
  <2> QED
    BY <2>1, <2>2
<1>3. CASE F!ChunkTaken(r)
  <2>1. CASE total[r] > MaxBytes \/ aborted[r]
    BY <1>3, <2>1, Refusal DEF F!ChunkTaken
  <2>2. CASE ~(total[r] > MaxBytes \/ aborted[r])
    <3>1. /\ phase'[r] = "reading" /\ upstream'[r] = upstream[r]
          /\ aborted'[r] = aborted[r] /\ total'[r] = total[r]
          /\ phase' = [phase EXCEPT ![r] = phase'[r]]
          /\ upstream' = [upstream EXCEPT ![r] = upstream'[r]]
          /\ aborted' = [aborted EXCEPT ![r] = aborted'[r]]
          /\ total' = [total EXCEPT ![r] = total'[r]]
          /\ UNCHANGED <<probe, closed, budget>>
          /\ phase[r] = "chunk"
      BY <1>3, <2>2, FetchFacts DEF F!ChunkTaken, F!IInv, F!TypeOK
    <3> QED
      BY <2>2, <3>1, FetchFacts, OneFetch DEF F!Resumed
  <2> QED
    BY <2>1, <2>2
<1>4. CASE F!BodyTaken(r)
  <2>1. CASE F!Refuse(r)
    BY <1>4, <2>1, Refusal DEF F!BodyTaken
  <2>2. CASE /\ phase' = [phase EXCEPT ![r] = "replied"]
             /\ UNCHANGED <<aborted, upstream, total>>
    <3>1. /\ phase'[r] = "replied" /\ upstream'[r] = upstream[r]
          /\ aborted'[r] = aborted[r] /\ total'[r] = total[r]
          /\ phase' = [phase EXCEPT ![r] = phase'[r]]
          /\ upstream' = [upstream EXCEPT ![r] = upstream'[r]]
          /\ aborted' = [aborted EXCEPT ![r] = aborted'[r]]
          /\ total' = [total EXCEPT ![r] = total'[r]]
          /\ UNCHANGED <<probe, closed, budget>> /\ phase[r] = "last"
      BY <1>4, <2>2, FetchFacts DEF F!IInv, F!TypeOK, F!BodyTaken
    <3> QED
      BY <3>1, FetchFacts, OneFetch DEF F!Resumed
  <2> QED
    BY <1>4, <2>1, <2>2 DEF F!BodyTaken
<1> QED
  BY <1>1, <1>2, <1>3, <1>4 DEF F!Resume

LEMMA AbortSteps ==
    ASSUME F!IInv,
           \/ \E r \in F!Fetches : F!RequestAborts(r)
           \/ F!BudgetFires
           \/ \E e \in Endpoints : F!Select(e)
           \/ F!GiveUp
    PROVE  F!IInv'
<1> USE DEF F!IInv, F!TypeOK
<1>1. ASSUME NEW r \in F!Fetches, F!RequestAborts(r)
      PROVE  F!IInv'
  <2>1. F!AbortAll({r}) /\ UNCHANGED <<probe, closed, budget>> /\ {r} \in SUBSET F!Fetches
    BY <1>1 DEF F!RequestAborts
  <2>2. F!BudgetSpent' = F!BudgetSpent
    BY <2>1 DEF F!BudgetSpent
  <2> QED
    BY <2>1, <2>2, Aborts
<1>2. CASE F!BudgetFires
  BY <1>2, Aborts DEF F!BudgetFires
<1>3. ASSUME NEW result \in Endpoints \cup {"failed"}, F!SelectorReturns(result)
      PROVE  F!IInv'
  BY <1>3, Aborts DEF F!SelectorReturns
<1> QED
  BY <1>1, <1>2, <1>3 DEF F!Select, F!GiveUp

LEMMA DiscoveryUnchanged ==
    ASSUME F!IInv, UNCHANGED fetchVars
    PROVE  F!IInv'
  BY DEF fetchVars, F!IInv, F!TypeOK, F!BodiesAreOwned, F!AbortsAreSeen, F!BudgetSpent

LEMMA DiscoveryStep ==
    ASSUME F!IInv, F!Next
    PROVE  F!IInv'
<1>1. CASE F!Over
  BY <1>1, DiscoveryUnchanged DEF F!Over, F!vars, fetchVars
<1> QED
  BY <1>1, IssueSteps, ReplySteps, ResumeSteps, AbortSteps DEF F!Next

LEMMA DiscoveryKeepsItsWord ==
    ASSUME F!IInv
    PROVE  F!NoBodyLeaks /\ F!NothingOutlivesTheBudget
  BY DEF F!IInv, F!BodiesAreOwned, F!AbortsAreSeen, F!NoBodyLeaks, F!NothingOutlivesTheBudget,
         F!Resumed

-----------------------------------------------------------------------------
(* The tools that read the API.                                            *)
LEMMA ReadsInit == R!Init => R!ReadsIInv
<1> SUFFICES ASSUME R!Init PROVE R!ReadsIInv
  OBVIOUS
<1>1. R!NoRead \in R!Reads
  BY BoundsAssumption DEF R!NoRead, R!Reads
<1>2. R!Typed
  BY <1>1 DEF R!Init, R!Typed
<1>3. (\A c \in Readers : R!Knows(c)) /\ R!NoStreamLeaks
  BY DEF R!Init, R!NoRead, R!Knows, R!NoStreamLeaks
<1> QED
  BY <1>2, <1>3 DEF R!ReadsIInv

LEMMA ReadsAreOver == ReadsOver => R!ReadsIInv
<1> SUFFICES ASSUME ReadsOver PROVE R!ReadsIInv
  OBVIOUS
<1>1. R!NoRead \in R!Reads
  BY BoundsAssumption DEF R!NoRead, R!Reads
<1>2. R!Typed
  BY <1>1 DEF ReadsOver, R!Typed, R!Deployments
<1>3. (\A c \in Readers : R!Knows(c)) /\ R!NoStreamLeaks
  BY DEF ReadsOver, R!NoRead, R!Knows, R!NoStreamLeaks
<1> QED
  BY <1>2, <1>3 DEF R!ReadsIInv

(* A step of one call keeps the others' part of the invariant: nobody else  *)
(* writes a call's record, its body or what it has been told.              *)
LEMMA OneCall ==
    ASSUME R!ReadsIInv, NEW c \in Readers,
           read' = [read EXCEPT ![c] = read'[c]],
           body' = [body EXCEPT ![c] = body'[c]],
           late' = [late EXCEPT ![c] = late'[c]],
           told' = [told EXCEPT ![c] = told'[c]],
           UNCHANGED <<pinned, deployment>>,
           read'[c] \in R!Reads,
           body'[c] \in {"none", "open", "cancelled", "ended"},
           late'[c] \in BOOLEAN,
           told'[c] \in SUBSET {"operator", "ours", "other"},
           R!Knows(c)',
           body'[c] = "open" => read'[c].pc = "reading"
    PROVE  R!ReadsIInv'
<1>1. R!Typed'
  BY DEF R!ReadsIInv, R!Typed
<1>2. ASSUME NEW d \in Readers, d # c
      PROVE  R!Knows(d)' /\ (body'[d] = "open" => read'[d].pc = "reading")
  <2>1. read'[d] = read[d] /\ told'[d] = told[d] /\ body'[d] = body[d]
    BY <1>2 DEF R!ReadsIInv, R!Typed
  <2> QED
    BY <2>1 DEF R!ReadsIInv, R!Knows, R!NoStreamLeaks
<1> QED
  BY <1>1, <1>2 DEF R!ReadsIInv, R!NoStreamLeaks

(* The record with which a call answers, or goes on to a request.           *)
LEMMA CallFacts ==
    ASSUME R!ReadsIInv, NEW c \in Readers
    PROVE  /\ read[c] \in R!Reads
           /\ body[c] \in {"none", "open", "cancelled", "ended"}
           /\ late[c] \in BOOLEAN
           /\ told[c] \in SUBSET {"operator", "ours", "other"}
           /\ R!Knows(c)
           /\ body[c] = "open" => read[c].pc = "reading"
  BY DEF R!ReadsIInv, R!Typed, R!NoStreamLeaks

Answered(c, answer) ==
    [R!NoRead EXCEPT !.tool = read[c].tool, !.pc = "over", !.answer = answer]

LEMMA AnswerFacts ==
    ASSUME R!ReadsIInv, NEW c \in Readers,
           NEW answer \in {"error", "mismatch", "verified", "services", "status"},
           R!Answers(c, answer)
    PROVE  /\ read' = [read EXCEPT ![c] = read'[c]]
           /\ read'[c] \in R!Reads
           /\ read'[c].pc = "over" /\ read'[c].answer = answer
<1>1. Answered(c, answer) \in R!Reads
  <2>1. read[c].tool \in R!SteleTools \cup {"none"}
    BY CallFacts DEF R!Reads
  <2>2. R!NoRead \in R!Reads
    BY BoundsAssumption DEF R!NoRead, R!Reads
  <2> QED
    BY <2>1, <2>2 DEF Answered, R!Reads
<1>2. Answered(c, answer).pc = "over" /\ Answered(c, answer).answer = answer
  BY DEF Answered, R!NoRead
<1>3. read' = [read EXCEPT ![c] = Answered(c, answer)]
  BY DEF R!Answers, Answered
<1>4. read'[c] = Answered(c, answer)
  BY <1>3 DEF R!ReadsIInv, R!Typed
<1> QED
  BY <1>1, <1>2, <1>3, <1>4

(* A failure is never an answer that promises anything.                     *)
LEMMA FailureFacts ==
    ASSUME R!ReadsIInv, NEW c \in Readers, R!IdentityFails(c) \/ R!RequestFails(c)
    PROVE  /\ read' = [read EXCEPT ![c] = read'[c]]
           /\ read'[c] \in R!Reads
           /\ read'[c].pc = "over" /\ read'[c].answer \in {"error", "mismatch"}
<1>1. R!Answers(c, "error") \/ R!Answers(c, "mismatch")
  BY DEF R!IdentityFails, R!RequestFails
<1> QED
  BY <1>1, AnswerFacts

LEMMA SendFacts ==
    ASSUME R!ReadsIInv, NEW c \in Readers, NEW path \in {"meta", "services"},
           R!Sends(c, path)
    PROVE  /\ read' = [read EXCEPT ![c] = read'[c]]
           /\ read'[c] \in R!Reads
           /\ read'[c].pc = "fetching" /\ read'[c].path = path
           /\ read'[c].answer = read[c].answer
<1> DEFINE sent == [read[c] EXCEPT !.pc = "fetching", !.path = path, !.chunks = 0,
                                   !.serves = "none"]
<1>1. read[c] \in R!Reads
  BY CallFacts
<1>2. /\ sent \in R!Reads /\ sent.pc = "fetching" /\ sent.path = path
      /\ sent.answer = read[c].answer
  <2>1. 0 \in 0..MaxChunks
    BY BoundsAssumption
  <2> QED
    BY <1>1, <2>1 DEF R!Reads
<1>3. read' = [read EXCEPT ![c] = sent]
  BY DEF R!Sends
<1>4. read'[c] = sent
  BY <1>3 DEF R!ReadsIInv, R!Typed
<1> HIDE DEF sent
<1> QED
  BY <1>2, <1>3, <1>4

(* What a step leaves alone has the form that OneCall asks for.             *)
LEMMA Unwritten ==
    ASSUME R!ReadsIInv, NEW c \in Readers
    PROVE  /\ body' = body => body' = [body EXCEPT ![c] = body'[c]]
           /\ late' = late => late' = [late EXCEPT ![c] = late'[c]]
           /\ told' = told => told' = [told EXCEPT ![c] = told'[c]]
           /\ read' = read => read' = [read EXCEPT ![c] = read'[c]]
           /\ \A b : body' = [body EXCEPT ![c] = b]
                       => body'[c] = b /\ body' = [body EXCEPT ![c] = body'[c]]
           /\ \A b : late' = [late EXCEPT ![c] = b]
                       => late'[c] = b /\ late' = [late EXCEPT ![c] = late'[c]]
           /\ \A b : told' = [told EXCEPT ![c] = b]
                       => told'[c] = b /\ told' = [told EXCEPT ![c] = told'[c]]
           /\ \A b : read' = [read EXCEPT ![c] = b]
                       => read'[c] = b /\ read' = [read EXCEPT ![c] = read'[c]]
  BY DEF R!ReadsIInv, R!Typed

(* A call that is over, and whose answer promises nothing.                  *)
LEMMA CallFails ==
    ASSUME R!ReadsIInv, NEW c \in Readers, R!IdentityFails(c) \/ R!RequestFails(c),
           body' = [body EXCEPT ![c] = body'[c]],
           late' = [late EXCEPT ![c] = late'[c]],
           UNCHANGED <<pinned, deployment, told>>,
           body'[c] \in {"none", "cancelled", "ended"}, late'[c] \in BOOLEAN
    PROVE  R!ReadsIInv'
<1>1. /\ read' = [read EXCEPT ![c] = read'[c]]
      /\ read'[c] \in R!Reads
      /\ read'[c].pc = "over" /\ read'[c].answer \in {"error", "mismatch"}
  BY FailureFacts
<1>2. R!Knows(c)'
  BY <1>1 DEF R!Knows
<1>3. told' = [told EXCEPT ![c] = told'[c]]
      /\ told'[c] \in SUBSET {"operator", "ours", "other"}
  BY Unwritten, CallFacts
<1> QED
  BY <1>1, <1>2, <1>3, OneCall

LEMMA BeginStep ==
    ASSUME R!ReadsIInv, NEW c \in Readers, NEW tool \in R!SteleTools, R!Begin(c, tool)
    PROVE  R!ReadsIInv'
<1> DEFINE begun == [R!NoRead EXCEPT !.tool = tool, !.pc = "begun"]
<1>1. R!NoRead \in R!Reads
  BY BoundsAssumption DEF R!NoRead, R!Reads
<1>2. begun \in R!Reads
  BY <1>1 DEF R!Reads
<1>3. begun.pc = "begun" /\ begun.answer = "none"
  BY DEF R!NoRead
<1>4. read' = [read EXCEPT ![c] = begun] /\ told' = [told EXCEPT ![c] = {}]
  BY DEF R!Begin
<1> HIDE DEF begun
<1>5. read'[c] = begun /\ told'[c] = {}
  BY <1>4, Unwritten
<1>6. R!Knows(c)'
  BY <1>3, <1>5 DEF R!Knows
<1>7. body'[c] # "open"
  BY CallFacts DEF R!Begin
<1> QED
  BY <1>2, <1>4, <1>5, <1>6, <1>7, CallFacts, Unwritten, OneCall DEF R!Begin

(* The ways in which a call ends without having promised anything.          *)
LEMMA RefusedStep ==
    ASSUME R!ReadsIInv, NEW c \in Readers,
           R!Refused(c) \/ R!WalletStatus(c)
    PROVE  R!ReadsIInv'
<1>1. /\ R!Answers(c, "error") \/ R!Answers(c, "status")
      /\ UNCHANGED <<pinned, deployment, body, late, told>>
      /\ read[c].pc = "begun"
  BY DEF R!Refused, R!WalletStatus
<1>2. /\ read' = [read EXCEPT ![c] = read'[c]]
      /\ read'[c] \in R!Reads
      /\ read'[c].pc = "over" /\ read'[c].answer \in {"error", "status"}
  BY <1>1, AnswerFacts
<1>3. R!Knows(c)' /\ body'[c] # "open"
  BY <1>1, <1>2, CallFacts DEF R!Knows
<1> QED
  BY <1>1, <1>2, <1>3, CallFacts, Unwritten, OneCall

LEMMA VerifyStep ==
    ASSUME R!ReadsIInv, NEW c \in Readers, R!Verify(c)
    PROVE  R!ReadsIInv'
<1>1. /\ UNCHANGED <<pinned, deployment, body, late, told>>
      /\ read[c].pc = "begun" /\ body[c] # "open"
  BY CallFacts DEF R!Verify
<1>2. CASE pinned
  <2> DEFINE probing == [read[c] EXCEPT !.pc = "probing"]
  <2>1. probing \in R!Reads /\ probing.pc = "probing" /\ probing.answer = read[c].answer
    BY CallFacts DEF R!Reads
  <2>2. read' = [read EXCEPT ![c] = probing]
    BY <1>2 DEF R!Verify
  <2> HIDE DEF probing
  <2>3. read'[c] = probing
    BY <2>2, Unwritten
  <2>4. R!Knows(c)'
    BY <1>1, <1>2, <2>1, <2>3, CallFacts DEF R!Knows
  <2> QED
    BY <1>1, <2>1, <2>2, <2>3, <2>4, CallFacts, Unwritten, OneCall
<1>3. CASE ~pinned
  BY <1>1, <1>3, CallFacts, Unwritten, CallFails DEF R!Verify
<1> QED
  BY <1>2, <1>3

LEMMA OperatorStep ==
    ASSUME R!ReadsIInv, NEW c \in Readers, R!OperatorVouches(c) \/ R!OperatorFails(c)
    PROVE  R!ReadsIInv'
<1>1. CASE R!OperatorVouches(c)
  <2>1. /\ UNCHANGED <<pinned, deployment, body, late>>
        /\ pinned /\ read[c].answer = "none" /\ body[c] # "open"
        /\ told' = [told EXCEPT ![c] = told[c] \cup {"operator"}] /\ told[c] = {}
        /\ R!Sends(c, "meta")
    BY <1>1, CallFacts DEF R!OperatorVouches, R!Knows
  <2>2. told'[c] = {"operator"} /\ told' = [told EXCEPT ![c] = told'[c]]
    BY <2>1 DEF R!ReadsIInv, R!Typed
  <2>3. R!Knows(c)'
    BY <2>1, <2>2, SendFacts DEF R!Knows
  <2> QED
    BY <2>1, <2>2, <2>3, SendFacts, CallFacts, Unwritten, OneCall
<1>2. CASE R!OperatorFails(c)
  <2>1. body[c] # "open"
    BY <1>2, CallFacts DEF R!OperatorFails
  <2> QED
    BY <1>2, <2>1, CallFacts, Unwritten, CallFails DEF R!OperatorFails
<1> QED
  BY <1>1, <1>2

LEMMA ResponseStep ==
    ASSUME R!ReadsIInv, NEW c \in Readers, R!ResponseArrives(c)
    PROVE  R!ReadsIInv'
<1>1. /\ UNCHANGED <<pinned, deployment, late, told>> /\ read[c].pc = "fetching"
      /\ body[c] # "open"
  BY CallFacts DEF R!ResponseArrives
<1>2. CASE /\ read' = [read EXCEPT ![c].pc = "reading", ![c].serves = deployment]
           /\ body' = [body EXCEPT ![c] = "open"]
  <2> DEFINE reading == [read[c] EXCEPT !.pc = "reading", !.serves = deployment]
  <2>1. deployment \in R!Deployments
    BY DEF R!ReadsIInv, R!Typed
  <2>2. read[c] \in R!Reads /\ deployment \in R!Deployments \cup {"none"}
    BY <2>1, CallFacts
  <2>3. reading \in R!Reads
    BY <2>2 DEF R!Reads
  <2>4. /\ reading.pc = "reading" /\ reading.serves = deployment
        /\ reading.answer = read[c].answer /\ reading.path = read[c].path
    BY <2>2 DEF R!Reads
  <2>5. read' = [read EXCEPT ![c] = reading]
    BY <1>2
  <2> HIDE DEF reading
  <2>6. read'[c] = reading /\ body'[c] = "open"
    BY <1>2, <2>5, Unwritten
  <2>7. R!Knows(c)'
    BY <1>1, <2>1, <2>4, <2>6, CallFacts DEF R!Knows
  <2> QED
    BY <1>1, <1>2, <2>3, <2>4, <2>5, <2>6, <2>7, CallFacts, Unwritten, OneCall
<1>3. CASE R!RequestFails(c) /\ body' = [body EXCEPT ![c] = "cancelled"]
  BY <1>1, <1>3, CallFacts, Unwritten, CallFails
<1>4. CASE R!RequestFails(c) /\ UNCHANGED body
  BY <1>1, <1>4, CallFacts, Unwritten, CallFails
<1> QED
  BY <1>2, <1>3, <1>4 DEF R!ResponseArrives

LEMMA TimeoutStep ==
    ASSUME R!ReadsIInv, NEW c \in Readers, R!TimerFires(c)
    PROVE  R!ReadsIInv'
<1>1. UNCHANGED <<pinned, deployment, told>> /\ R!RequestFails(c)
  BY DEF R!TimerFires
<1>2. CASE /\ read[c].pc = "fetching"
           /\ late' = [late EXCEPT ![c] = TRUE]
           /\ UNCHANGED body
  <2>1. late'[c] \in BOOLEAN
    BY <1>2, Unwritten
  <2> QED
    BY <1>1, <1>2, <2>1, CallFacts, Unwritten, CallFails
<1>3. CASE /\ read[c].pc = "reading"
           /\ body' = [body EXCEPT ![c] = "cancelled"]
           /\ UNCHANGED late
  BY <1>1, <1>3, CallFacts, Unwritten, CallFails
<1> QED
  BY <1>2, <1>3 DEF R!TimerFires

LEMMA LateStep ==
    ASSUME R!ReadsIInv, NEW c \in Readers, R!LateResponse(c)
    PROVE  R!ReadsIInv'
<1>1. PICK more \in BOOLEAN : late' = [late EXCEPT ![c] = more]
  BY DEF R!LateResponse
<1>2. late'[c] \in BOOLEAN
  BY <1>1, Unwritten
<1>3. /\ UNCHANGED <<pinned, deployment, read, told>>
      /\ body' = [body EXCEPT ![c] = IF read[c].pc = "reading" THEN body[c] ELSE "cancelled"]
  BY DEF R!LateResponse
<1>4. /\ body'[c] = IF read[c].pc = "reading" THEN body[c] ELSE "cancelled"
      /\ body' = [body EXCEPT ![c] = body'[c]]
  BY <1>3 DEF R!ReadsIInv, R!Typed
<1>5. R!Knows(c)'
  BY <1>3, CallFacts DEF R!Knows
<1>6. /\ body'[c] \in {"none", "open", "cancelled", "ended"}
      /\ body'[c] = "open" => read'[c].pc = "reading"
  BY <1>3, <1>4, CallFacts
<1>7. late' = [late EXCEPT ![c] = late'[c]]
  BY <1>1, Unwritten
<1>8. /\ read' = [read EXCEPT ![c] = read'[c]] /\ told' = [told EXCEPT ![c] = told'[c]]
      /\ read'[c] \in R!Reads /\ told'[c] \in SUBSET {"operator", "ours", "other"}
  BY <1>3, CallFacts, Unwritten
<1> QED
  BY <1>2, <1>3, <1>4, <1>5, <1>6, <1>7, <1>8, OneCall

LEMMA ChunkStep ==
    ASSUME R!ReadsIInv, NEW c \in Readers, R!ChunkArrives(c)
    PROVE  R!ReadsIInv'
<1>1. UNCHANGED <<pinned, deployment, late, told>> /\ read[c].pc = "reading"
  BY DEF R!ChunkArrives
<1>2. CASE read[c].chunks < MaxChunks
  <2> DEFINE more == [read[c] EXCEPT !.chunks = read[c].chunks + 1]
  <2>1. read[c].chunks + 1 \in 0..MaxChunks
    BY <1>2, BoundsAssumption, CallFacts DEF R!Reads
  <2>2. /\ more \in R!Reads /\ more.pc = read[c].pc /\ more.serves = read[c].serves
        /\ more.answer = read[c].answer /\ more.path = read[c].path
    BY <2>1, CallFacts DEF R!Reads
  <2>3. read' = [read EXCEPT ![c] = more] /\ UNCHANGED body
    BY <1>2 DEF R!ChunkArrives
  <2> HIDE DEF more
  <2>4. read'[c] = more
    BY <2>3, Unwritten
  <2>5. R!Knows(c)'
    BY <1>1, <2>2, <2>4, CallFacts DEF R!Knows
  <2> QED
    BY <1>1, <2>2, <2>3, <2>4, <2>5, CallFacts, Unwritten, OneCall
<1>3. CASE ~(read[c].chunks < MaxChunks)
  <2>1. R!RequestFails(c) /\ body' = [body EXCEPT ![c] = "cancelled"]
    BY <1>3 DEF R!ChunkArrives
  <2> QED
    BY <1>1, <2>1, CallFacts, Unwritten, CallFails
<1> QED
  BY <1>2, <1>3

LEMMA UselessStep ==
    ASSUME R!ReadsIInv, NEW c \in Readers, R!BodyIsUseless(c)
    PROVE  R!ReadsIInv'
<1>1. /\ UNCHANGED <<pinned, deployment, late, told>> /\ R!RequestFails(c)
      /\ body' = [body EXCEPT ![c] = "ended"]
  BY DEF R!BodyIsUseless
<1>2. body'[c] = "ended" /\ body' = [body EXCEPT ![c] = body'[c]]
  BY <1>1 DEF R!ReadsIInv, R!Typed
<1> QED
  BY <1>1, <1>2, CallFacts, Unwritten, CallFails

(* The metadata: what the call has been told since it began is then the     *)
(* operator's word and the network's, or it goes no further.               *)
LEMMA MetaStep ==
    ASSUME R!ReadsIInv, NEW c \in Readers, R!MetaArrives(c)
    PROVE  R!ReadsIInv'
<1>1. /\ UNCHANGED <<pinned, deployment, late>>
      /\ read[c].pc = "reading" /\ read[c].path = "meta"
      /\ body' = [body EXCEPT ![c] = "ended"]
      /\ told' = [told EXCEPT ![c] = told[c] \cup {read[c].serves}]
      /\ R!MetaAccepted(c)
  BY DEF R!MetaArrives
<1>2. /\ pinned /\ told[c] = {"operator"} /\ read[c].answer = "none"
      /\ read[c].serves \in {"ours", "other"}
  BY <1>1, CallFacts DEF R!Knows, R!Deployments
<1>3. /\ told'[c] = {"operator", read[c].serves} /\ body'[c] = "ended"
      /\ told' = [told EXCEPT ![c] = told'[c]] /\ body' = [body EXCEPT ![c] = body'[c]]
  BY <1>1, <1>2 DEF R!ReadsIInv, R!Typed
<1>4. CASE read[c].serves # "ours"
  <2>1. /\ read' = [read EXCEPT ![c] = read'[c]]
        /\ read'[c] \in R!Reads
        /\ read'[c].pc = "over" /\ read'[c].answer \in {"error", "mismatch"}
    BY <1>1, <1>4, FailureFacts DEF R!MetaAccepted
  <2>2. R!Knows(c)'
    BY <2>1 DEF R!Knows
  <2> QED
    BY <1>1, <1>2, <1>3, <2>1, <2>2, CallFacts, Unwritten, OneCall
<1>5. CASE read[c].serves = "ours" /\ read[c].tool = "search_services"
  <2>1. /\ read' = [read EXCEPT ![c] = read'[c]]
        /\ read'[c] \in R!Reads
        /\ read'[c].pc = "fetching" /\ read'[c].path = "services"
        /\ read'[c].answer = "none"
    BY <1>1, <1>2, <1>5, SendFacts DEF R!MetaAccepted
  <2>2. R!Knows(c)'
    BY <1>1, <1>2, <1>3, <1>5, <2>1 DEF R!Knows
  <2> QED
    BY <1>1, <1>2, <1>3, <2>1, <2>2, CallFacts, Unwritten, OneCall
<1>6. CASE read[c].serves = "ours" /\ read[c].tool # "search_services"
  <2>1. /\ read' = [read EXCEPT ![c] = read'[c]]
        /\ read'[c] \in R!Reads
        /\ read'[c].pc = "over" /\ read'[c].answer = "verified"
    BY <1>1, <1>6, AnswerFacts DEF R!MetaAccepted
  <2>2. R!Knows(c)'
    BY <1>1, <1>2, <1>3, <1>6, <2>1 DEF R!Knows
  <2> QED
    BY <1>1, <1>2, <1>3, <2>1, <2>2, CallFacts, Unwritten, OneCall
<1> QED
  BY <1>4, <1>5, <1>6

LEMMA ServicesStep ==
    ASSUME R!ReadsIInv, NEW c \in Readers, R!ServicesArrive(c)
    PROVE  R!ReadsIInv'
<1>1. /\ UNCHANGED <<pinned, deployment, late, told>>
      /\ read[c].pc = "reading" /\ read[c].path = "services"
      /\ body' = [body EXCEPT ![c] = "ended"]
      /\ R!Answers(c, "services")
  BY DEF R!ServicesArrive
<1>2. pinned /\ told[c] = {"operator", "ours"}
  BY <1>1, CallFacts DEF R!Knows
<1>3. /\ read' = [read EXCEPT ![c] = read'[c]]
      /\ read'[c] \in R!Reads
      /\ read'[c].pc = "over" /\ read'[c].answer = "services"
  BY <1>1, AnswerFacts
<1>4. R!Knows(c)' /\ body'[c] = "ended"
  BY <1>1, <1>2, <1>3, Unwritten DEF R!Knows
<1> QED
  BY <1>1, <1>3, <1>4, CallFacts, Unwritten, OneCall

LEMMA TakenStep ==
    ASSUME R!ReadsIInv, NEW c \in Readers, R!Taken(c)
    PROVE  R!ReadsIInv'
<1>1. R!NoRead \in R!Reads
  BY BoundsAssumption DEF R!NoRead, R!Reads
<1>2. read'[c] = R!NoRead /\ read' = [read EXCEPT ![c] = read'[c]]
  BY Unwritten DEF R!Taken
<1>3. R!Knows(c)'
  BY <1>2 DEF R!Knows, R!NoRead
<1>4. body[c] # "open"
  BY CallFacts DEF R!Taken
<1>5. UNCHANGED <<pinned, deployment, body, late, told>>
  BY DEF R!Taken
<1> QED
  BY <1>1, <1>2, <1>3, <1>4, <1>5, CallFacts, Unwritten, OneCall

LEMMA ReadsUnchanged ==
    ASSUME R!ReadsIInv, UNCHANGED <<pinned, read, body, late, told>>,
           deployment' \in R!Deployments
    PROVE  R!ReadsIInv'
<1>1. R!Typed'
  BY DEF R!ReadsIInv, R!Typed
<1>2. (\A c \in Readers : R!Knows(c))' /\ R!NoStreamLeaks'
  BY DEF R!ReadsIInv, R!Knows, R!NoStreamLeaks
<1> QED
  BY <1>1, <1>2 DEF R!ReadsIInv

LEMMA ReadsStep ==
    ASSUME R!ReadsIInv, R!Next
    PROVE  R!ReadsIInv'
<1>1. ASSUME NEW c \in Readers, R!Reader(c)
      PROVE  R!ReadsIInv'
  BY <1>1, RefusedStep, VerifyStep, OperatorStep, ResponseStep, TimeoutStep, LateStep,
     ChunkStep, UselessStep, MetaStep, ServicesStep DEF R!Reader
<1>2. CASE R!Redeployed
  BY <1>2, ReadsUnchanged DEF R!Redeployed
<1> QED
  BY <1>1, <1>2, BeginStep, TakenStep DEF R!Next

-----------------------------------------------------------------------------
(* The three together.                                                     *)
LEMMA EdgesInitially == EdgesInit => EdgesIInv
  BY LoopbackInit, LoopbackIsOver, DiscoveryInit, DiscoveryIsOver, ReadsInit, ReadsAreOver
  DEF EdgesInit, EdgesIInv

LEMMA EdgesStep ==
    ASSUME EdgesIInv, [EdgesNext]_edgesVars
    PROVE  EdgesIInv'
<1>1. UNCHANGED vars => IInv'
  BY LoopbackUnchanged DEF EdgesIInv
<1>2. UNCHANGED fetchVars => F!IInv'
  BY DiscoveryUnchanged DEF EdgesIInv
<1>3. UNCHANGED readsVars => R!ReadsIInv'
  <2> SUFFICES ASSUME UNCHANGED readsVars PROVE R!ReadsIInv'
    OBVIOUS
  <2>1. UNCHANGED <<pinned, read, body, late, told>> /\ deployment' \in R!Deployments
    BY DEF readsVars, EdgesIInv, R!ReadsIInv, R!Typed
  <2> QED
    BY <2>1, ReadsUnchanged DEF EdgesIInv
<1>4. CASE Next /\ UNCHANGED <<fetchVars, readsVars>>
  BY <1>2, <1>3, <1>4, LoopbackStep DEF EdgesIInv
<1>5. CASE F!Next /\ UNCHANGED <<vars, readsVars>>
  BY <1>1, <1>3, <1>5, DiscoveryStep DEF EdgesIInv
<1>6. CASE R!Next /\ UNCHANGED <<vars, fetchVars>>
  BY <1>1, <1>2, <1>6, ReadsStep DEF EdgesIInv
<1>7. CASE UNCHANGED edgesVars
  BY <1>1, <1>2, <1>3, <1>7 DEF EdgesIInv, edgesVars
<1> QED
  BY <1>4, <1>5, <1>6, <1>7 DEF EdgesNext

(* However connections, timers, replies, aborts and redeployments           *)
(* interleave, the three inductive invariants hold.                        *)
THEOREM EdgesInvariance == EdgesSpec => []EdgesIInv
  BY EdgesInitially, EdgesStep, PTL DEF EdgesSpec

(* Every variable of the three keeps its type; no body is longer than       *)
(* readBoundedBody allows.                                                 *)
THEOREM EdgesTypes == EdgesSpec => []EdgesTypeOK
<1>1. EdgesIInv => EdgesTypeOK
  <2> SUFFICES ASSUME EdgesIInv PROVE EdgesTypeOK
    OBVIOUS
  <2>1. R!Typed
    BY DEF EdgesIInv, R!ReadsIInv
  <2>2. R!ReadsTypeOK
    BY <2>1 DEF R!Typed, R!ReadsTypeOK, R!Reads
  <2> QED
    BY <2>2 DEF EdgesIInv, EdgesTypeOK, IInv, F!IInv
<1> QED
  BY <1>1, EdgesInvariance, PTL

(* Of the callback, a broken connection, the timer and close(), the first   *)
(* is what the login is told, once, and when nobody is connected any more   *)
(* (finish, close and closeServer of oauth-loopback.ts).                   *)
THEOREM FirstIsTold == EdgesSpec => []LoginIsToldTheFirst
<1>1. EdgesIInv => LoginIsToldTheFirst
  BY LoopbackKeepsItsWord DEF EdgesIInv
<1> QED
  BY <1>1, EdgesInvariance, PTL

(* No response of an operator or of the API is left open, whichever of the  *)
(* reply, the timers and close() came first (onLateValue, cancelReader and  *)
(* the catch of #request, in operator-fetch.ts and api-client.ts).          *)
THEOREM BodiesAreClosed == EdgesSpec => []NoBodyLeaks
<1>1. EdgesIInv => NoBodyLeaks
  BY DiscoveryKeepsItsWord DEF EdgesIInv, NoBodyLeaks, R!ReadsIInv
<1> QED
  BY <1>1, EdgesInvariance, PTL

(* Once the budget of a discovery is spent or the boundary closed, none of  *)
(* its requests waits for an operator, whatever it was doing.               *)
THEOREM BudgetIsKept == EdgesSpec => []NothingOutlivesTheBudget
<1>1. EdgesIInv => NothingOutlivesTheBudget
  BY DiscoveryKeepsItsWord DEF EdgesIInv, NothingOutlivesTheBudget
<1> QED
  BY <1>1, EdgesInvariance, PTL

(* Listings and verified connections are answered only in calls that have   *)
(* seen the pinned SDK, an operator and the network's own metadata, and no  *)
(* other network's, however often the API is redeployed meanwhile.          *)
THEOREM IdentityComesFirst == EdgesSpec => []ServicesFollowIdentity
<1>1. EdgesIInv => ServicesFollowIdentity
  BY DEF EdgesIInv, R!ReadsIInv, R!Knows, ServicesFollowIdentity, R!ServicesFollowIdentity
<1> QED
  BY <1>1, EdgesInvariance, PTL

=============================================================================
