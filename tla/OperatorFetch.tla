--------------------------- MODULE OperatorFetch ---------------------------
(***************************************************************************)
(* SteleOperatorFetchBoundary (src/src/stele/operator-fetch.ts): the       *)
(* single-use fetch that probeTrustedOperator (network-identity.ts) lends  *)
(* to the SDK's operator selector, and closes when the selector returns.   *)
(*                                                                         *)
(* Each request is raced against the budget of the whole discovery, its    *)
(* own timer and its caller's signal.  The race is lost or won inside      *)
(* startWithAbort; between the moment a promise is resolved there and the  *)
(* moment #request goes on, other callbacks run ("answered" and "chunk"),  *)
(* and a fetch or a read that lost may still produce its value.            *)
(*                                                                         *)
(* External: the selector, which issues the identity reads in any order    *)
(* and keeps the first endpoint that answered all of them; and the         *)
(* operators, which may answer anything, late or never, and ignore abort.  *)
(***************************************************************************)
EXTENDS Naturals, FiniteSets

CONSTANTS
    Endpoints,  \* the allowlisted operators
    Methods,    \* the two identity reads: eth_chainId and lyth_chainStats
    MaxBytes,   \* maxResponseBytes, in chunks of a reply
    MaxReply    \* the longest body an operator sends (a bound of the model)

Fetches == Endpoints \X Methods

VARIABLES
    probe,      \* "selecting", or the result: an endpoint or "failed"
    closed,     \* #closed
    budget,     \* #overallTimer: "running", "cleared" or "fired"
    phase,      \* of #request: "none", "fetching", "answered", "reading",
                \*   "chunk" and "last" (a read resolved), "replied", "refused"
    aborted,    \* the request's combined signal
    upstream,   \* "none", "flying" (fetch pending), "open" (a body to be read
                \*   or cancelled), "cancelled", "drained"
    total       \* the chunks read so far

vars == <<probe, closed, budget, phase, aborted, upstream, total>>

-----------------------------------------------------------------------------
Init ==
    /\ probe = "selecting"
    /\ closed = FALSE
    /\ budget = "running"
    /\ phase = [r \in Fetches |-> "none"]
    /\ aborted = [r \in Fetches |-> FALSE]
    /\ upstream = [r \in Fetches |-> "none"]
    /\ total = [r \in Fetches |-> 0]

(* #overallController.signal.aborted.                                      *)
BudgetSpent == budget = "fired" \/ closed

InFlight(r) == phase[r] \in {"fetching", "answered", "reading", "chunk", "last"}

(* cancelResponseBody and cancelReader: best effort, never awaited.        *)
Cancelled(state) == IF state = "open" THEN "cancelled" ELSE state

(* The catch and the finally of #request: what was read is dropped, and    *)
(* the signal is no longer listened to (combined.dispose).                 *)
Refuse(r) ==
    /\ phase' = [phase EXCEPT ![r] = "refused"]
    /\ upstream' = [upstream EXCEPT ![r] = Cancelled(@)]
    /\ aborted' = [aborted EXCEPT ![r] = FALSE]
    /\ total' = [total EXCEPT ![r] = 0]

(* Mutant of RequestRefused: once the budget is spent, a call waits for an *)
(* abort event that has already been.                                      *)
RequestRefusedUnspent(r) ==
    /\ phase[r] = "none"
    /\ ~BudgetSpent
    /\ phase' = [phase EXCEPT ![r] = "refused"]
    /\ UNCHANGED <<probe, closed, budget, aborted, upstream, total>>

(* #request up to the fetch: refused when the boundary is closed, when the *)
(* call is not one of the identity reads, or when a budget is spent.  The  *)
(* caller's signal may be aborted before.                                  *)
RequestRefused(r) ==
    /\ phase[r] = "none"
    /\ phase' = [phase EXCEPT ![r] = "refused"]
    /\ UNCHANGED <<probe, closed, budget, aborted, upstream, total>>

RequestStarts(r) ==
    /\ phase[r] = "none"
    /\ ~BudgetSpent
    /\ phase' = [phase EXCEPT ![r] = "fetching"]
    /\ upstream' = [upstream EXCEPT ![r] = "flying"]
    /\ UNCHANGED <<probe, closed, budget, aborted, total>>

(* The combined signals of the given requests are aborted: startWithAbort  *)
(* rejects what is pending, a reader is cancelled, and #request fails.  A  *)
(* promise that was resolved before is not undone.                         *)
AbortAll(rs) ==
    LET hit == {r \in rs : InFlight(r)}
        lost == {r \in hit : phase[r] \in {"fetching", "reading"}}
    IN  /\ aborted' = [r \in Fetches |-> aborted[r] \/ r \in hit \ lost]
        /\ phase' = [r \in Fetches |->
                       IF r \in lost THEN "refused" ELSE phase[r]]
        /\ total' = [r \in Fetches |-> IF r \in lost THEN 0 ELSE total[r]]
        /\ upstream' = [r \in Fetches |->
                          IF r \in lost THEN Cancelled(upstream[r])
                          ELSE upstream[r]]

(* The request's own timer, or the caller's signal.                        *)
RequestAborts(r) ==
    /\ InFlight(r)
    /\ ~aborted[r]
    /\ AbortAll({r})
    /\ UNCHANGED <<probe, closed, budget>>

BudgetFires ==
    /\ budget = "running"
    /\ budget' = "fired"
    /\ AbortAll(Fetches)
    /\ UNCHANGED <<probe, closed>>

(* startWithAbort(fetch): the upstream answers in time.                    *)
ResponseArrives(r) ==
    /\ phase[r] = "fetching"
    /\ phase' = [phase EXCEPT ![r] = "answered"]
    /\ upstream' = [upstream EXCEPT ![r] = "open"]
    /\ UNCHANGED <<probe, closed, budget, aborted, total>>

FetchFails(r) ==
    /\ phase[r] = "fetching"
    /\ phase' = [phase EXCEPT ![r] = "refused"]
    /\ upstream' = [upstream EXCEPT ![r] = "none"]
    /\ UNCHANGED <<probe, closed, budget, aborted, total>>

(* Mutant of ResponseArrivesLate: a late reply is dropped, not cancelled.  *)
ResponseArrivesUnread(r) ==
    /\ phase[r] = "refused"
    /\ upstream[r] = "flying"
    /\ upstream' = [upstream EXCEPT ![r] = "open"]
    /\ UNCHANGED <<probe, closed, budget, phase, aborted, total>>

(* onLateValue: a reply that comes after the abort is cancelled unread.    *)
ResponseArrivesLate(r) ==
    /\ phase[r] = "refused"
    /\ upstream[r] = "flying"
    /\ upstream' = [upstream EXCEPT ![r] = "cancelled"]
    /\ UNCHANGED <<probe, closed, budget, phase, aborted, total>>

(* #request goes on: status, content type, encoding and declared length.   *)
ResponseRefused(r) ==
    /\ phase[r] = "answered"
    /\ Refuse(r)
    /\ UNCHANGED <<probe, closed, budget>>

(* Mutant of ReadStarts: the signal is only listened to, not looked at.    *)
ReadStartsBlind(r) ==
    /\ phase[r] = "answered"
    /\ phase' = [phase EXCEPT ![r] = "reading"]
    /\ UNCHANGED <<probe, closed, budget, aborted, upstream, total>>

(* ... and readBoundedBody's first read, unless the signal is aborted.     *)
ReadStarts(r) ==
    /\ phase[r] = "answered"
    /\ IF aborted[r]
       THEN Refuse(r)
       ELSE /\ phase' = [phase EXCEPT ![r] = "reading"]
            /\ UNCHANGED <<aborted, upstream, total>>
    /\ UNCHANGED <<probe, closed, budget>>

(* reader.read() resolves with a chunk, with the end, or rejects.          *)
ChunkArrives(r) ==
    /\ phase[r] = "reading"
    /\ total[r] < MaxReply
    /\ phase' = [phase EXCEPT ![r] = "chunk"]
    /\ total' = [total EXCEPT ![r] = @ + 1]
    /\ UNCHANGED <<probe, closed, budget, aborted, upstream>>

BodyEnds(r) ==
    /\ phase[r] = "reading"
    /\ phase' = [phase EXCEPT ![r] = "last"]
    /\ upstream' = [upstream EXCEPT ![r] = "drained"]
    /\ UNCHANGED <<probe, closed, budget, aborted, total>>

ReadFails(r) ==
    /\ phase[r] = "reading"
    /\ Refuse(r)
    /\ UNCHANGED <<probe, closed, budget>>

(* The loop of readBoundedBody: over the limit, aborted meanwhile, or the  *)
(* next read.                                                              *)
ChunkTaken(r) ==
    /\ phase[r] = "chunk"
    /\ IF total[r] > MaxBytes \/ aborted[r]
       THEN Refuse(r)
       ELSE /\ phase' = [phase EXCEPT ![r] = "reading"]
            /\ UNCHANGED <<aborted, upstream, total>>
    /\ UNCHANGED <<probe, closed, budget>>

(* Empty or not JSON: refused.  Otherwise the reply is handed over.        *)
BodyTaken(r) ==
    /\ phase[r] = "last"
    /\ \/ Refuse(r)
       \/ /\ total[r] > 0
          /\ phase' = [phase EXCEPT ![r] = "replied"]
          /\ UNCHANGED <<aborted, upstream, total>>
    /\ UNCHANGED <<probe, closed, budget>>

-----------------------------------------------------------------------------
(* The selector returns the first endpoint with every read answered, or    *)
(* fails when none is left; probeTrustedOperator then closes the boundary. *)
Verified(e) == \A m \in Methods : phase[<<e, m>>] = "replied"
Failed(e) == \E m \in Methods : phase[<<e, m>>] = "refused"

SelectorReturns(result) ==
    /\ probe = "selecting"
    /\ probe' = result
    /\ closed' = TRUE
    /\ budget' = IF budget = "running" THEN "cleared" ELSE budget
    /\ AbortAll(Fetches)

Select(e) == Verified(e) /\ SelectorReturns(e)
GiveUp == (\A e \in Endpoints : Failed(e)) /\ SelectorReturns("failed")

Resume(r) == ResponseRefused(r) \/ ReadStarts(r) \/ ChunkTaken(r) \/ BodyTaken(r)

Operator(r) ==
    \/ ResponseArrives(r) \/ FetchFails(r) \/ ResponseArrivesLate(r)
    \/ ChunkArrives(r) \/ BodyEnds(r) \/ ReadFails(r)

Over == probe # "selecting" /\ UNCHANGED vars

Next ==
    \/ \E r \in Fetches :
          RequestRefused(r) \/ RequestStarts(r) \/ RequestAborts(r)
          \/ Resume(r) \/ Operator(r)
    \/ BudgetFires
    \/ \E e \in Endpoints : Select(e)
    \/ GiveUp
    \/ Over

Spec == Init /\ [][Next]_vars

(* The timers fire, the event loop resumes what is resolved, and the       *)
(* selector issues its reads and returns when it can.  Nothing is assumed  *)
(* of the operators.                                                       *)
DiscoveryFairness ==
    WF_vars(\/ BudgetFires \/ GiveUp \/ \E e \in Endpoints : Select(e)
            \/ \E r \in Fetches : RequestRefused(r) \/ RequestStarts(r) \/ Resume(r))

FairSpec == Spec /\ DiscoveryFairness

-----------------------------------------------------------------------------
TypeOK ==
    /\ probe \in Endpoints \cup {"selecting", "failed"}
    /\ closed \in BOOLEAN
    /\ budget \in {"running", "cleared", "fired"}
    /\ phase \in [Fetches -> {"none", "fetching", "answered", "reading",
                               "chunk", "last", "replied", "refused"}]
    /\ aborted \in [Fetches -> BOOLEAN]
    /\ upstream \in [Fetches -> {"none", "flying", "open", "cancelled", "drained"}]
    /\ total \in [Fetches -> Nat]

(* No reply is left open behind the boundary's back: once a request is     *)
(* over, its body has been read to the end or cancelled, whichever of the  *)
(* timers, the reply and close() came first (onLateValue, cancelReader and *)
(* the catch of #request).                                                 *)
NoBodyLeaks ==
    \A r \in Fetches : phase[r] \in {"replied", "refused"} => upstream[r] # "open"

(* Once the budget is spent, the boundary closed or the request aborted,   *)
(* nothing waits for the operator any more: not a fetch or read that was   *)
(* pending, and not one that would have been next when the abort came      *)
(* between a promise and its continuation.                                 *)
NothingOutlivesTheBudget ==
    \A r \in Fetches :
        BudgetSpent \/ aborted[r] => phase[r] \notin {"fetching", "reading"}

(* Whatever the operators do, or fail to do, the discovery returns.        *)
DiscoveryReturns == <>(probe # "selecting")

-----------------------------------------------------------------------------
(* Why NoBodyLeaks and NothingOutlivesTheBudget hold: the inductive         *)
(* invariant of the boundary.                                              *)

(* A body is open only while it is waiting to be read.                     *)
BodiesAreOwned ==
    \A r \in Fetches :
        upstream[r] = "open" => phase[r] \in {"answered", "reading", "chunk"}

(* The abort of a request that nothing is pending for is seen when the      *)
(* request goes on, and there is such a request whenever the budget is      *)
(* spent while one is in flight.                                           *)
Resumed == {"answered", "chunk", "last"}

AbortsAreSeen ==
    \A r \in Fetches :
        /\ aborted[r] => phase[r] \in Resumed \cup {"replied"}
        /\ BudgetSpent =>
              /\ phase[r] \notin {"fetching", "reading"}
              /\ phase[r] \in Resumed => aborted[r]

IInv == TypeOK /\ BodiesAreOwned /\ AbortsAreSeen
=============================================================================
