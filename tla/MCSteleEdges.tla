----------------------------- MODULE MCSteleEdges -----------------------------
(* The places where the stele server meets the network: the loopback        *)
(* listener of a login, the discovery of a trusted operator, and the tools  *)
(* with the API client.  They share no state; a behaviour is one of one of  *)
(* them, the others are over from the start.                                *)
EXTENDS OAuthLoopback, Naturals

CONSTANTS n1, n2, e1, e2, Endpoints, Methods, MaxBytes, MaxReply,
          r1, Readers, MaxChunks

ASSUME BoundsAssumption == MaxChunks \in Nat /\ MaxReply \in Nat

VARIABLES edge, probe, closed, budget, phase, aborted, upstream, total,
          pinned, deployment, read, body, late, told

fetchVars == <<probe, closed, budget, phase, aborted, upstream, total>>

readsVars == <<pinned, deployment, read, body, late, told>>
edgesVars == <<edge, vars, fetchVars, readsVars>>

F == INSTANCE OperatorFetch
R == INSTANCE SteleReads

(* The redirects a browser may bring: with the code, with each kind of      *)
(* error, and one for every reason to refuse.                              *)
Good == [plain |-> TRUE, unique |-> TRUE, state |-> "ours", params |-> {"code"},
         value |-> "token", description |-> "short"]
Denied == [Good EXCEPT !.params = {"error", "error_description"},
                       !.value = "access_denied"]
MCRequests ==
    {Good, Denied}
    \cup {[Denied EXCEPT !.value = v] : v \in {"invalid_client", "name", "illegal"}}
    \cup {[Good EXCEPT !.plain = FALSE], [Good EXCEPT !.unique = FALSE],
          [Good EXCEPT !.state = "theirs"], [Good EXCEPT !.state = "absent"],
          [Good EXCEPT !.value = "illegal"],
          [Good EXCEPT !.params = {"code", "error"}],
          [Good EXCEPT !.params = {"other"}],
          [Denied EXCEPT !.description = "long"]}

(* The one that does not run is over from the start.                        *)
LoopbackOver ==
    /\ attempt = "done"
    /\ server = "off" /\ timer = "off" /\ conn = [c \in Conns |-> "none"]
    /\ bound = FALSE /\ consumed = FALSE /\ settled = FALSE
    /\ deciding = "nothing" /\ promise = "pending" /\ first = "nothing"

DiscoveryOver ==
    /\ probe = "failed" /\ closed = TRUE /\ budget = "cleared"
    /\ phase = [r \in F!Fetches |-> "refused"]
    /\ aborted = [r \in F!Fetches |-> FALSE]
    /\ upstream = [r \in F!Fetches |-> "none"]
    /\ total = [r \in F!Fetches |-> 0]

ReadsOver ==
    /\ pinned = TRUE /\ deployment = "ours" /\ read = [c \in Readers |-> R!NoRead]
    /\ body = [c \in Readers |-> "none"] /\ late = [c \in Readers |-> FALSE]
    /\ told = [c \in Readers |-> {}]

EdgesInit ==
    \/ edge = "loopback" /\ Init /\ DiscoveryOver /\ ReadsOver
    \/ edge = "discovery" /\ LoopbackOver /\ F!Init /\ ReadsOver
    \/ edge = "reads" /\ LoopbackOver /\ DiscoveryOver /\ R!Init

EdgesNext ==
    /\ UNCHANGED edge
    /\ \/ Next /\ UNCHANGED <<fetchVars, readsVars>>
       \/ F!Next /\ UNCHANGED <<vars, readsVars>>
       \/ edge = "reads" /\ R!Next /\ UNCHANGED <<vars, fetchVars>>

EdgesSpec ==
    /\ EdgesInit /\ [][EdgesNext]_edgesVars
    /\ LoopbackFairness /\ F!DiscoveryFairness /\ R!ReadsFairness

(* The loopback alone, with peers that need not give up a request nobody    *)
(* answers.                                                                 *)
TimeoutSpec ==
    /\ edge = "loopback" /\ Init /\ DiscoveryOver /\ ReadsOver
    /\ [][Next /\ UNCHANGED <<edge, fetchVars, readsVars>>]_edgesVars
    /\ NodeFairness

EdgesTypeOK == TypeOK /\ F!TypeOK /\ R!ReadsTypeOK

(* The inductive invariants of the three together.                          *)
EdgesIInv == IInv /\ F!IInv /\ R!ReadsIInv

(* What a login is told is what came first, and only after the server has   *)
(* closed.                                                                  *)
LoginIsToldTheFirst == FirstEventDecides /\ OutcomeAfterClosing

(* No body of an operator's or the API's response is left open.             *)
NoBodyLeaks == F!NoBodyLeaks /\ R!NoStreamLeaks
NothingOutlivesTheBudget == F!NothingOutlivesTheBudget
ServicesFollowIdentity == R!ServicesFollowIdentity

(* The discovery returns, and so does every tool call.                      *)
ReadsReturn == F!DiscoveryReturns /\ R!CallsReturn
=============================================================================
