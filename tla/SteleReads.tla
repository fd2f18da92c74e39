------------------------------- MODULE SteleReads -------------------------------
(***************************************************************************)
(* The tools of the stele server: src/src/stele/server.ts, the identity    *)
(* check of network-identity.ts and the API client of api-client.ts.       *)
(*                                                                         *)
(* A call verifies the SDK's version, a trusted operator and the metadata   *)
(* of the API, in that order, and a search then asks the API again.  Each   *)
(* request has a timer, which races with the response and with every chunk  *)
(* of its body; what runs behind the API's origin may be exchanged between  *)
(* any two requests.                                                       *)
(*                                                                         *)
(* External: the API and what it serves, the operators (OperatorFetch has   *)
(* that half), the rate at which anything answers.                         *)
(***************************************************************************)
EXTENDS Naturals

CONSTANTS
    Readers,            \* the tool calls under way at one time
    MaxChunks           \* maxResponseBytes, in chunks

VARIABLES
    pinned,             \* the SDK's version is the required one
    deployment,         \* what runs behind the API's origin
    read,               \* call -> what it is doing
    body,               \* call -> the state of the body it was last handed
    late,               \* call -> some fetch it gave up may still resolve
    told                \* call -> history: whose word it has since it began

readsVars == <<pinned, deployment, read, body, late, told>>

Deployments == {"ours", "other"}
SteleTools == {"connection_status", "search_services", "wallet_status"}

NoRead == [pc |-> "idle", tool |-> "none", path |-> "none", chunks |-> 0,
           serves |-> "none", answer |-> "none"]

Init ==
    /\ pinned \in BOOLEAN
    /\ deployment \in Deployments
    /\ read = [c \in Readers |-> NoRead]
    /\ body = [c \in Readers |-> "none"]
    /\ late = [c \in Readers |-> FALSE]
    /\ told = [c \in Readers |-> {}]

(* The answer the client gets.                                             *)
Answers(c, answer) ==
    read' = [read EXCEPT ![c] = [NoRead EXCEPT !.tool = read[c].tool,
                                               !.pc = "over", !.answer = answer]]

(* A failed check ends a search; the status tool reports it.               *)
IdentityFails(c) ==
    Answers(c, IF read[c].tool = "connection_status" THEN "mismatch" ELSE "error")

(* #request throws: catch cancels the body it has, finally the timer.      *)
RequestFails(c) ==
    IF read[c].path = "meta" THEN IdentityFails(c) ELSE Answers(c, "error")

Sends(c, path) ==
    read' = [read EXCEPT ![c].pc = "fetching", ![c].path = path, ![c].chunks = 0,
                         ![c].serves = "none"]

-----------------------------------------------------------------------------
(* The tool handlers.                                                      *)
Begin(c, tool) ==
    /\ read[c].pc = "idle"
    /\ read' = [read EXCEPT ![c] = [NoRead EXCEPT !.tool = tool, !.pc = "begun"]]
    /\ told' = [told EXCEPT ![c] = {}]
    /\ UNCHANGED <<pinned, deployment, body, late>>

(* A request that does not parse is refused; the wallet's status is read    *)
(* from its file, or cannot be.                                            *)
Refused(c) ==
    /\ read[c].pc = "begun"
    /\ Answers(c, "error")
    /\ UNCHANGED <<pinned, deployment, body, late, told>>

WalletStatus(c) ==
    /\ read[c].pc = "begun" /\ read[c].tool = "wallet_status"
    /\ Answers(c, "status")
    /\ UNCHANGED <<pinned, deployment, body, late, told>>

(* verify(): the version, then the operator, ...                           *)
Verify(c) ==
    /\ read[c].pc = "begun" /\ read[c].tool # "wallet_status"
    /\ IF pinned THEN read' = [read EXCEPT ![c].pc = "probing"] ELSE IdentityFails(c)
    /\ UNCHANGED <<pinned, deployment, body, late, told>>

OperatorVouches(c) ==
    /\ read[c].pc = "probing"
    /\ told' = [told EXCEPT ![c] = @ \cup {"operator"}]
    /\ Sends(c, "meta")
    /\ UNCHANGED <<pinned, deployment, body, late>>

OperatorFails(c) ==
    /\ read[c].pc = "probing"
    /\ IdentityFails(c)
    /\ UNCHANGED <<pinned, deployment, body, late, told>>

-----------------------------------------------------------------------------
(* #request: one fetch and its body, both raced with the timer's abort.     *)
ResponseArrives(c) ==
    /\ read[c].pc = "fetching"
    /\ \/ /\ read' = [read EXCEPT ![c].pc = "reading", ![c].serves = deployment]
          /\ body' = [body EXCEPT ![c] = "open"]
       \/ /\ RequestFails(c)                \* status, type or length refused
          /\ body' = [body EXCEPT ![c] = "cancelled"]
       \/ /\ RequestFails(c)                \* no response
          /\ UNCHANGED body
    /\ UNCHANGED <<pinned, deployment, late, told>>

(* The abort gives the fetch up, and cancels the reader of a body.         *)
TimerFires(c) ==
    /\ \/ /\ read[c].pc = "fetching"
          /\ late' = [late EXCEPT ![c] = TRUE]
          /\ UNCHANGED body
       \/ /\ read[c].pc = "reading"
          /\ body' = [body EXCEPT ![c] = "cancelled"]
          /\ UNCHANGED late
    /\ RequestFails(c)
    /\ UNCHANGED <<pinned, deployment, told>>

(* startWithAbort's onLateValue: what resolves after the abort is           *)
(* cancelled; the fetch may as well reject.                                *)
LateResponse(c) ==
    /\ late[c]
    /\ \E more \in BOOLEAN : late' = [late EXCEPT ![c] = more]
    /\ body' = [body EXCEPT ![c] = IF read[c].pc = "reading" THEN @ ELSE "cancelled"]
    /\ UNCHANGED <<pinned, deployment, read, told>>

(* readBoundedBody: one more chunk, one too many, ...                      *)
ChunkArrives(c) ==
    /\ read[c].pc = "reading"
    /\ IF read[c].chunks < MaxChunks
       THEN read' = [read EXCEPT ![c].chunks = @ + 1] /\ UNCHANGED body
       ELSE RequestFails(c) /\ body' = [body EXCEPT ![c] = "cancelled"]
    /\ UNCHANGED <<pinned, deployment, late, told>>

(* ... an error of the stream, no byte at all, or no JSON of the schema;    *)
(* a body that has ended cannot leak.                                      *)
BodyIsUseless(c) ==
    /\ read[c].pc = "reading"
    /\ RequestFails(c)
    /\ body' = [body EXCEPT ![c] = "ended"]
    /\ UNCHANGED <<pinned, deployment, late, told>>

(* verify() compares the metadata with the SDK's network; the mutant takes  *)
(* the operator's word for it and goes on to the search.                   *)
MetaAcceptedUnread(c) ==
    IF read[c].tool = "search_services" THEN Sends(c, "services")
    ELSE Answers(c, "verified")

MetaAccepted(c) ==
    IF read[c].serves # "ours" THEN IdentityFails(c)
    ELSE IF read[c].tool = "search_services" THEN Sends(c, "services")
    ELSE Answers(c, "verified")

MetaArrives(c) ==
    /\ read[c].pc = "reading" /\ read[c].path = "meta" /\ read[c].chunks > 0
    /\ body' = [body EXCEPT ![c] = "ended"]
    /\ told' = [told EXCEPT ![c] = @ \cup {read[c].serves}]
    /\ MetaAccepted(c)
    /\ UNCHANGED <<pinned, deployment, late>>

ServicesArrive(c) ==
    /\ read[c].pc = "reading" /\ read[c].path = "services" /\ read[c].chunks > 0
    /\ body' = [body EXCEPT ![c] = "ended"]
    /\ Answers(c, "services")
    /\ UNCHANGED <<pinned, deployment, late, told>>

-----------------------------------------------------------------------------
(* The client takes the answer; a deployment takes another's place.        *)
Taken(c) ==
    /\ read[c].pc = "over"
    /\ read' = [read EXCEPT ![c] = NoRead]
    /\ UNCHANGED <<pinned, deployment, body, late, told>>

Redeployed ==
    /\ deployment' \in Deployments \ {deployment}
    /\ UNCHANGED <<pinned, read, body, late, told>>

Reader(c) ==
    \/ Refused(c) \/ WalletStatus(c) \/ Verify(c)
    \/ OperatorVouches(c) \/ OperatorFails(c)
    \/ ResponseArrives(c) \/ TimerFires(c) \/ LateResponse(c)
    \/ ChunkArrives(c) \/ BodyIsUseless(c) \/ MetaArrives(c) \/ ServicesArrive(c)

Next ==
    \/ \E c \in Readers :
          \/ \E tool \in SteleTools : Begin(c, tool)
          \/ Reader(c) \/ Taken(c)
    \/ Redeployed

(* Node runs what is due: a handler that can go on does, the discovery      *)
(* returns (OperatorFetch!DiscoveryReturns) and a timer fires in the end.   *)
(* Nothing is assumed of the API.                                          *)
ReadsFairness ==
    \A c \in Readers :
        WF_readsVars(\/ Refused(c) \/ WalletStatus(c) \/ Verify(c)
                     \/ OperatorVouches(c) \/ OperatorFails(c)
                     \/ TimerFires(c))

Spec == Init /\ [][Next]_readsVars
FairSpec == Spec /\ ReadsFairness

-----------------------------------------------------------------------------
ReadsTypeOK ==
    /\ deployment \in Deployments
    /\ \A c \in Readers :
          /\ read[c].pc \in {"idle", "begun", "probing", "fetching", "reading", "over"}
          /\ read[c].answer \in {"none", "error", "mismatch", "verified", "services", "status"}
          /\ read[c].chunks \in 0..MaxChunks
          /\ body[c] \in {"none", "open", "cancelled", "ended"}
          /\ told[c] \subseteq {"operator", "ours", "other"}

(* Listings, and a verified connection, are answered only in a call in      *)
(* which, since it began, an operator vouched for the network and the API   *)
(* has shown the network's identity, and nothing else; whatever an earlier *)
(* call found, whatever timed out or was redeployed meanwhile.             *)
ServicesFollowIdentity ==
    \A c \in Readers : read[c].answer \in {"services", "verified"} =>
        pinned /\ told[c] = {"operator", "ours"}

(* A body is open only while its call reads it: no refusal, timeout, or     *)
(* response that comes after its timeout leaves one open.                   *)
NoStreamLeaks ==
    \A c \in Readers : body[c] = "open" => read[c].pc = "reading"

(* Every call is answered, also when the API never is heard of again.      *)
CallsReturn ==
    \A c \in Readers : (read[c].pc = "begun") ~> (read[c].pc = "over")

-----------------------------------------------------------------------------
(* Why ServicesFollowIdentity holds: the inductive invariant of the calls.  *)
Reads == [pc : {"idle", "begun", "probing", "fetching", "reading", "over"},
          tool : SteleTools \cup {"none"},
          path : {"none", "meta", "services"},
          chunks : 0..MaxChunks,
          serves : Deployments \cup {"none"},
          answer : {"none", "error", "mismatch", "verified", "services", "status"}]

Typed ==
    /\ pinned \in BOOLEAN
    /\ deployment \in Deployments
    /\ read \in [Readers -> Reads]
    /\ body \in [Readers -> {"none", "open", "cancelled", "ended"}]
    /\ late \in [Readers -> BOOLEAN]
    /\ told \in [Readers -> SUBSET {"operator", "ours", "other"}]

(* What a call knows at each point: nobody has spoken yet, an operator has, *)
(* or an operator and the network's API and nobody else.                   *)
Knows(c) ==
    /\ read[c].pc \in {"begun", "probing"} => told[c] = {} /\ read[c].answer = "none"
    /\ read[c].pc = "probing" => pinned
    /\ read[c].pc \in {"fetching", "reading"} =>
          /\ pinned
          /\ read[c].answer = "none"
          /\ \/ read[c].path = "meta" /\ told[c] = {"operator"}
             \/ read[c].path = "services" /\ told[c] = {"operator", "ours"}
    /\ read[c].pc = "reading" => read[c].serves \in Deployments
    /\ read[c].answer \in {"services", "verified"} =>
          pinned /\ told[c] = {"operator", "ours"}

ReadsIInv ==
    /\ Typed
    /\ \A c \in Readers : Knows(c)
    /\ NoStreamLeaks
=============================================================================
