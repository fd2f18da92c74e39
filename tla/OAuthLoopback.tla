--------------------------- MODULE OAuthLoopback ---------------------------
(***************************************************************************)
(* The one-shot HTTP server that receives the redirect of an interactive   *)
(* login (src/src/stele/oauth-loopback.ts), together with the part of      *)
(* SteleOAuthAdmin.#interactiveAttempt that owns it: start the server,     *)
(* register, bind the state with waitForCallback, open the browser, await  *)
(* the callback, close.                                                    *)
(*                                                                         *)
(* Four things can end the wait: a request, a connection the parser gives  *)
(* up on, the timer, and the owner's close().  All run in one JavaScript   *)
(* thread, and each is a step here; what interleaves is the order in which *)
(* they come, and the time between deciding an outcome and delivering it,  *)
(* during which the server waits for its open connections.                 *)
(*                                                                         *)
(* Node's HTTP server is external: it accepts connections while it         *)
(* listens, keeps serving those that are open after close(), reports a     *)
(* malformed, broken or overdue request as clientError, and reports itself *)
(* closed once no connection is left.                                      *)
(***************************************************************************)
EXTENDS FiniteSets

CONSTANTS
    Conns,      \* the connections that peers of this host may open
    Requests    \* the requests they may send, members of RequestType

(* What parseCallback tells apart in a request.  "plain" stands for the    *)
(* method, the peer, the target's form, the absent headers, the host and   *)
(* the path; "unique" says that no parameter is repeated; "value" is the   *)
(* value of "code" or of "error".                                          *)
RequestType ==
    [plain: BOOLEAN, unique: BOOLEAN,
     state: {"ours", "theirs", "absent"},
     params: SUBSET {"code", "error", "error_description", "other"},
     value: {"token", "access_denied", "invalid_client", "name", "illegal"},
     description: {"short", "long"}]

ASSUME RequestsAssumption == Requests \subseteq RequestType

(* SteleOAuthCallback and the codes of SteleOAuthLoopbackError.            *)
Callbacks == {"code", "access_denied", "invalid_client", "authorization_failed"}
Errors == {"invalid_callback", "timeout", "unavailable"}

VARIABLES
    attempt,    \* where #interactiveAttempt is
    server,     \* "off", "listening", "closing" or "closed"
    conn,       \* per connection: "none", "open" (no complete request yet),
                \*   "asked" (a request nobody answered), "answered", "ended"
    bound,      \* expectedState has been set by waitForCallback
    consumed, settled,
    timer,      \* "off", "running", "cleared" or "fired"
    deciding,   \* what finish or close will settle the promise with
    promise,    \* callbackPromise: "pending", a callback or an error
    first       \* history: the outcome that the first event deserves

vars == <<attempt, server, conn, bound, consumed, settled, timer, deciding,
          promise, first>>

-----------------------------------------------------------------------------
(* Mutant of ErrorNamed: the server's own error name is passed on.         *)
ErrorAsSent(value) == IF value = "illegal" THEN "invalid_callback" ELSE value

(* parseCallback.                                                          *)
ErrorNamed(value) ==
    CASE value = "access_denied" -> "access_denied"
      [] value = "invalid_client" -> "invalid_client"
      [] value = "illegal" -> "invalid_callback"
      [] OTHER -> "authorization_failed"

ParseCallback(r) ==
    IF ~r.plain \/ ~r.unique \/ r.state # "ours" THEN "invalid_callback"
    ELSE IF "code" \in r.params
         THEN IF r.params = {"code"} /\ r.value = "token"
              THEN "code" ELSE "invalid_callback"
    ELSE IF /\ "error" \in r.params
            /\ r.params \subseteq {"error", "error_description"}
            /\ "error_description" \in r.params => r.description = "short"
         THEN ErrorNamed(r.value)
    ELSE "invalid_callback"

-----------------------------------------------------------------------------
Init ==
    /\ attempt = "starting"
    /\ server = "off"
    /\ conn = [c \in Conns |-> "none"]
    /\ bound = FALSE
    /\ consumed = FALSE
    /\ settled = FALSE
    /\ timer = "off"
    /\ deciding = "nothing"
    /\ promise = "pending"
    /\ first = "nothing"

(* Mutant of Start: nobody limits the wait.                                *)
StartUntimed ==
    /\ attempt = "starting"
    /\ \/ attempt' = "registering" /\ server' = "listening"
       \/ attempt' = "done" /\ UNCHANGED server
    /\ UNCHANGED <<conn, bound, consumed, settled, timer, deciding, promise, first>>

(* startSteleOAuthLoopback: listenOnLiteralLoopback, then the timer.       *)
Start ==
    /\ attempt = "starting"
    /\ \/ /\ attempt' = "registering"
          /\ server' = "listening"
          /\ timer' = "running"
       \/ /\ attempt' = "done"
          /\ UNCHANGED <<server, timer>>
    /\ UNCHANGED <<conn, bound, consumed, settled, deciding, promise, first>>

(* closeServer: it returns at once unless the server is listening.         *)
CloseServer == server' = IF server = "listening" THEN "closing" ELSE server

(* Mutant of Finish: a later event overrules the first.                    *)
FinishAgain(result) ==
    /\ settled' = TRUE
    /\ deciding' = result
    /\ timer' = IF result = "timeout" THEN "fired" ELSE "cleared"
    /\ CloseServer

(* finish: the first one decides, and stops the timer unless it is the     *)
(* timer; the promise is settled when the server has closed (Settle).      *)
Finish(result) ==
    IF settled
    THEN UNCHANGED <<settled, deciding, server, timer>>
    ELSE /\ settled' = TRUE
         /\ deciding' = result
         /\ timer' = IF result = "timeout" THEN "fired" ELSE "cleared"
         /\ CloseServer

(* History: the first event that reaches the loopback fixes what the       *)
(* attempt must be told.                                                   *)
Note(result) == first' = IF first = "nothing" THEN result ELSE first

Connect(c) ==
    /\ server = "listening"
    /\ conn[c] = "none"
    /\ conn' = [conn EXCEPT ![c] = "open"]
    /\ UNCHANGED <<attempt, server, bound, consumed, settled, timer, deciding,
                   promise, first>>

(* server.on("request"): a second request is destroyed.  The first one is  *)
(* parsed and handed to finish, which answers it unless the outcome has    *)
(* been decided before.                                                    *)
RequestDestroyed(c) ==
    /\ conn[c] = "open"
    /\ consumed
    /\ conn' = [conn EXCEPT ![c] = "ended"]
    /\ UNCHANGED <<attempt, server, bound, consumed, settled, timer, deciding,
                   promise, first>>

RequestConsumed(c, r) ==
    LET result == IF bound THEN ParseCallback(r) ELSE "invalid_callback"
    IN  /\ conn[c] = "open"
        /\ ~consumed
        /\ consumed' = TRUE
        /\ conn' = [conn EXCEPT ![c] = IF settled THEN "asked" ELSE "answered"]
        /\ Finish(result)
        /\ Note(result)
        /\ UNCHANGED <<attempt, bound, promise>>

(* server.on("clientError"): a malformed request, a reset, or headersTimeout*)
(* and requestTimeout running out on a connection that is still open.      *)
ClientError(c) ==
    /\ conn[c] = "open"
    /\ conn' = [conn EXCEPT ![c] = "ended"]
    /\ consumed' = TRUE
    /\ IF consumed
       THEN UNCHANGED <<settled, deciding, server, timer, first>>
       ELSE Finish("invalid_callback") /\ Note("invalid_callback")
    /\ UNCHANGED <<attempt, bound, promise>>

(* The answer carries "connection: close".                                 *)
AnswerFlushed(c) ==
    /\ conn[c] = "answered"
    /\ conn' = [conn EXCEPT ![c] = "ended"]
    /\ UNCHANGED <<attempt, server, bound, consumed, settled, timer, deciding,
                   promise, first>>

(* The peer closes the connection in good order.                           *)
HangUp(c) ==
    /\ conn[c] \in {"open", "asked", "answered"}
    /\ conn' = [conn EXCEPT ![c] = "ended"]
    /\ UNCHANGED <<attempt, server, bound, consumed, settled, timer, deciding,
                   promise, first>>

TimerFires ==
    /\ timer = "running"
    /\ Finish("timeout")
    /\ Note("timeout")
    /\ UNCHANGED <<attempt, conn, bound, consumed, promise>>

NoConnections == \A c \in Conns : conn[c] \in {"none", "ended"}

ServerCloses ==
    /\ server = "closing"
    /\ NoConnections
    /\ server' = "closed"
    /\ UNCHANGED <<attempt, conn, bound, consumed, settled, timer, deciding,
                   promise, first>>

(* What follows "await closeServer(server)" in finish and in close.        *)
Settle ==
    /\ server = "closed"
    /\ deciding # "nothing"
    /\ promise' = deciding
    /\ deciding' = "nothing"
    /\ UNCHANGED <<attempt, server, conn, bound, consumed, settled, timer, first>>

(* waitForCallback, after registration; a second call is rejected.         *)
WaitForCallback ==
    /\ attempt = "registering"
    /\ ~bound
    /\ bound' = TRUE
    /\ attempt' = "waiting"
    /\ UNCHANGED <<server, conn, consumed, settled, timer, deciding, promise, first>>

(* Registration or the browser fails; or the callback has been awaited and *)
(* whatever follows it is over: finally close().                           *)
AttemptFails ==
    /\ attempt \in {"registering", "waiting"}
    /\ attempt' = "closing"
    /\ UNCHANGED <<server, conn, bound, consumed, settled, timer, deciding,
                   promise, first>>

CallbackAwaited ==
    /\ attempt = "waiting"
    /\ promise # "pending"
    /\ attempt' = "closing"
    /\ UNCHANGED <<server, conn, bound, consumed, settled, timer, deciding,
                   promise, first>>

(* close: it settles the promise itself unless the outcome was decided,    *)
(* and then waits for the server; otherwise closeServer returns at once.   *)
CloseUnsettled ==
    /\ attempt = "closing"
    /\ ~settled
    /\ settled' = TRUE
    /\ timer' = "cleared"
    /\ CloseServer
    /\ deciding' = "unavailable"
    /\ Note("unavailable")
    /\ attempt' = "closed"
    /\ UNCHANGED <<conn, bound, consumed, promise>>

CloseSettled ==
    /\ attempt = "closing"
    /\ settled
    /\ CloseServer
    /\ attempt' = "done"
    /\ UNCHANGED <<conn, bound, consumed, settled, timer, deciding, promise, first>>

(* close returns: the attempt is over and its caller may free the mutex.   *)
AttemptEnds ==
    /\ attempt = "closed"
    /\ promise # "pending"
    /\ attempt' = "done"
    /\ UNCHANGED <<server, conn, bound, consumed, settled, timer, deciding,
                   promise, first>>

Peer(c) ==
    \/ RequestDestroyed(c)
    \/ \E r \in Requests : RequestConsumed(c, r)
    \/ ClientError(c)

Owner == Start \/ WaitForCallback \/ CallbackAwaited \/ CloseUnsettled
         \/ CloseSettled \/ AttemptEnds

Finished == attempt = "done" /\ UNCHANGED vars

Next ==
    \/ Owner \/ AttemptFails
    \/ \E c \in Conns : Connect(c) \/ Peer(c) \/ AnswerFlushed(c) \/ HangUp(c)
    \/ TimerFires \/ ServerCloses \/ Settle
    \/ Finished

Spec == Init /\ [][Next]_vars

(* The event loop runs what is due, the timer fires, an answer is sent,    *)
(* and a peer that connects sends its request or breaks off.  Node enforces *)
(* the latter (headersTimeout, requestTimeout) until the server closes.    *)
NodeFairness ==
    /\ WF_vars(Owner \/ TimerFires \/ ServerCloses \/ Settle)
    /\ \A c \in Conns : WF_vars(Peer(c)) /\ WF_vars(AnswerFlushed(c))

(* In addition the peer of a request that nobody answers gives up.         *)
LoopbackFairness ==
    NodeFairness /\ \A c \in Conns : WF_vars(conn[c] = "asked" /\ HangUp(c))

FairSpec == Spec /\ LoopbackFairness

-----------------------------------------------------------------------------
TypeOK ==
    /\ attempt \in {"starting", "registering", "waiting", "closing", "closed", "done"}
    /\ server \in {"off", "listening", "closing", "closed"}
    /\ conn \in [Conns -> {"none", "open", "asked", "answered", "ended"}]
    /\ bound \in BOOLEAN
    /\ consumed \in BOOLEAN
    /\ settled \in BOOLEAN
    /\ timer \in {"off", "running", "cleared", "fired"}
    /\ deciding \in Callbacks \cup Errors \cup {"nothing"}
    /\ promise \in Callbacks \cup Errors \cup {"pending"}
    /\ first \in Callbacks \cup Errors \cup {"nothing"}

(* Of a callback, a broken connection, the timer and close(), whichever    *)
(* comes first is what the login is told, whatever arrives while the       *)
(* server is still closing; and a callback counts only if it came after    *)
(* waitForCallback (oauth-loopback.ts 65-134).                             *)
FirstEventDecides ==
    /\ promise # "pending" => promise = first
    /\ first \in Callbacks => bound

(* A login is told an outcome only when the listener is closed and no      *)
(* connection to it is left: the authorization code is never exchanged     *)
(* while something could still talk to the server (closeServer before      *)
(* resolve, lines 82-84).                                                  *)
OutcomeAfterClosing == promise # "pending" => server = "closed" /\ NoConnections

(* No matter what the peers of this host do, as long as they do not hold a *)
(* connection for ever, the callback promise is settled and the attempt    *)
(* ends, so that the refresh mutex it runs under is released.              *)
AttemptsEnd == <>(attempt = "done" /\ (server # "off" => promise # "pending"))

(* The tests say that the "timeout is bounded": once the timer has fired,  *)
(* the wait is over without any help from the peers.  It is not: a request *)
(* that comes on a connection opened before the timer, after it has fired, *)
(* is never answered (finish returns first), and the server waits for the  *)
(* peer to give up.                                                        *)
TimeoutIsBounded == timer = "fired" ~> promise # "pending"

-----------------------------------------------------------------------------
(* Why FirstEventDecides and OutcomeAfterClosing hold: the inductive        *)
(* invariant of the loopback.                                              *)

(* Until something happens the wait is open.                               *)
Awaiting ==
    /\ first = "nothing" /\ deciding = "nothing" /\ promise = "pending"
    /\ server \in {"off", "listening"}
    /\ ~consumed

(* Once it has, the outcome is on its way or has been delivered, and the    *)
(* server accepts nobody.                                                  *)
Decided ==
    /\ first # "nothing"
    /\ server \in {"closing", "closed"}
    /\ timer # "running"
    /\ \/ deciding = first /\ promise = "pending"
       \/ deciding = "nothing" /\ promise = first /\ server = "closed"

IInv ==
    /\ TypeOK
    /\ IF settled THEN Decided ELSE Awaiting
    /\ first \in Callbacks => bound
    /\ server \in {"off", "closed"} => NoConnections
    /\ server = "off" => timer = "off" /\ attempt \in {"starting", "done"}
    /\ attempt = "starting" => server = "off"
=============================================================================
