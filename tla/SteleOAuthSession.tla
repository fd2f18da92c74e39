-------------------------- MODULE SteleOAuthSession --------------------------
(***************************************************************************)
(* The hosted-MCP OAuth session shared by every local Stele process:       *)
(* the runtime broker (accessToken), the administrator (login, logout),    *)
(* the kernel mutex that serializes them, the one credential record in the *)
(* native OS store, and the authorization server's refresh-token families. *)
(*                                                                         *)
(* One action is one await of the code: a store call, a request to the     *)
(* server, or an attempt to bind the mutex.  Each call may fail with or    *)
(* without having taken effect, and a process may die between any two.     *)
(*                                                                         *)
(* A family is one grant made by an interactive login; its refresh tokens  *)
(* are numbered by generation, and only the latest one is honoured.        *)
(***************************************************************************)
EXTENDS Naturals, FiniteSets

CONSTANTS
  Procs,          \* local processes: MCP servers and administrators
  Families,       \* grants the server can still issue (bounds the logins)
  MaxGeneration,  \* Number.MAX_SAFE_INTEGER in the code
  NoRecord,       \* null
  NoProc,         \* nobody is bound to the mutex port
  Outsider        \* an unrelated local program bound to the mutex port

VARIABLES
  pc,              \* where each process is inside its call
  op,              \* the call it is making
  cur,             \* the record it read, `current`
  new,             \* the record it obtained, `replacement`
  undo,            \* the record a failed commit leaves to be retained
  revoked,         \* processes whose compensating revocation was confirmed
  retried,         \* processes with invalidClientRetries = 1
  result,          \* how the call is about to return
  holder,          \* owner of the exclusive loopback listener
  store,           \* the record in the native credential store, or NoRecord
  latest,          \* newest generation the server issued in each family
  revokedFamilies, \* families the server no longer honours
  stale,           \* access tokens inside the 30 s safety window, or expired
  expired,         \* families whose client registration has expired
  orphans          \* history: live tokens no process can reach, and why

procVars == <<pc, op, cur, new, undo, revoked, retried, result>>
serverVars == <<latest, revokedFamilies>>
clockVars == <<stale, expired>>
worldVars == <<holder, store, serverVars, clockVars, orphans>>
vars == <<procVars, holder, store, serverVars, clockVars, orphans>>

-----------------------------------------------------------------------------
(* Records and tokens.                                                     *)

Generations == 1 .. MaxGeneration + 1

Record == [fam : Families, gen : Generations, st : {"active", "reauth_required"}]

ASSUME ConstantsAssumption ==
  /\ MaxGeneration \in Nat \ {0}
  /\ NoProc \notin Procs
  /\ Outsider \notin Procs
  /\ NoRecord \notin Record
  /\ NoProc # Outsider

Token == Families \X Generations

Tok(r) == <<r.fam, r.gen>>

Reasons == {"crash", "lost_reply", "store_refused", "revoke_failed"}

(* The token the server honours for family f, when there is one.           *)
LiveToken(f) == <<f, latest[f]>>

Live(r) == latest[r.fam] = r.gen /\ r.fam \notin revokedFamilies

Mark(r) == [fam |-> r.fam, gen |-> r.gen, st |-> "reauth_required"]

Holds(s, r) == s # NoRecord /\ Tok(s) = Tok(r)

Usable(r) == r.st = "active" /\ r.fam \notin expired

(* What status() prints; it reads the store without taking the mutex.      *)
Status ==
  IF store = NoRecord THEN "signed_out"
  ELSE IF Usable(store) THEN "authenticated" ELSE "reauth_required"

(* A replacement read back by a login belongs to another family than the   *)
(* one it replaces; a rotation stays within the family.                    *)
Interactive(p) == cur[p] = NoRecord \/ cur[p].fam # new[p].fam

Outside == {"idle", "bind", "poll"}

Inside(p) == pc[p] \notin Outside

-----------------------------------------------------------------------------
(* Process steps.                                                          *)

Goto(p, label) == pc' = [pc EXCEPT ![p] = label]

End(p, r) ==
  /\ Goto(p, "release")
  /\ result' = [result EXCEPT ![p] = r]

(* A store error: accessToken reports every error alike.                   *)
StoreError(p) ==
  IF op[p] = "accessToken" THEN "unavailable" ELSE "credential_store_unavailable"

(* The process forgets everything: its call returned, or it died.          *)
Forget(p) ==
  /\ Goto(p, "idle")
  /\ op' = [op EXCEPT ![p] = "none"]
  /\ cur' = [cur EXCEPT ![p] = NoRecord]
  /\ new' = [new EXCEPT ![p] = NoRecord]
  /\ undo' = [undo EXCEPT ![p] = NoRecord]
  /\ revoked' = revoked \ {p}
  /\ retried' = retried \ {p}
  /\ result' = [result EXCEPT ![p] = "none"]

(* The obtained token is given up for good: an orphan if the server still  *)
(* honours it after this step and the store does not have it.              *)
Abandon(p, why) ==
  orphans' = orphans \cup
    IF /\ new[p] # NoRecord
       /\ latest'[new[p].fam] = new[p].gen
       /\ new[p].fam \notin revokedFamilies'
       /\ ~Holds(store', new[p])
      THEN {[tok |-> Tok(new[p]), why |-> why]} ELSE {}

Init ==
  /\ pc = [p \in Procs |-> "idle"]
  /\ op = [p \in Procs |-> "none"]
  /\ cur = [p \in Procs |-> NoRecord]
  /\ new = [p \in Procs |-> NoRecord]
  /\ undo = [p \in Procs |-> NoRecord]
  /\ revoked = {}
  /\ retried = {}
  /\ result = [p \in Procs |-> "none"]
  /\ holder = NoProc
  /\ store = NoRecord
  /\ latest = [f \in Families |-> 0]
  /\ revokedFamilies = {}
  /\ stale = {}
  /\ expired = {}
  /\ orphans = {}

Start(p, o) ==
  /\ pc[p] = "idle"
  /\ Goto(p, "bind")
  /\ op' = [op EXCEPT ![p] = o]
  /\ UNCHANGED <<cur, new, undo, revoked, retried, result, holder, store,
                 serverVars, clockVars, orphans>>

-----------------------------------------------------------------------------
(* KernelSteleOAuthRefreshLock.runExclusive.                               *)

(* Mutant of Acquire: nothing serializes the processes.                    *)
AcquireUnserialized(p) ==
  /\ pc[p] \in {"bind", "poll"}
  /\ holder' = p
  /\ Goto(p, IF op[p] = "login" THEN "metadata" ELSE "read")
  /\ UNCHANGED <<op, cur, new, undo, revoked, retried, result, store,
                 serverVars, clockVars, orphans>>

Acquire(p) ==
  /\ pc[p] \in {"bind", "poll"}
  /\ holder = NoProc
  /\ holder' = p
  /\ Goto(p, IF op[p] = "login" THEN "metadata" ELSE "read")
  /\ UNCHANGED <<op, cur, new, undo, revoked, retried, result, store,
                 serverVars, clockVars, orphans>>

(* EADDRINUSE: wait a poll interval and try again.                         *)
BindBusy(p) ==
  /\ pc[p] = "bind"
  /\ holder # NoProc
  /\ Goto(p, "poll")
  /\ UNCHANGED <<op, cur, new, undo, revoked, retried, result, holder, store,
                 serverVars, clockVars, orphans>>

(* Mutant of PollTimeout: a poll is always followed by another attempt.    *)
PollForever(p) ==
  /\ pc[p] = "poll"
  /\ Goto(p, "bind")
  /\ UNCHANGED <<op, cur, new, undo, revoked, retried, result, worldVars>>

(* The monotonic deadline has passed: the call fails as busy.              *)
PollTimeout(p) ==
  /\ pc[p] = "poll"
  /\ Forget(p)
  /\ UNCHANGED <<holder, store, serverVars, clockVars, orphans>>

(* Any other bind error, or a clock that went backwards: unavailable.      *)
BindFails(p) ==
  /\ pc[p] \in {"bind", "poll"}
  /\ Forget(p)
  /\ UNCHANGED <<holder, store, serverVars, clockVars, orphans>>

(* The finally clause closes the listener and the call returns.            *)
Release(p) ==
  /\ pc[p] = "release"
  /\ holder' = NoProc
  /\ Forget(p)
  /\ UNCHANGED <<store, serverVars, clockVars, orphans>>

-----------------------------------------------------------------------------
(* The native credential store.                                            *)

(* write(): setPassword, then a readback that must match.                  *)
WriteSucceeds(r) == store' = r

(* setPassword or the readback throws; the record may be there or not.     *)
WriteFails(r) == store' \in {store, r}

-----------------------------------------------------------------------------
(* The authorization server, as the client sees it.                        *)

(* Presenting a superseded token may make the server end the family.       *)
ReuseEndsFamily(r) ==
  revokedFamilies' \in {revokedFamilies, revokedFamilies \cup {r.fam}}

(* An accepted revocation ends the family of the token it was given, except*)
(* that the server owes nothing for a token that is already superseded.    *)
Revokes(r) ==
  IF latest[r.fam] = r.gen
    THEN revokedFamilies' = revokedFamilies \cup {r.fam}
    ELSE ReuseEndsFamily(r)

(* The request failed for the client; the server may have processed it.    *)
RevokeFails(r) ==
  revokedFamilies' \in {revokedFamilies, revokedFamilies \cup {r.fam}}

-----------------------------------------------------------------------------
(* The guarded operation, up to its first request to the server.           *)

(* login: metadata is verified before the store is opened.                 *)
VerifyMetadata(p) ==
  /\ pc[p] = "metadata"
  /\ \/ Goto(p, "read") /\ UNCHANGED result
     \/ End(p, "unavailable")
  /\ UNCHANGED <<op, cur, new, undo, revoked, retried, worldVars>>

ReadFails(p) ==
  /\ pc[p] = "read"
  /\ End(p, StoreError(p))
  /\ UNCHANGED <<op, cur, new, undo, revoked, retried, worldVars>>

(* accessToken: the first test that applies decides.                       *)
ReadForToken(p) ==
  /\ pc[p] = "read" /\ op[p] = "accessToken"
  /\ cur' = [cur EXCEPT ![p] = store]
  /\ IF store = NoRecord THEN End(p, "auth_required")
     ELSE IF ~Usable(store) THEN End(p, "auth_required")
     ELSE IF Tok(store) \notin stale THEN End(p, "token")
     ELSE Goto(p, "refresh") /\ UNCHANGED result
  /\ UNCHANGED <<op, new, undo, revoked, retried, worldVars>>

(* login: a usable record is kept or refreshed; anything else that is      *)
(* retained is revoked before the interactive attempt.                     *)
ReadForLogin(p) ==
  /\ pc[p] = "read" /\ op[p] = "login"
  /\ cur' = [cur EXCEPT ![p] = store]
  /\ IF store = NoRecord THEN Goto(p, "authorize") /\ UNCHANGED result
     ELSE IF ~Usable(store) THEN Goto(p, "revokeStored") /\ UNCHANGED result
     ELSE IF Tok(store) \notin stale THEN End(p, "already_authenticated")
     ELSE Goto(p, "refresh") /\ UNCHANGED result
  /\ UNCHANGED <<op, new, undo, revoked, retried, worldVars>>

ReadForLogout(p) ==
  /\ pc[p] = "read" /\ op[p] = "logout"
  /\ cur' = [cur EXCEPT ![p] = store]
  /\ IF store = NoRecord THEN End(p, "none_to_log_out")
     ELSE Goto(p, "revokeStored") /\ UNCHANGED result
  /\ UNCHANGED <<op, new, undo, revoked, retried, worldVars>>

-----------------------------------------------------------------------------
(* Refresh-token rotation, the same in accessToken and login.              *)

(* Mutant of RefreshGranted: the generation limit is not tested.           *)
RefreshGrantedUnbounded(p) ==
  /\ pc[p] = "refresh"
  /\ Live(cur[p])
  /\ latest' = [latest EXCEPT ![cur[p].fam] = @ + 1]
  /\ new' = [new EXCEPT ![p] =
              [fam |-> cur[p].fam, gen |-> cur[p].gen + 1, st |-> "active"]]
  /\ Goto(p, "commit")
  /\ UNCHANGED <<op, cur, undo, revoked, retried, result, holder, store,
                 revokedFamilies, clockVars, orphans>>

(* The server rotates and the reply arrives.  The local record is built    *)
(* from it unless a check fails: the generation limit, a token collision,  *)
(* a clock out of range.                                                   *)
RefreshGranted(p) ==
  /\ pc[p] = "refresh"
  /\ Live(cur[p])
  /\ latest' = [latest EXCEPT ![cur[p].fam] = @ + 1]
  /\ new' = [new EXCEPT ![p] =
              [fam |-> cur[p].fam, gen |-> cur[p].gen + 1, st |-> "active"]]
  /\ \/ cur[p].gen < MaxGeneration /\ Goto(p, "commit")
     \/ Goto(p, "dropRotated")
  /\ UNCHANGED <<op, cur, undo, revoked, retried, result, holder, store,
                 revokedFamilies, clockVars, orphans>>

(* The server rotates; the reply times out, is cut or does not parse.      *)
RefreshLost(p) ==
  /\ pc[p] = "refresh"
  /\ Live(cur[p])
  /\ latest' = [latest EXCEPT ![cur[p].fam] = @ + 1]
  /\ orphans' = orphans \cup
       {[tok |-> <<cur[p].fam, cur[p].gen + 1>>, why |-> "lost_reply"]}
  /\ End(p, "unavailable")
  /\ UNCHANGED <<op, cur, new, undo, revoked, retried, holder, store,
                 revokedFamilies, clockVars>>

(* invalid_client, invalid_grant or invalid_scope.  accessToken marks the  *)
(* record; login goes on to replace the grant.                             *)
RefreshRefused(p) ==
  /\ pc[p] = "refresh"
  /\ IF Live(cur[p]) THEN UNCHANGED revokedFamilies ELSE ReuseEndsFamily(cur[p])
  /\ Goto(p, IF op[p] = "accessToken" THEN "mark" ELSE "revokeStored")
  /\ UNCHANGED <<op, cur, new, undo, revoked, retried, result, holder, store,
                 latest, clockVars, orphans>>

(* Any other failure, before the server rotated: nothing is written.       *)
RefreshFails(p) ==
  /\ pc[p] = "refresh"
  /\ IF Live(cur[p]) THEN UNCHANGED revokedFamilies ELSE ReuseEndsFamily(cur[p])
  /\ End(p, "unavailable")
  /\ UNCHANGED <<op, cur, new, undo, revoked, retried, holder, store, latest,
                 clockVars, orphans>>

MarkRefused(p) ==
  /\ pc[p] = "mark"
  /\ \/ WriteSucceeds(Mark(cur[p])) /\ End(p, "auth_required")
     \/ WriteFails(Mark(cur[p])) /\ End(p, "unavailable")
  /\ UNCHANGED <<op, cur, new, undo, revoked, retried, holder, serverVars,
                 clockVars, orphans>>

(* No record could be built from the rotation: revoke it, best effort.     *)
DropRotated(p) ==
  /\ pc[p] = "dropRotated"
  /\ UNCHANGED <<op, cur, new, undo, revoked, retried, result, holder, store,
                 latest, clockVars>>
  /\ \/ Revokes(new[p]) /\ UNCHANGED orphans
     \/ RevokeFails(new[p]) /\ Abandon(p, "revoke_failed")
  /\ Goto(p, "markDropped")

(* ... and mark what is stored, best effort.                               *)
MarkDropped(p) ==
  /\ pc[p] = "markDropped"
  /\ WriteFails(Mark(cur[p]))
  /\ End(p, StoreError(p))
  /\ UNCHANGED <<op, cur, new, undo, revoked, retried, holder, serverVars,
                 clockVars, orphans>>

-----------------------------------------------------------------------------
(* Commit of a replacement, and its compensation.                          *)

CommitSucceeds(p) ==
  /\ pc[p] = "commit"
  /\ WriteSucceeds(new[p])
  /\ End(p, IF op[p] = "accessToken" THEN "token"
            ELSE IF Interactive(p) THEN "authenticated" ELSE "refreshed")
  /\ UNCHANGED <<op, cur, new, undo, revoked, retried, holder, serverVars,
                 clockVars, orphans>>

CommitFails(p) ==
  /\ pc[p] = "commit"
  /\ WriteFails(new[p])
  /\ Goto(p, "undoRevoke")
  /\ UNCHANGED <<op, cur, new, undo, revoked, retried, result, holder,
                 serverVars, clockVars, orphans>>

(* Mutant of UndoRevoke: a failed revocation counts as confirmed.          *)
UndoRevokeAssumed(p) ==
  /\ pc[p] = "undoRevoke"
  /\ Revokes(new[p]) \/ RevokeFails(new[p])
  /\ revoked' = revoked \cup {p}
  /\ Goto(p, "undoRead")
  /\ UNCHANGED <<op, cur, new, undo, retried, result, holder, store, latest,
                 clockVars, orphans>>

UndoRevoke(p) ==
  /\ pc[p] = "undoRevoke"
  /\ \/ Revokes(new[p]) /\ revoked' = revoked \cup {p}
     \/ RevokeFails(new[p]) /\ UNCHANGED revoked
  /\ Goto(p, "undoRead")
  /\ UNCHANGED <<op, cur, new, undo, retried, result, holder, store, latest,
                 clockVars, orphans>>

(* Mutant of Retained: a committed rotation is rolled back.                *)
RetainedPrevious(p) == IF p \notin revoked THEN new[p] ELSE cur[p]

(* The record to retain as reauth_required; NoRecord: nothing is retained. *)
Retained(p) ==
  IF p \notin revoked THEN new[p]
  ELSE IF ~Interactive(p) /\ store = new[p] THEN new[p]
  ELSE cur[p]

(* What is stored decides what is retained.  A login over an empty store   *)
(* deletes its own revoked record.                                         *)
UndoRead(p) ==
  /\ pc[p] = "undoRead"
  /\ undo' = [undo EXCEPT ![p] = Retained(p)]
  /\ IF store \notin {NoRecord, cur[p], new[p]} THEN End(p, StoreError(p))
     ELSE IF Retained(p) # NoRecord THEN Goto(p, "undoWrite") /\ UNCHANGED result
     ELSE IF store = new[p] THEN Goto(p, "undoDelete") /\ UNCHANGED result
     ELSE End(p, StoreError(p))
  /\ UNCHANGED <<op, cur, new, revoked, retried, worldVars>>

UndoReadFails(p) ==
  /\ pc[p] = "undoRead"
  /\ UNCHANGED <<op, cur, new, undo, revoked, retried, holder, store,
                 serverVars, clockVars>>
  /\ Abandon(p, "store_refused")
  /\ End(p, StoreError(p))

UndoWrite(p) ==
  /\ pc[p] = "undoWrite"
  /\ UNCHANGED <<op, cur, new, undo, revoked, retried, holder, serverVars,
                 clockVars>>
  /\ \/ WriteSucceeds(Mark(undo[p])) /\ UNCHANGED orphans
     \/ WriteFails(Mark(undo[p])) /\ Abandon(p, "store_refused")
  /\ End(p, StoreError(p))

UndoDelete(p) ==
  /\ pc[p] = "undoDelete"
  /\ store' \in {store, NoRecord}
  /\ End(p, StoreError(p))
  /\ UNCHANGED <<op, cur, new, undo, revoked, retried, holder, serverVars,
                 clockVars, orphans>>

-----------------------------------------------------------------------------
(* login: revocation of the retained family, then an interactive attempt.  *)
(* logout shares the revocation.                                           *)

RevokeStored(p) ==
  /\ pc[p] = "revokeStored"
  /\ Revokes(cur[p])
  /\ Goto(p, IF op[p] = "logout" THEN "delete" ELSE "authorize")
  /\ UNCHANGED <<op, cur, new, undo, revoked, retried, result, holder, store,
                 latest, clockVars, orphans>>

(* Mutant of RevokeStoredFails: revocation is best effort.                 *)
RevokeStoredBestEffort(p) ==
  /\ pc[p] = "revokeStored"
  /\ RevokeFails(cur[p])
  /\ Goto(p, IF op[p] = "logout" THEN "delete" ELSE "authorize")
  /\ UNCHANGED <<op, cur, new, undo, revoked, retried, result, holder, store,
                 latest, clockVars, orphans>>

RevokeStoredFails(p) ==
  /\ pc[p] = "revokeStored"
  /\ RevokeFails(cur[p])
  /\ End(p, "unavailable")
  /\ UNCHANGED <<op, cur, new, undo, revoked, retried, holder, store, latest,
                 clockVars, orphans>>

(* One retry with a fresh registration after invalid_client.               *)
InvalidClient(p) ==
  /\ IF p \in retried THEN End(p, "unavailable") /\ UNCHANGED retried
     ELSE /\ Goto(p, "authorize")
          /\ retried' = retried \cup {p}
          /\ UNCHANGED result
  /\ UNCHANGED <<op, cur, new, undo, revoked, worldVars>>

(* Loopback, registration, browser and callback: no grant exists yet.      *)
AuthorizeAnswered(p) ==
  /\ pc[p] = "authorize"
  /\ \/ Goto(p, "exchange") /\ UNCHANGED result
     \/ End(p, "cancelled")
     \/ End(p, "unavailable")
  /\ UNCHANGED <<op, cur, new, undo, revoked, retried, worldVars>>

AuthorizeInvalidClient(p) == pc[p] = "authorize" /\ InvalidClient(p)

ExchangeInvalidClient(p) == pc[p] = "exchange" /\ InvalidClient(p)

(* The server issues the first token of a new family and the reply arrives.*)
(* A record that cannot be built from it is dropped.                       *)
ExchangeGranted(p) ==
  /\ pc[p] = "exchange"
  /\ \E f \in Families :
       /\ latest[f] = 0
       /\ latest' = [latest EXCEPT ![f] = 1]
       /\ new' = [new EXCEPT ![p] = [fam |-> f, gen |-> 1, st |-> "active"]]
  /\ \/ Goto(p, "commit")
     \/ Goto(p, "dropIssued")
  /\ UNCHANGED <<op, cur, undo, revoked, retried, result, holder, store,
                 revokedFamilies, clockVars, orphans>>

ExchangeLost(p) ==
  /\ pc[p] = "exchange"
  /\ \E f \in Families :
       /\ latest[f] = 0
       /\ latest' = [latest EXCEPT ![f] = 1]
       /\ orphans' = orphans \cup {[tok |-> <<f, 1>>, why |-> "lost_reply"]}
  /\ End(p, "unavailable")
  /\ UNCHANGED <<op, cur, new, undo, revoked, retried, holder, store,
                 revokedFamilies, clockVars>>

ExchangeFails(p) ==
  /\ pc[p] = "exchange"
  /\ End(p, "unavailable")
  /\ UNCHANGED <<op, cur, new, undo, revoked, retried, worldVars>>

DropIssued(p) ==
  /\ pc[p] = "dropIssued"
  /\ UNCHANGED <<op, cur, new, undo, revoked, retried, holder, store, latest,
                 clockVars>>
  /\ \/ Revokes(new[p]) /\ UNCHANGED orphans
     \/ RevokeFails(new[p]) /\ Abandon(p, "revoke_failed")
  /\ End(p, StoreError(p))

-----------------------------------------------------------------------------
(* logout: the record is deleted only after the revocation was accepted.   *)

(* deletePassword: TRUE, or FALSE or an error; the record may be gone.     *)
DeleteAccepted(p) ==
  /\ pc[p] = "delete"
  /\ store' \in {store, NoRecord}
  /\ Goto(p, "confirm")
  /\ UNCHANGED <<op, cur, new, undo, revoked, retried, result, holder,
                 serverVars, clockVars, orphans>>

DeleteFails(p) ==
  /\ pc[p] = "delete"
  /\ store' \in {store, NoRecord}
  /\ End(p, StoreError(p))
  /\ UNCHANGED <<op, cur, new, undo, revoked, retried, holder, serverVars,
                 clockVars, orphans>>

(* Mutant of ConfirmDelete: the deletion is reported without reading back. *)
ConfirmNothing(p) ==
  /\ pc[p] = "confirm"
  /\ End(p, "logged_out")
  /\ UNCHANGED <<op, cur, new, undo, revoked, retried, worldVars>>

ConfirmDelete(p) ==
  /\ pc[p] = "confirm"
  /\ \/ End(p, IF store = NoRecord THEN "logged_out" ELSE StoreError(p))
     \/ End(p, StoreError(p))
  /\ UNCHANGED <<op, cur, new, undo, revoked, retried, worldVars>>

-----------------------------------------------------------------------------
(* Everything around the calls.                                            *)

(* The process dies; the kernel closes its listener.                       *)
Crash(p) ==
  /\ pc[p] # "idle"
  /\ holder' = IF holder = p THEN NoProc ELSE holder
  /\ UNCHANGED <<store, serverVars, clockVars>>
  /\ Abandon(p, "crash")
  /\ Forget(p)

OutsiderBinds ==
  /\ holder = NoProc
  /\ holder' = Outsider
  /\ UNCHANGED <<procVars, store, serverVars, clockVars, orphans>>

OutsiderLeaves ==
  /\ holder = Outsider
  /\ holder' = NoProc
  /\ UNCHANGED <<procVars, store, serverVars, clockVars, orphans>>

(* Time passes: the stored access token, then the registration, expire.    *)
AccessTokenExpires ==
  /\ store # NoRecord /\ Tok(store) \notin stale
  /\ stale' = stale \cup {Tok(store)}
  /\ UNCHANGED <<procVars, holder, store, serverVars, expired, orphans>>

RegistrationExpires ==
  /\ store # NoRecord /\ store.fam \notin expired
  /\ expired' = expired \cup {store.fam}
  /\ UNCHANGED <<procVars, holder, store, serverVars, stale, orphans>>

(* The server ends a family by expiry or on its own decision.              *)
ServerEndsFamily(f) ==
  /\ latest[f] > 0 /\ f \notin revokedFamilies
  /\ revokedFamilies' = revokedFamilies \cup {f}
  /\ UNCHANGED <<procVars, holder, store, latest, clockVars, orphans>>

Operations == {"accessToken", "login", "logout"}

LockStep(p) ==
  Acquire(p) \/ BindBusy(p) \/ PollTimeout(p) \/ BindFails(p) \/ Release(p)

ReadStep(p) ==
  VerifyMetadata(p) \/ ReadFails(p) \/ ReadForToken(p) \/ ReadForLogin(p)
    \/ ReadForLogout(p)

RefreshStep(p) ==
  RefreshGranted(p) \/ RefreshLost(p) \/ RefreshRefused(p) \/ RefreshFails(p)
    \/ MarkRefused(p) \/ DropRotated(p) \/ MarkDropped(p)

CommitStep(p) == CommitSucceeds(p) \/ CommitFails(p)

UndoStep(p) ==
  UndoRevoke(p) \/ UndoRead(p) \/ UndoReadFails(p) \/ UndoWrite(p) \/ UndoDelete(p)

InteractiveStep(p) ==
  RevokeStored(p) \/ RevokeStoredFails(p)
    \/ AuthorizeAnswered(p) \/ AuthorizeInvalidClient(p)
    \/ ExchangeInvalidClient(p) \/ ExchangeGranted(p) \/ ExchangeLost(p)
    \/ ExchangeFails(p) \/ DropIssued(p)

LogoutStep(p) == DeleteAccepted(p) \/ DeleteFails(p) \/ ConfirmDelete(p)

Proceed(p) ==
  LockStep(p) \/ ReadStep(p) \/ RefreshStep(p) \/ CommitStep(p) \/ UndoStep(p)
    \/ InteractiveStep(p) \/ LogoutStep(p)

Environment ==
  \/ OutsiderBinds \/ OutsiderLeaves
  \/ AccessTokenExpires \/ RegistrationExpires
  \/ \E f \in Families : ServerEndsFamily(f)

Next ==
  \/ \E p \in Procs : Proceed(p) \/ Crash(p)
  \/ \E p \in Procs, o \in Operations : Start(p, o)
  \/ Environment

Spec == Init /\ [][Next]_vars

(* Every await of a call settles but one: requests have timeouts, the wait *)
(* for the mutex has a deadline, the native store is assumed to answer.    *)
(* The exception is the browser callback: its timeout only asks the server *)
(* to close, which waits for the connections that peers keep open, so that *)
(* a login may stay in "authorize", holding the mutex, for good.  Nobody   *)
(* is obliged to start a call, to crash, or to leave the port.             *)
Fairness == \A p \in Procs : WF_vars(pc[p] # "authorize" /\ Proceed(p))

FairSpec == Spec /\ Fairness

-----------------------------------------------------------------------------
(* Type invariant.                                                         *)

Labels == Outside \cup
  {"release", "metadata", "read", "refresh", "mark", "dropRotated",
   "markDropped", "commit", "undoRevoke", "undoRead", "undoWrite", "undoDelete",
   "revokeStored", "authorize", "exchange", "dropIssued", "delete", "confirm"}

Results ==
  {"none", "token", "auth_required", "unavailable", "already_authenticated",
   "refreshed", "authenticated", "cancelled", "logged_out", "none_to_log_out",
   "credential_store_unavailable"}

(* Every variable keeps the shape of the code's data.                      *)
TypeOK ==
  /\ pc \in [Procs -> Labels]
  /\ op \in [Procs -> Operations \cup {"none"}]
  /\ cur \in [Procs -> Record \cup {NoRecord}]
  /\ new \in [Procs -> Record \cup {NoRecord}]
  /\ undo \in [Procs -> Record \cup {NoRecord}]
  /\ revoked \in SUBSET Procs
  /\ retried \in SUBSET Procs
  /\ result \in [Procs -> Results]
  /\ holder \in Procs \cup {NoProc, Outsider}
  /\ store \in Record \cup {NoRecord}
  /\ latest \in [Families -> 0 .. MaxGeneration + 1]
  /\ revokedFamilies \in SUBSET Families
  /\ stale \in SUBSET Token
  /\ expired \in SUBSET Families
  /\ orphans \in SUBSET [tok : Token, why : Reasons]

-----------------------------------------------------------------------------
(* Properties.                                                             *)

InStore(f) == store # NoRecord /\ Tok(store) = LiveToken(f)

InHand(f) ==
  \E p \in Procs :
    holder = p /\ new[p] # NoRecord /\ Tok(new[p]) = LiveToken(f)

AccountedFor(f) == \E o \in orphans : o.tok = LiveToken(f)

(* Custody: a token the server honours is in the store, in the memory of   *)
(* the process inside the mutex, or accounted for as an orphan.  No return *)
(* path, compensation or interleaving silently loses a live grant.         *)
Custody ==
  \A f \in Families :
    (latest[f] > 0 /\ f \notin revokedFamilies) =>
      InStore(f) \/ InHand(f) \/ AccountedFor(f)

(* A refresh token read under the mutex is still the stored one when it is *)
(* presented: no sibling rotates it in between, so a one-use token is never*)
(* used twice by local processes.                                          *)
PresentsStoredToken ==
  \A p \in Procs : pc[p] \in {"refresh", "revokeStored"} => store = cur[p]

(* A successful return is backed by the store: the returned access token   *)
(* belongs to the active record committed there, and a reported logout left*)
(* no record and no live family behind.                                    *)
ResultsAreCommitted ==
  \A p \in Procs : pc[p] = "release" =>
    /\ result[p] \in {"token", "refreshed", "authenticated", "already_authenticated"} =>
         /\ store # NoRecord
         /\ store.st = "active"
         /\ store = IF new[p] # NoRecord THEN new[p] ELSE cur[p]
    /\ result[p] = "logged_out" => store = NoRecord /\ ~Live(cur[p])

(* The store never lets go of a refresh token the server still honours:    *)
(* whatever replaces or deletes a record, its own token is dead by then    *)
(* (revoked, or superseded by a rotation).                                 *)
LiveTokenNeverDropped ==
  [][ (store # NoRecord /\ ~Holds(store', store)) => ~Live(store) ]_vars

(* Within a family the stored record only moves forward: the generation    *)
(* never decreases, and a record marked reauth_required never becomes      *)
(* active again without a new token.                                       *)
RecordNeverRegresses ==
  [][ (store # NoRecord /\ store' # NoRecord /\ store'.fam = store.fam) =>
        /\ store'.gen >= store.gen
        /\ store'.gen = store.gen /\ store.st = "reauth_required"
             => store'.st = "reauth_required" ]_vars

(* The phase of a token's life, as the abstract specification sees it.     *)
Phase(t) ==
  IF latest[t[1]] < t[2] THEN "unissued"
  ELSE IF latest[t[1]] # t[2] \/ t[1] \in revokedFamilies THEN "dead"
  ELSE IF store # NoRecord /\ Tok(store) = t THEN "stored"
  ELSE IF \E o \in orphans : o.tok = t THEN "orphaned"
  ELSE "held"

Grants == INSTANCE GrantCustody WITH
  MaxToken <- MaxGeneration + 1,
  grant <- [t \in Token |-> Phase(t)]

(* Every step of every process, of the server and of the clock is a step   *)
(* of the abstract custody of refresh tokens, or changes nothing in it.    *)
ImplementsGrantCustody == Grants!CustodySpec

(* After a login the user did not approve, the retained grant is known to  *)
(* be dead (its revocation was just accepted), so status does not call the *)
(* session authenticated: README, "`reauth_required` means an expired or   *)
(* invalid local grant needs another interactive `login`".                 *)
CancelledLoginIsNotAuthenticated ==
  \A p \in Procs :
    (pc[p] = "release" /\ result[p] = "cancelled") => Status # "authenticated"

(* Every call returns, whoever holds the port and whatever fails, or is a   *)
(* login that waits for its callback for good: one that does keeps the     *)
(* mutex, and yet every call of another process returns.                   *)
EveryCallReturns ==
  \A p \in Procs : []<>(pc[p] = "idle") \/ <>[](pc[p] = "authorize")

-----------------------------------------------------------------------------
(* The inductive invariant behind the safety properties.                   *)

(* The mutex has one owner, the process inside the guarded operation.      *)
MutexInv == \A p \in Procs : Inside(p) <=> holder = p

Orphaned(r) == \E o \in orphans : o.tok = Tok(r)

(* A token given up for good, one way or another.                          *)
Settled(r) == ~Live(r) \/ Holds(store, r) \/ Orphaned(r)

Undoing == {"undoRevoke", "undoRead", "undoWrite", "undoDelete"}

WithNew == {"dropRotated", "commit", "dropIssued"} \cup Undoing

(* What the process inside remembers of the store: what it read is still   *)
(* there until it writes, and is superseded or revoked before it is        *)
(* overwritten.                                                            *)
CurrentInv(p) ==
  /\ pc[p] \in Outside \cup {"metadata", "read"} => cur[p] = NoRecord
  /\ cur[p] # NoRecord =>
       cur[p].gen <= latest[cur[p].fam] /\ cur[p].gen <= MaxGeneration
  /\ pc[p] \in {"refresh", "mark", "dropRotated", "markDropped", "revokeStored",
                "delete", "confirm"} => cur[p] # NoRecord
  /\ pc[p] \in {"refresh", "mark", "dropRotated", "markDropped", "commit",
                "revokeStored", "authorize", "exchange", "dropIssued", "delete"}
       => store = cur[p]
  /\ pc[p] \in {"authorize", "exchange", "delete", "confirm", "markDropped"}
                \cup WithNew
       => (cur[p] # NoRecord => ~Live(cur[p]))
  /\ pc[p] = "confirm" => store \in {cur[p], NoRecord}
  /\ pc[p] \in Undoing => store \in {cur[p], new[p]}
  /\ pc[p] \in Undoing /\ cur[p] # NoRecord => ~Orphaned(cur[p])

(* What it obtained: the newest token of its family, in nobody else's hands*)
(* and not given up, until a compensation has run its course.              *)
NewInv(p) ==
  /\ new[p] # NoRecord => pc[p] \in WithNew \cup {"markDropped", "release"}
  /\ pc[p] \in WithNew =>
       /\ new[p] # NoRecord
       /\ new[p].st = "active"
       /\ latest[new[p].fam] = new[p].gen
       /\ ~Orphaned(new[p])
       /\ ~Interactive(p) => new[p].gen = cur[p].gen + 1
  /\ pc[p] \in {"commit"} \cup Undoing => new[p].gen <= MaxGeneration
  /\ pc[p] \in {"markDropped", "release"} /\ new[p] # NoRecord
       => Settled(new[p])

(* What a failed commit is about to retain.                                *)
UndoInv(p) ==
  /\ p \in revoked => pc[p] \in Undoing \cup {"release"}
  /\ pc[p] \in Undoing /\ p \in revoked => ~Live(new[p])
  /\ pc[p] = "undoWrite" =>
       /\ undo[p] # NoRecord
       /\ undo[p] \in {cur[p], new[p]}
       /\ p \notin revoked => undo[p] = new[p]
       /\ store = new[p] /\ ~Interactive(p) => undo[p] = new[p]
  /\ pc[p] = "undoDelete" => p \in revoked /\ store = new[p]

(* Only issued tokens are stored or orphaned, and no token is both.        *)
TokensInv ==
  /\ store # NoRecord =>
       store.gen <= latest[store.fam] /\ store.gen <= MaxGeneration
  /\ store # NoRecord => ~Orphaned(store)
  /\ \A o \in orphans : o.tok[2] <= latest[o.tok[1]]

(* The inductive invariant: every safety property above follows from it.   *)
IInv ==
  /\ TypeOK
  /\ MutexInv
  /\ \A p \in Procs : CurrentInv(p) /\ NewInv(p) /\ UndoInv(p)
  /\ TokensInv
  /\ Custody
  /\ ResultsAreCommitted

(* The server ends only families it has issued.                            *)
RevokedAreIssued == \A f \in revokedFamilies : latest[f] > 0
=============================================================================
