----------------------- MODULE SteleOAuthSessionProofs -----------------------
(***************************************************************************)
(* The safety theorems of the OAuth session, for any number of processes,  *)
(* families and generations.  IInv is inductive; one lemma per conjunct    *)
(* shows that a step preserves it, with one case per group of actions.  An *)
(* action that needs more than its definition has a lemma of its own.      *)
(***************************************************************************)
EXTENDS SteleOAuthSession, TLAPS

-----------------------------------------------------------------------------
(* Facts about one process and its records.                                *)

(* The process inside the mutex is alone with what it read and obtained.   *)
LEMMA OneInside ==
  ASSUME IInv, NEW p \in Procs, Inside(p), NEW q \in Procs, q # p
  PROVE  /\ holder = p
         /\ pc[q] \in Outside
         /\ cur[q] = NoRecord
         /\ new[q] = NoRecord
         /\ q \notin revoked
<1>1. holder = p /\ pc[q] \in Outside
  BY DEF IInv, MutexInv, Inside
<1>2. CurrentInv(q) /\ NewInv(q) /\ UndoInv(q)
  BY DEF IInv
<1> QED
  BY <1>1, <1>2 DEF CurrentInv, NewInv, UndoInv, Outside, WithNew, Undoing

(* A process about to present or replace a record did read one.            *)
LEMMA CurrentRecord ==
  ASSUME IInv, NEW p \in Procs,
         pc[p] \in {"refresh", "mark", "dropRotated", "markDropped",
                    "revokeStored", "delete", "confirm"}
  PROVE  /\ cur[p] \in Record
         /\ cur[p].fam \in Families
         /\ cur[p].gen \in Generations
         /\ cur[p].gen <= MaxGeneration
<1>1. CurrentInv(p) /\ cur[p] \in Record \cup {NoRecord}
  BY DEF IInv, TypeOK
<1> QED
  BY <1>1 DEF CurrentInv, Record

(* The record obtained is one, whatever is to become of it.                *)
LEMMA NewRecord ==
  ASSUME IInv, NEW p \in Procs, new[p] # NoRecord
  PROVE  /\ new[p] \in Record
         /\ new[p].fam \in Families
         /\ new[p].gen \in Generations
         /\ Tok(new[p]) \in Token
<1>1. new[p] \in Record \cup {NoRecord}
  BY DEF IInv, TypeOK
<1> QED
  BY <1>1 DEF Record, Token, Tok

(* A rotated token is the next one of its family.                          *)
LEMMA RotationTypes ==
  ASSUME IInv, NEW p \in Procs, pc[p] = "refresh", Live(cur[p]),
         latest' = [latest EXCEPT ![cur[p].fam] = @ + 1]
  PROVE  /\ <<cur[p].fam, cur[p].gen + 1>> \in Token
         /\ latest' \in [Families -> 0 .. MaxGeneration + 1]
         /\ \A f \in Families :
              /\ latest[f] \in Nat /\ latest'[f] \in Nat
              /\ latest[f] <= latest'[f]
         /\ latest'[cur[p].fam] = cur[p].gen + 1
<1> USE ConstantsAssumption
<1>1. /\ cur[p].fam \in Families
      /\ cur[p].gen \in Generations
      /\ cur[p].gen <= MaxGeneration
  BY CurrentRecord
<1>2. latest \in [Families -> 0 .. MaxGeneration + 1]
  BY DEF IInv, TypeOK
<1>3. latest[cur[p].fam] = cur[p].gen
  BY DEF Live
<1>4. latest'[cur[p].fam] = cur[p].gen + 1
  BY <1>1, <1>2, <1>3
<1>5. latest' \in [Families -> 0 .. MaxGeneration + 1]
  BY <1>1, <1>2, <1>3 DEF Generations
<1>6. <<cur[p].fam, cur[p].gen + 1>> \in Token
  BY <1>1 DEF Generations, Token
<1>7. \A f \in Families : latest[f] \in Nat /\ latest'[f] \in Nat
  BY <1>2, <1>5
<1>8. \A f \in Families : latest[f] <= latest'[f]
  BY <1>1, <1>2, <1>7
<1> QED
  BY <1>4, <1>5, <1>6, <1>7, <1>8

LEMMA RefreshGrantedType ==
  ASSUME IInv, NEW p \in Procs, RefreshGranted(p)
  PROVE  TypeOK'
<1> USE ConstantsAssumption
<1>1. pc[p] = "refresh" /\ Live(cur[p]) /\ TypeOK
  BY DEF RefreshGranted, IInv
<1>2. cur[p].fam \in Families /\ cur[p].gen \in Generations /\ cur[p].gen <= MaxGeneration
  BY <1>1, CurrentRecord
<1>3. latest' \in [Families -> 0 .. MaxGeneration + 1]
  BY <1>1, RotationTypes DEF RefreshGranted
<1>4. [fam |-> cur[p].fam, gen |-> cur[p].gen + 1, st |-> "active"] \in Record
  BY <1>2 DEF Record, Generations
<1>5. new' \in [Procs -> Record \cup {NoRecord}]
  BY <1>1, <1>4 DEF RefreshGranted, TypeOK
<1>6. pc' \in [Procs -> Labels]
  BY <1>1 DEF RefreshGranted, TypeOK, Goto, Labels
<1> QED
  BY <1>1, <1>3, <1>5, <1>6 DEF RefreshGranted, TypeOK, clockVars

LEMMA MarkRefusedType ==
  ASSUME IInv, NEW p \in Procs, MarkRefused(p)
  PROVE  TypeOK'
<1>1. pc[p] = "mark" /\ TypeOK
  BY DEF MarkRefused, IInv
<1>2. cur[p] \in Record
  BY <1>1, CurrentRecord
<1>3. Mark(cur[p]) \in Record
  BY <1>2 DEF Mark, Record
<1>4. store' \in Record \cup {NoRecord}
  BY <1>1, <1>3 DEF MarkRefused, WriteSucceeds, WriteFails, TypeOK
<1>5. pc' \in [Procs -> Labels] /\ result' \in [Procs -> Results]
  BY <1>1 DEF MarkRefused, TypeOK, End, Goto, Labels, Results
<1> QED
  BY <1>1, <1>4, <1>5 DEF MarkRefused, TypeOK, clockVars, serverVars

(* Rotations and exchanges: what was issued before stays issued, and the   *)
(* stored record is not the token orphaned by a lost reply.                *)
LEMMA RefreshGrantedTokens ==
  ASSUME IInv, NEW p \in Procs, RefreshGranted(p)
  PROVE  TokensInv'
<1> USE ConstantsAssumption
<1>1. TokensInv /\ TypeOK /\ pc[p] = "refresh" /\ Live(cur[p]) /\ UNCHANGED <<store, orphans>>
  BY DEF IInv, RefreshGranted
<1>2. \A f \in Families : latest[f] \in Nat /\ latest'[f] \in Nat /\ latest[f] <= latest'[f]
  BY <1>1, RotationTypes DEF RefreshGranted
<1>3. store # NoRecord => store.gen <= latest'[store.fam] /\ store.gen <= MaxGeneration
  BY <1>1, <1>2 DEF TokensInv, TypeOK, Record, Generations
<1>4. store # NoRecord => ~Orphaned(store)'
  BY <1>1 DEF TokensInv, Orphaned, Tok
<1>5. ASSUME NEW o \in orphans PROVE o.tok[2] <= latest'[o.tok[1]]
  <2>1. o.tok[2] <= latest[o.tok[1]]
    BY <1>1 DEF TokensInv
  <2>2. o.tok[1] \in Families /\ o.tok[2] \in Nat
    BY <1>1 DEF TypeOK, Token, Generations
  <2> QED
    BY <1>2, <2>1, <2>2
<1> QED
  BY <1>1, <1>3, <1>4, <1>5 DEF TokensInv, Orphaned

LEMMA RefreshLostTokens ==
  ASSUME IInv, NEW p \in Procs, RefreshLost(p)
  PROVE  TokensInv'
<1> USE ConstantsAssumption
<1> DEFINE lost == [tok |-> <<cur[p].fam, cur[p].gen + 1>>, why |-> "lost_reply"]
<1>1. /\ TokensInv /\ TypeOK /\ pc[p] = "refresh" /\ Live(cur[p])
      /\ UNCHANGED store
      /\ orphans' = orphans \cup {lost}
  BY DEF IInv, RefreshLost
<1>2. /\ \A f \in Families : latest[f] \in Nat /\ latest'[f] \in Nat /\ latest[f] <= latest'[f]
      /\ latest'[cur[p].fam] = cur[p].gen + 1
  BY <1>1, RotationTypes DEF RefreshLost
<1>3. store # NoRecord => store.gen <= latest'[store.fam] /\ store.gen <= MaxGeneration
  BY <1>1, <1>2 DEF TokensInv, TypeOK, Record, Generations
<1>4. store = cur[p] /\ cur[p].gen \in Nat
  <2>1. CurrentInv(p)
    BY DEF IInv
  <2> QED
    BY <1>1, <2>1, CurrentRecord DEF CurrentInv, Generations
<1>5. store # NoRecord => ~Orphaned(store)'
  <2>1. lost.tok # Tok(store)
    BY <1>4 DEF Tok
  <2> QED
    BY <1>1, <2>1 DEF TokensInv, Orphaned, Tok
<1>6. ASSUME NEW o \in orphans' PROVE o.tok[2] <= latest'[o.tok[1]]
  <2>1. CASE o = lost
    BY <1>2, <1>4, <2>1
  <2>2. CASE o \in orphans
    <3>1. o.tok[2] <= latest[o.tok[1]]
      BY <1>1, <2>2 DEF TokensInv
    <3>2. o.tok[1] \in Families /\ o.tok[2] \in Nat
      BY <1>1, <2>2 DEF TypeOK, Token, Generations
    <3> QED
      BY <1>2, <3>1, <3>2
  <2> QED
    BY <1>1, <2>1, <2>2
<1> QED
  BY <1>1, <1>3, <1>5, <1>6 DEF TokensInv, Orphaned

(* The first token of a family that had none.                              *)
LEMMA IssueTypes ==
  ASSUME IInv, NEW f \in Families, latest[f] = 0,
         latest' = [latest EXCEPT ![f] = 1]
  PROVE  /\ latest'[f] = 1
         /\ \A g \in Families :
              /\ latest[g] \in Nat /\ latest'[g] \in Nat
              /\ latest[g] <= latest'[g]
         /\ \A o \in orphans : o.tok[1] # f
         /\ store # NoRecord => store.fam # f
<1>1. TypeOK /\ TokensInv
  BY DEF IInv
<1>2. latest'[f] = 1 /\ \A g \in Families : latest[g] \in Nat /\ latest'[g] \in Nat
  BY <1>1 DEF TypeOK
<1>3. \A g \in Families : latest[g] <= latest'[g]
  BY <1>1, <1>2 DEF TypeOK
<1>4. \A o \in orphans : o.tok[2] >= 1 /\ o.tok[2] \in Nat /\ o.tok[2] <= latest[o.tok[1]]
  BY <1>1 DEF TypeOK, TokensInv, Token, Generations
<1>5. store # NoRecord => store.gen >= 1 /\ store.gen \in Nat /\ store.gen <= latest[store.fam]
  BY <1>1 DEF TypeOK, TokensInv, Record, Generations
<1>6. \A o \in orphans : o.tok[1] # f
  BY <1>4
<1>7. store # NoRecord => store.fam # f
  BY <1>5
<1> QED
  BY <1>2, <1>3, <1>6, <1>7

LEMMA ExchangeGrantedTokens ==
  ASSUME IInv, NEW p \in Procs, ExchangeGranted(p)
  PROVE  TokensInv'
<1>1. TokensInv /\ TypeOK /\ UNCHANGED <<store, orphans>>
  BY DEF IInv, ExchangeGranted
<1>2. PICK f \in Families : latest[f] = 0 /\ latest' = [latest EXCEPT ![f] = 1]
  BY DEF ExchangeGranted
<1>3. \A g \in Families : latest[g] \in Nat /\ latest'[g] \in Nat /\ latest[g] <= latest'[g]
  BY <1>2, IssueTypes
<1>4. store # NoRecord => store.gen <= latest'[store.fam] /\ store.gen <= MaxGeneration
  BY <1>1, <1>3 DEF TokensInv, TypeOK, Record, Generations
<1>5. ASSUME NEW o \in orphans PROVE o.tok[2] <= latest'[o.tok[1]]
  <2>1. o.tok[2] <= latest[o.tok[1]]
    BY <1>1 DEF TokensInv
  <2>2. o.tok[1] \in Families /\ o.tok[2] \in Nat
    BY <1>1 DEF TypeOK, Token, Generations
  <2> QED
    BY <1>3, <2>1, <2>2
<1> QED
  BY <1>1, <1>4, <1>5 DEF TokensInv, Orphaned, Tok

LEMMA ExchangeLostTokens ==
  ASSUME IInv, NEW p \in Procs, ExchangeLost(p)
  PROVE  TokensInv'
<1>1. TokensInv /\ TypeOK /\ UNCHANGED store
  BY DEF IInv, ExchangeLost
<1>2. PICK f \in Families :
        /\ latest[f] = 0
        /\ latest' = [latest EXCEPT ![f] = 1]
        /\ orphans' = orphans \cup {[tok |-> <<f, 1>>, why |-> "lost_reply"]}
  BY DEF ExchangeLost
<1>3. /\ \A g \in Families : latest[g] \in Nat /\ latest'[g] \in Nat /\ latest[g] <= latest'[g]
      /\ latest'[f] = 1
      /\ store # NoRecord => store.fam # f
  BY <1>2, IssueTypes
<1>4. store # NoRecord => store.gen <= latest'[store.fam] /\ store.gen <= MaxGeneration
  BY <1>1, <1>3 DEF TokensInv, TypeOK, Record, Generations
<1>5. store # NoRecord => ~Orphaned(store)'
  BY <1>1, <1>2, <1>3 DEF TokensInv, Orphaned, Tok
<1>6. ASSUME NEW o \in orphans' PROVE o.tok[2] <= latest'[o.tok[1]]
  <2>1. CASE o \in orphans
    <3>1. o.tok[2] <= latest[o.tok[1]]
      BY <1>1, <2>1 DEF TokensInv
    <3>2. o.tok[1] \in Families /\ o.tok[2] \in Nat
      BY <1>1, <2>1 DEF TypeOK, Token, Generations
    <3> QED
      BY <1>3, <3>1, <3>2
  <2>2. CASE o = [tok |-> <<f, 1>>, why |-> "lost_reply"]
    BY <1>3, <2>2
  <2> QED
    BY <1>2, <2>1, <2>2
<1> QED
  BY <1>1, <1>4, <1>5, <1>6 DEF TokensInv, Orphaned

(* The processes that wait for the mutex have obtained nothing.            *)
LEMMA OthersNew ==
  ASSUME IInv, NEW p \in Procs, Inside(p), NEW q \in Procs, q # p,
         pc'[q] = pc[q], new'[q] = new[q]
  PROVE  NewInv(q)'
<1>1. pc[q] \in Outside /\ new[q] = NoRecord
  BY OneInside
<1> QED
  BY <1>1 DEF NewInv, Outside, WithNew, Undoing

LEMMA AbandonSettles ==
  ASSUME NEW p \in Procs, NEW why, Abandon(p, why),
         new[p] # NoRecord, new'[p] = new[p]
  PROVE  Settled(new[p])'
<1> DEFINE o == [tok |-> Tok(new[p]), why |-> why]
<1>1. CASE /\ latest'[new[p].fam] = new[p].gen
           /\ new[p].fam \notin revokedFamilies'
           /\ ~Holds(store', new[p])
  <2>1. o \in orphans' /\ o.tok = Tok(new'[p])
    BY <1>1 DEF Abandon
  <2> QED
    BY <2>1 DEF Settled, Orphaned
<1>2. CASE ~ (/\ latest'[new[p].fam] = new[p].gen
              /\ new[p].fam \notin revokedFamilies'
              /\ ~Holds(store', new[p]))
  BY <1>2 DEF Settled, Live, Holds
<1> QED
  BY <1>1, <1>2

(* A revocation the server accepted settles the newest token of a family.  *)
LEMMA RevocationSettles ==
  ASSUME IInv, NEW p \in Procs, pc[p] \in WithNew, Revokes(new[p]),
         UNCHANGED <<new, latest>>
  PROVE  Settled(new[p])' /\ ~Live(new[p])'
<1>1. latest[new[p].fam] = new[p].gen
  BY DEF IInv, NewInv
<1>2. new[p].fam \in revokedFamilies'
  BY <1>1 DEF Revokes
<1> QED
  BY <1>2 DEF Settled, Live

(* Dropping a replacement that no record could be built from settles it.   *)
LEMMA DropRotatedNew ==
  ASSUME IInv, NEW p \in Procs, DropRotated(p), NEW q \in Procs
  PROVE  NewInv(q)'
<1>1. /\ pc[p] = "dropRotated" /\ pc' = [pc EXCEPT ![p] = "markDropped"]
      /\ UNCHANGED <<new, latest, store>>
      /\ pc \in [Procs -> Labels]
  BY DEF DropRotated, Goto, IInv, TypeOK
<1>2. new[p] # NoRecord
  BY <1>1 DEF IInv, NewInv, WithNew
<1>3. Settled(new[p])'
  BY <1>1, <1>2, RevocationSettles, AbandonSettles DEF DropRotated, WithNew
<1>4. CASE q = p
  BY <1>1, <1>3, <1>4 DEF NewInv, WithNew, Undoing
<1>5. CASE q # p
  BY <1>1, <1>5, OthersNew DEF Inside, Outside
<1> QED
  BY <1>4, <1>5

LEMMA DropIssuedNew ==
  ASSUME IInv, NEW p \in Procs, DropIssued(p), NEW q \in Procs
  PROVE  NewInv(q)'
<1>1. /\ pc[p] = "dropIssued" /\ pc' = [pc EXCEPT ![p] = "release"]
      /\ UNCHANGED <<new, latest, store>>
      /\ pc \in [Procs -> Labels]
  BY DEF DropIssued, Goto, End, IInv, TypeOK
<1>2. new[p] # NoRecord
  BY <1>1 DEF IInv, NewInv, WithNew
<1>3. Settled(new[p])'
  BY <1>1, <1>2, RevocationSettles, AbandonSettles DEF DropIssued, WithNew
<1>4. CASE q = p
  BY <1>1, <1>3, <1>4 DEF NewInv, WithNew, Undoing
<1>5. CASE q # p
  BY <1>1, <1>5, OthersNew DEF Inside, Outside
<1> QED
  BY <1>4, <1>5

(* Marking the stored record leaves its token where it was.                *)
LEMMA MarkHolds ==
  ASSUME NEW r \in Record
  PROVE  Mark(r) # NoRecord /\ Mark(r) \in Record /\ Tok(Mark(r)) = Tok(r)
<1>1. Mark(r) \in Record
  BY DEF Mark, Record
<1> QED
  BY <1>1, ConstantsAssumption DEF Mark, Tok

LEMMA MarkDroppedNew ==
  ASSUME IInv, NEW p \in Procs, MarkDropped(p), NEW q \in Procs
  PROVE  NewInv(q)'
<1>1. /\ pc[p] = "markDropped" /\ pc' = [pc EXCEPT ![p] = "release"]
      /\ UNCHANGED <<new, latest, revokedFamilies, orphans>>
      /\ store' \in {store, Mark(cur[p])}
      /\ pc \in [Procs -> Labels]
  BY DEF MarkDropped, Goto, End, WriteFails, serverVars, IInv, TypeOK
<1>2. cur[p] \in Record
  BY <1>1, CurrentRecord
<1>3. ASSUME new[p] # NoRecord PROVE Settled(new[p])'
  <2>1. Settled(new[p])
    BY <1>1, <1>3 DEF IInv, NewInv
  <2>2. CASE Holds(store, new[p])
    <3>1. CASE store' = store
      BY <1>1, <2>2, <3>1 DEF Settled, Holds
    <3>2. CASE store' = Mark(cur[p])
      <4>1. store = cur[p]
        BY <1>1 DEF IInv, CurrentInv
      <4>2. Holds(store', new'[p])
        BY <1>1, <1>2, <2>2, <3>2, <4>1, MarkHolds DEF Holds
      <4> QED
        BY <4>2 DEF Settled
    <3> QED
      BY <1>1, <3>1, <3>2
  <2>3. CASE ~Live(new[p]) \/ Orphaned(new[p])
    BY <1>1, <2>3 DEF Settled, Live, Orphaned
  <2> QED
    BY <2>1, <2>2, <2>3 DEF Settled
<1>4. CASE q = p
  BY <1>1, <1>3, <1>4 DEF NewInv, WithNew, Undoing
<1>5. CASE q # p
  BY <1>1, <1>5, OthersNew DEF Inside, Outside
<1> QED
  BY <1>4, <1>5

LEMMA UndoReadFailsNew ==
  ASSUME IInv, NEW p \in Procs, UndoReadFails(p), NEW q \in Procs
  PROVE  NewInv(q)'
<1>1. /\ pc[p] = "undoRead" /\ pc' = [pc EXCEPT ![p] = "release"]
      /\ UNCHANGED new
      /\ pc \in [Procs -> Labels]
  BY DEF UndoReadFails, Goto, End, IInv, TypeOK
<1>2. new[p] # NoRecord
  BY <1>1 DEF IInv, NewInv, WithNew, Undoing
<1>3. Settled(new[p])'
  BY <1>1, <1>2, AbandonSettles DEF UndoReadFails
<1>4. CASE q = p
  BY <1>1, <1>3, <1>4 DEF NewInv, WithNew, Undoing
<1>5. CASE q # p
  BY <1>1, <1>5, OthersNew DEF Inside, Outside
<1> QED
  BY <1>4, <1>5

(* A retention that succeeds keeps the replacement, or the record before   *)
(* it once the replacement's revocation was confirmed.                     *)
LEMMA UndoWriteNew ==
  ASSUME IInv, NEW p \in Procs, UndoWrite(p), NEW q \in Procs
  PROVE  NewInv(q)'
<1>1. /\ pc[p] = "undoWrite" /\ pc' = [pc EXCEPT ![p] = "release"]
      /\ UNCHANGED <<new, latest, revokedFamilies>>
      /\ pc \in [Procs -> Labels]
  BY DEF UndoWrite, Goto, End, serverVars, IInv, TypeOK
<1>2. new[p] # NoRecord /\ NewInv(p) /\ UndoInv(p)
  BY <1>1 DEF IInv, NewInv, WithNew, Undoing
<1>3. Settled(new[p])'
  <2>1. CASE WriteSucceeds(Mark(undo[p]))
    <3>1. CASE p \in revoked
      BY <1>1, <1>2, <3>1 DEF UndoInv, Undoing, Settled, Live
    <3>2. CASE p \notin revoked
      <4>1. undo[p] = new[p]
        BY <1>1, <1>2, <3>2 DEF UndoInv
      <4>2. Holds(store', new'[p])
        BY <1>1, <1>2, <2>1, <4>1, NewRecord, MarkHolds DEF WriteSucceeds, Holds
      <4> QED
        BY <4>2 DEF Settled
    <3> QED
      BY <3>1, <3>2
  <2>2. CASE Abandon(p, "store_refused")
    BY <1>1, <1>2, <2>2, AbandonSettles
  <2> QED
    BY <2>1, <2>2 DEF UndoWrite
<1>4. CASE q = p
  BY <1>1, <1>3, <1>4 DEF NewInv, WithNew, Undoing
<1>5. CASE q # p
  BY <1>1, <1>5, OthersNew DEF Inside, Outside
<1> QED
  BY <1>4, <1>5

(* Ending a family settles its tokens; the others are not touched.         *)
LEMMA EnvironmentNew ==
  ASSUME IInv, Environment, NEW q \in Procs
  PROVE  NewInv(q)'
<1>1. /\ UNCHANGED <<pc, new, cur, latest, store, orphans>>
      /\ revokedFamilies \subseteq revokedFamilies'
  BY DEF Environment, OutsiderBinds, OutsiderLeaves, AccessTokenExpires,
     RegistrationExpires, ServerEndsFamily, procVars, serverVars, clockVars
<1>2. NewInv(q)
  BY DEF IInv
<1>3. new[q] # NoRecord /\ Settled(new[q]) => Settled(new[q])'
  BY <1>1 DEF Settled, Live, Holds, Orphaned
<1>4. Orphaned(new[q])' <=> Orphaned(new[q])
  BY <1>1 DEF Orphaned
<1>5. Interactive(q)' <=> Interactive(q)
  BY <1>1 DEF Interactive
<1> QED
  BY <1>1, <1>2, <1>3, <1>4, <1>5 DEF NewInv

(* A process that dies forgets what it obtained; the others had nothing,   *)
(* unless the dying one was waiting.                                       *)
LEMMA CrashNew ==
  ASSUME IInv, NEW p \in Procs, Crash(p), NEW q \in Procs
  PROVE  NewInv(q)'
<1>1. /\ pc' = [pc EXCEPT ![p] = "idle"] /\ new' = [new EXCEPT ![p] = NoRecord]
      /\ cur' = [cur EXCEPT ![p] = NoRecord]
      /\ UNCHANGED <<latest, revokedFamilies, store>>
      /\ pc \in [Procs -> Labels] /\ new \in [Procs -> Record \cup {NoRecord}]
      /\ cur \in [Procs -> Record \cup {NoRecord}]
  BY DEF Crash, Forget, Goto, serverVars, IInv, TypeOK
<1>2. CASE q = p
  BY <1>1, <1>2 DEF NewInv, WithNew, Undoing
<1>3. CASE q # p /\ Inside(p)
  BY <1>1, <1>3, OthersNew
<1>4. CASE q # p /\ ~Inside(p)
  <2>1. new[p] = NoRecord
    BY <1>4 DEF IInv, NewInv, Inside, Outside, WithNew, Undoing
  <2>2. UNCHANGED orphans
    BY <2>1 DEF Crash, Abandon
  <2>3. NewInv(q) /\ pc'[q] = pc[q] /\ new'[q] = new[q] /\ cur'[q] = cur[q]
    BY <1>1, <1>4 DEF IInv
  <2> QED
    BY <1>1, <2>2, <2>3 DEF NewInv, Orphaned, Settled, Live, Holds, Interactive
<1> QED
  BY <1>2, <1>3, <1>4

(* Taking or giving up the mutex does not touch what others obtained.      *)
LEMMA LockNew ==
  ASSUME IInv, NEW p \in Procs, LockStep(p), NEW q \in Procs
  PROVE  NewInv(q)'
<1>1. /\ UNCHANGED <<latest, revokedFamilies, store, orphans>>
      /\ pc \in [Procs -> Labels] /\ new \in [Procs -> Record \cup {NoRecord}]
      /\ cur \in [Procs -> Record \cup {NoRecord}]
      /\ NewInv(p) /\ NewInv(q)
  BY DEF LockStep, Acquire, BindBusy, PollTimeout, BindFails, Release,
     serverVars, IInv, TypeOK
<1>2. CASE q # p
  <2>1. pc'[q] = pc[q] /\ new'[q] = new[q] /\ cur'[q] = cur[q]
    BY <1>1, <1>2 DEF LockStep, Acquire, BindBusy, PollTimeout, BindFails,
       Release, Forget, Goto
  <2> QED
    BY <1>1, <2>1 DEF NewInv, Orphaned, Settled, Live, Holds, Interactive
<1>3. CASE q = p
  <2>1. new'[p] = NoRecord
    BY <1>1 DEF LockStep, Acquire, BindBusy, PollTimeout, BindFails, Release,
       Forget, NewInv, WithNew, Undoing
  <2>2. pc'[p] \in {"idle", "poll", "metadata", "read"}
    BY <1>1 DEF LockStep, Acquire, BindBusy, PollTimeout, BindFails, Release,
       Forget, Goto
  <2> QED
    BY <1>3, <2>1, <2>2 DEF NewInv, WithNew, Undoing
<1> QED
  BY <1>2, <1>3

-----------------------------------------------------------------------------
(* The conjuncts of the invariant, one by one.                             *)

(* Every step preserves the shape of the state.                            *)
LEMMA TypePreserved ==
  ASSUME IInv, [Next]_vars
  PROVE  TypeOK'
<1> USE ConstantsAssumption
<1> USE DEF IInv, serverVars, clockVars, procVars, worldVars, vars, Goto, End,
     Forget, Abandon, StoreError, WriteSucceeds, WriteFails, Revokes,
     RevokeFails, ReuseEndsFamily, Mark, TypeOK, MutexInv, CurrentInv, NewInv,
     UndoInv, Inside, Outside, WithNew, Undoing, Live, Labels, Results, Record,
     Generations, Token, Tok, Reasons, Operations
<1>1. ASSUME NEW p \in Procs, LockStep(p) PROVE TypeOK'
  <2>1. CASE Acquire(p)
    BY <2>1 DEF Acquire
  <2>2. CASE BindBusy(p)
    BY <2>2 DEF BindBusy
  <2>3. CASE PollTimeout(p)
    BY <2>3 DEF PollTimeout
  <2>4. CASE BindFails(p)
    BY <2>4 DEF BindFails
  <2>5. CASE Release(p)
    BY <2>5 DEF Release
  <2> QED BY <1>1, <2>1, <2>2, <2>3, <2>4, <2>5 DEF LockStep
<1>2. ASSUME NEW p \in Procs, ReadStep(p) PROVE TypeOK'
  <2>1. CASE VerifyMetadata(p)
    BY <2>1 DEF VerifyMetadata
  <2>2. CASE ReadFails(p)
    BY <2>2 DEF ReadFails
  <2>3. CASE ReadForToken(p)
    BY <2>3 DEF ReadForToken
  <2>4. CASE ReadForLogin(p)
    BY <2>4 DEF ReadForLogin
  <2>5. CASE ReadForLogout(p)
    BY <2>5 DEF ReadForLogout
  <2> QED BY <1>2, <2>1, <2>2, <2>3, <2>4, <2>5 DEF ReadStep
<1>3. ASSUME NEW p \in Procs, RefreshStep(p) PROVE TypeOK'
  <2>1. CASE RefreshGranted(p)
    BY <2>1, RefreshGrantedType
  <2>2. CASE RefreshLost(p)
    BY <2>2 DEF RefreshLost
  <2>3. CASE RefreshRefused(p)
    BY <2>3 DEF RefreshRefused
  <2>4. CASE RefreshFails(p)
    BY <2>4 DEF RefreshFails
  <2>5. CASE MarkRefused(p)
    BY <2>5, MarkRefusedType
  <2>6. CASE DropRotated(p)
    BY <2>6 DEF DropRotated
  <2>7. CASE MarkDropped(p)
    BY <2>7 DEF MarkDropped
  <2> QED BY <1>3, <2>1, <2>2, <2>3, <2>4, <2>5, <2>6, <2>7 DEF RefreshStep
<1>4. ASSUME NEW p \in Procs, CommitStep(p) PROVE TypeOK'
  <2>1. CASE CommitSucceeds(p)
    BY <2>1 DEF CommitSucceeds
  <2>2. CASE CommitFails(p)
    BY <2>2 DEF CommitFails
  <2> QED BY <1>4, <2>1, <2>2 DEF CommitStep
<1>5. ASSUME NEW p \in Procs, UndoStep(p) PROVE TypeOK'
  <2>1. CASE UndoRevoke(p)
    BY <2>1 DEF UndoRevoke
  <2>2. CASE UndoRead(p)
    BY <2>2 DEF UndoRead, Retained
  <2>3. CASE UndoReadFails(p)
    BY <2>3 DEF UndoReadFails
  <2>4. CASE UndoWrite(p)
    BY <2>4 DEF UndoWrite
  <2>5. CASE UndoDelete(p)
    BY <2>5 DEF UndoDelete
  <2> QED BY <1>5, <2>1, <2>2, <2>3, <2>4, <2>5 DEF UndoStep
<1>6. ASSUME NEW p \in Procs, InteractiveStep(p) PROVE TypeOK'
  <2>1. CASE RevokeStored(p)
    BY <2>1 DEF RevokeStored
  <2>2. CASE RevokeStoredFails(p)
    BY <2>2 DEF RevokeStoredFails
  <2>3. CASE AuthorizeAnswered(p)
    BY <2>3 DEF AuthorizeAnswered
  <2>4. CASE AuthorizeInvalidClient(p)
    BY <2>4 DEF AuthorizeInvalidClient, InvalidClient
  <2>5. CASE ExchangeInvalidClient(p)
    BY <2>5 DEF ExchangeInvalidClient, InvalidClient
  <2>6. CASE ExchangeGranted(p)
    BY <2>6 DEF ExchangeGranted
  <2>7. CASE ExchangeLost(p)
    BY <2>7 DEF ExchangeLost
  <2>8. CASE ExchangeFails(p)
    BY <2>8 DEF ExchangeFails
  <2>9. CASE DropIssued(p)
    BY <2>9 DEF DropIssued
  <2> QED BY <1>6, <2>1, <2>2, <2>3, <2>4, <2>5, <2>6, <2>7, <2>8, <2>9 DEF
          InteractiveStep
<1>7. ASSUME NEW p \in Procs, LogoutStep(p) PROVE TypeOK'
  <2>1. CASE DeleteAccepted(p)
    BY <2>1 DEF DeleteAccepted
  <2>2. CASE DeleteFails(p)
    BY <2>2 DEF DeleteFails
  <2>3. CASE ConfirmDelete(p)
    BY <2>3 DEF ConfirmDelete
  <2> QED BY <1>7, <2>1, <2>2, <2>3 DEF LogoutStep
<1>8. ASSUME NEW p \in Procs, Crash(p) PROVE TypeOK'
  BY <1>8 DEF Crash
<1>9. ASSUME NEW p \in Procs, NEW o \in Operations, Start(p, o) PROVE TypeOK'
  BY <1>9 DEF Start, Operations
<1>10. CASE Environment
  BY <1>10 DEF Environment, OutsiderBinds, OutsiderLeaves, AccessTokenExpires,
     RegistrationExpires, ServerEndsFamily
<1>11. CASE UNCHANGED vars
  BY <1>11
<1> QED BY <1>1, <1>2, <1>3, <1>4, <1>5, <1>6, <1>7, <1>8, <1>9, <1>10, <1>11
     DEF Next, Proceed, LockStep, ReadStep, RefreshStep, CommitStep, UndoStep,
     InteractiveStep, LogoutStep


(* Every step leaves at most one process inside, the owner of the port.    *)
LEMMA MutexPreserved ==
  ASSUME IInv, [Next]_vars
  PROVE  MutexInv'
<1> USE ConstantsAssumption
<1> USE DEF IInv, serverVars, clockVars, procVars, worldVars, vars, Goto, End,
     Forget, Abandon, StoreError, WriteSucceeds, WriteFails, Revokes,
     RevokeFails, ReuseEndsFamily, Mark, TypeOK, MutexInv, CurrentInv, NewInv,
     UndoInv, Inside, Outside, WithNew, Undoing
<1>1. ASSUME NEW p \in Procs, LockStep(p) PROVE MutexInv'
  BY <1>1 DEF LockStep, Acquire, BindBusy, PollTimeout, BindFails, Release
<1>2. ASSUME NEW p \in Procs, ReadStep(p) PROVE MutexInv'
  BY <1>2 DEF ReadStep, VerifyMetadata, ReadFails, ReadForToken, ReadForLogin,
     ReadForLogout
<1>3. ASSUME NEW p \in Procs, RefreshStep(p) PROVE MutexInv'
  BY <1>3 DEF RefreshStep, RefreshGranted, RefreshLost, RefreshRefused,
     RefreshFails, MarkRefused, DropRotated, MarkDropped
<1>4. ASSUME NEW p \in Procs, CommitStep(p) PROVE MutexInv'
  BY <1>4 DEF CommitStep, CommitSucceeds, CommitFails
<1>5. ASSUME NEW p \in Procs, UndoStep(p) PROVE MutexInv'
  BY <1>5 DEF UndoStep, UndoRevoke, UndoRead, UndoReadFails, UndoWrite,
     UndoDelete, Retained
<1>6. ASSUME NEW p \in Procs, InteractiveStep(p) PROVE MutexInv'
  BY <1>6 DEF InteractiveStep, RevokeStored, RevokeStoredFails,
     AuthorizeAnswered, AuthorizeInvalidClient, ExchangeInvalidClient,
     ExchangeGranted, ExchangeLost, ExchangeFails, DropIssued, InvalidClient
<1>7. ASSUME NEW p \in Procs, LogoutStep(p) PROVE MutexInv'
  BY <1>7 DEF LogoutStep, DeleteAccepted, DeleteFails, ConfirmDelete
<1>8. ASSUME NEW p \in Procs, Crash(p) PROVE MutexInv'
  BY <1>8 DEF Crash
<1>9. ASSUME NEW p \in Procs, NEW o \in Operations, Start(p, o) PROVE MutexInv'
  BY <1>9 DEF Start, Operations
<1>10. CASE Environment
  BY <1>10 DEF Environment, OutsiderBinds, OutsiderLeaves, AccessTokenExpires,
     RegistrationExpires, ServerEndsFamily
<1>11. CASE UNCHANGED vars
  BY <1>11
<1> QED BY <1>1, <1>2, <1>3, <1>4, <1>5, <1>6, <1>7, <1>8, <1>9, <1>10, <1>11
     DEF Next, Proceed, LockStep, ReadStep, RefreshStep, CommitStep, UndoStep,
     InteractiveStep, LogoutStep


(* Every step keeps what each process knows of the stored record true.     *)
LEMMA CurrentPreserved ==
  ASSUME IInv, [Next]_vars
  PROVE  \A q \in Procs : CurrentInv(q)'
<1> SUFFICES ASSUME NEW q \in Procs PROVE CurrentInv(q)'
  OBVIOUS
<1> USE ConstantsAssumption
<1> USE DEF IInv, serverVars, clockVars, procVars, worldVars, vars, Goto, End,
     Forget, Abandon, StoreError, WriteSucceeds, WriteFails, Revokes,
     RevokeFails, ReuseEndsFamily, Mark, TypeOK, MutexInv, CurrentInv, NewInv,
     UndoInv, Inside, Outside, WithNew, Undoing, Live, Holds, Orphaned, Tok,
     TokensInv, Settled, Interactive, Record, Generations
<1>1. ASSUME NEW p \in Procs, LockStep(p) PROVE CurrentInv(q)'
  BY <1>1 DEF LockStep, Acquire, BindBusy, PollTimeout, BindFails, Release
<1>2. ASSUME NEW p \in Procs, ReadStep(p) PROVE CurrentInv(q)'
  BY <1>2 DEF ReadStep, VerifyMetadata, ReadFails, ReadForToken, ReadForLogin,
     ReadForLogout
<1>3. ASSUME NEW p \in Procs, RefreshStep(p) PROVE CurrentInv(q)'
  BY <1>3 DEF RefreshStep, RefreshGranted, RefreshLost, RefreshRefused,
     RefreshFails, MarkRefused, DropRotated, MarkDropped
<1>4. ASSUME NEW p \in Procs, CommitStep(p) PROVE CurrentInv(q)'
  BY <1>4 DEF CommitStep, CommitSucceeds, CommitFails
<1>5. ASSUME NEW p \in Procs, UndoStep(p) PROVE CurrentInv(q)'
  <2>1. CASE UndoRevoke(p)
    BY <2>1 DEF UndoRevoke
  <2>2. CASE UndoRead(p)
    BY <2>2 DEF UndoRead, Retained
  <2>3. CASE UndoReadFails(p)
    BY <2>3 DEF UndoReadFails
  <2>4. CASE UndoWrite(p)
    BY <2>4 DEF UndoWrite
  <2>5. CASE UndoDelete(p)
    BY <2>5 DEF UndoDelete
  <2> QED BY <1>5, <2>1, <2>2, <2>3, <2>4, <2>5 DEF UndoStep
<1>6. ASSUME NEW p \in Procs, InteractiveStep(p) PROVE CurrentInv(q)'
  BY <1>6 DEF InteractiveStep, RevokeStored, RevokeStoredFails,
     AuthorizeAnswered, AuthorizeInvalidClient, ExchangeInvalidClient,
     ExchangeGranted, ExchangeLost, ExchangeFails, DropIssued, InvalidClient
<1>7. ASSUME NEW p \in Procs, LogoutStep(p) PROVE CurrentInv(q)'
  BY <1>7 DEF LogoutStep, DeleteAccepted, DeleteFails, ConfirmDelete
<1>8. ASSUME NEW p \in Procs, Crash(p) PROVE CurrentInv(q)'
  BY <1>8 DEF Crash
<1>9. ASSUME NEW p \in Procs, NEW o \in Operations, Start(p, o) PROVE CurrentInv(q)'
  BY <1>9 DEF Start, Operations
<1>10. CASE Environment
  BY <1>10 DEF Environment, OutsiderBinds, OutsiderLeaves, AccessTokenExpires,
     RegistrationExpires, ServerEndsFamily
<1>11. CASE UNCHANGED vars
  BY <1>11
<1> QED BY <1>1, <1>2, <1>3, <1>4, <1>5, <1>6, <1>7, <1>8, <1>9, <1>10, <1>11
     DEF Next, Proceed, LockStep, ReadStep, RefreshStep, CommitStep, UndoStep,
     InteractiveStep, LogoutStep


(* Every step keeps the choice of what to retain sound.                    *)
LEMMA UndoPreserved ==
  ASSUME IInv, [Next]_vars
  PROVE  \A q \in Procs : UndoInv(q)'
<1> SUFFICES ASSUME NEW q \in Procs PROVE UndoInv(q)'
  OBVIOUS
<1> USE ConstantsAssumption
<1> USE DEF IInv, serverVars, clockVars, procVars, worldVars, vars, Goto, End,
     Forget, Abandon, StoreError, WriteSucceeds, WriteFails, Revokes,
     RevokeFails, ReuseEndsFamily, Mark, TypeOK, MutexInv, CurrentInv, NewInv,
     UndoInv, Inside, Outside, WithNew, Undoing, Live, Holds, Orphaned, Tok,
     TokensInv, Settled, Interactive, Record, Generations
<1>1. ASSUME NEW p \in Procs, LockStep(p) PROVE UndoInv(q)'
  BY <1>1 DEF LockStep, Acquire, BindBusy, PollTimeout, BindFails, Release
<1>2. ASSUME NEW p \in Procs, ReadStep(p) PROVE UndoInv(q)'
  BY <1>2 DEF ReadStep, VerifyMetadata, ReadFails, ReadForToken, ReadForLogin,
     ReadForLogout
<1>3. ASSUME NEW p \in Procs, RefreshStep(p) PROVE UndoInv(q)'
  BY <1>3 DEF RefreshStep, RefreshGranted, RefreshLost, RefreshRefused,
     RefreshFails, MarkRefused, DropRotated, MarkDropped
<1>4. ASSUME NEW p \in Procs, CommitStep(p) PROVE UndoInv(q)'
  BY <1>4 DEF CommitStep, CommitSucceeds, CommitFails
<1>5. ASSUME NEW p \in Procs, UndoStep(p) PROVE UndoInv(q)'
  BY <1>5 DEF UndoStep, UndoRevoke, UndoRead, UndoReadFails, UndoWrite,
     UndoDelete, Retained
<1>6. ASSUME NEW p \in Procs, InteractiveStep(p) PROVE UndoInv(q)'
  BY <1>6 DEF InteractiveStep, RevokeStored, RevokeStoredFails,
     AuthorizeAnswered, AuthorizeInvalidClient, ExchangeInvalidClient,
     ExchangeGranted, ExchangeLost, ExchangeFails, DropIssued, InvalidClient
<1>7. ASSUME NEW p \in Procs, LogoutStep(p) PROVE UndoInv(q)'
  BY <1>7 DEF LogoutStep, DeleteAccepted, DeleteFails, ConfirmDelete
<1>8. ASSUME NEW p \in Procs, Crash(p) PROVE UndoInv(q)'
  BY <1>8 DEF Crash
<1>9. ASSUME NEW p \in Procs, NEW o \in Operations, Start(p, o) PROVE UndoInv(q)'
  BY <1>9 DEF Start, Operations
<1>10. CASE Environment
  BY <1>10 DEF Environment, OutsiderBinds, OutsiderLeaves, AccessTokenExpires,
     RegistrationExpires, ServerEndsFamily
<1>11. CASE UNCHANGED vars
  BY <1>11
<1> QED BY <1>1, <1>2, <1>3, <1>4, <1>5, <1>6, <1>7, <1>8, <1>9, <1>10, <1>11
     DEF Next, Proceed, LockStep, ReadStep, RefreshStep, CommitStep, UndoStep,
     InteractiveStep, LogoutStep


(* Every step keeps the stored token issued and out of the orphans.        *)
LEMMA TokensPreserved ==
  ASSUME IInv, [Next]_vars
  PROVE  TokensInv'
<1> USE ConstantsAssumption
<1> USE DEF IInv, serverVars, clockVars, procVars, worldVars, vars, Goto, End,
     Forget, Abandon, StoreError, WriteSucceeds, WriteFails, Revokes,
     RevokeFails, ReuseEndsFamily, Mark, TypeOK, MutexInv, CurrentInv, NewInv,
     UndoInv, Inside, Outside, WithNew, Undoing, Live, Holds, Orphaned, Tok,
     TokensInv, Settled, Interactive, Record, Generations
<1>1. ASSUME NEW p \in Procs, LockStep(p) PROVE TokensInv'
  BY <1>1 DEF LockStep, Acquire, BindBusy, PollTimeout, BindFails, Release
<1>2. ASSUME NEW p \in Procs, ReadStep(p) PROVE TokensInv'
  BY <1>2 DEF ReadStep, VerifyMetadata, ReadFails, ReadForToken, ReadForLogin,
     ReadForLogout
<1>3. ASSUME NEW p \in Procs, RefreshStep(p) PROVE TokensInv'
  <2>1. CASE RefreshGranted(p)
    BY <2>1, RefreshGrantedTokens
  <2>2. CASE RefreshLost(p)
    BY <2>2, RefreshLostTokens
  <2>3. CASE RefreshRefused(p)
    BY <2>3 DEF RefreshRefused
  <2>4. CASE RefreshFails(p)
    BY <2>4 DEF RefreshFails
  <2>5. CASE MarkRefused(p)
    BY <2>5 DEF MarkRefused
  <2>6. CASE DropRotated(p)
    BY <2>6 DEF DropRotated
  <2>7. CASE MarkDropped(p)
    BY <2>7 DEF MarkDropped
  <2> QED BY <1>3, <2>1, <2>2, <2>3, <2>4, <2>5, <2>6, <2>7 DEF RefreshStep
<1>4. ASSUME NEW p \in Procs, CommitStep(p) PROVE TokensInv'
  BY <1>4 DEF CommitStep, CommitSucceeds, CommitFails
<1>5. ASSUME NEW p \in Procs, UndoStep(p) PROVE TokensInv'
  <2>1. CASE UndoRevoke(p)
    BY <2>1 DEF UndoRevoke
  <2>2. CASE UndoRead(p)
    BY <2>2 DEF UndoRead, Retained
  <2>3. CASE UndoReadFails(p)
    BY <2>3 DEF UndoReadFails
  <2>4. CASE UndoWrite(p)
    BY <2>4 DEF UndoWrite
  <2>5. CASE UndoDelete(p)
    BY <2>5 DEF UndoDelete
  <2> QED BY <1>5, <2>1, <2>2, <2>3, <2>4, <2>5 DEF UndoStep
<1>6. ASSUME NEW p \in Procs, InteractiveStep(p) PROVE TokensInv'
  <2>1. CASE RevokeStored(p)
    BY <2>1 DEF RevokeStored
  <2>2. CASE RevokeStoredFails(p)
    BY <2>2 DEF RevokeStoredFails
  <2>3. CASE AuthorizeAnswered(p)
    BY <2>3 DEF AuthorizeAnswered
  <2>4. CASE AuthorizeInvalidClient(p)
    BY <2>4 DEF AuthorizeInvalidClient, InvalidClient
  <2>5. CASE ExchangeInvalidClient(p)
    BY <2>5 DEF ExchangeInvalidClient, InvalidClient
  <2>6. CASE ExchangeGranted(p)
    BY <2>6, ExchangeGrantedTokens
  <2>7. CASE ExchangeLost(p)
    BY <2>7, ExchangeLostTokens
  <2>8. CASE ExchangeFails(p)
    BY <2>8 DEF ExchangeFails
  <2>9. CASE DropIssued(p)
    BY <2>9 DEF DropIssued
  <2> QED BY <1>6, <2>1, <2>2, <2>3, <2>4, <2>5, <2>6, <2>7, <2>8, <2>9 DEF
          InteractiveStep
<1>7. ASSUME NEW p \in Procs, LogoutStep(p) PROVE TokensInv'
  BY <1>7 DEF LogoutStep, DeleteAccepted, DeleteFails, ConfirmDelete
<1>8. ASSUME NEW p \in Procs, Crash(p) PROVE TokensInv'
  BY <1>8 DEF Crash
<1>9. ASSUME NEW p \in Procs, NEW o \in Operations, Start(p, o) PROVE TokensInv'
  BY <1>9 DEF Start, Operations
<1>10. CASE Environment
  BY <1>10 DEF Environment, OutsiderBinds, OutsiderLeaves, AccessTokenExpires,
     RegistrationExpires, ServerEndsFamily
<1>11. CASE UNCHANGED vars
  BY <1>11
<1> QED BY <1>1, <1>2, <1>3, <1>4, <1>5, <1>6, <1>7, <1>8, <1>9, <1>10, <1>11
     DEF Next, Proceed, LockStep, ReadStep, RefreshStep, CommitStep, UndoStep,
     InteractiveStep, LogoutStep


(* Every step keeps the obtained token newest, or settled.                 *)
LEMMA NewPreserved ==
  ASSUME IInv, [Next]_vars
  PROVE  \A q \in Procs : NewInv(q)'
<1> SUFFICES ASSUME NEW q \in Procs PROVE NewInv(q)'
  OBVIOUS
<1>1. ASSUME NEW p \in Procs, LockStep(p) PROVE NewInv(q)'
  BY <1>1, LockNew
<1>2. ASSUME NEW p \in Procs, Crash(p) PROVE NewInv(q)'
  BY <1>2, CrashNew
<1>3. CASE Environment
  BY <1>3, EnvironmentNew
<1> USE ConstantsAssumption
<1> USE DEF IInv, serverVars, clockVars, procVars, worldVars, vars, Goto, End,
     Forget, Abandon, StoreError, WriteSucceeds, WriteFails, Revokes,
     RevokeFails, ReuseEndsFamily, Mark, TypeOK, MutexInv, CurrentInv, NewInv,
     UndoInv, Inside, Outside, WithNew, Undoing, Live, Holds, Orphaned, Tok,
     TokensInv, Settled, Interactive, Record, Generations
<1>4. ASSUME NEW p \in Procs, ReadStep(p) PROVE NewInv(q)'
  BY <1>4 DEF ReadStep, VerifyMetadata, ReadFails, ReadForToken, ReadForLogin,
     ReadForLogout
<1>5. ASSUME NEW p \in Procs, RefreshStep(p) PROVE NewInv(q)'
  <2>1. CASE RefreshGranted(p)
    BY <2>1 DEF RefreshGranted
  <2>2. CASE RefreshLost(p)
    BY <2>2 DEF RefreshLost
  <2>3. CASE RefreshRefused(p)
    BY <2>3 DEF RefreshRefused
  <2>4. CASE RefreshFails(p)
    BY <2>4 DEF RefreshFails
  <2>5. CASE MarkRefused(p)
    BY <2>5 DEF MarkRefused
  <2>6. CASE DropRotated(p)
    BY <2>6, DropRotatedNew
  <2>7. CASE MarkDropped(p)
    BY <2>7, MarkDroppedNew
  <2> QED BY <1>5, <2>1, <2>2, <2>3, <2>4, <2>5, <2>6, <2>7 DEF RefreshStep
<1>6. ASSUME NEW p \in Procs, CommitStep(p) PROVE NewInv(q)'
  <2>1. CASE CommitSucceeds(p)
    BY <2>1 DEF CommitSucceeds
  <2>2. CASE CommitFails(p)
    BY <2>2 DEF CommitFails
  <2> QED BY <1>6, <2>1, <2>2 DEF CommitStep
<1>7. ASSUME NEW p \in Procs, UndoStep(p) PROVE NewInv(q)'
  <2>1. CASE UndoRevoke(p)
    BY <2>1 DEF UndoRevoke
  <2>2. CASE UndoRead(p)
    BY <2>2 DEF UndoRead, Retained
  <2>3. CASE UndoReadFails(p)
    BY <2>3, UndoReadFailsNew
  <2>4. CASE UndoWrite(p)
    BY <2>4, UndoWriteNew
  <2>5. CASE UndoDelete(p)
    BY <2>5 DEF UndoDelete
  <2> QED BY <1>7, <2>1, <2>2, <2>3, <2>4, <2>5 DEF UndoStep
<1>8. ASSUME NEW p \in Procs, InteractiveStep(p) PROVE NewInv(q)'
  <2>1. CASE RevokeStored(p)
    BY <2>1 DEF RevokeStored
  <2>2. CASE RevokeStoredFails(p)
    BY <2>2 DEF RevokeStoredFails
  <2>3. CASE AuthorizeAnswered(p)
    BY <2>3 DEF AuthorizeAnswered
  <2>4. CASE AuthorizeInvalidClient(p)
    BY <2>4 DEF AuthorizeInvalidClient, InvalidClient
  <2>5. CASE ExchangeInvalidClient(p)
    BY <2>5 DEF ExchangeInvalidClient, InvalidClient
  <2>6. CASE ExchangeGranted(p)
    BY <2>6 DEF ExchangeGranted
  <2>7. CASE ExchangeLost(p)
    BY <2>7 DEF ExchangeLost
  <2>8. CASE ExchangeFails(p)
    BY <2>8 DEF ExchangeFails
  <2>9. CASE DropIssued(p)
    BY <2>9, DropIssuedNew
  <2> QED BY <1>8, <2>1, <2>2, <2>3, <2>4, <2>5, <2>6, <2>7, <2>8, <2>9 DEF
          InteractiveStep
<1>9. ASSUME NEW p \in Procs, LogoutStep(p) PROVE NewInv(q)'
  <2>1. CASE DeleteAccepted(p)
    BY <2>1 DEF DeleteAccepted
  <2>2. CASE DeleteFails(p)
    BY <2>2 DEF DeleteFails
  <2>3. CASE ConfirmDelete(p)
    BY <2>3 DEF ConfirmDelete
  <2> QED BY <1>9, <2>1, <2>2, <2>3 DEF LogoutStep
<1>10. ASSUME NEW p \in Procs, NEW o \in Operations, Start(p, o) PROVE NewInv(q)'
  BY <1>10 DEF Start, Operations
<1>11. CASE UNCHANGED vars
  BY <1>11
<1> QED BY <1>1, <1>2, <1>3, <1>4, <1>5, <1>6, <1>7, <1>8, <1>9, <1>10, <1>11
     DEF Next, Proceed, LockStep, ReadStep, RefreshStep, CommitStep, UndoStep,
     InteractiveStep, LogoutStep


(* Every step keeps reported results backed by the store.                  *)
LEMMA ResultsPreserved ==
  ASSUME IInv, [Next]_vars
  PROVE  ResultsAreCommitted'
<1> USE ConstantsAssumption
<1> USE DEF IInv, serverVars, clockVars, procVars, worldVars, vars, Goto, End,
     Forget, Abandon, StoreError, WriteSucceeds, WriteFails, Revokes,
     RevokeFails, ReuseEndsFamily, Mark, TypeOK, MutexInv, CurrentInv, NewInv,
     UndoInv, Inside, Outside, WithNew, Undoing, Live, ResultsAreCommitted,
     Interactive, Usable
<1>1. ASSUME NEW p \in Procs, LockStep(p) PROVE ResultsAreCommitted'
  <2>1. CASE Acquire(p)
    BY <2>1 DEF Acquire
  <2>2. CASE BindBusy(p)
    BY <2>2 DEF BindBusy
  <2>3. CASE PollTimeout(p)
    BY <2>3 DEF PollTimeout
  <2>4. CASE BindFails(p)
    BY <2>4 DEF BindFails
  <2>5. CASE Release(p)
    BY <2>5 DEF Release
  <2> QED BY <1>1, <2>1, <2>2, <2>3, <2>4, <2>5 DEF LockStep
<1>2. ASSUME NEW p \in Procs, ReadStep(p) PROVE ResultsAreCommitted'
  <2>1. CASE VerifyMetadata(p)
    BY <2>1 DEF VerifyMetadata
  <2>2. CASE ReadFails(p)
    BY <2>2 DEF ReadFails
  <2>3. CASE ReadForToken(p)
    BY <2>3 DEF ReadForToken
  <2>4. CASE ReadForLogin(p)
    BY <2>4 DEF ReadForLogin
  <2>5. CASE ReadForLogout(p)
    BY <2>5 DEF ReadForLogout
  <2> QED BY <1>2, <2>1, <2>2, <2>3, <2>4, <2>5 DEF ReadStep
<1>3. ASSUME NEW p \in Procs, RefreshStep(p) PROVE ResultsAreCommitted'
  <2>1. CASE RefreshGranted(p)
    BY <2>1 DEF RefreshGranted
  <2>2. CASE RefreshLost(p)
    BY <2>2 DEF RefreshLost
  <2>3. CASE RefreshRefused(p)
    BY <2>3 DEF RefreshRefused
  <2>4. CASE RefreshFails(p)
    BY <2>4 DEF RefreshFails
  <2>5. CASE MarkRefused(p)
    BY <2>5 DEF MarkRefused
  <2>6. CASE DropRotated(p)
    BY <2>6 DEF DropRotated
  <2>7. CASE MarkDropped(p)
    BY <2>7 DEF MarkDropped
  <2> QED BY <1>3, <2>1, <2>2, <2>3, <2>4, <2>5, <2>6, <2>7 DEF RefreshStep
<1>4. ASSUME NEW p \in Procs, CommitStep(p) PROVE ResultsAreCommitted'
  <2>1. CASE CommitSucceeds(p)
    BY <2>1 DEF CommitSucceeds
  <2>2. CASE CommitFails(p)
    BY <2>2 DEF CommitFails
  <2> QED BY <1>4, <2>1, <2>2 DEF CommitStep
<1>5. ASSUME NEW p \in Procs, UndoStep(p) PROVE ResultsAreCommitted'
  <2>1. CASE UndoRevoke(p)
    BY <2>1 DEF UndoRevoke
  <2>2. CASE UndoRead(p)
    BY <2>2 DEF UndoRead, Retained
  <2>3. CASE UndoReadFails(p)
    BY <2>3 DEF UndoReadFails
  <2>4. CASE UndoWrite(p)
    BY <2>4 DEF UndoWrite
  <2>5. CASE UndoDelete(p)
    BY <2>5 DEF UndoDelete
  <2> QED BY <1>5, <2>1, <2>2, <2>3, <2>4, <2>5 DEF UndoStep
<1>6. ASSUME NEW p \in Procs, InteractiveStep(p) PROVE ResultsAreCommitted'
  <2>1. CASE RevokeStored(p)
    BY <2>1 DEF RevokeStored
  <2>2. CASE RevokeStoredFails(p)
    BY <2>2 DEF RevokeStoredFails
  <2>3. CASE AuthorizeAnswered(p)
    BY <2>3 DEF AuthorizeAnswered
  <2>4. CASE AuthorizeInvalidClient(p)
    BY <2>4 DEF AuthorizeInvalidClient, InvalidClient
  <2>5. CASE ExchangeInvalidClient(p)
    BY <2>5 DEF ExchangeInvalidClient, InvalidClient
  <2>6. CASE ExchangeGranted(p)
    BY <2>6 DEF ExchangeGranted
  <2>7. CASE ExchangeLost(p)
    BY <2>7 DEF ExchangeLost
  <2>8. CASE ExchangeFails(p)
    BY <2>8 DEF ExchangeFails
  <2>9. CASE DropIssued(p)
    BY <2>9 DEF DropIssued
  <2> QED BY <1>6, <2>1, <2>2, <2>3, <2>4, <2>5, <2>6, <2>7, <2>8, <2>9 DEF
          InteractiveStep
<1>7. ASSUME NEW p \in Procs, LogoutStep(p) PROVE ResultsAreCommitted'
  <2>1. CASE DeleteAccepted(p)
    BY <2>1 DEF DeleteAccepted
  <2>2. CASE DeleteFails(p)
    BY <2>2 DEF DeleteFails
  <2>3. CASE ConfirmDelete(p)
    BY <2>3 DEF ConfirmDelete
  <2> QED BY <1>7, <2>1, <2>2, <2>3 DEF LogoutStep
<1>8. ASSUME NEW p \in Procs, Crash(p) PROVE ResultsAreCommitted'
  BY <1>8 DEF Crash
<1>9. ASSUME NEW p \in Procs, NEW o \in Operations, Start(p, o) PROVE ResultsAreCommitted'
  BY <1>9 DEF Start, Operations
<1>10. CASE Environment
  BY <1>10 DEF Environment, OutsiderBinds, OutsiderLeaves, AccessTokenExpires,
     RegistrationExpires, ServerEndsFamily
<1>11. CASE UNCHANGED vars
  BY <1>11
<1> QED BY <1>1, <1>2, <1>3, <1>4, <1>5, <1>6, <1>7, <1>8, <1>9, <1>10, <1>11
     DEF Next, Proceed, LockStep, ReadStep, RefreshStep, CommitStep, UndoStep,
     InteractiveStep, LogoutStep


-----------------------------------------------------------------------------
(* Steps of the store, and the custody of live tokens.                     *)

LEMMA MarkRefusedKeeps ==
  ASSUME IInv, NEW p \in Procs, MarkRefused(p)
  PROVE  (store # NoRecord /\ ~Holds(store', store)) => ~Live(store)
<1>1. pc[p] = "mark" /\ store' \in {store, Mark(cur[p])}
  BY DEF MarkRefused, WriteSucceeds, WriteFails
<1>2. cur[p] \in Record /\ store = cur[p]
  BY <1>1, CurrentRecord DEF IInv, CurrentInv
<1>3. CASE store' = store
  BY <1>3 DEF Holds
<1>4. CASE store' = Mark(cur[p])
  BY <1>2, <1>4, MarkHolds DEF Holds
<1> QED
  BY <1>1, <1>3, <1>4

(* A retention replaces the record before it by the replacement, or the    *)
(* replacement by the record before it once its revocation was confirmed.  *)
LEMMA UndoWriteKeeps ==
  ASSUME IInv, NEW p \in Procs, UndoWrite(p)
  PROVE  (store # NoRecord /\ ~Holds(store', store)) => ~Live(store)
<1>1. pc[p] = "undoWrite" /\ store' \in {store, Mark(undo[p])}
  BY DEF UndoWrite, WriteSucceeds, WriteFails
<1>2. /\ undo[p] \in Record
      /\ store \in {cur[p], new[p]}
      /\ undo[p] \in {cur[p], new[p]}
      /\ p \notin revoked => undo[p] = new[p]
      /\ cur[p] # NoRecord => ~Live(cur[p])
      /\ p \in revoked => ~Live(new[p])
  BY <1>1 DEF IInv, TypeOK, CurrentInv, UndoInv, WithNew, Undoing
<1>3. CASE store' = store
  BY <1>3 DEF Holds
<1>4. CASE store' = Mark(undo[p]) /\ undo[p] = store
  BY <1>2, <1>4, MarkHolds DEF Holds
<1>5. CASE undo[p] # store
  BY <1>2, <1>5
<1> QED
  BY <1>1, <1>3, <1>4, <1>5

(* A step that takes a token out of the store finds it dead.               *)
LEMMA NeverDroppedStep ==
  ASSUME IInv, [Next]_vars
  PROVE  (store # NoRecord /\ ~Holds(store', store)) => ~Live(store)
<1> SUFFICES ASSUME store # NoRecord, ~Holds(store', store) PROVE ~Live(store)
  OBVIOUS
<1> USE ConstantsAssumption
<1> USE DEF IInv, serverVars, clockVars, procVars, worldVars, vars, Goto, End,
     Forget, Abandon, StoreError, WriteSucceeds, WriteFails, Revokes,
     RevokeFails, ReuseEndsFamily, Mark, TypeOK, MutexInv, CurrentInv, NewInv,
     UndoInv, Inside, Outside, WithNew, Undoing, Live, Holds, Tok, Interactive
<1>1. ASSUME NEW p \in Procs, LockStep(p) PROVE ~Live(store)
  BY <1>1 DEF LockStep, Acquire, BindBusy, PollTimeout, BindFails, Release
<1>2. ASSUME NEW p \in Procs, ReadStep(p) PROVE ~Live(store)
  BY <1>2 DEF ReadStep, VerifyMetadata, ReadFails, ReadForToken, ReadForLogin,
     ReadForLogout
<1>3. ASSUME NEW p \in Procs, RefreshStep(p) PROVE ~Live(store)
  <2>1. CASE MarkRefused(p)
    BY <2>1, MarkRefusedKeeps
  <2>2. CASE RefreshGranted(p) \/ RefreshLost(p) \/ RefreshRefused(p) \/
            RefreshFails(p) \/ DropRotated(p) \/ MarkDropped(p)
    BY <2>2 DEF RefreshGranted, RefreshLost, RefreshRefused, RefreshFails,
       DropRotated, MarkDropped
  <2> QED BY <1>3, <2>1, <2>2 DEF RefreshStep
<1>4. ASSUME NEW p \in Procs, CommitStep(p) PROVE ~Live(store)
  BY <1>4 DEF CommitStep, CommitSucceeds, CommitFails
<1>5. ASSUME NEW p \in Procs, UndoStep(p) PROVE ~Live(store)
  <2>1. CASE UndoWrite(p)
    BY <2>1, UndoWriteKeeps
  <2>2. CASE UndoRevoke(p) \/ UndoRead(p) \/ UndoReadFails(p) \/ UndoDelete(p)
    BY <2>2 DEF UndoRevoke, UndoRead, UndoReadFails, UndoDelete, Retained
  <2> QED BY <1>5, <2>1, <2>2 DEF UndoStep
<1>6. ASSUME NEW p \in Procs, InteractiveStep(p) PROVE ~Live(store)
  BY <1>6 DEF InteractiveStep, RevokeStored, RevokeStoredFails,
     AuthorizeAnswered, AuthorizeInvalidClient, ExchangeInvalidClient,
     ExchangeGranted, ExchangeLost, ExchangeFails, DropIssued, InvalidClient
<1>7. ASSUME NEW p \in Procs, LogoutStep(p) PROVE ~Live(store)
  BY <1>7 DEF LogoutStep, DeleteAccepted, DeleteFails, ConfirmDelete
<1>8. ASSUME NEW p \in Procs, Crash(p) PROVE ~Live(store)
  BY <1>8 DEF Crash
<1>9. ASSUME NEW p \in Procs, NEW o \in Operations, Start(p, o) PROVE ~Live(store)
  BY <1>9 DEF Start, Operations
<1>10. CASE Environment
  BY <1>10 DEF Environment, OutsiderBinds, OutsiderLeaves, AccessTokenExpires,
     RegistrationExpires, ServerEndsFamily
<1>11. CASE UNCHANGED vars
  BY <1>11
<1> QED BY <1>1, <1>2, <1>3, <1>4, <1>5, <1>6, <1>7, <1>8, <1>9, <1>10, <1>11
     DEF Next, Proceed, LockStep, ReadStep, RefreshStep, CommitStep, UndoStep,
     InteractiveStep, LogoutStep


(* Within a family a step only moves the stored record forward.            *)
LEMMA NeverRegressesStep ==
  ASSUME IInv, [Next]_vars
  PROVE  (store # NoRecord /\ store' # NoRecord /\ store'.fam = store.fam) =>
           /\ store'.gen >= store.gen
           /\ store'.gen = store.gen /\ store.st = "reauth_required"
                => store'.st = "reauth_required"
<1> DEFINE Forward ==
      /\ store'.gen >= store.gen
      /\ store'.gen = store.gen /\ store.st = "reauth_required"
           => store'.st = "reauth_required"
<1> SUFFICES ASSUME store # NoRecord, store' # NoRecord, store'.fam = store.fam
             PROVE  Forward
  OBVIOUS
<1> USE ConstantsAssumption
<1> USE DEF IInv, serverVars, clockVars, procVars, worldVars, vars, Goto, End,
     Forget, Abandon, StoreError, WriteSucceeds, WriteFails, Revokes,
     RevokeFails, ReuseEndsFamily, Mark, TypeOK, MutexInv, CurrentInv, NewInv,
     UndoInv, Inside, Outside, WithNew, Undoing, Live, Holds, Tok, Interactive,
     Record, Generations, TokensInv
<1>1. ASSUME NEW p \in Procs, LockStep(p) PROVE Forward
  BY <1>1 DEF LockStep, Acquire, BindBusy, PollTimeout, BindFails, Release
<1>2. ASSUME NEW p \in Procs, ReadStep(p) PROVE Forward
  BY <1>2 DEF ReadStep, VerifyMetadata, ReadFails, ReadForToken, ReadForLogin,
     ReadForLogout
<1>3. ASSUME NEW p \in Procs, RefreshStep(p) PROVE Forward
  BY <1>3 DEF RefreshStep, RefreshGranted, RefreshLost, RefreshRefused,
     RefreshFails, MarkRefused, DropRotated, MarkDropped
<1>4. ASSUME NEW p \in Procs, CommitStep(p) PROVE Forward
  <2>1. CASE CommitSucceeds(p)
    BY <2>1 DEF CommitSucceeds
  <2>2. CASE CommitFails(p)
    BY <2>2 DEF CommitFails
  <2> QED BY <1>4, <2>1, <2>2 DEF CommitStep
<1>5. ASSUME NEW p \in Procs, UndoStep(p) PROVE Forward
  <2>1. CASE UndoRevoke(p)
    BY <2>1 DEF UndoRevoke
  <2>2. CASE UndoRead(p)
    BY <2>2 DEF UndoRead, Retained
  <2>3. CASE UndoReadFails(p)
    BY <2>3 DEF UndoReadFails
  <2>4. CASE UndoWrite(p)
    BY <2>4 DEF UndoWrite
  <2>5. CASE UndoDelete(p)
    BY <2>5 DEF UndoDelete
  <2> QED BY <1>5, <2>1, <2>2, <2>3, <2>4, <2>5 DEF UndoStep
<1>6. ASSUME NEW p \in Procs, InteractiveStep(p) PROVE Forward
  BY <1>6 DEF InteractiveStep, RevokeStored, RevokeStoredFails,
     AuthorizeAnswered, AuthorizeInvalidClient, ExchangeInvalidClient,
     ExchangeGranted, ExchangeLost, ExchangeFails, DropIssued, InvalidClient
<1>7. ASSUME NEW p \in Procs, LogoutStep(p) PROVE Forward
  BY <1>7 DEF LogoutStep, DeleteAccepted, DeleteFails, ConfirmDelete
<1>8. ASSUME NEW p \in Procs, Crash(p) PROVE Forward
  BY <1>8 DEF Crash
<1>9. ASSUME NEW p \in Procs, NEW o \in Operations, Start(p, o) PROVE Forward
  BY <1>9 DEF Start, Operations
<1>10. CASE Environment
  BY <1>10 DEF Environment, OutsiderBinds, OutsiderLeaves, AccessTokenExpires,
     RegistrationExpires, ServerEndsFamily
<1>11. CASE UNCHANGED vars
  BY <1>11
<1> QED BY <1>1, <1>2, <1>3, <1>4, <1>5, <1>6, <1>7, <1>8, <1>9, <1>10, <1>11
     DEF Next, Proceed, LockStep, ReadStep, RefreshStep, CommitStep, UndoStep,
     InteractiveStep, LogoutStep


(* A step that hands no token over keeps every live one in custody, if it  *)
(* drops none from the store.                                              *)
LEMMA CustodyOfStore ==
  ASSUME IInv,
         UNCHANGED <<latest, new, holder>>,
         revokedFamilies \subseteq revokedFamilies',
         orphans \subseteq orphans',
         (store # NoRecord /\ ~Holds(store', store)) => ~Live(store)
  PROVE  Custody'
<1> SUFFICES ASSUME NEW f \in Families, latest'[f] > 0, f \notin revokedFamilies'
             PROVE  InStore(f)' \/ InHand(f)' \/ AccountedFor(f)'
  BY DEF Custody
<1>1. InStore(f) \/ InHand(f) \/ AccountedFor(f)
  BY DEF IInv, Custody
<1>2. InStore(f) => InStore(f)'
  BY DEF InStore, Tok, LiveToken, Live, Holds
<1>3. InHand(f) => InHand(f)'
  BY DEF InHand, LiveToken
<1>4. AccountedFor(f) => AccountedFor(f)'
  BY DEF AccountedFor, LiveToken
<1> QED BY <1>1, <1>2, <1>3, <1>4

(* A process may forget a token that is settled.                           *)
LEMMA CustodyOfForgotten ==
  ASSUME IInv, NEW p \in Procs,
         UNCHANGED <<latest, revokedFamilies, store>>,
         orphans \subseteq orphans',
         \A q \in Procs : q # p /\ holder = q => holder' = q /\ new'[q] = new[q],
         holder = p /\ new[p] # NoRecord =>
           \/ ~Live(new[p])
           \/ Holds(store, new[p])
           \/ \E o \in orphans' : o.tok = Tok(new[p])
  PROVE  Custody'
<1> SUFFICES ASSUME NEW f \in Families, latest'[f] > 0, f \notin revokedFamilies'
             PROVE  InStore(f)' \/ InHand(f)' \/ AccountedFor(f)'
  BY DEF Custody
<1>1. InStore(f) \/ InHand(f) \/ AccountedFor(f)
  BY DEF IInv, Custody
<1>2. InStore(f) => InStore(f)'
  BY DEF InStore, LiveToken
<1>3. AccountedFor(f) => AccountedFor(f)'
  BY DEF AccountedFor, LiveToken
<1>4. ASSUME InHand(f) PROVE InStore(f)' \/ InHand(f)' \/ AccountedFor(f)'
  <2>1. PICK q \in Procs : holder = q /\ new[q] # NoRecord /\ Tok(new[q]) = LiveToken(f)
    BY <1>4 DEF InHand
  <2>2. CASE q # p
    BY <2>1, <2>2 DEF InHand, LiveToken
  <2>3. CASE q = p
    <3>1. Live(new[p])
      BY <2>1, <2>3 DEF Live, Tok, LiveToken
    <3>2. CASE Holds(store, new[p])
      BY <2>1, <2>3, <3>2 DEF InStore, Holds, LiveToken
    <3>3. CASE \E o \in orphans' : o.tok = Tok(new[p])
      BY <2>1, <2>3, <3>3 DEF AccountedFor, LiveToken
    <3> QED
      BY <2>1, <2>3, <3>1, <3>2, <3>3
  <2> QED
    BY <2>2, <2>3
<1> QED
  BY <1>1, <1>2, <1>3, <1>4

LEMMA ReleaseCustody ==
  ASSUME IInv, NEW p \in Procs, Release(p)
  PROVE  Custody'
<1>1. /\ pc[p] = "release" /\ UNCHANGED <<latest, revokedFamilies, store, orphans>>
      /\ \A q \in Procs : q # p => new'[q] = new[q]
  BY DEF Release, Forget, serverVars, IInv, TypeOK
<1>2. holder = p
  BY <1>1 DEF IInv, MutexInv, Inside, Outside
<1>3. new[p] # NoRecord => Settled(new[p])
  BY <1>1 DEF IInv, NewInv
<1> QED
  BY <1>1, <1>2, <1>3, CustodyOfForgotten DEF Settled, Orphaned

LEMMA CrashCustody ==
  ASSUME IInv, NEW p \in Procs, Crash(p)
  PROVE  Custody'
<1>1. /\ UNCHANGED <<latest, revokedFamilies, store>>
      /\ orphans \subseteq orphans'
      /\ \A q \in Procs : q # p /\ holder = q => holder' = q /\ new'[q] = new[q]
  BY DEF Crash, Abandon, Forget, serverVars, IInv, TypeOK
<1>2. new[p] # NoRecord =>
        \/ ~Live(new[p])
        \/ Holds(store, new[p])
        \/ \E o \in orphans' : o.tok = Tok(new[p])
  <2> DEFINE o == [tok |-> Tok(new[p]), why |-> "crash"]
  <2>1. CASE new[p] # NoRecord /\ Live(new[p]) /\ ~Holds(store, new[p])
    <3>1. o \in orphans' /\ o.tok = Tok(new[p])
      BY <1>1, <2>1 DEF Crash, Abandon, Live
    <3> QED
      BY <3>1
  <2> QED
    BY <2>1
<1> QED
  BY <1>1, <1>2, CustodyOfForgotten

(* Nothing is in hand before a token is obtained.                          *)
LEMMA NothingInHand ==
  ASSUME IInv, NEW p \in Procs, pc[p] \in {"refresh", "exchange"}
  PROVE  \A f \in Families : ~InHand(f)
<1>1. holder = p /\ new[p] = NoRecord
  BY DEF IInv, MutexInv, Inside, Outside, NewInv, WithNew, Undoing
<1> QED
  BY <1>1 DEF InHand

(* The families no token is issued in keep what they had.                  *)
LEMMA CustodyOfOthers ==
  ASSUME IInv, NEW p \in Procs, pc[p] \in {"refresh", "exchange"},
         NEW f \in Families, latest'[f] = latest[f], latest'[f] > 0,
         f \notin revokedFamilies,
         UNCHANGED store, orphans \subseteq orphans'
  PROVE  InStore(f)' \/ AccountedFor(f)'
<1>1. InStore(f) \/ AccountedFor(f)
  BY NothingInHand DEF IInv, Custody
<1>2. InStore(f) => InStore(f)'
  BY DEF InStore, LiveToken
<1>3. AccountedFor(f) => AccountedFor(f)'
  BY DEF AccountedFor, LiveToken
<1> QED
  BY <1>1, <1>2, <1>3

LEMMA RefreshGrantedCustody ==
  ASSUME IInv, NEW p \in Procs, RefreshGranted(p)
  PROVE  Custody'
<1>1. /\ pc[p] = "refresh" /\ Live(cur[p])
      /\ latest' = [latest EXCEPT ![cur[p].fam] = @ + 1]
      /\ UNCHANGED <<revokedFamilies, store, orphans, holder>>
      /\ new'[p] = [fam |-> cur[p].fam, gen |-> cur[p].gen + 1, st |-> "active"]
      /\ latest \in [Families -> 0 .. MaxGeneration + 1]
  BY DEF RefreshGranted, IInv, TypeOK
<1>2. latest'[cur[p].fam] = cur[p].gen + 1
  BY <1>1, RotationTypes
<1>3. holder' = p /\ new'[p] # NoRecord
  <2>1. holder = p
    BY <1>1 DEF IInv, MutexInv, Inside, Outside
  <2>2. new'[p] \in Record
    BY <1>1, CurrentRecord, ConstantsAssumption DEF Record, Generations
  <2> QED
    BY <1>1, <2>1, <2>2, ConstantsAssumption
<1>4. ASSUME NEW f \in Families, latest'[f] > 0, f \notin revokedFamilies'
      PROVE  InStore(f)' \/ InHand(f)' \/ AccountedFor(f)'
  <2>1. CASE f = cur[p].fam
    <3>1. Tok(new'[p]) = <<f, latest'[f]>>
      BY <1>1, <1>2, <2>1 DEF Tok
    <3> QED
      BY <1>3, <3>1 DEF InHand, LiveToken
  <2>2. CASE f # cur[p].fam
    <3>1. latest'[f] = latest[f]
      BY <1>1, <2>2
    <3> QED
      BY <1>1, <1>4, <3>1, CustodyOfOthers
  <2> QED
    BY <2>1, <2>2
<1> QED
  BY <1>4 DEF Custody

LEMMA RefreshLostCustody ==
  ASSUME IInv, NEW p \in Procs, RefreshLost(p)
  PROVE  Custody'
<1> DEFINE lost == [tok |-> <<cur[p].fam, cur[p].gen + 1>>, why |-> "lost_reply"]
<1>1. /\ pc[p] = "refresh" /\ Live(cur[p])
      /\ latest' = [latest EXCEPT ![cur[p].fam] = @ + 1]
      /\ UNCHANGED <<revokedFamilies, store>>
      /\ orphans' = orphans \cup {lost}
      /\ latest \in [Families -> 0 .. MaxGeneration + 1]
  BY DEF RefreshLost, IInv, TypeOK
<1>2. latest'[cur[p].fam] = cur[p].gen + 1
  BY <1>1, RotationTypes
<1>3. ASSUME NEW f \in Families, latest'[f] > 0, f \notin revokedFamilies'
      PROVE  InStore(f)' \/ InHand(f)' \/ AccountedFor(f)'
  <2>1. CASE f = cur[p].fam
    <3>1. lost \in orphans' /\ lost.tok = <<f, latest'[f]>>
      BY <1>1, <1>2, <2>1
    <3> QED
      BY <3>1 DEF AccountedFor, LiveToken
  <2>2. CASE f # cur[p].fam
    <3>1. latest'[f] = latest[f]
      BY <1>1, <2>2
    <3> QED
      BY <1>1, <1>3, <3>1, CustodyOfOthers
  <2> QED
    BY <2>1, <2>2
<1> QED
  BY <1>3 DEF Custody

LEMMA ExchangeGrantedCustody ==
  ASSUME IInv, NEW p \in Procs, ExchangeGranted(p)
  PROVE  Custody'
<1>1. PICK f \in Families :
        /\ latest' = [latest EXCEPT ![f] = 1]
        /\ new' = [new EXCEPT ![p] = [fam |-> f, gen |-> 1, st |-> "active"]]
  BY DEF ExchangeGranted
<1>2. /\ pc[p] = "exchange"
      /\ UNCHANGED <<revokedFamilies, store, orphans, holder>>
      /\ latest \in [Families -> 0 .. MaxGeneration + 1]
      /\ new'[p] = [fam |-> f, gen |-> 1, st |-> "active"]
  BY <1>1 DEF ExchangeGranted, IInv, TypeOK
<1>3. holder' = p /\ new'[p] # NoRecord
  <2>1. holder = p
    BY <1>2 DEF IInv, MutexInv, Inside, Outside
  <2>2. new'[p] \in Record
    BY <1>2, ConstantsAssumption DEF Record, Generations
  <2> QED
    BY <1>2, <2>1, <2>2, ConstantsAssumption
<1>4. ASSUME NEW g \in Families, latest'[g] > 0, g \notin revokedFamilies'
      PROVE  InStore(g)' \/ InHand(g)' \/ AccountedFor(g)'
  <2>1. CASE g = f
    <3>1. Tok(new'[p]) = <<g, latest'[g]>>
      BY <1>1, <1>2, <2>1 DEF Tok
    <3> QED
      BY <1>3, <3>1 DEF InHand, LiveToken
  <2>2. CASE g # f
    <3>1. latest'[g] = latest[g]
      BY <1>1, <1>2, <2>2
    <3> QED
      BY <1>2, <1>4, <3>1, CustodyOfOthers
  <2> QED
    BY <2>1, <2>2
<1> QED
  BY <1>4 DEF Custody

LEMMA ExchangeLostCustody ==
  ASSUME IInv, NEW p \in Procs, ExchangeLost(p)
  PROVE  Custody'
<1>1. PICK f \in Families :
        /\ latest' = [latest EXCEPT ![f] = 1]
        /\ orphans' = orphans \cup {[tok |-> <<f, 1>>, why |-> "lost_reply"]}
  BY DEF ExchangeLost
<1> DEFINE lost == [tok |-> <<f, 1>>, why |-> "lost_reply"]
<1>2. /\ pc[p] = "exchange"
      /\ UNCHANGED <<revokedFamilies, store>>
      /\ latest \in [Families -> 0 .. MaxGeneration + 1]
  BY DEF ExchangeLost, IInv, TypeOK
<1>3. ASSUME NEW g \in Families, latest'[g] > 0, g \notin revokedFamilies'
      PROVE  InStore(g)' \/ InHand(g)' \/ AccountedFor(g)'
  <2>1. CASE g = f
    <3>1. lost \in orphans' /\ lost.tok = <<g, latest'[g]>>
      BY <1>1, <1>2, <2>1
    <3> QED
      BY <3>1 DEF AccountedFor, LiveToken
  <2>2. CASE g # f
    <3>1. latest'[g] = latest[g]
      BY <1>1, <1>2, <2>2
    <3> QED
      BY <1>1, <1>2, <1>3, <3>1, CustodyOfOthers
  <2> QED
    BY <2>1, <2>2
<1> QED
  BY <1>3 DEF Custody

(* The server may end a family, and a stranger hold the port only while no *)
(* process is inside.                                                      *)
LEMMA EnvironmentCustody ==
  ASSUME IInv, Environment
  PROVE  Custody'
<1>1. CASE OutsiderBinds \/ OutsiderLeaves
  <2>1. /\ UNCHANGED <<latest, revokedFamilies, store, orphans, new>>
        /\ holder \notin Procs
    BY <1>1, ConstantsAssumption DEF OutsiderBinds, OutsiderLeaves, procVars, serverVars
  <2>2. \A f \in Families : ~InHand(f)
    BY <2>1 DEF InHand
  <2> QED
    BY <2>1, <2>2 DEF IInv, Custody, InStore, AccountedFor, LiveToken
<1>2. CASE \/ AccessTokenExpires \/ RegistrationExpires
           \/ \E f \in Families : ServerEndsFamily(f)
  <2>1. /\ UNCHANGED <<latest, new, holder, store>>
        /\ revokedFamilies \subseteq revokedFamilies'
        /\ orphans \subseteq orphans'
    BY <1>2 DEF AccessTokenExpires, RegistrationExpires, ServerEndsFamily,
       procVars, serverVars
  <2> QED
    BY <2>1, CustodyOfStore DEF Holds
<1> QED
  BY <1>1, <1>2 DEF Environment

(* The port is free for whoever takes it: nobody inside, nothing in hand.  *)
LEMMA AcquireCustody ==
  ASSUME IInv, NEW p \in Procs, Acquire(p)
  PROVE  Custody'
<1>1. /\ UNCHANGED <<latest, revokedFamilies, store, orphans, new>>
      /\ holder \notin Procs
  BY ConstantsAssumption DEF Acquire, serverVars
<1>2. \A f \in Families : ~InHand(f)
  BY <1>1 DEF InHand
<1> QED
  BY <1>1, <1>2 DEF IInv, Custody, InStore, AccountedFor, LiveToken

(* A process that gives up waiting had nothing in hand.                    *)
LEMMA WaiterCustody ==
  ASSUME IInv, NEW p \in Procs, PollTimeout(p) \/ BindFails(p)
  PROVE  Custody'
<1>1. /\ pc[p] \in Outside
      /\ UNCHANGED <<latest, revokedFamilies, store, orphans, holder>>
      /\ \A q \in Procs : q # p => new'[q] = new[q]
  BY DEF PollTimeout, BindFails, Forget, serverVars, Outside, IInv, TypeOK
<1>2. holder # p
  BY <1>1 DEF IInv, MutexInv, Inside
<1> QED
  BY <1>1, <1>2, CustodyOfForgotten

(* Every step keeps every live token in custody.                           *)
LEMMA CustodyPreserved ==
  ASSUME IInv, [Next]_vars
  PROVE  Custody'
<1> DEFINE Quiet ==
      /\ UNCHANGED <<latest, new, holder>>
      /\ revokedFamilies \subseteq revokedFamilies'
      /\ orphans \subseteq orphans'
<1>1. (store # NoRecord /\ ~Holds(store', store)) => ~Live(store)
  BY NeverDroppedStep
<1>2. Quiet => Custody'
  BY <1>1, CustodyOfStore
<1>3. ASSUME NEW p \in Procs, LockStep(p) PROVE Custody'
  <2>1. CASE Release(p)
    BY <2>1, ReleaseCustody
  <2>2. CASE Acquire(p)
    BY <2>2, AcquireCustody
  <2>3. CASE PollTimeout(p) \/ BindFails(p)
    BY <2>3, WaiterCustody
  <2>4. CASE BindBusy(p)
    <3>1. Quiet
      BY <2>4 DEF BindBusy, serverVars, clockVars, worldVars, Abandon, Revokes,
         RevokeFails, ReuseEndsFamily
    <3> QED BY <1>2, <3>1
  <2> QED BY <1>3, <2>1, <2>2, <2>3, <2>4 DEF LockStep
<1>4. ASSUME NEW p \in Procs, ReadStep(p) PROVE Custody'
  <2>1. CASE VerifyMetadata(p) \/ ReadFails(p) \/ ReadForToken(p) \/
            ReadForLogin(p) \/ ReadForLogout(p)
    <3>1. Quiet
      BY <2>1 DEF VerifyMetadata, ReadFails, ReadForToken, ReadForLogin,
         ReadForLogout, serverVars, clockVars, worldVars, Abandon, Revokes,
         RevokeFails, ReuseEndsFamily
    <3> QED BY <1>2, <3>1
  <2> QED BY <1>4, <2>1 DEF ReadStep
<1>5. ASSUME NEW p \in Procs, RefreshStep(p) PROVE Custody'
  <2>1. CASE RefreshGranted(p)
    BY <2>1, RefreshGrantedCustody
  <2>2. CASE RefreshLost(p)
    BY <2>2, RefreshLostCustody
  <2>3. CASE RefreshRefused(p) \/ RefreshFails(p) \/ MarkRefused(p) \/
            DropRotated(p) \/ MarkDropped(p)
    <3>1. Quiet
      BY <2>3 DEF RefreshRefused, RefreshFails, MarkRefused, DropRotated,
         MarkDropped, serverVars, clockVars, worldVars, Abandon, Revokes,
         RevokeFails, ReuseEndsFamily
    <3> QED BY <1>2, <3>1
  <2> QED BY <1>5, <2>1, <2>2, <2>3 DEF RefreshStep
<1>6. ASSUME NEW p \in Procs, CommitStep(p) PROVE Custody'
  <2>1. CASE CommitSucceeds(p) \/ CommitFails(p)
    <3>1. Quiet
      BY <2>1 DEF CommitSucceeds, CommitFails, serverVars, clockVars,
         worldVars, Abandon, Revokes, RevokeFails, ReuseEndsFamily
    <3> QED BY <1>2, <3>1
  <2> QED BY <1>6, <2>1 DEF CommitStep
<1>7. ASSUME NEW p \in Procs, UndoStep(p) PROVE Custody'
  <2>1. CASE UndoRevoke(p) \/ UndoRead(p) \/ UndoReadFails(p) \/ UndoWrite(p)
            \/ UndoDelete(p)
    <3>1. Quiet
      BY <2>1 DEF UndoRevoke, UndoRead, UndoReadFails, UndoWrite, UndoDelete,
         serverVars, clockVars, worldVars, Abandon, Revokes, RevokeFails,
         ReuseEndsFamily
    <3> QED BY <1>2, <3>1
  <2> QED BY <1>7, <2>1 DEF UndoStep
<1>8. ASSUME NEW p \in Procs, InteractiveStep(p) PROVE Custody'
  <2>1. CASE ExchangeGranted(p)
    BY <2>1, ExchangeGrantedCustody
  <2>2. CASE ExchangeLost(p)
    BY <2>2, ExchangeLostCustody
  <2>3. CASE RevokeStored(p) \/ RevokeStoredFails(p) \/ AuthorizeAnswered(p) \/
            AuthorizeInvalidClient(p) \/ ExchangeInvalidClient(p) \/
            ExchangeFails(p) \/ DropIssued(p)
    <3>1. Quiet
      BY <2>3 DEF RevokeStored, RevokeStoredFails, AuthorizeAnswered,
         AuthorizeInvalidClient, ExchangeInvalidClient, ExchangeFails,
         DropIssued, InvalidClient, serverVars, clockVars, worldVars, Abandon,
         Revokes, RevokeFails, ReuseEndsFamily
    <3> QED BY <1>2, <3>1
  <2> QED BY <1>8, <2>1, <2>2, <2>3 DEF InteractiveStep
<1>9. ASSUME NEW p \in Procs, LogoutStep(p) PROVE Custody'
  <2>1. CASE DeleteAccepted(p) \/ DeleteFails(p) \/ ConfirmDelete(p)
    <3>1. Quiet
      BY <2>1 DEF DeleteAccepted, DeleteFails, ConfirmDelete, serverVars,
         clockVars, worldVars, Abandon, Revokes, RevokeFails, ReuseEndsFamily
    <3> QED BY <1>2, <3>1
  <2> QED BY <1>9, <2>1 DEF LogoutStep
<1>10. ASSUME NEW p \in Procs, Crash(p) PROVE Custody'
  BY <1>10, CrashCustody
<1>11. ASSUME NEW p \in Procs, NEW o \in Operations, Start(p, o) PROVE Custody'
  BY <1>11, <1>2 DEF Start, serverVars
<1>12. CASE Environment
  BY <1>12, EnvironmentCustody
<1>13. CASE UNCHANGED vars
  BY <1>13, <1>2 DEF vars, procVars, serverVars
<1> QED BY <1>3, <1>4, <1>5, <1>6, <1>7, <1>8, <1>9, <1>10, <1>11, <1>12, <1>13
        DEF Next, Proceed

-----------------------------------------------------------------------------
(* The theorems.                                                           *)

LEMMA InitiallyIInv == Init => IInv
<1> SUFFICES ASSUME Init PROVE IInv
  OBVIOUS
<1> USE ConstantsAssumption
<1>1. TypeOK
  BY DEF Init, TypeOK, Labels, Outside, Results
<1>2. MutexInv
  BY DEF Init, MutexInv, Inside, Outside
<1>3. \A p \in Procs : CurrentInv(p) /\ NewInv(p) /\ UndoInv(p)
  BY DEF Init, CurrentInv, NewInv, UndoInv, Outside, WithNew, Undoing
<1>4. TokensInv
  BY DEF Init, TokensInv
<1>5. Custody /\ ResultsAreCommitted
  BY DEF Init, Custody, ResultsAreCommitted
<1> QED
  BY <1>1, <1>2, <1>3, <1>4, <1>5 DEF IInv

LEMMA StepIInv == IInv /\ [Next]_vars => IInv'
<1> SUFFICES ASSUME IInv, [Next]_vars PROVE IInv'
  OBVIOUS
<1>1. \A p \in Procs : CurrentInv(p)' /\ NewInv(p)' /\ UndoInv(p)'
  BY CurrentPreserved, NewPreserved, UndoPreserved
<1> QED
  BY <1>1, TypePreserved, MutexPreserved, TokensPreserved, CustodyPreserved,
     ResultsPreserved DEF IInv

(* The strengthened invariant holds in every reachable state.              *)
THEOREM Inductive == Spec => []IInv
<1> QED
  BY InitiallyIInv, StepIInv, PTL DEF Spec

(* Every variable keeps its shape: generations never leave their bound     *)
(* although every refresh adds one, and no null record is ever presented.  *)
THEOREM TypeCorrect == Spec => []TypeOK
<1>1. IInv => TypeOK
  BY DEF IInv
<1> QED
  BY <1>1, Inductive, PTL

(* No return path, compensation or interleaving of any number of processes *)
(* silently loses a refresh token the server still honours.                *)
THEOREM CustodyKept == Spec => []Custody
<1>1. IInv => Custody
  BY DEF IInv
<1> QED
  BY <1>1, Inductive, PTL

(* A refresh token is the stored one when it is presented.                 *)
THEOREM StoredTokenPresented == Spec => []PresentsStoredToken
<1>1. IInv => PresentsStoredToken
  BY DEF IInv, CurrentInv, PresentsStoredToken
<1> QED
  BY <1>1, Inductive, PTL

(* A successful call is backed by the store, a logout by a dead family.    *)
THEOREM ResultsCommitted == Spec => []ResultsAreCommitted
<1>1. IInv => ResultsAreCommitted
  BY DEF IInv
<1> QED
  BY <1>1, Inductive, PTL

(* No step takes a refresh token out of the store while it is honoured.    *)
THEOREM NeverDropped == Spec => LiveTokenNeverDropped
<1>1. IInv /\ [Next]_vars
        => [(store # NoRecord /\ ~Holds(store', store)) => ~Live(store)]_vars
  BY NeverDroppedStep
<1> QED
  BY <1>1, Inductive, PTL DEF Spec, LiveTokenNeverDropped

(* No step moves the stored record back within its family.                 *)
THEOREM NeverRegresses == Spec => RecordNeverRegresses
<1>1. IInv /\ [Next]_vars
        => [(store # NoRecord /\ store' # NoRecord /\ store'.fam = store.fam) =>
              /\ store'.gen >= store.gen
              /\ store'.gen = store.gen /\ store.st = "reauth_required"
                   => store'.st = "reauth_required"]_vars
  BY NeverRegressesStep
<1> QED
  BY <1>1, Inductive, PTL DEF Spec, RecordNeverRegresses
-----------------------------------------------------------------------------
(* The refinement: what the session does to the refresh tokens is what      *)
(* GrantCustody allows.  Only four variables show in a token's phase, so    *)
(* that the steps fall into five kinds.                                     *)

StoreKind == UNCHANGED <<latest, revokedFamilies, orphans>>

EndKind ==
  /\ UNCHANGED <<latest, store, orphans>>
  /\ \E f \in Families : latest[f] > 0 /\ revokedFamilies' = revokedFamilies \cup {f}

LoseKind ==
  /\ UNCHANGED <<latest, store, revokedFamilies>>
  /\ \E o \in [tok : Token, why : Reasons] : orphans' = orphans \cup {o}

RotateKind == \E p \in Procs : RefreshGranted(p) \/ RefreshLost(p)

IssueKind == \E p \in Procs : ExchangeGranted(p) \/ ExchangeLost(p)

Kinds == StoreKind \/ EndKind \/ LoseKind \/ RotateKind \/ IssueKind

(* A process presents, revokes and abandons only tokens that were issued.   *)
LEMMA IssuedRecords ==
  ASSUME IInv, NEW p \in Procs
  PROVE  /\ pc[p] \in {"refresh", "revokeStored"} =>
              cur[p].fam \in Families /\ latest[cur[p].fam] > 0
         /\ pc[p] \in WithNew =>
              new[p].fam \in Families /\ latest[new[p].fam] > 0
<1>1. TypeOK /\ CurrentInv(p) /\ NewInv(p)
  BY DEF IInv
<1>2. ASSUME pc[p] \in {"refresh", "revokeStored"}
      PROVE  cur[p].fam \in Families /\ latest[cur[p].fam] > 0
  <2>1. /\ cur[p].fam \in Families /\ cur[p].gen \in Generations
        /\ cur[p].gen <= latest[cur[p].fam]
    BY <1>1, <1>2, CurrentRecord DEF CurrentInv
  <2>2. latest[cur[p].fam] \in Nat
    BY <1>1, <2>1 DEF TypeOK
  <2> QED
    BY <2>1, <2>2, ConstantsAssumption DEF Generations
<1>3. ASSUME pc[p] \in WithNew
      PROVE  new[p].fam \in Families /\ latest[new[p].fam] > 0
  <2>1. new[p] # NoRecord /\ latest[new[p].fam] = new[p].gen
    BY <1>1, <1>3 DEF NewInv
  <2>2. new[p].fam \in Families /\ new[p].gen \in Generations
    BY <2>1, NewRecord
  <2> QED
    BY <2>1, <2>2, ConstantsAssumption DEF Generations
<1> QED
  BY <1>2, <1>3

(* A request that may end the family of an issued record.                   *)
LEMMA EndsOrNot ==
  ASSUME NEW r, r.fam \in Families, latest[r.fam] > 0,
         Revokes(r) \/ RevokeFails(r) \/ ReuseEndsFamily(r)
           \/ UNCHANGED revokedFamilies,
         UNCHANGED <<latest, store, orphans>>
  PROVE  StoreKind \/ EndKind
<1>1. revokedFamilies' \in {revokedFamilies, revokedFamilies \cup {r.fam}}
  BY DEF Revokes, RevokeFails, ReuseEndsFamily
<1> QED
  BY <1>1 DEF StoreKind, EndKind

(* Giving up loses at most one token.                                       *)
LEMMA LosesOrNot ==
  ASSUME IInv, NEW p \in Procs, NEW why \in Reasons, Abandon(p, why),
         UNCHANGED <<latest, store, revokedFamilies>>
  PROVE  StoreKind \/ LoseKind
<1> DEFINE o == [tok |-> Tok(new[p]), why |-> why]
<1>1. orphans' = orphans \/ (new[p] # NoRecord /\ orphans' = orphans \cup {o})
  BY DEF Abandon
<1>2. new[p] # NoRecord => o \in [tok : Token, why : Reasons]
  BY NewRecord
<1> HIDE DEF o
<1> QED
  BY <1>1, <1>2 DEF StoreKind, LoseKind

(* ... and when the revocation ended the family, there is nothing to lose.  *)
LEMMA RevokedOrAbandoned ==
  ASSUME IInv, NEW p \in Procs, pc[p] \in WithNew, UNCHANGED <<latest, store>>,
         \/ Revokes(new[p]) /\ UNCHANGED orphans
         \/ RevokeFails(new[p]) /\ Abandon(p, "revoke_failed")
  PROVE  StoreKind \/ EndKind \/ LoseKind
<1>1. new[p].fam \in Families /\ latest[new[p].fam] > 0
  BY IssuedRecords
<1>2. CASE UNCHANGED orphans
  BY <1>1, <1>2, EndsOrNot
<1>3. CASE RevokeFails(new[p]) /\ Abandon(p, "revoke_failed")
  <2>1. CASE UNCHANGED revokedFamilies
    BY <1>3, <2>1, LosesOrNot DEF Reasons
  <2>2. CASE revokedFamilies' = revokedFamilies \cup {new[p].fam}
    <3>1. UNCHANGED orphans
      BY <1>3, <2>2 DEF Abandon
    <3> QED
      BY <1>2, <3>1
  <2> QED
    BY <1>3, <2>1, <2>2 DEF RevokeFails
<1> QED
  BY <1>2, <1>3

(* What a failed commit retains: either the store takes it, or the token    *)
(* obtained is lost, not both.                                              *)
LEMMA UndoWriteKind ==
  ASSUME IInv, NEW p \in Procs, UndoWrite(p)
  PROVE  StoreKind \/ LoseKind
<1>1. /\ pc[p] = "undoWrite" /\ UNCHANGED <<latest, revokedFamilies, new>>
      /\ NewInv(p) /\ UndoInv(p)
  BY DEF UndoWrite, serverVars, IInv
<1>2. CASE WriteSucceeds(Mark(undo[p])) /\ UNCHANGED orphans
  BY <1>1, <1>2 DEF StoreKind
<1>3. CASE WriteFails(Mark(undo[p])) /\ Abandon(p, "store_refused")
  <2>1. CASE store' = store
    BY <1>1, <1>3, <2>1, LosesOrNot DEF Reasons
  <2>2. CASE store' = Mark(undo[p])
    <3>1. undo[p] # NoRecord /\ undo[p] \in {cur[p], new[p]}
      BY <1>1 DEF UndoInv
    <3>2. CASE undo[p] = new[p]
      <4>1. Holds(store', new[p])
        <5>1. new[p] \in Record
          BY <3>1, <3>2, NewRecord
        <5> QED
          BY <2>2, <3>2, <5>1, MarkHolds DEF Holds
      <4> QED
        BY <1>1, <1>3, <4>1 DEF Abandon, StoreKind
    <3>3. CASE undo[p] # new[p]
      <4>1. p \in revoked /\ ~Live(new[p])
        BY <1>1, <3>3 DEF UndoInv, Undoing
      <4> QED
        BY <1>1, <1>3, <4>1 DEF Abandon, Live, StoreKind
    <3> QED
      BY <3>2, <3>3
  <2> QED
    BY <1>3, <2>1, <2>2 DEF WriteFails
<1> QED
  BY <1>2, <1>3 DEF UndoWrite

(* Every step is of one of the kinds.                                       *)
LEMMA StepKinds ==
  ASSUME IInv, [Next]_vars
  PROVE  Kinds
<1>1. ASSUME NEW p \in Procs, LockStep(p) PROVE Kinds
  BY <1>1 DEF LockStep, Acquire, BindBusy, PollTimeout, BindFails, Release, serverVars,
     StoreKind, Kinds
<1>2. ASSUME NEW p \in Procs, ReadStep(p) PROVE Kinds
  BY <1>2 DEF ReadStep, VerifyMetadata, ReadFails, ReadForToken, ReadForLogin,
     ReadForLogout, worldVars, serverVars, StoreKind, Kinds
<1>3. ASSUME NEW p \in Procs, RefreshStep(p) PROVE Kinds
  <2>1. CASE RefreshGranted(p) \/ RefreshLost(p)
    BY <2>1 DEF RotateKind, Kinds
  <2>2. CASE RefreshRefused(p) \/ RefreshFails(p)
    <3>1. /\ pc[p] = "refresh" /\ UNCHANGED <<latest, store, orphans>>
          /\ ReuseEndsFamily(cur[p]) \/ UNCHANGED revokedFamilies
      BY <2>2 DEF RefreshRefused, RefreshFails
    <3> QED
      BY <3>1, IssuedRecords, EndsOrNot DEF Kinds
  <2>3. CASE MarkRefused(p) \/ MarkDropped(p)
    BY <2>3 DEF MarkRefused, MarkDropped, serverVars, StoreKind, Kinds
  <2>4. CASE DropRotated(p)
    BY <2>4, RevokedOrAbandoned DEF DropRotated, WithNew, Kinds
  <2> QED
    BY <1>3, <2>1, <2>2, <2>3, <2>4 DEF RefreshStep
<1>4. ASSUME NEW p \in Procs, CommitStep(p) PROVE Kinds
  BY <1>4 DEF CommitStep, CommitSucceeds, CommitFails, serverVars, StoreKind, Kinds
<1>5. ASSUME NEW p \in Procs, UndoStep(p) PROVE Kinds
  <2>1. CASE UndoRevoke(p)
    <3>1. /\ pc[p] \in WithNew /\ UNCHANGED <<latest, store, orphans>>
          /\ Revokes(new[p]) \/ RevokeFails(new[p])
      BY <2>1 DEF UndoRevoke, WithNew, Undoing
    <3> QED
      BY <3>1, IssuedRecords, EndsOrNot DEF Kinds
  <2>2. CASE UndoRead(p) \/ UndoDelete(p)
    BY <2>2 DEF UndoRead, UndoDelete, worldVars, serverVars, StoreKind, Kinds
  <2>3. CASE UndoReadFails(p)
    BY <2>3, LosesOrNot DEF UndoReadFails, serverVars, Reasons, Kinds
  <2>4. CASE UndoWrite(p)
    BY <2>4, UndoWriteKind DEF Kinds
  <2> QED
    BY <1>5, <2>1, <2>2, <2>3, <2>4 DEF UndoStep
<1>6. ASSUME NEW p \in Procs, InteractiveStep(p) PROVE Kinds
  <2>1. CASE ExchangeGranted(p) \/ ExchangeLost(p)
    BY <2>1 DEF IssueKind, Kinds
  <2>2. CASE RevokeStored(p) \/ RevokeStoredFails(p)
    <3>1. /\ pc[p] = "revokeStored" /\ UNCHANGED <<latest, store, orphans>>
          /\ Revokes(cur[p]) \/ RevokeFails(cur[p])
      BY <2>2 DEF RevokeStored, RevokeStoredFails
    <3> QED
      BY <3>1, IssuedRecords, EndsOrNot DEF Kinds
  <2>3. CASE \/ AuthorizeAnswered(p) \/ AuthorizeInvalidClient(p)
             \/ ExchangeInvalidClient(p) \/ ExchangeFails(p)
    BY <2>3 DEF AuthorizeAnswered, AuthorizeInvalidClient, ExchangeInvalidClient,
       ExchangeFails, InvalidClient, worldVars, serverVars, StoreKind, Kinds
  <2>4. CASE DropIssued(p)
    BY <2>4, RevokedOrAbandoned DEF DropIssued, WithNew, Kinds
  <2> QED
    BY <1>6, <2>1, <2>2, <2>3, <2>4 DEF InteractiveStep
<1>7. ASSUME NEW p \in Procs, LogoutStep(p) PROVE Kinds
  BY <1>7 DEF LogoutStep, DeleteAccepted, DeleteFails, ConfirmDelete, worldVars,
     serverVars, StoreKind, Kinds
<1>8. ASSUME NEW p \in Procs, Crash(p) PROVE Kinds
  BY <1>8, LosesOrNot DEF Crash, serverVars, Reasons, Kinds
<1>9. ASSUME NEW p \in Procs, NEW o \in Operations, Start(p, o) PROVE Kinds
  BY <1>9 DEF Start, serverVars, StoreKind, Kinds
<1>10. CASE Environment
  BY <1>10 DEF Environment, OutsiderBinds, OutsiderLeaves, AccessTokenExpires,
     RegistrationExpires, ServerEndsFamily, serverVars, StoreKind, EndKind, Kinds
<1>11. CASE UNCHANGED vars
  BY <1>11 DEF vars, serverVars, StoreKind, Kinds
<1> QED
  BY <1>1, <1>2, <1>3, <1>4, <1>5, <1>6, <1>7, <1>8, <1>9, <1>10, <1>11
  DEF Next, Proceed

(* Nothing is revoked that was not issued.                                  *)
LEMMA RevokedStep ==
  ASSUME IInv, RevokedAreIssued, [Next]_vars
  PROVE  RevokedAreIssued'
<1>1. Kinds
  BY StepKinds
<1>2. CASE StoreKind \/ LoseKind
  BY <1>2 DEF StoreKind, LoseKind, RevokedAreIssued
<1>3. CASE EndKind
  BY <1>3 DEF EndKind, RevokedAreIssued
<1>4. CASE RotateKind
  <2>1. PICK p \in Procs : RefreshGranted(p) \/ RefreshLost(p)
    BY <1>4 DEF RotateKind
  <2>2. /\ pc[p] = "refresh" /\ Live(cur[p]) /\ UNCHANGED revokedFamilies
        /\ latest' = [latest EXCEPT ![cur[p].fam] = @ + 1]
    BY <2>1 DEF RefreshGranted, RefreshLost
  <2>3. \A f \in Families : latest[f] \in Nat /\ latest'[f] \in Nat /\ latest[f] <= latest'[f]
    BY <2>2, RotationTypes
  <2>4. revokedFamilies \subseteq Families
    BY DEF IInv, TypeOK
  <2> QED
    BY <2>2, <2>3, <2>4 DEF RevokedAreIssued
<1>5. CASE IssueKind
  <2>1. PICK p \in Procs : ExchangeGranted(p) \/ ExchangeLost(p)
    BY <1>5 DEF IssueKind
  <2>2. PICK f \in Families : latest[f] = 0 /\ latest' = [latest EXCEPT ![f] = 1]
    BY <2>1 DEF ExchangeGranted, ExchangeLost
  <2>3. UNCHANGED revokedFamilies /\ revokedFamilies \subseteq Families
    BY <2>1 DEF ExchangeGranted, ExchangeLost, IInv, TypeOK
  <2>4. \A g \in Families : latest[g] \in Nat /\ latest'[g] \in Nat /\ latest[g] <= latest'[g]
    BY <2>2, IssueTypes
  <2> QED
    BY <2>3, <2>4 DEF RevokedAreIssued
<1> QED
  BY <1>1, <1>2, <1>3, <1>4, <1>5 DEF Kinds

(* An abstract step in terms of phases: one token changes its own.          *)
OthersKeepPhase(t) == \A u \in Token : u # t => Phase(u)' = Phase(u)

LEMMA TokensAreTokens == Grants!Tokens = Token
  BY DEF Grants!Tokens, Token, Generations

LEMMA AbstractStutter ==
  ASSUME \A t \in Token : Phase(t)' = Phase(t)
  PROVE  UNCHANGED [t \in Token |-> Phase(t)]
  OBVIOUS

LEMMA AbstractChange ==
  ASSUME NEW t \in Token, NEW x, Phase(t)' = x, OthersKeepPhase(t)
  PROVE  [u \in Token |-> Phase(u)]' = [[u \in Token |-> Phase(u)] EXCEPT ![t] = x]
  BY DEF OthersKeepPhase

LEMMA AbstractStore ==
  ASSUME NEW t \in Token, Phase(t) = "held", Phase(t)' = "stored",
         OthersKeepPhase(t), \A u \in Token : Phase(u) # "stored"
  PROVE  Grants!CustodyNext
<1>1. [u \in Token |-> Phase(u)]' = [[u \in Token |-> Phase(u)] EXCEPT ![t] = "stored"]
  BY AbstractChange
<1>2. Grants!Store(t)
  BY <1>1, TokensAreTokens DEF Grants!Store
<1> QED
  BY <1>2, TokensAreTokens DEF Grants!CustodyNext

LEMMA AbstractLose ==
  ASSUME NEW t \in Token, Phase(t) = "held", Phase(t)' = "orphaned", OthersKeepPhase(t)
  PROVE  Grants!CustodyNext
<1>1. [u \in Token |-> Phase(u)]' = [[u \in Token |-> Phase(u)] EXCEPT ![t] = "orphaned"]
  BY AbstractChange
<1>2. Grants!Lose(t)
  BY <1>1 DEF Grants!Lose
<1> QED
  BY <1>2, TokensAreTokens DEF Grants!CustodyNext

LEMMA AbstractDie ==
  ASSUME NEW t \in Token, Phase(t) \in {"held", "stored", "orphaned"},
         Phase(t)' = "dead", OthersKeepPhase(t)
  PROVE  Grants!CustodyNext
<1>1. [u \in Token |-> Phase(u)]' = [[u \in Token |-> Phase(u)] EXCEPT ![t] = "dead"]
  BY AbstractChange
<1>2. Grants!Die(t)
  BY <1>1 DEF Grants!Die, Grants!Alive
<1> QED
  BY <1>2, TokensAreTokens DEF Grants!CustodyNext

LEMMA AbstractIssue ==
  ASSUME NEW f \in Families, NEW x \in {"held", "orphaned"},
         \A g \in Generations : Phase(<<f, g>>) = "unissued",
         \A t \in Token : Phase(t) # "held",
         Phase(<<f, 1>>)' = x, OthersKeepPhase(<<f, 1>>)
  PROVE  Grants!CustodyNext
<1>1. <<f, 1>> \in Token /\ \A g \in Generations : <<f, g>> \in Token
  BY ConstantsAssumption DEF Token, Generations
<1>2. [u \in Token |-> Phase(u)]' = [[u \in Token |-> Phase(u)] EXCEPT ![<<f, 1>>] = x]
  BY <1>1, AbstractChange
<1>3. Grants!Issue(f, x)
  BY <1>1, <1>2, TokensAreTokens DEF Grants!Issue, Generations
<1> QED
  BY <1>3 DEF Grants!CustodyNext

LEMMA AbstractRotate ==
  ASSUME NEW f \in Families, NEW g \in 1 .. MaxGeneration, NEW x \in {"held", "orphaned"},
         Phase(<<f, g>>) = "stored", \A t \in Token : Phase(t) # "held",
         Phase(<<f, g>>)' = "dead", Phase(<<f, g + 1>>)' = x,
         \A u \in Token : u \notin {<<f, g>>, <<f, g + 1>>} => Phase(u)' = Phase(u)
  PROVE  Grants!CustodyNext
<1>1. <<f, g>> \in Token /\ <<f, g + 1>> \in Token /\ <<f, g>> # <<f, g + 1>>
  BY ConstantsAssumption DEF Token, Generations
<1>2. [u \in Token |-> Phase(u)]' =
        [[u \in Token |-> Phase(u)] EXCEPT ![<<f, g>>] = "dead", ![<<f, g + 1>>] = x]
  BY <1>1
<1>3. g \in 1 .. MaxGeneration + 1 /\ g + 1 <= MaxGeneration + 1
  BY ConstantsAssumption
<1>4. Grants!Rotate(f, g, x)
  BY <1>1, <1>2, <1>3, TokensAreTokens DEF Grants!Rotate
<1> QED
  BY <1>3, <1>4 DEF Grants!CustodyNext

(* The phases, seen from the four variables.                                *)
LEMMA Phases ==
  ASSUME IInv, NEW t \in Token
  PROVE  /\ latest[t[1]] \in Nat /\ t[1] \in Families /\ t[2] \in Nat /\ t = <<t[1], t[2]>>
         /\ Phase(t) = "unissued" <=> latest[t[1]] < t[2]
         /\ Phase(t) = "stored" =>
              store # NoRecord /\ Tok(store) = t /\ Live(store)
         /\ Phase(t) = "held" =>
              InHand(t[1]) /\ LiveToken(t[1]) = t
         /\ Phase(t) \in {"unissued", "dead", "stored", "orphaned", "held"}
<1>1. /\ latest[t[1]] \in Nat /\ t[1] \in Families /\ t[2] \in Nat /\ t = <<t[1], t[2]>>
      /\ t[2] > 0
  BY DEF IInv, TypeOK, Token, Generations
<1>2. Phase(t) = "unissued" <=> latest[t[1]] < t[2]
  BY DEF Phase
<1>3. Phase(t) = "stored" => store # NoRecord /\ Tok(store) = t /\ Live(store)
  BY DEF Phase, Tok, Live
<1>4. ASSUME Phase(t) = "held"
      PROVE  InHand(t[1]) /\ LiveToken(t[1]) = t
  <2>1. /\ latest[t[1]] = t[2] /\ t[1] \notin revokedFamilies
        /\ ~(store # NoRecord /\ Tok(store) = t)
        /\ ~ \E o \in orphans : o.tok = t
    BY <1>4 DEF Phase
  <2>2. LiveToken(t[1]) = t
    BY <1>1, <2>1 DEF LiveToken
  <2> QED
    BY <1>1, <2>1, <2>2 DEF IInv, Custody, InStore, AccountedFor
<1>5. Phase(t) \in {"unissued", "dead", "stored", "orphaned", "held"}
  BY DEF Phase
<1> QED
  BY <1>1, <1>2, <1>3, <1>4, <1>5

Simulated == [Grants!CustodyNext]_[t \in Token |-> Phase(t)]

(* The store takes a token, from the hands of whoever obtained it.          *)
LEMMA StoreSimulated ==
  ASSUME IInv, IInv', [Next]_vars, StoreKind
  PROVE  Simulated
<1>1. (store # NoRecord /\ ~Holds(store', store)) => ~Live(store)
  BY NeverDroppedStep
<1>2. UNCHANGED <<latest, revokedFamilies, orphans>>
  BY DEF StoreKind
<1>3. CASE store' # NoRecord /\ Live(store)' /\ ~Holds(store, store')
  <2> PICK t \in Token : t = Tok(store')
    BY <1>3 DEF IInv, TypeOK, Tok, Record, Token
  <2>1. store' \in Record /\ t[1] = store'.fam /\ t[2] = store'.gen
    BY <1>3 DEF IInv, TypeOK, Tok, Record, Token
  <2>2. ~ \E o \in orphans : o.tok = t
    BY <1>2, <1>3 DEF IInv, TokensInv, Orphaned, Tok
  <2>3. latest[t[1]] = t[2] /\ t[1] \notin revokedFamilies
    BY <1>2, <1>3, <2>1 DEF Live
  <2>4. ~(store # NoRecord /\ Tok(store) = t)
    BY <1>3 DEF Holds
  <2>5. latest[t[1]] \in Nat /\ t[2] \in Nat
    BY <2>1, Phases
  <2>6. Phase(t) = "held"
    BY <2>2, <2>3, <2>4, <2>5 DEF Phase
  <2>7. Phase(t)' = "stored"
    <3>1. latest'[t[1]] = t[2] /\ t[1] \notin revokedFamilies' /\ ~(latest'[t[1]] < t[2])
      BY <1>2, <2>3, <2>5
    <3>2. store' # NoRecord /\ Tok(store') = t
      BY <1>3
    <3> QED
      BY <3>1, <3>2 DEF Phase, Tok
  <2>8. \A u \in Token : Phase(u) # "stored"
    BY <1>1, <1>3, Phases DEF Holds
  <2>9. OthersKeepPhase(t)
    <3> SUFFICES ASSUME NEW u \in Token, u # t PROVE Phase(u)' = Phase(u)
      BY DEF OthersKeepPhase
    <3>1. Tok(store') # u
      OBVIOUS
    <3>2. Phase(u) # "stored"
      BY <2>8
    <3> QED
      BY <1>2, <3>1, <3>2 DEF Phase, Tok
  <2> QED
    BY <2>1, <2>6, <2>7, <2>8, <2>9, AbstractStore DEF Simulated
<1>4. CASE ~(store' # NoRecord /\ Live(store)' /\ ~Holds(store, store'))
  <2>1. ASSUME NEW u \in Token
        PROVE  Phase(u)' = Phase(u)
    <3>1. CASE Phase(u) \in {"unissued", "dead"}
      BY <1>2, <3>1 DEF Phase
    <3>2. CASE Phase(u) = "stored"
      <4>1. store # NoRecord /\ Tok(store) = u /\ Live(store)
        BY <3>2, Phases
      <4>2. Holds(store', store)
        BY <1>1, <4>1
      <4>3. store' # NoRecord /\ Tok(store') = u
        BY <4>1, <4>2 DEF Holds
      <4> QED
        BY <1>2, <3>2, <4>3 DEF Phase, Tok
    <3>3. CASE Phase(u) \in {"orphaned", "held"}
      <4>1. /\ ~(latest[u[1]] < u[2]) /\ latest[u[1]] = u[2] /\ u[1] \notin revokedFamilies
            /\ ~(store # NoRecord /\ Tok(store) = u)
        BY <3>3 DEF Phase
      <4>2. ASSUME store' # NoRecord, Tok(store') = u
            PROVE  FALSE
        <5>1. Live(store)'
          BY <1>2, <4>1, <4>2 DEF Live, Tok
        <5>2. Holds(store, store')
          BY <1>4, <4>2, <5>1
        <5> QED
          BY <4>1, <4>2, <5>2 DEF Holds
      <4> QED
        BY <1>2, <4>1, <4>2 DEF Phase, Tok
    <3> QED
      BY <3>1, <3>2, <3>3, Phases
  <2> QED
    BY <2>1, AbstractStutter DEF Simulated
<1> QED
  BY <1>3, <1>4

(* The server ends a family: its live token dies, wherever it is.           *)
LEMMA EndSimulated ==
  ASSUME IInv, EndKind
  PROVE  Simulated
<1>1. UNCHANGED <<latest, store, orphans>>
  BY DEF EndKind
<1>2. PICK f \in Families : latest[f] > 0 /\ revokedFamilies' = revokedFamilies \cup {f}
  BY DEF EndKind
<1> PICK t \in Token : t = LiveToken(f)
  <2>1. latest[f] \in 0 .. MaxGeneration + 1
    BY DEF IInv, TypeOK
  <2>2. latest[f] \in Generations
    BY <1>2, <2>1, ConstantsAssumption DEF Generations
  <2> QED
    BY <2>2 DEF LiveToken, Token
<1>3. t[1] = f /\ t[2] = latest[f]
  BY DEF LiveToken
<1>4. ASSUME NEW u \in Token, u # t \/ f \in revokedFamilies
      PROVE  Phase(u)' = Phase(u)
  <2>1. u[1] = f => latest[u[1]] # u[2] \/ f \in revokedFamilies
    BY <1>3, <1>4, Phases DEF LiveToken
  <2> QED
    BY <1>1, <1>2, <2>1 DEF Phase, Tok
<1>5. CASE f \in revokedFamilies
  BY <1>4, <1>5, AbstractStutter DEF Simulated
<1>6. CASE f \notin revokedFamilies
  <2>1. Phase(t) \in {"held", "stored", "orphaned"} /\ latest[f] \in Nat
    BY <1>3, <1>6, Phases DEF Phase
  <2>2. Phase(t)' = "dead"
    <3>1. latest'[t[1]] = t[2] /\ t[1] \in revokedFamilies' /\ ~(latest'[t[1]] < t[2])
      BY <1>1, <1>2, <1>3, <2>1
    <3> QED
      BY <3>1 DEF Phase
  <2>3. OthersKeepPhase(t)
    BY <1>4 DEF OthersKeepPhase
  <2> QED
    BY <1>3, <2>1, <2>2, <2>3, AbstractDie DEF Simulated
<1> QED
  BY <1>5, <1>6

(* A token given up is orphaned, if it was in hand.                         *)
LEMMA LoseSimulated ==
  ASSUME IInv, LoseKind
  PROVE  Simulated
<1>1. UNCHANGED <<latest, store, revokedFamilies>>
  BY DEF LoseKind
<1>2. PICK o \in [tok : Token, why : Reasons] : orphans' = orphans \cup {o}
  BY DEF LoseKind
<1> DEFINE t == o.tok
<1>3. t \in Token
  BY <1>2
<1>4. ASSUME NEW u \in Token, u # t \/ Phase(u) # "held"
      PROVE  Phase(u)' = Phase(u)
  <2>1. CASE u # t
    <3>1. (\E q \in orphans' : q.tok = u) <=> (\E q \in orphans : q.tok = u)
      BY <1>2, <2>1
    <3> QED
      BY <1>1, <3>1 DEF Phase, Tok
  <2>2. CASE Phase(u) # "held"
    <3>1. (\E q \in orphans : q.tok = u) => (\E q \in orphans' : q.tok = u)
      BY <1>2
    <3> QED
      BY <1>1, <2>2, <3>1 DEF Phase, Tok
  <2> QED
    BY <1>4, <2>1, <2>2
<1>5. CASE Phase(t) # "held"
  BY <1>4, <1>5, AbstractStutter DEF Simulated
<1>6. CASE Phase(t) = "held"
  <2>1. \E q \in orphans' : q.tok = t
    BY <1>2
  <2> HIDE DEF t
  <2>2. Phase(t)' = "orphaned"
    BY <1>1, <1>6, <2>1 DEF Phase, Tok
  <2>3. OthersKeepPhase(t)
    BY <1>4 DEF OthersKeepPhase
  <2> QED
    BY <1>3, <1>6, <2>2, <2>3, AbstractLose DEF Simulated
<1> QED
  BY <1>5, <1>6

(* Nothing is in hand when a token is asked for.                            *)
LEMMA NoneHeld ==
  ASSUME IInv, NEW p \in Procs, pc[p] \in {"refresh", "exchange"}
  PROVE  \A t \in Token : Phase(t) # "held"
  BY NothingInHand, Phases

(* A rotation: the stored token dies, the next one comes into the hands of  *)
(* who asked for it, or is lost with the reply.                            *)
LEMMA RotateSimulated ==
  ASSUME IInv, RotateKind
  PROVE  Simulated
<1> USE ConstantsAssumption
<1>1. PICK p \in Procs : RefreshGranted(p) \/ RefreshLost(p)
  BY DEF RotateKind
<1>2. /\ pc[p] = "refresh" /\ Live(cur[p]) /\ UNCHANGED <<store, revokedFamilies>>
      /\ latest' = [latest EXCEPT ![cur[p].fam] = @ + 1]
      /\ store = cur[p] /\ latest \in [Families -> 0 .. MaxGeneration + 1]
  BY <1>1 DEF RefreshGranted, RefreshLost, IInv, CurrentInv, TypeOK
<1>3. PICK f \in Families, g \in 1 .. MaxGeneration : f = cur[p].fam /\ g = cur[p].gen
  BY <1>2, CurrentRecord DEF Generations
<1> DEFINE lost == [tok |-> <<f, g + 1>>, why |-> "lost_reply"]
<1>4. orphans' = orphans \/ orphans' = orphans \cup {lost}
  BY <1>1, <1>3 DEF RefreshGranted, RefreshLost
<1>5. /\ <<f, g>> \in Token /\ <<f, g + 1>> \in Token
      /\ latest[f] = g /\ latest'[f] = g + 1 /\ f \notin revokedFamilies
  BY <1>2, <1>3 DEF Token, Generations, Live
<1>6. store # NoRecord /\ Tok(store) = <<f, g>>
  <2>1. store \in Record
    BY <1>2, CurrentRecord
  <2> QED
    BY <1>2, <1>3, <2>1 DEF Tok
<1>7. Phase(<<f, g>>) = "stored"
  BY <1>5, <1>6 DEF Phase
<1>8. Phase(<<f, g>>)' = "dead"
  BY <1>5 DEF Phase
<1>9. PICK x \in {"held", "orphaned"} : Phase(<<f, g + 1>>)' = x
  <2>1. ~(latest'[f] < g + 1) /\ latest'[f] = g + 1 /\ f \notin revokedFamilies'
    BY <1>2, <1>5
  <2>2. ~(store' # NoRecord /\ Tok(store') = <<f, g + 1>>)
    BY <1>2, <1>6 DEF Tok
  <2> QED
    BY <2>1, <2>2 DEF Phase
<1>10. ASSUME NEW u \in Token, u \notin {<<f, g>>, <<f, g + 1>>}
       PROVE  Phase(u)' = Phase(u)
  <2>1. /\ latest[u[1]] \in Nat /\ u[1] \in Families /\ u[2] \in Nat
        /\ u = <<u[1], u[2]>>
    BY Phases
  <2>2. (\E o \in orphans' : o.tok = u) <=> (\E o \in orphans : o.tok = u)
    BY <1>4, <1>10
  <2>3. CASE u[1] = f
    <3>1. u[2] # g /\ u[2] # g + 1
      BY <1>10, <2>1, <2>3
    <3>2. /\ (latest'[u[1]] < u[2]) <=> (latest[u[1]] < u[2])
          /\ latest'[u[1]] # u[2] /\ latest[u[1]] # u[2]
      BY <1>5, <2>1, <2>3, <3>1
    <3> QED
      BY <3>2 DEF Phase
  <2>4. CASE u[1] # f
    <3>1. latest'[u[1]] = latest[u[1]]
      BY <1>2, <1>3, <2>1, <2>4
    <3> QED
      BY <1>2, <2>2, <3>1 DEF Phase, Tok
  <2> QED
    BY <2>3, <2>4
<1>11. Grants!CustodyNext
  BY <1>2, <1>7, <1>8, <1>9, <1>10, NoneHeld, AbstractRotate
<1> QED
  BY <1>11 DEF Simulated

(* A login: the first token of a family, into the hands of who asked for it *)
(* or lost with the reply.                                                 *)
LEMMA IssueSimulated ==
  ASSUME IInv, RevokedAreIssued, IssueKind
  PROVE  Simulated
<1> USE ConstantsAssumption
<1>1. PICK p \in Procs : ExchangeGranted(p) \/ ExchangeLost(p)
  BY DEF IssueKind
<1>2. PICK f \in Families :
        /\ latest[f] = 0 /\ latest' = [latest EXCEPT ![f] = 1]
        /\ \/ orphans' = orphans
           \/ orphans' = orphans \cup {[tok |-> <<f, 1>>, why |-> "lost_reply"]}
  BY <1>1 DEF ExchangeGranted, ExchangeLost
<1>3. /\ pc[p] = "exchange" /\ UNCHANGED <<store, revokedFamilies>>
      /\ latest \in [Families -> 0 .. MaxGeneration + 1]
  BY <1>1 DEF ExchangeGranted, ExchangeLost, IInv, TypeOK
<1>4. latest'[f] = 1 /\ f \notin revokedFamilies
  BY <1>2, <1>3 DEF RevokedAreIssued
<1>5. <<f, 1>> \in Token
  BY DEF Token, Generations
<1>6. \A g \in Generations : Phase(<<f, g>>) = "unissued"
  BY <1>2 DEF Phase, Generations
<1>7. PICK x \in {"held", "orphaned"} : Phase(<<f, 1>>)' = x
  <2>1. ~(store' # NoRecord /\ Tok(store') = <<f, 1>>)
    BY <1>2, <1>3, IssueTypes DEF Tok
  <2> QED
    BY <1>3, <1>4, <2>1 DEF Phase
<1>8. OthersKeepPhase(<<f, 1>>)
  <2> SUFFICES ASSUME NEW u \in Token, u # <<f, 1>> PROVE Phase(u)' = Phase(u)
    BY DEF OthersKeepPhase
  <2>1. /\ latest[u[1]] \in Nat /\ u[1] \in Families /\ u[2] \in Nat
        /\ u = <<u[1], u[2]>>
    BY Phases
  <2>2. u[2] >= 1
    BY DEF Token, Generations
  <2>3. (\E o \in orphans' : o.tok = u) <=> (\E o \in orphans : o.tok = u)
    BY <1>2
  <2>4. CASE u[1] = f
    <3>1. u[2] # 1 /\ latest'[u[1]] < u[2] /\ latest[u[1]] < u[2]
      BY <1>2, <1>4, <2>1, <2>2, <2>4
    <3> QED
      BY <3>1 DEF Phase
  <2>5. CASE u[1] # f
    <3>1. latest'[u[1]] = latest[u[1]]
      BY <1>2, <1>3, <2>1, <2>5
    <3> QED
      BY <1>3, <2>3, <3>1 DEF Phase, Tok
  <2> QED
    BY <2>4, <2>5
<1>9. Grants!CustodyNext
  BY <1>3, <1>6, <1>7, <1>8, NoneHeld, AbstractIssue
<1> QED
  BY <1>9 DEF Simulated

(* Every step of the session is a step of the custody of its tokens, or     *)
(* changes nothing in it.                                                  *)
LEMMA StepSimulated ==
  IInv /\ RevokedAreIssued /\ [Next]_vars => Simulated
<1> SUFFICES ASSUME IInv, RevokedAreIssued, [Next]_vars PROVE Simulated
  OBVIOUS
<1>1. Kinds /\ IInv'
  BY StepKinds, StepIInv
<1> QED
  BY <1>1, StoreSimulated, EndSimulated, LoseSimulated, RotateSimulated, IssueSimulated
  DEF Kinds

LEMMA InitSimulated == Init => Grants!CustodyInit
<1> SUFFICES ASSUME Init PROVE [t \in Token |-> Phase(t)] = [t \in Grants!Tokens |-> "unissued"]
  BY DEF Grants!CustodyInit
<1>1. ASSUME NEW t \in Token PROVE Phase(t) = "unissued"
  <2>1. t[1] \in Families /\ t[2] \in Generations
    BY DEF Token
  <2> QED
    BY <2>1, ConstantsAssumption DEF Init, Phase, Generations
<1> QED
  BY <1>1, TokensAreTokens

(* The server ends no family that it has not issued.                        *)
LEMMA RevokedInvariance == Spec => []RevokedAreIssued
<1>1. Init => RevokedAreIssued
  BY DEF Init, RevokedAreIssued
<1>2. IInv /\ RevokedAreIssued /\ [Next]_vars => RevokedAreIssued'
  BY RevokedStep
<1> QED
  BY <1>1, <1>2, Inductive, PTL DEF Spec

(* The session implements the custody of refresh tokens: for any number of  *)
(* processes, grants and rotations, and whatever fails or crashes, each     *)
(* token is issued into somebody's hands, rests in the one slot of the      *)
(* store, and dies or is accounted for as lost; none comes back.            *)
THEOREM CustodyImplemented == Spec => ImplementsGrantCustody
<1>1. IInv /\ RevokedAreIssued /\ [Next]_vars
        => [Grants!CustodyNext]_[t \in Token |-> Phase(t)]
  BY StepSimulated DEF Simulated
<1> QED
  BY <1>1, InitSimulated, Inductive, RevokedInvariance, PTL
  DEF Spec, ImplementsGrantCustody, Grants!CustodySpec

=============================================================================
