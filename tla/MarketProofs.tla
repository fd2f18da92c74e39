------------------------------ MODULE MarketProofs ------------------------------
(***************************************************************************)
(* Theorems about four parts of the market, for any number of calls,       *)
(* records and keys, seats, clusters and blocks: the stores of secrets     *)
(* (SealedStores), with crashes at any step, first calls that create the   *)
(* key file, and writes of the store by others; the list of open seats     *)
(* (SeatMarket), read one kind of event at a time while the chain goes on; *)
(* the answers put together from many reads (ClusterReads), each of which  *)
(* may fail; and the drafts of delegations (Delegation), reviewed before   *)
(* the positions change.  With the theorems of the other parts they give   *)
(* the types of the whole market, and the stores of orders, bookings and   *)
(* invoices keep theirs in it (CommerceStoresProofs).                      *)
(***************************************************************************)
EXTENDS Market, CommerceStoresProofs, SpendingProofs, Sums, Sequences

-----------------------------------------------------------------------------
(* Records and calls.                                                       *)
SealedKinds == {"provider", "connector", "profile"}

LEMMA Nulls ==
    /\ Null \notin K!FileKeys /\ Null \notin Passphrases /\ Null \notin Secrets
    /\ \A k \in SealedKinds : Null \notin K!Records(k) /\ Null \notin K!Stores(k)
    /\ \A ks \in SUBSET (Nat \cup Passphrases) : Null \notin K!SealedBy(ks)
    /\ K!FileKeys \subseteq Nat /\ 0 \in K!FileKeys
    /\ \A n \in K!FileKeys : n \notin Passphrases
<1>1. K!FileKeys \subseteq Nat /\ 0 \in K!FileKeys
  BY SecretsAssumption DEF K!FileKeys
<1>2. \A ks \in SUBSET (Nat \cup Passphrases) : K!SealedBy(ks) \subseteq K!SealedBy(Nat \cup Passphrases)
  BY DEF K!SealedBy
<1> QED
  BY <1>1, <1>2, SecretsAssumption DEF SealedKinds

LEMMA RecordFacts ==
    ASSUME NEW k \in SealedKinds, NEW r \in K!Records(k)
    PROVE  /\ r # Null
           /\ r = [mode |-> r.mode, sealed |-> r.sealed]
           /\ r.mode \in {"local", "secret", "none", "passphrase"}
           /\ k = "provider" => r.mode = "local"
           /\ k = "connector" => r.mode \in {"secret", "none"}
           /\ k = "profile" => r.mode \in {"local", "passphrase"}
           /\ r.mode = "none" => r.sealed = K!NothingKept
           /\ r.mode \in {"local", "secret"} => r.sealed \in K!Seals(K!FileKeys)
           /\ r.mode = "passphrase" => r.sealed \in K!Seals(Passphrases)
  BY Nulls DEF K!Records, SealedKinds

LEMMA SealFacts ==
    ASSUME NEW ks \in SUBSET (Nat \cup Passphrases), NEW s \in K!Seals(ks), NEW p \in K!Parts
    PROVE  /\ s = [q \in K!Parts |-> s[q]]
           /\ s[p] = Null \/ (s[p] # Null /\ s[p].key \in ks /\ s[p].secret \in Secrets)
  BY Nulls DEF K!Seals, K!SealedBy

(* What a record keeps of a part, and under which key.                      *)
LEMMA KeptFacts ==
    ASSUME NEW k \in SealedKinds, NEW r \in K!Records(k) \cup {Null}, NEW p \in K!Parts,
           K!Kept(r, p) # Null
    PROVE  /\ r # Null /\ r \in K!Records(k) /\ K!Kept(r, p) = r.sealed[p]
           /\ r.mode # "none" /\ r.sealed[p].secret \in Secrets
           /\ r.mode # "passphrase" => r.sealed[p] \in K!SealedBy(K!FileKeys)
           /\ r.mode = "passphrase" => r.sealed[p] \in K!SealedBy(Passphrases)
<1>1. r # Null /\ r \in K!Records(k) /\ K!Kept(r, p) = r.sealed[p]
  BY DEF K!Kept
<1>2. r.mode # "none"
  BY <1>1, RecordFacts DEF K!NothingKept
<1>3. r.mode # "passphrase" => r.sealed[p] \in K!SealedBy(K!FileKeys)
  BY <1>1, <1>2, RecordFacts DEF K!Seals
<1>4. r.mode = "passphrase" => r.sealed[p] \in K!SealedBy(Passphrases)
  BY <1>1, RecordFacts DEF K!Seals
<1> QED
  BY <1>1, <1>2, <1>3, <1>4 DEF K!SealedBy

LEMMA IdleFacts ==
    ASSUME NEW k \in SealedKinds
    PROVE  /\ K!Idle \in K!CallRecord(k)
           /\ K!AskedWell(k, K!Idle) /\ K!HasKey(K!Idle)
           /\ \A s : K!ReadIsCurrent(s, K!Idle)
           /\ K!Idle.answer = "none" /\ K!Idle.pc = "idle"
           /\ \A n \in K!FileKeys : ~K!UsedBy(K!Idle, n)
<1>1. K!Idle \in K!CallRecord(k)
  <2>1. "none" \in K!TaskNames
    BY DEF K!TaskNames
  <2> QED
    BY <2>1 DEF K!Idle, K!CallRecord, K!Stages
<1>2. \A n \in K!FileKeys : ~K!UsedBy(K!Idle, n)
  BY Nulls DEF K!Idle, K!UsedBy
<1> QED
  BY <1>1, <1>2 DEF K!Idle, K!AskedWell, K!HasKey, K!ReadIsCurrent

LEMMA SealedInit == K!Init => K!SealedIInv
<1> SUFFICES ASSUME K!Init PROVE K!SealedIInv
  OBVIOUS
<1>1. sealed \in SealedKinds /\ sealCall = [c \in Calls |-> K!Idle]
  BY DEF K!Init, SealedKinds
<1>2. K!FilesTyped
  <2>1. store \in K!Stores(sealed) /\ accepted \in [SecretIds -> [K!Parts -> Secrets \cup {Null}]]
    BY DEF K!Init, K!Stores, K!NothingKept
  <2> QED
    BY <2>1, Nulls DEF K!Init, K!FilesTyped
<1>3. K!CallsFollow
  BY <1>1, IdleFacts DEF K!CallsFollow
<1>4. \A n \in K!FileKeys : ~K!InUse(n)
  BY <1>1, IdleFacts DEF K!Init, K!InUse, K!UsedIn
<1>5. K!OneKey
  BY <1>1, <1>4, IdleFacts DEF K!OneKey
<1>6. K!KeepsWhatItTold
  BY DEF K!Init, K!KeepsWhatItTold, K!Kept, K!NothingKept
<1> QED
  BY <1>2, <1>3, <1>5, <1>6 DEF K!SealedIInv

-----------------------------------------------------------------------------
(* A step of one call.                                                      *)
LEMMA SealedFacts ==
    ASSUME K!SealedIInv, NEW c \in Calls
    PROVE  /\ sealed \in SealedKinds /\ K!FilesTyped
           /\ sealCall \in [Calls -> K!CallRecord(sealed)]
           /\ sealCall[c] \in K!CallRecord(sealed)
           /\ K!AskedWell(sealed, sealCall[c]) /\ K!HasKey(sealCall[c])
           /\ K!ReadIsCurrent(store, sealCall[c])
           /\ sealCall[c].answer = "unreadable" => keyRaced \/ sealCall[c].passphrase # Null
  BY DEF K!SealedIInv, K!CallsFollow, K!FilesTyped, SealedKinds

LEMMA CallFields ==
    ASSUME NEW k \in SealedKinds, NEW r \in K!CallRecord(k)
    PROVE  /\ r.pc \in K!Stages /\ r.task \in K!TaskNames /\ r.id \in SecretIds \cup {Null}
           /\ r.passphrase \in Passphrases \cup {Null} /\ r.base \in K!Stores(k) \cup {Null}
           /\ r.key \in K!FileKeys \cup Passphrases \cup {Null} /\ r.outdated \in BOOLEAN
           /\ r.answer \in {"none", "ok", "error", "missing", "unreadable"}
  BY DEF K!CallRecord

(* The store and what it was told to keep stay; what is left to show is     *)
(* about the call and the key file.                                         *)
LEMMA OneCall ==
    ASSUME K!SealedIInv, NEW c \in Calls, NEW r \in K!CallRecord(sealed),
           sealCall' = [sealCall EXCEPT ![c] = r],
           UNCHANGED <<sealed, store, accepted, storeOverlapped>>,
           K!AskedWell(sealed, r), K!HasKey(r), K!ReadIsCurrent(store, r),
           r.answer = "unreadable" => keyRaced' \/ r.passphrase # Null,
           keyRaced => keyRaced', keyRaced' \in BOOLEAN,
           keyFile' \in K!FileKeys \cup {Null}, keys' \in K!FileKeys,
           ~keyRaced' => K!OneKey'
    PROVE  K!SealedIInv'
<1>1. K!FilesTyped' /\ sealed \in SealedKinds
  BY SealedFacts DEF K!FilesTyped
<1>2. sealCall' \in [Calls -> K!CallRecord(sealed)]
  BY SealedFacts
<1>3. ASSUME NEW d \in Calls
      PROVE  /\ K!AskedWell(sealed', sealCall'[d]) /\ K!HasKey(sealCall'[d])
             /\ K!ReadIsCurrent(store', sealCall'[d])
             /\ sealCall'[d].answer = "unreadable" => keyRaced' \/ sealCall'[d].passphrase # Null
  <2>1. CASE d = c
    <3>1. sealCall'[d] = r
      BY <2>1, SealedFacts
    <3>2. K!ReadIsCurrent(store', sealCall'[d])
      BY <3>1 DEF K!ReadIsCurrent
    <3> QED
      BY <3>1, <3>2
  <2>2. CASE d # c
    <3>1. sealCall'[d] = sealCall[d]
      BY <2>2, SealedFacts
    <3>2. K!ReadIsCurrent(store', sealCall'[d])
      BY <3>1, SealedFacts DEF K!ReadIsCurrent
    <3> QED
      BY <3>1, <3>2, SealedFacts
  <2> QED
    BY <2>1, <2>2
<1>4. K!CallsFollow'
  BY <1>2, <1>3 DEF K!CallsFollow
<1>5. (~storeOverlapped => K!KeepsWhatItTold)'
  BY DEF K!SealedIInv, K!KeepsWhatItTold, K!Kept
<1> QED
  BY <1>1, <1>4, <1>5 DEF K!SealedIInv

(* No key that was not in use before.                                       *)
LEMMA NoNewKey ==
    ASSUME K!SealedIInv, NEW c \in Calls, NEW r \in K!CallRecord(sealed),
           sealCall' = [sealCall EXCEPT ![c] = r],
           UNCHANGED <<keyFile, keyRaced, store>>,
           r.pc # "fill",
           \A n \in K!FileKeys : K!UsedBy(r, n) => K!InUse(n)
    PROVE  ~keyRaced' => K!OneKey'
<1> SUFFICES ASSUME ~keyRaced PROVE K!OneKey'
  OBVIOUS
<1>1. K!OneKey
  BY DEF K!SealedIInv
<1>2. \A d \in Calls : sealCall'[d] = IF d = c THEN r ELSE sealCall[d]
  BY SealedFacts
<1>3. \A n \in K!FileKeys : K!InUse(n)' => K!InUse(n)
  <2> SUFFICES ASSUME NEW n \in K!FileKeys, K!InUse(n)' PROVE K!InUse(n)
    OBVIOUS
  <2>1. CASE K!UsedIn(store', n)
    BY <2>1 DEF K!InUse
  <2>2. CASE \E d \in Calls : K!UsedBy(sealCall'[d], n)
    BY <1>2, <2>2 DEF K!InUse
  <2> QED
    BY <2>1, <2>2 DEF K!InUse
<1>4. \A d \in Calls : sealCall'[d].pc = "fill" => d # c /\ sealCall[d].pc = "fill"
  BY <1>2
<1> QED
  BY <1>1, <1>3, <1>4 DEF K!OneKey

(* A call that goes on, or ends, without a new store.                       *)
LEMMA CallGoesOn ==
    ASSUME K!SealedIInv, NEW c \in Calls, NEW r \in K!CallRecord(sealed),
           sealCall' = [sealCall EXCEPT ![c] = r],
           UNCHANGED <<sealed, keyFile, keys, store, accepted, keyRaced, storeOverlapped>>,
           K!AskedWell(sealed, r), K!HasKey(r), K!ReadIsCurrent(store, r),
           r.answer = "unreadable" => keyRaced \/ r.passphrase # Null,
           r.pc # "fill",
           \A n \in K!FileKeys : K!UsedBy(r, n) => K!InUse(n)
    PROVE  K!SealedIInv'
<1>1. ~keyRaced' => K!OneKey'
  BY NoNewKey
<1>2. K!FilesTyped
  BY DEF K!SealedIInv
<1> QED
  BY <1>1, <1>2, OneCall DEF K!FilesTyped

LEMMA OverFacts ==
    ASSUME K!SealedIInv, NEW c \in Calls,
           NEW a \in {"ok", "error", "missing", "unreadable"}
    PROVE  /\ K!Over(c, a) \in K!CallRecord(sealed)
           /\ K!Over(c, a).pc = "over" /\ K!Over(c, a).answer = a
           /\ K!Over(c, a).passphrase = sealCall[c].passphrase
           /\ K!AskedWell(sealed, K!Over(c, a)) /\ K!HasKey(K!Over(c, a))
           /\ \A s : K!ReadIsCurrent(s, K!Over(c, a))
           /\ \A n \in K!FileKeys : ~K!UsedBy(K!Over(c, a), n)
<1> DEFINE r == K!Over(c, a)
<1>1. sealCall[c].passphrase \in Passphrases \cup {Null}
  BY SealedFacts, CallFields
<1>2. "none" \in K!TaskNames
  BY DEF K!TaskNames
<1>3. r = [pc |-> "over", task |-> "none", id |-> Null, passphrase |-> sealCall[c].passphrase,
           base |-> Null, key |-> Null, outdated |-> FALSE, answer |-> a]
  <2>1. r = [K!Idle EXCEPT !.pc = "over", !.passphrase = sealCall[c].passphrase, !.answer = a]
    BY DEF K!Over
  <2> HIDE DEF r
  <2> QED
    BY <2>1 DEF K!Idle
<1> HIDE DEF r
<1>4. r \in K!CallRecord(sealed)
  BY <1>1, <1>2, <1>3 DEF K!CallRecord, K!Stages
<1>5. \A n \in K!FileKeys : ~K!UsedBy(r, n)
  BY <1>3, Nulls DEF K!UsedBy
<1>6. K!AskedWell(sealed, r) /\ K!HasKey(r) /\ \A s : K!ReadIsCurrent(s, r)
  BY <1>3 DEF K!AskedWell, K!HasKey, K!ReadIsCurrent
<1>7. r.pc = "over" /\ r.answer = a /\ r.passphrase = sealCall[c].passphrase
  BY <1>3
<1> QED
  BY <1>4, <1>5, <1>6, <1>7 DEF r

(* A call that ends.                                                        *)
LEMMA CallEnds ==
    ASSUME K!SealedIInv, NEW c \in Calls,
           NEW a \in {"ok", "error", "missing", "unreadable"}, K!Ends(c, a),
           UNCHANGED <<sealed, keyFile, keys, store, accepted, keyRaced, storeOverlapped>>,
           a = "unreadable" => keyRaced \/ sealCall[c].passphrase # Null
    PROVE  K!SealedIInv'
  BY OverFacts, CallGoesOn DEF K!Ends

-----------------------------------------------------------------------------
(* The calls: the key.                                                      *)
AnyKey == K!FileKeys \cup Passphrases \cup {Null}
Moved(r, base, key, stage) == [r EXCEPT !.base = base, !.key = key, !.pc = stage]

LEMMA MovedFacts ==
    ASSUME NEW k \in SealedKinds, NEW r \in K!CallRecord(k), NEW base, NEW key, NEW stage
    PROVE  /\ Moved(r, base, key, stage).base = base
           /\ Moved(r, base, key, stage).key = key
           /\ Moved(r, base, key, stage).pc = stage
           /\ Moved(r, base, key, stage).task = r.task
           /\ Moved(r, base, key, stage).id = r.id
           /\ Moved(r, base, key, stage).passphrase = r.passphrase
           /\ Moved(r, base, key, stage).outdated = r.outdated
           /\ Moved(r, base, key, stage).answer = r.answer
           /\ base \in K!Stores(k) \cup {Null} /\ key \in AnyKey /\ stage \in K!Stages
                => Moved(r, base, key, stage) \in K!CallRecord(k)
<1>1. ASSUME base \in K!Stores(k) \cup {Null}, key \in AnyKey, stage \in K!Stages
      PROVE  Moved(r, base, key, stage) \in K!CallRecord(k)
  BY <1>1 DEF Moved, K!CallRecord, AnyKey
<1> QED
  BY <1>1 DEF Moved, K!CallRecord

LEMMA AnyKeyFacts == Null \in AnyKey /\ K!FileKeys \subseteq AnyKey /\ Passphrases \subseteq AnyKey
  BY DEF AnyKey

LEMMA OneFieldMoves ==
    ASSUME NEW k \in SealedKinds, NEW r \in K!CallRecord(k)
    PROVE  /\ \A stage : [r EXCEPT !.pc = stage] = Moved(r, r.base, r.key, stage)
           /\ \A key, stage : [r EXCEPT !.key = key, !.pc = stage] = Moved(r, r.base, key, stage)
           /\ \A base, stage : [r EXCEPT !.base = base, !.pc = stage] = Moved(r, base, r.key, stage)
  BY DEF Moved, K!CallRecord

LEMMA TaskFacts ==
    /\ K!Tasks["provider"] = {"configure", "use"}
    /\ K!Tasks["connector"] = {"set", "use", "remove"}
    /\ K!Tasks["profile"] = {"create", "update", "use", "delete"}
    /\ \A k \in SealedKinds : K!Tasks[k] \subseteq K!TaskNames
<1>1. /\ K!Tasks["provider"] = {"configure", "use"}
      /\ K!Tasks["connector"] = {"set", "use", "remove"}
      /\ K!Tasks["profile"] = {"create", "update", "use", "delete"}
      /\ SealedKinds \subseteq DOMAIN K!Tasks
  BY DEF K!Tasks, SealedKinds
<1>2. \A k \in DOMAIN K!Tasks : K!Tasks[k] \subseteq K!TaskNames
  BY DEF K!TaskNames
<1> QED
  BY <1>1, <1>2

LEMMA CallBegins ==
    ASSUME K!SealedIInv, NEW c \in Calls, NEW t, NEW i \in SecretIds,
           NEW w \in Passphrases \cup {Null}, K!Begin(c, t, i, w)
    PROVE  K!SealedIInv'
<1> DEFINE key == IF t = "create" THEN w ELSE Null
           stage == IF t \in K!KeyFirst /\ w = Null THEN "key" ELSE "store"
           r == [K!Idle EXCEPT !.task = t, !.id = i, !.passphrase = w, !.key = key, !.pc = stage]
<1>1. /\ UNCHANGED <<sealed, keyFile, keys, store, accepted, keyRaced, storeOverlapped>>
      /\ sealCall' = [sealCall EXCEPT ![c] = r]
      /\ t \in K!Tasks[sealed] /\ (sealed # "profile" => w = Null)
  BY DEF K!Begin, K!files, K!histories
<1>2. /\ key \in {w, Null} /\ (t = "create" => key = w) /\ (t # "create" => key = Null)
      /\ stage \in {"key", "store"} /\ (stage = "key" <=> t \in K!KeyFirst /\ w = Null)
  OBVIOUS
<1> HIDE DEF key, stage
<1>3. r = [pc |-> stage, task |-> t, id |-> i, passphrase |-> w, base |-> Null, key |-> key,
           outdated |-> FALSE, answer |-> "none"]
  <2>1. r = [K!Idle EXCEPT !.task = t, !.id = i, !.passphrase = w, !.key = key, !.pc = stage]
    OBVIOUS
  <2> HIDE DEF r
  <2> QED
    BY <2>1 DEF K!Idle
<1> HIDE DEF r
<1>4. r.pc = stage /\ r.task = t /\ r.id = i /\ r.passphrase = w /\ r.base = Null
      /\ r.key = key /\ r.outdated = FALSE /\ r.answer = "none"
  BY <1>3
<1>5. sealed \in SealedKinds
  BY SealedFacts
<1>6. r \in K!CallRecord(sealed)
  <2>1. t \in K!TaskNames /\ stage \in K!Stages /\ key \in K!FileKeys \cup Passphrases \cup {Null}
    BY <1>1, <1>2, <1>5, TaskFacts DEF K!Stages
  <2> QED
    BY <1>3, <2>1 DEF K!CallRecord
<1>7. K!AskedWell(sealed, r) /\ K!ReadIsCurrent(store, r)
  BY <1>1, <1>2, <1>4 DEF K!AskedWell, K!ReadIsCurrent
<1>8. t = "configure" => w = Null
  BY <1>1, <1>5, TaskFacts DEF SealedKinds
<1>9. K!HasKey(r)
  BY <1>2, <1>4, <1>8 DEF K!HasKey, K!OwnKey, K!KeyFirst
<1>10. \A n \in K!FileKeys : ~K!UsedBy(r, n)
  BY <1>2, <1>4, Nulls DEF K!UsedBy
<1> QED
  BY <1>1, <1>2, <1>4, <1>6, <1>7, <1>9, <1>10, CallGoesOn

(* What a call that has its key goes on to do.                              *)
LEMMA AfterTheKey ==
    ASSUME K!SealedIInv, NEW c \in Calls, sealCall[c].pc \in {"key", "draw", "fill"},
           NEW key \in K!FileKeys
    PROVE  LET r == Moved(sealCall[c], sealCall[c].base, key, K!AfterKey(c))
           IN  /\ r \in K!CallRecord(sealed) /\ r.pc \notin {"fill", "over"} /\ r.key = key
               /\ r.base = sealCall[c].base /\ r.answer = "none"
               /\ K!AskedWell(sealed, r) /\ K!HasKey(r) /\ K!ReadIsCurrent(store, r)
<1> DEFINE r == Moved(sealCall[c], sealCall[c].base, key, K!AfterKey(c))
<1>1. /\ K!AfterKey(c) \in {"store", "write", "open"}
      /\ K!AfterKey(c) = "store" <=> sealCall[c].task \in K!KeyFirst
      /\ K!AfterKey(c) = "write" <=> sealCall[c].task = "set"
  BY DEF K!AfterKey, K!KeyFirst
<1>2. /\ r \in K!CallRecord(sealed) /\ r.pc = K!AfterKey(c) /\ r.key = key
      /\ r.base = sealCall[c].base /\ r.task = sealCall[c].task /\ r.id = sealCall[c].id
      /\ r.passphrase = sealCall[c].passphrase /\ r.outdated = sealCall[c].outdated
      /\ r.answer = sealCall[c].answer
  BY <1>1, SealedFacts, CallFields, MovedFacts, AnyKeyFacts DEF K!Stages
<1>3. /\ K!AskedWell(sealed, sealCall[c]) /\ K!HasKey(sealCall[c])
      /\ K!ReadIsCurrent(store, sealCall[c])
  BY SealedFacts
<1> HIDE DEF r
<1>4. K!AskedWell(sealed, r) /\ K!ReadIsCurrent(store, r) /\ r.answer = "none"
  BY <1>1, <1>2, <1>3 DEF K!AskedWell, K!ReadIsCurrent
<1>5. K!HasKey(r)
  <2>1. CASE sealCall[c].task \in K!KeyFirst
    BY <1>1, <1>2, <1>3, <2>1 DEF K!HasKey, K!OwnKey
  <2>2. CASE sealCall[c].task = "set"
    BY <1>1, <1>2, <1>3, <2>2 DEF K!HasKey, K!KeyFirst
  <2>3. CASE sealCall[c].task \notin K!KeyFirst /\ sealCall[c].task # "set"
    BY <1>1, <1>2, <1>3, <2>3 DEF K!HasKey, K!RightKey
  <2> QED
    BY <2>1, <2>2, <2>3
<1> QED
  BY <1>1, <1>2, <1>4, <1>5 DEF r

(* The uses of a key after a step of one call that left the store.          *)
LEMMA UsesAfter ==
    ASSUME K!SealedIInv, NEW c \in Calls, NEW r,
           sealCall' = [sealCall EXCEPT ![c] = r], UNCHANGED store,
           r.base = sealCall[c].base
    PROVE  /\ \A n \in K!FileKeys :
                 K!InUse(n)' => K!InUse(n) \/ (r.pc # "fill" /\ r.key = n)
           /\ \A d \in Calls : sealCall'[d] = IF d = c THEN r ELSE sealCall[d]
<1>1. \A d \in Calls : sealCall'[d] = IF d = c THEN r ELSE sealCall[d]
  BY SealedFacts
<1>2. ASSUME NEW n \in K!FileKeys, K!InUse(n)'
      PROVE  K!InUse(n) \/ (r.pc # "fill" /\ r.key = n)
  <2>1. CASE K!UsedIn(store', n)
    BY <2>1 DEF K!InUse
  <2>2. CASE \E d \in Calls : K!UsedBy(sealCall'[d], n)
    <3>1. PICK d \in Calls : K!UsedBy(sealCall'[d], n)
      BY <2>2
    <3>2. CASE d # c
      BY <1>1, <3>1, <3>2 DEF K!InUse
    <3>3. CASE d = c
      BY <1>1, <3>1, <3>3 DEF K!InUse, K!UsedBy
    <3> QED
      BY <3>2, <3>3
  <2> QED
    BY <1>2, <2>1, <2>2 DEF K!InUse
<1> QED
  BY <1>1, <1>2

LEMMA KeyIsRead ==
    ASSUME K!SealedIInv, NEW c \in Calls, K!ReadKey(c)
    PROVE  K!SealedIInv'
<1> DEFINE stage == IF keyFile = Null THEN "draw" ELSE K!AfterKey(c)
           r == Moved(sealCall[c], sealCall[c].base, keyFile, stage)
<1>1. /\ sealed \in SealedKinds /\ sealCall \in [Calls -> K!CallRecord(sealed)]
      /\ sealCall[c] \in K!CallRecord(sealed) /\ keyFile \in K!FileKeys \cup {Null}
      /\ keys \in K!FileKeys /\ keyRaced \in BOOLEAN
  BY SealedFacts DEF K!FilesTyped
<1>2. /\ sealCall[c].pc = "key"
      /\ UNCHANGED <<sealed, keyFile, keys, store, accepted, storeOverlapped>>
      /\ keyRaced' = (keyRaced \/ (keyFile # Null /\ \E d \in Calls : sealCall[d].pc = "fill"))
      /\ sealCall' = [sealCall EXCEPT ![c].key = keyFile, ![c].pc = stage]
  BY DEF K!ReadKey, K!files
<1>3. sealCall' = [sealCall EXCEPT ![c] = r]
  <2> HIDE DEF stage
  <2>1. r = [sealCall[c] EXCEPT !.key = keyFile, !.pc = stage]
    BY <1>1 DEF Moved, K!CallRecord
  <2> HIDE DEF r
  <2> QED
    BY <1>1, <1>2, <2>1
<1>4. /\ r \in K!CallRecord(sealed) /\ r.answer = "none" /\ r.pc # "fill"
      /\ r.base = sealCall[c].base /\ r.key = keyFile
      /\ K!AskedWell(sealed, r) /\ K!HasKey(r) /\ K!ReadIsCurrent(store, r)
  <2>1. CASE keyFile = Null
    <3>1. /\ r \in K!CallRecord(sealed) /\ r.pc = "draw" /\ r.key = Null
          /\ r.base = sealCall[c].base /\ r.task = sealCall[c].task /\ r.id = sealCall[c].id
          /\ r.passphrase = sealCall[c].passphrase /\ r.outdated = sealCall[c].outdated
          /\ r.answer = sealCall[c].answer
      <4>1. r = Moved(sealCall[c], sealCall[c].base, Null, "draw")
        BY <2>1
      <4>2. /\ sealCall[c].base \in K!Stores(sealed) \cup {Null} /\ "draw" \in K!Stages
            /\ Null \in AnyKey
        BY <1>1, CallFields, AnyKeyFacts DEF K!Stages
      <4> DEFINE q == Moved(sealCall[c], sealCall[c].base, Null, "draw")
      <4>3. /\ q \in K!CallRecord(sealed) /\ q.pc = "draw" /\ q.key = Null
            /\ q.base = sealCall[c].base /\ q.task = sealCall[c].task /\ q.id = sealCall[c].id
            /\ q.passphrase = sealCall[c].passphrase /\ q.outdated = sealCall[c].outdated
            /\ q.answer = sealCall[c].answer
        BY <1>1, <4>2, MovedFacts
      <4> HIDE DEF r, q
      <4> QED
        BY <4>1, <4>3 DEF q
    <3>2. /\ K!AskedWell(sealed, sealCall[c]) /\ K!HasKey(sealCall[c])
          /\ K!ReadIsCurrent(store, sealCall[c])
      BY SealedFacts
    <3> HIDE DEF r
    <3> QED
      BY <1>2, <2>1, <3>1, <3>2 DEF K!AskedWell, K!HasKey, K!ReadIsCurrent
  <2>2. CASE keyFile # Null
    BY <1>1, <1>2, <2>2, AfterTheKey
  <2> QED
    BY <2>1, <2>2
<1> HIDE DEF r, stage
<1>5. ASSUME ~keyRaced' PROVE K!OneKey'
  <2>1. ~keyRaced /\ K!OneKey
    BY <1>2, <1>5 DEF K!SealedIInv
  <2>2. \A n \in K!FileKeys : K!InUse(n)' => n = keyFile'
    BY <1>2, <1>3, <1>4, <2>1, UsesAfter DEF K!OneKey
  <2>3. ASSUME NEW d \in Calls, sealCall'[d].pc = "fill" PROVE FALSE
    <3>1. d # c /\ sealCall[d].pc = "fill"
      BY <1>1, <1>3, <1>4, <2>3
    <3>2. keyFile = 0 /\ keyFile = Null
      BY <1>2, <1>5, <2>1, <3>1 DEF K!OneKey
    <3> QED
      BY <3>2, Nulls
  <2> QED
    BY <2>2, <2>3 DEF K!OneKey
<1> QED
  BY <1>1, <1>2, <1>3, <1>4, <1>5, OneCall

LEMMA KeyIsDrawn ==
    ASSUME K!SealedIInv, NEW c \in Calls, K!DrawKey(c)
    PROVE  K!SealedIInv'
<1> DEFINE r == Moved(sealCall[c], sealCall[c].base, keys + 1, "fill")
<1>1. /\ sealed \in SealedKinds /\ sealCall \in [Calls -> K!CallRecord(sealed)]
      /\ sealCall[c] \in K!CallRecord(sealed) /\ keyFile \in K!FileKeys \cup {Null}
      /\ keys \in K!FileKeys /\ keyRaced \in BOOLEAN
  BY SealedFacts DEF K!FilesTyped
<1>2. /\ sealCall[c].pc = "draw" /\ keys < MaxKeys /\ keys' = keys + 1 /\ keyFile' = 0
      /\ UNCHANGED <<sealed, store, accepted, storeOverlapped>>
      /\ keyRaced' = (keyRaced \/ keyFile # Null)
      /\ sealCall' = [sealCall EXCEPT ![c].key = keys + 1, ![c].pc = "fill"]
  BY DEF K!DrawKey
<1>3. keys + 1 \in K!FileKeys
  BY <1>1, <1>2, SecretsAssumption DEF K!FileKeys
<1>4. sealCall' = [sealCall EXCEPT ![c] = r]
  <2>1. r = [sealCall[c] EXCEPT !.key = keys + 1, !.pc = "fill"]
    BY <1>1 DEF Moved, K!CallRecord
  <2> HIDE DEF r
  <2> QED
    BY <1>1, <1>2, <2>1
<1>5. /\ r \in K!CallRecord(sealed) /\ r.pc = "fill" /\ r.key = keys + 1
      /\ r.base = sealCall[c].base /\ r.task = sealCall[c].task /\ r.id = sealCall[c].id
      /\ r.passphrase = sealCall[c].passphrase /\ r.outdated = sealCall[c].outdated
      /\ r.answer = sealCall[c].answer
  BY <1>1, <1>3, CallFields, MovedFacts, AnyKeyFacts DEF K!Stages
<1> HIDE DEF r
<1>6. K!AskedWell(sealed, r) /\ K!HasKey(r) /\ K!ReadIsCurrent(store, r) /\ r.answer = "none"
  <2>1. /\ K!AskedWell(sealed, sealCall[c]) /\ K!HasKey(sealCall[c])
        /\ K!ReadIsCurrent(store, sealCall[c])
    BY SealedFacts
  <2> QED
    BY <1>2, <1>3, <1>5, <2>1 DEF K!AskedWell, K!HasKey, K!ReadIsCurrent
<1>7. ASSUME ~keyRaced' PROVE K!OneKey'
  <2>1. ~keyRaced /\ keyFile = Null /\ K!OneKey
    BY <1>2, <1>7 DEF K!SealedIInv
  <2>2. \A n \in K!FileKeys : ~K!InUse(n)
    BY <2>1, Nulls DEF K!OneKey
  <2>3. \A n \in K!FileKeys : ~K!InUse(n)'
    BY <1>2, <1>4, <1>5, <2>2, UsesAfter
  <2>4. \A d \in Calls : sealCall[d].pc # "fill"
    BY <2>1, Nulls DEF K!OneKey
  <2>5. \A d \in Calls : sealCall'[d].pc = "fill" => d = c
    BY <1>1, <1>4, <2>4
  <2> QED
    BY <1>2, <2>3, <2>5 DEF K!OneKey
<1>8. keyRaced' \in BOOLEAN /\ keyFile' \in K!FileKeys \cup {Null}
  BY <1>1, <1>2, Nulls
<1> QED
  BY <1>2, <1>3, <1>4, <1>5, <1>6, <1>7, <1>8, OneCall

LEMMA KeyIsFilled ==
    ASSUME K!SealedIInv, NEW c \in Calls, K!FillKey(c)
    PROVE  K!SealedIInv'
<1> DEFINE key == sealCall[c].key
           r == Moved(sealCall[c], sealCall[c].base, key, K!AfterKey(c))
<1>1. /\ sealed \in SealedKinds /\ sealCall \in [Calls -> K!CallRecord(sealed)]
      /\ sealCall[c] \in K!CallRecord(sealed)
      /\ keys \in K!FileKeys /\ keyRaced \in BOOLEAN
  BY SealedFacts DEF K!FilesTyped
<1>2. /\ sealCall[c].pc = "fill" /\ keyFile' = key
      /\ UNCHANGED <<sealed, keys, store, accepted, keyRaced, storeOverlapped>>
      /\ sealCall' = [sealCall EXCEPT ![c].pc = K!AfterKey(c)]
  BY DEF K!FillKey, K!Goes, K!histories
<1>3. key \in K!FileKeys
  BY <1>2, SealedFacts DEF K!HasKey
<1>4. sealCall' = [sealCall EXCEPT ![c] = r]
  <2>1. r = [sealCall[c] EXCEPT !.pc = K!AfterKey(c)]
    BY <1>1, OneFieldMoves
  <2> HIDE DEF r
  <2> QED
    BY <1>1, <1>2, <2>1
<1>5. /\ r \in K!CallRecord(sealed) /\ r.pc \notin {"fill", "over"} /\ r.key = key
      /\ r.base = sealCall[c].base /\ r.answer = "none"
      /\ K!AskedWell(sealed, r) /\ K!HasKey(r) /\ K!ReadIsCurrent(store, r)
  BY <1>2, <1>3, AfterTheKey
<1> HIDE DEF r, key
<1>6. ASSUME ~keyRaced' PROVE K!OneKey'
  <2>1. ~keyRaced /\ K!OneKey
    BY <1>2, <1>6 DEF K!SealedIInv
  <2>2. /\ \A n \in K!FileKeys : ~K!InUse(n)
        /\ \A d \in Calls : sealCall[d].pc = "fill" => d = c
    BY <1>2, <2>1 DEF K!OneKey
  <2>3. \A n \in K!FileKeys : K!InUse(n)' => n = keyFile'
    BY <1>2, <1>4, <1>5, <2>2, UsesAfter
  <2>4. \A d \in Calls : sealCall'[d].pc # "fill"
    BY <1>1, <1>4, <1>5, <2>2
  <2> QED
    BY <2>3, <2>4 DEF K!OneKey
<1> QED
  BY <1>1, <1>2, <1>3, <1>4, <1>5, <1>6, OneCall

-----------------------------------------------------------------------------
(* The calls: the store.                                                    *)
LEMMA ReadingGoesOn ==
    ASSUME K!SealedIInv, NEW c \in Calls, sealCall[c].pc = "store",
           NEW key \in AnyKey, key = sealCall[c].key \/ key \in Passphrases,
           NEW stage \in {"write", "key", "open"},
           sealCall' = [sealCall EXCEPT ![c] = Moved(sealCall[c], store, key, stage)],
           UNCHANGED <<sealed, keyFile, keys, store, accepted, keyRaced, storeOverlapped>>,
           K!HasKey(Moved(sealCall[c], store, key, stage))
    PROVE  K!SealedIInv'
<1> DEFINE r == Moved(sealCall[c], store, key, stage)
<1>1. /\ sealed \in SealedKinds /\ sealCall[c] \in K!CallRecord(sealed)
      /\ store \in K!Stores(sealed) /\ store # Null
      /\ K!AskedWell(sealed, sealCall[c]) /\ K!HasKey(sealCall[c])
      /\ K!ReadIsCurrent(store, sealCall[c])
  BY SealedFacts, Nulls DEF K!FilesTyped
<1>2. /\ r.base = store /\ r.key = key /\ r.pc = stage
      /\ r.task = sealCall[c].task /\ r.id = sealCall[c].id
      /\ r.passphrase = sealCall[c].passphrase /\ r.outdated = sealCall[c].outdated
      /\ r.answer = sealCall[c].answer /\ r \in K!CallRecord(sealed)
  BY <1>1, MovedFacts DEF K!Stages
<1> HIDE DEF r
<1>3. K!AskedWell(sealed, r) /\ r.answer = "none"
  BY <1>1, <1>2 DEF K!AskedWell
<1>4. K!ReadIsCurrent(store, r)
  BY <1>1, <1>2 DEF K!ReadIsCurrent
<1>5. \A n \in K!FileKeys : K!UsedBy(r, n) => K!InUse(n)
  BY <1>1, <1>2, Nulls DEF K!UsedBy, K!InUse
<1> QED
  BY <1>1, <1>2, <1>3, <1>4, <1>5, CallGoesOn DEF r

LEMMA StoreIsRead ==
    ASSUME K!SealedIInv, NEW c \in Calls, K!ReadStore(c)
    PROVE  K!SealedIInv'
<1> DEFINE t == sealCall[c].task
           old == store[sealCall[c].id]
           w == sealCall[c].passphrase
           Read(key, stage) == Moved(sealCall[c], store, key, stage)
<1>1. /\ sealed \in SealedKinds /\ sealCall \in [Calls -> K!CallRecord(sealed)]
      /\ sealCall[c] \in K!CallRecord(sealed)
      /\ store \in K!Stores(sealed) /\ store # Null
      /\ K!AskedWell(sealed, sealCall[c]) /\ K!HasKey(sealCall[c])
  BY SealedFacts, Nulls DEF K!FilesTyped
<1>2. /\ sealCall[c].pc = "store"
      /\ UNCHANGED <<sealed, keyFile, keys, store, accepted, keyRaced, storeOverlapped>>
  BY DEF K!ReadStore, K!files, K!histories
<1>3. /\ t \in K!Tasks[sealed] /\ sealCall[c].id \in SecretIds
      /\ sealCall[c].base = Null
      /\ IF t \in K!KeyFirst THEN K!OwnKey(sealCall[c]) ELSE sealCall[c].key = Null
      /\ w \in Passphrases \cup {Null} /\ sealCall[c].key \in AnyKey
  BY <1>1, <1>2, CallFields DEF K!AskedWell, K!HasKey, AnyKey
<1>4. old \in K!Records(sealed) \cup {Null}
  BY <1>1, <1>3 DEF K!Stores
<1>5. \A key, stage : /\ Read(key, stage).base = store /\ Read(key, stage).key = key
                      /\ Read(key, stage).pc = stage /\ Read(key, stage).task = t
                      /\ Read(key, stage).id = sealCall[c].id /\ Read(key, stage).passphrase = w
  BY <1>1, MovedFacts
<1>6. /\ \A stage : [sealCall EXCEPT ![c].base = store, ![c].pc = stage] =
                      [sealCall EXCEPT ![c] = Read(sealCall[c].key, stage)]
      /\ [sealCall EXCEPT ![c].base = store, ![c].key = w, ![c].pc = "open"] =
           [sealCall EXCEPT ![c] = Read(w, "open")]
  BY <1>1 DEF Moved, K!CallRecord
<1> HIDE DEF Read
(* The call goes on to write, ...                                           *)
<1>7. ASSUME sealCall' = [sealCall EXCEPT ![c].base = store, ![c].pc = "write"],
             t \in {"configure", "create", "set", "remove", "delete"}
      PROVE  K!SealedIInv'
  <2>1. sealCall' = [sealCall EXCEPT ![c] = Read(sealCall[c].key, "write")]
    BY <1>6, <1>7
  <2>2. K!HasKey(Read(sealCall[c].key, "write"))
    BY <1>1, <1>3, <1>5, <1>7 DEF K!HasKey, K!OwnKey, K!KeyFirst
  <2> QED
    BY <1>2, <1>3, <2>1, <2>2, ReadingGoesOn DEF Read
(* ... to get its key, ...                                                  *)
<1>8. ASSUME sealCall' = [sealCall EXCEPT ![c].base = store, ![c].pc = "key"],
             t = "set" \/ (t \in {"use", "update"} /\ old # Null
                           /\ old.mode \in {"local", "secret"})
      PROVE  K!SealedIInv'
  <2>1. sealCall' = [sealCall EXCEPT ![c] = Read(sealCall[c].key, "key")]
    BY <1>6, <1>8
  <2>2. K!HasKey(Read(sealCall[c].key, "key"))
    BY <1>1, <1>3, <1>5, <1>8 DEF K!HasKey, K!KeyFirst
  <2> QED
    BY <1>2, <1>3, <2>1, <2>2, ReadingGoesOn DEF Read
(* ... or to open the record.                                               *)
<1>9. ASSUME sealCall' = [sealCall EXCEPT ![c].base = store, ![c].pc = "open"],
             t \in {"use", "update"}, old # Null, old.mode = "none"
      PROVE  K!SealedIInv'
  <2>1. sealCall' = [sealCall EXCEPT ![c] = Read(sealCall[c].key, "open")]
    BY <1>6, <1>9
  <2>2. K!HasKey(Read(sealCall[c].key, "open"))
    BY <1>1, <1>3, <1>5, <1>9 DEF K!HasKey, K!RightKey
  <2> QED
    BY <1>2, <1>3, <2>1, <2>2, ReadingGoesOn DEF Read
<1>10. ASSUME sealCall' = [sealCall EXCEPT ![c].base = store, ![c].key = w, ![c].pc = "open"],
              t \in {"use", "update"}, old # Null, old.mode = "passphrase", w # Null
       PROVE  K!SealedIInv'
  <2>1. sealCall' = [sealCall EXCEPT ![c] = Read(w, "open")]
    BY <1>6, <1>10
  <2>2. K!HasKey(Read(w, "open"))
    BY <1>1, <1>3, <1>5, <1>10 DEF K!HasKey, K!RightKey
  <2>3. w \in Passphrases /\ w \in AnyKey
    BY <1>3, <1>10, AnyKeyFacts
  <2> QED
    BY <1>2, <2>1, <2>2, <2>3, ReadingGoesOn DEF Read
<1>11. ASSUME NEW a \in {"error", "missing"}, K!Ends(c, a)
       PROVE  K!SealedIInv'
  BY <1>2, <1>11, CallEnds
<1>12. t \in {"configure", "create", "set", "remove", "delete", "use", "update"}
  BY <1>1, <1>3, TaskFacts DEF SealedKinds
<1>13. CASE t \in {"configure", "create", "set"}
  BY <1>7, <1>8, <1>11, <1>13 DEF K!ReadStore
<1>14. CASE t \in {"remove", "delete"}
  BY <1>7, <1>11, <1>14 DEF K!ReadStore
<1>15. CASE t \in {"use", "update"}
  <2>1. CASE old = Null
    BY <1>11, <1>15, <2>1 DEF K!ReadStore
  <2>2. CASE old # Null /\ old.mode = "passphrase"
    BY <1>10, <1>11, <1>15, <2>2 DEF K!ReadStore
  <2>3. CASE old # Null /\ old.mode # "passphrase"
    <3>1. old.mode \in {"local", "secret", "none"}
      BY <1>1, <1>4, <2>3, RecordFacts
    <3> QED
      BY <1>8, <1>9, <1>15, <2>3, <3>1 DEF K!ReadStore
  <2> QED
    BY <2>1, <2>2, <2>3
<1> QED
  BY <1>12, <1>13, <1>14, <1>15

LEMMA RecordIsOpened ==
    ASSUME K!SealedIInv, NEW c \in Calls, K!Open(c)
    PROVE  K!SealedIInv'
<1> DEFINE r == Moved(sealCall[c], sealCall[c].base, sealCall[c].key, "write")
           old == K!Current(c)
<1>1. /\ sealed \in SealedKinds /\ sealCall \in [Calls -> K!CallRecord(sealed)]
      /\ sealCall[c] \in K!CallRecord(sealed)
      /\ K!AskedWell(sealed, sealCall[c]) /\ K!HasKey(sealCall[c])
      /\ K!ReadIsCurrent(store, sealCall[c])
  BY SealedFacts
<1>2. /\ sealCall[c].pc = "open"
      /\ UNCHANGED <<sealed, keyFile, keys, store, accepted, keyRaced, storeOverlapped>>
  BY DEF K!Open, K!files, K!histories
<1>3. /\ sealCall[c].base # Null /\ sealCall[c].task \in {"use", "update"}
      /\ K!RightKey(sealCall[c]) /\ sealCall[c].id \in SecretIds
      /\ sealCall[c].base \in K!Stores(sealed)
  BY <1>1, <1>2, CallFields DEF K!HasKey, K!AskedWell
<1>4. old # Null /\ old \in K!Records(sealed)
  BY <1>3 DEF K!RightKey, K!Current, K!Stores
<1>5. CASE ~K!Opens(c)
  <2>1. K!Ends(c, "unreadable")
    BY <1>5 DEF K!Open
  <2>2. ASSUME ~keyRaced, sealCall[c].passphrase = Null PROVE FALSE
    <3>1. PICK p \in K!Parts : K!Kept(old, p) # Null /\ K!Kept(old, p).key # sealCall[c].key
      BY <1>5 DEF K!Opens
    <3>2. /\ K!Kept(old, p) = old.sealed[p] /\ old.mode # "none"
          /\ old.mode # "passphrase" => old.sealed[p] \in K!SealedBy(K!FileKeys)
      BY <1>1, <1>4, <3>1, KeptFacts
    <3>3. old.mode # "passphrase"
      BY <1>3, <2>2 DEF K!RightKey, K!Current
    <3>4. sealCall[c].key \in K!FileKeys
      BY <1>1, <1>3, <1>4, <3>2, <3>3, RecordFacts DEF K!RightKey, K!Current
    <3>5. old.sealed[p].key \in K!FileKeys
      BY <3>2, <3>3 DEF K!SealedBy
    <3>6. K!InUse(sealCall[c].key)
      BY <1>2 DEF K!InUse, K!UsedBy
    <3>7. K!UsedIn(sealCall[c].base, old.sealed[p].key)
      BY <1>3, <1>4, <3>1, <3>2, <3>3 DEF K!UsedIn, K!Current
    <3>8. K!InUse(old.sealed[p].key)
      BY <1>3, <3>7 DEF K!InUse, K!UsedBy
    <3>9. K!OneKey
      BY <2>2 DEF K!SealedIInv
    <3> QED
      BY <3>1, <3>2, <3>4, <3>5, <3>6, <3>8, <3>9 DEF K!OneKey
  <2> QED
    BY <1>2, <2>1, <2>2, CallEnds
<1>6. CASE K!Opens(c) /\ sealCall[c].task # "update"
  <2>1. K!Ends(c, "ok")
    BY <1>6 DEF K!Open
  <2> QED
    BY <1>2, <2>1, CallEnds
<1>7. CASE K!Opens(c) /\ sealCall[c].task = "update"
  <2>1. sealCall' = [sealCall EXCEPT ![c] = r]
    <3>1. sealCall' = [sealCall EXCEPT ![c].pc = "write"]
      BY <1>7 DEF K!Open, K!Goes
    <3>2. r = [sealCall[c] EXCEPT !.pc = "write"]
      BY <1>1 DEF Moved, K!CallRecord
    <3> HIDE DEF r
    <3> QED
      BY <1>1, <3>1, <3>2
  <2>2. /\ r.base = sealCall[c].base /\ r.key = sealCall[c].key /\ r.pc = "write"
        /\ r.task = sealCall[c].task /\ r.id = sealCall[c].id
        /\ r.passphrase = sealCall[c].passphrase /\ r.outdated = sealCall[c].outdated
        /\ r.answer = sealCall[c].answer
    BY <1>1, MovedFacts
  <2>3. r \in K!CallRecord(sealed)
    <3>1. /\ sealCall[c].base \in K!Stores(sealed) \cup {Null} /\ sealCall[c].key \in AnyKey
          /\ "write" \in K!Stages
      BY <1>1, CallFields DEF AnyKey, K!Stages
    <3> QED
      BY <1>1, <3>1, MovedFacts
  <2> HIDE DEF r
  <2>4. K!AskedWell(sealed, r) /\ r.answer = "none" /\ K!ReadIsCurrent(store, r)
    BY <1>1, <1>2, <2>2 DEF K!AskedWell, K!ReadIsCurrent
  <2>5. K!HasKey(r)
    BY <1>3, <1>7, <2>2 DEF K!HasKey, K!RightKey, K!KeyFirst
  <2>6. \A n \in K!FileKeys : K!UsedBy(r, n) => K!InUse(n)
    BY <1>2, <2>2 DEF K!UsedBy, K!InUse
  <2> QED
    BY <1>2, <2>1, <2>2, <2>3, <2>4, <2>5, <2>6, CallGoesOn
<1> QED
  BY <1>5, <1>6, <1>7

LEMMA CallReturns ==
    ASSUME K!SealedIInv, NEW c \in Calls, K!Return(c)
    PROVE  K!SealedIInv'
  BY SealedFacts, IdleFacts, CallGoesOn DEF K!Return, K!files, K!histories

(* The process dies: what was under way is gone, what is in the files stays.*)
LEMMA ProcessDies ==
    ASSUME K!SealedIInv, K!Dies
    PROVE  K!SealedIInv'
<1>1. /\ UNCHANGED <<sealed, keyFile, keys, store, accepted, keyRaced, storeOverlapped>>
      /\ sealCall' = [c \in Calls |-> K!Idle] /\ sealed \in SealedKinds
  BY DEF K!Dies, K!files, K!histories, K!SealedIInv, K!FilesTyped, SealedKinds
<1>2. K!FilesTyped'
  BY <1>1 DEF K!SealedIInv, K!FilesTyped
<1>3. K!CallsFollow'
  BY <1>1, IdleFacts DEF K!CallsFollow
<1>4. ASSUME ~keyRaced' PROVE K!OneKey'
  <2>1. K!OneKey
    BY <1>1, <1>4 DEF K!SealedIInv
  <2>2. \A n \in K!FileKeys : K!InUse(n)' => K!InUse(n)
    BY <1>1, IdleFacts DEF K!InUse
  <2>3. \A d \in Calls : sealCall'[d].pc # "fill"
    BY <1>1, IdleFacts
  <2> QED
    BY <1>1, <2>1, <2>2, <2>3 DEF K!OneKey
<1>5. (~storeOverlapped => K!KeepsWhatItTold)'
  BY <1>1 DEF K!SealedIInv, K!KeepsWhatItTold, K!Kept
<1> QED
  BY <1>2, <1>3, <1>4, <1>5 DEF K!SealedIInv

-----------------------------------------------------------------------------
(* The calls: what is written.                                              *)
SecretOf(s) == IF s = Null THEN Null ELSE s.secret

(* Part p of a record that call c may write: under the call's own key or    *)
(* one that its base uses, ...                                              *)
KeyKept(c, r, p) ==
    \/ r.sealed[p].key = sealCall[c].key
    \/ /\ K!Current(c) # Null /\ K!Current(c).mode # "passphrase"
       /\ K!Current(c).sealed[p] # Null /\ r.sealed[p].key = K!Current(c).sealed[p].key

(* ... with the secret the answer tells of, if it was so before.            *)
SecretKept(c, r, given, p) ==
    accepted[sealCall[c].id][p] = SecretOf(K!Kept(K!Current(c), p)) =>
        given[p] = SecretOf(K!Kept(r, p))

WellWritten(c, r, given) ==
    /\ r \in K!Records(sealed) \cup {Null}
    /\ given \in [K!Parts -> Secrets \cup {Null}]
    /\ r # Null /\ r.mode # "passphrase" =>
          \A p \in K!Parts : r.sealed[p] # Null => KeyKept(c, r, p)
    /\ \A p \in K!Parts : SecretKept(c, r, given, p)

LEMMA Outdated ==
    ASSUME NEW k \in SealedKinds, NEW q \in K!CallRecord(k), NEW b \in BOOLEAN
    PROVE  /\ [q EXCEPT !.outdated = b] \in K!CallRecord(k)
           /\ [q EXCEPT !.outdated = b].pc = q.pc /\ [q EXCEPT !.outdated = b].task = q.task
           /\ [q EXCEPT !.outdated = b].id = q.id /\ [q EXCEPT !.outdated = b].base = q.base
           /\ [q EXCEPT !.outdated = b].passphrase = q.passphrase
           /\ [q EXCEPT !.outdated = b].key = q.key /\ [q EXCEPT !.outdated = b].answer = q.answer
           /\ [q EXCEPT !.outdated = b].outdated = b
           /\ q.outdated = b => [q EXCEPT !.outdated = b] = q
  BY DEF K!CallRecord

LEMMA RecordIsWritten ==
    ASSUME K!SealedIInv, NEW c \in Calls, sealCall[c].pc = "write",
           NEW r, NEW given, WellWritten(c, r, given),
           store' = [sealCall[c].base EXCEPT ![sealCall[c].id] = r],
           sealCall' = [d \in Calls |-> IF d = c THEN K!Over(c, "ok")
                          ELSE [sealCall[d] EXCEPT !.outdated = (sealCall[d].base # Null)]],
           accepted' = [accepted EXCEPT ![sealCall[c].id] = given],
           storeOverlapped' = (storeOverlapped \/ sealCall[c].outdated),
           UNCHANGED <<sealed, keyFile, keys, keyRaced>>
    PROVE  K!SealedIInv'
<1> DEFINE base == sealCall[c].base
           i == sealCall[c].id
           Other(d) == [sealCall[d] EXCEPT !.outdated = (sealCall[d].base # Null)]
<1>1. /\ sealed \in SealedKinds /\ sealCall \in [Calls -> K!CallRecord(sealed)]
      /\ sealCall[c] \in K!CallRecord(sealed) /\ K!FilesTyped
      /\ K!AskedWell(sealed, sealCall[c]) /\ K!HasKey(sealCall[c])
      /\ K!ReadIsCurrent(store, sealCall[c])
  BY SealedFacts
<1>2. base \in K!Stores(sealed) /\ base # Null /\ i \in SecretIds
      /\ sealCall[c].outdated \in BOOLEAN
  BY <1>1, CallFields DEF K!HasKey, K!AskedWell
<1>3. /\ \A j \in SecretIds : store'[j] = IF j = i THEN r ELSE base[j]
      /\ store' \in K!Stores(sealed)
  BY <1>2 DEF K!Stores, WellWritten
<1>4. \A d \in Calls : sealCall'[d] = IF d = c THEN K!Over(c, "ok") ELSE Other(d)
  OBVIOUS
<1>5. ASSUME NEW d \in Calls
      PROVE  /\ Other(d) \in K!CallRecord(sealed)
             /\ Other(d).pc = sealCall[d].pc /\ Other(d).task = sealCall[d].task
             /\ Other(d).id = sealCall[d].id /\ Other(d).base = sealCall[d].base
             /\ Other(d).passphrase = sealCall[d].passphrase /\ Other(d).key = sealCall[d].key
             /\ Other(d).answer = sealCall[d].answer
             /\ Other(d).outdated = (sealCall[d].base # Null)
             /\ sealCall[d].outdated = (sealCall[d].base # Null) => Other(d) = sealCall[d]
  <2> DEFINE b == (sealCall[d].base # Null)
             q == [sealCall[d] EXCEPT !.outdated = b]
  <2>1. sealCall[d] \in K!CallRecord(sealed) /\ b \in BOOLEAN
    BY <1>1
  <2>2. Other(d) = q
    OBVIOUS
  <2> HIDE DEF b, Other
  <2>3. /\ q \in K!CallRecord(sealed)
        /\ q.pc = sealCall[d].pc /\ q.task = sealCall[d].task
        /\ q.id = sealCall[d].id /\ q.base = sealCall[d].base
        /\ q.passphrase = sealCall[d].passphrase /\ q.key = sealCall[d].key
        /\ q.answer = sealCall[d].answer /\ q.outdated = b
        /\ sealCall[d].outdated = b => q = sealCall[d]
    BY <1>1, <2>1, Outdated
  <2> HIDE DEF q
  <2> QED
    BY <2>2, <2>3 DEF b
<1> HIDE DEF base, i, Other
<1>6. K!FilesTyped'
  <2>1. accepted' \in [SecretIds -> [K!Parts -> Secrets \cup {Null}]]
    BY <1>1 DEF K!FilesTyped, WellWritten
  <2>2. storeOverlapped' \in BOOLEAN
    BY <1>1, <1>2 DEF K!FilesTyped
  <2> QED
    BY <1>1, <1>3, <2>1, <2>2 DEF K!FilesTyped
<1>7. ASSUME NEW d \in Calls
      PROVE  /\ sealCall'[d] \in K!CallRecord(sealed)
             /\ K!AskedWell(sealed, sealCall'[d]) /\ K!HasKey(sealCall'[d])
             /\ K!ReadIsCurrent(store', sealCall'[d])
             /\ sealCall'[d].answer = "unreadable" => keyRaced \/ sealCall'[d].passphrase # Null
  <2>1. CASE d = c
    <3>1. sealCall'[d] = K!Over(c, "ok")
      BY <1>4, <2>1
    <3> QED
      BY <3>1, OverFacts
  <2>2. CASE d # c
    <3>1. sealCall'[d] = Other(d)
      BY <1>4, <2>2
    <3>2. /\ K!AskedWell(sealed, sealCall[d]) /\ K!HasKey(sealCall[d])
          /\ K!ReadIsCurrent(store, sealCall[d])
          /\ sealCall[d].answer = "unreadable" => keyRaced \/ sealCall[d].passphrase # Null
      BY SealedFacts
    <3>3. sealCall[d].pc = "idle" => Other(d) = K!Idle
      <4> SUFFICES ASSUME sealCall[d].pc = "idle" PROVE Other(d) = K!Idle
        OBVIOUS
      <4>1. sealCall[d] = K!Idle
        BY <3>2 DEF K!AskedWell
      <4>2. sealCall[d].outdated = FALSE /\ sealCall[d].base = Null
        BY <4>1 DEF K!Idle
      <4> QED
        BY <1>5, <4>1, <4>2
    <3>4. K!AskedWell(sealed, Other(d))
      BY <1>5, <3>2, <3>3 DEF K!AskedWell
    <3>5. K!HasKey(Other(d))
      BY <1>5, <3>2 DEF K!HasKey, K!OwnKey, K!RightKey
    <3>6. K!ReadIsCurrent(store', Other(d))
      BY <1>5 DEF K!ReadIsCurrent
    <3> QED
      BY <1>5, <3>1, <3>2, <3>4, <3>5, <3>6
  <2> QED
    BY <2>1, <2>2
<1>8. K!CallsFollow'
  <2>1. sealCall' \in [Calls -> K!CallRecord(sealed)]
    BY <1>7
  <2> QED
    BY <1>7, <2>1 DEF K!CallsFollow
<1>9. ASSUME ~keyRaced' PROVE K!OneKey'
  <2>1. K!OneKey
    BY <1>9 DEF K!SealedIInv
  <2>2. ASSUME NEW n \in K!FileKeys, K!UsedIn(store', n) PROVE K!UsedBy(sealCall[c], n)
    <3>1. PICK j \in SecretIds, p \in K!Parts :
             /\ store'[j] # Null /\ store'[j].mode # "passphrase"
             /\ store'[j].sealed[p] # Null /\ store'[j].sealed[p].key = n
      BY <2>2 DEF K!UsedIn
    <3>2. CASE j # i
      BY <1>2, <1>3, <3>1, <3>2 DEF K!UsedIn, K!UsedBy, base
    <3>3. CASE j = i
      <4>1. r # Null /\ r.mode # "passphrase" /\ r.sealed[p] # Null /\ r.sealed[p].key = n
        BY <1>3, <3>1, <3>3
      <4>2. KeyKept(c, r, p)
        BY <4>1 DEF WellWritten
      <4> QED
        BY <1>2, <4>1, <4>2 DEF KeyKept, K!UsedBy, K!UsedIn, K!Current, base, i
    <3> QED
      BY <3>2, <3>3
  <2>3. ASSUME NEW n \in K!FileKeys, K!InUse(n)' PROVE K!InUse(n)
    <3>1. CASE K!UsedIn(store', n)
      BY <2>2, <3>1 DEF K!InUse
    <3>2. CASE \E d \in Calls : K!UsedBy(sealCall'[d], n)
      <4>1. PICK d \in Calls : K!UsedBy(sealCall'[d], n)
        BY <3>2
      <4>2. d # c
        BY <1>4, <4>1, OverFacts
      <4>3. K!UsedBy(sealCall[d], n)
        BY <1>4, <1>5, <4>1, <4>2 DEF K!UsedBy
      <4> QED
        BY <4>3 DEF K!InUse
    <3> QED
      BY <2>3, <3>1, <3>2 DEF K!InUse
  <2>4. \A d \in Calls : sealCall'[d].pc = "fill" => d # c /\ sealCall[d].pc = "fill"
    BY <1>4, <1>5, OverFacts
  <2> QED
    BY <2>1, <2>3, <2>4 DEF K!OneKey
<1>10. ASSUME ~storeOverlapped' PROVE K!KeepsWhatItTold'
  <2>1. ~storeOverlapped /\ base = store
    BY <1>1, <1>2, <1>10 DEF K!ReadIsCurrent, base
  <2>2. \A j \in SecretIds, p \in K!Parts : accepted[j][p] = SecretOf(K!Kept(store[j], p))
    BY <2>1 DEF K!SealedIInv, K!KeepsWhatItTold, SecretOf
  <2>3. \A j \in SecretIds : accepted'[j] = IF j = i THEN given ELSE accepted[j]
    BY <1>1 DEF K!FilesTyped, i
  <2>4. ASSUME NEW j \in SecretIds, NEW p \in K!Parts
        PROVE  accepted'[j][p] = SecretOf(K!Kept(store'[j], p))
    <3>1. CASE j # i
      BY <1>3, <2>1, <2>2, <2>3, <3>1
    <3>2. CASE j = i
      <4>1. accepted[i][p] = SecretOf(K!Kept(K!Current(c), p))
        BY <1>2, <2>1, <2>2 DEF K!Current, base, i
      <4>2. given[p] = SecretOf(K!Kept(r, p))
        BY <4>1 DEF WellWritten, SecretKept, i
      <4> QED
        BY <1>3, <2>3, <3>2, <4>2
    <3> QED
      BY <3>1, <3>2
  <2> QED
    BY <2>4 DEF K!KeepsWhatItTold, SecretOf, K!Kept
<1> QED
  BY <1>6, <1>8, <1>9, <1>10 DEF K!SealedIInv

(* What each task writes.                                                   *)
LEMMA WritingFacts ==
    ASSUME K!SealedIInv, NEW c \in Calls, sealCall[c].pc = "write", NEW given \in K!Given(c)
    PROVE  /\ sealed \in SealedKinds /\ sealCall[c].task \in K!Tasks[sealed]
           /\ sealCall[c].id \in SecretIds
           /\ K!Current(c) \in K!Records(sealed) \cup {Null}
           /\ given \in [K!Parts -> Secrets \cup {Null}]
           /\ accepted \in [SecretIds -> [K!Parts -> Secrets \cup {Null}]]
           /\ sealCall[c].task \in K!KeyFirst => given["main"] # Null /\ K!OwnKey(sealCall[c])
           /\ sealCall[c].task = "set" =>
                 /\ given["extra"] = Null /\ (given["main"] # Null <=> sealCall[c].key # Null)
                 /\ sealCall[c].key \in K!FileKeys \cup {Null}
           /\ sealCall[c].task = "update" => K!RightKey(sealCall[c])
           /\ sealCall[c].passphrase \in Passphrases \cup {Null}
           /\ sealed # "profile" => sealCall[c].passphrase = Null
<1>1. /\ sealed \in SealedKinds /\ K!FilesTyped /\ sealCall[c] \in K!CallRecord(sealed)
      /\ K!AskedWell(sealed, sealCall[c]) /\ K!HasKey(sealCall[c])
  BY SealedFacts
<1>2. sealCall[c].base \in K!Stores(sealed) /\ sealCall[c].id \in SecretIds
  BY <1>1, CallFields DEF K!HasKey, K!AskedWell
<1>3. K!Current(c) \in K!Records(sealed) \cup {Null}
  BY <1>2 DEF K!Current, K!Stores
<1>4. /\ given \in [K!Parts -> Secrets \cup {Null}]
      /\ sealCall[c].task \in K!KeyFirst => given["main"] # Null
      /\ sealCall[c].task = "set" =>
            given["extra"] = Null /\ (given["main"] # Null <=> sealCall[c].key # Null)
  BY DEF K!Given
<1>5. /\ sealCall[c].task \in K!KeyFirst => K!OwnKey(sealCall[c])
      /\ sealCall[c].task = "set" => sealCall[c].key \in K!FileKeys \cup {Null}
      /\ sealCall[c].task = "update" => K!RightKey(sealCall[c])
  BY <1>1 DEF K!HasKey
<1> QED
  BY <1>1, <1>2, <1>3, <1>4, <1>5, CallFields DEF K!AskedWell, K!FilesTyped

(* Secrets that are given are sealed, the others are kept as they are.      *)
LEMMA MergedFacts ==
    ASSUME NEW c, NEW given \in [K!Parts -> Secrets \cup {Null}],
           NEW k \in {"provider", "connector"}, K!Current(c) \in K!Records(k) \cup {Null},
           \A p \in K!Parts : given[p] # Null => sealCall[c].key \in K!FileKeys
    PROVE  /\ K!Merged(c, given) \in K!Seals(K!FileKeys)
           /\ \A p \in K!Parts :
                 K!Merged(c, given)[p] = IF given[p] = Null THEN K!Kept(K!Current(c), p)
                                         ELSE K!Seal(c, given[p])
           /\ \A p \in K!Parts : given[p] # Null =>
                 /\ K!Seal(c, given[p]) # Null /\ K!Seal(c, given[p]).key = sealCall[c].key
                 /\ K!Seal(c, given[p]).secret = given[p]
<1>1. ASSUME NEW p \in K!Parts, given[p] # Null
      PROVE  /\ K!Seal(c, given[p]) \in K!SealedBy(K!FileKeys)
             /\ K!Seal(c, given[p]).key = sealCall[c].key
             /\ K!Seal(c, given[p]).secret = given[p]
  <2>1. given[p] \in Secrets /\ sealCall[c].key \in K!FileKeys
    BY <1>1
  <2> QED
    BY <2>1 DEF K!Seal, K!SealedBy
<1>2. ASSUME NEW p \in K!Parts PROVE K!Kept(K!Current(c), p) \in K!SealedBy(K!FileKeys) \cup {Null}
  <2>1. CASE K!Kept(K!Current(c), p) = Null
    BY <2>1
  <2>2. CASE K!Kept(K!Current(c), p) # Null
    <3>1. k \in SealedKinds
      BY DEF SealedKinds
    <3>2. /\ K!Current(c) \in K!Records(k) /\ K!Kept(K!Current(c), p) = K!Current(c).sealed[p]
          /\ K!Current(c).mode # "passphrase" =>
                K!Current(c).sealed[p] \in K!SealedBy(K!FileKeys)
      BY <2>2, <3>1, KeptFacts
    <3>3. K!Current(c).mode # "passphrase"
      BY <3>1, <3>2, RecordFacts
    <3> QED
      BY <3>2, <3>3
  <2> QED
    BY <2>1, <2>2
<1>3. \A p \in K!Parts :
         K!Merged(c, given)[p] = IF given[p] = Null THEN K!Kept(K!Current(c), p)
                                 ELSE K!Seal(c, given[p])
  BY DEF K!Merged
<1>4. K!Merged(c, given) \in K!Seals(K!FileKeys)
  BY <1>1, <1>2 DEF K!Merged, K!Seals
<1>5. \A p \in K!Parts : given[p] # Null => K!Seal(c, given[p]) # Null
  BY <1>1, Nulls
<1> QED
  BY <1>1, <1>3, <1>4, <1>5

LEMMA ProviderWrites ==
    ASSUME K!SealedIInv, NEW c \in Calls, sealCall[c].pc = "write", NEW given \in K!Given(c),
           NEW mode, sealCall[c].task = "configure"
    PROVE  WellWritten(c, K!NewRecord(c, given, mode), K!Told(c, given, mode))
<1> DEFINE r == K!NewRecord(c, given, mode)
           after == K!Told(c, given, mode)
<1>1. /\ sealed \in SealedKinds /\ sealCall[c].task \in K!Tasks[sealed]
      /\ sealCall[c].id \in SecretIds
      /\ K!Current(c) \in K!Records(sealed) \cup {Null}
      /\ given \in [K!Parts -> Secrets \cup {Null}]
      /\ accepted \in [SecretIds -> [K!Parts -> Secrets \cup {Null}]]
      /\ K!OwnKey(sealCall[c])
      /\ sealed # "profile" => sealCall[c].passphrase = Null
  BY WritingFacts DEF K!KeyFirst
<1>2. sealed = "provider"
  BY <1>1, TaskFacts DEF SealedKinds
<1>3. sealCall[c].key \in K!FileKeys
  BY <1>1, <1>2 DEF K!OwnKey
<1>4. r = [mode |-> "local", sealed |-> K!Merged(c, given)]
  BY DEF K!NewRecord
<1>5. \A p \in K!Parts : after[p] = IF given[p] # Null THEN given[p] ELSE accepted[sealCall[c].id][p]
  BY DEF K!Told
<1>6. after \in [K!Parts -> Secrets \cup {Null}]
  BY <1>1 DEF K!Told
<1> HIDE DEF r, after
<1>7. /\ K!Merged(c, given) \in K!Seals(K!FileKeys)
      /\ \A p \in K!Parts :
            K!Merged(c, given)[p] = IF given[p] = Null THEN K!Kept(K!Current(c), p)
                                    ELSE K!Seal(c, given[p])
      /\ \A p \in K!Parts : given[p] # Null =>
            /\ K!Seal(c, given[p]) # Null /\ K!Seal(c, given[p]).key = sealCall[c].key
            /\ K!Seal(c, given[p]).secret = given[p]
  BY <1>1, <1>2, <1>3, MergedFacts
<1>8. r \in K!Records(sealed) /\ r # Null
  <2>1. r \in K!Records(sealed)
    BY <1>2, <1>4, <1>7 DEF K!Records
  <2> QED
    BY <1>1, <2>1, Nulls
<1>9. ASSUME NEW p \in K!Parts PROVE SecretKept(c, r, after, p)
  BY <1>4, <1>5, <1>7, <1>8 DEF SecretKept, SecretOf, K!Kept
<1>10. ASSUME NEW p \in K!Parts, r.sealed[p] # Null PROVE KeyKept(c, r, p)
  <2>1. r.sealed[p] = IF given[p] = Null THEN K!Kept(K!Current(c), p) ELSE K!Seal(c, given[p])
    BY <1>4, <1>7
  <2>2. CASE given[p] # Null
    BY <1>7, <2>1, <2>2 DEF KeyKept
  <2>3. CASE given[p] = Null
    <3>1. K!Kept(K!Current(c), p) # Null
      BY <1>10, <2>1, <2>3
    <3>2. K!Current(c) # Null /\ K!Current(c).sealed[p] = K!Kept(K!Current(c), p)
      BY <3>1 DEF K!Kept
    <3>3. K!Current(c).mode # "passphrase"
      BY <1>1, <1>2, <3>2, RecordFacts
    <3> QED
      BY <2>1, <2>3, <3>1, <3>2, <3>3 DEF KeyKept
  <2> QED
    BY <2>2, <2>3
<1> QED
  BY <1>6, <1>8, <1>9, <1>10 DEF WellWritten, r, after

LEMMA ConnectorWrites ==
    ASSUME K!SealedIInv, NEW c \in Calls, sealCall[c].pc = "write", NEW given \in K!Given(c),
           NEW mode \in {"unset", "none", "secret"}, sealCall[c].task = "set"
    PROVE  WellWritten(c, K!NewRecord(c, given, mode), K!Told(c, given, mode))
<1> DEFINE r == K!NewRecord(c, given, mode)
           after == K!Told(c, given, mode)
           auth == K!AuthMode(c, given, mode)
<1>1. /\ sealed \in SealedKinds /\ sealCall[c].task \in K!Tasks[sealed]
      /\ sealCall[c].id \in SecretIds
      /\ K!Current(c) \in K!Records(sealed) \cup {Null}
      /\ given \in [K!Parts -> Secrets \cup {Null}]
      /\ accepted \in [SecretIds -> [K!Parts -> Secrets \cup {Null}]]
      /\ given["extra"] = Null /\ (given["main"] # Null <=> sealCall[c].key # Null)
      /\ sealCall[c].key \in K!FileKeys \cup {Null}
  BY WritingFacts
<1>2. sealed = "connector"
  BY <1>1, TaskFacts DEF SealedKinds
<1>3. \A p \in K!Parts : given[p] # Null => sealCall[c].key \in K!FileKeys
  BY <1>1 DEF K!Parts
<1>4. auth \in {"secret", "none"}
  <2>1. K!Current(c) # Null => K!Current(c).mode \in {"secret", "none"}
    BY <1>1, <1>2, RecordFacts
  <2> QED
    BY <2>1 DEF K!AuthMode
<1>5. r = [mode |-> auth,
           sealed |-> IF auth = "none" THEN K!NothingKept ELSE K!Merged(c, given)]
  BY DEF K!NewRecord
<1>6. \A p \in K!Parts :
         after[p] = IF auth = "none" THEN Null
                    ELSE IF given[p] # Null THEN given[p] ELSE accepted[sealCall[c].id][p]
  BY DEF K!Told
<1>7. after \in [K!Parts -> Secrets \cup {Null}]
  BY <1>1 DEF K!Told
<1> HIDE DEF r, after, auth
<1>8. /\ K!Merged(c, given) \in K!Seals(K!FileKeys)
      /\ \A p \in K!Parts :
            K!Merged(c, given)[p] = IF given[p] = Null THEN K!Kept(K!Current(c), p)
                                    ELSE K!Seal(c, given[p])
      /\ \A p \in K!Parts : given[p] # Null =>
            /\ K!Seal(c, given[p]) # Null /\ K!Seal(c, given[p]).key = sealCall[c].key
            /\ K!Seal(c, given[p]).secret = given[p]
  BY <1>1, <1>2, <1>3, MergedFacts
<1>9. r \in K!Records(sealed) /\ r # Null
  <2>1. r \in K!Records(sealed)
    BY <1>2, <1>4, <1>5, <1>8 DEF K!Records
  <2> QED
    BY <1>1, <2>1, Nulls
<1>10. CASE auth = "none"
  <2>1. \A p \in K!Parts : r.sealed[p] = Null
    BY <1>5, <1>10 DEF K!NothingKept
  <2>2. \A p \in K!Parts : SecretKept(c, r, after, p)
    BY <1>6, <1>9, <1>10, <2>1 DEF SecretKept, SecretOf, K!Kept
  <2> QED
    BY <1>7, <1>9, <2>1, <2>2 DEF WellWritten, r, after
<1>11. CASE auth # "none"
  <2>1. ASSUME NEW p \in K!Parts PROVE SecretKept(c, r, after, p)
    BY <1>5, <1>6, <1>8, <1>9, <1>11 DEF SecretKept, SecretOf, K!Kept
  <2>2. ASSUME NEW p \in K!Parts, r.sealed[p] # Null PROVE KeyKept(c, r, p)
    <3>1. r.sealed[p] = IF given[p] = Null THEN K!Kept(K!Current(c), p) ELSE K!Seal(c, given[p])
      BY <1>5, <1>8, <1>11
    <3>2. CASE given[p] # Null
      BY <1>8, <3>1, <3>2 DEF KeyKept
    <3>3. CASE given[p] = Null
      <4>1. K!Kept(K!Current(c), p) # Null
        BY <2>2, <3>1, <3>3
      <4>2. K!Current(c) # Null /\ K!Current(c).sealed[p] = K!Kept(K!Current(c), p)
        BY <4>1 DEF K!Kept
      <4>3. K!Current(c).mode # "passphrase"
        BY <1>1, <1>2, <4>2, RecordFacts
      <4> QED
        BY <3>1, <3>3, <4>1, <4>2, <4>3 DEF KeyKept
    <3> QED
      BY <3>2, <3>3
  <2> QED
    BY <1>7, <1>9, <2>1, <2>2 DEF WellWritten, r, after
<1> QED
  BY <1>10, <1>11

(* A profile is sealed as a whole, with the key the call has.               *)
LEMMA ProfileIsSealed ==
    ASSUME NEW c, NEW ks \in SUBSET (Nat \cup Passphrases), sealCall[c].key \in ks,
           NEW secrets \in [K!Parts -> Secrets \cup {Null}], NEW seals,
           seals = [p \in K!Parts |-> IF secrets[p] = Null THEN Null ELSE K!Seal(c, secrets[p])]
    PROVE  /\ seals \in K!Seals(ks)
           /\ \A p \in K!Parts :
                 /\ seals[p] = Null <=> secrets[p] = Null
                 /\ seals[p] # Null =>
                       seals[p].key = sealCall[c].key /\ seals[p].secret = secrets[p]
<1>1. ASSUME NEW p \in K!Parts, secrets[p] # Null
      PROVE  /\ K!Seal(c, secrets[p]) \in K!SealedBy(ks) /\ K!Seal(c, secrets[p]) # Null
             /\ K!Seal(c, secrets[p]).key = sealCall[c].key
             /\ K!Seal(c, secrets[p]).secret = secrets[p]
  <2>1. secrets[p] \in Secrets
    BY <1>1
  <2>2. K!Seal(c, secrets[p]) \in K!SealedBy(ks)
    BY <2>1 DEF K!Seal, K!SealedBy
  <2> QED
    BY <2>2, Nulls DEF K!Seal
<1>2. seals \in K!Seals(ks)
  BY <1>1 DEF K!Seals
<1> QED
  BY <1>1, <1>2

LEMMA ProfileCreates ==
    ASSUME K!SealedIInv, NEW c \in Calls, sealCall[c].pc = "write", NEW given \in K!Given(c),
           NEW mode, sealCall[c].task = "create"
    PROVE  WellWritten(c, K!NewRecord(c, given, mode), K!Told(c, given, mode))
<1> DEFINE r == K!NewRecord(c, given, mode)
           after == K!Told(c, given, mode)
           w == sealCall[c].passphrase
           seals == [p \in K!Parts |-> IF given[p] = Null THEN Null ELSE K!Seal(c, given[p])]
           ks == IF w = Null THEN K!FileKeys ELSE Passphrases
<1>1. /\ sealed \in SealedKinds /\ sealCall[c].task \in K!Tasks[sealed]
      /\ given \in [K!Parts -> Secrets \cup {Null}]
      /\ K!OwnKey(sealCall[c]) /\ w \in Passphrases \cup {Null}
  BY WritingFacts DEF K!KeyFirst
<1>2. sealed = "profile"
  BY <1>1, TaskFacts DEF SealedKinds
<1>3. r = [mode |-> IF w = Null THEN "local" ELSE "passphrase", sealed |-> seals]
  BY DEF K!NewRecord
<1>4. \A p \in K!Parts : after[p] = given[p]
  BY DEF K!Told
<1>5. after \in [K!Parts -> Secrets \cup {Null}]
  BY <1>1, <1>4 DEF K!Told
<1>6. ks \in SUBSET (Nat \cup Passphrases) /\ sealCall[c].key \in ks
  BY <1>1, Nulls DEF K!OwnKey
<1>7. seals = [p \in K!Parts |-> IF given[p] = Null THEN Null ELSE K!Seal(c, given[p])]
  OBVIOUS
<1>8. /\ w = Null => ks = K!FileKeys
      /\ w # Null => ks = Passphrases
  OBVIOUS
<1> HIDE DEF r, after, w, seals, ks
<1>9. /\ seals \in K!Seals(ks)
      /\ \A p \in K!Parts :
            /\ seals[p] = Null <=> given[p] = Null
            /\ seals[p] # Null =>
                  seals[p].key = sealCall[c].key /\ seals[p].secret = given[p]
  BY <1>1, <1>6, <1>7, ProfileIsSealed
<1>10. r \in K!Records(sealed) /\ r # Null
  <2>1. r \in K!Records(sealed)
    BY <1>2, <1>3, <1>8, <1>9 DEF K!Records
  <2> QED
    BY <1>1, <2>1, Nulls
<1>11. \A p \in K!Parts : SecretKept(c, r, after, p)
  BY <1>3, <1>4, <1>9, <1>10 DEF SecretKept, SecretOf, K!Kept
<1>12. \A p \in K!Parts : r.sealed[p] # Null => KeyKept(c, r, p)
  BY <1>3, <1>9 DEF KeyKept
<1> QED
  BY <1>5, <1>10, <1>11, <1>12 DEF WellWritten, r, after

LEMMA ProfileUpdates ==
    ASSUME K!SealedIInv, NEW c \in Calls, sealCall[c].pc = "write", NEW given \in K!Given(c),
           NEW mode, sealCall[c].task = "update"
    PROVE  WellWritten(c, K!NewRecord(c, given, mode), K!Told(c, given, mode))
<1> DEFINE r == K!NewRecord(c, given, mode)
           after == K!Told(c, given, mode)
           old == K!Current(c)
           secrets == [p \in K!Parts |-> IF given[p] # Null THEN given[p]
                                         ELSE SecretOf(K!Kept(old, p))]
           seals == K!Patched(c, given)
           ks == IF old.mode = "local" THEN K!FileKeys ELSE Passphrases
<1>1. /\ sealed \in SealedKinds /\ sealCall[c].task \in K!Tasks[sealed]
      /\ sealCall[c].id \in SecretIds
      /\ old \in K!Records(sealed) \cup {Null}
      /\ given \in [K!Parts -> Secrets \cup {Null}]
      /\ accepted \in [SecretIds -> [K!Parts -> Secrets \cup {Null}]]
      /\ K!RightKey(sealCall[c]) /\ sealCall[c].passphrase \in Passphrases \cup {Null}
  BY WritingFacts
<1>2. sealed = "profile"
  BY <1>1, TaskFacts DEF SealedKinds
<1>3. old # Null /\ old.mode \in {"local", "passphrase"}
  BY <1>1, <1>2, RecordFacts DEF K!RightKey, K!Current
<1>4. r = [mode |-> old.mode, sealed |-> seals]
  BY DEF K!NewRecord
<1>5. \A p \in K!Parts :
         after[p] = IF given[p] # Null THEN given[p] ELSE accepted[sealCall[c].id][p]
  BY DEF K!Told
<1>6. after \in [K!Parts -> Secrets \cup {Null}]
  BY <1>1 DEF K!Told
<1>7. ks \in SUBSET (Nat \cup Passphrases) /\ sealCall[c].key \in ks
  BY <1>1, <1>3, Nulls DEF K!RightKey, K!Current
<1>8. secrets \in [K!Parts -> Secrets \cup {Null}]
  <2>1. \A p \in K!Parts : SecretOf(K!Kept(old, p)) \in Secrets \cup {Null}
    BY <1>1, KeptFacts DEF SecretOf
  <2> QED
    BY <1>1, <2>1
<1>9. seals = [p \in K!Parts |-> IF secrets[p] = Null THEN Null ELSE K!Seal(c, secrets[p])]
  <2>1. \A p \in K!Parts : K!Kept(old, p) # Null => K!Kept(old, p).secret # Null
    BY <1>1, KeptFacts, Nulls
  <2> QED
    BY <2>1 DEF K!Patched, SecretOf
<1>10. \A p \in K!Parts :
          secrets[p] = IF given[p] # Null THEN given[p] ELSE SecretOf(K!Kept(old, p))
  OBVIOUS
<1>11. /\ old.mode = "local" => ks = K!FileKeys
       /\ old.mode # "local" => ks = Passphrases
  OBVIOUS
<1> HIDE DEF r, after, old, secrets, seals, ks
<1>12. /\ seals \in K!Seals(ks)
       /\ \A p \in K!Parts :
             /\ seals[p] = Null <=> secrets[p] = Null
             /\ seals[p] # Null =>
                   seals[p].key = sealCall[c].key /\ seals[p].secret = secrets[p]
  BY <1>7, <1>8, <1>9, ProfileIsSealed
<1>13. r \in K!Records(sealed) /\ r # Null
  <2>1. r \in K!Records(sealed)
    BY <1>2, <1>3, <1>4, <1>11, <1>12 DEF K!Records
  <2> QED
    BY <1>1, <2>1, Nulls
<1>14. \A p \in K!Parts : SecretKept(c, r, after, p)
  BY <1>4, <1>5, <1>10, <1>12, <1>13 DEF SecretKept, SecretOf, K!Kept, old
<1>15. \A p \in K!Parts : r.sealed[p] # Null => KeyKept(c, r, p)
  BY <1>4, <1>12 DEF KeyKept
<1> QED
  BY <1>6, <1>13, <1>14, <1>15 DEF WellWritten, r, after

(* A call that writes fails, or writes a record that is well written.       *)
Writes(c, r, given) ==
    /\ WellWritten(c, r, given)
    /\ store' = [sealCall[c].base EXCEPT ![sealCall[c].id] = r]
    /\ sealCall' = [d \in Calls |->
         IF d = c THEN K!Over(c, "ok")
         ELSE [sealCall[d] EXCEPT !.outdated = (sealCall[d].base # Null)]]
    /\ accepted' = [accepted EXCEPT ![sealCall[c].id] = given]
    /\ storeOverlapped' = (storeOverlapped \/ sealCall[c].outdated)

LEMMA WhatIsWritten ==
    ASSUME K!SealedIInv, NEW c \in Calls, K!WriteStore(c)
    PROVE  /\ sealCall[c].pc = "write" /\ UNCHANGED <<sealed, keyFile, keys, keyRaced>>
           /\ \/ K!Ends(c, "error") /\ UNCHANGED <<store, accepted, storeOverlapped>>
              \/ \E r, given : Writes(c, r, given)
<1>1. PICK given \in K!Given(c), mode \in {"unset", "none", "secret"} :
         LET removes == sealCall[c].task \in {"remove", "delete"}
             record == IF removes THEN Null ELSE K!NewRecord(c, given, mode)
         IN  \/ K!Ends(c, "error") /\ UNCHANGED <<store, accepted, storeOverlapped>>
             \/ /\ store' = [sealCall[c].base EXCEPT ![sealCall[c].id] = record]
                /\ sealCall' = [d \in Calls |->
                     IF d = c THEN K!Over(c, "ok")
                     ELSE [sealCall[d] EXCEPT !.outdated = (sealCall[d].base # Null)]]
                /\ accepted' = [accepted EXCEPT ![sealCall[c].id] =
                      IF removes THEN K!NothingKept ELSE K!Told(c, given, mode)]
                /\ storeOverlapped' = (storeOverlapped \/ sealCall[c].outdated)
  BY DEF K!WriteStore
<1> DEFINE removes == sealCall[c].task \in {"remove", "delete"}
           record == IF removes THEN Null ELSE K!NewRecord(c, given, mode)
           after == IF removes THEN K!NothingKept ELSE K!Told(c, given, mode)
<1>2. sealCall[c].pc = "write" /\ UNCHANGED <<sealed, keyFile, keys, keyRaced>>
  BY DEF K!WriteStore
<1>3. WellWritten(c, record, after)
  <2>1. CASE removes
    <3>1. record = Null /\ after = K!NothingKept
      BY <2>1
    <3> QED
      BY <3>1 DEF WellWritten, SecretKept, SecretOf, K!Kept, K!NothingKept
  <2>2. CASE ~removes
    <3>1. sealCall[c].task \in {"configure", "create", "set", "update"}
      <4>1. sealCall[c].task \in K!Tasks[sealed] /\ sealed \in SealedKinds
        BY <1>2, WritingFacts
      <4>2. sealCall[c].task # "use"
        BY <1>2, SealedFacts DEF K!HasKey
      <4> QED
        BY <2>2, <4>1, <4>2, TaskFacts DEF SealedKinds
    <3>2. record = K!NewRecord(c, given, mode) /\ after = K!Told(c, given, mode)
      BY <2>2
    <3> HIDE DEF removes, record, after
    <3> QED
      BY <1>2, <3>1, <3>2, ProviderWrites, ConnectorWrites, ProfileCreates, ProfileUpdates
  <2> QED
    BY <2>1, <2>2
<1>4. CASE K!Ends(c, "error") /\ UNCHANGED <<store, accepted, storeOverlapped>>
  BY <1>2, <1>4
<1>5. CASE ~(K!Ends(c, "error") /\ UNCHANGED <<store, accepted, storeOverlapped>>)
  <2>1. /\ store' = [sealCall[c].base EXCEPT ![sealCall[c].id] = record]
        /\ sealCall' = [d \in Calls |->
             IF d = c THEN K!Over(c, "ok")
             ELSE [sealCall[d] EXCEPT !.outdated = (sealCall[d].base # Null)]]
        /\ accepted' = [accepted EXCEPT ![sealCall[c].id] = after]
        /\ storeOverlapped' = (storeOverlapped \/ sealCall[c].outdated)
    BY <1>1, <1>5
  <2> HIDE DEF removes, record, after
  <2> QED
    BY <1>2, <1>3, <2>1 DEF Writes
<1> QED
  BY <1>4, <1>5

LEMMA StoreIsWritten ==
    ASSUME K!SealedIInv, NEW c \in Calls, K!WriteStore(c)
    PROVE  K!SealedIInv'
<1>1. /\ sealCall[c].pc = "write" /\ UNCHANGED <<sealed, keyFile, keys, keyRaced>>
      /\ \/ K!Ends(c, "error") /\ UNCHANGED <<store, accepted, storeOverlapped>>
         \/ \E r, given : Writes(c, r, given)
  BY WhatIsWritten
<1>2. CASE K!Ends(c, "error") /\ UNCHANGED <<store, accepted, storeOverlapped>>
  BY <1>1, <1>2, CallEnds
<1>3. CASE \E r, given : Writes(c, r, given)
  BY <1>1, <1>3, RecordIsWritten DEF Writes
<1> QED
  BY <1>1, <1>2, <1>3

-----------------------------------------------------------------------------
LEMMA SealedStep ==
    ASSUME K!SealedIInv, K!Next
    PROVE  K!SealedIInv'
  BY CallBegins, KeyIsRead, KeyIsDrawn, KeyIsFilled, StoreIsRead, RecordIsOpened,
     StoreIsWritten, CallReturns, ProcessDies
  DEF K!Next

LEMMA SealedUnchanged ==
    ASSUME K!SealedIInv, UNCHANGED sealedVars
    PROVE  K!SealedIInv'
<1>1. /\ UNCHANGED <<sealed, keyFile, keys, store, sealCall, accepted, keyRaced, storeOverlapped>>
  BY DEF sealedVars
<1>2. K!FilesTyped' /\ K!CallsFollow'
  BY <1>1 DEF K!SealedIInv, K!FilesTyped, K!CallsFollow
<1>3. (~keyRaced => K!OneKey)'
  BY <1>1 DEF K!SealedIInv, K!OneKey, K!InUse
<1>4. (~storeOverlapped => K!KeepsWhatItTold)'
  BY <1>1 DEF K!SealedIInv, K!KeepsWhatItTold
<1> QED
  BY <1>2, <1>3, <1>4 DEF K!SealedIInv

(* Calls, crashes and the creation of the key file may interleave.          *)
THEOREM SealedInvariance == MarketSpec => []SealedInv
<1>1. MarketInit => SealedInv
  BY SealedInit DEF MarketInit, SealedInv
<1>2. SealedInv /\ [MarketNext]_marketVars => SealedInv'
  <2> SUFFICES ASSUME SealedInv, [MarketNext]_marketVars, part' = "sealed"
               PROVE  K!SealedIInv'
    BY DEF SealedInv
  <2>1. part = "sealed" /\ K!SealedIInv
    BY DEF SealedInv, MarketNext, marketVars
  <2>2. CASE MarketNext
    BY <2>1, <2>2, SealedStep DEF MarketNext
  <2>3. CASE UNCHANGED marketVars
    BY <2>1, <2>3, SealedUnchanged DEF marketVars
  <2> QED
    BY <2>2, <2>3
<1> QED
  BY <1>1, <1>2, PTL DEF MarketSpec

(* What a record was told to keep stays in it and opens again, after any    *)
(* crash, but for calls that replaced each other's stores or each made a    *)
(* key (connectors.ts, profiles.ts, duffel.ts, nowpayments.ts,              *)
(* changenow.ts).                                                           *)
THEOREM SecretsAreKept == MarketSpec => []SecretsSurvive
<1>1. SealedInv => SecretsSurvive
  <2> SUFFICES ASSUME K!SealedIInv PROVE K!SecretsSurvive
    BY DEF SealedInv, SecretsSurvive
  <2>1. storeOverlapped \/ K!KeepsWhatItTold
    BY DEF K!SealedIInv
  <2>2. ASSUME ~keyRaced, NEW i \in SecretIds, NEW p \in K!Parts, K!Local(i),
               K!Kept(store[i], p) # Null
        PROVE  store[i].sealed[p].key = keyFile
    <3>1. sealed \in SealedKinds /\ store[i] \in K!Records(sealed) \cup {Null}
      BY DEF K!SealedIInv, K!FilesTyped, K!Stores, SealedKinds
    <3>2. /\ store[i] # Null /\ store[i].mode # "passphrase"
          /\ store[i].sealed[p] = K!Kept(store[i], p)
          /\ store[i].sealed[p] \in K!SealedBy(K!FileKeys)
      BY <2>2, <3>1, KeptFacts DEF K!Local
    <3>3. store[i].sealed[p].key \in K!FileKeys
      BY <3>2 DEF K!SealedBy
    <3>4. K!InUse(store[i].sealed[p].key)
      BY <2>2, <3>2 DEF K!InUse, K!UsedIn
    <3> QED
      BY <2>2, <3>3, <3>4 DEF K!SealedIInv, K!OneKey
  <2>3. \A c \in Calls :
           sealCall[c].answer = "unreadable" => keyRaced \/ sealCall[c].passphrase # Null
    BY DEF K!SealedIInv, K!CallsFollow
  <2> QED
    BY <2>1, <2>2, <2>3 DEF K!SecretsSurvive, K!KeepsWhatItTold
<1> QED
  BY <1>1, SealedInvariance, PTL

-----------------------------------------------------------------------------
(* Seats: what the chain appends.                                           *)
SeatFollows(t, f, h) == V!OpenIfSaid(t, f, h) /\ V!OpenIfStays(t, f, h) /\ V!CountsFollow(t, f, h)

LEMMA SeatFacts ==
    ASSUME V!SeatsIInv
    PROVE  /\ Len(log) \in Nat /\ Len(market) = Len(log)
           /\ \A h \in 1..Len(log) : log[h] \in V!LogEntry
           /\ \A h \in 1..Len(log) : V!At(h) = market[h]
           /\ \A h \in 0..Len(log) : V!At(h) \in [Seats -> V!SeatRecord]
           /\ \A h \in 0..Len(log), t \in Seats :
                 V!At(h)[t].status = "open" => V!At(h)[t].filled < SeatCount
           /\ \A h \in 0..Len(log) : \A f \in 1..(h + 1), t \in Seats : SeatFollows(t, f, h)
<1>1. V!Vacancy \in V!SeatRecord
  BY SeatsAssumption DEF V!Vacancy, V!SeatRecord, V!SeatStatuses
<1>2. /\ Len(log) \in Nat /\ Len(market) = Len(log)
      /\ \A h \in 1..Len(log) : log[h] \in V!LogEntry
      /\ \A h \in 1..Len(log) : market[h] \in [Seats -> V!SeatRecord]
  BY DEF V!SeatsIInv, V!ChainTyped
<1>3. /\ \A h \in 0..Len(log) : V!At(h) \in [Seats -> V!SeatRecord]
      /\ \A h \in 1..Len(log) : V!At(h) = market[h]
  BY <1>1, <1>2 DEF V!At
<1>4. \A h \in 0..Len(log), t \in Seats :
         V!At(h)[t].status = "open" => V!At(h)[t].filled < SeatCount
  BY DEF V!SeatsIInv, V!ChainTyped, V!Height
<1>5. \A h \in 0..Len(log) : \A f \in 1..(h + 1), t \in Seats : SeatFollows(t, f, h)
  BY DEF V!SeatsIInv, V!Height, SeatFollows
<1> QED
  BY <1>2, <1>3, <1>4, <1>5

(* The chain appends an event, and what the market is from then on.         *)
Appended(e, seat) ==
    /\ log' = Append(log, e)
    /\ market' = Append(market, [V!Now EXCEPT ![e.seat] = seat])
    /\ seat.status = "open" => seat.filled < SeatCount

(* What an event makes of its seat.                                         *)
Happens(e, r, seat) ==
    \/ /\ e.kind = "advertised" /\ r.status # "open"
       /\ seat.status = "open" /\ seat.filled = 0 /\ seat.applied = 0
    \/ /\ e.kind = "applied" /\ r.status = "open" /\ seat.status = "open"
       /\ seat.filled = r.filled /\ seat.applied \in {r.applied, r.applied + 1}
    \/ /\ e.kind = "withdrawn" /\ r.status = "open" /\ seat.status = "open"
       /\ seat.filled = r.filled /\ seat.applied = r.applied - 1
    \/ /\ e.kind = "filled" /\ r.status = "open"
       /\ e.filled = seat.filled
       /\ seat.filled = r.filled + 1 /\ seat.applied = r.applied - 1
       /\ seat.filled < SeatCount => seat.status = "open"
    \/ /\ e.kind = "closed" /\ r.status = "open"
       /\ seat.filled = r.filled /\ seat.applied = r.applied
       /\ seat.status = "open" <=> e.status = "open"

LEMMA EmitFacts ==
    ASSUME V!SeatsIInv, NEW n \in Nat, n = Len(log),
           NEW e \in V!LogEntry, NEW seat \in V!SeatRecord, Appended(e, seat)
    PROVE  /\ V!ChainTyped' /\ V!Height' = n + 1
           /\ \A h \in 1..n : log'[h] = log[h] /\ market'[h] = market[h]
           /\ log'[n + 1] = e /\ market'[n + 1] = V!At(n + 1)'
           /\ \A h \in 0..n : V!At(h)' = V!At(h)
           /\ V!At(n + 1)' = [V!At(n) EXCEPT ![e.seat] = seat]
<1> DEFINE m == [V!At(n) EXCEPT ![e.seat] = seat]
<1>1. e.seat \in Seats
  BY DEF V!LogEntry
<1>2. m \in [Seats -> V!SeatRecord]
  BY <1>1, SeatFacts
<1>3. log' = Append(log, e) /\ market' = Append(market, m)
  BY DEF Appended, V!Now, V!Height
<1>4. /\ log \in Seq(V!LogEntry) /\ market \in Seq([Seats -> V!SeatRecord])
      /\ Len(market) = n
  BY SeatFacts DEF V!SeatsIInv, V!ChainTyped
<1>9. \A t \in Seats : m[t].status = "open" => m[t].filled < SeatCount
  BY <1>1, SeatFacts DEF Appended
<1> HIDE DEF m
<1>5. /\ log' \in Seq(V!LogEntry) /\ Len(log') = n + 1
      /\ \A h \in 1..n : log'[h] = log[h]
      /\ log'[n + 1] = e
  BY <1>3, <1>4
<1>6. /\ market' \in Seq([Seats -> V!SeatRecord]) /\ Len(market') = n + 1
      /\ \A h \in 1..n : market'[h] = market[h]
      /\ market'[n + 1] = m
  BY <1>2, <1>3, <1>4
<1>7. \A h \in 0..n : V!At(h)' = V!At(h)
  BY <1>6 DEF V!At
<1>8. V!At(n + 1)' = m
  BY <1>6 DEF V!At
<1>10. \A h \in 0..(n + 1), t \in Seats :
          V!At(h)'[t].status = "open" => V!At(h)'[t].filled < SeatCount
  <2> TAKE h \in 0..(n + 1), t \in Seats
  <2>1. h \in 0..n \/ h = n + 1
    OBVIOUS
  <2> QED
    BY <1>7, <1>8, <1>9, <2>1, SeatFacts
<1>11. V!ChainTyped' /\ V!Height' = n + 1
  BY <1>5, <1>6, <1>10 DEF V!ChainTyped, V!Height
<1> QED
  BY <1>5, <1>6, <1>7, <1>8, <1>11 DEF m

(* The events of a kind and a seat gain at most the new one.                *)
LEMMA OfGrows ==
    ASSUME V!SeatsIInv, NEW n \in Nat, n = Len(log),
           NEW e \in V!LogEntry, NEW seat \in V!SeatRecord, Appended(e, seat),
           NEW f \in 1..(n + 1)
    PROVE  /\ \A k \in V!EventKinds, t \in Seats :
                 k # e.kind \/ t # e.seat => V!Of(k, t, f, n + 1)' = V!Of(k, t, f, n)
           /\ V!Of(e.kind, e.seat, f, n + 1)' = V!Of(e.kind, e.seat, f, n) \cup {n + 1}
<1>2. /\ \A h \in 1..n : log'[h] = log[h]
      /\ log'[n + 1] = e
  BY EmitFacts
<1>1. /\ \A h \in f..n : log'[h] = log[h]
      /\ log'[n + 1] = e
  BY <1>2
<1>3. f..(n + 1) = f..n \cup {n + 1} /\ n + 1 \notin f..n
  OBVIOUS
<1>4. ASSUME NEW k \in V!EventKinds, NEW t \in Seats, k # e.kind \/ t # e.seat
      PROVE  V!Of(k, t, f, n + 1)' = V!Of(k, t, f, n)
  BY <1>1, <1>3, <1>4 DEF V!Of
<1>5. V!Of(e.kind, e.seat, f, n + 1)' = V!Of(e.kind, e.seat, f, n) \cup {n + 1}
  BY <1>1, <1>3 DEF V!Of
<1> QED
  BY <1>4, <1>5

(* No event, nothing to follow.                                             *)
LEMMA EmptyWindow ==
    ASSUME NEW h \in Nat, NEW t
    PROVE  SeatFollows(t, h + 1, h)'
<1>1. (h + 1)..h = {}
  OBVIOUS
<1>2. \A k : V!Of(k, t, h + 1, h)' = {}
  BY <1>1 DEF V!Of
<1> QED
  BY <1>1, <1>2 DEF SeatFollows, V!OpenIfSaid, V!OpenIfStays, V!CountsFollow

(* Windows whose events, market and end are what others were follow as they *)
(* did.                                                                     *)
LEMMA FollowsAlike ==
    ASSUME NEW f, NEW h, NEW g, NEW t, SeatFollows(t, f, g),
           f..g \subseteq f..h,
           \A i \in f..g : log'[i] = log[i] /\ market'[i] = market[i],
           \A i \in (f..h) \ (f..g) : log'[i].seat # t,
           V!At(h)'[t] = V!At(g)[t]
    PROVE  SeatFollows(t, f, h)'
<1>1. \A k : V!Of(k, t, f, h)' = V!Of(k, t, f, g) /\ V!Of(k, t, f, g) \subseteq f..g
  BY DEF V!Of
<1>2. \A k : \A i \in V!Of(k, t, f, g) : log'[i] = log[i]
  BY <1>1
<1>3. V!StaysOpen(t, f, h)' => V!StaysOpen(t, f, g)
  BY DEF V!StaysOpen
<1>4. V!OpenIfSaid(t, f, h)'
  <2>1. V!OpenIfSaid(t, f, g)
    BY DEF SeatFollows
  <2>2. V!SaysOpen(t, f, h)' => V!SaysOpen(t, f, g)
    BY <1>1, <1>2 DEF V!SaysOpen
  <2> QED
    BY <1>1, <2>1, <2>2 DEF V!OpenIfSaid
<1>5. V!OpenIfStays(t, f, h)'
  <2>1. V!OpenIfStays(t, f, g)
    BY DEF SeatFollows
  <2>2. (\E i \in f..h : log'[i].seat = t) => \E i \in f..g : log[i].seat = t
    OBVIOUS
  <2> QED
    BY <1>3, <2>1, <2>2 DEF V!OpenIfStays
<1>6. V!CountsFollow(t, f, h)'
  <2>1. V!CountsFollow(t, f, g)
    BY DEF SeatFollows
  <2> QED
    BY <1>1, <1>2, <1>3, <2>1 DEF V!CountsFollow
<1> QED
  BY <1>4, <1>5, <1>6 DEF SeatFollows

(* The heights before the new one are as they were, and at the new one the  *)
(* other seats are.                                                         *)
LEMMA PastStays ==
    ASSUME V!SeatsIInv, NEW n \in Nat, n = Len(log),
           NEW e \in V!LogEntry, NEW seat \in V!SeatRecord, Appended(e, seat),
           NEW h \in 0..n, NEW f \in 1..(h + 1), NEW t \in Seats
    PROVE  SeatFollows(t, f, h)'
<1>3. /\ \A i \in 1..n : log'[i] = log[i] /\ market'[i] = market[i]
      /\ V!At(h)' = V!At(h)
  BY EmitFacts
<1>1. /\ \A i \in f..h : log'[i] = log[i] /\ market'[i] = market[i]
      /\ V!At(h)' = V!At(h)
  BY <1>3
<1>2. SeatFollows(t, f, h)
  BY SeatFacts
<1> QED
  BY <1>1, <1>2, FollowsAlike

LEMMA OthersStay ==
    ASSUME V!SeatsIInv, NEW n \in Nat, n = Len(log),
           NEW e \in V!LogEntry, NEW seat \in V!SeatRecord, Appended(e, seat),
           NEW f \in 1..(n + 1), NEW t \in Seats, t # e.seat
    PROVE  SeatFollows(t, f, n + 1)'
<1>1. /\ \A i \in f..n : log'[i] = log[i] /\ market'[i] = market[i]
      /\ log'[n + 1] = e
      /\ V!At(n + 1)' = [V!At(n) EXCEPT ![e.seat] = seat]
  BY EmitFacts
<1>2. V!At(n + 1)'[t] = V!At(n)[t]
  BY <1>1, SeatFacts
<1>3. f..n \subseteq f..(n + 1) /\ \A i \in (f..(n + 1)) \ (f..n) : i = n + 1
  OBVIOUS
<1>4. SeatFollows(t, f, n)
  BY SeatFacts
<1> QED
  BY <1>1, <1>2, <1>3, <1>4, FollowsAlike

(* Counting.                                                                *)
LEMMA SameCounts == \A A : V!Cardinality(A) = Cardinality(A)
  BY DEF Cardinality, V!Cardinality, IsFiniteSet, V!IsFiniteSet

LEMMA OneMore ==
    ASSUME NEW A, IsFiniteSet(A), NEW x, x \notin A
    PROVE  /\ V!Cardinality(A) \in Nat
           /\ V!Cardinality(A \cup {x}) = V!Cardinality(A) + 1
<1>1. Cardinality(A) \in Nat
  BY FS_CardinalityType
<1>2. Cardinality(A \cup {x}) = Cardinality(A) + 1
  BY FS_AddElement
<1> QED
  BY <1>1, <1>2, SameCounts

LEMMA OfIsFinite ==
    ASSUME NEW f \in Nat, NEW n \in Nat, NEW k, NEW t
    PROVE  /\ V!Of(k, t, f, n) \subseteq f..n /\ n + 1 \notin V!Of(k, t, f, n)
           /\ IsFiniteSet(V!Of(k, t, f, n))
           /\ V!Cardinality(V!Of(k, t, f, n)) \in Nat
<1>1. V!Of(k, t, f, n) \subseteq f..n /\ n + 1 \notin V!Of(k, t, f, n)
  BY DEF V!Of
<1>2. IsFiniteSet(f..n)
  BY FS_Interval
<1>3. IsFiniteSet(V!Of(k, t, f, n))
  BY <1>1, <1>2, FS_Subset
<1> QED
  BY <1>1, <1>3, FS_CardinalityType, SameCounts

(* What the new height holds of the event's own seat.                       *)
LEMMA OwnFacts ==
    ASSUME V!SeatsIInv, NEW n \in Nat, n = Len(log),
           NEW e \in V!LogEntry, NEW seat \in V!SeatRecord, Appended(e, seat),
           NEW f \in 1..(n + 1)
    PROVE  /\ e.seat \in Seats
           /\ V!At(n + 1)'[e.seat] = seat /\ market'[n + 1][e.seat] = seat
           /\ V!Now = V!At(n)
           /\ \A i \in f..n : log'[i] = log[i] /\ market'[i] = market[i]
           /\ log'[n + 1] = e /\ n + 1 \in f..(n + 1)
           /\ V!Now[e.seat] \in V!SeatRecord
           /\ V!OpenIfStays(e.seat, f, n) /\ V!CountsFollow(e.seat, f, n)
<1>1. e.seat \in Seats
  BY DEF V!LogEntry
<1>2. V!Now = V!At(n)
  BY DEF V!Now, V!Height
<1>3. V!At(n) \in [Seats -> V!SeatRecord]
  BY SeatFacts
<1>4. V!At(n + 1)' = [V!At(n) EXCEPT ![e.seat] = seat] /\ market'[n + 1] = V!At(n + 1)'
  BY EmitFacts
<1>8. /\ \A i \in 1..n : log'[i] = log[i] /\ market'[i] = market[i]
      /\ log'[n + 1] = e
  BY EmitFacts
<1>5. /\ \A i \in f..n : log'[i] = log[i] /\ market'[i] = market[i]
      /\ log'[n + 1] = e
  BY <1>8
<1>6. V!OpenIfStays(e.seat, f, n) /\ V!CountsFollow(e.seat, f, n)
  BY <1>1, SeatFacts DEF SeatFollows
<1>7. V!At(n + 1)'[e.seat] = seat /\ V!Now[e.seat] \in V!SeatRecord
  BY <1>1, <1>2, <1>3, <1>4
<1> QED
  BY <1>1, <1>2, <1>4, <1>5, <1>6, <1>7

(* If the events say that the seat is open, then so does the newest one.    *)
LEMMA OwnSaid ==
    ASSUME V!SeatsIInv, NEW n \in Nat, n = Len(log),
           NEW e \in V!LogEntry, NEW seat \in V!SeatRecord, Appended(e, seat),
           Happens(e, V!Now[e.seat], seat), NEW f \in 1..(n + 1)
    PROVE  V!OpenIfSaid(e.seat, f, n + 1)' /\ V!OpenIfStays(e.seat, f, n + 1)'
<1> DEFINE s == e.seat
<1>1. /\ V!At(n + 1)'[s] = seat /\ market'[n + 1][s] = seat
      /\ log'[n + 1] = e /\ n + 1 \in f..(n + 1)
  BY OwnFacts
<1>2. n + 1 \in V!Of(e.kind, s, f, n + 1)'
  BY <1>1 DEF V!Of
<1>3. \A i \in V!Of("closed", s, f, n + 1)' : i <= n + 1
  BY DEF V!Of
<1>4. V!SaysOpen(s, f, n + 1)' => seat.status = "open"
  BY <1>1, <1>2, <1>3 DEF Happens, V!SaysOpen
<1>5. V!StaysOpen(s, f, n + 1)' => seat.status = "open"
  BY <1>1 DEF V!StaysOpen
<1> QED
  BY <1>1, <1>4, <1>5 DEF V!OpenIfSaid, V!OpenIfStays

(* A seat that is advertised and open ever since counts from there.         *)
LEMMA AdvertCounts ==
    ASSUME V!SeatsIInv, NEW n \in Nat, n = Len(log),
           NEW e \in V!LogEntry, NEW seat \in V!SeatRecord, Appended(e, seat),
           Happens(e, V!Now[e.seat], seat), NEW f \in 1..(n + 1), e.kind = "advertised"
    PROVE  V!CountsFollow(e.seat, f, n + 1)'
<1> DEFINE s == e.seat
<1> SUFFICES ASSUME V!StaysOpen(s, f, n + 1)'
             PROVE  V!CountsFollow(s, f, n + 1)'
  BY DEF V!CountsFollow
<1>1. /\ s \in Seats /\ V!At(n + 1)'[s] = seat /\ V!Now = V!At(n)
      /\ \A i \in f..n : log'[i] = log[i] /\ market'[i] = market[i]
      /\ V!OpenIfStays(s, f, n)
  BY OwnFacts
<1>2. V!Now[s].status # "open" /\ seat.filled = 0 /\ seat.applied = 0
  BY DEF Happens
<1>3. f..n \subseteq f..(n + 1)
  OBVIOUS
<1>4. V!StaysOpen(s, f, n)
  BY <1>1, <1>3 DEF V!StaysOpen
<1>5. \A i \in f..n : log[i].seat # s
  BY <1>1, <1>2, <1>4 DEF V!OpenIfStays
<1>6. \A k \in {"applied", "filled", "closed"} : V!Of(k, s, f, n + 1)' = {}
  <2> TAKE k \in {"applied", "filled", "closed"}
  <2>1. V!Of(k, s, f, n + 1)' = V!Of(k, s, f, n)
    BY <1>1, OfGrows DEF V!EventKinds
  <2>2. V!Of(k, s, f, n) = {}
    BY <1>5 DEF V!Of
  <2> QED
    BY <2>1, <2>2
<1>7. V!Cardinality({}) = 0
  BY FS_EmptySet, SameCounts
<1>8. V!Cardinality(V!Of("applied", s, f, n + 1)') >= seat.applied + seat.filled
  <2>1. V!Of("applied", s, f, n + 1)' = {}
    BY <1>6
  <2>2. V!Cardinality(V!Of("applied", s, f, n + 1)') = 0
    BY <1>7, <2>1
  <2> QED
    BY <1>2, <2>2
<1>9. /\ \A i \in V!Of("closed", s, f, n + 1)' : log'[i].status = "open"
      /\ \A i \in V!Of("filled", s, f, n + 1)' : log'[i].filled <= seat.filled
  BY <1>6
<1> QED
  BY <1>1, <1>2, <1>8, <1>9 DEF V!CountsFollow

LEMMA OtherCounts ==
    ASSUME V!SeatsIInv, NEW n \in Nat, n = Len(log),
           NEW e \in V!LogEntry, NEW seat \in V!SeatRecord, Appended(e, seat),
           Happens(e, V!Now[e.seat], seat), NEW f \in 1..(n + 1), e.kind # "advertised"
    PROVE  V!CountsFollow(e.seat, f, n + 1)'
<1> DEFINE s == e.seat
           r == V!At(n)[s]
           Own(k) == V!Of(k, s, f, n)
<1> SUFFICES ASSUME V!StaysOpen(s, f, n + 1)', V!Of("advertised", s, f, n + 1)' # {}
             PROVE  V!CountsFollow(s, f, n + 1)'
  BY DEF V!CountsFollow
<1>1. /\ s \in Seats /\ V!At(n + 1)'[s] = seat /\ market'[n + 1][s] = seat
      /\ \A i \in f..n : log'[i] = log[i] /\ market'[i] = market[i]
      /\ log'[n + 1] = e /\ n + 1 \in f..(n + 1)
      /\ V!Now[s] = r /\ r \in V!SeatRecord /\ V!CountsFollow(s, f, n)
  BY OwnFacts
<1>0. Happens(e, r, seat) /\ e.kind # "advertised"
  BY <1>1
<1>2. f..n \subseteq f..(n + 1)
  OBVIOUS
<1>3. V!StaysOpen(s, f, n) /\ seat.status = "open"
  BY <1>1, <1>2 DEF V!StaysOpen
<1>4. Own("advertised") # {}
  BY <1>1, OfGrows DEF V!EventKinds
<1>5. /\ \A i \in Own("closed") : log[i].status = "open"
      /\ \A i \in Own("filled") : log[i].filled <= r.filled
      /\ r.filled = 0 \/ \E i \in Own("filled") : log[i].filled = r.filled
      /\ V!Cardinality(Own("applied")) >= r.applied + r.filled
  BY <1>1, <1>3, <1>4 DEF V!CountsFollow
<1>6. /\ r.filled \in Nat /\ r.applied \in Nat /\ seat.filled \in Nat /\ seat.applied \in Nat
      /\ V!Cardinality(Own("applied")) \in Nat
  BY <1>1, OfIsFinite, SeatsAssumption DEF V!SeatRecord
<1>7. \A k \in {"applied", "filled", "closed"} :
         /\ \A i \in Own(k) : i \in f..n /\ log'[i] = log[i]
         /\ k # e.kind => V!Of(k, s, f, n + 1)' = Own(k)
         /\ k = e.kind => V!Of(k, s, f, n + 1)' = Own(k) \cup {n + 1}
  <2> TAKE k \in {"applied", "filled", "closed"}
  <2>1. \A i \in Own(k) : i \in f..n
    BY DEF V!Of
  <2>2. k # e.kind => V!Of(k, s, f, n + 1)' = Own(k)
    BY <1>1, OfGrows DEF V!EventKinds
  <2>3. k = e.kind => V!Of(k, s, f, n + 1)' = Own(k) \cup {n + 1}
    BY OfGrows
  <2> QED
    BY <1>1, <2>1, <2>2, <2>3
<1>8. \A i \in V!Of("closed", s, f, n + 1)' : log'[i].status = "open"
  <2>1. e.kind = "closed" => e.status = "open"
    BY <1>0, <1>3 DEF Happens
  <2> QED
    BY <1>1, <1>5, <1>7, <2>1
<1>9. /\ \A i \in V!Of("filled", s, f, n + 1)' : log'[i].filled <= seat.filled
      /\ \/ seat.filled = 0
         \/ \E i \in V!Of("filled", s, f, n + 1)' : log'[i].filled = seat.filled
  <2>1. CASE e.kind = "filled"
    <3>1. e.filled = seat.filled /\ seat.filled = r.filled + 1
      BY <1>0, <2>1 DEF Happens
    <3>2. \A i \in Own("filled") : log[i].filled \in Nat
      BY <1>7, SeatFacts, SeatsAssumption DEF V!LogEntry
    <3>3. V!Of("filled", s, f, n + 1)' = Own("filled") \cup {n + 1}
      BY <1>7, <2>1
    <3>4. \A i \in Own("filled") : log'[i].filled <= seat.filled
      BY <1>5, <1>6, <1>7, <3>1, <3>2
    <3> QED
      BY <1>1, <1>6, <3>1, <3>3, <3>4
  <2>2. CASE e.kind # "filled"
    <3>1. seat.filled = r.filled
      BY <1>0, <2>2 DEF Happens
    <3> QED
      BY <1>5, <1>7, <2>2, <3>1
  <2> QED
    BY <2>1, <2>2
<1>10. V!Cardinality(V!Of("applied", s, f, n + 1)') >= seat.applied + seat.filled
  <2>1. CASE e.kind = "applied"
    <3>1. seat.filled = r.filled /\ seat.applied \in {r.applied, r.applied + 1}
      BY <1>0, <2>1 DEF Happens
    <3>2. V!Of("applied", s, f, n + 1)' = Own("applied") \cup {n + 1}
      BY <1>7, <2>1
    <3>3. V!Cardinality(Own("applied") \cup {n + 1}) = V!Cardinality(Own("applied")) + 1
      BY OneMore, OfIsFinite
    <3>13. \A x, y, u, v \in Nat : v = x /\ u \in {y, y + 1} => u + v <= y + x + 1
      OBVIOUS
    <3>14. \A u, v \in Nat : v = r.filled /\ u \in {r.applied, r.applied + 1}
                               => u + v <= r.applied + r.filled + 1
      BY <1>6, <3>13
    <3>4. seat.applied + seat.filled <= r.applied + r.filled + 1
      BY <1>6, <3>1, <3>14
    <3> HIDE DEF r, Own, s
    <3> DEFINE count == V!Cardinality(Own("applied"))
               x == seat.applied + seat.filled
               y == r.applied + r.filled
    <3>10. x \in Nat
      BY <1>6
    <3>11. y \in Nat
      BY <1>6
    <3>12. x <= y + 1
      BY <3>4, Zenon
    <3>8. x \in Nat /\ y \in Nat /\ x <= y + 1
      BY <3>10, <3>11, <3>12
    <3>9. count >= y /\ count \in Nat
      BY <1>5, <1>6, Zenon
    <3>5. count >= y /\ count \in Nat /\ y \in Nat /\ x \in Nat /\ x <= y + 1
      BY <3>8, <3>9
    <3>6. V!Cardinality(V!Of("applied", s, f, n + 1)') = count + 1
      BY <3>2, <3>3
    <3> HIDE DEF count, x, y
    <3>7. count + 1 >= x
      BY <3>5
    <3> QED
      BY <3>6, <3>7 DEF x
  <2>2. CASE e.kind # "applied"
    <3>0. \/ seat.filled = r.filled /\ seat.applied = r.applied
          \/ seat.filled = r.filled /\ seat.applied = r.applied - 1
          \/ seat.filled = r.filled + 1 /\ seat.applied = r.applied - 1
      BY <1>0, <2>2 DEF Happens
    <3>3. \A x, y \in Nat : \A u, v \in Nat :
             (u = x /\ v = y) \/ (u = x /\ v = y - 1) \/ (u = x + 1 /\ v = y - 1)
                => v + u <= y + x
      OBVIOUS
    <3>4. \A u, v \in Nat :
             \/ u = r.filled /\ v = r.applied
             \/ u = r.filled /\ v = r.applied - 1
             \/ u = r.filled + 1 /\ v = r.applied - 1
             => v + u <= r.applied + r.filled
      BY <1>6, <3>3
    <3>1. seat.applied + seat.filled <= r.applied + r.filled
      BY <1>6, <3>0, <3>4
    <3>2. V!Of("applied", s, f, n + 1)' = Own("applied")
      BY <1>7, <2>2
    <3> QED
      BY <1>5, <1>6, <3>1, <3>2
  <2> QED
    BY <2>1, <2>2
<1> QED
  BY <1>1, <1>8, <1>9, <1>10 DEF V!CountsFollow

(* An event of the chain.                                                   *)
LEMMA DecodedStays ==
    ASSUME NEW n \in Nat, head \in 0..n, head' = head,
           \A h \in 1..n : log'[h] = log[h]
    PROVE  \A k : V!Decoded(k)' = V!Decoded(k)
<1>1. V!FromBlock \in Nat \ {0} /\ V!FromBlock' = V!FromBlock
  BY SeatsAssumption DEF V!FromBlock
<1>2. \A h \in V!FromBlock..head : h \in 1..n
  BY <1>1
<1>3. \A h \in V!FromBlock..head : log'[h] = log[h] /\ V!Event(h)' = V!Event(h)
  BY <1>2 DEF V!Event
<1> QED
  BY <1>1, <1>3 DEF V!Decoded

LEMMA ChainScans ==
    ASSUME V!SeatsIInv, NEW n \in Nat, n = Len(log), V!Height' = n + 1,
           \A h \in 1..n : log'[h] = log[h], UNCHANGED V!scanVars
    PROVE  V!ScanFollows'
<1>1. /\ scan' = scan /\ head' = head /\ batch' = batch /\ seatReads' = seatReads
      /\ listing' = listing
  BY DEF V!scanVars
<1>2. V!ScanFollows /\ head \in 0..n
  BY DEF V!SeatsIInv, V!ScanFollows, V!Height
<1>3. \A k : V!Decoded(k)' = V!Decoded(k)
  BY <1>1, <1>2, DecodedStays
<1>4. head' \in 0..V!Height'
  BY <1>1, <1>2
<1> QED
  BY <1>1, <1>2, <1>3, <1>4 DEF V!ScanFollows

LEMMA AppendStep ==
    ASSUME V!SeatsIInv, NEW n \in Nat, n = Len(log),
           NEW e \in V!LogEntry, NEW seat \in V!SeatRecord, Appended(e, seat),
           UNCHANGED V!scanVars, Happens(e, V!Now[e.seat], seat)
    PROVE  V!SeatsIInv'
<1>1. V!ChainTyped' /\ V!Height' = n + 1 /\ \A h \in 1..n : log'[h] = log[h]
  BY EmitFacts
<1>2. V!ScanFollows'
  BY <1>1, ChainScans
<1>3. ASSUME NEW h \in 0..(n + 1), NEW f \in 1..(h + 1), NEW t \in Seats
      PROVE  SeatFollows(t, f, h)'
  <2>1. CASE h \in 0..n
    BY <2>1, PastStays
  <2>2. CASE f = h + 1
    BY <2>2, EmptyWindow
  <2>3. CASE h = n + 1 /\ f # h + 1
    <3>1. f \in 1..(n + 1)
      BY <2>3
    <3>2. CASE t = e.seat
      BY <2>3, <3>1, <3>2, OwnSaid, AdvertCounts, OtherCounts DEF SeatFollows
    <3>3. CASE t # e.seat
      BY <2>3, <3>1, <3>3, OthersStay
    <3> QED
      BY <3>2, <3>3
  <2> QED
    BY <2>1, <2>2, <2>3
<1>4. \A h \in 0..V!Height' : \A f \in 1..(h + 1), t \in Seats : SeatFollows(t, f, h)'
  BY <1>1, <1>3
<1> QED
  BY <1>1, <1>2, <1>4 DEF V!SeatsIInv, SeatFollows

LEMMA ChainStep ==
    ASSUME V!SeatsIInv, V!Chain
    PROVE  V!SeatsIInv'
<1>0. PICK n \in Nat : n = Len(log)
  BY SeatFacts
<1>1. PICK s \in Seats :
         V!Advertise(s) \/ V!Apply(s) \/ V!Withdraw(s) \/ V!Admit(s) \/ V!Rescind(s)
  BY DEF V!Chain
<1> DEFINE r == V!Now[s]
<1>2. /\ r \in V!SeatRecord
      /\ r.status = "open" => r.filled < SeatCount
  BY <1>0, SeatFacts DEF V!Now, V!Height
<1>3. /\ r.status \in V!SeatStatuses /\ r.filled \in Nat /\ r.filled <= SeatCount
      /\ r.applied \in Nat
      /\ r = [status |-> r.status, filled |-> r.filled, applied |-> r.applied]
  BY <1>2, SeatsAssumption DEF V!SeatRecord
<1> HIDE DEF r
<1>4. ASSUME NEW what \in V!EventKinds \cup {"withdrawn"}, NEW byte \in V!SeatStatuses,
             NEW seat \in V!SeatRecord,
             V!Emit(what, s, byte, seat), seat.status = "open" => seat.filled < SeatCount,
             \A e \in V!LogEntry :
                e.kind = what /\ e.seat = s /\ e.filled = seat.filled /\ e.status = byte
                  => Happens(e, r, seat)
      PROVE  V!SeatsIInv'
  <2>1. PICK whole \in BOOLEAN :
           /\ log' = Append(log, [kind |-> what, seat |-> s, whole |-> whole,
                                  filled |-> seat.filled, status |-> byte])
           /\ market' = Append(market, [V!Now EXCEPT ![s] = seat])
           /\ UNCHANGED V!scanVars
    BY <1>4 DEF V!Emit
  <2> DEFINE e == [kind |-> what, seat |-> s, whole |-> whole,
                   filled |-> seat.filled, status |-> byte]
  <2>2. e \in V!LogEntry /\ e.seat = s
    BY DEF V!LogEntry, V!SeatRecord
  <2>3. Appended(e, seat) /\ Happens(e, V!Now[e.seat], seat)
    BY <1>4, <2>1, <2>2 DEF Appended, r
  <2> HIDE DEF e
  <2> QED
    BY <1>0, <2>1, <2>2, <2>3, AppendStep
<1>5. CASE V!Advertise(s)
  <2> DEFINE seat == [V!Vacancy EXCEPT !.status = "open"]
  <2>1. r.status # "open" /\ V!Emit("advertised", s, "none", seat)
    BY <1>5 DEF V!Advertise, r
  <2>2. seat.status = "open" /\ seat.filled = 0 /\ seat.applied = 0 /\ seat \in V!SeatRecord
    BY SeatsAssumption DEF V!Vacancy, V!SeatRecord, V!SeatStatuses
  <2> HIDE DEF seat
  <2> QED
    BY <1>4, <2>1, <2>2, SeatsAssumption DEF Happens, V!EventKinds, V!SeatStatuses
<1>6. CASE V!Apply(s)
  <2>1. r.status = "open"
    BY <1>6 DEF V!Apply, r
  <2>2. PICK more \in {0, 1} :
           V!Emit("applied", s, "none", [r EXCEPT !.applied = r.applied + more])
    BY <1>6 DEF V!Apply, r
  <2> DEFINE seat == [r EXCEPT !.applied = r.applied + more]
  <2>3. /\ seat.status = "open" /\ seat.filled = r.filled /\ seat \in V!SeatRecord
        /\ seat.applied \in {r.applied, r.applied + 1}
    BY <1>2, <1>3, <2>1 DEF V!SeatRecord
  <2>4. V!Emit("applied", s, "none", seat)
    BY <2>2
  <2> HIDE DEF seat
  <2> QED
    BY <1>2, <1>4, <2>1, <2>3, <2>4 DEF Happens, V!EventKinds, V!SeatStatuses
<1>7. CASE V!Withdraw(s)
  <2> DEFINE seat == [r EXCEPT !.applied = r.applied - 1]
  <2>1. r.status = "open" /\ r.applied > 0 /\ V!Emit("withdrawn", s, "none", seat)
    BY <1>7 DEF V!Withdraw, r
  <2>2. /\ seat.status = "open" /\ seat.filled = r.filled /\ seat \in V!SeatRecord
        /\ seat.applied = r.applied - 1
    BY <1>2, <1>3, <2>1 DEF V!SeatRecord
  <2> HIDE DEF seat
  <2> QED
    BY <1>2, <1>4, <2>1, <2>2 DEF Happens, V!SeatStatuses
<1>8. CASE V!Admit(s)
  <2> DEFINE seat == [status |-> IF r.filled + 1 = SeatCount THEN "filled" ELSE "open",
                      filled |-> r.filled + 1, applied |-> r.applied - 1]
  <2>1. r.status = "open" /\ r.applied > 0 /\ V!Emit("filled", s, "none", seat)
    BY <1>8 DEF V!Admit, r
  <2>2. /\ seat.filled = r.filled + 1 /\ seat.applied = r.applied - 1 /\ seat \in V!SeatRecord
        /\ seat.filled < SeatCount <=> seat.status = "open"
    BY <1>2, <1>3, <2>1, SeatsAssumption DEF V!SeatRecord, V!SeatStatuses
  <2> HIDE DEF seat
  <2> QED
    BY <1>4, <2>1, <2>2 DEF Happens, V!EventKinds, V!SeatStatuses
<1>9. CASE V!Rescind(s)
  <2>1. r.status = "open"
    BY <1>9 DEF V!Rescind, r
  <2>2. PICK byte \in V!SeatStatuses :
           V!Emit("closed", s, byte,
                  [r EXCEPT !.status = IF byte = "none" THEN "closed" ELSE byte])
    BY <1>9 DEF V!Rescind, r
  <2> DEFINE seat == [r EXCEPT !.status = IF byte = "none" THEN "closed" ELSE byte]
  <2>3. /\ seat.filled = r.filled /\ seat.applied = r.applied /\ seat \in V!SeatRecord
        /\ seat.status = "open" <=> byte = "open"
    BY <1>2, <1>3 DEF V!SeatRecord, V!SeatStatuses
  <2>4. V!Emit("closed", s, byte, seat)
    BY <2>2
  <2> HIDE DEF seat
  <2> QED
    BY <1>2, <1>4, <2>1, <2>3, <2>4 DEF Happens, V!EventKinds
<1> QED
  BY <1>1, <1>5, <1>6, <1>7, <1>8, <1>9

(* The scan.                                                                *)
LEMMA ScanSteps ==
    ASSUME V!SeatsIInv, UNCHANGED V!chainVars, V!ScanFollows'
    PROVE  V!SeatsIInv'
<1>1. log' = log /\ market' = market /\ V!Height' = V!Height
  BY DEF V!chainVars, V!Height
<1>2. \A h : V!At(h)' = V!At(h)
  BY <1>1 DEF V!At
<1>3. V!ChainTyped'
  BY <1>1, <1>2 DEF V!SeatsIInv, V!ChainTyped
<1>4. ASSUME NEW h \in 0..V!Height, NEW f \in 1..(h + 1), NEW t \in Seats
      PROVE  SeatFollows(t, f, h)'
  <2>1. SeatFollows(t, f, h)
    BY DEF V!SeatsIInv, SeatFollows
  <2> QED
    BY <1>1, <1>2, <2>1, FollowsAlike
<1> QED
  BY <1>1, <1>3, <1>4 DEF V!SeatsIInv, SeatFollows

LEMMA ReadSteps ==
    ASSUME V!SeatsIInv, V!Next, ~V!Chain
    PROVE  V!SeatsIInv'
<1>1. V!ScanFollows /\ V!Height \in Nat
  BY SeatFacts DEF V!SeatsIInv, V!Height
<1>2. /\ head \in 0..V!Height /\ seatReads \subseteq V!EventKinds
      /\ scan # "listed" => listing = {}
      /\ scan \in {"reading", "listed"} =>
            /\ batch = [k \in V!EventKinds |-> batch[k]]
            /\ \A k \in V!EventKinds \ seatReads : batch[k] = V!Decoded(k)
  BY <1>1 DEF V!ScanFollows
<1>3. CASE V!ScanStarts
  <2>1. UNCHANGED V!chainVars /\ V!Height' = V!Height
    BY <1>3 DEF V!ScanStarts, V!chainVars, V!Height
  <2>2. V!ScanFollows'
    BY <1>1, <1>2, <1>3, <2>1 DEF V!ScanStarts, V!ScanFollows, V!NoEvents
  <2> QED
    BY <2>1, <2>2, ScanSteps
<1>4. ASSUME NEW k \in V!EventKinds, V!EventsRead(k)
      PROVE  V!SeatsIInv'
  <2>1. /\ UNCHANGED V!chainVars /\ V!Height' = V!Height /\ log' = log /\ head' = head
        /\ scan = "reading" /\ scan' = "reading" /\ seatReads' = seatReads \ {k}
        /\ listing' = listing
        /\ batch' = [batch EXCEPT ![k] = V!Decoded(k)]
    BY <1>4 DEF V!EventsRead, V!chainVars, V!Height
  <2>2. \A j : V!Decoded(j)' = V!Decoded(j)
    BY <2>1 DEF V!Decoded, V!Event, V!FromBlock
  <2>3. batch' = [j \in V!EventKinds |-> IF j = k THEN V!Decoded(k) ELSE batch[j]]
    BY <1>2, <2>1
  <2>4. /\ batch' = [j \in V!EventKinds |-> batch'[j]]
        /\ \A j \in V!EventKinds \ seatReads' : batch'[j] = V!Decoded(j)'
    BY <1>2, <2>1, <2>2, <2>3
  <2>5. V!ScanFollows'
    BY <1>2, <2>1, <2>4 DEF V!ScanFollows
  <2> QED
    BY <2>1, <2>5, ScanSteps
<1>5. ASSUME NEW k \in V!EventKinds, V!ReadFails(k)
      PROVE  V!SeatsIInv'
  <2>1. UNCHANGED V!chainVars /\ V!Height' = V!Height
    BY <1>5 DEF V!ReadFails, V!chainVars, V!Height
  <2>2. V!ScanFollows'
    BY <1>2, <1>5, <2>1 DEF V!ReadFails, V!ScanFollows
  <2> QED
    BY <2>1, <2>2, ScanSteps
<1>6. CASE V!SeatsListed
  <2>1. /\ UNCHANGED V!chainVars /\ V!Height' = V!Height /\ log' = log /\ head' = head
        /\ scan = "reading" /\ scan' = "listed" /\ seatReads = {} /\ seatReads' = {}
        /\ batch' = batch
    BY <1>6 DEF V!SeatsListed, V!chainVars, V!Height
  <2>2. \A j : V!Decoded(j)' = V!Decoded(j)
    BY <2>1 DEF V!Decoded, V!Event, V!FromBlock
  <2>3. V!OpenSeats(batch)' = V!OpenSeats(batch)
    BY <2>1
  <2>4. /\ listing' \subseteq V!OpenSeats(batch)
        /\ V!Cardinality(listing') = V!Min({SeatLimit, V!Cardinality(V!OpenSeats(batch))})
    BY <1>6 DEF V!SeatsListed
  <2>5. V!ScanFollows'
    BY <1>2, <2>1, <2>2, <2>3, <2>4 DEF V!ScanFollows
  <2> QED
    BY <2>1, <2>5, ScanSteps
<1>7. CASE V!Answered
  <2>1. UNCHANGED V!chainVars /\ V!Height' = V!Height
    BY <1>7 DEF V!Answered, V!chainVars, V!Height
  <2>2. V!ScanFollows'
    BY <1>1, <1>2, <1>7, <2>1 DEF V!Answered, V!ScanFollows
  <2> QED
    BY <2>1, <2>2, ScanSteps
<1> QED
  BY <1>3, <1>4, <1>5, <1>6, <1>7 DEF V!Next

LEMMA SeatsUnchanged ==
    ASSUME V!SeatsIInv, UNCHANGED V!vars
    PROVE  V!SeatsIInv'
<1>1. UNCHANGED V!chainVars /\ UNCHANGED V!scanVars
  BY DEF V!vars
<1>2. /\ scan' = scan /\ head' = head /\ batch' = batch /\ seatReads' = seatReads
      /\ listing' = listing /\ log' = log /\ V!Height' = V!Height
  BY <1>1 DEF V!scanVars, V!chainVars, V!Height
<1>3. \A j : V!Decoded(j)' = V!Decoded(j)
  BY <1>2 DEF V!Decoded, V!Event, V!FromBlock
<1>4. V!ScanFollows'
  BY <1>2, <1>3 DEF V!SeatsIInv, V!ScanFollows
<1> QED
  BY <1>1, <1>4, ScanSteps

LEMMA SeatsInit == V!Init => V!SeatsIInv
<1> SUFFICES ASSUME V!Init PROVE V!SeatsIInv
  OBVIOUS
<1>1. /\ log = <<>> /\ market = <<>> /\ Len(log) = 0 /\ Len(market) = 0
      /\ V!Height = 0 /\ scan = "idle" /\ head = 0 /\ seatReads = {} /\ listing = {}
  BY DEF V!Init, V!Height
<1>2. V!ChainTyped
  <2>1. \A t \in Seats : V!At(0)[t].status = "none"
    BY DEF V!At, V!Vacancy
  <2> QED
    BY <1>1, <2>1 DEF V!ChainTyped
<1>3. V!ScanFollows
  BY <1>1 DEF V!ScanFollows
<1>4. ASSUME NEW t \in Seats
      PROVE  V!OpenIfSaid(t, 1, 0) /\ V!OpenIfStays(t, 1, 0) /\ V!CountsFollow(t, 1, 0)
  <2>1. 1..0 = {} /\ \A k : V!Of(k, t, 1, 0) = {}
    BY DEF V!Of
  <2> QED
    BY <2>1 DEF V!OpenIfSaid, V!OpenIfStays, V!CountsFollow
<1>5. \A h \in 0..V!Height : \A f \in 1..(h + 1) : h = 0 /\ f = 1
  BY <1>1
<1> QED
  BY <1>2, <1>3, <1>4, <1>5 DEF V!SeatsIInv

(* What the chain's events say of a seat, folded by kind over any range of  *)
(* blocks, while the chain goes on and the scan reads them                  *)
(* (foldSeatEvents): if they say that it is open then it is, and a seat     *)
(* advertised once and open since has the counts that they give.            *)
THEOREM SeatsInvariance == MarketSpec => []SeatsInv
<1>1. MarketInit => SeatsInv
  BY SeatsInit DEF MarketInit, SeatsInv
<1>2. SeatsInv /\ [MarketNext]_marketVars => SeatsInv'
  <2> SUFFICES ASSUME SeatsInv, [MarketNext]_marketVars, part' = "seats"
               PROVE  V!SeatsIInv'
    BY DEF SeatsInv
  <2>1. part = "seats" /\ V!SeatsIInv
    BY DEF SeatsInv, MarketNext, marketVars
  <2>2. CASE MarketNext
    <3>1. V!Next
      BY <2>1, <2>2 DEF MarketNext
    <3> QED
      BY <2>1, <3>1, ChainStep, ReadSteps
  <2>3. CASE UNCHANGED marketVars
    <3>1. UNCHANGED V!vars
      BY <2>3 DEF marketVars, seatVars, V!vars, V!chainVars, V!scanVars
    <3> QED
      BY <2>1, <3>1, SeatsUnchanged
  <2> QED
    BY <2>2, <2>3
<1> QED
  BY <1>1, <1>2, PTL DEF MarketSpec

(* The scan has read every event of its range that can be decoded.          *)
LEMMA RangeFacts ==
    ASSUME V!SeatsIInv, scan = "listed"
    PROVE  /\ V!Height = Len(log) /\ head \in 0..V!Height /\ head \in Nat
           /\ V!FromBlock \in 1..(head + 1)
           /\ \A k \in V!EventKinds : batch[k] = V!Decoded(k)
           /\ \A h \in V!FromBlock..head : h \in 1..Len(log) /\ log[h] \in V!LogEntry
<1>1. V!ScanFollows /\ V!Height \in Nat /\ V!Height = Len(log)
  BY SeatFacts DEF V!SeatsIInv, V!Height
<1>2. /\ head \in 0..V!Height /\ head \in Nat
      /\ \A k \in V!EventKinds : batch[k] = V!Decoded(k)
  BY <1>1 DEF V!ScanFollows
<1>3. V!FromBlock \in 1..(head + 1)
  BY <1>2, SeatsAssumption DEF V!FromBlock
<1> QED
  BY <1>1, <1>2, <1>3, SeatFacts

LEMMA AllRead ==
    ASSUME V!SeatsIInv, scan = "listed", NEW s, V!Whole(s, V!FromBlock, head),
           NEW k \in V!EventKinds
    PROVE  {e \in batch[k] : e.seat = s} = {V!Event(h) : h \in V!Of(k, s, V!FromBlock, head)}
<1>1. batch[k] = V!Decoded(k)
  BY RangeFacts
<1>2. ASSUME NEW e \in batch[k], e.seat = s
      PROVE  e \in {V!Event(h) : h \in V!Of(k, s, V!FromBlock, head)}
  <2>1. PICK h \in V!FromBlock..head : log[h].kind = k /\ e = V!Event(h)
    BY <1>1 DEF V!Decoded
  <2>2. h \in V!Of(k, s, V!FromBlock, head)
    BY <1>2, <2>1 DEF V!Event, V!Of
  <2> QED
    BY <2>1, <2>2
<1>3. ASSUME NEW h \in V!Of(k, s, V!FromBlock, head)
      PROVE  V!Event(h) \in batch[k] /\ V!Event(h).seat = s
  BY <1>1 DEF V!Decoded, V!Event, V!Of, V!Whole
<1> QED
  BY <1>2, <1>3

LEMMA CountedOnce ==
    ASSUME NEW f \in Nat, NEW n \in Nat, NEW k, NEW s
    PROVE  V!Cardinality({V!Event(h) : h \in V!Of(k, s, f, n)}) = V!Cardinality(V!Of(k, s, f, n))
<1> DEFINE A == V!Of(k, s, f, n)
           B == {V!Event(h) : h \in A}
           g == [h \in A |-> V!Event(h)]
<1>1. IsFiniteSet(A)
  BY OfIsFinite
<1>2. \A h, i \in A : g[h] = g[i] => h = i
  BY DEF V!Event
<1>3. g \in Bijection(A, B)
  BY <1>2 DEF Bijection, Injection, Surjection, IsInjective
<1>4. Cardinality(B) = Cardinality(A)
  BY <1>1, <1>3, FS_Bijection DEF ExistsBijection
<1> QED
  BY <1>4, SameCounts

LEMMA LargestIs ==
    ASSUME NEW S \in SUBSET Nat, NEW m \in S, \A x \in S : x <= m
    PROVE  V!Max(S) = m
<1>1. m >= m /\ \A y \in S : m >= y
  OBVIOUS
<1>2. V!Max(S) \in S /\ \A y \in S : V!Max(S) >= y
  BY <1>1 DEF V!Max
<1>3. ASSUME NEW x \in S, \A y \in S : x >= y
      PROVE  x = m
  <2>1. x \in Nat /\ m \in Nat /\ x >= m /\ x <= m
    BY <1>3
  <2> QED
    BY <2>1
<1> QED
  BY <1>2, <1>3

(* A set of numbers up to m that is not empty has a largest one: the last   *)
(* of the shortest interval around it.                                      *)
LEMMA LargestExists ==
    ASSUME NEW m \in Nat, NEW S \in SUBSET (0..m), S # {}
    PROVE  V!Max(S) \in S /\ \A x \in S : x <= V!Max(S)
<1> DEFINE around == {0..k : k \in {j \in 0..m : S \subseteq 0..j}}
<1>1. PICK T \in around : \A U \in around : ~(U \subseteq T /\ U # T)
  <2> DEFINE I == 0..m
  <2>1. IsFiniteSet(I)
    BY FS_Interval
  <2>2. around \subseteq SUBSET I
    OBVIOUS
  <2>3. around # {}
    <3>1. 0..m \in around
      OBVIOUS
    <3> QED
      BY <3>1
  <2> HIDE DEF around, I
  <2> QED
    BY <2>1, <2>2, <2>3, SmallestSubset
<1>2. PICK k \in 0..m : T = 0..k /\ S \subseteq 0..k
  BY <1>1
<1>3. k \in S
  <2> SUFFICES ASSUME k \notin S PROVE FALSE
    OBVIOUS
  <2>1. k # 0
    <3>1. k = 0 => S \subseteq {0}
      BY <1>2
    <3> QED
      BY <3>1
  <2>2. k - 1 \in 0..m /\ S \subseteq 0..(k - 1)
    BY <1>2, <2>1
  <2>3. 0..(k - 1) \in around
    <3> DEFINE j == k - 1
    <3>1. j \in 0..m /\ S \subseteq 0..j
      BY <2>2
    <3> HIDE DEF j
    <3>2. 0..j \in around
      BY <3>1
    <3> QED
      BY <3>2 DEF j
  <2>4. 0..(k - 1) \subseteq T /\ k \in T /\ k \notin 0..(k - 1)
    BY <1>2, <2>1
  <2>5. 0..(k - 1) # T
    BY <2>4
  <2> HIDE DEF around
  <2> QED
    BY <1>1, <2>3, <2>4, <2>5
<1>4. S \in SUBSET Nat /\ \A y \in S : y <= k
  BY <1>2
<1> QED
  BY <1>3, <1>4, LargestIs

(* The filled count that is told is the largest of the events' counts, and  *)
(* no event of the seat has a larger one.                                   *)
LEMMA FilledIs ==
    ASSUME V!SeatsIInv, scan = "listed", NEW s \in Seats, V!Whole(s, V!FromBlock, head)
    PROVE  /\ V!FilledCount(batch, s) \in Nat
           /\ \A i \in V!Of("filled", s, V!FromBlock, head) :
                 log[i].filled <= V!FilledCount(batch, s)
           /\ \A m \in Nat :
                 /\ \A i \in V!Of("filled", s, V!FromBlock, head) : log[i].filled <= m
                 /\ m = 0 \/ \E i \in V!Of("filled", s, V!FromBlock, head) : log[i].filled = m
                 => V!FilledCount(batch, s) = m
<1> DEFINE F == V!Of("filled", s, V!FromBlock, head)
           S == {0} \cup {e.filled : e \in {x \in batch["filled"] : x.seat = s}}
<1>1. {x \in batch["filled"] : x.seat = s} = {V!Event(h) : h \in F}
  BY AllRead DEF V!EventKinds
<1>2. /\ \A h \in F : log[h].filled \in S
      /\ \A x \in S : x = 0 \/ \E h \in F : x = log[h].filled
  <2>1. \A h : V!Event(h).filled = log[h].filled
    BY DEF V!Event
  <2> QED
    BY <1>1, <2>1
<1>3. \A h \in F : log[h].filled \in 0..SeatCount
  BY RangeFacts DEF V!Of, V!LogEntry
<1>4. V!FilledCount(batch, s) = V!Max(S) /\ 0 \in S
  BY DEF V!FilledCount
<1> HIDE DEF S, F
<1>5. S \in SUBSET (0..SeatCount) /\ S # {} /\ SeatCount \in Nat /\ S \in SUBSET Nat
  BY <1>2, <1>3, <1>4, SeatsAssumption
<1>6. V!Max(S) \in S /\ \A x \in S : x <= V!Max(S)
  BY <1>5, LargestExists
<1>7. \A m \in Nat : (\A h \in F : log[h].filled <= m) /\ (m = 0 \/ \E h \in F : log[h].filled = m)
                       => V!Max(S) = m
  <2> SUFFICES ASSUME NEW m \in Nat, \A h \in F : log[h].filled <= m,
                      m = 0 \/ \E h \in F : log[h].filled = m
               PROVE  V!Max(S) = m
    OBVIOUS
  <2>1. m \in S /\ \A x \in S : x <= m
    BY <1>2, <1>4
  <2> QED
    BY <1>5, <2>1, LargestIs
<1> QED
  BY <1>2, <1>4, <1>5, <1>6, <1>7 DEF F

(* The status that is told is that of the last closing event, if any.       *)
LEMMA StatusIs ==
    ASSUME V!SeatsIInv, scan = "listed", NEW s \in Seats, V!Whole(s, V!FromBlock, head)
    PROVE  /\ \A i \in V!Of("closed", s, V!FromBlock, head) :
                 (\A j \in V!Of("closed", s, V!FromBlock, head) : j <= i) =>
                    V!SeatStatus(batch, s) = IF log[i].status = "none" THEN "closed"
                                             ELSE log[i].status
           /\ \/ V!SeatStatus(batch, s) =
                    IF V!FilledCount(batch, s) >= SeatCount THEN "filled" ELSE "open"
              \/ \E i \in V!Of("closed", s, V!FromBlock, head) :
                    V!SeatStatus(batch, s) = IF log[i].status = "none" THEN "closed"
                                             ELSE log[i].status
<1> DEFINE closings == V!Of("closed", s, V!FromBlock, head)
           last == V!LastClosed(batch, s)
<1>1. {e \in batch["closed"] : e.seat = s} = {V!Event(h) : h \in closings}
  BY AllRead DEF V!EventKinds
<1>2. closings \subseteq Nat
  BY RangeFacts DEF V!Of
<1>3. \A h : V!Event(h).height = h /\ V!Event(h).status = log[h].status
  BY DEF V!Event
<1>4. \A e \in last : \E i \in closings : e = V!Event(i)
  BY <1>1 DEF V!LastClosed
<1>5. ASSUME NEW i \in closings, \A j \in closings : j <= i
      PROVE  last = {V!Event(i)}
  <2>1. \A x \in batch["closed"] : x.seat = s => \E j \in closings : x = V!Event(j)
    BY <1>1
  <2>2. V!Event(i) \in last
    BY <1>1, <1>3, <1>5, <2>1 DEF V!LastClosed
  <2>3. ASSUME NEW e \in last PROVE e = V!Event(i)
    <3>1. PICK j \in closings : e = V!Event(j)
      BY <1>4, <2>3
    <3>2. i <= j
      <4>1. V!Event(i) \in batch["closed"] /\ V!Event(i).seat = s
        BY <1>1, <1>5
      <4>2. V!Event(i).height <= e.height
        BY <2>3, <4>1 DEF V!LastClosed
      <4> QED
        BY <1>3, <3>1, <4>2
    <3> QED
      BY <1>2, <1>5, <3>1, <3>2
  <2> QED
    BY <2>2, <2>3
<1> HIDE DEF last, closings
<1>6. ASSUME last # {}
      PROVE  \E e \in last : V!SeatStatus(batch, s) = IF e.status = "none" THEN "closed" ELSE e.status
  <2> DEFINE e == CHOOSE x \in last : TRUE
  <2>1. e \in last
    BY <1>6
  <2>2. V!SeatStatus(batch, s) = IF e.status = "none" THEN "closed" ELSE e.status
    BY <1>6 DEF V!SeatStatus, last
  <2> QED
    BY <2>1, <2>2
<1>7. last = {} => V!SeatStatus(batch, s) =
                      IF V!FilledCount(batch, s) >= SeatCount THEN "filled" ELSE "open"
  BY DEF V!SeatStatus, last
<1>8. ASSUME NEW i \in closings, \A j \in closings : j <= i
      PROVE  V!SeatStatus(batch, s) = IF log[i].status = "none" THEN "closed" ELSE log[i].status
  BY <1>3, <1>5, <1>6, <1>8
<1>9. last # {} => \E i \in closings : V!SeatStatus(batch, s) = IF log[i].status = "none" THEN "closed"
                                                         ELSE log[i].status
  BY <1>3, <1>4, <1>6
<1> QED
  BY <1>7, <1>8, <1>9 DEF closings

LEMMA ListedWasOpen ==
    ASSUME V!SeatsIInv, scan = "listed", NEW s \in Seats, V!Whole(s, V!FromBlock, head),
           V!AdvertInRange(s), V!SeatStatus(batch, s) = "open",
           V!FilledCount(batch, s) < SeatCount
    PROVE  V!At(head)[s].status = "open"
<1>1. V!Of("advertised", s, V!FromBlock, head) # {}
  BY DEF V!AdvertInRange, V!Of
<1>2. \A i \in V!Of("closed", s, V!FromBlock, head) :
         (\A j \in V!Of("closed", s, V!FromBlock, head) : j <= i) => log[i].status = "open"
  BY StatusIs
<1>3. \A i \in V!Of("filled", s, V!FromBlock, head) : log[i].filled < SeatCount
  <2> TAKE i \in V!Of("filled", s, V!FromBlock, head)
  <2>1. log[i].filled \in Nat
    BY RangeFacts, SeatsAssumption DEF V!Of, V!LogEntry
  <2> QED
    BY <2>1, FilledIs, SeatsAssumption
<1>4. V!OpenIfSaid(s, V!FromBlock, head)
  BY RangeFacts, SeatFacts DEF SeatFollows
<1> QED
  BY <1>1, <1>2, <1>3, <1>4 DEF V!OpenIfSaid, V!SaysOpen

LEMMA StaysCounted ==
    ASSUME V!SeatsIInv, scan = "listed", NEW s \in Seats, V!Whole(s, V!FromBlock, head),
           V!AdvertInRange(s), V!StaysOpen(s, V!FromBlock, head)
    PROVE  /\ V!FilledCount(batch, s) = V!At(head)[s].filled
           /\ V!CountApplications(batch, s) >= V!At(head)[s].applied + V!At(head)[s].filled
           /\ V!At(head)[s].status = "open" => V!SeatStatus(batch, s) = "open"
<1> DEFINE r == V!At(head)[s]
<1>1. V!Of("advertised", s, V!FromBlock, head) # {}
  BY DEF V!AdvertInRange, V!Of
<1>2. V!CountsFollow(s, V!FromBlock, head)
  BY RangeFacts, SeatFacts DEF SeatFollows
<1>3. /\ \A i \in V!Of("closed", s, V!FromBlock, head) : log[i].status = "open"
      /\ \A i \in V!Of("filled", s, V!FromBlock, head) : log[i].filled <= r.filled
      /\ \/ r.filled = 0
         \/ \E i \in V!Of("filled", s, V!FromBlock, head) : log[i].filled = r.filled
      /\ V!Cardinality(V!Of("applied", s, V!FromBlock, head)) >= r.applied + r.filled
  BY <1>1, <1>2 DEF V!CountsFollow
<1>4. /\ r.filled \in Nat
      /\ r.status = "open" => r.filled < SeatCount
  BY RangeFacts, SeatFacts, SeatsAssumption DEF V!SeatRecord
<1> HIDE DEF r
<1>5. V!FilledCount(batch, s) = r.filled
  BY <1>3, <1>4, FilledIs
<1>6. V!CountApplications(batch, s) = V!Cardinality(V!Of("applied", s, V!FromBlock, head))
  <2>1. {e \in batch["applied"] : e.seat = s}
          = {V!Event(h) : h \in V!Of("applied", s, V!FromBlock, head)}
    BY AllRead DEF V!EventKinds
  <2>2. V!FromBlock \in Nat /\ head \in Nat
    BY RangeFacts
  <2> QED
    BY <2>1, <2>2, CountedOnce DEF V!CountApplications
<1>7. r.status = "open" => V!SeatStatus(batch, s) = "open"
  BY <1>3, <1>4, <1>5, StatusIs, SeatsAssumption
<1> QED
  BY <1>3, <1>5, <1>6, <1>7 DEF r

(* Every listed seat was open at the block the scan was told, whatever the  *)
(* order of the reads and of the events, and also after it had been closed  *)
(* or filled and advertised again.  A seat advertised once in the window    *)
(* and open since is missing only when the list is full, and shows the      *)
(* admissions, and applications no fewer than were admitted or stand        *)
(* (clusters.ts, operator_open_seats).                                      *)
THEOREM SeatListExact == MarketSpec => []SeatListIsExact
<1>1. SeatsInv => SeatListIsExact
  <2> SUFFICES ASSUME V!SeatsIInv, scan = "listed"
               PROVE  V!SeatListIsExact
    BY DEF SeatsInv, SeatListIsExact, V!SeatListIsExact, V!ListedSeatsWereOpen,
           V!VacanciesAreListed
  <2> DEFINE open == V!OpenSeats(batch)
             adverts == V!Decoded("advertised")
  <2>1. V!ScanFollows
    BY DEF V!SeatsIInv
  <2>2. /\ listing \subseteq open
        /\ V!Cardinality(listing) = V!Min({SeatLimit, V!Cardinality(open)})
        /\ batch["advertised"] = adverts
    BY <2>1, RangeFacts DEF V!ScanFollows, V!EventKinds
  <2>4. \A l \in open :
           /\ l.seat \in {e.seat : e \in adverts}
           /\ l.filled = V!FilledCount(batch, l.seat) /\ l.filled < SeatCount
           /\ l.applied = V!CountApplications(batch, l.seat)
           /\ V!SeatStatus(batch, l.seat) = "open"
    BY <2>2 DEF V!OpenSeats, V!FoldSeatEvents
  <2>5. \A s \in {e.seat : e \in adverts} : s \in Seats /\ V!AdvertInRange(s)
    <3> SUFFICES ASSUME NEW h \in V!FromBlock..head, log[h].kind = "advertised"
                 PROVE  log[h].seat \in Seats /\ V!AdvertInRange(log[h].seat)
      BY DEF V!Decoded, V!Event
    <3>1. log[h] \in V!LogEntry
      BY RangeFacts
    <3> QED
      BY <3>1 DEF V!LogEntry, V!AdvertInRange
  <2>6. V!ListedSeatsWereOpen
    <3> SUFFICES ASSUME NEW l \in listing, V!Whole(l.seat, V!FromBlock, head)
                 PROVE  /\ V!At(head)[l.seat].status = "open"
                        /\ V!StaysOpen(l.seat, V!FromBlock, head) =>
                              /\ l.filled = V!At(head)[l.seat].filled
                              /\ l.applied >= V!At(head)[l.seat].applied
                                                + V!At(head)[l.seat].filled
      BY DEF V!ListedSeatsWereOpen
    <3>1. /\ l.seat \in Seats /\ V!AdvertInRange(l.seat)
          /\ V!SeatStatus(batch, l.seat) = "open"
          /\ l.filled = V!FilledCount(batch, l.seat) /\ l.filled < SeatCount
          /\ l.applied = V!CountApplications(batch, l.seat)
      BY <2>2, <2>4, <2>5
    <3> QED
      BY <3>1, ListedWasOpen, StaysCounted
  <2>7. IsFiniteSet(open)
    <3> DEFINE Row(s) == [seat |-> s, filled |-> V!FilledCount(batch, s),
                          applied |-> V!CountApplications(batch, s)]
               blocks == V!FromBlock..head
               rows == {Row(log[h].seat) : h \in blocks}
    <3>1. IsFiniteSet(blocks)
      BY RangeFacts, FS_Interval
    <3>2. IsFiniteSet(rows)
      <4> DEFINE f == [h \in blocks |-> Row(log[h].seat)]
      <4>1. f \in Surjection(blocks, rows)
        BY DEF Surjection
      <4> QED
        BY <3>1, <4>1, FS_Surjection
    <3>3. open \subseteq rows
      BY <2>2 DEF V!OpenSeats, V!FoldSeatEvents, V!Decoded, V!Event
    <3> QED
      BY <3>2, <3>3, FS_Subset
  <2>8. V!Cardinality(listing) = SeatLimit \/ listing = open
    <3>1. Cardinality(open) \in Nat
      BY <2>7, FS_CardinalityType
    <3>2. \/ Cardinality(listing) = SeatLimit
          \/ Cardinality(listing) = Cardinality(open)
      BY <2>2, <3>1, SameCounts, SeatsAssumption DEF V!Min
    <3>3. CASE Cardinality(listing) = Cardinality(open)
      BY <2>2, <2>7, <3>3, FS_Subset
    <3> QED
      BY <3>2, <3>3, SameCounts
  <2>9. ASSUME NEW s \in Seats, V!At(head)[s].status = "open", V!AdvertInRange(s),
               V!Whole(s, V!FromBlock, head), V!StaysOpen(s, V!FromBlock, head)
        PROVE  s \in {l.seat : l \in open}
    <3>1. PICK h \in V!FromBlock..head : log[h].seat = s /\ log[h].kind = "advertised"
      BY <2>9 DEF V!AdvertInRange
    <3>2. V!Event(h) \in adverts /\ V!Event(h).seat = s
      BY <2>9, <3>1 DEF V!Decoded, V!Event, V!Whole
    <3>3. V!SeatStatus(batch, s) = "open" /\ V!FilledCount(batch, s) < SeatCount
      BY <2>9, StaysCounted, RangeFacts, SeatFacts
    <3>4. [seat |-> s, status |-> "open", filled |-> V!FilledCount(batch, s)]
             \in V!FoldSeatEvents(batch)
      BY <2>2, <3>2, <3>3 DEF V!FoldSeatEvents
    <3>5. [seat |-> s, filled |-> V!FilledCount(batch, s),
           applied |-> V!CountApplications(batch, s)] \in open
      BY <3>3, <3>4 DEF V!OpenSeats
    <3> QED
      BY <3>5
  <2>10. V!VacanciesAreListed
    BY <2>8, <2>9 DEF V!VacanciesAreListed
  <2> QED
    BY <2>6, <2>10 DEF V!SeatListIsExact
<1> QED
  BY <1>1, SeatsInvariance, PTL

-----------------------------------------------------------------------------
(* Answers put together from reads.                                         *)
LEMMA SameCountsOfReads == \A A : C!Cardinality(A) = Cardinality(A)
  BY DEF Cardinality, C!Cardinality, IsFiniteSet, C!IsFiniteSet

-----------------------------------------------------------------------------
(* Reads: cells and calls.                                                  *)
LEMMA CellFacts ==
    /\ \A c \in Clusters : \A k \in {"active", "quorum", "independent", "member",
                                     "charter", "amendment"} : <<k, c>> \in C!Cells
    /\ <<"registered", "operator">> \in C!Cells
    /\ \A o : C!CellsOf("directory", o) = {"active"} \X Page
    /\ \A c \in Clusters, w \in {"status", "entity", "charter", "amendment"} :
          C!CellsOf(w, c) \subseteq C!Cells
    /\ \A o : C!CellsOf("directory", o) \subseteq C!Cells
    /\ \A o : C!CellsOf("info", o) = {<<"registered", "operator">>}
<1>1. /\ \A c \in Clusters : \A k \in {"active", "quorum", "independent", "member",
                                       "charter", "amendment"} : <<k, c>> \in C!Cells
      /\ <<"registered", "operator">> \in C!Cells
  BY DEF C!Cells
<1>2. \A o : C!CellsOf("directory", o) = {"active"} \X Page
  BY DEF C!CellsOf
<1>3. \A o : C!CellsOf("info", o) = {<<"registered", "operator">>}
  BY DEF C!CellsOf
<1>4. \A c \in Clusters, w \in {"status", "entity", "charter", "amendment"} :
          C!CellsOf(w, c) \subseteq C!Cells
  <2>1. \A c : /\ C!CellsOf("status", c) = {"quorum", "member"} \X {c}
               /\ C!CellsOf("entity", c) = {<<"independent", c>>}
               /\ C!CellsOf("charter", c) = {<<"charter", c>>}
               /\ C!CellsOf("amendment", c) = {<<"amendment", c>>}
    BY DEF C!CellsOf
  <2>2. \A c : C!CellsOf("status", c) = {<<"quorum", c>>, <<"member", c>>}
    BY <2>1
  <2> SUFFICES ASSUME NEW c \in Clusters, NEW w \in {"status", "entity", "charter", "amendment"}
               PROVE  C!CellsOf(w, c) \subseteq C!Cells
    OBVIOUS
  <2>3. CASE w = "status"
    BY <1>1, <2>2, <2>3
  <2>4. CASE w = "entity"
    <3>1. <<"independent", c>> \in C!Cells
      BY <1>1
    <3> QED
      BY <2>1, <2>4, <3>1
  <2>5. CASE w = "charter"
    <3>1. <<"charter", c>> \in C!Cells
      BY <1>1
    <3> QED
      BY <2>1, <2>5, <3>1
  <2>6. CASE w = "amendment"
    <3>1. <<"amendment", c>> \in C!Cells
      BY <1>1
    <3> QED
      BY <2>1, <2>6, <3>1
  <2> QED
    BY <2>3, <2>4, <2>5, <2>6
<1>5. \A o : C!CellsOf("directory", o) \subseteq C!Cells
  <2>1. \A y \in {"active"} \X Page : y = <<"active", y[2]>> /\ y[2] \in Clusters
    BY ReadsAssumption
  <2> QED
    BY <1>1, <1>2, <2>1
<1> QED
  BY <1>1, <1>2, <1>3, <1>4, <1>5

LEMMA RecordReadFacts ==
    \A p, c : \A r \in C!RecordReads(p, c) :
        r[1] = p /\ r[3] = c /\ r[2] \in {"status", "entity"}
  BY DEF C!RecordReads, C!Read

LEMMA ListedFacts ==
    /\ \A c \in C!Listed : c \in Clusters
    /\ \A c \in Clusters : c \in C!Listed <=>
          C!Field("search", <<"active", c>>) # {} \/ C!Field("operator", <<"active", c>>) # {}
<1>1. \A x \in C!Cells : x[1] = "active" => x[2] \in Clusters /\ x = <<"active", x[2]>>
  BY DEF C!Cells
<1>2. \A c \in C!Listed : c \in Clusters
  BY <1>1 DEF C!Listed
<1>3. \A c \in Clusters : c \in C!Listed <=>
          C!Field("search", <<"active", c>>) # {} \/ C!Field("operator", <<"active", c>>) # {}
  BY <1>1, CellFacts DEF C!Listed
<1> QED
  BY <1>2, <1>3

(* A read that was answered: what the answer may have of it.                *)
LEMMA FieldFacts ==
    ASSUME C!ReadsIInv, NEW p, NEW x \in C!Cells
    PROVE  /\ C!Field(p, x) \subseteq BOOLEAN
           /\ \A v \in C!Field(p, x) : v \in seen[x]
           /\ \A r \in DOMAIN told :
                 r[1] = p /\ told[r] # {} /\ x \in C!CellsOf(r[2], r[3])
                    => C!Field(p, x) # {}
  BY DEF C!ReadsIInv, C!ToldWasSo, C!Field

-----------------------------------------------------------------------------
(* The chain moves.                                                         *)
LEMMA ViewStays ==
    ASSUME told' = told, readCall' = readCall, reads' = reads
    PROVE  C!ReadsAreAsked' = C!ReadsAreAsked /\ C!AnswerFollows' = C!AnswerFollows
<1>1. \A p, x : C!Field(p, x)' = C!Field(p, x)
  BY DEF C!Field
<1>2. C!Listed' = C!Listed /\ C!Members' = C!Members
  BY <1>1 DEF C!Listed, C!Members
<1>3. \A c : C!Matches(c)' = C!Matches(c)
  BY <1>1 DEF C!Matches, C!ShapeLiveCluster
<1>4. C!Found' = C!Found /\ C!Hits' = C!Hits /\ C!LastStage' = C!LastStage
  BY <1>1, <1>2, <1>3 DEF C!Found, C!Hits, C!LastStage
<1>5. C!SecondReads' = C!SecondReads /\ C!FirstReads' = C!FirstReads /\ C!Asked' = C!Asked
  BY <1>2 DEF C!SecondReads, C!FirstReads, C!Asked
<1>6. C!ReadsAreAsked' = C!ReadsAreAsked
  BY <1>5 DEF C!ReadsAreAsked
<1> QED
  BY <1>4, <1>6 DEF C!AnswerFollows

LEMMA ChainMoves ==
    ASSUME C!ReadsIInv, NEW x \in C!Cells, C!ChainMoves(x)
    PROVE  C!ReadsIInv'
<1>1. /\ told' = told /\ readCall' = readCall /\ reads' = reads
      /\ chain' = [chain EXCEPT ![x] = ~@]
      /\ seen' = IF readCall = C!NoCall THEN seen ELSE [seen EXCEPT ![x] = @ \cup {~chain[x]}]
  BY DEF C!ChainMoves
<1>2. /\ chain \in [C!Cells -> BOOLEAN] /\ seen \in [C!Cells -> SUBSET BOOLEAN]
  BY DEF C!ReadsIInv, C!CallsTyped
<1>3. /\ chain' \in [C!Cells -> BOOLEAN] /\ seen' \in [C!Cells -> SUBSET BOOLEAN]
  BY <1>1, <1>2
<1>4. C!CallsTyped'
  BY <1>1, <1>3 DEF C!ReadsIInv, C!CallsTyped, C!NoCall
<1>5. \A y \in C!Cells : \A v \in seen[y] : v \in seen'[y]
  BY <1>1, <1>2
<1>6. readCall.tool # "none" => \A y \in C!Cells : chain'[y] \in seen'[y]
  <2> SUFFICES ASSUME readCall.tool # "none" PROVE \A y \in C!Cells : chain'[y] \in seen'[y]
    OBVIOUS
  <2>1. readCall # C!NoCall
    BY DEF C!NoCall
  <2>2. \A y \in C!Cells : chain[y] \in seen[y]
    BY DEF C!ReadsIInv, C!ToldWasSo
  <2> QED
    BY <1>1, <1>2, <2>1, <2>2
<1>7. C!ToldWasSo'
  BY <1>1, <1>5, <1>6 DEF C!ReadsIInv, C!ToldWasSo
<1>8. C!ReadsAreAsked' /\ C!AnswerFollows'
  BY <1>1, ViewStays DEF C!ReadsIInv
<1> QED
  BY <1>4, <1>7, <1>8 DEF C!ReadsIInv

(* A call begins.                                                           *)
LEMMA BeginStep ==
    ASSUME C!ReadsIInv,
           NEW tool \in {"cluster_get", "cluster_search", "operator_get",
                         "operator_search", "charter_read"},
           NEW fields \in C!CallRecord, fields.answer = "none",
           NEW rs, \A r \in rs : C!CellsOf(r[2], r[3]) \subseteq C!Cells,
           C!Begin(tool, fields, rs), C!FirstReads' \subseteq rs
    PROVE  C!ReadsIInv'
<1>1. /\ readCall = C!NoCall /\ reads' = rs /\ chain' = chain /\ told' = told
      /\ readCall' = [fields EXCEPT !.tool = tool, !.stage = 1]
      /\ seen' = [x \in C!Cells |-> {chain[x]}]
  BY DEF C!Begin, C!chainVars
<1>2. /\ readCall' \in C!CallRecord /\ readCall'.tool = tool /\ readCall'.stage = 1
      /\ readCall'.answer = "none"
  <2> DEFINE f == [fields EXCEPT !.tool = tool]
             r == [f EXCEPT !.stage = 1]
  <2>1. readCall' = r
    BY <1>1, Zenon
  <2>2. f \in C!CallRecord /\ f.tool = tool /\ f.answer = "none"
    BY DEF C!CallRecord
  <2> HIDE DEF f
  <2>3. r \in C!CallRecord /\ r.tool = tool /\ r.stage = 1 /\ r.answer = "none"
    BY <2>2 DEF C!CallRecord
  <2> QED
    BY <2>1, <2>3
<1>3. DOMAIN told = {}
  BY <1>1 DEF C!ReadsIInv, C!CallsTyped, C!NoCall
<1>4. chain \in [C!Cells -> BOOLEAN]
  BY DEF C!ReadsIInv, C!CallsTyped
<1>5. C!CallsTyped'
  BY <1>1, <1>2, <1>4 DEF C!CallsTyped
<1>6. C!ToldWasSo'
  BY <1>1, <1>3 DEF C!ToldWasSo
<1>7. C!ReadsAreAsked'
  BY <1>1, <1>2, <1>3 DEF C!ReadsAreAsked, C!Asked
<1>8. C!AnswerFollows'
  BY <1>2 DEF C!AnswerFollows
<1> QED
  BY <1>5, <1>6, <1>7, <1>8 DEF C!ReadsIInv

(* A read returns what the chain holds, or nothing.                         *)
LEMMA ReadReturns ==
    ASSUME C!ReadsIInv, NEW r \in reads, NEW fs \in {{}, C!Facts(r)},
           fs = C!Facts(r) \/ ~C!Required(r),
           told' = [q \in DOMAIN told \cup {r} |-> IF q = r THEN fs ELSE told[q]],
           reads' = reads \ {r}, chain' = chain, seen' = seen, readCall' = readCall
    PROVE  C!ReadsIInv'
<1>1. readCall.tool # "none" /\ C!CellsOf(r[2], r[3]) \subseteq C!Cells
  BY DEF C!ReadsIInv, C!CallsTyped
<1>2. chain \in [C!Cells -> BOOLEAN] /\ \A x \in C!Cells : chain[x] \in seen[x]
  BY <1>1 DEF C!ReadsIInv, C!CallsTyped, C!ToldWasSo
<1>3. C!CallsTyped'
  BY <1>1 DEF C!ReadsIInv, C!CallsTyped
<1>4. /\ C!Facts(r) \subseteq C!Cells \X BOOLEAN
      /\ \A x \in C!Cells, v \in BOOLEAN : <<x, v>> \in C!Facts(r) => v \in seen[x]
      /\ \A x \in C!CellsOf(r[2], r[3]) : \E v \in BOOLEAN : <<x, v>> \in C!Facts(r)
      /\ C!Facts(r) = {} => C!CellsOf(r[2], r[3]) = {}
  <2> DEFINE S == C!CellsOf(r[2], r[3])
  <2>1. C!Facts(r) = {<<x, chain[x]>> : x \in S}
    BY DEF C!Facts
  <2>2. S \subseteq C!Cells
    BY <1>1
  <2> HIDE DEF S
  <2>3. \A x \in S : <<x, chain[x]>> \in C!Facts(r) /\ chain[x] \in BOOLEAN
    BY <1>2, <2>1, <2>2
  <2>4. \A x, v : <<x, v>> \in C!Facts(r) => x \in S /\ v = chain[x]
    BY <2>1
  <2>5. C!Facts(r) \subseteq C!Cells \X BOOLEAN
    BY <1>2, <2>1, <2>2
  <2>6. \A x \in C!Cells, v \in BOOLEAN : <<x, v>> \in C!Facts(r) => v \in seen[x]
    BY <1>2, <2>4
  <2>7. C!Facts(r) = {} => S = {}
    BY <2>3
  <2> QED
    BY <2>3, <2>5, <2>6, <2>7 DEF S
<1>5. /\ DOMAIN told' = DOMAIN told \cup {r} /\ told'[r] = fs
      /\ \A q \in DOMAIN told : q # r => told'[q] = told[q]
  OBVIOUS
<1>6. C!ToldWasSo'
  <2> SUFFICES ASSUME NEW q \in DOMAIN told'
               PROVE  /\ told'[q] \subseteq C!Cells \X BOOLEAN
                      /\ \A x \in C!Cells, v \in BOOLEAN : <<x, v>> \in told'[q] => v \in seen[x]
                      /\ told'[q] # {} =>
                            \A x \in C!CellsOf(q[2], q[3]) :
                               \E v \in BOOLEAN : <<x, v>> \in told'[q]
    BY <1>2 DEF C!ToldWasSo
  <2>1. CASE q = r
    BY <1>4, <1>5, <2>1
  <2>2. CASE q # r
    BY <1>5, <2>2 DEF C!ReadsIInv, C!ToldWasSo
  <2> QED
    BY <2>1, <2>2
<1>7. C!Asked' = C!Asked /\ C!FirstReads' = C!FirstReads
  BY <1>5 DEF C!Asked, C!FirstReads
<1>8. ASSUME r[1] \notin {"search", "operator"}
      PROVE  C!SecondReads' = C!SecondReads
  <2>1. \A p \in {"search", "operator"} : \A x : C!Field(p, x)' = C!Field(p, x)
    BY <1>5, <1>8 DEF C!Field
  <2>2. C!Listed' = C!Listed
    BY <2>1 DEF C!Listed
  <2> QED
    BY <2>2 DEF C!SecondReads
<1>9. C!ReadsAreAsked'
  <2> SUFFICES ASSUME readCall.answer # "error"
               PROVE  /\ C!FirstReads' \subseteq C!Asked'
                      /\ \A q \in DOMAIN told' :
                            C!Required(q) /\ told'[q] = {} => C!CellsOf(q[2], q[3]) = {}
                      /\ readCall.stage = 2
                            /\ readCall.tool \in {"cluster_search", "operator_get"} =>
                            /\ C!SecondReads' \subseteq C!Asked'
                            /\ \A q \in reads' : q[1] \notin {"search", "operator"}
    BY DEF C!ReadsAreAsked
  <2>1. C!FirstReads' \subseteq C!Asked'
    BY <1>7 DEF C!ReadsIInv, C!ReadsAreAsked
  <2>2. \A q \in DOMAIN told' :
           C!Required(q) /\ told'[q] = {} => C!CellsOf(q[2], q[3]) = {}
    BY <1>4, <1>5 DEF C!ReadsIInv, C!ReadsAreAsked
  <2>3. readCall.stage = 2 /\ readCall.tool \in {"cluster_search", "operator_get"} =>
           /\ C!SecondReads' \subseteq C!Asked'
           /\ \A q \in reads' : q[1] \notin {"search", "operator"}
    BY <1>7, <1>8 DEF C!ReadsIInv, C!ReadsAreAsked
  <2> QED
    BY <2>1, <2>2, <2>3
<1>10. C!AnswerFollows'
  BY DEF C!ReadsIInv, C!AnswerFollows
<1> QED
  BY <1>3, <1>6, <1>9, <1>10 DEF C!ReadsIInv

LEMMA ReadAnswered ==
    ASSUME C!ReadsIInv, NEW r \in reads, C!ReadAnswers(r)
    PROVE  C!ReadsIInv'
  BY ReadReturns DEF C!ReadAnswers, C!chainVars

LEMMA ReadFailed ==
    ASSUME C!ReadsIInv, NEW r \in reads, C!ReadFails(r)
    PROVE  C!ReadsIInv'
<1>1. CASE C!Required(r)
  <2>1. /\ readCall' = [readCall EXCEPT !.answer = "error"] /\ reads' = {}
        /\ told' = told /\ chain' = chain /\ seen' = seen
    BY <1>1 DEF C!ReadFails, C!chainVars
  <2>2. readCall \in C!CallRecord /\ readCall.tool # "none"
    BY DEF C!ReadsIInv, C!CallsTyped
  <2>3. readCall' \in C!CallRecord /\ readCall'.tool = readCall.tool /\ readCall'.answer = "error"
    BY <2>1, <2>2 DEF C!CallRecord
  <2>4. C!CallsTyped'
    BY <2>1, <2>2, <2>3 DEF C!ReadsIInv, C!CallsTyped
  <2>5. C!ToldWasSo'
    BY <2>1, <2>3 DEF C!ReadsIInv, C!ToldWasSo
  <2>6. C!ReadsAreAsked' /\ C!AnswerFollows'
    BY <2>3 DEF C!ReadsAreAsked, C!AnswerFollows
  <2> QED
    BY <2>4, <2>5, <2>6 DEF C!ReadsIInv
<1>2. CASE ~C!Required(r)
  BY <1>2, ReadReturns DEF C!ReadFails, C!chainVars
<1> QED
  BY <1>1, <1>2

(* What the directory lists is read next.                                   *)
LEMMA SecondReadFacts ==
    \A r \in C!SecondReads :
        r[1] \in {"entry", "roster"} /\ C!CellsOf(r[2], r[3]) \subseteq C!Cells
<1>1. CASE readCall.tool = "cluster_search"
  <2>1. C!SecondReads = UNION {C!RecordReads("entry", c) : c \in C!Listed}
    BY <1>1 DEF C!SecondReads
  <2>2. \A r \in C!SecondReads : \E c \in C!Listed : r \in C!RecordReads("entry", c)
    BY <2>1
  <2> QED
    BY <2>2, RecordReadFacts, ListedFacts, CellFacts
<1>2. CASE readCall.tool # "cluster_search"
  <2>1. C!SecondReads = {C!Read("roster", "status", c) : c \in C!Listed}
    BY <1>2 DEF C!SecondReads
  <2>2. \A r \in C!SecondReads :
           \E c \in C!Listed : r[1] = "roster" /\ r[2] = "status" /\ r[3] = c
    BY <2>1 DEF C!Read
  <2> QED
    BY <2>2, ListedFacts, CellFacts
<1> QED
  BY <1>1, <1>2

LEMMA SameView ==
    ASSUME told' = told
    PROVE  /\ \A p, x : C!Field(p, x)' = C!Field(p, x)
           /\ C!Listed' = C!Listed /\ C!Members' = C!Members /\ C!Found' = C!Found
<1>1. \A p, x : C!Field(p, x)' = C!Field(p, x)
  BY DEF C!Field
<1>2. C!Listed' = C!Listed /\ C!Members' = C!Members
  BY <1>1 DEF C!Listed, C!Members
<1> QED
  BY <1>1, <1>2 DEF C!Found

LEMMA StageStep ==
    ASSUME C!ReadsIInv, C!NextStage
    PROVE  C!ReadsIInv'
<1> DEFINE stage == IF readCall.tool = "cluster_get" THEN 3 ELSE readCall.stage + 1
<1>1. /\ reads = {} /\ readCall.answer = "none"
      /\ told' = told /\ chain' = chain /\ seen' = seen
      /\ readCall' = [readCall EXCEPT !.stage = stage]
      /\ \/ readCall.tool \in {"cluster_search", "operator_get", "operator_search"}
            /\ readCall.stage = 1 /\ reads' = C!SecondReads
         \/ readCall.tool \in {"operator_search", "cluster_get"}
            /\ readCall.stage = (IF readCall.tool = "cluster_get" THEN 1 ELSE 2)
            /\ reads' = {C!Read("member", "info", "operator") : m \in C!Members}
  BY DEF C!NextStage, C!chainVars
<1>2. readCall \in C!CallRecord /\ readCall.tool # "none"
  BY <1>1 DEF C!ReadsIInv, C!CallsTyped
<1>3. stage \in 0..3
  BY <1>1
<1> HIDE DEF stage
<1>4. /\ readCall' \in C!CallRecord /\ readCall'.tool = readCall.tool
      /\ readCall'.cluster = readCall.cluster /\ readCall'.answer = "none"
  BY <1>1, <1>2, <1>3 DEF C!CallRecord
<1>5. C!FirstReads' = C!FirstReads /\ C!SecondReads' = C!SecondReads
  BY <1>1, <1>4, SameView DEF C!FirstReads, C!SecondReads
<1>6. \A r \in reads' : C!CellsOf(r[2], r[3]) \subseteq C!Cells
  <2>1. CASE reads' = C!SecondReads
    BY <2>1, SecondReadFacts
  <2>2. CASE reads' = {C!Read("member", "info", "operator") : m \in C!Members}
    <3>1. \A r \in reads' : r[2] = "info"
      BY <2>2 DEF C!Read
    <3> QED
      BY <3>1, CellFacts
  <2> QED
    BY <1>1, <2>1, <2>2
<1>7. C!CallsTyped'
  BY <1>1, <1>2, <1>4, <1>6 DEF C!ReadsIInv, C!CallsTyped
<1>8. C!ToldWasSo'
  BY <1>1, <1>4 DEF C!ReadsIInv, C!ToldWasSo
<1>9. C!FirstReads' \subseteq C!Asked'
  BY <1>1, <1>5 DEF C!ReadsIInv, C!ReadsAreAsked, C!Asked
<1>10. \A r \in DOMAIN told' :
          C!Required(r) /\ told'[r] = {} => C!CellsOf(r[2], r[3]) = {}
  BY <1>1 DEF C!ReadsIInv, C!ReadsAreAsked
<1>11. ASSUME readCall'.tool \in {"cluster_search", "operator_get"}
       PROVE  C!SecondReads' \subseteq C!Asked'
              /\ \A r \in reads' : r[1] \notin {"search", "operator"}
  <2>1. reads' = C!SecondReads
    BY <1>1, <1>4, <1>11
  <2> QED
    BY <1>5, <2>1, SecondReadFacts DEF C!Asked
<1>12. C!ReadsAreAsked'
  BY <1>9, <1>10, <1>11 DEF C!ReadsAreAsked
<1>13. C!AnswerFollows'
  BY <1>4 DEF C!AnswerFollows
<1> QED
  BY <1>7, <1>8, <1>12, <1>13 DEF C!ReadsIInv

(* The answer.                                                              *)
LEMMA AnswerStep ==
    ASSUME C!ReadsIInv, C!Answer
    PROVE  C!ReadsIInv'
<1>1. PICK shown \in SUBSET C!Hits :
         /\ C!Cardinality(shown) = C!Min({SearchLimit, C!Cardinality(C!Hits)})
         /\ readCall' = [readCall EXCEPT
               !.answer = IF readCall.tool = "operator_get" /\ ~C!Found
                          THEN "not_found" ELSE "ok",
               !.listed = IF readCall.tool = "cluster_search" THEN shown ELSE {}]
  BY DEF C!Answer, C!Hits
<1>2. /\ reads = {} /\ readCall.answer = "none" /\ readCall.stage = C!LastStage
      /\ reads' = reads /\ told' = told /\ chain' = chain /\ seen' = seen
  BY DEF C!Answer, C!chainVars
<1>3. readCall \in C!CallRecord
  BY DEF C!ReadsIInv, C!CallsTyped
<1>4. readCall.tool # "none"
  BY <1>2 DEF C!ReadsIInv, C!CallsTyped, C!NoCall, C!LastStage
<1> DEFINE answered1 == IF readCall.tool = "operator_get" /\ ~C!Found
                        THEN "not_found" ELSE "ok"
           listed1 == IF readCall.tool = "cluster_search" THEN shown ELSE {}
<1>5. /\ answered1 \in {"ok", "not_found"} /\ listed1 \in SUBSET Clusters
      /\ answered1 = "not_found" => readCall.tool = "operator_get" /\ ~C!Found
      /\ readCall.tool = "cluster_search" => listed1 = shown
  BY ListedFacts DEF C!Hits
<1>6. /\ readCall' \in C!CallRecord /\ readCall'.tool = readCall.tool
      /\ readCall'.stage = readCall.stage /\ readCall'.cluster = readCall.cluster
      /\ readCall'.activeOnly = readCall.activeOnly
      /\ readCall'.independent = readCall.independent
      /\ readCall'.answer = answered1 /\ readCall'.listed = listed1
  <2> DEFINE f == [readCall EXCEPT !.answer = answered1]
             r == [f EXCEPT !.listed = listed1]
  <2>1. readCall' = r
    BY <1>1, Zenon
  <2> HIDE DEF answered1, listed1
  <2>2. /\ f \in C!CallRecord /\ f.tool = readCall.tool /\ f.stage = readCall.stage
        /\ f.cluster = readCall.cluster /\ f.independent = readCall.independent
        /\ f.answer = answered1
    BY <1>3, <1>5 DEF C!CallRecord
  <2>3. f.activeOnly = readCall.activeOnly
    BY <1>3, Zenon DEF C!CallRecord
  <2> HIDE DEF f
  <2>4. /\ r \in C!CallRecord /\ r.tool = f.tool /\ r.stage = f.stage
        /\ r.cluster = f.cluster /\ r.independent = f.independent
        /\ r.answer = f.answer /\ r.listed = listed1
    BY <1>5, <2>2 DEF C!CallRecord
  <2>5. r.activeOnly = f.activeOnly
    BY <2>2, Zenon DEF C!CallRecord
  <2> HIDE DEF r
  <2> QED
    BY <2>1, <2>2, <2>3, <2>4, <2>5
<1> HIDE DEF answered1, listed1
<1>7. C!CallsTyped'
  BY <1>2, <1>4, <1>6 DEF C!ReadsIInv, C!CallsTyped
<1>8. C!ToldWasSo'
  BY <1>2, <1>6 DEF C!ReadsIInv, C!ToldWasSo
<1>9. /\ C!FirstReads' = C!FirstReads /\ C!SecondReads' = C!SecondReads
      /\ C!Asked' = C!Asked /\ C!LastStage' = C!LastStage
  BY <1>2, <1>6, SameView DEF C!FirstReads, C!SecondReads, C!Asked, C!LastStage
<1>10. \A c : C!Matches(c)' = C!Matches(c)
  BY <1>2, <1>6, SameView DEF C!Matches, C!ShapeLiveCluster
<1>11. C!Hits' = C!Hits /\ C!Found' = C!Found
  BY <1>2, <1>10, SameView DEF C!Hits
<1>12. C!ReadsAreAsked'
  BY <1>2, <1>6, <1>9 DEF C!ReadsIInv, C!ReadsAreAsked
<1>13. C!AnswerFollows'
  BY <1>1, <1>2, <1>5, <1>6, <1>9, <1>11 DEF C!AnswerFollows
<1> QED
  BY <1>7, <1>8, <1>12, <1>13 DEF C!ReadsIInv

LEMMA NoCallTyped == C!NoCall \in C!CallRecord
  BY DEF C!NoCall, C!CallRecord, C!Wishes

LEMMA ReturnStep ==
    ASSUME C!ReadsIInv, C!Return
    PROVE  C!ReadsIInv'
<1>1. /\ readCall' = C!NoCall /\ told' = <<>> /\ reads' = {} /\ chain' = chain
      /\ seen' = [x \in C!Cells |-> {}]
  BY DEF C!Return, C!chainVars
<1>2. DOMAIN told' = {}
  BY <1>1
<1>3. /\ readCall'.tool = "none" /\ readCall'.answer = "none" /\ readCall'.stage = 0
  BY <1>1 DEF C!NoCall
<1>4. C!CallsTyped'
  BY <1>1, <1>2, NoCallTyped DEF C!ReadsIInv, C!CallsTyped
<1>5. C!ToldWasSo'
  BY <1>2, <1>3 DEF C!ToldWasSo
<1>6. C!ReadsAreAsked'
  BY <1>2, <1>3 DEF C!ReadsAreAsked, C!FirstReads
<1>7. C!AnswerFollows'
  BY <1>3 DEF C!AnswerFollows
<1> QED
  BY <1>4, <1>5, <1>6, <1>7 DEF C!ReadsIInv

(* The tools.                                                               *)
LEMMA DirectoryCells ==
    \A p : \A r \in {C!Directory(p)} : C!CellsOf(r[2], r[3]) \subseteq C!Cells
  BY CellFacts DEF C!Directory, C!Read

LEMMA ClusterGetStep ==
    ASSUME C!ReadsIInv, NEW c \in Clusters, C!ClusterGet(c)
    PROVE  C!ReadsIInv'
<1> DEFINE fields == [C!NoCall EXCEPT !.cluster = {c}]
           rs == C!RecordReads("reputation", c)
                   \cup {C!Directory("reputation"), C!Read("foundation", "entity", c),
                         C!Read("roster", "status", c)}
<1>1. C!Begin("cluster_get", fields, rs)
  BY DEF C!ClusterGet
<1>2. /\ fields \in C!CallRecord /\ fields.answer = "none" /\ fields.cluster = {c}
  BY NoCallTyped DEF C!CallRecord, C!NoCall
<1>3. \A r \in rs : C!CellsOf(r[2], r[3]) \subseteq C!Cells
  <2>1. \A r \in rs : r[2] = "directory" \/ (r[2] \in {"status", "entity"} /\ r[3] = c)
    BY RecordReadFacts DEF C!Directory, C!Read
  <2> QED
    BY <2>1, CellFacts
<1> HIDE DEF fields
<1>4. readCall'.tool = "cluster_get" /\ readCall'.cluster = {c}
  <2> DEFINE f == [fields EXCEPT !.tool = "cluster_get"]
  <2>1. readCall' = [f EXCEPT !.stage = 1]
    BY <1>1, Zenon DEF C!Begin
  <2>2. f \in C!CallRecord /\ f.tool = "cluster_get" /\ f.cluster = {c}
    BY <1>2 DEF C!CallRecord
  <2> HIDE DEF f
  <2> QED
    BY <2>1, <2>2 DEF C!CallRecord
<1>5. C!FirstReads' \subseteq rs
  <2>1. C!FirstReads' = (UNION {C!RecordReads("reputation", d) : d \in readCall'.cluster})
                           \cup {C!Directory("reputation")}
    BY <1>4 DEF C!FirstReads
  <2>2. \A r \in UNION {C!RecordReads("reputation", d) : d \in {c}} :
           r \in C!RecordReads("reputation", c)
    OBVIOUS
  <2>3. C!FirstReads' = (UNION {C!RecordReads("reputation", d) : d \in {c}})
                           \cup {C!Directory("reputation")}
    BY <1>4, <2>1, Zenon
  <2> QED
    BY <2>2, <2>3
<1> HIDE DEF rs
<1> QED
  BY <1>1, <1>2, <1>3, <1>5, BeginStep

LEMMA CharterStep ==
    ASSUME C!ReadsIInv, NEW c \in Clusters, C!CharterRead(c)
    PROVE  C!ReadsIInv'
<1> DEFINE fields == [C!NoCall EXCEPT !.cluster = {c}]
           rs == {C!Read("charter", "charter", c), C!Read("charter", "amendment", c)}
<1>1. C!Begin("charter_read", fields, rs)
  BY DEF C!CharterRead
<1>2. fields \in C!CallRecord /\ fields.answer = "none"
  BY NoCallTyped DEF C!CallRecord, C!NoCall
<1>3. \A r \in rs : C!CellsOf(r[2], r[3]) \subseteq C!Cells
  BY CellFacts DEF C!Read
<1> HIDE DEF fields
<1>4. readCall'.tool = "charter_read"
  <2> DEFINE f == [fields EXCEPT !.tool = "charter_read"]
  <2>1. readCall' = [f EXCEPT !.stage = 1]
    BY <1>1, Zenon DEF C!Begin
  <2>2. f \in C!CallRecord /\ f.tool = "charter_read"
    BY <1>2 DEF C!CallRecord
  <2> HIDE DEF f
  <2> QED
    BY <2>1, <2>2 DEF C!CallRecord
<1>5. C!FirstReads' \subseteq rs
  BY <1>4 DEF C!FirstReads
<1> HIDE DEF rs
<1> QED
  BY <1>1, <1>2, <1>3, <1>5, BeginStep

LEMMA SearchStep ==
    ASSUME C!ReadsIInv, NEW a \in BOOLEAN, NEW i \in C!Wishes, C!ClusterSearch(a, i)
    PROVE  C!ReadsIInv'
<1> DEFINE fields == [C!NoCall EXCEPT !.activeOnly = a, !.independent = i]
           rs == {C!Directory("search")}
<1>1. C!Begin("cluster_search", fields, rs)
  BY DEF C!ClusterSearch
<1>2. fields \in C!CallRecord /\ fields.answer = "none"
  <2> DEFINE g == [C!NoCall EXCEPT !.activeOnly = a]
  <2>1. fields = [g EXCEPT !.independent = i]
    BY Zenon
  <2>2. g \in C!CallRecord /\ g.answer = "none"
    BY NoCallTyped DEF C!CallRecord, C!NoCall
  <2> HIDE DEF g, fields
  <2> QED
    BY <2>1, <2>2 DEF C!CallRecord
<1>3. \A r \in rs : C!CellsOf(r[2], r[3]) \subseteq C!Cells
  BY DirectoryCells
<1> HIDE DEF fields
<1>4. readCall'.tool = "cluster_search"
  <2> DEFINE f == [fields EXCEPT !.tool = "cluster_search"]
  <2>1. readCall' = [f EXCEPT !.stage = 1]
    BY <1>1, Zenon DEF C!Begin
  <2>2. f \in C!CallRecord /\ f.tool = "cluster_search"
    BY <1>2 DEF C!CallRecord
  <2> HIDE DEF f
  <2> QED
    BY <2>1, <2>2 DEF C!CallRecord
<1>5. C!FirstReads' \subseteq rs
  BY <1>4 DEF C!FirstReads
<1> HIDE DEF rs
<1> QED
  BY <1>1, <1>2, <1>3, <1>5, BeginStep

LEMMA OperatorSteps ==
    ASSUME C!ReadsIInv, C!OperatorGet \/ C!OperatorSearch
    PROVE  C!ReadsIInv'
<1>1. C!NoCall.answer = "none"
  BY DEF C!NoCall
<1>2. ASSUME NEW tool \in {"operator_get", "operator_search"},
             NEW rs, C!Begin(tool, C!NoCall, rs)
      PROVE  readCall'.tool = tool
  <2> DEFINE f == [C!NoCall EXCEPT !.tool = tool]
  <2>1. readCall' = [f EXCEPT !.stage = 1]
    BY <1>2, Zenon DEF C!Begin
  <2>2. f \in C!CallRecord /\ f.tool = tool
    BY NoCallTyped DEF C!CallRecord
  <2> HIDE DEF f
  <2> QED
    BY <2>1, <2>2 DEF C!CallRecord
<1>3. CASE C!OperatorGet
  <2> DEFINE rs == {C!Read("operator", "info", "operator"), C!Directory("operator")}
  <2>1. C!Begin("operator_get", C!NoCall, rs)
    BY <1>3 DEF C!OperatorGet
  <2>2. readCall'.tool = "operator_get"
    BY <1>2, <2>1
  <2>3. C!FirstReads' \subseteq rs
    BY <2>2 DEF C!FirstReads
  <2>4. \A r \in rs : C!CellsOf(r[2], r[3]) \subseteq C!Cells
    BY CellFacts DEF C!Read, C!Directory
  <2> HIDE DEF rs
  <2> QED
    BY <1>1, <2>1, <2>3, <2>4, NoCallTyped, BeginStep
<1>4. CASE C!OperatorSearch
  <2> DEFINE rs == {C!Directory("search")}
  <2>1. C!Begin("operator_search", C!NoCall, rs)
    BY <1>4 DEF C!OperatorSearch
  <2>2. readCall'.tool = "operator_search"
    BY <1>2, <2>1
  <2>3. C!FirstReads' \subseteq rs
    BY <2>2 DEF C!FirstReads
  <2>4. \A r \in rs : C!CellsOf(r[2], r[3]) \subseteq C!Cells
    BY DirectoryCells
  <2> HIDE DEF rs
  <2> QED
    BY <1>1, <2>1, <2>3, <2>4, NoCallTyped, BeginStep
<1> QED
  BY <1>3, <1>4

LEMMA ReadsStep ==
    ASSUME C!ReadsIInv, C!Next
    PROVE  C!ReadsIInv'
<1>1. CASE \E x \in C!Cells : C!ChainMoves(x)
  BY <1>1, ChainMoves
<1>2. CASE \E c \in Clusters : C!ClusterGet(c) \/ C!CharterRead(c)
  BY <1>2, ClusterGetStep, CharterStep
<1>3. CASE \E a \in BOOLEAN, i \in C!Wishes : C!ClusterSearch(a, i)
  BY <1>3, SearchStep
<1>4. CASE C!OperatorGet \/ C!OperatorSearch
  BY <1>4, OperatorSteps
<1>5. CASE \E r \in reads : C!ReadAnswers(r) \/ C!ReadFails(r)
  BY <1>5, ReadAnswered, ReadFailed
<1>6. CASE C!NextStage \/ C!Answer \/ C!Return
  BY <1>6, StageStep, AnswerStep, ReturnStep
<1> QED
  BY <1>1, <1>2, <1>3, <1>4, <1>5, <1>6, Zenon DEF C!Next, C!Wishes

LEMMA ReadsInit == C!Init => C!ReadsIInv
<1> SUFFICES ASSUME C!Init PROVE C!ReadsIInv
  OBVIOUS
<1>1. /\ chain \in [C!Cells -> BOOLEAN] /\ seen = [x \in C!Cells |-> {}]
      /\ readCall = C!NoCall /\ reads = {} /\ told = <<>>
  BY DEF C!Init
<1>2. DOMAIN told = {}
  BY <1>1
<1>3. readCall.tool = "none" /\ readCall.answer = "none" /\ readCall.stage = 0
  BY <1>1 DEF C!NoCall
<1>4. C!CallsTyped
  BY <1>1, <1>2, NoCallTyped DEF C!CallsTyped
<1>5. C!ToldWasSo
  BY <1>2, <1>3 DEF C!ToldWasSo
<1>6. C!ReadsAreAsked
  BY <1>2, <1>3 DEF C!ReadsAreAsked, C!FirstReads
<1>7. C!AnswerFollows
  BY <1>3 DEF C!AnswerFollows
<1> QED
  BY <1>4, <1>5, <1>6, <1>7 DEF C!ReadsIInv

LEMMA ReadsUnchanged ==
    ASSUME C!ReadsIInv, UNCHANGED C!vars
    PROVE  C!ReadsIInv'
<1>1. /\ told' = told /\ readCall' = readCall /\ reads' = reads
      /\ chain' = chain /\ seen' = seen
  BY DEF C!vars, C!chainVars
<1>2. C!CallsTyped'
  BY <1>1 DEF C!ReadsIInv, C!CallsTyped
<1>3. C!ToldWasSo'
  BY <1>1 DEF C!ReadsIInv, C!ToldWasSo
<1> QED
  BY <1>1, <1>2, <1>3, ViewStays DEF C!ReadsIInv

(* The reads of a call answer and fail in any order while the chain moves.  *)
THEOREM ReadsInvariance == MarketSpec => []ReadsInv
<1>1. MarketInit => ReadsInv
  BY ReadsInit DEF MarketInit, ReadsInv
<1>2. ReadsInv /\ [MarketNext]_marketVars => ReadsInv'
  <2> SUFFICES ASSUME ReadsInv, [MarketNext]_marketVars, part' = "clusters"
               PROVE  C!ReadsIInv'
    BY DEF ReadsInv
  <2>1. part = "clusters" /\ C!ReadsIInv
    BY DEF ReadsInv, MarketNext, marketVars
  <2>2. CASE MarketNext
    BY <2>1, <2>2, ReadsStep DEF MarketNext
  <2>3. CASE UNCHANGED marketVars
    BY <2>1, <2>3, ReadsUnchanged DEF marketVars, clusterVars, C!vars, C!chainVars
  <2> QED
    BY <2>2, <2>3
<1> QED
  BY <1>1, <1>2, PTL DEF MarketSpec

-----------------------------------------------------------------------------
(* What the answers may say.                                                *)
LEMMA Negations ==
    ASSUME NEW F \in SUBSET BOOLEAN
    PROVE  /\ {~v : v \in F} = {TRUE} => FALSE \in F
           /\ {~v : v \in F} = {FALSE} => TRUE \in F
           /\ F = {TRUE} => {~v : v \in F} = {FALSE}
           /\ F = {FALSE} => {~v : v \in F} = {TRUE}
           /\ F # {} /\ F # {FALSE} => TRUE \in F
           /\ F # {} /\ F # {TRUE} => FALSE \in F
<1>1. \A v \in F : v = TRUE \/ v = FALSE
  OBVIOUS
<1>2. ASSUME {~v : v \in F} = {TRUE} PROVE FALSE \in F
  <2>1. TRUE \in {~v : v \in F}
    BY <1>2
  <2>2. PICK v \in F : TRUE = ~v
    BY <2>1, Zenon
  <2>3. v = FALSE
    BY <1>1, <2>2, Zenon
  <2> QED
    BY <2>2, <2>3, Zenon
<1>3. ASSUME {~v : v \in F} = {FALSE} PROVE TRUE \in F
  <2>1. FALSE \in {~v : v \in F}
    BY <1>3
  <2>2. PICK v \in F : FALSE = ~v
    BY <2>1, Zenon
  <2>3. v = TRUE
    BY <1>1, <2>2, Zenon
  <2> QED
    BY <2>2, <2>3, Zenon
<1>4. F = {TRUE} => {~v : v \in F} = {FALSE}
  BY Zenon
<1>5. F = {FALSE} => {~v : v \in F} = {TRUE}
  BY Zenon
<1>6. F # {} /\ F # {FALSE} => TRUE \in F
  BY <1>1, Zenon
<1>7. F # {} /\ F # {TRUE} => FALSE \in F
  BY <1>1, Zenon
<1> QED
  BY <1>2, <1>3, <1>4, <1>5, <1>6, <1>7, Zenon

LEMMA LabelsHold == ASSUME C!ReadsIInv PROVE C!LabelsAreWarranted
<1> SUFFICES ASSUME readCall.answer = "ok", readCall.tool = "cluster_get",
                    NEW c \in readCall.cluster
             PROVE  LET labels == C!Labels(C!ShapeLiveCluster("reputation", "reputation", c))
                        about(label, k, v) ==
                          /\ label \in labels => v \in seen[<<k, c>>]
                          /\ label \notin labels =>
                                \/ (~v) \in seen[<<k, c>>]
                                \/ \E r \in DOMAIN told : r[1] = "reputation" /\ told[r] = {}
                                \/ k = "active" /\ c \notin Page
                    IN  /\ about("foundation_controlled", "independent", FALSE)
                        /\ about("inactive", "active", FALSE)
                        /\ about("below_threshold", "quorum", FALSE)
  BY DEF C!LabelsAreWarranted
<1> DEFINE record == C!ShapeLiveCluster("reputation", "reputation", c)
           labels == C!Labels(record)
           F(k) == C!Field("reputation", <<k, c>>)
           failing == \E r \in DOMAIN told : r[1] = "reputation" /\ told[r] = {}
<1>1. c \in Clusters /\ reads = {}
  BY DEF C!ReadsIInv, C!CallsTyped, C!CallRecord, C!AnswerFollows
<1>2. {C!Read("reputation", "status", c), C!Read("reputation", "entity", c),
       C!Directory("reputation")} \subseteq DOMAIN told
  <2>1. C!FirstReads \subseteq DOMAIN told
    BY <1>1 DEF C!ReadsIInv, C!ReadsAreAsked, C!Asked
  <2>2. C!FirstReads = (UNION {C!RecordReads("reputation", d) : d \in readCall.cluster})
                          \cup {C!Directory("reputation")}
    BY DEF C!FirstReads
  <2>3. C!RecordReads("reputation", c) \subseteq DOMAIN told
        /\ C!Directory("reputation") \in DOMAIN told
    BY <2>1, <2>2
  <2> QED
    BY <2>3 DEF C!RecordReads
<1>3. \A k \in {"active", "quorum", "independent"} :
         /\ F(k) \in SUBSET BOOLEAN /\ \A v \in F(k) : v \in seen[<<k, c>>]
         /\ failing \/ F(k) # {} \/ (k = "active" /\ c \notin Page)
  <2>1. \A k \in {"active", "quorum", "independent"} : <<k, c>> \in C!Cells
    BY <1>1, CellFacts
  <2>2. \A k \in {"active", "quorum", "independent"} :
           F(k) \in SUBSET BOOLEAN /\ \A v \in F(k) : v \in seen[<<k, c>>]
    BY <2>1, FieldFacts
  <2>3. failing \/ F("quorum") # {}
    <3> DEFINE r == C!Read("reputation", "status", c)
    <3>1. r[1] = "reputation" /\ <<"quorum", c>> \in C!CellsOf(r[2], r[3])
      BY DEF C!Read, C!CellsOf
    <3> QED
      BY <1>2, <2>1, <3>1, FieldFacts
  <2>4. failing \/ F("independent") # {}
    <3> DEFINE r == C!Read("reputation", "entity", c)
    <3>1. r[1] = "reputation" /\ <<"independent", c>> \in C!CellsOf(r[2], r[3])
      BY DEF C!Read, C!CellsOf
    <3> QED
      BY <1>2, <2>1, <3>1, FieldFacts
  <2>5. failing \/ F("active") # {} \/ c \notin Page
    <3> DEFINE r == C!Directory("reputation")
    <3>1. r[1] = "reputation" /\ C!CellsOf(r[2], r[3]) = {"active"} \X Page
      BY CellFacts DEF C!Read, C!Directory
    <3> QED
      BY <1>2, <2>1, <3>1, FieldFacts
  <2> QED
    BY <2>2, <2>3, <2>4, <2>5
<1>4. /\ record.foundationControlled = {~v : v \in F("independent")}
      /\ record.active = F("active") /\ record.quorumMet = F("quorum")
  BY DEF C!ShapeLiveCluster
<1>5. /\ "foundation_controlled" \in labels <=> record.foundationControlled = {TRUE}
      /\ "inactive" \in labels <=> record.active = {FALSE}
      /\ "below_threshold" \in labels <=> record.quorumMet = {FALSE}
  BY DEF C!Labels
<1> HIDE DEF labels, record, F, failing
<1>6. /\ "foundation_controlled" \in labels => FALSE \in F("independent")
      /\ "foundation_controlled" \notin labels =>
            F("independent") = {} \/ TRUE \in F("independent")
  <2>1. F("independent") \in SUBSET BOOLEAN
    BY <1>3
  <2> QED
    BY <1>4, <1>5, <2>1, Negations, Zenon
<1>7. /\ "inactive" \in labels => FALSE \in F("active")
      /\ "inactive" \notin labels => F("active") = {} \/ TRUE \in F("active")
  <2>1. F("active") \in SUBSET BOOLEAN
    BY <1>3
  <2> QED
    BY <1>4, <1>5, <2>1, Negations, Zenon
<1>8. /\ "below_threshold" \in labels => FALSE \in F("quorum")
      /\ "below_threshold" \notin labels => F("quorum") = {} \/ TRUE \in F("quorum")
  <2>1. F("quorum") \in SUBSET BOOLEAN
    BY <1>3
  <2> QED
    BY <1>4, <1>5, <2>1, Negations, Zenon
<1> DEFINE About(label, k) ==
             /\ label \in labels => FALSE \in seen[<<k, c>>]
             /\ label \notin labels =>
                   \/ TRUE \in seen[<<k, c>>] \/ failing
                   \/ k = "active" /\ c \notin Page
<1>9. About("foundation_controlled", "independent")
  BY <1>3, <1>6
<1>10. About("inactive", "active")
  BY <1>3, <1>7
<1>11. About("below_threshold", "quorum")
  BY <1>3, <1>8
<1> QED
  BY <1>9, <1>10, <1>11, Zenon DEF labels, record, failing

LEMMA Narrowed ==
    ASSUME NEW F, NEW S, F # {}, F \subseteq S, NEW w, S = {w}
    PROVE  F = {w}
  OBVIOUS

LEMMA SearchHolds == ASSUME C!ReadsIInv PROVE C!SearchIsHonest
<1> SUFFICES ASSUME readCall.answer = "ok", readCall.tool = "cluster_search",
                    NEW c \in Page
             PROVE  LET wanted(k, values) == values = {} \/ seen[<<k, c>>] = values
                        possible(k, values) == values \subseteq seen[<<k, c>>]
                        active == IF readCall.activeOnly THEN {TRUE} ELSE {}
                    IN  /\ c \in readCall.listed =>
                              /\ possible("active", active)
                              /\ possible("independent", readCall.independent)
                        /\ wanted("active", active) /\ wanted("independent", readCall.independent)
                            => \/ c \in readCall.listed
                               \/ \E r \in DOMAIN told : r[3] = c /\ told[r] = {}
                               \/ C!Cardinality(readCall.listed) = SearchLimit
  BY DEF C!SearchIsHonest
<1> DEFINE A == C!Field("search", <<"active", c>>)
           I == C!Field("entry", <<"independent", c>>)
           wish == readCall.independent
           active == IF readCall.activeOnly THEN {TRUE} ELSE {}
           missing == \E r \in DOMAIN told : r[3] = c /\ told[r] = {}
<1>1. /\ c \in Clusters /\ <<"active", c>> \in C!Cells /\ <<"independent", c>> \in C!Cells
  BY ReadsAssumption, CellFacts
<1>2. /\ reads = {} /\ readCall.stage = 2 /\ wish \in C!Wishes
      /\ readCall.listed \subseteq C!Hits
      /\ C!Cardinality(readCall.listed) = C!Min({SearchLimit, C!Cardinality(C!Hits)})
  BY DEF C!ReadsIInv, C!CallsTyped, C!CallRecord, C!AnswerFollows, C!LastStage
<1>3. C!FirstReads \subseteq DOMAIN told /\ C!SecondReads \subseteq DOMAIN told
  BY <1>2 DEF C!ReadsIInv, C!ReadsAreAsked, C!Asked
<1>4. A # {}
  <2> DEFINE r == C!Directory("search")
  <2>1. r \in DOMAIN told
    BY <1>3 DEF C!FirstReads
  <2>2. r[1] = "search" /\ C!Required(r) /\ C!CellsOf(r[2], r[3]) = {"active"} \X Page
    BY CellFacts DEF C!Directory, C!Read, C!Required
  <2>3. <<"active", c>> \in C!CellsOf(r[2], r[3])
    BY <2>2
  <2>4. told[r] # {}
    BY <2>1, <2>2, <2>3 DEF C!ReadsIInv, C!ReadsAreAsked
  <2> QED
    BY <1>1, <2>1, <2>2, <2>3, <2>4, FieldFacts
<1>5. c \in C!Listed
  BY <1>1, <1>4, ListedFacts
<1>6. missing \/ I # {}
  <2> DEFINE r == C!Read("entry", "entity", c)
  <2>1. C!RecordReads("entry", c) \subseteq C!SecondReads
    BY <1>5 DEF C!SecondReads
  <2>2. r \in DOMAIN told
    BY <1>3, <2>1 DEF C!RecordReads
  <2>3. r[1] = "entry" /\ r[3] = c /\ <<"independent", c>> \in C!CellsOf(r[2], r[3])
    BY DEF C!Read, C!CellsOf
  <2> QED
    BY <1>1, <2>2, <2>3, FieldFacts
<1>7. /\ A \in SUBSET BOOLEAN /\ A \subseteq seen[<<"active", c>>]
      /\ I \in SUBSET BOOLEAN /\ I \subseteq seen[<<"independent", c>>]
  BY <1>1, FieldFacts
<1>8. C!Matches(c) <=>
         /\ readCall.activeOnly => A = {TRUE}
         /\ wish # {} => {~v : v \in I} = {~v : v \in wish}
  BY DEF C!Matches, C!ShapeLiveCluster
<1> HIDE DEF A, I, missing
<1>9. ASSUME c \in readCall.listed
      PROVE  active \subseteq seen[<<"active", c>>] /\ wish \subseteq seen[<<"independent", c>>]
  <2>1. C!Matches(c)
    BY <1>2, <1>9 DEF C!Hits
  <2>2. active \subseteq seen[<<"active", c>>]
    BY <1>7, <1>8, <2>1
  <2>3. wish = {} \/ wish = {TRUE} \/ wish = {FALSE}
    BY <1>2 DEF C!Wishes
  <2> HIDE DEF wish
  <2>4. CASE wish = {TRUE}
    <3>1. wish # {} /\ wish \in SUBSET BOOLEAN
      BY <2>4, Zenon
    <3>2. {~v : v \in I} = {FALSE}
      BY <1>8, <2>1, <2>4, <3>1, Negations, Zenon
    <3>3. TRUE \in I
      BY <1>7, <3>2, Negations, Zenon
    <3>4. TRUE \in seen[<<"independent", c>>]
      BY <1>7, <3>3
    <3> QED
      BY <2>2, <2>4, <3>4, Zenon
  <2>5. CASE wish = {FALSE}
    <3>1. wish # {} /\ wish \in SUBSET BOOLEAN
      BY <2>5, Zenon
    <3>2. {~v : v \in I} = {TRUE}
      BY <1>8, <2>1, <2>5, <3>1, Negations, Zenon
    <3>3. FALSE \in I
      BY <1>7, <3>2, Negations, Zenon
    <3>4. FALSE \in seen[<<"independent", c>>]
      BY <1>7, <3>3
    <3> QED
      BY <2>2, <2>5, <3>4, Zenon
  <2> QED
    BY <2>2, <2>3, <2>4, <2>5, Zenon
<1>10. ASSUME active = {} \/ seen[<<"active", c>>] = active,
              wish = {} \/ seen[<<"independent", c>>] = wish
       PROVE  \/ c \in readCall.listed \/ missing
              \/ C!Cardinality(readCall.listed) = SearchLimit
  <2> SUFFICES ASSUME ~missing PROVE c \in readCall.listed
                                     \/ C!Cardinality(readCall.listed) = SearchLimit
    OBVIOUS
  <2>1. readCall.activeOnly => A = {TRUE}
    <3> SUFFICES ASSUME readCall.activeOnly PROVE A = {TRUE}
      OBVIOUS
    <3>1. active = {TRUE}
      OBVIOUS
    <3> HIDE DEF active
    <3> QED
      BY <1>4, <1>7, <1>10, <3>1, Narrowed
  <2>2. wish # {} => I = wish
    <3> SUFFICES ASSUME wish # {} PROVE I = wish
      OBVIOUS
    <3>1. \E w : wish = {w}
      BY <1>2 DEF C!Wishes
    <3> HIDE DEF wish
    <3> QED
      BY <1>6, <1>7, <1>10, <3>1, Narrowed
  <2>3. C!Matches(c)
    BY <1>8, <2>1, <2>2, Zenon
  <2>4. c \in C!Hits
    BY <1>5, <2>3 DEF C!Hits
  <2>5. IsFiniteSet(C!Hits)
    BY ListedFacts, ReadsAssumption, FS_Subset DEF C!Hits
  <2>6. Cardinality(C!Hits) \in Nat
    BY <2>5, FS_CardinalityType
  <2>7. \/ Cardinality(readCall.listed) = SearchLimit
        \/ Cardinality(readCall.listed) = Cardinality(C!Hits)
    BY <1>2, <2>6, SameCountsOfReads, ReadsAssumption DEF C!Min
  <2>8. CASE Cardinality(readCall.listed) = Cardinality(C!Hits)
    BY <1>2, <2>4, <2>5, <2>8, FS_Subset
  <2> QED
    BY <2>7, <2>8, SameCountsOfReads
<1> QED
  BY <1>9, <1>10, Zenon DEF missing

LEMMA NotFoundHolds == ASSUME C!ReadsIInv PROVE C!NotFoundIsHonest
<1> SUFFICES ASSUME readCall.answer = "not_found",
                    \A r \in DOMAIN told : told[r] # {} \/ r[2] = "info"
             PROVE  /\ FALSE \in seen[<<"registered", "operator">>]
                          \/ told[C!Read("operator", "info", "operator")] = {}
                    /\ \A c \in Page : FALSE \in seen[<<"member", c>>]
  BY DEF C!NotFoundIsHonest
<1>1. /\ reads = {} /\ readCall.tool = "operator_get" /\ readCall.stage = 2 /\ ~C!Found
  BY DEF C!ReadsIInv, C!AnswerFollows, C!LastStage
<1>2. C!FirstReads \subseteq DOMAIN told /\ C!SecondReads \subseteq DOMAIN told
  BY <1>1 DEF C!ReadsIInv, C!ReadsAreAsked, C!Asked
<1>3. /\ C!Read("operator", "info", "operator") \in DOMAIN told
      /\ C!Directory("operator") \in DOMAIN told
  BY <1>1, <1>2 DEF C!FirstReads
<1>4. FALSE \in seen[<<"registered", "operator">>]
         \/ told[C!Read("operator", "info", "operator")] = {}
  <2> DEFINE r == C!Read("operator", "info", "operator")
             x == <<"registered", "operator">>
             F == C!Field("operator", x)
  <2>1. r[1] = "operator" /\ x \in C!CellsOf(r[2], r[3]) /\ x \in C!Cells
    BY CellFacts DEF C!Read
  <2>2. F \in SUBSET BOOLEAN /\ F \subseteq seen[x] /\ (told[r] # {} => F # {})
    BY <1>3, <2>1, FieldFacts
  <2>3. F # {TRUE}
    BY <1>1 DEF C!Found
  <2> HIDE DEF F, x, r
  <2>4. told[r] = {} \/ FALSE \in F
    BY <2>2, <2>3, Negations, Zenon
  <2> QED
    BY <2>2, <2>4 DEF x, r
<1>5. ASSUME NEW c \in Page
      PROVE  FALSE \in seen[<<"member", c>>]
  <2> DEFINE r == C!Directory("operator")
             q == C!Read("roster", "status", c)
             x == <<"member", c>>
             F == C!Field("roster", x)
  <2>1. /\ c \in Clusters /\ <<"active", c>> \in C!Cells /\ x \in C!Cells
    BY ReadsAssumption, CellFacts
  <2>2. r[1] = "operator" /\ r[2] = "directory" /\ C!CellsOf(r[2], r[3]) = {"active"} \X Page
    BY CellFacts DEF C!Read, C!Directory
  <2>3. <<"active", c>> \in C!CellsOf(r[2], r[3])
    BY <2>2
  <2>4. told[r] # {}
    BY <1>3, <2>2
  <2>5. C!Field("operator", <<"active", c>>) # {}
    BY <1>3, <2>1, <2>2, <2>3, <2>4, FieldFacts
  <2>6. c \in C!Listed
    BY <2>1, <2>5, ListedFacts
  <2>7. q \in DOMAIN told
    BY <1>1, <1>2, <2>6 DEF C!SecondReads
  <2>8. q[1] = "roster" /\ q[2] = "status" /\ x \in C!CellsOf(q[2], q[3])
    BY DEF C!Read, C!CellsOf
  <2>9. F \in SUBSET BOOLEAN /\ F \subseteq seen[x] /\ F # {}
    BY <2>1, <2>7, <2>8, FieldFacts
  <2>10. F # {TRUE}
    BY <1>1, <2>1 DEF C!Found, C!Members
  <2> HIDE DEF F, x
  <2>11. FALSE \in F
    BY <2>9, <2>10, Negations, Zenon
  <2> QED
    BY <2>9, <2>11 DEF x
<1> QED
  BY <1>4, <1>5

(* A label, a hit and a "not found" are warranted by what was so while the  *)
(* call ran, or by a read that failed, for any number of clusters           *)
(* (clusters.ts: cluster_get, cluster_search, operator_get).                *)
THEOREM AnswersHonest == MarketSpec => []AnswersAreHonest
<1>1. ReadsInv => AnswersAreHonest
  BY LabelsHold, SearchHolds, NotFoundHolds DEF ReadsInv, AnswersAreHonest, C!AnswersAreHonest
<1> QED
  BY <1>1, ReadsInvariance, PTL

-----------------------------------------------------------------------------
(* Every key was drawn.                                                     *)
Within(n, m) == n \in K!FileKeys => n <= m
StoreWithin(s, m) ==
    \A i \in SecretIds, p \in K!Parts :
        s[i] # Null /\ s[i].sealed[p] # Null => Within(s[i].sealed[p].key, m)

LEMMA DrawnFacts ==
    /\ K!KeysWereDrawn <=>
          /\ Within(keyFile, keys) /\ StoreWithin(store, keys)
          /\ \A c \in Calls : /\ Within(sealCall[c].key, keys)
                              /\ sealCall[c].base # Null => StoreWithin(sealCall[c].base, keys)
    /\ K!KeysWereDrawn' <=>
          /\ Within(keyFile', keys') /\ StoreWithin(store', keys')
          /\ \A c \in Calls : /\ Within(sealCall'[c].key, keys')
                              /\ sealCall'[c].base # Null => StoreWithin(sealCall'[c].base, keys')
  BY DEF K!KeysWereDrawn, K!Drawn, K!SealsDrawn, Within, StoreWithin

LEMMA WithinGrows ==
    ASSUME NEW m \in Nat, NEW n \in Nat, m <= n
    PROVE  /\ \A k : Within(k, m) => Within(k, n)
           /\ \A s : StoreWithin(s, m) => StoreWithin(s, n)
<1>1. \A k : Within(k, m) => Within(k, n)
  BY Nulls DEF Within
<1> QED
  BY <1>1 DEF StoreWithin

(* A step of one call, from which the store stays.                          *)
LEMMA OneCallDraws ==
    ASSUME K!SealedIInv, K!KeysWereDrawn, NEW c \in Calls, NEW r,
           sealCall' = [sealCall EXCEPT ![c] = r], UNCHANGED store,
           keys' \in Nat, keys <= keys',
           Within(keyFile', keys'), Within(r.key, keys'),
           r.base \in {Null, sealCall[c].base, store}
    PROVE  K!KeysWereDrawn'
<1>1. keys \in Nat /\ \A d \in Calls : sealCall'[d] = IF d = c THEN r ELSE sealCall[d]
  BY SealedFacts, Nulls DEF K!FilesTyped
<1>2. StoreWithin(store, keys') /\ \A d \in Calls :
         /\ Within(sealCall[d].key, keys')
         /\ sealCall[d].base # Null => StoreWithin(sealCall[d].base, keys')
  BY <1>1, DrawnFacts, WithinGrows
<1>3. ASSUME NEW d \in Calls
      PROVE  /\ Within(sealCall'[d].key, keys')
             /\ sealCall'[d].base # Null => StoreWithin(sealCall'[d].base, keys')
  BY <1>1, <1>2
<1> QED
  BY <1>2, <1>3, DrawnFacts

LEMMA KeysStay ==
    ASSUME K!SealedIInv, K!KeysWereDrawn, NEW c \in Calls, UNCHANGED <<keyFile, keys>>
    PROVE  Within(keyFile', keys') /\ keys' \in Nat /\ keys <= keys'
<1>1. keys \in Nat
  BY SealedFacts, Nulls DEF K!FilesTyped
<1>2. Within(keyFile, keys)
  BY DrawnFacts
<1> QED
  BY <1>1, <1>2

LEMMA NullIsWithin == \A m : Within(Null, m)
  BY Nulls DEF Within

LEMMA EndedDraws ==
    ASSUME K!SealedIInv, K!KeysWereDrawn, NEW c \in Calls, NEW a, K!Ends(c, a),
           UNCHANGED <<keyFile, keys, store>>
    PROVE  K!KeysWereDrawn'
<1>1. K!Over(c, a).key = Null /\ K!Over(c, a).base = Null
  <2> DEFINE r == K!Over(c, a)
  <2>1. r = [K!Idle EXCEPT !.pc = "over", !.passphrase = sealCall[c].passphrase, !.answer = a]
    BY DEF K!Over
  <2> HIDE DEF r
  <2> QED
    BY <2>1 DEF K!Idle, r
<1>2. Within(keyFile', keys') /\ keys' \in Nat /\ keys <= keys'
  BY KeysStay
<1> QED
  BY <1>1, <1>2, NullIsWithin, OneCallDraws DEF K!Ends

LEMMA BegunDraws ==
    ASSUME K!SealedIInv, K!KeysWereDrawn, NEW c \in Calls, NEW t, NEW i \in SecretIds,
           NEW w \in Passphrases \cup {Null}, K!Begin(c, t, i, w)
    PROVE  K!KeysWereDrawn'
<1> DEFINE key == IF t = "create" THEN w ELSE Null
           stage == IF t \in K!KeyFirst /\ w = Null THEN "key" ELSE "store"
           r == [K!Idle EXCEPT !.task = t, !.id = i, !.passphrase = w, !.key = key, !.pc = stage]
<1>1. UNCHANGED <<keyFile, keys, store>> /\ sealCall' = [sealCall EXCEPT ![c] = r]
  BY DEF K!Begin, K!files, K!histories
<1>2. key \in Passphrases \cup {Null}
  OBVIOUS
<1> HIDE DEF key, stage
<1>3. r.key = key /\ r.base = Null
  BY DEF K!Idle
<1> HIDE DEF r
<1>4. Within(keyFile', keys') /\ keys' \in Nat /\ keys <= keys'
  BY <1>1, KeysStay
<1>5. Within(r.key, keys')
  BY <1>2, <1>3, Nulls DEF Within
<1> QED
  BY <1>1, <1>3, <1>4, <1>5, OneCallDraws

LEMMA KeysDraw ==
    ASSUME K!SealedIInv, K!KeysWereDrawn, NEW c \in Calls,
           K!ReadKey(c) \/ K!DrawKey(c) \/ K!FillKey(c)
    PROVE  K!KeysWereDrawn'
<1>1. /\ sealed \in SealedKinds /\ sealCall \in [Calls -> K!CallRecord(sealed)]
      /\ sealCall[c] \in K!CallRecord(sealed) /\ keys \in Nat
      /\ Within(keyFile, keys) /\ Within(sealCall[c].key, keys)
  BY SealedFacts, Nulls, DrawnFacts DEF K!FilesTyped
<1>2. CASE K!ReadKey(c)
  <2> DEFINE stage == IF keyFile = Null THEN "draw" ELSE K!AfterKey(c)
             r == Moved(sealCall[c], sealCall[c].base, keyFile, stage)
  <2>1. /\ UNCHANGED <<keyFile, keys, store>>
        /\ sealCall' = [sealCall EXCEPT ![c].key = keyFile, ![c].pc = stage]
    BY <1>2 DEF K!ReadKey, K!files
  <2> HIDE DEF stage
  <2>2. sealCall' = [sealCall EXCEPT ![c] = r]
    <3>1. r = [sealCall[c] EXCEPT !.key = keyFile, !.pc = stage]
      BY <1>1 DEF Moved, K!CallRecord
    <3> HIDE DEF r
    <3> QED
      BY <1>1, <2>1, <3>1
  <2>3. r.key = keyFile /\ r.base = sealCall[c].base
    BY <1>1, MovedFacts
  <2> HIDE DEF r
  <2>4. keys' \in Nat /\ keys <= keys' /\ Within(keyFile', keys') /\ Within(r.key, keys')
    BY <1>1, <2>1, <2>3
  <2> QED
    BY <2>1, <2>2, <2>3, <2>4, OneCallDraws
<1>3. CASE K!DrawKey(c)
  <2> DEFINE r == Moved(sealCall[c], sealCall[c].base, keys + 1, "fill")
  <2>1. /\ keys' = keys + 1 /\ keyFile' = 0 /\ UNCHANGED store
        /\ sealCall' = [sealCall EXCEPT ![c].key = keys + 1, ![c].pc = "fill"]
    BY <1>3 DEF K!DrawKey
  <2>2. sealCall' = [sealCall EXCEPT ![c] = r]
    <3>1. r = [sealCall[c] EXCEPT !.key = keys + 1, !.pc = "fill"]
      BY <1>1 DEF Moved, K!CallRecord
    <3> HIDE DEF r
    <3> QED
      BY <1>1, <2>1, <3>1
  <2>3. r.key = keys + 1 /\ r.base = sealCall[c].base
    BY <1>1, MovedFacts
  <2> HIDE DEF r
  <2>4. keys' \in Nat /\ keys <= keys' /\ Within(keyFile', keys') /\ Within(r.key, keys')
    BY <1>1, <2>1, <2>3 DEF Within
  <2> QED
    BY <2>1, <2>2, <2>3, <2>4, OneCallDraws
<1>4. CASE K!FillKey(c)
  <2> DEFINE r == Moved(sealCall[c], sealCall[c].base, sealCall[c].key, K!AfterKey(c))
  <2>1. /\ keyFile' = sealCall[c].key /\ UNCHANGED <<keys, store>>
        /\ sealCall' = [sealCall EXCEPT ![c].pc = K!AfterKey(c)]
    BY <1>4 DEF K!FillKey, K!Goes, K!histories
  <2>2. sealCall' = [sealCall EXCEPT ![c] = r]
    <3>1. r = [sealCall[c] EXCEPT !.pc = K!AfterKey(c)]
      BY <1>1, OneFieldMoves
    <3> HIDE DEF r
    <3> QED
      BY <1>1, <2>1, <3>1
  <2>3. r.key = sealCall[c].key /\ r.base = sealCall[c].base
    BY <1>1, MovedFacts
  <2> HIDE DEF r
  <2>4. keys' \in Nat /\ keys <= keys' /\ Within(keyFile', keys') /\ Within(r.key, keys')
    BY <1>1, <2>1, <2>3
  <2> QED
    BY <2>1, <2>2, <2>3, <2>4, OneCallDraws
<1> QED
  BY <1>2, <1>3, <1>4

LEMMA ReadsDraw ==
    ASSUME K!SealedIInv, K!KeysWereDrawn, NEW c \in Calls, K!ReadStore(c)
    PROVE  K!KeysWereDrawn'
<1> DEFINE w == sealCall[c].passphrase
           Read(key, stage) == Moved(sealCall[c], store, key, stage)
<1>1. /\ sealed \in SealedKinds /\ sealCall \in [Calls -> K!CallRecord(sealed)]
      /\ sealCall[c] \in K!CallRecord(sealed) /\ keys \in Nat
      /\ Within(keyFile, keys) /\ Within(sealCall[c].key, keys)
      /\ UNCHANGED <<keyFile, keys, store>>
  BY SealedFacts, Nulls, DrawnFacts DEF K!FilesTyped, K!ReadStore, K!files
<1>2. Within(w, keys)
  BY <1>1, CallFields, Nulls DEF Within
<1>3. \A key, stage : Read(key, stage).base = store /\ Read(key, stage).key = key
  BY <1>1, MovedFacts
<1>4. /\ \A stage : [sealCall EXCEPT ![c].base = store, ![c].pc = stage] =
                      [sealCall EXCEPT ![c] = Read(sealCall[c].key, stage)]
      /\ [sealCall EXCEPT ![c].base = store, ![c].key = w, ![c].pc = "open"] =
           [sealCall EXCEPT ![c] = Read(w, "open")]
  BY <1>1 DEF Moved, K!CallRecord
<1> HIDE DEF Read
<1>5. \/ \E a \in {"error", "missing"} : K!Ends(c, a)
      \/ \E stage \in {"write", "key", "open"} :
            sealCall' = [sealCall EXCEPT ![c].base = store, ![c].pc = stage]
      \/ sealCall' = [sealCall EXCEPT ![c].base = store, ![c].key = w, ![c].pc = "open"]
  BY ZenonT(60) DEF K!ReadStore
<1>6. ASSUME NEW key \in {sealCall[c].key, w}, NEW stage,
             sealCall' = [sealCall EXCEPT ![c] = Read(key, stage)]
      PROVE  K!KeysWereDrawn'
  <2>1. Within(Read(key, stage).key, keys') /\ Read(key, stage).base = store
    BY <1>1, <1>2, <1>3
  <2>2. keys' \in Nat /\ keys <= keys' /\ Within(keyFile', keys')
    BY <1>1
  <2> QED
    BY <1>1, <1>6, <2>1, <2>2, OneCallDraws
<1> QED
  BY <1>1, <1>4, <1>5, <1>6, EndedDraws

LEMMA OpensDraw ==
    ASSUME K!SealedIInv, K!KeysWereDrawn, NEW c \in Calls, K!Open(c)
    PROVE  K!KeysWereDrawn'
<1> DEFINE r == Moved(sealCall[c], sealCall[c].base, sealCall[c].key, "write")
<1>1. /\ sealed \in SealedKinds /\ sealCall \in [Calls -> K!CallRecord(sealed)]
      /\ sealCall[c] \in K!CallRecord(sealed) /\ keys \in Nat
      /\ Within(keyFile, keys) /\ Within(sealCall[c].key, keys)
      /\ UNCHANGED <<keyFile, keys, store>>
  BY SealedFacts, Nulls, DrawnFacts DEF K!FilesTyped, K!Open, K!files
<1>2. \/ \E a \in {"unreadable", "ok"} : K!Ends(c, a)
      \/ sealCall' = [sealCall EXCEPT ![c].pc = "write"]
  BY DEF K!Open, K!Goes
<1>3. [sealCall EXCEPT ![c].pc = "write"] = [sealCall EXCEPT ![c] = r]
  <2>1. r = [sealCall[c] EXCEPT !.pc = "write"]
    BY <1>1, OneFieldMoves
  <2> HIDE DEF r
  <2> QED
    BY <1>1, <2>1
<1>4. r.key = sealCall[c].key /\ r.base = sealCall[c].base
  BY <1>1, MovedFacts
<1> HIDE DEF r
<1>5. keys' \in Nat /\ keys <= keys' /\ Within(keyFile', keys') /\ Within(r.key, keys')
  BY <1>1, <1>4
<1> QED
  BY <1>1, <1>2, <1>3, <1>4, <1>5, OneCallDraws, EndedDraws

(* What is written is sealed with the key of the call or as it was read.    *)
LEMMA WritesDraw ==
    ASSUME K!SealedIInv, K!KeysWereDrawn, NEW c \in Calls, K!WriteStore(c)
    PROVE  K!KeysWereDrawn'
<1>1. /\ sealCall[c].pc = "write" /\ UNCHANGED <<sealed, keyFile, keys, keyRaced>>
      /\ \/ K!Ends(c, "error") /\ UNCHANGED <<store, accepted, storeOverlapped>>
         \/ \E r, given : Writes(c, r, given)
  BY WhatIsWritten
<1>2. CASE K!Ends(c, "error") /\ UNCHANGED <<store, accepted, storeOverlapped>>
  BY <1>1, <1>2, EndedDraws
<1>3. ASSUME NEW r, NEW given, Writes(c, r, given) PROVE K!KeysWereDrawn'
  <2> DEFINE base == sealCall[c].base
             i == sealCall[c].id
  <2>1. /\ sealed \in SealedKinds /\ sealCall \in [Calls -> K!CallRecord(sealed)]
        /\ sealCall[c] \in K!CallRecord(sealed)
        /\ K!HasKey(sealCall[c]) /\ K!AskedWell(sealed, sealCall[c])
        /\ keys' = keys /\ keyFile' = keyFile
    BY <1>1, SealedFacts
  <2>2. base \in K!Stores(sealed) /\ base # Null /\ i \in SecretIds
    BY <1>1, <2>1, CallFields DEF K!HasKey, K!AskedWell
  <2>3. \A j \in SecretIds : store'[j] = IF j = i THEN r ELSE base[j]
    BY <1>3, <2>2 DEF K!Stores, Writes
  <2>4. Within(keyFile, keys) /\ Within(sealCall[c].key, keys) /\ StoreWithin(base, keys)
    BY <2>2, DrawnFacts
  <2>5. ASSUME NEW p \in K!Parts, r # Null, r.sealed[p] # Null
        PROVE  Within(r.sealed[p].key, keys)
    <3>1. r \in K!Records(sealed) /\ K!Kept(r, p) = r.sealed[p]
      BY <1>3, <2>5 DEF Writes, WellWritten, K!Kept
    <3>2. CASE r.mode = "passphrase"
      <4>1. r.sealed[p] \in K!SealedBy(Passphrases)
        BY <2>1, <2>5, <3>1, <3>2, KeptFacts
      <4> QED
        BY <4>1, Nulls DEF K!SealedBy, Within
    <3>3. CASE r.mode # "passphrase"
      <4>1. KeyKept(c, r, p)
        BY <1>3, <2>5, <3>3 DEF Writes, WellWritten
      <4>2. K!Current(c) = base[i]
        BY DEF K!Current
      <4> HIDE DEF base, i
      <4> QED
        BY <2>2, <2>4, <4>1, <4>2 DEF KeyKept, StoreWithin
    <3> QED
      BY <3>2, <3>3
  <2> HIDE DEF base, i
  <2>6. StoreWithin(store', keys)
    <3> SUFFICES ASSUME NEW j \in SecretIds, NEW p \in K!Parts, store'[j] # Null,
                        store'[j].sealed[p] # Null
                 PROVE  Within(store'[j].sealed[p].key, keys)
      BY DEF StoreWithin
    <3>1. CASE j = i
      BY <2>3, <2>5, <3>1
    <3>2. CASE j # i
      BY <2>3, <2>4, <3>2 DEF StoreWithin
    <3> QED
      BY <3>1, <3>2
  <2>7. ASSUME NEW d \in Calls
        PROVE  /\ Within(sealCall'[d].key, keys)
               /\ sealCall'[d].base # Null => StoreWithin(sealCall'[d].base, keys)
    <3>1. CASE d = c
      <4>1. sealCall'[d] = K!Over(c, "ok")
        BY <1>3, <3>1 DEF Writes
      <4>2. K!Over(c, "ok").key = Null /\ K!Over(c, "ok").base = Null
        BY OverFacts DEF K!AskedWell
      <4> QED
        BY <4>1, <4>2, NullIsWithin
    <3>2. CASE d # c
      <4> DEFINE b == (sealCall[d].base # Null)
                 q == [sealCall[d] EXCEPT !.outdated = b]
      <4>1. sealCall'[d] = q /\ b \in BOOLEAN /\ sealCall[d] \in K!CallRecord(sealed)
        BY <1>3, <2>1, <3>2 DEF Writes
      <4> HIDE DEF b
      <4>2. q.key = sealCall[d].key /\ q.base = sealCall[d].base
        BY <2>1, <4>1, Outdated
      <4> HIDE DEF q
      <4> QED
        BY <4>1, <4>2, DrawnFacts
    <3> QED
      BY <3>1, <3>2
  <2> QED
    BY <2>1, <2>4, <2>6, <2>7, DrawnFacts
<1> QED
  BY <1>1, <1>2, <1>3

LEMMA DrawnStep ==
    ASSUME K!SealedIInv, K!KeysWereDrawn, K!Next
    PROVE  K!KeysWereDrawn'
<1>1. ASSUME NEW c \in Calls, K!Return(c) PROVE K!KeysWereDrawn'
  <2>1. UNCHANGED <<keyFile, keys, store>> /\ sealCall' = [sealCall EXCEPT ![c] = K!Idle]
    BY <1>1 DEF K!Return, K!files
  <2>2. K!Idle.key = Null /\ K!Idle.base = Null
    BY DEF K!Idle
  <2>3. keys' \in Nat /\ keys <= keys' /\ Within(keyFile', keys') /\ Within(K!Idle.key, keys')
    BY <1>1, <2>1, <2>2, NullIsWithin, KeysStay
  <2> QED
    BY <2>1, <2>2, <2>3, OneCallDraws
<1>2. ASSUME K!Dies PROVE K!KeysWereDrawn'
  <2>1. UNCHANGED <<keyFile, keys, store>> /\ \A c \in Calls : sealCall'[c] = K!Idle
    BY <1>2 DEF K!Dies, K!files
  <2>2. K!Idle.key = Null /\ K!Idle.base = Null
    BY DEF K!Idle
  <2> QED
    BY <2>1, <2>2, NullIsWithin, DrawnFacts
<1>3. ASSUME NEW c \in Calls, NEW t, NEW i \in SecretIds, NEW w \in Passphrases \cup {Null},
             K!Begin(c, t, i, w)
      PROVE  K!KeysWereDrawn'
  BY <1>3, BegunDraws
<1> QED
  BY <1>1, <1>2, <1>3, KeysDraw, ReadsDraw, OpensDraw, WritesDraw DEF K!Next

(* Every key in a file, or in the hands of a call, was drawn.               *)
LEMMA KeysDrawn == MarketSpec => []DrawnInv
<1>1. MarketInit => DrawnInv
  <2> SUFFICES ASSUME K!Init PROVE K!KeysWereDrawn
    BY DEF MarketInit, DrawnInv
  <2>1. keyFile = Null /\ (\A i \in SecretIds : store[i] = Null)
        /\ \A c \in Calls : sealCall[c].key = Null /\ sealCall[c].base = Null
    BY DEF K!Init, K!Idle
  <2> QED
    BY <2>1, NullIsWithin, DrawnFacts DEF StoreWithin
<1>2. SealedInv /\ DrawnInv /\ [MarketNext]_marketVars => DrawnInv'
  <2> SUFFICES ASSUME SealedInv, DrawnInv, [MarketNext]_marketVars, part' = "sealed"
               PROVE  K!KeysWereDrawn'
    BY DEF DrawnInv
  <2>1. part = "sealed" /\ K!SealedIInv /\ K!KeysWereDrawn
    BY DEF SealedInv, DrawnInv, MarketNext, marketVars
  <2>2. CASE MarketNext
    BY <2>1, <2>2, DrawnStep DEF MarketNext
  <2>3. CASE UNCHANGED marketVars
    <3>1. UNCHANGED <<keyFile, keys, store, sealCall>>
      BY <2>3 DEF marketVars, sealedVars
    <3> QED
      BY <2>1, <3>1, DrawnFacts
  <2> QED
    BY <2>2, <2>3
<1> QED
  BY <1>1, <1>2, SealedInvariance, PTL DEF MarketSpec

-----------------------------------------------------------------------------
LEMMA SeatTypes == V!SeatsIInv => V!TypeOK
<1> SUFFICES ASSUME V!SeatsIInv PROVE V!TypeOK
  OBVIOUS
<1>1. V!ScanFollows /\ V!ChainTyped /\ V!Height \in Nat
  BY SeatFacts DEF V!SeatsIInv, V!Height
<1>2. \A h \in 1..V!Height : log[h] \in V!LogEntry
  BY SeatFacts DEF V!Height
<1>3. ASSUME NEW l \in listing PROVE l.seat \in Seats /\ l.filled \in 0..SeatCount
  <2>1. scan = "listed" /\ listing \subseteq V!OpenSeats(batch) /\ head \in 0..V!Height
    BY <1>1, <1>3 DEF V!ScanFollows
  <2>2. \A k \in {"advertised", "filled"} : batch[k] = V!Decoded(k)
    BY <1>1, <2>1 DEF V!ScanFollows, V!EventKinds
  <2>3. /\ l.seat \in {e.seat : e \in batch["advertised"]}
        /\ l.filled = V!FilledCount(batch, l.seat) /\ l.filled < SeatCount
    BY <2>1 DEF V!OpenSeats, V!FoldSeatEvents
  <2>4. \A k, e : e \in V!Decoded(k) => e.seat \in Seats /\ e.filled \in 0..SeatCount
    <3> SUFFICES ASSUME NEW h \in V!FromBlock..head
                 PROVE  log[h].seat \in Seats /\ log[h].filled \in 0..SeatCount
      BY DEF V!Decoded, V!Event
    <3>1. h \in 1..V!Height
      BY <1>1, <2>1, SeatsAssumption DEF V!FromBlock
    <3> QED
      BY <1>2, <3>1 DEF V!LogEntry
  <2>5. l.filled \in 0..SeatCount
    <3> DEFINE S == {0} \cup {e.filled : e \in {x \in batch["filled"] : x.seat = l.seat}}
    <3>1. S \in SUBSET (0..SeatCount) /\ S # {} /\ SeatCount \in Nat
      BY <2>2, <2>4, SeatsAssumption
    <3>2. V!FilledCount(batch, l.seat) = V!Max(S)
      BY DEF V!FilledCount
    <3> HIDE DEF S
    <3>3. V!Max(S) \in S
      BY <3>1, LargestExists
    <3> QED
      BY <2>3, <3>1, <3>2, <3>3
  <2> QED
    BY <2>2, <2>3, <2>4, <2>5
<1>4. Len(market) = V!Height
  BY <1>1 DEF V!ChainTyped, V!Height
<1> QED
  BY <1>1, <1>2, <1>3, <1>4 DEF V!TypeOK, V!ScanFollows, V!LogEntry

-----------------------------------------------------------------------------
(* Delegations.  The total of the positions is their sum.                   *)
LEMMA TotalIsSum ==
    ASSUME NEW f \in [Delegates -> Nat]
    PROVE  D!TotalOf(f) = Sum(f, Delegates) /\ D!TotalOf(f) \in Nat
<1>1. D!TotalOf(f) = Fold(f, Delegates)[Delegates]
  <2>1. DOMAIN f = Delegates
    OBVIOUS
  <2> QED
    BY <2>1, Zenon
       DEF D!TotalOf, D!FoldFunction, D!FoldFunctionOnSet, D!MapThenFoldSet, Fold, Unfolds, Pick
<1>2. IsFiniteSet(Delegates)
  BY DelegationAssumption
<1> QED
  BY <1>1, <1>2, SumType DEF Sum

LEMMA DelegatesCount == \A A : D!Cardinality(A) = Cardinality(A)
  BY DEF Cardinality, D!Cardinality, IsFiniteSet, D!IsFiniteSet

LEMMA DelegationFacts ==
    ASSUME D!DelegationTypeOK
    PROVE  /\ delegated \in [Delegates -> Nat]
           /\ D!TotalOf(delegated) \in Nat
           /\ IsFiniteSet(candidates) /\ Cardinality(candidates) \in Nat
           /\ D!Cardinality(candidates) = Cardinality(candidates)
<1>1. delegated \in [Delegates -> Nat]
  BY DelegationAssumption DEF D!DelegationTypeOK
<1>2. IsFiniteSet(candidates)
  BY DelegationAssumption, FS_Subset DEF D!DelegationTypeOK
<1> QED
  BY <1>1, <1>2, TotalIsSum, DelegatesCount, FS_CardinalityType

LEMMA TargetType ==
    ASSUME D!DelegationTypeOK
    PROVE  D!Targets(delegated) \subseteq Int
<1> DEFINE n == Cardinality(candidates)
<1>1. candidates # {} => n \in Nat /\ n > 0
  BY DelegationFacts, FS_EmptySet
<1> QED
  BY <1>1, DelegationFacts DEF D!Targets

(* When the code may say of a stake that it is within its cap, and when it  *)
(* may say that it is not.                                                  *)
LEMMA CapFacts ==
    ASSUME NEW total \in Nat, NEW current \in Nat, NEW additional \in Nat, NEW selected \in Nat
    PROVE  LET answers == D!CapOk(total, current, additional, selected)
               stake == current + additional
           IN  /\ answers \subseteq BOOLEAN
               /\ TRUE \in answers <=>
                     selected >= MinimumClusters /\ 100 * stake <= CapPercent * total
               /\ FALSE \in answers <=>
                     \/ selected < MinimumClusters \/ 100 * stake > CapPercent * total
                     \/ stake > 0 /\ 100 * stake = CapPercent * total
<1> DEFINE stake == current + additional
           over == D!OverCap(total, stake)
           answers == D!CapOk(total, current, additional, selected)
           enough == selected >= MinimumClusters
<1>1. /\ stake \in Nat /\ CapPercent * total \in Nat /\ MinimumClusters \in Nat
      /\ enough \in BOOLEAN /\ (~enough <=> selected < MinimumClusters)
  BY DelegationAssumption
<1>2. /\ over \subseteq BOOLEAN
      /\ FALSE \in over <=> 100 * stake <= CapPercent * total
      /\ TRUE \in over <=> \/ 100 * stake > CapPercent * total
                           \/ stake > 0 /\ 100 * stake = CapPercent * total
  <2> DEFINE x == 100 * stake > CapPercent * total
  <2>1. CASE stake > 0 /\ 100 * stake = CapPercent * total
    <3>1. over = BOOLEAN
      BY <2>1 DEF D!OverCap
    <3>2. 100 * stake <= CapPercent * total
      BY <1>1, <2>1
    <3>3. over \subseteq BOOLEAN /\ FALSE \in over /\ TRUE \in over
      BY <3>1, Zenon
    <3> QED
      BY <2>1, <3>2, <3>3, Zenon
  <2>2. CASE ~(stake > 0 /\ 100 * stake = CapPercent * total)
    <3>1. over = {x}
      BY <2>2 DEF D!OverCap
    <3>2. x \in BOOLEAN /\ (x <=> ~(100 * stake <= CapPercent * total))
      BY <1>1
    <3>3. over \subseteq BOOLEAN /\ (FALSE \in over <=> ~x) /\ (TRUE \in over <=> x)
      <4> HIDE DEF x, over
      <4> QED
        BY <3>1, <3>2, Zenon
    <3> QED
      BY <2>2, <3>2, <3>3
  <2> QED
    BY <2>1, <2>2
<1>3. answers = {~o /\ enough : o \in over}
  BY DEF D!CapOk
<1> HIDE DEF over, answers, enough
<1>4. /\ answers \subseteq BOOLEAN
      /\ TRUE \in answers <=> enough /\ FALSE \in over
      /\ FALSE \in answers <=> (~enough /\ over # {}) \/ TRUE \in over
  <2>1. \A o \in over : o = TRUE \/ o = FALSE
    BY <1>2
  <2> QED
    BY <1>1, <1>3, <2>1, Zenon
<1>5. over # {}
  <2>1. 100 * stake <= CapPercent * total \/ 100 * stake > CapPercent * total
    BY <1>1
  <2> QED
    BY <1>2, <2>1, Zenon
<1>6. /\ TRUE \in answers <=> enough /\ 100 * stake <= CapPercent * total
      /\ FALSE \in answers <=>
            \/ ~enough \/ 100 * stake > CapPercent * total
            \/ stake > 0 /\ 100 * stake = CapPercent * total
  BY <1>2, <1>4, <1>5, Zenon
<1>7. ~enough <=> selected < MinimumClusters
  BY <1>1
<1> QED
  BY <1>4, <1>6, <1>7, Zenon DEF enough, answers

LEMMA SelectedFacts ==
    ASSUME NEW f
    PROVE  /\ D!Selected(f) \subseteq Delegates /\ IsFiniteSet(D!Selected(f))
           /\ Cardinality(D!Selected(f)) \in Nat
           /\ D!Cardinality(D!Selected(f)) = Cardinality(D!Selected(f))
<1>1. D!Selected(f) \subseteq Delegates
  BY DEF D!Selected
<1> QED
  BY <1>1, DelegationAssumption, DelegatesCount, FS_Subset, FS_CardinalityType

(* What the positions must be for the status to be able to be clean, and to *)
(* have to be.                                                              *)
LEMMA CleanFacts ==
    ASSUME NEW f \in [Delegates -> Nat]
    PROVE  LET n == Cardinality(D!Selected(f))
               T == D!TotalOf(f)
           IN  /\ D!MayBeClean(f) <=>
                     /\ n >= MinimumClusters /\ D!Selected(f) \subseteq known
                     /\ \A d \in Delegates : 100 * f[d] <= CapPercent * T
               /\ D!MustBeClean(f) <=>
                     /\ D!MayBeClean(f)
                     /\ \A d \in Delegates : f[d] > 0 => 100 * f[d] # CapPercent * T
<1> DEFINE n == Cardinality(D!Selected(f))
           T == D!TotalOf(f)
<1>1. n \in Nat /\ T \in Nat /\ D!Cardinality(D!Selected(f)) = n
  BY SelectedFacts, TotalIsSum
<1>2. ASSUME NEW d \in Delegates
      PROVE  /\ TRUE \in D!CapsOfStatus(f, d) <=>
                   n >= MinimumClusters /\ 100 * f[d] <= CapPercent * T
             /\ FALSE \in D!CapsOfStatus(f, d) <=>
                   \/ n < MinimumClusters \/ 100 * f[d] > CapPercent * T
                   \/ f[d] > 0 /\ 100 * f[d] = CapPercent * T
  <2>1. f[d] \in Nat /\ f[d] + 0 = f[d]
    OBVIOUS
  <2>2. D!CapsOfStatus(f, d) = D!CapOk(T, f[d], 0, n)
    BY <1>1 DEF D!CapsOfStatus
  <2> DEFINE stake == f[d]
  <2>3. stake \in Nat /\ stake + 0 = stake /\ 0 \in Nat
    BY <2>1
  <2> HIDE DEF n, T, stake
  <2>4. /\ TRUE \in D!CapOk(T, stake, 0, n) <=>
              n >= MinimumClusters /\ 100 * (stake + 0) <= CapPercent * T
        /\ FALSE \in D!CapOk(T, stake, 0, n) <=>
              \/ n < MinimumClusters \/ 100 * (stake + 0) > CapPercent * T
              \/ stake + 0 > 0 /\ 100 * (stake + 0) = CapPercent * T
    BY <1>1, <2>3, CapFacts
  <2>5. D!CapsOfStatus(f, d) = D!CapOk(T, stake, 0, n)
    BY <2>2 DEF stake
  <2>6. /\ TRUE \in D!CapsOfStatus(f, d) <=>
              n >= MinimumClusters /\ 100 * stake <= CapPercent * T
        /\ FALSE \in D!CapsOfStatus(f, d) <=>
              \/ n < MinimumClusters \/ 100 * stake > CapPercent * T
              \/ stake > 0 /\ 100 * stake = CapPercent * T
    BY <2>3, <2>4, <2>5
  <2> QED
    BY <2>6 DEF stake
<1>3. D!MayBeClean(f) <=>
         /\ n >= MinimumClusters /\ D!Selected(f) \subseteq known
         /\ \A d \in Delegates : 100 * f[d] <= CapPercent * T
  BY <1>1, <1>2 DEF D!MayBeClean
<1>4. D!MustBeClean(f) <=>
         D!MayBeClean(f) /\ \A d \in Delegates : f[d] > 0 => 100 * f[d] # CapPercent * T
  <2>1. D!MustBeClean(f) <=>
           D!MayBeClean(f) /\ \A d \in Delegates : FALSE \notin D!CapsOfStatus(f, d)
    BY DEF D!MustBeClean
  <2>2. ASSUME D!MayBeClean(f), NEW d \in Delegates
        PROVE  FALSE \in D!CapsOfStatus(f, d) <=> f[d] > 0 /\ 100 * f[d] = CapPercent * T
    <3>1. /\ 100 * f[d] <= CapPercent * T /\ n >= MinimumClusters
          /\ 100 * f[d] \in Nat /\ CapPercent * T \in Nat /\ MinimumClusters \in Nat
      BY <1>1, <1>3, <2>2, DelegationAssumption
    <3>2. ~(n < MinimumClusters) /\ ~(100 * f[d] > CapPercent * T)
      BY <1>1, <3>1
    <3>3. FALSE \in D!CapsOfStatus(f, d) <=>
             \/ n < MinimumClusters \/ 100 * f[d] > CapPercent * T
             \/ f[d] > 0 /\ 100 * f[d] = CapPercent * T
      BY <1>2
    <3> QED
      BY <3>2, <3>3, Zenon
  <2> QED
    BY <2>1, <2>2
<1> QED
  BY <1>3, <1>4

LEMMA DelegationInit == D!Init => D!DelegationIInv
<1> SUFFICES ASSUME D!Init PROVE D!DelegationIInv
  OBVIOUS
<1>1. candidates \subseteq known /\ known \subseteq Delegates
  BY DelegationAssumption DEF D!Init
<1>2. delegated \in [Delegates -> 0..MaxHeld] /\ plan = Null
  BY DelegationAssumption DEF D!Init
<1> QED
  BY <1>1, <1>2 DEF D!DelegationIInv, D!DelegationTypeOK, D!DraftFollows

LEMMA DraftMade ==
    ASSUME D!DelegationIInv, NEW c \in Delegates, NEW amount \in Deposits,
           D!DelegateDraft(c, amount) \/ D!UndelegateDraft(c, amount)
    PROVE  D!DelegationIInv'
<1>1. plan' \in D!Draft
  <2>1. CASE D!DelegateDraft(c, amount)
    <3>0. PICK ok \in D!DelegateCap(delegated, c, amount) :
             plan' = [op |-> "delegate", cluster |-> c, amount |-> amount, warned |-> ~ok,
                      current |-> TRUE]
      BY <2>1 DEF D!DelegateDraft
    <3> DEFINE w == ~ok
    <3>1. plan' = [op |-> "delegate", cluster |-> c, amount |-> amount, warned |-> w,
                   current |-> TRUE]
      BY <3>0
    <3>2. amount \in Int
      BY DelegationAssumption
    <3>3. w \in BOOLEAN
      BY Zenon
    <3> HIDE DEF w
    <3> QED
      BY <3>1, <3>2, <3>3 DEF D!Draft
  <2>2. CASE D!UndelegateDraft(c, amount)
    <3> DEFINE w == amount > delegated[c]
    <3>1. plan' = [op |-> "undelegate", cluster |-> c, amount |-> amount, warned |-> w,
                   current |-> TRUE]
      BY <2>2 DEF D!UndelegateDraft
    <3>2. amount \in Int
      BY DelegationAssumption
    <3>3. w \in BOOLEAN
      OBVIOUS
    <3> HIDE DEF w
    <3> QED
      BY <3>1, <3>2, <3>3 DEF D!Draft
  <2> QED
    BY <2>1, <2>2
<1>2. D!DelegationTypeOK'
  BY <1>1 DEF D!DelegateDraft, D!UndelegateDraft, D!DelegationIInv, D!DelegationTypeOK
<1>3. CASE D!DelegateDraft(c, amount)
  <2>0. PICK ok \in D!DelegateCap(delegated, c, amount) :
           plan' = [op |-> "delegate", cluster |-> c, amount |-> amount, warned |-> ~ok,
                    current |-> TRUE]
    BY <1>3 DEF D!DelegateDraft
  <2>1. /\ plan'.cluster = c /\ plan'.amount = amount /\ plan'.warned = ~ok
        /\ delegated' = delegated /\ known' = known /\ c \in known
    BY <1>3, <2>0 DEF D!DelegateDraft
  <2>3. ok \in BOOLEAN
    BY DEF D!DelegateCap, D!CapOk
  <2>4. (~plan'.warned) = ok
    BY <2>1, <2>3, Zenon
  <2>5. D!DelegateCap(delegated, c, amount)' = D!DelegateCap(delegated, c, amount)
    BY <2>1 DEF D!DelegateCap
  <2>2. D!DraftFollows'
    BY <2>0, <2>1, <2>4, <2>5 DEF D!DraftFollows, D!DelegateCap
  <2> QED
    BY <1>2, <2>2 DEF D!DelegationIInv
<1>4. CASE D!UndelegateDraft(c, amount)
  <2>1. plan'.op # "delegate"
    BY <1>4 DEF D!UndelegateDraft
  <2> QED
    BY <1>2, <2>1 DEF D!DelegationIInv, D!DraftFollows
<1> QED
  BY <1>3, <1>4

LEMMA RebalanceMade ==
    ASSUME D!DelegationIInv, D!RebalanceDraft
    PROVE  D!DelegationIInv'
<1>1. plan' \in D!Draft /\ plan'.op # "delegate"
  <2>1. PICK target \in D!Targets(delegated) :
           plan' = [op |-> "rebalance", cluster |-> Null, amount |-> target,
                    warned |-> D!TotalOf(delegated) = 0, current |-> TRUE]
    BY DEF D!RebalanceDraft
  <2>2. target \in Int
    BY TargetType DEF D!DelegationIInv
  <2> QED
    BY <2>1, <2>2 DEF D!Draft
<1> QED
  BY <1>1 DEF D!RebalanceDraft, D!DelegationIInv, D!DelegationTypeOK, D!DraftFollows

LEMMA CarriedOut ==
    ASSUME D!DelegationIInv, D!CarriesOut
    PROVE  D!DelegationIInv'
<1>1. delegated' \in [Delegates -> 0..MaxHeld] /\ known' = known /\ candidates' = candidates
  BY DEF D!CarriesOut, D!Changes, D!DelegationIInv, D!DelegationTypeOK
<1>2. plan' = Null
  BY DEF D!CarriesOut
<1> QED
  BY <1>1, <1>2 DEF D!DelegationIInv, D!DelegationTypeOK, D!DraftFollows

LEMMA PositionsChanged ==
    ASSUME D!DelegationIInv, NEW c \in Delegates, NEW amount \in Deposits,
           D!PositionsChange(c, amount)
    PROVE  D!DelegationIInv'
<1>1. delegated' \in [Delegates -> 0..MaxHeld] /\ known' = known /\ candidates' = candidates
  BY DEF D!PositionsChange, D!Changes, D!DelegationIInv, D!DelegationTypeOK
<1>2. plan' = IF plan = Null THEN Null ELSE [plan EXCEPT !.current = FALSE]
  BY DEF D!PositionsChange
<1>3. CASE plan = Null
  BY <1>1, <1>2, <1>3 DEF D!DelegationIInv, D!DelegationTypeOK, D!DraftFollows
<1>4. CASE plan # Null
  <2>1. plan \in D!Draft
    BY <1>4 DEF D!DelegationIInv, D!DelegationTypeOK
  <2>2. /\ plan' \in D!Draft /\ ~plan'.current
        /\ plan'.op = plan.op /\ plan'.cluster = plan.cluster
    BY <1>2, <1>4, <2>1 DEF D!Draft
  <2> QED
    BY <1>1, <1>4, <2>2 DEF D!DelegationIInv, D!DelegationTypeOK, D!DraftFollows
<1> QED
  BY <1>3, <1>4

LEMMA DelegationStep ==
    ASSUME D!DelegationIInv, D!Next
    PROVE  D!DelegationIInv'
  BY DraftMade, RebalanceMade, CarriedOut, PositionsChanged DEF D!Next

LEMMA DelegationUnchanged ==
    ASSUME D!DelegationIInv, UNCHANGED delegationVars
    PROVE  D!DelegationIInv'
  BY DEF delegationVars, D!DelegationIInv, D!DelegationTypeOK, D!DraftFollows, D!DelegateCap

(* Drafts, their executions and positions that change without a draft keep  *)
(* a current draft true to the caps.                                        *)
THEOREM DelegationInvariance == MarketSpec => []DelegationInv
<1>1. MarketInit => DelegationInv
  BY DelegationInit DEF MarketInit, DelegationInv
<1>2. DelegationInv /\ [MarketNext]_marketVars => DelegationInv'
  <2> SUFFICES ASSUME DelegationInv, [MarketNext]_marketVars, part' = "delegation"
               PROVE  D!DelegationIInv'
    BY DEF DelegationInv
  <2>1. part = "delegation" /\ D!DelegationIInv
    BY DEF DelegationInv, MarketNext, marketVars
  <2>2. CASE MarketNext
    BY <2>1, <2>2, DelegationStep DEF MarketNext
  <2>3. CASE UNCHANGED marketVars
    BY <2>1, <2>3, DelegationUnchanged DEF marketVars
  <2> QED
    BY <2>2, <2>3
<1> QED
  BY <1>1, <1>2, PTL DEF MarketSpec

-----------------------------------------------------------------------------
(* What the caps say of a draft, and of the positions it leads to.          *)
(* A draft to delegate looks at the cluster it is about; the caps of the    *)
(* others only widen.                                                       *)
LEMMA DelegateIsHonest ==
    ASSUME D!DelegationIInv, plan.current, plan # Null, plan.op = "delegate",
           D!CarriesOut, D!MayBeClean(delegated)
    PROVE  IF plan.warned THEN ~D!MustBeClean(delegated') ELSE D!MayBeClean(delegated')
<1> DEFINE c == plan.cluster
           a == plan.amount
           f == delegated'
           T == D!TotalOf(delegated)
           S == D!Selected(delegated)
<1>1. /\ c \in known /\ c \in Delegates /\ a \in Nat /\ plan.warned \in BOOLEAN
      /\ (~plan.warned) \in D!DelegateCap(delegated, c, a)
  BY DelegationAssumption DEF D!DelegationIInv, D!DelegationTypeOK, D!DraftFollows, D!Draft
<1>2. delegated \in [Delegates -> Nat] /\ T \in Nat
  BY DelegationFacts DEF D!DelegationIInv
<1>3. /\ f \in [Delegates -> Nat] /\ f[c] = delegated[c] + a
      /\ \A d \in Delegates \ {c} : f[d] = delegated[d]
  BY <1>1, <1>2 DEF D!CarriesOut, D!Changes
<1>4. D!TotalOf(f) = T + a
  <2>1. Sum(f, Delegates) + delegated[c] = Sum(delegated, Delegates) + f[c]
    BY <1>1, <1>2, <1>3, DelegationAssumption, SumChanges
  <2>2. delegated[c] \in Nat /\ D!TotalOf(f) = Sum(f, Delegates) /\ T = Sum(delegated, Delegates)
        /\ D!TotalOf(f) \in Nat
    BY <1>1, <1>2, <1>3, TotalIsSum
  <2> QED
    BY <1>1, <1>2, <1>3, <2>1, <2>2
<1>5. /\ CapPercent * (T + a) = CapPercent * T + CapPercent * a
      /\ CapPercent * T \in Nat /\ CapPercent * a \in Nat
  BY <1>1, <1>2, DelegationAssumption
<1>6. /\ S \subseteq Delegates /\ IsFiniteSet(S) /\ Cardinality(S) \in Nat
      /\ D!Cardinality(S \cup {c}) = Cardinality(S \cup {c})
  BY SelectedFacts, DelegatesCount
<1>7. /\ Cardinality(S) >= MinimumClusters /\ S \subseteq known
      /\ \A d \in Delegates : 100 * delegated[d] <= CapPercent * T
  BY <1>2, CleanFacts
<1>8. Cardinality(S \cup {c}) \in Nat /\ Cardinality(S \cup {c}) >= Cardinality(S)
  <2>1. Cardinality(S \cup {c}) = IF c \in S THEN Cardinality(S) ELSE Cardinality(S) + 1
    BY <1>6, FS_AddElement
  <2> QED
    BY <1>6, <2>1
<1>9. /\ ~plan.warned => 100 * f[c] <= CapPercent * (T + a)
      /\ plan.warned => \/ 100 * f[c] > CapPercent * (T + a)
                        \/ f[c] > 0 /\ 100 * f[c] = CapPercent * (T + a)
  <2> DEFINE n == Cardinality(S \cup {c})
             b == delegated[c]
  <2>1. D!DelegateCap(delegated, c, a) = D!CapOk(T + a, b, a, n)
    BY <1>6 DEF D!DelegateCap
  <2>2. n \in Nat /\ n >= MinimumClusters /\ b \in Nat /\ T + a \in Nat /\ f[c] = b + a
        /\ MinimumClusters \in Nat /\ a \in Nat
    BY <1>1, <1>2, <1>3, <1>6, <1>7, <1>8, DelegationAssumption
  <2> HIDE DEF n, b, f, c, a, T
  <2>3. ~plan.warned => TRUE \in D!CapOk(T + a, b, a, n)
    BY <1>1, <2>1
  <2>4. plan.warned => FALSE \in D!CapOk(T + a, b, a, n)
    BY <1>1, <2>1
  <2>5. /\ TRUE \in D!CapOk(T + a, b, a, n) =>
              100 * (b + a) <= CapPercent * (T + a)
        /\ FALSE \in D!CapOk(T + a, b, a, n) =>
              \/ n < MinimumClusters \/ 100 * (b + a) > CapPercent * (T + a)
              \/ b + a > 0 /\ 100 * (b + a) = CapPercent * (T + a)
    <3> DEFINE total == T + a
    <3>1. total \in Nat /\ a \in Nat /\ b \in Nat /\ n \in Nat
      BY <2>2
    <3> HIDE DEF total
    <3>3. /\ TRUE \in D!CapOk(total, b, a, n) <=>
                n >= MinimumClusters /\ 100 * (b + a) <= CapPercent * total
          /\ FALSE \in D!CapOk(total, b, a, n) <=>
                \/ n < MinimumClusters \/ 100 * (b + a) > CapPercent * total
                \/ b + a > 0 /\ 100 * (b + a) = CapPercent * total
      BY <3>1, CapFacts
    <3>2. /\ TRUE \in D!CapOk(total, b, a, n) =>
                100 * (b + a) <= CapPercent * total
          /\ FALSE \in D!CapOk(total, b, a, n) =>
                \/ n < MinimumClusters \/ 100 * (b + a) > CapPercent * total
                \/ b + a > 0 /\ 100 * (b + a) = CapPercent * total
      BY <3>3, Zenon
    <3> QED
      BY <3>2 DEF total
  <2>6. ~(n < MinimumClusters)
    BY <2>2
  <2>7. /\ ~plan.warned => 100 * (b + a) <= CapPercent * (T + a)
        /\ plan.warned => \/ 100 * (b + a) > CapPercent * (T + a)
                          \/ b + a > 0 /\ 100 * (b + a) = CapPercent * (T + a)
    BY <2>3, <2>4, <2>5, <2>6, Zenon
  <2> QED
    BY <2>2, <2>7
<1>10. D!Selected(f) = IF a = 0 THEN S ELSE S \cup {c}
  BY <1>1, <1>2, <1>3 DEF D!Selected
<1>11. Cardinality(D!Selected(f)) >= MinimumClusters /\ D!Selected(f) \subseteq known
  BY <1>1, <1>6, <1>7, <1>8, <1>10, DelegationAssumption
<1>12. \A d \in Delegates \ {c} : 100 * f[d] <= CapPercent * (T + a)
  <2> TAKE d \in Delegates \ {c}
  <2>1. f[d] = delegated[d] /\ delegated[d] \in Nat /\ 100 * delegated[d] <= CapPercent * T
    BY <1>2, <1>3, <1>7
  <2> QED
    BY <1>5, <2>1
<1>13. CASE ~plan.warned
  <2>1. \A d \in Delegates : 100 * f[d] <= CapPercent * (T + a)
    BY <1>9, <1>12, <1>13
  <2> QED
    BY <1>3, <1>4, <1>11, <1>13, <2>1, CleanFacts
<1>14. CASE plan.warned
  <2>1. 100 * f[c] \in Nat /\ CapPercent * (T + a) \in Nat
    BY <1>1, <1>3, <1>5
  <2> HIDE DEF f, T, a
  <2>2. D!MustBeClean(f) => /\ 100 * f[c] <= CapPercent * (T + a)
                            /\ f[c] > 0 => 100 * f[c] # CapPercent * (T + a)
    BY <1>1, <1>3, <1>4, CleanFacts
  <2>3. ~D!MustBeClean(f)
    BY <1>9, <1>14, <2>1, <2>2
  <2> QED
    BY <1>14, <2>3 DEF f
<1> QED
  BY <1>13, <1>14

(* The same on each of enough clusters is within the cap on each.           *)
LEMMA RebalanceIsHonest ==
    ASSUME D!DelegationIInv, plan # Null, plan.op = "rebalance", D!CarriesOut,
           D!Selected(delegated) \subseteq candidates,
           D!Cardinality(candidates) >= MinimumClusters, plan.amount > 0
    PROVE  /\ D!MayBeClean(delegated')
           /\ CapPercent * D!Cardinality(candidates) > 100 => D!MustBeClean(delegated')
<1> DEFINE t == plan.amount
           f == delegated'
           n == Cardinality(candidates)
<1>1. /\ delegated \in [Delegates -> Nat] /\ t \in Nat /\ t > 0
      /\ candidates \subseteq known /\ candidates \in SUBSET Delegates
      /\ n \in Nat /\ n >= MinimumClusters
  BY DelegationFacts DEF D!DelegationIInv, D!DelegationTypeOK, D!Draft
<1>2. f = [c \in Delegates |-> IF c \in candidates THEN t ELSE delegated[c]]
  BY DEF D!CarriesOut, D!Changes
<1>3. \A c \in Delegates \ candidates : delegated[c] = 0
  BY <1>1 DEF D!Selected
<1>4. /\ f \in [Delegates -> Nat]
      /\ \A c \in candidates : f[c] = t
      /\ \A c \in Delegates \ candidates : f[c] = 0
  BY <1>1, <1>2, <1>3
<1>5. D!TotalOf(f) = t * n
  <2>1. IsFiniteSet(Delegates) /\ IsFiniteSet(candidates) /\ IsFiniteSet(Delegates \ candidates)
    BY <1>1, DelegationAssumption, FS_Subset
  <2> HIDE DEF f, t, n
  <2>2. Sum(f, Delegates) = Sum(f, candidates) + Sum(f, Delegates \ candidates)
    BY <1>1, <1>4, <2>1, SumUnion
  <2>3. Sum(f, candidates) = t * Cardinality(candidates)
    BY <1>1, <1>4, <2>1, SumOfEqual
  <2>4. Sum(f, Delegates \ candidates) = 0 * Cardinality(Delegates \ candidates)
    BY <1>4, <2>1, SumOfEqual
  <2>5. Cardinality(Delegates \ candidates) \in Nat /\ t * n \in Nat
    BY <1>1, <2>1, FS_CardinalityType
  <2> QED
    BY <1>4, <2>2, <2>3, <2>4, <2>5, TotalIsSum DEF n
<1>6. D!Selected(f) = candidates
  BY <1>1, <1>4 DEF D!Selected
<1>7. D!Cardinality(candidates) >= MinimumClusters /\ candidates \subseteq known
  BY <1>1
<1>8. 100 <= CapPercent * n
  <2> DEFINE m == MinimumClusters
  <2>1. m \in Nat /\ CapPercent \in Nat /\ 100 <= CapPercent * m
    BY DelegationAssumption
  <2>2. PICK k \in Nat : n = m + k
    BY <1>1, <2>1
  <2>3. CapPercent * n = CapPercent * m + CapPercent * k
    BY <2>1, <2>2
  <2>4. CapPercent * k \in Nat /\ CapPercent * m \in Nat
    BY <2>1
  <2> HIDE DEF n, m
  <2> QED
    BY <2>1, <2>3, <2>4
<1>9. /\ CapPercent * (t * n) \in Nat /\ 100 * t <= CapPercent * (t * n)
      /\ CapPercent * n > 100 => 100 * t < CapPercent * (t * n)
  <2> DEFINE x == CapPercent * n
  <2>1. x \in Nat /\ 100 <= x
    BY <1>1, <1>8, DelegationAssumption
  <2>2. CapPercent * (t * n) = t * x
    BY <1>1, DelegationAssumption
  <2>3. PICK k \in Nat : x = 100 + k
    BY <2>1
  <2>4. t * x = 100 * t + t * k /\ t * k \in Nat /\ (k > 0 => t * k > 0)
    BY <1>1, <2>3
  <2> HIDE DEF x
  <2>5. /\ CapPercent * (t * n) \in Nat /\ 100 * t <= CapPercent * (t * n)
        /\ x > 100 => 100 * t < CapPercent * (t * n)
    BY <1>1, <2>2, <2>3, <2>4
  <2> QED
    BY <2>5 DEF x
<1>10. D!Cardinality(candidates) = n
  BY DelegatesCount
<1> HIDE DEF n, t, f
<1>11. \A c \in Delegates :
          /\ 100 * f[c] <= CapPercent * (t * n)
          /\ CapPercent * n > 100 /\ f[c] > 0 => 100 * f[c] # CapPercent * (t * n)
  <2> TAKE c \in Delegates
  <2>1. CASE c \in candidates
    BY <1>1, <1>4, <1>9, <2>1
  <2>2. CASE c \notin candidates
    BY <1>1, <1>4, <1>9, <2>2
  <2> QED
    BY <2>1, <2>2
<1>12. D!MayBeClean(f)
  BY <1>1, <1>4, <1>5, <1>6, <1>11, CleanFacts DEF n
<1>13. CapPercent * n > 100 => D!MustBeClean(f)
  BY <1>4, <1>5, <1>11, <1>12, CleanFacts
<1> QED
  BY <1>10, <1>12, <1>13 DEF f

(* Carrying out a draft does what the draft said of it, but for positions   *)
(* that come to stand exactly at their cap (explainDelegationCaps,          *)
(* rebalanceDraft).                                                         *)
THEOREM DraftsHonest == MarketSpec => DraftsAreHonest
<1> DEFINE Honest ==
              /\ (plan.op = "delegate" /\ D!MayBeClean(delegated)) =>
                    IF plan.warned THEN ~D!MustBeClean(delegated')
                    ELSE D!MayBeClean(delegated')
              /\ (plan.op = "rebalance" /\ D!Selected(delegated) \subseteq candidates
                    /\ D!Cardinality(candidates) >= MinimumClusters /\ plan.amount > 0) =>
                    /\ D!MayBeClean(delegated')
                    /\ CapPercent * D!Cardinality(candidates) > 100 => D!MustBeClean(delegated')
<1>1. ASSUME DelegationInv, [MarketNext]_marketVars, D!CarriesOut /\ plan.current,
             ~UNCHANGED delegationVars
      PROVE  Honest
  <2>1. D!DelegationIInv
    BY <1>1 DEF DelegationInv, MarketNext, marketVars
  <2>2. plan # Null
    BY <1>1 DEF D!CarriesOut
  <2> QED
    BY <1>1, <2>1, <2>2, DelegateIsHonest, RebalanceIsHonest
<1>2. DelegationInv /\ [MarketNext]_marketVars =>
        [(D!CarriesOut /\ plan.current) => Honest]_delegationVars
  BY <1>1
<1> QED
  BY <1>2, DelegationInvariance, PTL DEF MarketSpec, DraftsAreHonest, D!DraftsAreHonest, D!delegationVars, delegationVars

-----------------------------------------------------------------------------
(* The stores of orders, bookings and invoices are what CommerceStores says *)
(* they are, whatever part a behaviour is about.                            *)
THEOREM CommerceInMarket == MarketSpec => Spec
<1>1. MarketInit => Init
  BY DEF MarketInit, CommerceRests
<1>2. [MarketNext]_marketVars => [Next]_vars
  BY DEF MarketNext, marketVars
<1> QED
  BY <1>1, <1>2, PTL DEF MarketSpec, Spec

LEMMA GateTypes == GateInv => G!TypeOK
<1> SUFFICES ASSUME G!GateIInv PROVE G!TypeOK
  BY DEF GateInv
<1>1. \A v \in Vendors : policies[v] = Null \/ G!IsPolicy(policies[v])
  <2> SUFFICES ASSUME NEW v \in Vendors, policies[v] # Null PROVE G!IsPolicy(policies[v])
    OBVIOUS
  <2>1. policies[v] \in G!Policy /\ G!Cardinality(policies[v].max) <= 1
    BY DEF G!GateIInv, G!CallsTyped, G!File
  <2>2. DOMAIN policies[v] = DOMAIN G!DefaultPolicy
    BY <2>1 DEF G!Policy, G!DefaultPolicy
  <2> QED
    BY <2>1, <2>2 DEF G!Policy, G!IsPolicy
<1>2. \A c \in Calls : gatePc[c] = "idle" <=> gateTask[c] = Null
  BY DEF G!GateIInv, G!AskedAndRead
<1>3. \A t \in OrderTasks : G!IsOrderTask(t)
  BY GateAssumption
<1> QED
  BY <1>1, <1>2, <1>3 DEF G!GateIInv, G!CallsTyped, G!TypeOK

LEMMA WalletTypes == H!HotIInv => H!WalletTypeOK
<1> SUFFICES ASSUME H!HotIInv PROVE H!WalletTypeOK
  OBVIOUS
<1>1. /\ wallet \in H!WalletRecord /\ transfer \in H!Transfer
      /\ pauseHeld \in {"no", "returned", "alone"}
      /\ transfer.stage \in H!Signed <=> transfer.mode \in {"passphrase", "low_value"}
  BY DEF H!HotIInv, H!HotTyped
<1>2. ~wallet.low => wallet.max = 0 /\ wallet.daily = {}
  BY DEF H!HotIInv, H!DraftsAreRecords, H!WithoutPolicyEmpty
<1> QED
  BY <1>1, <1>2 DEF H!WalletTypeOK, H!WalletRecord, H!Transfer

LEMMA ReadTypes == C!ReadsIInv => C!ReadsTypeOK
  BY DEF C!ReadsIInv, C!CallsTyped, C!ToldWasSo, C!ReadsTypeOK, C!CallRecord

LEMMA SealedTypes == K!SealedIInv /\ K!KeysWereDrawn => K!SealedTypeOK
<1> SUFFICES ASSUME K!SealedIInv, K!KeysWereDrawn PROVE K!SealedTypeOK
  OBVIOUS
<1>1. /\ sealed \in SealedKinds /\ keyFile \in K!FileKeys \cup {Null} /\ keys \in K!FileKeys
      /\ store \in K!Stores(sealed)
  BY DEF K!SealedIInv, K!FilesTyped, SealedKinds
<1>2. \A n \in K!FileKeys : Within(n, keys) => n \in 0..keys
  BY SecretsAssumption DEF Within, K!FileKeys
<1>3. keyFile \in {Null} \cup 0..keys /\ keys \in 0..MaxKeys
  BY <1>1, <1>2, DrawnFacts DEF K!FileKeys
<1>4. ASSUME NEW i \in SecretIds, store[i] # Null
      PROVE  /\ store[i].mode \in {"local", "passphrase", "secret", "none"}
             /\ \A p \in K!Parts : store[i].sealed[p] # Null =>
                   /\ store[i].sealed[p].key \in 0..keys \cup Passphrases
                   /\ store[i].sealed[p].secret \in Secrets
  <2>1. store[i] \in K!Records(sealed)
    BY <1>1, <1>4 DEF K!Stores
  <2>2. ASSUME NEW p \in K!Parts, store[i].sealed[p] # Null
        PROVE  /\ store[i].sealed[p].key \in 0..keys \cup Passphrases
               /\ store[i].sealed[p].secret \in Secrets
    <3>1. /\ store[i].mode # "passphrase" => store[i].sealed[p] \in K!SealedBy(K!FileKeys)
          /\ store[i].mode = "passphrase" => store[i].sealed[p] \in K!SealedBy(Passphrases)
      BY <1>1, <1>4, <2>1, <2>2, KeptFacts DEF K!Kept
    <3>2. Within(store[i].sealed[p].key, keys)
      BY <1>4, <2>2, DrawnFacts DEF StoreWithin
    <3> QED
      BY <1>2, <3>1, <3>2 DEF K!SealedBy
  <2> QED
    BY <1>1, <2>1, <2>2, RecordFacts
<1>5. \A c \in Calls : sealCall[c].answer \in {"none", "ok", "error", "missing", "unreadable"}
  BY SealedFacts, CallFields
<1> QED
  BY <1>3, <1>4, <1>5 DEF K!SealedTypeOK

LEMMA CheckoutTypes == X!CheckoutIInv => X!CheckoutTypeOK
<1> SUFFICES ASSUME X!CheckoutIInv PROVE X!CheckoutTypeOK
  OBVIOUS
<1>1. X!Typed
  BY DEF X!CheckoutIInv
<1>2. \A o \in Ids : provider[o] # Null =>
        provider[o].tool \in X!Posting /\ provider[o].status \in X!Statuses
  BY <1>1 DEF X!Typed, X!Placement
<1>3. \A c \in Calls : buy[c].pc \in
        {"idle", "config", "approval", "post", "reply", "read", "write"}
  BY <1>1 DEF X!Typed, X!CheckoutCall
<1> QED
  BY <1>1, <1>2, <1>3 DEF X!Typed, X!CheckoutTypeOK, X!Receipt, X!Statuses

(* Every variable of every part keeps its type.                             *)
THEOREM TypesKept == MarketSpec => []MarketTypeOK
<1>1. GateInv => (part = "gate" => G!TypeOK)
  BY GateTypes
<1>2. WalletInv => (part = "wallet" => H!WalletTypeOK)
  BY WalletTypes DEF WalletInv
<1>3. SeatsInv => (part = "seats" => V!TypeOK)
  BY SeatTypes DEF SeatsInv
<1>4. ReadsInv => (part = "clusters" => C!ReadsTypeOK)
  BY ReadTypes DEF ReadsInv
<1>5. SealedInv /\ DrawnInv => (part = "sealed" => K!SealedTypeOK)
  BY SealedTypes DEF SealedInv, DrawnInv
<1>6. CheckoutInv => (part = "checkout" => X!CheckoutTypeOK)
  BY CheckoutTypes DEF CheckoutInv
<1>7. DelegationInv => (part = "delegation" => D!DelegationTypeOK)
  BY DEF DelegationInv, D!DelegationIInv
<1>8. TypeOK /\ GateInv /\ WalletInv /\ SeatsInv /\ ReadsInv /\ SealedInv /\ DrawnInv
      /\ CheckoutInv /\ DelegationInv => MarketTypeOK
  BY <1>1, <1>2, <1>3, <1>4, <1>5, <1>6, <1>7 DEF MarketTypeOK
<1> QED
  BY <1>8, CommerceInMarket, TypeCorrectness, GateInvariance, WalletInvariance, SeatsInvariance,
     ReadsInvariance, SealedInvariance, KeysDrawn, CheckoutInvariance, DelegationInvariance, PTL
=============================================================================
