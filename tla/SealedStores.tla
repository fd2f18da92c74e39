----------------------------- MODULE SealedStores -----------------------------
(***************************************************************************)
(* The stores of secrets: the connectors (src/src/connectors.ts), the      *)
(* travellers' profiles (src/src/profiles.ts) and the configurations of    *)
(* the three providers (duffel.ts, nowpayments.ts, changenow.ts).  Each is *)
(* one JSON file, replaced by a rename, whose secrets are sealed with the  *)
(* key of a key file beside it (a profile may be sealed with a passphrase  *)
(* instead).  The key file is created by the first call that needs it, in  *)
(* place: between its opening and its writing it is empty, and an empty    *)
(* key file reads as the empty key.  Nothing is locked: calls overlap at   *)
(* every await, and the process may die at any of them.                    *)
(***************************************************************************)
EXTENDS Naturals, FiniteSetsExt

CONSTANTS
    Calls,              \* the calls under way at one time
    Ids,                \* ids of records
    Secrets,            \* what is to be kept
    Passphrases,        \* passphrases a user has for profiles
    None,
    MaxKeys             \* bound of the model: key files ever written

VARIABLES
    kind,               \* "provider", "connector" or "profile"
    keyFile,            \* None, 0 (empty), or the key in it
    keys,               \* keys drawn so far
    store,              \* id -> record or None
    call,
    accepted,           \* history: what each record has been told to keep
    raced,              \* history: a key was drawn or read while another
                        \* call was creating the key file
    overlapped          \* history: a store was written over a newer one

sealedVars == <<kind, keyFile, keys, store, call, accepted, raced, overlapped>>

Parts == {"main", "extra"}
NothingKept == [p \in Parts |-> None]

Idle == [pc |-> "idle", task |-> "none", id |-> None, passphrase |-> None,
         base |-> None, key |-> None, outdated |-> FALSE, answer |-> "none"]

(* A provider has one configuration.                                       *)
RecordIds == IF kind = "provider" THEN {CHOOSE i \in Ids : TRUE} ELSE Ids

Init ==
    /\ kind \in {"provider", "connector", "profile"}
    /\ keyFile = None
    /\ keys = 0
    /\ store = [i \in Ids |-> None]
    /\ call = [c \in Calls |-> Idle]
    /\ accepted = [i \in Ids |-> NothingKept]
    /\ raced = FALSE
    /\ overlapped = FALSE

files == <<keyFile, keys, store>>
histories == <<accepted, raced, overlapped>>

-----------------------------------------------------------------------------
(* Calls.  A call that seals first resolves the key, except connector_set  *)
(* and profile_update, which read the store first.                         *)

KeyFirst == {"configure", "create"}
Tasks ==
    [provider |-> {"configure", "use"},
     connector |-> {"set", "use", "remove"},
     profile |-> {"create", "update", "use", "delete"}]

(* What a call is to keep is chosen where it is sealed: nothing is decided *)
(* by it before.                                                           *)
Begin(c, task, id, passphrase) ==
    /\ call[c] = Idle
    /\ task \in Tasks[kind]
    /\ id \in RecordIds
    /\ kind # "profile" => passphrase = None
    /\ call' = [call EXCEPT ![c] =
                  [Idle EXCEPT !.task = task, !.id = id, !.passphrase = passphrase,
                               !.key = IF task = "create" THEN passphrase ELSE None,
                               !.pc = IF task \in KeyFirst /\ passphrase = None
                                      THEN "key" ELSE "store"]]
    /\ UNCHANGED <<kind, files, histories>>

Goes(c, pc) == call' = [call EXCEPT ![c].pc = pc]
Over(c, answer) == [Idle EXCEPT !.pc = "over", !.passphrase = call[c].passphrase,
                                !.answer = answer]
Ends(c, answer) == call' = [call EXCEPT ![c] = Over(c, answer)]

AfterKey(c) ==
    CASE call[c].task \in KeyFirst -> "store"
      [] call[c].task = "set" -> "write"
      [] OTHER -> "open"

(* readOrCreateKey: the file is read, ...                                  *)
ReadKey(c) ==
    /\ call[c].pc = "key"
    /\ call' = [call EXCEPT ![c].key = keyFile,
                            ![c].pc = IF keyFile = None THEN "draw" ELSE AfterKey(c)]
    /\ raced' = (raced \/ (keyFile # None /\ \E d \in Calls : call[d].pc = "fill"))
    /\ UNCHANGED <<kind, files, accepted, overlapped>>

(* ... a missing one is opened for writing, which empties it, ...          *)
DrawKey(c) ==
    /\ call[c].pc = "draw"
    /\ keys < MaxKeys
    /\ keys' = keys + 1
    /\ keyFile' = 0
    /\ raced' = (raced \/ keyFile # None)
    /\ call' = [call EXCEPT ![c].key = keys + 1, ![c].pc = "fill"]
    /\ UNCHANGED <<kind, store, accepted, overlapped>>

(* ... and filled.                                                         *)
FillKey(c) ==
    /\ call[c].pc = "fill"
    /\ keyFile' = call[c].key
    /\ Goes(c, AfterKey(c))
    /\ UNCHANGED <<kind, keys, store, histories>>

-----------------------------------------------------------------------------
(* The record a call writes.                                               *)

Current(c) == call[c].base[call[c].id]
Kept(r, p) == IF r = None THEN None ELSE r.sealed[p]

(* What a call may be given: connector_set reads the key exactly when it   *)
(* has a secret, and keeps one only.                                       *)
Given(c) ==
    {g \in [Parts -> Secrets \cup {None}] :
        /\ call[c].task \in KeyFirst => g["main"] # None
        /\ call[c].task = "set" =>
              g["extra"] = None /\ (g["main"] # None <=> call[c].key # None)
        /\ call[c].task \in {"remove", "delete"} => g = NothingKept}

Seal(c, secret) == [key |-> call[c].key, secret |-> secret]

(* Mutant of Merged: what the call does not give is forgotten.             *)
MergedAfresh(c, given) ==
    [p \in Parts |-> IF given[p] = None THEN None ELSE Seal(c, given[p])]

(* configureDuffel, configureNowpayments, configureChangenow,              *)
(* upsertConnector: what the call does not give is kept as it is.          *)
Merged(c, given) ==
    [p \in Parts |-> IF given[p] = None THEN Kept(Current(c), p) ELSE Seal(c, given[p])]

(* mergeProfile: the profile is one sealed text.                           *)
Patched(c, given) ==
    [p \in Parts |->
        LET old == Kept(Current(c), p)
        IN  IF given[p] # None THEN Seal(c, given[p])
            ELSE IF old = None THEN None ELSE Seal(c, old.secret)]

(* connector_set: args.authMode, or the one there is, or one that fits.    *)
AuthMode(c, given, mode) ==
    IF mode # "unset" THEN mode
    ELSE IF Current(c) # None THEN Current(c).mode
    ELSE IF given["main"] # None THEN "secret" ELSE "none"

NewRecord(c, given, mode) ==
    CASE call[c].task = "set" ->
           [mode |-> AuthMode(c, given, mode),
            sealed |-> IF AuthMode(c, given, mode) = "none" THEN NothingKept
                       ELSE Merged(c, given)]
      [] call[c].task = "create" ->
           [mode |-> IF call[c].passphrase = None THEN "local" ELSE "passphrase",
            sealed |-> [p \in Parts |-> IF given[p] = None THEN None
                                        ELSE Seal(c, given[p])]]
      [] call[c].task = "update" -> [mode |-> Current(c).mode, sealed |-> Patched(c, given)]
      [] OTHER -> [mode |-> "local", sealed |-> Merged(c, given)]

(* What the answer of the call says is kept from now on.                   *)
Told(c, given, mode) ==
    [p \in Parts |->
        IF call[c].task = "set" /\ AuthMode(c, given, mode) = "none" THEN None
        ELSE IF given[p] # None THEN given[p]
        ELSE IF call[c].task = "create" THEN None
        ELSE accepted[call[c].id][p]]

-----------------------------------------------------------------------------
(* The steps on the store.                                                 *)

ReadStore(c) ==
    /\ call[c].pc = "store"
    /\ LET r == store[call[c].id]
           read(pc) == call' = [call EXCEPT ![c].base = store, ![c].pc = pc]
       IN  CASE call[c].task = "configure" -> read("write")
             [] call[c].task = "create" ->
                  read("write") \/ (r # None /\ Ends(c, "error"))   \* ~overwrite
             [] call[c].task = "set" -> read("write") \/ read("key")
             [] r = None -> Ends(c, "missing")
             [] call[c].task \in {"remove", "delete"} -> read("write")
             [] OTHER ->                                \* use, update
                  IF r.mode = "passphrase"
                  THEN IF call[c].passphrase = None THEN Ends(c, "error")
                       ELSE call' = [call EXCEPT ![c].base = store,
                                                 ![c].key = call[c].passphrase,
                                                 ![c].pc = "open"]
                  ELSE read(IF r.mode = "none" THEN "open" ELSE "key")
    /\ UNCHANGED <<kind, files, histories>>

(* decryptSecret: the seal is authenticated.                               *)
Opens(c) == \A p \in Parts : Kept(Current(c), p) # None =>
                Kept(Current(c), p).key = call[c].key

Open(c) ==
    /\ call[c].pc = "open"
    /\ IF ~Opens(c) THEN Ends(c, "unreadable")
       ELSE IF call[c].task = "update" THEN Goes(c, "write")
       ELSE Ends(c, "ok")
    /\ UNCHANGED <<kind, files, histories>>

WriteStore(c) ==
    /\ call[c].pc = "write"
    /\ \E given \in Given(c), mode \in {"unset", "none", "secret"} :
          LET removes == call[c].task \in {"remove", "delete"}
              record == IF removes THEN None ELSE NewRecord(c, given, mode)
              lacks == ~removes /\ record.mode = "secret" /\ record.sealed["main"] = None
          IN  /\ call[c].task # "set" => mode = "unset"
              /\ \/ lacks /\ Ends(c, "error") /\ UNCHANGED <<store, accepted, overlapped>>
                 \/ /\ ~lacks
                    /\ store' = [call[c].base EXCEPT ![call[c].id] = record]
                    /\ call' = [d \in Calls |->
                         IF d = c THEN Over(c, "ok")
                         ELSE [call[d] EXCEPT !.outdated = (call[d].base # None)]]
                    /\ accepted' = [accepted EXCEPT ![call[c].id] =
                          IF removes THEN NothingKept ELSE Told(c, given, mode)]
                    /\ overlapped' = (overlapped \/ call[c].outdated)
    /\ UNCHANGED <<kind, keyFile, keys, raced>>

Return(c) ==
    /\ call[c].pc = "over"
    /\ call' = [call EXCEPT ![c] = Idle]
    /\ UNCHANGED <<kind, files, histories>>

(* The process dies, and its calls with it.                                *)
Dies ==
    /\ \E c \in Calls : call[c].pc \notin {"idle", "over"}
    /\ call' = [c \in Calls |-> Idle]
    /\ UNCHANGED <<kind, files, histories>>

Next ==
    \/ \E c \in Calls :
          \/ \E task \in UNION {Tasks[k] : k \in DOMAIN Tasks}, id \in Ids,
                passphrase \in Passphrases \cup {None} : Begin(c, task, id, passphrase)
          \/ ReadKey(c) \/ DrawKey(c) \/ FillKey(c)
          \/ ReadStore(c) \/ Open(c) \/ WriteStore(c) \/ Return(c)
    \/ Dies

Spec == Init /\ [][Next]_sealedVars

-----------------------------------------------------------------------------
SealedTypeOK ==
    /\ keyFile \in {None} \cup 0..keys
    /\ keys \in 0..MaxKeys
    /\ \A i \in Ids : store[i] # None =>
          /\ store[i].mode \in {"local", "passphrase", "secret", "none"}
          /\ \A p \in Parts : store[i].sealed[p] # None =>
                /\ store[i].sealed[p].key \in 0..keys \cup Passphrases
                /\ store[i].sealed[p].secret \in Secrets
    /\ \A c \in Calls : call[c].answer \in {"none", "ok", "error", "missing", "unreadable"}

Local(i) == store[i] # None /\ store[i].mode # "passphrase"

(* What a record has been told to keep stays in it, also what the calls    *)
(* that changed the rest of it did not give, and what is sealed with the   *)
(* key file opens with the key file: after crashes anywhere, also while    *)
(* the key file is being created, and while another call reads or writes.  *)
(* Two exceptions: calls that replaced each other's stores, and first      *)
(* calls that each made a key.                                             *)
SecretsSurvive ==
    /\ overlapped \/ \A i \in Ids, p \in Parts :
          LET kept == Kept(store[i], p)
          IN  accepted[i][p] = IF kept = None THEN None ELSE kept.secret
    /\ raced \/ \A i \in Ids, p \in Parts :
          Local(i) /\ Kept(store[i], p) # None => store[i].sealed[p].key = keyFile
    /\ \A c \in Calls :
          call[c].answer = "unreadable" => raced \/ call[c].passphrase # None

-----------------------------------------------------------------------------
(* The inductive invariant of SecretsSurvive.                              *)
Stages == {"idle", "key", "draw", "fill", "store", "open", "write", "over"}
FileKeys == 0..MaxKeys
SealedBy(ks) == [key: ks, secret: Secrets]
Seals(ks) == [Parts -> SealedBy(ks) \cup {None}]

(* What the store of each kind holds.                                      *)
Records(k) ==
    CASE k = "provider" -> [mode: {"local"}, sealed: Seals(FileKeys)]
      [] k = "connector" -> [mode: {"secret"}, sealed: Seals(FileKeys)]
                            \cup [mode: {"none"}, sealed: {NothingKept}]
      [] OTHER -> [mode: {"local"}, sealed: Seals(FileKeys)]
                  \cup [mode: {"passphrase"}, sealed: Seals(Passphrases)]
Stores(k) == [Ids -> Records(k) \cup {None}]

TaskNames == {"none"} \cup (UNION {Tasks[k] : k \in DOMAIN Tasks})
CallRecord(k) ==
    [pc: Stages, task: TaskNames, id: Ids \cup {None},
     passphrase: Passphrases \cup {None}, base: Stores(k) \cup {None},
     key: FileKeys \cup Passphrases \cup {None}, outdated: BOOLEAN,
     answer: {"none", "ok", "error", "missing", "unreadable"}]

FilesTyped ==
    /\ kind \in {"provider", "connector", "profile"}
    /\ keyFile \in FileKeys \cup {None} /\ keys \in FileKeys
    /\ store \in Stores(kind)
    /\ accepted \in [Ids -> [Parts -> Secrets \cup {None}]]
    /\ raced \in BOOLEAN /\ overlapped \in BOOLEAN

(* A call was asked what its kind of store is asked, ...                    *)
AskedWell(k, r) ==
    /\ r.pc = "idle" => r = Idle
    /\ r.pc \in {"idle", "over"} => r.base = None /\ r.key = None
    /\ r.pc \notin {"idle", "over"} =>
          /\ r.task \in Tasks[k] /\ r.id \in Ids /\ r.answer = "none"
          /\ k # "profile" => r.passphrase = None

(* ... it has the key of the record it read or will write, ...              *)
OwnKey(r) == IF r.passphrase = None THEN r.key \in FileKeys ELSE r.key = r.passphrase
RightKey(r) ==
    LET old == r.base[r.id]
    IN  /\ old # None
        /\ old.mode \in {"local", "secret"} => r.key \in FileKeys
        /\ old.mode = "passphrase" => r.key = r.passphrase /\ r.passphrase # None

HasKey(r) ==
    /\ r.pc \in {"key", "draw"} => r.key = None
    /\ r.pc = "fill" => r.key \in FileKeys
    /\ r.pc \in {"key", "draw", "fill"} =>
          IF r.task \in KeyFirst THEN r.base = None /\ r.passphrase = None
          ELSE /\ r.base # None /\ r.task \in {"set", "use", "update"}
               /\ r.task # "set" =>
                    r.base[r.id] # None /\ r.base[r.id].mode \in {"local", "secret"}
    /\ r.pc = "store" => r.base = None /\ IF r.task \in KeyFirst THEN OwnKey(r) ELSE r.key = None
    /\ r.pc = "open" => r.base # None /\ r.task \in {"use", "update"} /\ RightKey(r)
    /\ r.pc = "write" =>
          /\ r.base # None /\ r.task # "use"
          /\ r.task \in KeyFirst => OwnKey(r)
          /\ r.task = "set" => r.key \in FileKeys \cup {None}
          /\ r.task = "update" => RightKey(r)

(* ... and what it read is the store, unless that was written since.        *)
ReadIsCurrent(s, r) ==
    IF r.base = None THEN ~r.outdated ELSE r.outdated \/ r.base = s

CallsFollow ==
    /\ call \in [Calls -> CallRecord(kind)]
    /\ \A c \in Calls :
          /\ AskedWell(kind, call[c]) /\ HasKey(call[c])
          /\ ReadIsCurrent(store, call[c])
          /\ call[c].answer = "unreadable" => raced \/ call[c].passphrase # None

(* A key of the key file is in use when a record, one that a call has read, *)
(* or a call has it, but for the call that is about to write it.            *)
UsedIn(s, n) ==
    \E i \in Ids, p \in Parts :
        /\ s[i] # None /\ s[i].mode # "passphrase"
        /\ s[i].sealed[p] # None /\ s[i].sealed[p].key = n
UsedBy(r, n) == (r.base # None /\ UsedIn(r.base, n)) \/ (r.pc # "fill" /\ r.key = n)
InUse(n) == UsedIn(store, n) \/ \E c \in Calls : UsedBy(call[c], n)

(* No key but the one in the key file is in use, and none while it is being *)
(* created.                                                                 *)
OneKey ==
    /\ \A n \in FileKeys : InUse(n) => n = keyFile
    /\ \A c \in Calls : call[c].pc = "fill" =>
          /\ keyFile = 0 /\ \A n \in FileKeys : ~InUse(n)
          /\ \A d \in Calls : call[d].pc = "fill" => d = c

KeepsWhatItTold ==
    \A i \in Ids, p \in Parts :
        LET kept == Kept(store[i], p)
        IN  accepted[i][p] = IF kept = None THEN None ELSE kept.secret

SealedIInv ==
    /\ FilesTyped /\ CallsFollow
    /\ ~raced => OneKey
    /\ ~overlapped => KeepsWhatItTold

(* Every key was drawn: that of the key file, and what records, those that  *)
(* calls have read and calls have of it.                                    *)
Drawn(n) == n \in FileKeys => n <= keys
SealsDrawn(s) ==
    \A i \in Ids, p \in Parts :
        s[i] # None /\ s[i].sealed[p] # None => Drawn(s[i].sealed[p].key)

KeysWereDrawn ==
    /\ Drawn(keyFile) /\ SealsDrawn(store)
    /\ \A c \in Calls :
          /\ Drawn(call[c].key)
          /\ call[c].base # None => SealsDrawn(call[c].base)
=============================================================================
