# A verification of lyth_mcp

TLA+ models of the parts of lyth_mcp whose correctness depends on the order of
things: several processes sharing one native credential store, one state file or
one JSON file, requests whose replies get lost, processes that stop between two
steps. Modules are checked with TLC on small instances; the most important
results are also proved with TLAPS for every value of the constants.

Source paths below are relative to `src/` in the repository's root.

## 1. Inventory

lyth_mcp ships several programs that run in different processes and share files:
the full MCP server (`src/index.ts`), the three-tool Stele MCP server
(`src/stele/server.ts`), and two terminal administrators, `lyth-stele-auth` and
`lyth-stele-wallet`. An MCP host usually starts one server per session, so there
are several at a time, and each handles tool calls concurrently: every `await` is
a point where another call of the same process, or another process, can run.

| Component | State | Operations | Interacts through |
|---|---|---|---|
| OAuth session broker (`oauth-session-broker.ts`) | none of its own | `status`, `accessToken` | mutex, credential store, authorization server |
| OAuth administrator (`oauth-admin.ts`) | `invalidClientRetries` of a login | `status`, `login`, `logout` | the same, plus loopback callback and browser |
| Refresh mutex (`oauth-refresh-lock.ts`) | ownership of port 49371 | `runExclusive` | the kernel, which releases it when a process dies |
| Credential store (`oauth-credential-store.ts`) | one record: registration, tokens, generation, `sessionState` | `read`, `write`, `delete` | the platform's keychain |
| OAuth HTTP (`oauth-http.ts`, `oauth-runtime-http.ts`) | none | requests with a 5 s timeout | authorization server |
| Loopback callback (`oauth-loopback.ts`) | `consumed`, `settled`, the bound state, a timer, the listening server | start, `waitForCallback`, `close`; one callback within 180 s | the administrator, the browser, any local program |
| Agent wallet lifecycle (`wallet-state.ts`) | one state file: a provisioning marker or a configured record | create, set address, commit, abandon, clear | file system |
| Agent wallet administrator (`agent-wallet-admin.ts`, `os-credential-store.ts`) | seeds in the keyring | `create`, `repair` | the file and the keyring |
| Operator boundary (`operator-fetch.ts`, `network-identity.ts`) | closed flag, overall and per-request timers | one discovery, three identity checks | operators' endpoints, the Stele API |
| Stele tools (`server.ts`, `api-client.ts`) | per request a timer and a body | three read-only tools behind the identity check | the Stele API |
| Low-value spending (`wallet.ts`) | `wallets.json`: policy and daily buckets | build a transfer, reserve, move, configure, pause, limit, drain | handlers in `index.ts`, the outbox |
| Hot wallet policy (`wallet_safety.ts`, preflight in `index.ts`) | none of its own: several readings of one record | simulate, explain, profile, preflight, sign, pause, limit | `wallets.json` |
| Outbox and receipts (`outbox.ts`, `receipts.ts`) | `outbox.json`, `receipts.json` | add, attempt, status, forget, release, expire, watch | RPC endpoints |
| Orders, bookings, invoices | three JSON files | create, pay, mark paid, cancel, fulfil, dispute | connectors' webhooks |
| Merchant policies (`merchant_policy.ts`, `commerce_safety.ts`, `assets.ts`, `risk_renderer.ts`) | `merchant_policies.json` | set, remove; the gates of an order | the order tools |
| Sealed stores (`connectors.ts`, `profiles.ts`, three providers' configurations) | JSON files with sealed secrets, a key file beside each | configure, set, create, update, reveal, remove | file system |
| Provider orders (`duffel.ts`, `nowpayments.ts`, `changenow.ts`, `travala.ts`, `approval.ts`) | receipts | hold, pay, cancel, swap, track | providers, the host's approval dialogue |
| Clusters and seats (`clusters.ts`, `charter.ts`) | none | answers put together from many reads | RPC endpoints |
| Delegation (`delegation.ts`) | none | drafts with warnings | the user |
| Other registries, developer tools | lookups | read, format, encode | none |

What is hard, and what makes each of them correct:

- **OAuth session.** A refresh token is used once; a sibling process, a lost
  reply, a failing keychain or a crash between rotation and commit can present
  a token twice, overwrite a family the server still honours, or lose a live
  token nobody can revoke any more. Correct: exclusive refresh, no live token let
  go of silently, results backed by the store, every call returns unless its login's callback
  never settles.
- **Agent wallet.** A seed in a keyring and a public record in a file cannot be
  committed together; creations race, and a replacement of the file is a read
  followed by an unconditional rename. Correct: the public commitment is never
  ahead of the seed, seeds are never touched, one wallet, every interrupted
  lifecycle can be reconciled.
- **Low-value spending and outbox.** All files are read, changed and written back
  without a lock, and the limit is tested on a snapshot older than the write.
  Correct: what is signed and not released is reserved, the limit bounds it, an
  amount moves once.
- **Commerce stores.** A status is tested before a network call, and a patch made from it is
  merged into the file after it. Correct: a status never stands without its payment or delivery, a
  finished record is not reopened, nothing that was recorded disappears.
- **Policies.** Several pieces of code decide on one policy that changes meanwhile, and every
  writer of its file puts back what it read of the rest. Correct: an acknowledged denial holds, a
  pause holds that no older reading can overwrite, reports and gates agree.
- **Sealed stores.** A key file is created in place by whoever needs it first. Correct: what was
  accepted can be opened later, also after a crash.
- **Provider orders.** A request that places an order is sent once and may succeed unseen. Correct:
  every order the provider took is answered, in the receipts, or behind an error the user saw.
- **Live answers.** Reads run at the same time, each may fail, the chain goes on. Correct: nothing
  is stated that no read said, nothing is missing without a failed read.
- **Loopback, operator boundary, Stele tools.** Timers, callbacks, bodies and `close` race over one
  result. Correct: settled once, in the order of events; nothing started after the budget; no body
  left open; closed in the end.

The line-by-line list of these hazards is in `PROJECT.json`.

## 2. Modules

| Module | What it is |
|---|---|
| `SteleOAuthSession` | broker, administrator, mutex, credential store, and server as the client sees it |
| `GrantCustody` | abstract specification: the life of a refresh token, which `SteleOAuthSession` implements |
| `SteleOAuthSessionProofs` | the proofs about `SteleOAuthSession` |
| `AgentWallet` | `create` and `repair` over the state file and the keyring |
| `AgentWalletProofs` | the proofs about `AgentWallet` |
| `LowValueSpend` | the policy's daily books, the outbox, and the tool calls over both |
| `LowValueSpendPlans` | `LowValueSpend` under one of four plans of calls, and the invariant of the plans |
| `LowValueSpendProofs` | the proofs about `LowValueSpend`, and about the books in `LowValueSpendPlans` |
| `CommerceStores` | orders, bookings and invoices, and the tool calls over them |
| `CommerceStoresProofs` | the proofs about `CommerceStores` |
| `MerchantGate` | merchant policies and the gates an order, a quote or a risk check passes |
| `HotWalletPolicy` | the agent wallet's policy: its simulation, advice, report, preflight and signing |
| `SealedStores` | connectors, profiles and provider configurations with their key files |
| `Checkout` | orders at the providers, approval and receipts |
| `ClusterReads` | cluster and operator answers put together from RPC reads |
| `SeatMarket` | open seats, folded from events |
| `Delegation` | delegation drafts and their caps |
| `OAuthLoopback` | the callback's one-shot server and the attempt that owns it |
| `OperatorFetch` | the one-use fetch boundary of a discovery |
| `SteleReads` | the Stele tools, the identity check, the API client |
| `Market` | `CommerceStores` and the seven modules after it, one of them per behaviour |
| `SpendingProofs` | the proofs about `MerchantGate`, `HotWalletPolicy` and `Checkout` in `Market` |
| `MarketProofs` | the proofs about `SealedStores`, `SeatMarket`, `ClusterReads` and `Delegation` in `Market`, and about its types |
| `Sums` | the laws of sums over finite sets that `LowValueSpendProofs` and `MarketProofs` use |
| `MCSteleOAuthSession`, `MCAgentWallet`, `MCLowValueSpend`, `MCHotWalletPolicy` | constants and symmetry sets for TLC |
| `MCLowValueSpendPlans` | a small instance of `LowValueSpendPlans` for TLC |
| `MCMarket` | a small instance of `Market` for TLC |
| `MCSteleEdges` | `OAuthLoopback`, `OperatorFetch` and `SteleReads`, one of them per behaviour |
| `SteleEdgesProofs` | the proofs about `MCSteleEdges`, whose bounds are constants |

The parts `Market` and `MCSteleEdges` put side by side share no file and no variable, so that a
behaviour is about one of them and the others rest; nothing is lost by not interleaving them.

A definition headed "Mutant of X" is X with a plausible bug; no `Next` uses it. It
shows that the property paired with it in `PROJECT.json` notices that bug.

### SteleOAuthSession

`pc[p]` is the await at which process `p` stands, `cur[p]` and `new[p]` are the
code's `current` and `replacement`, `undo[p]` the record a compensation is about to
retain, `revoked` and `retried` the code's two local flags. `store` is the record in
the keychain, `holder` the owner of the port. A token is a family (one grant, one
interactive login) and a generation; `latest[f]` is the newest generation the server
issued and the only one it honours, `revokedFamilies` what it no longer honours.
`orphans` is a history variable: live tokens no process can reach, with the reason.

One action is one await, and each of its outcomes a disjunct or an action of its own:

- a bind succeeds, finds the port taken, or fails; the deadline passes;
- a store write succeeds, or throws with or without having taken effect (`WriteFails`),
  because `write` reads back and any error after `setPassword` is an error; deletion
  likewise (`DeleteAccepted`, `DeleteFails`);
- a request is processed and answered, processed with the reply lost
  (`RefreshLost`, `ExchangeLost`), refused, or fails;
- `Crash` at any point; the kernel then frees the port.

The checks that only tell a good reply from a malformed one are abstracted into these
outcomes, and `rotateSteleOAuthCredentialRecord` into its generation limit plus a free
choice to fail (token collision, clock). `accessToken` and `login` share the refresh
actions; `op[p]` tells them apart where the code differs (the mark after a refusal, the
name of an error).

The server is external. It is assumed to honour only the newest token of a family, to end
a family whose newest token is revoked, and to be free to end one when an older token is
presented or at any other time. It answers the revocation of a superseded token as
accepted without having to do anything.

### AgentWallet

`file` is the state file, `seeds` the keyring, `seen[p]` the record `p` read last,
`mine` the processes whose local `provisioning` variable is set, so that a failure
abandons the marker. Where the code reads the marker, compares it and then replaces the
file, the model has two actions: the read (`SetExpectedReads`, `CommitReads`,
`AbandonReads`, `ClearReads`) and the rename or unlink, which ignores what happened in
between. Only `CreateMarker` (a `link`) is a test and a write in one. A rename or unlink
may fail without effect, or take effect and still be an error because the directory
could not be synchronized (`ReplaceFails`).

The seed, and the address derived from it, are named by the random operation id, which is
never drawn twice (32 random bytes). A process's name stands for its PID: one that runs
again has the same name, so a marker whose owner died looks active while a later process
has that PID (`ProcessIsAlive`). Corrupt files and corrupt keyring entries are left out:
no process writes one. So is a keyring edited by somebody else.

### LowValueSpend

One local wallet that signs small transfers without a passphrase. `store` is its entry in
`wallets.json` (the policy with the day and the five buckets, or none, and the paused flag),
`outbox` is `outbox.json`, `payload` what was signed and when, `chain` what the node knows
of it. A call `c` stands at `pc[c]`; `task[c]` holds what it works on and, in `was`, the
status its handler read first, which later decides which bucket an amount leaves (`From`,
`Moves`). Several calls may be under way, of one server or of several.

Every store operation of `wallet.ts` and `outbox.ts` reads the whole file, changes it and
renames a new one over it. That is two actions: the read computes the draft (`nextStore`,
`nextOutbox`), the rename installs it whatever happened in between. The handlers chain these
operations in the order of the code: a transfer checks, signs, reserves, adds its entry,
broadcasts, records the attempt and moves the amount; a release moves the amount first and
the status afterwards; a status query asks the node, writes the status and then moves. The
first read of an operation is joined to its guard only where nothing else lies between.

`Throw` and `Crash` are a store operation that fails and a server that stops; inside the
`try` of a broadcast the failure is recorded as a failed attempt and the call goes on.
`SubmitLost` is a broadcast that was accepted but not answered. The node is external: it
may accept a payload until it is included or reverted, and anybody who has read the
outbox can submit it.

Left out: several wallets and several recipients; a policy without a daily limit; creating,
importing over and deleting the wallet and its key files; the expiry of an agent wallet
(`HotWalletPolicy` has it); receipts, which nothing reads back to decide on; a status query that
gives the entry of one payload and the hash of another. `MaxAmount` and `DailyLimit` do not
change: configuring the policy again starts empty books under the same limits. A payload signed
with a passphrase, and a drain, have `lowValue` FALSE: nothing is reserved for them.

### CommerceStores

`kind` says which of the three files the behaviour is about; no handler touches two. A record
keeps its status and three facts: a payment transaction (`hash`), what is known of the delivery
(`evidence`), a prepared escrow. A call reads the record and decides (`Decide`, `Send`), waits for
the webhook if there is one, reads the whole file again and merges the patch it made from its
first read (`UpdateRead`), and renames (`Write`). `overtaken[c]` remembers that another call wrote
the file since the first read of `c`. `Interrupted` is a process that stops, a refused gate, a
file that cannot be read.

How the code behaves, as the model has it: `order_mark_paid` has no guard; `order_pay` on a
delivered order, and `booking_mark_paid` on a completed one, move it on; `order_cancel` checks at
one read and writes at another; `allowRetry` alone never resends an order that was paid and then
requested, because its status is no longer `paid`; `invoice_list` rewrites the file when something
has expired, and can undo a payment recorded in between.

### MerchantGate and HotWalletPolicy

`MerchantGate` has the policies' file with its overlapping `set` and `remove`, and the three order
tools, which read the policy once and then evaluate (`Evaluations`) merchant, commerce and asset
policies. An optional field is a set of at most one element. What the screen of `commerce_safety.ts`
finds in a text is a set of words the text contains.

`HotWalletPolicy` has one record of `wallets.json` and everything that reads its policy:
`Simulate` (`hot_wallet_policy_simulate`), `Tier` (`wallet_threshold_explain`), `Score`
(`accountSafetyProfile`), `Preflight`, `SigningMode`. Every change of the file is a read, which
computes the draft (`ChangeReads`, `BooksRead`, `ReservationRead`), and a rename, which installs
it whatever happened in between (`PolicyWritten`, `MetadataWritten`, `BooksWritten`,
`ReservationWritten`). A pause and a change of limits are two such changes each; moves of the
books, which a payload of any other wallet causes as well, and the transfer's reservation overlap
with them. A pause deletes the policy, so that limits given afterwards start from the default cap
and no daily limit; without any cap given they leave the wallet without a policy.
`agent_wallet_limits` writes `paused: false` and every field of its patch, those it was not given
included: an expiry and the counterparties are dropped, and a paused wallet runs again. `held`
is a history variable: whether a pause has returned that no limits call followed, and whether its
mark was written while nobody else held an unpaused draft. The five buckets are one locked amount
here; `LowValueSpend` has them.

### SealedStores and Checkout

`SealedStores` models the five stores whose secrets are sealed with a key file. The key file is
read, and when there is none drawn and written in place by each call that needs it (`ReadKey`,
`DrawKey`, `FillKey`): between opening and writing it is empty, and after a crash there it stays
so and reads as the empty key. A configuration merges what it is given with what was there. A
connector set to mode `none` drops its secret; one set with a new endpoint and no secret keeps the
old one.

`Checkout` has one provider per behaviour. A call reads the configuration, asks the host for
approval if it is a swap and there is a host, posts, and enters a receipt if its tool keeps them
(`WithReceipt`; `flight_order_pay`, the two steps of `flight_order_cancel` and
`changenow_swap_create` keep none). There is no timeout, no retry and no idempotency key, so a
caller that asks again after a lost reply orders twice. A hold whose reply carries no payment
status would be entered as confirmed (`index.ts:3597`); the modelled provider always sends it.

### ClusterReads, SeatMarket, Delegation

In `ClusterReads` a cell is one fact of the chain, which may change while reads are under way; an
answer takes a field from the reads that did succeed. `not_found` is also what a failed read looks
like, and `NotFoundIsHonest` says exactly that.

`SeatMarket` reads four kinds of events at the same time, up to a head the chain leaves behind, and
folds them kind by kind: the last `SeatClosed` that can be decoded decides by its status byte,
otherwise the greatest count of the `SeatFilled` events. The market is external, and is given what
`clusters.ts:882-887` names: seats are advertised, applied for, filled and closed, an application
may be withdrawn, which leaves no event the code reads, an operator may apply again, and a seat
that is not open may be advertised anew. The count shown is that of all `SeatApplied` events, so
that it also has the repeated, the withdrawn and the admitted ones; a seat advertised again after a
close stays off the list as long as the old `SeatClosed` is in the window. An advert older than the
window of 200,000 blocks is not read, so that an empty list does not mean that there is no vacancy.
Up to `MaxBroken` events lack a field and are dropped by their adapter.

`Delegation` has the drafts and what becomes of the positions when one is carried out. Positions and
totals are whole hundredths, to which the code rounds, but it adds an amount to a position and
multiplies the total by the cap in binary fractions without rounding: 0.1 + 0.2 exceeds a cap of 0.3.
Sides that differ do so by a ten-thousandth at least, far more than the error of amounts below a
hundred thousand million; so `OverCap` is certain unless a stake stands exactly at its cap, where
it may be told either way. So may the rounding of a share exactly between two hundredths
(`Targets`). Hence `MayBeClean` and `MustBeClean` in place of one status. Undelegating does not look
at the shares of other clusters, a rebalance leaves positions outside its candidates alone, an
empty addition counts its cluster as selected, and a draft made of old positions is not protected:
`DraftsAreHonest` says what is left.

### OAuthLoopback, OperatorFetch, SteleReads

One action is one callback of the event loop. `OAuthLoopback` separates deciding an outcome
(`Finish`) from delivering it (`Settle`), because in between the server waits for its open
connections. In `OperatorFetch` a promise that was resolved and the code behind it are two
actions, so that a timer can fire between them ("answered", "chunk", "last"). `SteleReads` has the
timer, the late response and the bounded body of each API request, and lets what runs behind the
API's origin change between any two requests: the check and the search behind it are separate
requests, and a redeployment between them is seen by neither.

## 3. Runs

| Run | Question | Bounds |
|---|---|---|
| `oauth_session` | the safety of the session, whether it implements `GrantCustody`, does every call return? | 2 processes, 1 grant, limit 2 (the token after it exceeds the limit), under `FairSpec` |
| `oauth_grants` | is a live token ever lost when one grant replaces another? | 1 process that may die and start again, 2 grants, limit 2 |
| `oauth_cancelled` | is a grant just revoked ever reported as authenticated? Yes | violation |
| `wallet` | the promise of the lifecycle; is an interrupted one always resolved? | 2 creators, 1 repairer, 2 ids, 3 faults, under `FairSpec` |
| `wallet_cleared` | can repair remove the marker of a stored seed? Yes, with two repairs | violation |
| `lowvalue_plans` | are the books right, and what is left of that after crashes, over two days and with overlapping calls? | 2 payloads of 1 or 2, daily limit 3, 2 faults; plans below |
| `lowvalue_limit` | does the daily limit bound overlapping transfers? No | violation |
| `lowvalue_midnight` | does it bound one call at a time across midnight? No | violation |
| `market` | what the tools keep and what they tell | 2 overlapping calls, 2 records, 5 calls on a store, 2 on `wallets.json` beside a transfer; the other parts as in `MCMarket` |
| `hot_pause` | can a paused wallet not sign through low-value mode? It can | violation |
| `edges` | does each listener, discovery and tool call settle once, leak nothing and end? | 2 connections, 2 operators with 2 reads each, 1 reader, bodies up to 2 chunks of which 1 is allowed, under fairness |
| `loopback_timeout` | does a login end once its timer has fired, whatever the peers do? No | violation |

`LowValueSpendPlans` takes one of four plans, because all operations at once have more states
than can be explored: *releases* (build, retry, release, status, one at a time, no failure),
*faults* (build, retry, status, forget, one at a time, two crashes or I/O errors), *owner* (build,
drain, enable, disable, pause, one at a time, two days) and *concurrent* (two calls of any kind on
one payload of 1).

What the runs say, property by property:

- `Custody`: a token the server honours is stored, in the hands of the process inside the mutex,
  or recorded as an orphan with its cause. No return path loses one silently. Besides the crash of
  `README.md:158`, a reply that misses the 5 s timeout (`oauth-runtime-http.ts:156`) is such a
  cause: the replacement lives and nobody holds it.
- `PresentsStoredToken`: the token presented to the server is the stored one.
- `ResultsAreCommitted`: `token`, `refreshed`, `authenticated` imply an active stored record that
  is the one returned; `logged_out` implies no record and a dead family.
- `LiveTokenNeverDropped`: whatever replaces or deletes a stored record, the token in it is dead
  by then. The order "revoke, then overwrite or delete" is what makes it so.
- `RecordNeverRegresses`: no compensation brings back an older generation, or reactivates a record
  that was marked, within a family.
- `ImplementsGrantCustody`: all of this as a refinement; a token is issued into a hand or lost,
  comes to rest in a slot only when nothing alive is in it, and dies.
- `EveryCallReturns`: also when the port is never released by its outside owner, and with
  `invalid_client` on every attempt (one retry). The one call that need not return is a login whose
  browser callback never settles (`loopback_timeout`); it keeps the mutex, and yet every call of
  the other processes returns.
- `ConfiguredHasItsSeed`: a configured file names a seed that is in the keyring.
- `NothingIsUndone`: no process overwrites or removes a seed, also after a store that threw
  although it took effect; and with one repair at a time a committed wallet stays committed.
- `AtMostOneSeed`, `OutcomesAreTrue`, `ClearsOnlyWithoutSeed`: with one repair at a time, however
  many creations race with it and whichever renames fail after taking effect, there is one wallet,
  what a call reports is so, and a marker is cleared only over an empty keyring.
- `MarkersAreReconciled`: a repair that is run again resolves every marker.
- `BooksAddUp`: between calls the locked sum covers whatever can still be spent, in the plans
  *releases* and *faults*: after a crash the books may lock too much until the day ends, never too
  little. In *releases* moreover each of the buckets reserved, submitted and confirmed holds at
  least what the entries of that status are worth, and the five add up to what was signed: the
  clamp at zero never swallows an amount, none is counted twice.
- `LimitHoldsOneByOne`: one call at a time and on one day, what is signed without a passphrase,
  together with everything signed that can still be spent, is worth at most the limit.
- `EntryFollowsChain`: one call at a time, an entry leaves `submitted` only for what the chain
  says of its payload, and never leaves `confirmed`. Two overlapping watchers move an amount twice.
- `StatusIsWarranted`: with any overlap of calls and whatever writes get lost, an entry is
  `submitted` only if a node took the payload and `confirmed` only if it was included. That an
  entry or a status may be lost it does not say: nothing prevents it.
- `RecordsCohere`: however calls overlap, a paid record has its transaction, a delivered one its
  confirmation, an escrowed one its runbook.
- `FinishedStaysFinished`, `FactsAreKept`: a call that nobody overtook does not reopen a
  cancelled, delivered, completed or paid record (except the tools whose guards let them), and
  loses no record, payment, escrow or proof of delivery (except `order_pay`, prepared again
  without a transaction). The exception for overtaken calls is the lost update of an unlocked
  file.
- `OrdersHeedPolicies`: the summary a user is shown says what the gates did, and a denial that was
  acknowledged refuses every order that begins later. `PoliciesAreKept`: a policy call changes
  only what it was asked to, unless two overlap.
- `HotSigningHolds`: what is signed without a prompt the simulation would have let pass before or
  at the signing, counterparties and the moment of expiry excepted; a pause whose mark was written
  while no other call held an unpaused draft holds until the owner sets limits again, whatever
  other pauses, crashes and moves of the books overlap with its two changes. A pause that did
  overlap with such a draft may be undone (`hot_pause`). `ReportsAgree`: the advice, the simulation
  and the report go together.
- `SeatListIsExact`: a listed seat was open at the head the scan was told, also if it had been
  closed, filled or advertised again. One advertised once in the window and open since shows the
  admissions, and no fewer applications than stand or were admitted, and is missing only when the
  list is full. Seats with an event that cannot be decoded are excepted.
- `AnswersAreHonest`: a label, a hit and a "not found" are each warranted by what was so while the
  call ran, or by a read that failed.
- `SecretsSurvive`: what a record was told to keep stays in it and opens with the key file, also
  after crashes inside the key file's creation. Excepted: calls that replaced each other's file,
  and two first calls that each made a key.
- `SwapsAreApproved`: no swap is placed that the user did not approve with its refund address.
  `OrdersAreAccountedFor`: what the provider took is under way, failed visibly, or answered and in
  the receipts; a receipt says confirmed only of what was paid. Excepted: receipts overwritten by
  an overlapping call.
- `DraftsAreHonest`: from positions without a warning, a delegation whose draft warned leads to a
  position at its cap or beyond, and one whose draft did not to none beyond; a rebalancing over
  enough candidates to none beyond, and to none at it if there are more than the cap asks for.
- `LoginIsToldTheFirst`: of a callback, a broken connection, the timer and `close`, the login is
  told what came first, and only once the listener and its connections are closed. `AttemptsEnd`:
  it always ends.
- `NothingOutlivesTheBudget`, `NoBodyLeaks`, `ReadsReturn`: after the budget nothing waits for an
  operator, no body of an operator or the API stays open, and every discovery and tool call
  returns.
- `ServicesFollowIdentity`: services are shown only behind an identity check that passed in the
  same call.

Bounds. The two hard parts of the session are checked apart, because the mutex keeps them apart
and the proofs of section 4 cover both at any size. Two processes are enough for every
interleaving the mutex lets through: one inside, one waiting, crashing or giving up; a third would
only wait as well. One grant and a limit of 2 let a rotation meet the rotation before it, and once
the limit. Two grants are the retained and the replacing one, all a login ever relates; one
process, dying and restarting, performs every sequence of logins, rotations, logouts and failures
over them. In the wallet, three administrators are one that acts on an old reading, one that
undoes it and one that starts afresh, and two ids are two seeds. `MaxFaults` bounds crashes and
I/O errors together; three are a failed commit, a failed abandonment and a crash. Processes repeat
their calls without a bound.

In the spending plans two payloads are one that is settled, released or retried and a new one that
meets the limit; a limit of 3 with amounts 1 and 2 has both an exact fit and an excess. With two
calls that may do anything to one payload, each can overwrite what the other wrote between its
read and its rename. Buckets of at most 1 keep overlapping moves from counting an amount upwards
for ever. Across midnight the limit is checked only as the violation it is. The *faults* plan
leaves releases out: one interrupted between its two writes and run again frees its amount twice
(`index.ts:1489`), which nothing promises to survive.

In `market` two calls on two records give every overlap of two read-merge-rename sequences, and
five calls a record's life from creation to a reopening. The gates see two vendors and four assets
that between them reach every branch; three calls are a denial, an order and another policy call.
Two clusters of which one is beyond the first page, with one change of the chain, let two reads
disagree; five clusters of which four are candidates put a position outside the registry's ranking.

On `wallets.json` two calls are a pause or a change of limits and a pause, another one or a move of
the books that overlaps with it, beside the transfer and its reservation; each may hold a draft
while another writes. One moment of expiry and one midnight (`MaxTime` 1), and books that hold at
most what the largest amount is worth (`MaxLocked` 2), are each a boundary that is met. More
calls are in the proof, and three in `hot_pause`. Five blocks are an advert, an application, an
admission or close, another advert and what becomes of it, on either of two seats of two places,
and the chain leaves the window of 3 by two blocks. Events that cannot be decoded (`MaxBroken` 0
here) are in the proof.

In `edges`
two connections are the browser's and another program's; a body of two chunks exceeds the allowed
one.

Fairness. `EveryCallReturns` assumes that each await of a process inside a call settles, except that
of the browser callback (weak fairness of `Proceed(p)` outside `authorize`): requests have timeouts,
the wait for the port has a deadline, and the native store is assumed to answer, which the code does
not enforce. The callback has a timer too, but the timer only asks the server to close, and
`server.close` waits for connections that peers keep open (`oauth-loopback.ts:65-103, 256-262`,
`loopback_timeout`): nothing makes a login leave `authorize`, and the property leaves out the login
that stays there for good. Nobody is obliged to call, to crash or to free the port.
`MarkersAreReconciled` assumes the same of the file and the keyring, and that the owner runs `repair` again as long as there is a marker, which is
what every message about it says to do (strong fairness of starting it, because it can only be
started while no other repair of that process is running). In that run a creator's PID is never
the repairer's. Were the PIDs of dead creators taken over by programs that never end, `repair`
would report `busy` for as long as they run (`wallet-state.ts:242`): the model leaves such
programs out. `AttemptsEnd` assumes that the event loop runs, that a peer that connects sends its
request or breaks off, and that it hangs up a request nobody answers; `loopback_timeout` drops the
last. `ReadsReturn` assumes the event loop and its timers only: operators and the API may stay
silent.

Deadlock is checked in the runs of the session, of the agent wallet and of the edges. In the
spending runs and in `market` it is not: once every payload is signed and settled, or the bounded
number of calls is used up, there may be nothing left to do. Symmetry is used for names that only
equality tells apart, never in the runs of a liveness property.

### What the violations show

- **A login that is not approved** (`oauth_cancelled`). `login` refreshes an active record; when
  the server refuses, it revokes the family and opens the browser, but unlike `accessToken` it
  does not mark the record (`oauth-admin.ts:158-171`). If the user does not approve, `status` goes
  on to say `authenticated` over a grant known to be dead. The next `accessToken` after the access
  token's expiry marks it.
- **Two repairs** (`wallet_cleared`). `clearProvisioning` unlinks the path, not the marker it read
  (`wallet-state.ts:228-234`). Two repairs that both found an empty keyring and a creation that
  starts between their unlinks leave a stored seed without a marker. `repair` then adopts the
  seed. A creation that had listed an empty keyring before that can still begin, and store a
  second seed, over the missing file.
- **Overlapping transfers** (`lowvalue_limit`). `recordLowValueSpend` reads `wallets.json`, adds
  its amount and writes the file back (`wallet.ts:644-659`). A transfer that reads before another
  has renamed erases its reservation, and the next one still fits.
- **Yesterday's payload** (`lowvalue_midnight`). `moveLowValueAccounting` takes an amount from
  today's bucket whenever it was reserved (`wallet.ts:674-680`). Releasing a payload signed
  yesterday therefore takes away, clamped at zero, the reservation of a payload signed today.
  Retrying or settling yesterday's payload moves amounts in the same way.
- **A pause undone** (`hot_pause`). Configuring a policy, marking a pause, moving an amount and
  reserving one each read `wallets.json`, change one record and rename the whole file
  (`wallet.ts:337-383, 644-683`). A call that read before `agent_wallet_pause` and renames after it,
  be it about another wallet, brings back the policy and `paused: false`; the next transfer is
  signed without a passphrase, though the pause's receipt says that the wallet "can no longer sign
  through low-value mode" (`index.ts:2635`).
- **A silent peer after the timeout** (`loopback_timeout`). A request that comes after the timer
  has fired, on a connection opened before, is consumed; `finish` returns because the outcome is
  settled, nothing answers, and `server.close` waits for that connection
  (`oauth-loopback.ts:65-103, 256-262`). The login holds the refresh mutex until the peer hangs
  up.

Two more disagreements have no run. `allowedCounterparties` is kept and reported, and the simulation
refuses others, but neither `preflightTransfer` nor `resolveSigningBackend` (`wallet.ts:595-642`)
reads it, though `wallet_safety.ts:161` promises to sign only inside the "counterparty policy":
`SignedAsSimulated` excepts the counterparty for that reason, and does not hold otherwise. The scan of
seats starts at `max(4000, head - 200000)` (`clusters.ts:1085`), so that a seat advertised earlier
and still open is not found, though the answer says that "an empty list means no vacancy is currently
advertised" (`clusters.ts:1116`): `SeatListIsExact` speaks of adverts inside the window.

Other behaviour a reader of the commerce and provider code should know of, none of it promised
otherwise: two first calls that each create a key file leave one configuration unreadable
(`duffel.ts:55`); `travala_proxy_call` forwards any tool, though it is described as read-only
access; `resolveConnector` called with a connector's id ignores whether it is enabled and whose it
is.

Two more disagreements of the spending code can be seen by changing the constants or the plans,
and limit what these are set to:

- A release with the target `failed` (`ReleaseTargets`) is not gated by `allowExpired`
  (`index.ts:5101`), and the amount of such a payload moves to no bucket when it is retried. The
  runs about the books release as expired only.
- After a broadcast whose answer was lost the entry is still `signed`. A status query by tx hash
  (`ByHash`) confirms it without moving the amount out of `reserved` (`index.ts:1577`). The amount
  stays locked, so the limit is safe, but the bucket is not the one `README.md:679` names.

## 4. Proofs

`SteleOAuthSessionProofs` proves, assuming only `ConstantsAssumption` (the limit is a positive
number and the names are distinct), for any number of processes and families and any limit:

| Theorem | Property |
|---|---|
| `Inductive` | `IInv` |
| `TypeCorrect` | `TypeOK` |
| `CustodyKept` | `Custody` |
| `StoredTokenPresented` | `PresentsStoredToken` |
| `ResultsCommitted` | `ResultsAreCommitted` |
| `NeverDropped` | `LiveTokenNeverDropped` |
| `NeverRegresses` | `RecordNeverRegresses` |

The argument. `IInv` is a conjunction of named parts, each about one thing the code relies on
without saying so:

- `MutexInv`: a process is inside the guarded operation exactly when it holds the port. All
  other parts use it to know that at most one process can touch the store (`OneInside`).
- `CurrentInv`: what the process inside read is still in the store until it writes; once it
  has obtained a replacement, or had a revocation accepted, the token it read is dead. This is
  where `LiveTokenNeverDropped` comes from: every write happens after that point.
- `NewInv`: what it obtained is the newest token of its family and not an orphan, and when
  it stops being held it is dead, stored or an orphan (`Settled`).
- `UndoInv`: what a compensation retains. In particular, while the replacement's revocation is
  not confirmed, it is the replacement that is retained, and a rotation that did reach the
  store is never rolled back, from which `RecordNeverRegresses` follows.
- `TokensInv`: only issued tokens are stored or orphaned, and the stored one is no orphan.

None of the safety properties is inductive alone: `Custody`, for one, needs to know at each
return that what is in hand has been settled. Each part has a lemma with one step per action it
can be disturbed by; `StepIInv` puts them together, and the two action properties follow from
`IInv` at the steps that write the store.

`LowValueSpendProofs` proves, from `ConstantsAssumption` of `LowValueSpend` (numbers, a set of known
release targets, a null that is no payload), for any number of overlapping calls, payloads, days
and faults:

| Theorem | Property |
|---|---|
| `Inductive` | `IInv` |
| `TypeCorrect` | `TypeOK`: no bucket goes negative, every file can be read back |
| `OutboxIsWarranted` | `StatusIsWarranted` |

The argument. Since any rename may install an old draft, what is in the outbox is not enough:
`IInv` also says of each draft that it was warranted when it was read (`CallInv`), and of each
call that what it is about to record, the chain has already said. What warrants an entry only
grows (a signed payload stays signed, an included one included: `Grows`), so an old draft is
warranted whenever it is installed (`StillWarranted`), and a call that does not move keeps its
part (`Frame`). There is one lemma for each action.

The second half is about the books, under the plans of `LowValueSpendPlans` but for any number of
payloads, amounts, faults and days; it adds `NullAssumption` (the null is no policy, entry or call)
and `CallsAssumption` (there is a call):

| Theorem | Property |
|---|---|
| `PlanInvariance` | `PlanIInv` |
| `BooksAddUpAlways` | `BooksAddUp`, in the plans *releases* and *faults* |
| `LimitHolds` | `LimitHoldsOneByOne` |
| `EntriesFollowTheChain` | `EntryFollowsChain`, in the three plans with one call at a time |

What one caller relies on, and `lowvalue_limit` shows two callers cannot, is that nothing moves
between its read of a file and its write. `PlanIInv` puts this in words and draws the consequences:

- `SequentialInv`: the entry is as the call found it (`was`) or left it (`to`), and the outbox it
  is about to write differs from the file in that entry only. From this alone an entry leaves
  `submitted` and `confirmed` only for what the chain says.
- `DayInv`: in the plans of one day, no policy is dropped and no books are reset, and the policy a
  call is about to write is the one in the file with one amount reserved or moved.
- `LedgerInv`: `Bucket` says where the amount of a payload is at every point of a call: not yet
  anywhere before it is reserved, already in the target while a release has moved it and not yet
  written the status, still in the old bucket while a status query has written and not yet moved.
  Each bucket holds exactly what is in it. Therefore a move always finds its amount there, and the
  clamp at zero is never used.
- `CoverInv`: with crashes equality is lost, since a call may end after either of its two writes.
  What remains is that the locked sum is at least what can still be spent, together with what has
  failed and is about to be taken out (`TakenOut`). Without the second part a failure could take
  out of the books what another payload has reserved.

The sums are over sets of any finite size, and the fold of the library computes them one chosen
element at a time. In the module `Sums`, `Sum` is that fold as a function on the subsets of a set (`FoldUnfolds`), and
its laws (`SumTakes`, `SumUnion`, `SumGrows`) follow from the well-foundedness of the subsets of a
finite set: a law that fails somewhere fails on a smallest subset. That the signed payloads are
finitely many is part of `PlanIInv`, not an assumption. Each step changes the place of one
payload's amount at most, so that each action needs only `SumAdds` or `SumTakes`. At a moment at
which no call is between two writes (`Settled`) the sums of `LedgerInv` and `CoverInv` are those of
`BooksAddUp`; and the check before signing is such a moment, whence `LimitHolds`.

`CommerceStoresProofs` proves, from `ConstantsAssumption` and `NullAssumption` of
`CommerceStores`, for any number of overlapping calls and records:

| Theorem | Property |
|---|---|
| `Invariance` | `IInv` |
| `TypeCorrectness` | `TypeOK` |
| `Coherence` | `RecordsCohere` |
| `Finality` | `FinishedStaysFinished` |
| `Retention` | `FactsAreKept` |

The argument. `RecordsCohere` is not inductive, because a rename installs a draft made earlier and
a merge takes a patch made earlier still. `CallInv` says of a patch that it brings with its status
whatever the status claims (`Sound`), so that merging it into *any* coherent record gives a
coherent one; of a draft that all its records cohere; and, as long as the call was not overtaken,
that the step from the present file to the draft is one its tool may make (`Step`). A write by
another call sets `overtaken`, after which only the first two are needed. `DecideHolds`,
`DraftHolds` and the lemmas about `Merged` and `Normal` carry this through one lemma for each
tool; `Finality` and `Retention` then read `Step` off at the only action that changes the file.

### The refinement

`CustodyImplemented` (in `SteleOAuthSessionProofs`) proves `ImplementsGrantCustody`, for any number
of processes, grants and rotations. Every step of the session is of one of five kinds: it issues the
first token of a family (`IssueKind`), exchanges one for the next (`RotateKind`), leaves the server
as it is and may write the store (`StoreKind`), loses track of a token (`LoseKind`), or ends a
family (`EndKind`). Each kind maps to a step of `GrantCustody` or to a stutter. What makes the mapping go through is `IInv`: a token comes to rest
only where nothing alive is in the slot (`CurrentInv`), and no return lets one go (`Custody`). It
also needs that only families that were issued are ever revoked (`RevokedAreIssued`), an invariant
of its own.

### AgentWallet

From `ConstantsAssumption` and `NoFileAssumption`, for any number of administrators, ids and faults:

| Theorem | Property |
|---|---|
| `TypesAreKept` | `TypeOK` |
| `CommitmentHasItsSeed` | `ConfiguredHasItsSeed` |
| `SeedsAreKept` | no seed is overwritten or removed |
| `WalletInvariance` | `IInv` |
| `OneWallet` | `AtMostOneSeed` |
| `ReportsAreTrue` | `OutcomesAreTrue` |
| `NothingUndone` | `NothingIsUndone` |
| `ClearsOnlyEmpty` | `ClearsOnlyWithoutSeed` |

The first three hold however many repairs overlap. `SeedInv` says that an id belongs to one creation
(`IdsInv`) and that whoever is about to commit a record has found the record's seed in the keyring
(`CallInv`); seeds are never removed, so it is still there when the rename happens.

The others are proved of behaviours in which no two repairs overlap, `[]OneRepairAtATime`: with two
of them they are false (run `wallet_cleared`), and nothing in the code keeps two apart. What `IInv`
adds under that condition: whatever a process is about to replace is what it read (`seen[p] = file`
at every rename), because the marker of a creation under way stays active and its own
(`CreationInv`), and a repair works on a marker only when the creation behind it is over
(`RepairInv`); and every seed in the keyring is the one the file names.

### The edges

`SteleEdgesProofs`, from `RequestsAssumption` and `BoundsAssumption`, for any number of connections,
operators, requests and chunks:

| Theorem | Property |
|---|---|
| `EdgesInvariance` | `EdgesIInv` |
| `EdgesTypes` | `EdgesTypeOK` |
| `FirstIsTold` | `LoginIsToldTheFirst` |
| `BodiesAreClosed` | `NoBodyLeaks` |
| `BudgetIsKept` | `NothingOutlivesTheBudget` |
| `IdentityComesFirst` | `ServicesFollowIdentity` |

`EdgesIInv` is one inductive invariant for each of the three. A loopback is either still waiting or
has decided, with the outcome on its way or delivered and nobody let in any more (`Awaiting`,
`Decided`). A request of a discovery is aborted by the time the budget is spent, also when its
promise has been resolved and the code behind it has not run yet (`AbortsAreSeen`), and a body is
open only while a request that will cancel it is under way (`BodiesAreOwned`). A tool call at each
of its steps has heard exactly the parties it may go on from (`Knows`).

### The market

`SpendingProofs` and `MarketProofs` prove about `Market`, whatever its constants are within the
assumptions it states:

| Theorem | Property |
|---|---|
| `CheckoutInvariance`, `WalletInvariance`, `GateInvariance`, `SealedInvariance`, `SeatsInvariance`, `ReadsInvariance`, `DelegationInvariance` | the inductive invariant of each part |
| `OrdersKnown` | `OrdersAreAccountedFor` |
| `SwapsCovered` | `SwapsAreApproved` |
| `SigningHolds` | `HotSigningHolds` |
| `AdviceHolds` | `ReportsAgree` |
| `PoliciesHeeded` | `OrdersHeedPolicies` |
| `PoliciesKept` | `PoliciesAreKept` |
| `SecretsAreKept` | `SecretsSurvive` |
| `SeatListExact` | `SeatListIsExact` |
| `AnswersHonest` | `AnswersAreHonest` |
| `DraftsHonest` | `DraftsAreHonest` |
| `TypesKept` | `MarketTypeOK` |
| `CommerceInMarket` | `MarketSpec` implies the `Spec` of `CommerceStores`, so that its five theorems hold in `Market` |

The assumptions are about the form of what tools are given (`GateAssumption`, `LimitsAssumption`),
finite sets where something is counted (`CheckoutAssumption`, `ReadsAssumption`), positive sizes
(`SeatsAssumption`) and a null that is none of the values it stands beside (all of them,
`SecretsAssumption` above all). `DelegationAssumption` says of the phase that its cap times its
minimum of clusters is at least the whole, which is so of the three in `delegation.ts` (25 % of 4,
15 % of 7, 10 % of 10): with a smaller product a rebalancing over the
minimum of clusters would exceed the cap. The arguments:

- *Checkout.* After its post a call has an order that it placed or was given, and the reply it goes
  by is still true where its receipt will say so (`Knows`); an order is settled only when somebody
  paid (`SettledArePaid`). An approval is counted when it is given and used when the post goes out,
  so what is bounded is swaps placed *plus* swaps cleared whose post is undecided
  (`ApprovalsCover`). A reply that gets lost leaves the swap placed and the call gone: the sum
  does not grow.
- *Hot wallet.* Any rename may install an old draft, so that what is in the file is not enough.
  While a pause holds ("alone"), the file is marked as paused and so is every draft of every call
  and of the transfer, and no limits call is under way (`PauseIsMarked`): whatever is renamed keeps
  the mark. A draft in the marking half of a pause is always marked, and a record without a policy
  has no caps, drafts included (`DraftsAreRecords`), from which `ReportsAgree` follows. The stage of
  a transfer says which checks it has passed, at which moment (`ChecksWereMade`).
- *Merchant gate.* A denial that stands is in the file, no policy call for its vendor is under way,
  and an order that began under it, once it has read the policy, has read the denial
  (`DenialStands`).
- *Sealed stores.* Unless two calls each made a key, every key in use, in a record or in a call's
  hands, is the one in the key file, and none is in use while the file is being created
  (`OneKey`). Hence a crash between creating the file and filling it loses nothing that was
  accepted, though the empty key stays. A call's reading is the store, or is marked as outdated
  (`ReadIsCurrent`); it seals with the key its record was sealed with (`HasKey`, `RightKey`).
- *Seats.* Since a seat may be closed and advertised again, what the events before the window did
  cannot be known. The invariant is therefore about every range of blocks from some `f` to some
  height `h`: if the events of the range, folded by kind, say that the seat is open, it is
  (`OpenIfSaid`: the last close, or else the last advert, left it open, and what filled it would show
  in the counts); if the range has an event of it and none left it other than open, it is open
  (`OpenIfStays`); and if it was advertised in the range and stayed open, the greatest count of the
  range is that of the market, and the applications are at least those that stand or were admitted
  (`CountsFollow`; a withdrawal takes away from the market only). A new event extends each range by
  one block, and the range that begins after it is empty. A batch, as far as it has been read, is
  what the chain holds of the range (`ScanFollows`), whatever was added above the head meanwhile.
- *Reads.* What a read told was so at some moment of the call, and it told all it was asked, or
  failed and told nothing (`ToldWasSo`). An answer rests on reads that were asked for before it was
  given (`ReadsAreAsked`), and its hits are what the reads make them (`AnswerFollows`).
- *Delegations.* The draft looks at one cluster, the status at all of them. What carries one over
  to the other is that an addition makes the total grow by itself (`SumChanges`): the share of any
  other cluster shrinks, and that of the chosen one is what the draft compared (`DraftFollows`). An
  answer of `OverCap` bounds the stake whichever way it goes: "not over" says that it is at most
  the cap, "over" that it is at least the cap. That is all the two directions of
  `DraftsAreHonest` need. A rebalancing gives every candidate the same amount, so that the total is
  that amount times their number (`SumOfEqual`), and by `DelegationAssumption` a minimum of equal
  shares is within the cap; with more of them it is below it.
- *Types.* The invariants above contain them but for two. That a sealed record's key was drawn
  needs a word about the records calls have read and the keys they hold (`KeysWereDrawn`). That a
  listed seat's count is one of the events' needs the largest of a bounded set of numbers to exist
  (`LargestExists`), and that nothing is listed before the answer.

### Only model-checked

- `LowValueSpend` with overlapping calls beyond the outbox (the plan *concurrent*): what the books
  promise does not hold there, as `lowvalue_limit` shows.
- `DailyLimitHolds`, `PausedCannotSign`, `TimeoutIsBounded` and the other
  properties that a run shows to be violated.
- `EveryCallReturns`, `MarkersAreReconciled`, `AttemptsEnd`, `ReadsReturn`: liveness under fairness
  is out of the prover's reach.

## 5. Not modelled

- Contents and validation of replies, headers and records, wherever it only tells success from
  failure.
- The native store's own concurrency: each of its calls is atomic.
- Durability below the file system: a directory whose synchronization failed keeps what it had.
- Tools that format one read or encode an unsigned request: node and network status, explorers,
  the address book, bridges, runbooks, key derivation, charter drafts, readiness and security
  reports. They keep nothing between calls.
- Creating, importing and deleting wallets, and their key files: the key file is created like
  those of `SealedStores`.
- Components with the status `not_modelled` in `PROJECT.json`, each with its reason there.

## 6. Plan

1. An abstract allowance, from which amounts are reserved and settled once, implemented by
   `LowValueSpend` with one caller.
2. Several wallets in one `wallets.json`, with their creation, import and deletion.
