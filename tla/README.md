# A verification of nano-mcp

TLA+ models of nano-mcp, the runs that model-check them with TLC, and theorems
about them that TLAPS proves. Paths are relative to the repository root;
`X` runs as `tlc -config X.cfg <module>` with the modules of the table under
"Runs", and `tlapm <module>Proofs.tla` checks the proofs.

## 1. The system

nano-mcp lets a service charge an agent for a call in Nano (XNO), without
custody: the service derives a one-time address for each request, the agent
sends the price there, and the service looks at the chain.

| component | source | state it keeps | operations |
|---|---|---|---|
| ClaimStore | `nano_mcp/facilitator.py` | table `claims` in SQLite (WAL), `_migration_pending` | open and migrate, `claim`, `_claim_spellings`, `is_claimed` |
| Facilitator, ResourceApp, PaidToolServer | `facilitator.py`, `httpx402.py`, `paidtool.py` | the claim store | `verify`, `settle`, `begin`, `complete`, `request`, `execute` |
| ApprovalStore | `nano_mcp/store.py` | `approvals`, `quote_expiry`, `quote_price` in SQLite (rollback journal) | `claim`, `get`, `record_quote_expiry`, `record_quote_price`, `quote_price`, `quote_expiry` |
| PaymentService, MCP server | `service.py`, `server.py` | the approval store | `quote`, `quote_usd`, `verify_payment`, and the tools over them |
| Wallet | `nano_sdk/wallet.py` | `_day`, `_spend` in memory | `send`, `receive`, `check_send` |
| SessionWallet, Mandate | `nano_sdk/buyer.py` | `_day`, `_daily_spend`, `_session_spent` in memory | `send`, `check_spend`; `issue_mandate`, `verify_mandate` |
| RpcClient | `nano_sdk/client.py` | none | `call` and the RPC actions |
| directory handshake | `tools/directory_handshake.py` | queue, list and two threads of one call | `handshake` |
| one-time addresses | `nano_mcp/oneshot.py` | none | `derive_one_time_account` |
| clients | `nano_mcp/httpx402.py` (`pay_and_fetch`), an agent at `paidtool.py` | the offer and the proof of a call | ask, pay, present the proof |
| pricing | `nano_mcp/pricing.py` | none | `fetch_median_xno_usd`, `median`, `usd_to_xno_raw` |
| crypto, block, units | `nano_sdk/` | none | keys, state blocks, amounts |
| evidence, journal, scorecard | `nano_mcp/evidence.py`, `journaldb.py`, `scorecard.py` | the journal of receipts, `raw/*.json`, `published.json`, `manifest.json` | `append_nano_tx`, the commands `build` and `verify` |
| operator scripts | `tools/evidence_*`, `tools/receive_funding.py` | reports of the project's progress | |

How they interact. The MCP server calls PaymentService in threads of one
process, and nothing stops two server processes from using one `approvals.db`.
HTTP handlers (one thread each) and the MCP tools of PaidToolServer call
`ResourceApp.complete`, which calls `Facilitator.verify` and `settle`; these
ask at least two RPC endpoints, and `settle` takes the claim. `/settle` may
also be served to others, by the same facilitator. The wallets talk to one
node through RpcClient: `account_info`, `work_generate`, `process`. `quote_usd`
takes its rate from the price sources. The commands of the scorecard share files
and a journal with whoever writes receipts and raw records, and have no lock.

What is hard in it, and what must hold:

- *ClaimStore.* Several handles of two releases write one file whose keys are
  spelt in several ways; the migration may fail at any statement; a process may
  die in a transaction. A payment must be won once in any spelling, and
  `is_claimed` must say so.
- *The handshake over x402.* Threads present one proof together; endpoints
  fail, lie, and change their minds between two rounds; a process dies between
  claim and answer. Nothing may be served unpaid or twice.
- *Its clients.* A client hangs up, pays without learning the hash, presents a
  proof again while its first request is still being handled, or before its
  block is confirmed anywhere. What is taken must be delivered, and one who keeps
  presenting a proof over sound connections must be served.
- *ApprovalStore and PaymentService.* Each method takes a lock that covers one
  process, while the file is shared; commits fail; transactions stay open. A
  request must be approved once, never below its quote, and calls must end.
- *Pricing.* Sources fail, an even number of rates has two in the middle, and the
  quotient must be rounded the right way. The seller must not get less than the
  dollars quoted.
- *Wallets.* A send reads the account, checks, and publishes with the world
  moving in between; answers are lost; midnight comes at any point; counters
  live in memory. What is sent must be what was asked, within the caps.
- *Directory handshake.* Two reader threads, a server that may hang, die, or
  leave a process behind that holds its pipes. The report must not be short
  without saying so, and the probe must end.
- *Scorecard.* A build reads four things one after the other and writes two files
  that are emptied before they are filled, while receipts, records, other builds
  and verifications come in between. Our own payments must not be counted, and a
  verification must pass or fail for a reason.

The `hazards` of `PROJECT.json` list these one by one, at their lines.

## 2. The modules

```
SingleUse  <--implements--  ClaimStore  <--  ClaimStoreProofs      MCClaimStore
    ^
    |  (the claim store, as an instance)
PaidResource                                                       MCPaidResource
    ^
    |  <--  PaidResourceProofs (of both)
PayingClient  --implements-->  Purchase                            MCPayingClient

SharedFile (external: SQLite) and Pricing
    ^
    |
PaymentService  <--  PaymentServiceProofs                          MCPaymentService
Pricing         <--  PricingProofs

NanoLedger (external: node, clock)  <--  Wallet  <--  WalletProofs            MCWallet
                                    <--  SessionWallet  <--  SessionWalletProofs
                                                                   MCSessionWallet

Scorecard  <--  ScorecardProofs                                    MCScorecard
Handshake  <--  HandshakeProofs
```

**SingleUse** is what a claim store promises, without a database: a binding (a
block hash with a request_id) is won once, and not after a foreign claim.

**ClaimStore** has the store's handles as processes. A key is a binding and a
spelling; the canonical spelling is `Upper`, and `Newline` holds the spellings
with `"\n"` after the hash that the previous release let through. `rows` is
what is committed, `writer` and `txn` the one open write transaction, `pending`
is `_migration_pending`. `self._lock` makes each handle sequential, so the
interleaving is that of handles through SQLite's write lock; a transaction is a
step for its body and a step for its COMMIT. `CheckMigration`, `Migrate`,
`CommitMigration` and `SkipMigration` are `_migrate_locked`; `Call`, `Refuse`,
`Insert`, `CommitClaim`, `Raise` are `_claim_spellings`. `OldOpen`, `OldCall`,
`OldRefuse`, `OldInsert` are the previous release, which is external: its code is
not in the repository. They are modelled from what this release does about the
rows it left: that it claims the key as sent, in any spelling, is what
`_MIGRATE_SQL` and the lookups of `_claim_spellings` are there for. `MixedReleases`
says whether the two releases may run together, which the upgrade notes advise
against.

**PaidResource** is the x402 exchange. `chain` and `confirmed` are the network;
each thread runs verify and settle as rounds of one endpoint per step
(`AskYes`, `AskNo`), claims (`Claim`, `Duplicate`, `ClaimRaises`) and serves.
The claim store is an instance of `SingleUse`. A payee is a request_id, since
`derive_one_time_account` gives each request its own address; `/settle`
(`PostSettle`) takes payee, request_id and amount from its caller (`exact` says
that the amount is the price of the resource, which the resource server asks for). `Faulty` endpoints
may confirm anything; any endpoint may fail or lag.

**Purchase** is what the exchange promises to who pays: a payment is taken once,
what is taken is delivered, and only a payment outside `Safe` may be lost.
**PayingClient** puts clients over PaidResource. A call is `Ask` (the first
request, answered with an offer), `Pay` or `PayRaises` (the block is out, its
hash unknown), `Present`, and an answer: each end of `complete` in the handler is
composed with what the listening client hears (`RespondServed`,
`RespondRefused`, `RespondSpent`, `RespondNothing`), or nobody hears it
(`HangUp`). `ConfirmLate` confirms a block at any later moment. `pay_and_fetch`
presents a proof once; what its caller does next is left open. A steady client
presents its proof again until it is served, is not cut off, and its handlers do
not die; an unsteady one fails in every way. The refinement maps a block to
`taken` while the handler that claimed it is about to answer a client that still
listens.

**SharedFile** is SQLite as ApprovalStore uses it: Python's sqlite3 opens a
transaction before an INSERT and keeps it until `commit()`; there are shared,
reserved and pending locks. **PaymentService** runs `quote`, `quote_usd` and
`verify_payment` in threads over it. A store method is one step, except where
something can come in between: `record_quote_price` reads and writes in two
steps (another process may write in between) and `record_quote_expiry` commits
after it let go of `self._lock`. A statement that waits for another process's lock may give up after the busy
timeout, however short the holder means to keep it (`WriteTimesOut`,
`ReadTimesOut`). A write may also fail for another reason, a full disk or an I/O
error (`WriteFails`): SQLite then rolls back all that the connection has written,
other threads' rows included, while after a commit that fails on a lock the rows
stay in the open transaction. `Window` is the length of
history `account_history` is asked for (20 in the code); the payments of an
address are a sequence of which `Recent` are the last entries.

**Pricing** has the median and the raw amount as operators. A decimal is a
natural number of a small unit; the mean of two rates may need half a unit, so
the median is carried twice over. `QuoteUsd` draws its rate from every
combination of answers and failures of the sources that has a median.

**NanoLedger** is the node as the wallets see it, and the UTC day, which may
change between any two steps. **Wallet** has callers
that share one Wallet object; a send is `AccountInfo`, `CheckSend`,
`ProcessedSend`, `RollForSend`, `RecordSend`, with the failures of each.
`_record_send` is two steps since it reads the clock twice. `faults`, chosen at the
start, is what may go wrong; `"unopened"` in it stands for RpcClient, which raises on
an unopened account, where the subclass of `tools/receive_funding.py` answers. **SessionWallet** has one agent for each session; its check
is two steps since it reads the clock twice.

**Handshake** is one call of `handshake` as three threads, the server and a
process it may leave behind. A line on stdout is named for what `handshake`
makes of it, a text on stderr for who wrote it (`"junk"` is bytes that do not
decode).

**Scorecard** has each run of `build` and of `verify` as a process. Every reading
of a file is a step, and so are emptying and filling a file (`Path.write_text`).
`LoadRails`, `LoadX402`, `CountExternal`, `CountOwn` are `build`, which the build
command and verify both call; `OpenPublished` to `FillManifest` are the rest of
the build command, `StartVerify` and `Judge` the rest of verify. A share is the
pair of numerator and denominator, compared as an exact ratio where the code
compares the floats of equal divisions. `AppendNanoTx` is a writer whose own list
may differ from the one the scorecard is given.

## 3. Runs

Passing runs (bounds in parentheses):

| run | module | shows |
|---|---|---|
| ClaimStore | MCClaimStore | one win for a payment in any spelling (refinement of SingleUse); one settlement for each spelling; `is_claimed` tells the truth; claims are answered and the write lock is let go; the inductive invariant (2 handles, 2 bindings, 3 spellings, releases one at a time) |
| PayOneProcess | MCPaymentService | the floor only rises, covers the dollars at the median of three sources that may fail, and is what a claim was paid; "spent" is said of what is on disk; any write may fail (2 threads, 1 request, 2 prices, 2 rates, clock to 2, TTL 1, window 1, 2 payments) |
| PayTwoProcesses | MCPaymentService | the inductive invariant; one approval, on disk; every call is answered; a payer who asks on is approved (1 thread in each of 2 processes, 2 requests, window 1, 2 payments; `Few` narrows what is asked and paid) |
| PaidSafety | MCPaidResource | served once, paid, spent; the inductive invariant (2 threads, 2 blocks, 2 requests, 2 endpoints of which 1 faulty) |
| PayClient | MCPayingClient | refinement of Purchase; a handler for who waits, and "spent" only for who was cut off; a steady client is served (a steady and an unsteady client, a steady and an unsteady handler, 2 blocks, 2 requests, 2 endpoints that may fail or lag) |
| Wallet | MCWallet | a send moves what was asked, whatever overlaps and fails; the daily cap of calls that take turns, and its inductive invariant; a receive lands, an open block included (2 callers, 2 accounts, 3 days; no fault, the node's only, or every one) |
| SessionWallet | MCSessionWallet | the caps of a reliable session and an inductive invariant; an expired mandate costs at most the one send that it overtook between its check and its block, restarts and lost answers included (2 sessions, 3 days) |
| Scorecard | MCScorecard | what is counted, what is published, what PASS and FAIL mean (2 builds, 1 verification, 1 figure, 2 values, 2 dates, counts 0 and 1, 2 raw records, 1 receipt) |
| Handshake | Handshake | reader threads, report, the end of the server; a healthy server fails only by being late; the probe comes to an end (2 lines of any kind, 2 texts) |

Why the bounds are enough. The claim store's races need one handle that waits
and one that acts; a third adds another waiter. Three spellings are the kinds
there are: canonical, other hex case, trailing newline. Two endpoints are the
fewest the code accepts. Two prices are what a lost update needs; a clock to 2
with a window of 1 has a moment before, at and after expiry. A window of 1 and
two payments have an earlier payment outside the window. PayTwoProcesses
needs two requests: a commit of an approval fails only after the approval of
another has left a lock behind. Two requests at large are too many states for a
liveness check, so `Few` (MCPaymentService) bounds what arrives from outside: one
request is quoted in dollars, paid 1 or 2, or 2 after 1, and verified, the other
is paid 1 and verified, and a verification names an amount of 1. It keeps no step
of a call from happening, and NeverTwice and the inductive invariant are proved
without it. In PayClient each client has one block to pay with, since what a
steady client owes nobody else's blocks should disturb; the unsteady one may ask
and present again without end. In Scorecard two builds are what an overlap needs,
and a verification beside them; two values are told apart or not, two dates allow
a late record of an earlier date. Values and builds are interchangeable, hence
the symmetry; Scorecard's properties are of states and of steps, for which it is
sound. One receipt there is an own one or another's, by a writer whose list is
right or empty; ScorecardProofs has any number. Three days hold a
midnight before and after a send, and in SessionWallet two days that follow the
last one of the second mandate. The amounts of the wallet runs include 0, one
within the cap and one at it, which together exceed cap and balance. In Handshake two lines are a
wrong and a right answer, and two texts one from each writer.

In SessionWallet the two sessions are unlike: the first is reliable (only the
node may refuse it) and owes its caps, the second restarts and loses answers and
owes only its expiry: after it has passed, whatever is lost and restarted, no
second block. Handshake's `healthy` is chosen at the start, so that one
run has the healthy server and the one that does as it likes.

Runs that show a disagreement between the code and what it says of itself (each
is a finding in `PROJECT.json`, with the line it quotes):

| run | what happens |
|---|---|
| PayLockLeak | a refused claim keeps the write lock and another process's claim fails |
| PaySpentUnsaved | a claim whose commit fails on a lock (`nano_mcp/store.py:122`) leaves its row in the open transaction, and its process answers "spent" to a request that nobody was approved for and that is not on disk |
| HandBytes | a text that does not decode ends the stderr reader, and the report is short without saying so |

Other places where the models do something else than a comment or docstring
says. No run is kept for these, and the properties above are stated so as not
to claim them:

- `nano_sdk/client.py:78`: `receive` begins with `account_info`, on which
  RpcClient raises for an unopened account, so that it cannot build the open
  block of its docstring (`wallet.py:230`). With `"unopened"` in
  `faults` no receive of such an account lands; `tools/receive_funding.py` brings its own client.
- `nano_sdk/wallet.py:212`: a block whose answer was lost is not counted
  against the cap. `nano_sdk/wallet.py:90`: the tracker is emptied at midnight
  UTC, where `wallet.py:87` says "rolling 24h".
- `nano_sdk/buyer.py:238`: each session counts its own sends of the day, so that
  two sessions of one owner together may exceed the cap that `buyer.py:212` calls
  "owner-wide". `:239`: the counters are lost with the program, so that a
  session that starts again has its mandate's whole cap again. No property claims
  a cap across sessions or restarts.
- `nano_mcp/store.py:150`: `record_quote_expiry` commits after it let go of
  `self._lock`. If another thread's write fails on the disk in between, its rollback
  takes the expiry along, the commit has nothing to commit, and the dollar quote
  that is answered has no expiry on record (the docstring, `:142-143`, says that the
  expiry is remembered). No property claims that it is.
- `nano_mcp/store.py:161`: two processes that record quotes for one request may
  write the lower one last, where the docstring says "The recorded floor only
  ever rises" (`store.py:159`). PayOneProcess checks it for the threads of one
  process, and with two processes `FloorNeverLowered` fails.
- `nano_mcp/service.py:203`: the honour window is compared with the time of the
  verification, so that a payment made in time and verified late is refused, and
  one made late is approved once a new dollar quote has moved the window.
- `nano_mcp/service.py:153`: a send nobody has pocketed is not in
  `account_history`, and stays "pending" (the docstring, `:148-149`, says that
  it is accepted).
- `nano_mcp/facilitator.py:765`: the claim binds a proof to a request_id of the
  caller's, so that `/settle` settles one proof for two requests; the resource
  server does not serve it twice (`ServedOnce`).
- `nano_mcp/paidtool.py:127`: a handler that fails after the claim has consumed
  the payment. The proof names no tool: it buys whatever `tool_name` is executed
  with it.
- `nano_mcp/httpx402.py:365`: `pay_and_fetch` presents its proof once. A block
  that is not confirmed on every endpoint by then is refused, and the payment is
  taken only if the caller presents it again (`SteadyServed` is about a caller
  that does).
- `nano_mcp/pricing.py:70`: a source that answers NaN is not among the failures
  `fetch_median_xno_usd` tolerates; `sorted` then raises
  `decimal.InvalidOperation`. `Pricing` has finite rates only. The honour window
  of `quote_usd` begins after the rates were fetched.
- `nano_mcp/scorecard.py:208`: "Every published figure must equal the rebuild",
  but verify does not compare the x402 count, the volume, the receipts counted or
  excluded: with a share of 0 any count passes, and a rail whose figures are not
  yet in the committed file goes unnoticed. `:296`: with `--journal` the receipts
  are read before the publication, so that a verification may fail because its list
  is older; the model has the journal database, which is read after it.
- `nano_mcp/scorecard.py:291`: publication and manifest are written one after the
  other, so that a build that dies, or two that overlap, leave files of different
  builds. `ManifestAgrees` is about files of one build, and nothing reads the
  manifest to notice.
- `nano_mcp/service.py:132`: a `quote_usd` that fails after it has recorded the
  expiry leaves it on record, and an earlier quote of the request may be refused
  by it as late.
- `nano_mcp/scorecard.py:180`: the manifest hashes figures rather than "the raw
  record(s)", and verify never reads it.
- `nano_mcp/scorecard.py:163`: the receipts excluded as ours are counted in a
  second reading of the journal, and need not be those the first left out; with
  an empty `--own` nobody is excluded. `nano_mcp/evidence.py`: a payment
  journalled twice counts twice, and outside the tests nothing calls
  `append_nano_tx`.
- `nano_sdk/wallet.py:104`: adding to `_spend` is not atomic, so that of two threads one
  amount may be lost. The model adds in one step; no cap is claimed for
  calls that overlap.
- `tools/directory_handshake.py:214`: a JSON scalar on stdout raises out of
  `handshake` (`main = "raised"` in the model). `:175`: the list of texts is
  joined before the readers are looked at, so that what a left-behind process
  writes in between is lost without a mark.

Deadlock is checked except in the runs of Handshake, which ends, and in
Scorecard, whose runs and inputs are bounded.

Fairness. ClaimStore, Wallet and Handshake assume weak fairness of the
steps of a call or a thread: the code runs in operating-system threads, busy
timeouts and HTTP timeouts bound each wait, and nothing is assumed of the
server that Handshake probes. PayTwoProcesses assumes weak fairness of the steps
of a call: a statement that waits for a lock ends with its busy timeout at the
latest, so that nobody waits for ever. No write has to fail otherwise, nor does any
have to succeed, and nothing is assumed of callers, payers, the node or restarts:
`PaidIsApproved` states what it needs as its hypotheses (the node is asked about a
payment inside the window, with an answer, again and again; in the end no call fails
on a lock or the disk; restarts stop). A node that never answers, a payment nobody
pockets and one behind the newest 20 entries are outside it, and stay pending.
PayClient assumes weak
fairness of the network's confirmation of a block and of the handlers that do
not fail, and strong fairness of a steady client's `Present`: the server has a
thread for each connection, of which the model has two, so that a client that
wants one gets it if one is free again and again.

## 4. Proofs

| theorem | says | assumes |
|---|---|---|
| ClaimStoreProofs `Invariance`, `TypeCorrect` | the inductive invariant `IInv`, types included | |
| `SpellingOnce` | one settlement for each spelling, even with both releases running together | |
| `IsClaimedCorrect` | `is_claimed` answers for every spelling | `~MixedReleases` |
| `ImplementsSingleUse` | ClaimStore implements SingleUse | `~MixedReleases` |
| PaidResourceProofs `Invariance` | the inductive invariant `IInv` | `Truthful` |
| `SettledPaid`, `OnePaymentOneResult`, `ServedSpent` | paid, served once, spent | `Truthful` |
| `ExchangeInvariance` | `ClientInv`: a handler for who waits, "spent" only for who was cut off, and nobody else takes a steady client's block | `Truthful` |
| `ImplementsPurchase` | PayingClient implements Purchase | `Truthful` |
| WalletProofs `TakesWhatWasAsked` | a send moves what was asked | |
| `CapInvariance`, `DayCapSafe` | while calls take turns and get their answers (`Sequential`), the tracker holds the day's sends, which stay within the cap, for any number of callers | |
| SessionWalletProofs `CapInvariance` | the inductive invariant `CapInv` | |
| `SessionCapSafe`, `SessionDayCapSafe` | a reliable session stays within its mandate and the daily cap, whatever the others do | |
| `ExpiredCostsLittle` | after a mandate's expiry one block at most, of the send it overtook, within the mandate's cap | |
| PricingProofs `MedianInTheMiddle` | half of the healthy rates are on either side of the median | 1 healthy source |
| `LeastCoveringAmount` | the raw amount is the least that covers the price | |
| PaymentServiceProofs `Invariance` | the inductive invariant `IInv` | |
| `NeverTwice`, `SellerCovered` | one approval, on disk; a dollar quote's floor covers its dollars | |
| `FloorOnlyRises`, `PaysTheQuote` | the floor only rises; a claim was paid what was on record | one process |
| `SpentIsOnDisk` | a request said to be spent is approved on disk, whatever other write fails, by any number of processes | no commit of a claim fails on a lock |
| `SpentInOneProcess` | the same, of one process | one process |
| ScorecardProofs `ScoreInvariance`, `FiguresInvariance` | the inductive invariants of the runs and of the figures | |
| `OwnTrafficAddsZero`, `ManifestOfItsPublication` | what is counted; manifest and publication of one build agree | |
| `FailuresAreNews`, `PassesAreReproductions` | what FAIL and PASS mean | |
| HandshakeProofs `Invariance`, `PumpComplete` | the inductive invariant; no text is lost between pipe and list | |
| `ReportComplete` | a report without its warning has all the server wrote | `"junk" \notin Texts` |
| `NoServerLeft`, `HealthyNeverBlamed` | no server is left; a healthy one fails only by being late | |

They hold for any number of handles, bindings, spellings, threads, requests,
blocks, endpoints, clients, callers, accounts, sessions, processes, price sources,
builds, verifications, receipts, records, days, lines and texts, from the named
assumptions on the constants. `Truthful` is what several endpoints are asked for:
one of them is not faulty. That no text is `"junk"` cannot be left out
of `ReportComplete`, as the run HandBytes shows.

*ClaimStore.* That a spelling is settled once is not inductive: a handle in
`claiming` is about to settle, and only the locked lookups it made say that
nobody has. `LockInv` says the lock is held exactly between the body of a
transaction and its end; `TxnInv` carries what the lookups found; `SettledInv`
ties each settlement to its row. With the releases apart, `MigratedInv` adds
that a handle whose migration is not pending finds nothing to migrate, so that
"no row in the spelling looked at" means "no row in any spelling"
(`UnspentMeansFree`). The refinement maps `spent` to the bindings in `rows`; a
migration commit adds no binding, a commit of this release is `Win`, and one of
the previous release `ForeignClaim`.

*PaidResource.* `RoundInv` says that while no endpoint has failed, every
truthful one asked so far has seen the payment, so a round that ends without a
failure proves it if one endpoint is truthful (`Truthful`). `ServeInv` says a
block being served is spent, was not served, and is served by one thread. That
one block cannot serve two requests rests on `SettledIsPaid` and `JobInv`: the
resource server derives payTo from the request, and a block pays one payee.

*PayingClient.* `HandlerWorks` ties a client that waits to the one handler that has
its payment and its request, so that the end of a handler is the end of the right
call; `ExchangeInv` adds that what is claimed was paid where it was claimed, and
that a client proves with a block of its own. `SteadyInv` says that a handler of a
steady client's block is listened to by that client, and that the block is not
claimed until that handler serves it: hence a steady client is never told "spent".
The refinement maps a block to `taken` when it is claimed and a handler is about to
return its result to a client that listens: `Pay` is the block going out, `Take` the
claim, `Deliver` the answer. A handler that dies, a client that hangs up and a claim
for a client that is gone are `Lose`, which `SteadyInv` keeps to the blocks outside
`Safe`. A block has the same fate after every other step (`OthersMap`).

*Wallet.* `AtomicRead` says that while the frontier a call has read is still
the frontier, the balance it has read is still the balance; a node accepts only
such blocks. `CapInv` adds `Tracked` (what was published today is recorded, or
about to be), `Fits` (a checked send still fits), and `Rolling` (between the two
clock reads of `_record_send` a day may have begun, and then nothing has been
published in it), all of them on the strength of `TakeTurns`: one call at a time is
under way, whoever makes it. With calls that overlap, a lost answer or a restart,
`Tracked` and `Fits` do not hold, and neither does the cap: hence `Sequential`.

*SessionWallet.* `CapInv` has a part for each session (`Kept`), and a step of one
session takes nothing from the parts of the others. Of every session it says that
what a call has read of its account is still so (`Current`), since nobody else
extends it; of a reliable one that it runs (`Running`), that its counters hold all
it has published but for a block just accepted (`Tracked`), and that a send past
the checks fits under both caps until it is recorded (`Fits`). At midnight
nothing is published yet on the new day, which is the last part of `Tracked`.
The expiry has an invariant of its own, for every session (`Punctual`): while a send
is between its check and its block nothing has been published after the expiry, and
the send is within the mandate's cap. Only a check lets a send through, and it
refuses an expired mandate; so the send that the expiry overtook is the last.

*Pricing.* `Nth` is defined by counting. That such a rate exists needs a highest
element of a finite set, which `HighestExists` proves from the well-foundedness of
strict inclusion: the rates from one upwards are fewer, the higher it is. The
amount is a ceiling, characterised by its two inequalities.

*PaymentService.* `WriterInv` says that at most one process has written what is
not committed, and that this keeps the approvals on disk, so a commit never takes
an approval back and a claim that finds none makes the first. `CallInv` carries
the dollars of a quote from its arguments to the write: a higher floor read in
between covers them as well. `FloorInv`, for one process, says that a floor is never left uncommitted,
whatever write fails and is rolled back, and that whoever is between the read and
the write of a floor has `self._lock`, and at least the floor on record; with two
processes it fails, as the floor does. As long as no commit of a claim fails on a
lock, a connection sees exactly the approvals on disk (`SeenOnDisk`), in any number of
processes, and a verification that lost its claim lost it to one of them
(`LostToDisk`): floors and expiries may be left uncommitted, and a refused claim leaves
a transaction with no row in it. That hypothesis cannot be left out, as
PaySpentUnsaved shows, and one process alone always meets it.

*Scorecard.* `RunsInv` says what a run holds between its readings: counts of some
beginning of the journal, which a longer journal does not change, and a
publication equal to what its build holds while that still runs. `FiguresInv`
says the same of raw records: they are only appended, so that the first `read` of
them stay what they were; of two beginnings, the figure of the longer one differs
only where a record added since is dated no earlier than the old ones.

*Handshake.* `PumpInv` is inductive by itself: the texts in the pipe are the last
`unread` of those written, so the next one read is the one after the list. That the
report is complete is not: `ReportInv` says that once the readers are joined the
server is gone, so that nobody adds to its texts, and that the list has them all,
since its reader has ended at the end of the pipe or the join gave up on an empty
one. What the process left behind writes later changes the list, and not the
places of the server's texts in it. `FlowInv` follows one frame, or its answer,
through `stdin`, `stdout` and `lines`: while `handshake` asks, nothing else is under
way, so a healthy server's answers are the ones awaited, and the tools are found
behind the first of them (`ToolsListed`).

Only model-checked: the liveness properties (`CallAnswered`, `WriteLockReleased`,
`PaidIsApproved`, `SteadyServed`, `ReceiveLands`, `Returns`), since the prover does
not treat fairness and ENABLED. Every invariant and every other property of a
passing run is stated by a theorem. Only proved: `SpellingOnce` with
`MixedReleases`, which the run ClaimStore leaves out since neither `is_claimed` nor
SingleUse holds then, `MedianInTheMiddle` and `LeastCoveringAmount`, and the
invariant behind `FloorOnlyRises`.

## 5. What is not modelled

- Cryptography, address and block encodings, proof of work, representatives:
  taken as sound. `derive_one_time_account` is assumed injective.
- Unit conversion (`units.py`, `parse_raw`): pure, digit by digit. Rates and
  prices that are not finite, and the HTTP calls of the sources.
- Malformed requests, which `_check_requirements` and the handlers refuse
  without a change of state. `issue_mandate` and forged mandates.
- `_enable_wal`, custom claim stores, `require_onchain=False`.
- The code of the previous release of ClaimStore, which the repository does not
  have.
- The receipts of `--journal`, read once as the run starts.
- A server that closes its own pipes while it stays up, and reader threads so
  starved that a join of 10 s ends with text left to read (`Handshake`).
- The raw hashes of the manifest, which nothing reads, and fields of the
  scorecard that only pass through (volume, source, `as_of`, `_meta`).
- The evidence scripts of `tools/` and CI: one-off runs on the live network over
  the components above.

## 6. Plan

Done: the claim store and its abstraction, the payment service with its history
window and dollar prices, the x402 exchange and its clients, the wallets, the
probe, the scorecard; and proofs about all of them.

Left:

1. PaidResource composed with ClaimStore in place of SingleUse.
2. `_enable_wal` and the opening of one file by two handles at once.
3. `issue_mandate` and the order of `verify_mandate`'s checks.
