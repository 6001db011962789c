# Verification of auto-seller

auto-seller is a command-line bot, written in Rust, that spends money from one
Ethereum-style wallet: it buys listed NFTs inside a price band (`buy`), mints
from a contract or an OpenSea drop at the first allowed block (`run`), and
sells what it minted when an offer is profitable. What can go wrong is seldom
in one function. It is in a crash between two writes, an answer that never
comes, a block that is replaced, or two processes that use the same wallet.
The modules here model that part of the program; TLC checks them on small
instances and TLAPS proves the main results for every instance.

All paths below are relative to the repository's root.

## The system

| component | source | state | operations | hard because of |
|---|---|---|---|---|
| auto-buy session | `src/autobuy.rs` | journal file, its copy in memory, the purchase being prepared | `run`, `find_purchase`, `recover_pending`, `reconcile_pending`, `BuyProgress::{load,save,finish}` | crashes between save and send, resubmission, reorganisations, restarts, several processes |
| wallet lock | `src/wallet.rs` | an OS file lock per wallet and chain | `WalletNonceLock::acquire`, release at drop or exit | it is what makes the journal and the nonce exclusive |
| broadcast | `src/rpc.rs` 682–746 | a task per endpoint, an ambiguity flag | `broadcast_raw` | lost answers, hanging endpoints, requests left behind |
| RPC reads | `src/rpc.rs` 424–650 | none | `read_all`, `read_critical`, receipts, nonce, head | lagging and contradicting providers |
| listing discovery | `src/autobuy.rs` 736–776 | cursor and seen cursors, in memory for as long as the session runs (`#[serde(skip)]`) | the two-page cycle, the price band before and after the preparation | coverage over many cycles, repeated cursors, prices that move and calls that ask more than their listing |
| prices and amounts | `src/autobuy.rs` 106–128 and 245–273, `src/pricing.rs`, `src/arithmetic.rs` | none | band, partial fills, USD conversion, fee scaling | rounding, overflow |
| mint monitor | `src/bot.rs` 743–1425, `src/trigger.rs`, `src/state.rs` | streams, pending event, armed refresh, bot state, wallet lock | block, event and manual monitors, backfill, `ensure_transaction_ready` | reconnects, removed events, stale nonces |
| mint transaction | `src/bot.rs` 1738–2026 | candidate hashes, replacement count, receipt | `execute_transaction`, `monitor_receipt` | replacements, lost acknowledgements, re-mined receipts, retries |
| stage schedule | `src/bot.rs` 1387–1678, `src/opensea.rs` 939–1004 | stages, selected index, trigger time | refresh, advance, defer | schedules that change under a selection |
| auto-sell | `src/autosell.rs` 69–149, 386–607, 923–969 | tokens left, approval, offer | approve, re-read, sell | offers and prices that change during the approval |
| fulfilment encoding | `src/autosell.rs` 989–2200 | none | `fulfillment_payout`, `encode_fulfillment` | partial fills, criteria, matches of several orders |
| OpenSea client, configuration, setup, redaction, metrics | the other files | none shared | parsing, I/O | not modelled: conversions and terminal I/O |

The components meet at few points. The bot and the buyer both take the wallet
lock before they read the nonce. All reads and the broadcast go through
`RpcClients`. Auto-sell runs after a mint, in the same process, with the lock
released in between. Nothing else is shared but the wallet and the chain.

What makes each one correct:

- *auto-buy*: whatever happens, the session knows every transaction of its own
  that can still change the wallet, counts exactly what the wallet got, never
  goes past its quantity or its loss limit, and in the end settles what it began;
- *broadcast*: "rejected" is said only of bytes that are nowhere;
- *mint*: at most one mint per run, every signed candidate watched until one
  is final, the nonce read and used under the lock;
- *triggers and stages*: an activation is neither invented nor lost, the
  selected stage survives refreshes;
- *auto-sell*: sold only on what was true after the approval, and an unknown
  outcome stops the batch;
- *discovery, amounts*: every page is looked at in time; rounding is on the
  safe side.

## The modules

| module | what it is |
|---|---|
| `PurchaseLedger` | the promise of a session: one purchase open at a time, each fills the count, or fails at a bounded cost and is never tried again |
| `AutoBuy` | the session: processes, lock, journal, network and chain |
| `Discovery` | the search for a purchase: laps over the pages, the price band, the second look at what the returned call asks |
| `Listing` | what a listing and the call that is returned for it may contain |
| `Submission` | the promise of one submission of signed bytes |
| `Broadcast` | `broadcast_raw` over its endpoints and the nodes behind them |
| `RpcReads` | the reads: fan-out, settle windows, what answers come to |
| `MintOutcome` | the promise of the runs of a mint: one mint under way at a time, a bounded number of attempts with one nonce and rising fees, and reports that are final |
| `Mint` | the mint transaction: lock, nonce, submission, replacements, receipt |
| `StageSchedule` | the monitor of an OpenSea drop: stages, rejections, armed refresh, preparation |
| `TriggerEvents` | the activation event: streams, confirmations, canonical check, backfill |
| `AutoSell` | selling the minted tokens: judgement, lock, approval, second judgement, sale |
| `Profit` | the prices and the profit gate of a batch |
| `Amounts` | the conversions between amounts and micro-dollars, with their rounding |
| `Fulfillment` | the judgement of the call that accepts an offer |
| `Encoding` | what the encoding puts into a call of Seaport |
| `Seaport` | external: what Seaport does with a call, as far as the code relies on it |
| `MCAutoBuy`, `MCRpc`, `MCMint`, `MCTriggerEvents`, `MCAutoSell`, `MCProfit`, `MCJudgements`, `MCDiscovery` | instances for TLC |
| `SaleCases`, `PurchaseCases` | the calls that are judged in `MCJudgements` |
| `AutoBuyProofs`, `RpcProofs`, `MintProofs`, `TriggerProofs`, `AutoSellProofs`, `JudgementProofs`, `DiscoveryProofs` | theorems and their proofs |
| `AmountsProofs` | facts about the rounding of `Amounts` and about finite sums, for the last two |

Which modules meet: `AutoBuy` implements `PurchaseLedger` and takes the three
outcomes of a send from `Submission`, which `Broadcast` implements; `Discovery`
and `Listing` say how the order is chosen that `AutoBuy` leaves to the
environment. `Listing` and `Fulfillment` judge calls that `Encoding` encodes and
`Seaport` executes. `Mint` implements `MintOutcome`. `StageSchedule` ends where `Mint` begins, at the signature.
`AutoSell` decides in whole units what `Profit` decides with prices and rounding;
both `Profit` and `Discovery` convert with `Amounts`.

### AutoBuy

`disk` is the journal file (`BuyProgress`), `lock` the wallet lock, `run[p]`
one process: its program counter, its copy of the journal, the request it has
prepared (`plan`), whether its submission is the first (`first`), whether some
node took it (`landed`) and the receipt it looks at (`seen`). `network` is the
set of session transactions that some node holds or may still be handed;
`chain`, `head`, `forks` and `wallet` are the chain.

| action | code |
|---|---|
| `Acquire`, `Load` | `run_auto_buy` 505–523, `BuyProgress::load` |
| `FindPurchase` | `find_purchase`, from the journal filters to the nonce |
| `SignAndSave` | `run` 583–597 |
| `RecoverMined`, `RecoverMissing` | `recover_pending` 638–643 |
| `MarkAttempted` | `recover_pending` 644–650: the attempt is on disk before the bytes leave |
| `Land`, `BroadcastAccepted`, `BroadcastUnknown`, `BroadcastRejected` | the call of `broadcast_raw` and the three arms of 651–664 |
| `ReadReceipt`, `CheckDepth`, `ReadAgain`, `PollAgain` | the conditions of `reconcile_pending` 918–928, one RPC each |
| `ReceiptTimeout` | 931–935 |
| `SettleBought`, `SettleReverted` | 936–960 with `finish` and `save` |
| `Quit` | ctrl-C, any returned error, or a kill, at every step |
| `Mine`, `NewBlock`, `Reorganise`, `Forget`, `SpendNonce` | nodes, forks, and other users of the wallet |

Abstractions, and what they rest on:

- `save` writes a temporary file, syncs and renames it: atomic. A crash around
  it is `Quit` before or after the step.
- A transaction is the order, nonce and worst-case gas it was built from. Each
  fulfilment carries fresh data, so that two signings differ in their hash.
- The gas a reverted transaction really costs is at most its reserve. The
  repository's README says that the L2 surcharge on Ink may change; there the
  limit holds as far as the buffered estimate does.
- Reorganisations replace blocks less than `Confirmations` deep. That is the
  user's choice of the constant.
- Receipts come from one chain. A lagging provider is a read that returns
  nothing; providers that contradict each other make `transaction_receipt` fail,
  which is the same.
- Quantity and limits stay what they were over a session's restarts.
- A dry run is a process that quits after `Load` or `FindPurchase`.
- A pending purchase in a journal of an older version has no signed bytes
  (`Legacy`): it can be reconciled and not sent again.

### Broadcast

`task[e]` is the spawned request to endpoint `e` in the present call, `stray`
the requests a call left behind, `holds` the nodes that have the transaction,
and `verdict` what the call returned. `Take`, `AlreadyKnown`, `Refuse` and
`Break` end a request the way a node or the timeout can; `JoinSuccess` and
`JoinFailure` are the loop over `FuturesUnordered`, in any order. `Gossip` and
`Forget` let nodes pass transactions on and drop them. It is assumed that an
error *response* means that this node did not take this copy; every other
error is ambiguous, in the code as in the model.

`Submission` is the interface: `AutoBuy` uses the same three outcomes with the
same conditions (`BroadcastAccepted` and `BroadcastUnknown` may follow a
`Land`, `BroadcastRejected` may not), and `Broadcast` implements it.

### Mint

`run[r]` is one run of the bot with the wallet: its program counter, the request
it signed last (`request`), the replacement it is sending, whether some node
took what it is sending (`landed`), the hashes it looks up (`candidates`), the
replacements it has used up and the receipt it looks at (`seen`). `lock` is the
wallet lock; `network`, `chain`, `head`, `forks` and `nonce` are the chain, where
`nonce` is the next one of the account.

| action | code (`src/bot.rs`) |
|---|---|
| `Acquire`, `Prepare`, `NotReady` | `ensure_transaction_ready` 1228–1244: the lock first, then the nonce beside the preparation |
| `Sign`, `Fail` | `execute_transaction` 1762–1785 |
| `Land`, `Submit`, `SubmitFails` | the call of `broadcast_raw`, 1788, and its three results |
| `FindReceipt`, `FindNone` | the pass over `candidate_hashes`, 1852–1869 |
| `NotYet`, `SignReplacement`, `GiveUpReplacing` | 1947–1997 |
| `Replace`, `ReplacementUnknown`, `GiveUpReplacing` | the three arms of 1998–2021 |
| `AwaitConfirmations`, `Revalidate`, `Resume` | 1870–1912 |
| `Confirm`, `Retry`, `Revert` | 1929–1945; the lock is dropped at 1807 or with the error |
| `Stop` | ctrl-C and kills, at every step |

Abstractions, and what they rest on:

- A transaction is its run, its nonce and a fee level that replacements raise
  by one; two runs that sign the same bytes count as two transactions.
- The trigger is a choice: the step from `waiting` to `locked`. The one-shot
  state has one contender in a process, and is left out.
- What a transaction does when it is mined is a choice: it mints or reverts
  (`minted`), and the sale was or was not closed in the block before (`early`).
- `after_blocks`, budgets and fee arithmetic are choices between `NotYet`,
  `SignReplacement` and `GiveUpReplacing`.
- `Submit`, `Replace`, `SubmitFails` and `GiveUpReplacing` follow the interface
  that `Submission` states: an acceptance needs a copy somewhere, a rejection
  of a replacement means that nothing landed. A first submission ends the run
  with its error whatever the reason, and the error names the hash when a copy
  may be out.
- The pending nonce is read from providers that lag or see other pools: it can
  be off by `NonceSlack` either way.
- Receipts come from one chain, and reorganisations replace blocks less than
  `Confirmations` deep. A read that fails is `FindNone` or `Resume`.

`MintOutcome` says what the owner of the wallet is promised without a lock, a hash or a
receipt. The mapping is at the end of `Mint`. `Undertakings` takes a run from `send` to
`settle` for a mint that is ongoing, with the attempt it made last, the one it is
sending and the attempts left; `CanTakeEffect` is what nodes hold and can still be
mined, or is mined and not deep enough; `FinalOutcomes` are the receipts that are. A run
that is told "confirmed" or "reverted" has a final receipt for it, and begins another
mint only when nothing of the last can take effect.

### TriggerEvents

`chain` is the list of blocks after the one in which the monitor was armed,
each with the fork that produced it and whether it holds the event; `headers`
and `logs` are what the two subscriptions have sent and the monitor has not
read, `pending` is the engine's `pending_event`, `lastSeen` the context's
`last_seen_block`, `target` the head that a backfill has read. `stale` holds the
events of the branches that were abandoned, which a read provider may still answer.
Three variables are history: `told`, the events that `observe_event` was called with;
`lost`, those of them that it was called with before the last failed query only; and
`short`, whether the providers were behind the node when a backfill read them.

| action | code |
|---|---|
| `ObserveHeader` | the header branch of `monitor_event_stream` (`src/bot.rs` 998–1014) with `observe_block` (`src/trigger.rs` 184–196) |
| `ObserveLog` | the log branch (`src/bot.rs` 1047–1060) with `observe_event` (`src/trigger.rs` 107–143) |
| `CheckCanonical`, `CheckNotCanonical`, `CheckFails` | `event_is_canonical`, 1169–1196: the event found at some provider (`Answers`, the union of `src/rpc.rs` 527–547), not found, and the query failed or answered only by providers that are behind |
| `Prepare`, `Mint` | `ensure_transaction_ready` and `execute_transaction` with each result they can have for the monitor; the mint is module `Mint` |
| `StreamEnds` | a subscription returns `None`, 1000 and 1049; the other stream is dropped with its buffer |
| `Resubscribe`, `ReadHead`, `Backfill`, `ReconnectFails` | `monitor_until_trigger` 840–861 with `prepare_monitor_streams` and `apply_event_backfill` |
| `Stop` | ctrl-C and kills, at every step |
| `NewBlock`, `Reorganise`, `Disconnect` | the node and the connection |

Abstractions, and what they rest on:

- An event is its block's number and fork, which stands for the block's hash.
  Several events of one block are one, as in `PendingEvent`.
- A node announces a fork by the removed logs, then the new ones, and a header
  for each block of the new branch. What it sends while nobody is connected is
  lost, and both subscriptions end together.
- `chain` is what the node of the subscriptions follows. The read providers are others
  (`src/rpc.rs` 331–340 leaves the WebSocket out of them), and with `Lagging` each may
  be behind: the head that is read is any up to the node's, a backfill finds the events
  up to some height and any of `stale`, and a lookup finds an event of `stale` or not.
  No provider is ahead of the node: what it would find early comes again by the stream.
  The two runs of findings need no provider that is behind, and have none.
- The two subscriptions of a reconnection are one step: the backfill reads the
  head after both.
- The block in which the monitor was armed and those before it hold no event.

### StageSchedule

`published` is the schedule at OpenSea, `watch` and `news` the watch channel of the
polling task, `stages`, `index` and `due` what the monitor works with; `asked` is the
armed refresh (the nonce when it began), `cached` the nonce of the prepared request,
`answer`, `checked` and `read` what the three concurrent reads behind the wallet lock
have brought.

| action | code |
|---|---|
| `Header` | `monitor_block_stream` (`src/bot.rs` 913–975): the schedule update first, then the trigger or a refresh |
| `FinishRefresh` | the `select!` arm 918–921 |
| `PollSchedule` | `refresh_schedule` (`src/opensea.rs` 951–989) |
| `Acquire`, `ReadNonce`, `CheckFields`, `Build`, `Ready`, `NotReady` | `ensure_transaction_ready` and `prepare_trigger_transaction` 1215–1280, whose three reads end in any order |
| `Reload`, `Advance`, `Defer`, `GiveUp`, `Fail` | what a rejection leads to, 1281–1327, 1469–1505, 1578–1638 |

- OpenSea mints in any open stage in which the wallet is eligible, and says so by a
  clock that differs from the chain's by up to `Lag`. Its answers are the classes of
  `classify_rejection_body`: the stage is not active, the wallet is refused, or no
  reason is recognised. Answers that `build_mint_with_retry` retries come before.
- A stage without an end ends after the model's time.

`Orderly` says of a set of schedules when no stage is slept through. It has two parts
beside the order of a list. `RefusalsAreApart`: OpenSea refuses nobody within its clock's
error of a stage in which the wallet may mint. `ChangesKeepPlace`: no change of the
schedule puts a stage that can still be missed ahead of the selected one. Neither
mentions the monitor's state; they are about what OpenSea publishes.

### RpcReads

`view` is the chain that each provider follows, `reply` what it has answered from,
`waited` the time since the read began, `first` the time of the first good answer.
`Respond`, `Refuse` and `TimeOut` end one request, `Return` is the end of `read_all`
or `read_critical`, and `Aggregate` what each read makes of the answers. `Tick` lets
time pass only while no timer is due, as tokio's timers do.

### Discovery and Listing

`next` and `seen` are `DiscoveryCursor`, `todo` the orders of the page that are still
to be looked at, `quoted` the price snapshot of the page. One cycle of `find_purchase`
is `FetchFloor`, `Quote`, then `Skip` and `Select` in any order (the code's order is
OpenSea's), and the same for one later page. The first look judges `Value`, the
listing's amount per unit, the second `asked`, which is `fulfillment.transaction.value`:
`validate_fulfillment` compares it with the payments of the call it belongs to and never
with the listing, so `Ready` takes any amount of `Asked`. `fresh` is history: the prices
since the order was ready. `Listing` takes each listed order through `Parse` to the call that
OpenSea returns for it, and lets `Seaport` execute what was accepted. A case has
`live` beside `active`: the order may stop being active before the call that OpenSea
returns for it is judged.

### AutoSell, Profit and Fulfillment

`run` is `run_after_mint` with `sell_one` and `evaluate_and_maybe_sell`: the token it
works on, the tokens sold and skipped, what the offer pays, the approval's cost, the
transaction it sends and the receipt it looks at. The two judgements, `Quote` before
the lock and `Requote` after the approval, read everything anew: each value is a
choice at each read. `Profit` has the second judgement in integers, with the prices'
sources. `Fulfillment` has `fulfillment_payout` for the three kinds of calls; a
property compares what it says with the transfers that `Seaport` makes.

- Each argument of a call is there under one name; the code takes the first of
  several spellings.
- Integers of 256 bits do not overflow: the code uses checked arithmetic, and refuses.
  Fill fractions have their width (`Width`), because the ABI cuts them.
- `Multiplier` is at least `Parts`, because `scale_u128` refuses a factor below one.
- `Amounts` has one `Scale`, 10 to the power of the decimals, for all currencies; the code
  takes the decimals of each (`src/pricing.rs` 173–214). The roundings are those of one
  currency each, but an offer and gas in currencies of different decimals are not modelled.
- Another process of the wallet takes nonces, and never approves or sells: an approval
  that appears is the run's own.
- Seaport is a reference for what the code relies on, not a model of its contract.
  `Reverts` is when it refuses a call, `Outcomes` the transfers it can make otherwise:
  more than one when an amount varies over time. The transfers of a call are a family
  over the places of its items, and what the caller gains of an asset is a sum over it.
- `Ordinary`, the offer that must not be refused, fills the whole of its order: its
  fraction has equal parts that are not zero and can be encoded.

## What TLC checks

| run | instance | what it shows |
|---|---|---|
| `autobuy_safety` | 2 processes, 3 orders (two of one ERC-721 token, one ERC-1155), quantity 2, loss limit 3, reserves 1 and 2, 2 confirmations, 1 reorganisation, a nonce used elsewhere, nonce reads off by one, a legacy journal | no purchase lost, doubled or paid beyond the limit |
| `autobuy_liveness` | 2 processes, 2 orders, quantity 1, 1 reorganisation | a pending purchase is settled |
| `rpc` | 3 endpoints and 2 submissions of the same bytes; or 2 providers, 2 blocks, 1 fork, and every read | a rejection is safe, the fan-out is one submission and returns; what is read errs on the safe side |
| `mint` | 1 run, 1 replacement, 2 confirmations, 2 reorganisations, a nonce used elsewhere; or an OpenSea drop with 3 schedules of up to 3 stages, 1 change, a clock off by one, 1 nonce taken by another process | no run mints twice, the runs keep `MintOutcome`, monitoring ends; no stage is slept through, the next nonce is signed |
| `trigger` | 3 blocks, 1 and 2 confirmations, 1 fork that replaces a block by two, 1 disconnect, 1 failed query, providers that are behind | no mint without a confirmed event that is in the chain or has its removal still to be read; no gap between backfill and subscription; an activation that stays triggers |
| `autosell` | 2 tokens, 2 payouts, 2 prices, 2 gas costs of which one is over the cap, 2 confirmations, 1 fork, 1 nonce taken by another process | what is sold pays, one transaction is out at a time, the report is right, the batch ends |
| `judgements` | 1 case at a time of the calls in `SaleCases` and `PurchaseCases`, and batches of 1 and 2 tokens at prices from 4 configurations, 3 environments and 4 feeds | what is signed does what it was judged to do, and pays; nothing ordinary is refused |
| `discovery` | 4 pages in 4 arrangements, one with a cursor that repeats, 2 orders whose calls ask what the listing does, less or more, 3 rates, 1 change of the pages, 1 of the rate, 1 failure | no page is left out, nothing is signed outside the band, every order is looked at |
| `trigger_outage` | 4 blocks, 2 confirmations, 1 fork, 1 disconnect | violated: finding 1 |
| `trigger_missed` | the same | violated: finding 2 |
| `discovery_starved` | 4 pages, 2 orders of which one can never be prepared | violated: finding 3 |
| `stages_reordered` | 2 schedules in which one stage moves ahead of the other | violated: finding 4 |

Three MC modules hold two or three components that share no state: `MCRpc`
(submissions and reads), `MCMint` (the wait for a stage and the mint after it) and
`MCJudgements` (calls that sell, calls that buy, batches). Their initial predicate
chooses one and only that one takes steps, so a state of the composition is a state
of the chosen component beside the fixed initial state of the others: the run is the
union of the runs of the parts, no behaviour of a part is lost and none is added.

The bounds are the smallest that let every case happen: two processes for a
race, a second order of the same token and a second unit of the other for the
filters, a loss limit that two failures can reach and three cannot, one fork to
invalidate a receipt that was read, one foreign nonce to make a purchase
unminable, and a second submission of bytes that may already be out. For the
mint, one replacement is enough for a candidate that is not the latest, and two
forks let a receipt be found, lost and found in another block. Two runs of a mint
compete for the lock only in the proofs, which hold for any set of runs. For the
trigger, three blocks let a fork leave one event, drop another and bring up to two; forks
of two blocks are in the runs of the findings, and of any depth in the proofs. Two tokens are
needed for an outcome of the first to disturb the second, and three later pages
for a lap that ends and one that turns in a circle. The stages move, appear and
disappear, end before and after the next one begins, and lie at least `Lag` apart.
`MaxForks`, `MaxNonce`, `MaxForeign`, `MaxOthers`, `MaxCalls`, `MaxBlocks`,
`MaxDisconnects`, `MaxFailures`, `MaxChanges`, `MaxMoves`, `MaxTime`, `MaxHeight` and
`MaxFork` bound counters of the environment in guards. Nothing else is cut off.
Deadlock is not checked: a session that is complete, runs that have ended, or an
environment at its bounds, really stop.

Every safety property of a passing run is proved for every instance (below),
`NoStageSlept` for every instance whose schedules are `Orderly`. The runs are there to
find an error before a proof is tried, and to show with a mutant that the property can
fail. `SchedulesAssumption` has TLC evaluate `Orderly`: the schedules of `mint` are
orderly, those of `stages_reordered` are not.

Both parts of `Orderly` are needed. A stage that moves ahead of the selected one is
finding 4. And an explicit refusal that still belongs to the stage that is ending may be
answered when the next has begun: `advance_opensea_stage` then passes over that next
stage. The README's Step 12 promises an advance after a refusal, so this is the rule and
not a divergence from it, but the comment at `src/bot.rs` 1314–1316 shows that skipping a
stage at a boundary is what the neighbouring branch takes care to avoid.

Liveness assumes what the program does not control and its timeouts do. The
bot is started again after it ends, blocks are produced, a transaction that
nodes hold again and again is mined, and no step is interrupted *every* time it
could be taken (strong fairness of the steps of a process, because a crash
disables them). Broadcasts and polling end by their own timeouts (weak
fairness). `PendingIsSettled` excludes by its statement the receipt without
proof of the NFT, which the code keeps for inspection, and by its instance the
two cases in which the pending purchase can wait for ever and the repository's
README tells the user so: a nonce used by something else, and a legacy journal
without bytes. `Returns` needs only that the timeout ends each request and that
the loop is scheduled.

`MintIsResolved` assumes that blocks come, that a transaction nodes hold again
and again is mined, that broadcasts and fee checks return (weak fairness), and
that receipt reads, which forks and failed reads can disable, succeed if they
are possible again and again (strong fairness). It excludes by its statement a
mint of which nobody has a copy: receipt monitoring has no timeout in the code,
and a run whose mint was dropped by every node, or whose nonce was used by
something else, monitors, with the lock, until the user stops it.

`ActivationTriggers` assumes that RPC calls return (weak fairness of the
monitor's steps) and that `select!`, which picks at random among ready branches,
does not always pass over one of the two streams (strong fairness, because the
monitor leaves the loop for the check). A failed query discards a pending
activation (`src/bot.rs` 1187), with a warning that calls it non-canonical, and it
is not fetched again while the connection lasts: the property excludes what was told
before a failure (`lost`), and nothing that is told after it.

`RunEnds` assumes that reads and broadcasts return and that deadlines pass (weak
fairness), and that other processes let go of the wallet lock again and again
(strong fairness of `Acquire`). `Covered` assumes weak fairness of the cycle: the poll
timer ticks and each request has a timeout. Failures and changes of the pages end.

Each property has a mutant: a small change of the code's translation (a save
that is left out, a depth that is not checked, a lock that is not taken) that
makes TLC find the property violated.

## Findings

The four runs that end in a violation show where the program does less than its
documentation says. Each of the four can make the bot miss something; none makes it pay
for what it should not.

1. *A fork during a disconnect loses the activation* (`trigger_outage`).
   `observe_event` replaces the pending event only by one with a lower block
   number (`src/trigger.rs` 130). If the pending event's block is replaced while
   the connection is down, no removed log is ever sent for it, the backfilled
   event of the new branch is ignored, and `event_is_canonical` then discards
   the stale one. README.md 124: "backfills missed event logs"; REVIEW.md 27:
   "keep the earliest event confirmation candidate".
2. *A buffered log is not backfilled* (`trigger_missed`). The backfill starts
   one block before the last header read (`src/bot.rs` 852). Logs that were
   received but not read when the header stream ends are dropped, and those of
   an earlier block are not fetched again.
3. *One order keeps the later pages from being read* (`discovery_starved`). A
   retryable error while an order of the first page is prepared ends the cycle, and
   the next cycle begins with the first page and the same order.
4. *A stage that moves ahead is slept through* (`stages_reordered`).
   `refreshed_stage_index` (`src/bot.rs` 1640) keeps the stage that was selected
   wherever it is in the new schedule; what is published or moved before it is not
   looked at again. README.md 455: "load and follow the first active/upcoming eligible
   stage automatically"; 625: "If OpenSea changes or publishes a phase, the bot updates
   its trigger." A restart selects the stage.

Three smaller ones were met while translating, and have no run of their own.

README.md 837 says that "canonicality is rechecked before triggering" and that a mint
"requires a mined, canonical event". `event_is_canonical` takes the log from any one
read provider. A provider that is still on the branch that a fork left answers it, and
the mint is prepared for a removed event, if the header of the last confirmation is read
before the removal, or if the removal was missed in a disconnect. `TriggersWhenConfirmed`
states this exception and shows that there is no other.

A backfill asks the read providers for the head, and the subscription is another node's.
If all that answer are behind that node, the blocks between are neither backfilled nor
announced, and the next reconnection begins after them. `BackfillMeetsStream` states
this exception (`short`) too.

`parse_price` cuts a price after six digits, whatever it is used for. Its comment (`src/pricing.rs` 487) gives as the reason "to
avoid overstating an offer or understating a cost"; cutting understates a cost in the
same currency, by at most a micro-dollar per whole unit. `SoldAtProfit` is about the
price as it was cut.

## What is proved

`AutoBuyProofs` proves for every set of processes, orders and tokens, every
quantity, limit, number of confirmations and bound: `TypeOK`, `NoOrphan`,
`WorksFromDisk`, `CountMatchesChain`, `NoOverbuy`, `LossWithinBudget`,
`NoTokenTwice`, `RevertedNotRetried`, `ResolvedForGood`, and that every
behaviour of `AutoBuy` is one of `PurchaseLedger`. The only assumptions are the
named ones of the module: numbers are in range, and `None` is not a value.

The argument is one inductive invariant `IInv` of named parts:

- `Types` and `Discipline`: who is past `load` holds the lock and works from the
  journal on disk, and what each program counter implies for the memory;
- `Tracking`: the transactions of the session in the chain have distinct
  nonces in the order of their heights, what is pooled or can be is the pending
  one, and a process that sends for the first time has nothing out before it
  lands; this is `NoOrphan` made inductive, because `NoOrphan` alone does not
  exclude a rejection of bytes that are out;
- `Accounts`: counts, balances and limits as equations between the journal and
  the receipts that are deep enough, which a reorganisation cannot remove;
- `Over`: orders and tokens that the receipts have used up are recorded.

Each action is a lemma per part that it can disturb.

`RpcProofs` has the two halves of `MCRpc`. For any non-empty set of endpoints it
proves `TypeOK`, `RejectedIsAbsent` and that `Broadcast` implements `Submission`: the
present call's answers bound what is out, and a refused task of a first call put
nothing anywhere. For any finite set of providers, any heights, forks, timeouts and
windows it proves `ReceiptIsAgreed`, `ReadsAreOnTheSafeSide` and `AnswersAreUnanimous`
of the reads, from three facts:

- `ViewsGrow` and `RepliesGrow`: a provider follows the forks in their order, and
  answers from no less of a chain than it had when the read began, which is what lets an
  answer be compared with a moment that is over;
- `ResultIsKept`: a result is what the answers came to, and stays it. What `Aggregate`
  makes of any set of answers is then a lemma without state (`ReceiptsAgree`,
  `ReadsAreSafe`, `PinnedAgree`, `CallsAgree`).

That the set of providers is finite is assumed because the code takes a maximum over it;
`KindsAssumption` says that the reads which a run selects are among those there are.
`ClientReads` carries the three to the composition.

`MintProofs` proves for every set of runs, every number of replacements,
confirmations, forks and nonces, and any error of the nonce reads: `TypeOK`,
`SignedIsWatched`, `AtMostOneMint`, `ReportIsFinal` and `LiveMintHoldsLock`, and that
every behaviour of `Mint` is one of `MintOutcome` (`ImplementsOutcome`). Its invariant has four parts beside the types:

- `Memory`: what each program counter implies for a run's memory, the lock, and
  the nonce that all candidates share;
- `ChainOrder`: heights and nonces grow together along the chain, below `head`
  and `nonce`;
- `Tracking`: the transactions of a run that may still be mined, dropped by a
  fork, or have minted (`Live`) are among those it watches, and have one nonce
  even after the run has ended. None of the properties is inductive without it:
  a retry is safe only because a receipt that is deep enough makes every other
  candidate of that nonce unminable (lemma `FinalLeavesNothing`);
- `Minted`: the receipt behind a confirmed mint stays.

No step of the environment adds to `Live` (lemma `EnvironmentLive`), and of a
run's own steps only `Land` does.

`ImplementsOutcome` gives each step of `Mint` the step of `MintOutcome` it is. The
environment is most of it: a fork or a dropped copy brings nothing back that can take
effect (`NothingComesBack`), and a new block makes at most one receipt deep enough
(`OneBecomesFinal`), because heights are distinct; whatever has its nonce or a lower one
is over with it (`EnvironmentSettles`). A signature is the begin of a mint
only because the lock lets no other run be between `send` and `settle`, and because no
transaction of the run can be live then (`SignBegins`, from `Tracking`). `ReportIsFinal`
has no run of its own: it follows from what `KeepsOutcome` says of `Confirm`, `Retry` and
`Revert`, and is stated for those who read only `Mint`.

`JudgementProofs` proves for every amount, price, scale, multiplier and batch:
`SoldAtProfit`, in which the sums are rational (multiplied out) and not rounded, from
three facts about division: what is rounded down is not above and what is rounded up
not below the quotient (`DivIsBelow`, `CeilIsAbove`), and a share rounded up times the
number of tokens covers the total (`SharesCover`). The invariant keeps, beside the
types, that the prices a pending sale was judged at are not zero for any currency its
decision needs, and that what it brings covers its budget. The facts about division, with the one that the
band needs, are in `AmountsProofs`: `BandIsExact` says that an amount in whole
micro-dollars is in the band if and only if it is within the tolerance as a rational.

`NoProfitLost` is the other direction: an offer that is refused would have brought at
most the roundings of the four terms and the two shares more than was asked for. A sum of
four that misses its bound in whole micro-dollars misses it by less than four of them
as a rational (`WholeDollarsMiss` in `AmountsProofs`, `ProductIsBelow` for the shares), so
the directed rounding which `SoldAtProfit` needs costs the seller no more than that.
`PricesAreGiven` is proved of any configuration, environment and feed, the default feed
of ETH and WETH like the one of HYPE (`FetchedIsPriced`): without an explicit price, what
counts is the price of an asset of the feed's currency in an answer without an error. An
asset is known by its number *or* its symbol (`src/pricing.rs` 352–369), so the property
asks for no more than one of them.

`JudgementProofs` also proves what is judged of a call, for every contract, token and
currency, every width of a fraction, and every set of calls and listings, with any number
of orders, items, fees, resolvers, fulfilments and components: `SaleIsAsJudged`,
`OrdinaryIsAccepted`, `PurchaseIsAsJudged` and `AcceptedExecutes`. The only assumption
beside the ones on prices is `CallsAssumption`: calls have their types, and `None` is no
payout. The argument has three layers.

- Sums. The judgement adds up the items of one side of an order, Seaport the transfers to
  and from the caller; both are folds over a finite set. That a sum is defined, does not
  depend on an order and can be taken apart (`SumIsDefined`, `SumStep`, `SumSplits`,
  `SumIsMapped`, `SumOfPart`) is proved in `AmountsProofs` once. The provers cannot
  instantiate an induction over sets; in its place stands a least counterexample, a
  smallest finite set for which the fact fails (`SmallestSet`).
- Calls. One lemma for each kind says that a call which the judgement accepts and
  Seaport does not revert moves what was judged, whatever the amounts come to:
  `BasicSale`, `StandardSale`, `MatchSale`, `BasicPurchase`, `StandardPurchase`. The
  items of an allowed match can be connected in one way only (`MatchIsConnected`),
  because the judgement asks for two orders with one offer each, for fulfilments that
  give nothing to the order they take from, and for every item once. The judgement
  rounds what others get up and Seaport what it pays down; they agree because an inexact
  fill reverts (`ExactShare`, `ExactCeil`, `DuesAreExact`). `ProperIsValid` and
  `OrdinaryIsJudged` are the other direction, that nothing good is refused.
- Stages. The invariants `PurchaseInv` and `SaleInv` keep at each stage what the stage
  before it decided. `AcceptedExecutes` needs no more than that an accepted purchase is
  never reverted, which `PurchaseIsGood` says.

`DiscoveryProofs` proves for every set of orders and pages, every amount that a returned
call can ask, every price that can be read, and every target and tolerance:
`PaidWithinBand`. The invariant is that what a signed call asks was in the band at a
price that held after the call was ready; that the whole micro-dollars of a cost lie at most one below the cost (`CeilIsAbove`) takes it
from the comparison the code makes to the rational band (`CostInBand`). It proves
`LapIsGapless` too: the invariant keeps a lap, the function from the steps to the pages
read, as a witness. A lap that would come back to a page stops there, because the
code refuses a cursor it has seen, and that is why the number of pages read is the number
of steps. `PagesAssumption` says that `None` is no cursor.

`MintProofs` also proves of the monitor of an OpenSea drop, for every schedule, delay and
bound: `SignsNextNonce`. Its invariant adds that the nonce read behind the wallet lock
stays the account's next one as long as the lock is held, so that neither an armed refresh
from before the trigger nor another process of the wallet can decide what is signed.

`NoStageIsSlept` proves `NoStageSlept` of every set of schedules that is `Orderly`, for
every set of eligible labels, delays, error of OpenSea's clock and number of changes. The
property says nothing of what comes before the selected stage, and is not inductive; the
invariant `StageInv` has three parts.

- `PlaceInv`: the request is due at the start of the selected stage, or that stage has
  started; and no stage before the selected one can still be missed (`NoneMissed`). A
  reload or a header keeps this by `ChangesKeepPlace`; an advance after an ambiguous
  rejection keeps it because the next stage has started.
- `RefusalInv`: behind an explicit refusal there is a moment within the clock's error at
  which OpenSea refuses. By `RefusalsAreApart` no stage for the wallet is open then, and
  an advance to one that has not started misses nothing.
- `Timely`: the property for all stages in memory, whatever the step.

What `Unexpired` and `RefreshedIndex` do to a list is a recursion over it (`SelectSeq`),
and out of the provers' reach. `Orderly` speaks of their results for this reason: a set of
schedules is given, and whether it is orderly is evaluated.
`BotsWaitAndMint` carries this and the properties of `Mint` to their composition.

`TriggerProofs` proves for every depth of confirmation, every depth and number of forks,
and any number of blocks, disconnects and failed queries, and with providers that are behind
or not: `ActivationIsKept`, `BackfillMeetsStream` and `TriggersWhenConfirmed`, the last an
action property. None is inductive. What the streams still hold has to be described, and
the invariant does so in these parts:

- `Heights` and `Produced`: nothing that was heard of lies above the chain's head, so that
  a block to come is never one that is already known, whoever still answers it;
- `Ordered`: while the connection has lasted, an event that left the chain, pending or
  still in the log stream, is `Withdrawn`: its removal is on its way, and everything that
  has come in its place or above it is behind the removal. Without the order a
  replacement could be passed over for an event that is gone, and then be lost with it.
  The same removal is what `TriggersWhenConfirmed` promises when the lookup is answered
  from an old branch. That a fork keeps this order in the stream, for branches of any
  lengths, is most of the proof (`ReorganiseGrows`);
- `Unforked`: without a fork everything heard of is in the chain, so that what a backfill
  brings a second time is covered by what is pending, disconnects lose nothing, and no
  provider can be on an old branch. A fork during an outage does lose an activation, which
  is finding 1, and for this reason `ActivationIsKept` asks for one or the other;
- `Covered`: what lies above the head that a backfill read is already on its way by the
  new subscription, which was made before, unless the providers were `short` of it;
- `Deep`: a check that is started finds the confirmations it was started for.

TLC checked the invariant on three blocks with forks of up to two of them before the proof
was tried.

`AutoSellProofs` proves for every set of tokens, offers, prices and fees, every number
of confirmations and forks, and any error of the nonce reads: `TypeOK`, `SalesPay`,
`OneInFlight`, `ApprovalIsFinal`, `ReportIsRight` and `DryRunAgrees`. The last compares
what the dry run says with what the first judgement decides, for every answer, and needs
no invariant.
The parts for the others are:

- `Memory` and `ChainOrder`, as in `MintProofs`;
- `InFlight`: one transaction at most can be mined or dropped by a fork (`Live`), while
  the batch goes on it is the run's, and what was not taken by any endpoint is nowhere.
  `Live` and not the mempool is what has to be bounded: a node may hold a stale copy for
  ever. No step of the world adds to it (`WorldLive`), and it is empty whenever a token
  is left without ending the batch (`NothingInFlight`);
- `Fresh`: which transactions of a token can exist at each step, so that a token that is
  skipped cannot have a sale, or only the one whose revert is final;
- `Earned`: a sale pays for every approval of its token in the chain, and no other
  approval of that token can be mined any more. `SalesPay` alone says nothing of a sale
  that is signed and not mined;
- `Allowed`: when a token needs no approval, or no longer, a final one exists. The code
  reads this at the newest block; it is final because nothing else is in flight.

Model-checked only:

- that a given set of schedules is `Orderly`, the hypothesis of `NoStageIsSlept`;
- liveness, and everything else that needs `ENABLED`.

## Not modelled

- The view and manual triggers and the reconnection of the block monitor
  (`src/bot.rs` 743–900): each retries at the next block or ends, with no state of
  its own but the engine's.
- Connecting, the health checks at the start and the replacement of the WebSocket in
  `src/rpc.rs`; the benchmark commands.
- ABI layout and the spelling of JSON fields, HTTP, limits of responses, and number
  formats: pure conversions, which meet the models as the values of constants.
- Configuration, the setup dialogue, redaction, error types, metrics and the test
  contract: they hold no state between calls.

Still to be done: a composition of `StageSchedule`, `TriggerEvents` and `Mint` in place of
their free choices.
