# MarketBoard: specifications, model checking and proofs

MarketBoard is a stock-monitoring and investing-simulation application: a
Next.js frontend, a Spring Boot backend (`marketboardBackend/`), a Python
collector (`collector/`), MySQL, Redis. This directory holds TLA+ modules of the
parts whose correctness depends on order, failure and concurrency, the TLC
configurations that check them on small instances, and proofs of their safety
that TLAPS checks for all instances.

Every definition is taken from the source; `PROJECT.json` maps each to its
lines. A comment "(Mutated form: ...)" marks an operator that no specification
uses: it is what the definition below it would be with a plausible mistake, kept
so that one can see that a property notices.

## The system

| Component | State | Operations | Interacts with |
|---|---|---|---|
| Execution reducer (`collector/app/execution.py`) | none of its own: an account, a simulated broker and pending events folded from a journal | 14 commands; delivery of broker events | called over HTTP by the execution service |
| Execution service (`execution/ExecutionService`, `ExecutionOperations`, `ExecutionController`) | `execution_runs`, `execution_commands`, `execution_incidents` | create, command, verify, record a failure | row locks in MySQL; the reducer |
| Auto-trading runs (`execution/AutoTradingService`, `AutoTradingScheduler`) | `auto_trading_runs`, `_journal`, `_controls` | create, run a strategy, pause/resume/stop, tick, fail | a scheduler in every backend; the auto-trading reducer |
| Auto-trading saved studies | strategies, validations, cost analyses | save once, limit of 100 | the auto-trading reducer |
| Auto-trading reducer (`collector/app/auto_trading.py`) | none | replay of a price prefix, comparison | called by auto trading |
| Portfolio ledger (`portfolio/`, `common/IdempotencyService`) | positions, transactions, idempotency records | buy, sell, direct edit, opening backfill, delete | portfolio row lock, versions, cutover flag |
| Price alerts (`alert/`, `collector/app/alerts.py`) | alert rows, their Redis mirror | create, delete, trigger, re-mirror at start | Redis publish/subscribe |
| Live quote feed (`finnhub_source.py`, `aggregator.py`, ...) | websocket subscriptions, open candles, throttle, last ticks | connect, subscribe, tick, REST fallback | Redis, MySQL, backend admin |
| Screening snapshot and daily batch | snapshot runs and rows | one batch at a time | MySQL |
| Market report | one immutable report per session | generate with delayed retries | several backends, unique key |
| Sessions and accounts | one refresh token per user, reset and login codes in Redis | login, refresh, logout, suspend, reset | Redis, MySQL |
| ETF paper accounts and reviews | signal and valuation snapshots | start, refresh, stop | collector, scheduler |
| Browser session (`lib/auth-context.tsx`, sign-in pages, guards) | tokens, session version, a shared refresh | sign in, up and out, refresh, request, page load | the server's refresh tokens |
| Auto-trading page (`auto-trading/page.tsx`, workbench) | selection, detail, list, keys of uncertain requests | create, save, start, control, poll | auto-trading runs |
| Saved-record panels (validation, costs, designs, backtests, reviews, reports) | list, record shown, pending key | list, create, open | `idempotent-post.ts`, the services |
| Portfolio page | selection, three parts of it, five forms | select, trade, limit, thesis, create, delete | portfolio ledger |
| Row lists (alerts, stars, users, symbols, notifications, averages, profile) | rows, one busy slot | load, add, switch, delete, save | their services |
| Market views (`use-resource.ts`, `candles.ts`, screener, panels, quote stream) | what is wanted, the last answer, the connection | choose, search, retry, tick | REST and websocket |
| Cached market data, indicators, mail, other pages, deployment | caches, pages | fetch and show | - |

What is hard in it: requests for the same row at the same time; a pure
calculator called over HTTP inside a database transaction; a failure recorded in
a second transaction after the first is rolled back; retries with the same key
after an answer was lost; broker events delivered late, twice or backwards;
rounding of money at several places that must agree; polls of a list that is
stale when it is walked; snapshots older than the lock they are used under; at
most one delivery through Redis. `PROJECT.json` lists the main hazards with
their lines and the properties that cover them; those no property covers yet are
under "Not covered".

For each component, what makes it correct: the reducer's account follows the
broker and conserves money and reservations; the service's state is always the
replay of its journal and a confirmed command is never lost or doubled; an
automatic run replays each day once, in order, and ends; the ledger's positions
are the sum of its transactions; an alert fires at most once and, while the
system is up, is not lost; the feed stays connected and subscribed to what is
asked; a snapshot batch is complete or failed; a session has one report; a
refresh token that was rotated or revoked is dead; a monthly signal is never
backfilled.

In the browser everything is a callback: the user goes on while requests are on their way,
and their answers come in any order, late, or never. A tab must stay with the account it
was told to use; a wish pressed twice after an uncertain answer must have one effect; and
a page that has come to rest must show what its heading, its selection or its key says, as
the server has it. Where a page has no guard for an order of answers, its module has that
order, and a history variable (`overtaken`, `crossed`, `excused`, `missed`, `untold`,
`unlisted`, `latest.late`) excuses what follows from it, so that the property says what
the code does ensure. An excuse names the rows, parts or symbols concerned: a failed load
those it leaves as they were, which are all parts of a portfolio and all symbols of the
stream, but of the row pages only the rows that differ from the server's by then. A later
answer takes it back in `PortfolioPage` and `MarketViews`; in `RowLists` a row once
excused stays so for the rest of the behaviour.

## Modules

| Module | What it is |
|---|---|
| `ExecutionReplay` | the execution reducer, and its refinement mapping to `BrokerMirror` |
| `BrokerMirror` | abstract: what the sandbox promises about broker events |
| `MCExecutionReplay` | its instance |
| `ExecutionReplayProofs` | TLAPS proofs about `ExecutionReplay` |
| `ExecutionStore` | the execution service and its database |
| `CommandJournal` | abstract: what the service promises its clients |
| `MCExecutionStore` | its instance |
| `ExecutionStoreProofs` | TLAPS proofs about `ExecutionStore` |
| `AutoTrading` | life cycle of automatic runs: service, schedulers, creations |
| `MCAutoTrading` | its instance |
| `AutoTradingProofs` | TLAPS proofs about `AutoTrading` |
| `ClientSession`, `MCClientSession` | the session of a tab, with the server's tokens |
| `ClientSessionProofs` | TLAPS proofs about `ClientSession` |
| `AutoTradingPage`, `MCAutoTradingPage` | the auto-trading page and its workbench |
| `AutoTradingPageProofs` | TLAPS proofs about `AutoTradingPage` |
| `SavedRecords`, `MCSavedRecords` | six panels that make and list records |
| `SavedRecordsProofs` | TLAPS proofs about `SavedRecords` |
| `PortfolioPage`, `MCPortfolioPage` | the portfolio page |
| `PortfolioPageProofs` | TLAPS proofs about `PortfolioPage` |
| `RowLists`, `MCRowLists` | eight pages over rows that are changed one by one |
| `MarketViews`, `MCMarketViews` | loads by key, searches, the quote stream |
| `ListsAndViewsProofs` | TLAPS proofs about `RowLists` and `MarketViews` |

`ExecutionReplay` and `ExecutionStore` model the two sides of one HTTP call. The
store does not repeat the reducer: it knows of a state only which commands it
replays and which calculator made it, which is all that its own properties need;
the reducer is checked for what it computes.

### ExecutionReplay

The reducer folds a journal. Since the service stores the journal only with
commands that were accepted, a replay of the journal and one more command is one
command on the state the journal left: `stored` is that state, `state` the
working copy, and a `ValueError` or a failed final check (`Refuse`) goes back to
`stored`. Every command is one action, except RECONCILE, REVERSE and DUPLICATE:
their loop over broker events is one step per event (`StartDelivery`, `Receive`,
`Apply`, `Settle`), so that the properties are checked between two events too.

Amounts are integers: money in quanta of 1e-8 (what `money()` rounds to),
quantities in lots of 0.0001 share. A fee is `FeeNum / FeeDen` quanta per lot,
rounded half up as in the code. A price of 100 is `LotPrice` = 1 000 000. The
code computes STRATEGY_BUY's quantity with 28 significant digits before it rounds
down to a lot, the module exactly. `log` and the hash are left out, `pending`
and `applied` are sets of event ids, `seen` keeps order keys only (a repeated key of any other
command changes nothing, so it adds no behaviour).

### ExecutionStore

One HTTP call is one `worker`. A transaction opens with `SELECT ... FOR UPDATE`
of the user's row (create) or the run's row (the others), so taking the lock and
reading are one step; the writes and the commit are one step; between them lies
the call of the calculator, during which everything else goes on. MySQL's
snapshot is taken by the first plain SELECT, which here always comes after the
lock. A crash, a lock timeout or a failed calculation rolls back. The answer of
a committed transaction may be lost (`Succeed`); a client may send any request
again. `Deploy` replaces the calculator by a version that accepts other commands
or computes another state.

The module follows one run: statements name their run and runs share no row.

### AutoTrading

Each backend has a scheduler: `Poll` reads the due runs, `Visit` is `tick()` up
to its early return, with the row's lock taken, `Tick` the commit, `TickThrows`
the rollback, `Fail` the second transaction that stops the run, `FailThrows` the
failure of that one, `Restart` a process that stops anywhere in between. The
user's PAUSE, RESUME and STOP (`Control`) need the same lock.

Creations are modelled with the snapshot rule that matters here: `create()`
locks the user's row before its first plain SELECT (`EnterPlain` decides under
the lock), `runStrategy()` reads the strategy first, so what it may do was
decided before it waited for the lock (`LookUp`, then `EnterStrategy`).
Creations that answer with an existing run or refuse change nothing and are not
steps. Time is the flag `due` per run.

### The browser: what its modules have in common

A step is one task of the browser's event loop: a click with its handler up to the first
`await`, or an answer with the continuation up to the next. React renders, and runs the
effects a new state causes, before the next task, so an effect is part of the step that
changes what it depends on. A request has the steps of its life that others can come
between: sent, served, answered; an answer may be lost before or after the server has done
its work, and a request a page has given up may still be served. The server is modelled by
what these pages can observe of it: the services of `marketboardBackend/` by the rows they
make, change or refuse, with their prices, limits and texts left out. Data are revisions
and identities: a portfolio's ledger is the number of its trades, a quote's price the
number of its tick.

### ClientSession

`version` is `sessionVersion`; `held` the two token refs, which are always set together;
`kept` localStorage; `flight` the shared refresh. `Load` is a page load, which also covers
the links that leave the app. A pair of tokens is an account and a number; the server
honours the refresh token of an account's newest pair only, until it expires (`Expire`),
and accepts an access token until it lapses (`Lapse`). A refusal may get lost like any
other answer. A request that waits for a refresh goes on if both the tokens and the
`version` it waited for are still the tab's (`Resume`). `asked` is the account the user
last told the tab to use. Signing up ends in a sign-in whenever its answer comes, also
when the page was left; nothing guards that, so `overtaken` marks such a session.

### AutoTradingPage

`Press` sends the request of one of the three forms, with the key of the request
whose outcome is unknown if there is one. Page and workbench have one command
each under way. A poll reads the list, then the selected run, and is taken if no
command was numbered since it began (`generation`). The server's daily ticks and
controls raise a run's revision. `crossed` marks a command of the page during which
the workbench's new run arrived: nothing orders those two answers.

### SavedRecords

One module for six panels, since they are variations of one pattern: whether the
key is kept in memory or in sessionStorage (`KeyInSession`), whether a refusal
forgets it (`ForgetsOnRefusal`), and whether lists carry a stamp (`Stamped`). The
designer adds its form and result, the review page its current market data.
`idempotentPost` is modelled by its effect, a key per panel and body that a
success alone removes; its hash and its map are left out because the panels are
busy while it runs. `Remount` is a page load or the change of the key the cost
panel is mounted under.

### PortfolioPage

`Effective` is `effectiveSelectedId`. A form's job is `sent`, `done` at the server, then
`reading` what it asked for. A read is answered with any state between its question and
its answer. The dialog that confirms a deletion can be closed while the deletion is out,
and the rest of the page used meanwhile. `Write` is what each form's request does at the
server (`RecordsTrade`, `PutsRule`, `SavesThesis`, `CreatesPortfolio`,
`DeletesPortfolio`). The user uses two of the five forms in a behaviour, any two: a bound
(`MaxForms`).

### RowLists

A row is a pair of switches (role and suspension, priority and activity, read...)
or absent. A command sends what the page shows of the row, changed; the answer is
put into the list. `pending` is the one slot (`pendingId`, `pendingTicker`,
`deletingId`). `table` is the history of the server's rows: a load that was asked
for when it had `since` states brings any state from that one on. The module's
specification is called `RowsSpec` (`RowsInit`, `RowsNext`, `RowTypeOK`), since one
proof module extends both it and `MarketViews`.

### MarketViews

A behaviour looks at one of five kinds of view. Those loaded by a key ignore the
answers of earlier keys; the screener does not and shows whatever answer came last.
The stream merges ticks onto the snapshot, and every change of the token or of the
symbols makes the connection anew. A ticker's price is the number of its tick, and
`named` says whether the name survived.

A connection is tried, up, or waits for the next attempt (`conn.phase`). An attempt fails
(`ConnectFails`), succeeds (`Connect`), or is refused because the access token it carries
has expired (`ConnectRefused`): `connectHeaders` holds the token of the render the effect
ran in, so every attempt repeats it, five seconds after the last one (`Reconnect`), until
the session has another (`TokenChanges`, which makes the connection anew). Expiry
(`TokenLapses`) is not told to the page, and a connection that is up outlives it. Tokens
of one account and of two are the same thing here: `Sessions` has both.

## Runs

| Run | Instance | Shows |
|---|---|---|
| `execution_replay` | three orders of 66 lots, partial fills of 33 lots, half a quantum of fee per lot, a capital that pays for the first order but hardly for its fees; about 950 000 states | the seven invariants below, and that the account implements `BrokerMirror` |
| `execution_rounding` | one order of 100 lots, fills of 1 or 33 lots | **violation** of `ReconcileRecovers` |
| `execution_store` | 2 workers, 3 keys, 2 command bodies, 2 configurations, 2 calculators, at most 2 commands; about 540 000 states | the service's invariants, and that it implements `CommandJournal` |
| `execution_retry` | 2 workers, 1 key | **violation** of `RetryResolvesFailure` |
| `auto_trading` | 2 runs, 2 schedulers, 2 creation workers, 2 days, 1 unfinished run allowed, 1 outage; about 210 000 states | safety of the life cycle, and that a running run ends |
| `auto_limit` | 2 runs, 2 creation workers | **violation** of `UnfinishedLimit` |
| `client_session` | 2 accounts, 2 requests, 3 things asked of the session, 3 pairs of tokens; about 960 000 states | whom the tab is signed in as, and that nothing hangs |
| `auto_trading_page` | 2 runs of 2 revisions, 2 keys, 2 commands; about 350 000 states | one effect per wish, a page that does not go back and catches up |
| `saved_records` | 3 keys, 2 sets of conditions, each of 6 panels; about 350 000 states | one record per wish, headings that are true |
| `portfolio_page` | 2 portfolios and a new one, 1 trade, 1 strategy change each, any 2 forms; about 1 640 000 states | the page of the selected portfolio |
| `row_lists` | 2 rows and a new one, 3 commands, 1 refresh of the session, each of 8 pages; about 970 000 states | rows as served, and as asked |
| `market_views` | 2 keys, 2 symbols, 2 tokens, 3 changes, 2 ticks, 1 lost connection; about 760 000 states | nothing stale, nothing that loads for ever, a connection while the token is in force |

Properties of `execution_replay`: at most one order is open (`OneOpenOrder`);
reservations are exactly what the open order may still take
(`ReservationsMatch`); selling everything is final (`LiquidationIsFinal`); the
account has applied each broker event up to its sequence number, once
(`AccountFollowsBroker`); the error paths inside a delivery are unreachable and
no other command fails the final checks (`OnlyDeliveryBreaksChecks`); no shares,
no cost (`FlatMeansNoCost`); `MirrorsBroker` is the refinement.

Of `execution_store`: the stored state is some calculator's replay of exactly the
stored journal (`StateMatchesJournal`); incidents describe the stored state
(`IncidentsMatchState`); nothing moves while a mismatch is on record
(`MismatchFreezes`); `ImplementsJournal` is the refinement.

Of `auto_trading`: journal, cursor, stored state and completion agree
(`JournalMatchesCursor`); control events agree with the status
(`EventTellsStatus`); a run advances one day at a time, only while it is running
and due (`AdvancesWhenDue`); what ended stays (`EndIsFinal`); a plain creation
keeps the limit (`PlainCreationsKeepLimit`); a running run does not hang
(`RunningEnds`).

Of `client_session`: the tab is signed in as it was last asked, and would be after
a reload (`SignedInAsAsked`); a request is not sent again with another account's
token (`RequestKeepsItsAccount`); tokens are dropped by a sign-out, a page load or
the refusal of the very token held (`DroppedOnlyByItsOwnRefusal`); requests and the
initial spinner end (`Settles`).

Of `auto_trading_page`: one wish makes one run or strategy (`OneEffectPerWish`); the
journal is of the run it is shown with (`JournalOfShownRun`); polls and controls
bring nothing older than what is shown, unless the workbench's new run crossed the
page's command (`ShownNeverOlder`); once the user leaves it
alone, the page shows the server's state (`CatchesUp`).

Of `saved_records`: one wish makes one record (`OneRecordPerWish`); a saved review
shows its own data, a design is of the form or marked, and a late list takes no
record off (`ShownAsSaid`). Of `portfolio_page`: at rest the parts and the limit are
the selected portfolio's and current (`PageOfSelected`). Of `row_lists`: at rest the
rows are shown as served and served as asked (`ListFollowsServer`). Of
`market_views`: what is shown is of the key, account and attempt wanted, errors can
be retried, the latest search wins unless an older one overtook it, quotes keep up
(`ShownIsCurrent`); everything loads or fails in the end, and the quotes are connected for the
symbols known, unless the token lapsed (`Settles`).

### Bounds

Two or three orders are enough for the reducer because at most one is open: a
finished one, an open one and one more that is refused or bought after it. Two
partial fills of half an order give the first, the last and a middle event of a
delivery. Two workers (or schedulers) are the least that interfere; two commands
fill a run, so that the limit is met; three keys leave one to be refused at the
limit. Two days make a first and a last tick. `MaxOutages` bounds failures whose
repetition leads back to a state seen before. `MaxCommands` and `MaxUnfinished`
stand for 500 and 5.

In the browser, two of everything a page distinguishes (accounts, runs, portfolios, rows,
keys, symbols) make an earlier and a later one, and one to be added is new to both sides.
Three changes let an answer be overtaken twice. A session version and a pair of tokens
more than the first lets a sign-in follow a sign-out while the first refresh is out. Two
commands overlap; the third is sent after either is answered. In `auto_trading_page` two
revisions tell an older state from a newer one; the orders that need a third revision are
covered by the theorem `NeverOlder`. One lost connection is enough because it comes at any
point of the others, the expiry of the token included; attempts to connect may fail any
number of times. Instances with one more change and one more tick of `market_views` (its
invariants only), one more command of `row_lists`, and one portfolio but one more form of
`portfolio_page` were checked once and pass; they take too long for every check. A random
simulation of `row_lists` with two rows to be added, seven commands and three reloads,
over 300 million states, found no violation.

Symmetry is used only where no liveness is checked and
where the values are not compared. Deadlock is checked except in `AutoTrading`,
where nothing is left to do when every key is used and every run has ended, and in
the browser's modules, where a page may rest.

### Fairness

On the server only `AutoTrading` assumes any. The scheduler thread is called again after a
fixed delay, so a due run is polled and a polled run is visited; a tick that was
begun ends, since the HTTP call of the calculator has a timeout of ten seconds;
`Fail` is the next statement of the same thread; and time passes, so a run's
interval ends. The calculator need not succeed, the user need not act, and
outages are finitely many.

In the browser, `ClientSession` and `MarketViews` assume that a request is answered or
fails in the end (a browser gives up a dead connection, `useResource` after ten seconds),
that the continuation of an answer runs, and that a websocket delivers what was sent.
`MarketViews` assumes of a lost connection that it is tried again after each failed or
refused attempt (`reconnectDelay`, weak fairness of `Reconnect`), that each attempt ends
one way or another, and that attempts the server would accept do not fail for ever (strong
fairness of `Connect`, which is enabled again and again only while the token is in force).
It does not assume that a token is renewed: `authFetch` does that when a request is
answered with 401, and an idle tab sends none, so a connection lost after the token lapsed
is refused until the user asks for something. `AutoTradingPage` assumes besides that the
interval timer fires and that a poll does not fail for ever. The user, the market and the
server's own ticks need not do anything. The other modules state safety only and assume no
fairness.

## What the violations say

1. `execution_rounding`: an order reserves the cost of its whole quantity with
   the fee rounded once; each fill pays a fee rounded by itself. When fees are
   small fractions of a quantum and the cash is nearly all reserved, delivering a
   fill leaves less cash than is reserved, and the reducer refuses the
   reconciliation that docs/adr/0003 says recovers the order. `ExactFeesReconcile`
   proves that this is the only way.
2. `execution_retry`: attempt 1 fails and is rolled back; attempt 2 with the same
   key commits; attempt 1's failure is recorded; a third attempt is answered with
   success from the journal and leaves the incident active, although
   docs/Execution_P1_Verification.md says that a successful retry resolves it.
3. `auto_limit`: two `runStrategy` calls read the strategy, the second waits for
   the first's lock, and then counts in a snapshot from before it.

Smaller observations, not runs: STRATEGY_BUY sizes an order without rounding its
fee, so the weight check may refuse it by less than a quantum; the replay
endpoint turns `ValueError`, `KeyError` and `TypeError` into 422 but not
`ArithmeticError`, unlike the automatic one; a command applied after a calculator
upgrade replaces the stored state, so a mismatch nobody verified goes unseen; the
service and the reducer check the limit of 500 commands twice.

In the browser, also without runs of their own, orders of answers that no code
guards: a sign-up that is answered after its page was left signs in over the session
that has begun since; a refresh of the portfolio selected before puts its rows in the
place of the selected one's, whose spinner then stays until another selection;
administrator commands on one row that overlap send each other's old values; the
screener shows the search whose answer came last; ticks lost with a connection are
not read again; a symbol whose quotes failed to load is shown by its ticks, without a
name; a row of the stock list whose history failed to load is never filled. And one that
no code ends: a websocket lost after its access token lapsed is refused every five seconds,
since `quote-stream-context.tsx:77` repeats the same header and only another request of the
tab renews the token; the page shows the last quotes and that it is not connected.

## Proofs

Every safety property of a passing run, the two refinements included, is also proved,
for every value of the constants that satisfies the module's assumption. `tlapm`
checks the proof modules from nothing: about 3750 obligations for the reducer, 740 for
the service, 970 for automatic runs, 1350 for the session of a tab, 2400 for the
auto-trading page, 520 for the saved-record panels, 1600 for the portfolio page and
4300 for the row lists and the market views.

**ExecutionReplay.** From `ConfigAssumption` alone (what `replay()` demands of a
configuration), for any number of orders and any quantities: `TypesAreKept`,
`OneOrderIsOpen`, `ReservationsAlwaysMatch`, `LiquidationStaysFinal`,
`AccountAlwaysFollowsBroker`, `ChecksFailOnlyInDelivery`,
`FlatAccountsCostNothing`. None of these is inductive. The invariant `IInv` says
of `state` and `stored` (`AccountOK`) that each order is a prefix of its broker
order's log (`OrderOK`), that a log has the shape the broker commands give it
(`LogOK`: running totals, at most one end, as the last event), and that the
amounts balance; of `stored` that it is conserved and has nothing pending; and
of a delivery (`DeliveryOK`) that each event of the order has been applied,
waits in `pending`, or is still to come, which is why the order has caught up
when nothing is left. Between deliveries `state` and `stored` are equal.
The arithmetic is in lemmas about `RoundHalfUp`, `Fee` and `RemovedCost`, which
bound each rounding; the step proof has one case per action and, below it, one
per conjunct the action can disturb. `ExactFeesReconcile` assumes in addition
that the fee of a lot is a whole number of quanta. `StrategyFitsLimits` settles what
is said below of STRATEGY_BUY: the quantity it works out never exceeds the order limit
or the free cash, and misses the position limit by half a quantum's worth at most; if
fees are exact, or the limit is one over a whole number, it does not miss it at all.

`AccountImplementsMirror` is the refinement of `BrokerMirror`. The abstract account
counts shares with folds over orders and event logs. What a fold computes is usually
shown by induction over its data, which is out of reach here; each such lemma looks
at a smallest counterexample instead, which exists because inclusion is well-founded on
finite sets (`SmallestSet`) and `<` is on the naturals (`SmallestNumber`). So a sum
does not depend on the member it takes next (`SumTakes`), a log adds up to its last
running total (`FilledIsTotal`), and the net of all logs is the sum of what the orders
traded (`NetIsTotal`). `IInv` does not say how many shares an account holds; `MInv`
does (`SharesOK`, the theorem `SharesAreTraded`), and that the stored account is
never ahead of the working one (`Behind`). A command then is a step of `BrokerMirror`
if it leads to a new stored account, and shows nothing if it is refused, timed out or
repeated; of a delivery only its end shows. Both theorems assume that `OrderKeys` is
finite, since the sum over it has no meaning otherwise; a journal has at most 500
commands.

**ExecutionStore.** From `StoreAssumption`: the types with the limit on
commands, `StateAlwaysMatchesJournal`, `IncidentsAlwaysMatchState`,
`MismatchAlwaysFreezes` and the refinement `ServiceKeepsJournal`, all for any
number of workers, keys and calculators. The invariant says that at most one
handler waits for the calculator (`AtMostOne`: a creation and a command wait for
different rows, but a run exists or does not), and that what it read is still
what the tables hold; that an apply under way has a key the journal lacks and
met no mismatch; and that a failure to be recorded is never one of a creation
(`HandlerOK`). The refinement is proved step by step from it.

**AutoTrading.** From `AutoAssumption`: the types, `JournalAlwaysMatchesCursor`,
`EventAlwaysTellsStatus`, `AdvancesOnlyWhenDue`, `EndStaysFinal` and
`PlainCreationsAlwaysKeepLimit`, for any set of runs, even an infinite one, any
number of schedulers and handlers, days and limits. The invariant says that a
row in a tick belongs to one scheduler (`OneTickPerRun`) and is still running
and due with the cursor it read (`TickOK`); that creations take turns
(`OneCreation`); and that what a plain creation counted is still below the limit
(`CreationOK`), since only an insert adds an unfinished run. For a creation of a
saved strategy this last part is false, as `auto_limit` shows.

**ClientSession.** From `SessionAssumption`, for any accounts, any number of requests,
sign-ins, page loads and pairs of tokens: the types, `TabStaysSignedInAsAsked`,
`RequestsKeepTheirAccount` and `TokensDropForTheirOwnRefusal`. The invariant says that
nothing is of a later version than the tab and that only a refusal goes past the bound
(`VersionsOK`); that a call brings tokens of the account it is about (`CallsOK`); that a
call whose answer still counts is about the account asked for (`HeldOK`), and a request
of the session too (`RequestsOK`); and that what counts is one sign-in, with nothing held
and no refresh beside it, or one refresh, which is the shared one and for the pair held
(`FlightOK`). The last part is why a refusal that clears the tokens speaks of them; it
is false once a sign-up has overtaken the session, and so are the parts that need it.

**AutoTradingPage.** From `PageAssumption`, for any number of runs, revisions, keys and
commands: the types, `OneEffect`, `JournalsMatch` and `NeverOlder`. The invariant says
that a form's key is that of its wish and that only keys drawn have an effect
(`KeysOK`); that a poll still of the current generation has read at least what is shown
and that the page has no command on its way then (`PollOK`); and hence that, until
crossed, the answer to the page's command is the newest (`AnswerOK`) and a control's is
of the run whose journal is shown (`JournalOK`). `PollOK` is what `generation` is for:
each action that shows something a poll may not know raises it.

**SavedRecords.** From its assumption, for each panel and any number of requests and
conditions: the types, `WishesMakeOneRecord` and `PanelsShowAsSaid`. The invariant says
that the key a panel keeps is the first of the user's wish, so that two keys are two
wishes (`KeysOK`); that while a list is fresh and no creation overlaps it none is under
way (`ListOK`); that current data are wanted only while no review is shown (`ReviewOK`);
and that nothing changes a form that is being computed (`DesignOK`).

**PortfolioPage.** From `PortfolioAssumption`, for any number of portfolios, trades,
strategy changes and forms: the types and `PageIsOfSelected`. The promise about the state
at rest is not inductive, because a form that is done but has not asked yet makes its part
old without a request in sight. `ShownOK` therefore speaks of each part for which nothing
is on its way and no form is about to ask (`Settled`, weaker than `AtRest`): it is shown
as it is unless excused. For a load or refresh to bring that, what it will answer is no
older than what the server had when it was asked (`ReadsOK`), and each change of the server
is followed by a request of the form that made it. The two forms of the strategy take turns, so
the bound of its changes holds (`JobsOK`). Selecting another portfolio voids the load of
the last one; a refresh that answers for it all the same excuses its part.

**MarketViews.** From `MarketViewsAssumption`, for any number of keys, symbols, changes,
ticks and lost connections: the types and `ViewsAreCurrent`. The two halves share no
variable but `changes`. Loads (`LoadsOK`): a request on its way is for what is wanted, and
of several searches the last is out or is the newest answered, so that when none is out the
result is the last one's. The stream (`StreamOK`): the last tick queued of a symbol is its
current price and the last news the current symbols, which no property of the state at rest
says; a connection made anew or lost takes its queue with it, and what was queued is then
counted as missed.

**RowLists.** From `RowListsAssumption`, for any number of rows, commands, refreshes and
rows of the same name made one after the other: `RowTypesHold` and `RowsFollowServer`.
The promise speaks of a row at rest; the invariant (`RowsInv`) says of each row that is
not excused what holds while commands are out. There is one, or a deletion that was
confirmed while another command had the slot (`OneAtATime`). What the server has is what
was asked, or a command not served yet will make it so, or a deletion has voided it
(`AskedOK`). What is shown is what the server has, or an answer on its way will make it so
(`ShownOK`); the answer to a deletion may find a row that was made anew, and must not take
that. The forms of one row keep what is typed, so there the promise holds from the
last answer on (`FormsOK`). The bell's count is that of the rows shown as long as no two
commands met, and each command takes off one that is counted, so it never falls below
zero (`InboxOK`). All but three pages load their rows once, before the first command that needs
them (`FirstLoadOK`); the other three may load again at any time, and only a slow load that
sets a row back excuses it.

**Only model-checked:** liveness (`RunningEnds`, `Settles` of the session and of the
views, `CatchesUp`), which is out of the prover's reach. The three runs that expect a
violation state what does not hold; for `ReconcileRecovers` the condition under which it does
is proved.

## Plan

In this order; each gets an MC module, a configuration and its place in the
tables above.

The pages came before the services they call because they hold most of the
frontend's concurrency; the services follow.

1. `PortfolioLedger`: buy and sell under the portfolio's lock, direct edits with
   versions, backfill, deletion, the cutover flag, idempotent creation; abstract
   specification: a position is the fold of its transactions. To prove: no
   negative position, position and ledger agree, one opening per position.
2. `AlertMirror`: rows, mirror, ticks, triggers, restarts; properties: fired at
   most once, the mirror holds no alert for ever that has no row, an active alert
   is mirrored again after a restart.
3. `FinnhubFeed`: connection, subscriptions and handlers as coroutines that
   interleave at each await; candles and the REST fallback; properties:
   subscriptions converge to what is asked, candles of a minute are written once.
4. `AutoReplay`: the automatic reducer as recursive functions; a prefix of the
   bars gives a prefix of the entries, cash and cost stay conserved.
5. `MarketReport`, `ScreeningSnapshot`, `SessionTokens`, `EtfPaper`: small
   protocols, one module each, sharing runs where they share a question.

## Not covered

Hazards of the parts that wait for a module: a buy booked after a later sale, the
drift of a rounded average cost, edits that race the opening backfill
(`PortfolioTransactionService.java:54`, `:120`, `PortfolioService.java:123`,
`PortfolioOpeningBalanceBackfillService.java:26`); an alert mirrored before its row is
committed, or deleted while the collector walks the set (`AlertService.java:55`,
`alerts.py:19`); subscriptions changed between two awaits and candles returned late
(`finnhub_source.py:69`, `aggregator.py:39`); a snapshot batch that stays RUNNING
(`screening_snapshot.py:238`); two instances that publish one session's report
(`MarketReportService.java:126`); a refresh that races a suspension
(`AuthService.java:80`); the month's signal captured twice or late
(`EtfPaperService.java:79`).

Orders the modules of the browser have, but which their properties excuse because no
code guards them: a refresh whose answer is lost after the token was rotated
(`auth-context.tsx:82`); a sign-out with an expired access token, which the server
refuses (`:136`); the workbench's late answer, or the late answer to a control that it
crosses, which sets a run back until the next poll (`auto-trading/page.tsx:196`,
`:110`); a list asked for during a creation
(`period-validation.tsx:40`) and the key the cost panel forgets when it is mounted
anew (`:146`); a trade recorded whose refreshes fail, so that the form reports a
failure (`portfolio/page.tsx:212`); a second command while the one slot names another
row (`admin/users/page.tsx:23`); a slow first load over a row that was added
(`AlertsPanel.tsx:32`); quote snapshots that overwrite newer ticks
(`quote-stream-context.tsx:97`); a connection to be made with a token that has lapsed (`:77`).

Orders outside the modules: the decisions of a review that arrive after another was
opened (`review/page.tsx:75`); strategies asked for at mount that arrive after one was
saved (`strategy-workbench.tsx:42`); a high or low between two renders
(`candles.ts:85`); the ETF and execution pages' late first loads (`etf/page.tsx:51`,
`execution/page.tsx:47`); the key in sessionStorage that answers the same wish days
later with the old record (`idempotent-post.ts:11`).

## Not modelled

Cached market data, indicators and research calculations (fetch and show, or
floating-point statistics), mail and the deployment: they keep no state that
several actors change. Of the frontend: the execution and ETF pages, which repeat
patterns of the pages that are modelled; drawing (`CandleChart`, the analysis
panel); the merge of a tick into a candle; the statistics of the stock list; the
comparisons of runs and of financials; the decisions of a review; the layout of the
dashboard, which one browser keeps for itself.

The rest of the table without a module is planned as above.
