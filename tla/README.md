# Verification of uptions

uptions is a backend for prediction-market trading: users sign orders in their
wallet, the backend submits them to Polymarket, follows them through a private
websocket stream, runs automations on market data, and exposes its tools to
agents over MCP. These modules model the parts of it in which requests, workers
and the venue race with one another over rows of the database.

## 1. Inventory

Paths are under `src/src/`. All persistent state is in PostgreSQL; apart from
the rate limiter, the sign-in challenges, the alert channel and the supervisor's
table of workers, the process keeps nothing. Handlers are async: each `.await` is a point
where others run and where the handler may be dropped.

| component | state | operations | interacts with |
|---|---|---|---|
| trade intents (`trades/service.rs`) | `trade_intents`: status, signed order hash, provider order id, response, submission time | create, submit a signed order, reconcile, cancel one, several, all, a market | the venue over HTTP; the user stream, which writes the same rows |
| user stream, events (`providers/polymarket/user_stream.rs`) | `polymarket_user_events`, `trade_intents` | store an event once, move the trades it names | the venue's websocket; trade intents |
| user stream, supervisor (same file) | workers by connection: the version they were started for and their task | one pass every five seconds: list, abort, restart, mark | connections and users, written by auth; one worker per connection |
| connection eligibility (`providers/polymarket/connection.rs`) | `venue_connections.status` | mark a failure, restore or mark after a wallet replacement | supervisor and auth |
| authentication (`auth/service.rs`) | `users`, `auth_methods`, `user_sessions`, tokens, `wallet_signature_challenges`; sign-in challenges in memory | sign up, log in by email or wallet, associate a wallet, connect Polymarket, reset a password, change an email, log out | connections; mail |
| MCP and approvals (`mcp/service.rs`) | `mcp_approval_requests`, alerts | call a tool, ask for approval, approve, reject | automations, notifications |
| automation service (`automations/service.rs`) | `automations`: status, workflow, revision | publish, update, pause, resume, delete | MCP, executor |
| automation executor (`automations/executor.rs`) | `automation_runs`, `automation_observations`, `alerts` | a tick every 30 seconds: evaluate, act, record | automations, market data, notifications |
| notifications (`notifications/service.rs`) | alerts; a broadcast channel of 512 | list, mark read, stream | executor, MCP |
| comments, favorites (`markets/`) | `market_comments`, `favorite_markets`; a broadcast channel of 1024 comments | add, remove, list by page, stream | - |
| rate limiter (`app/rate_limit.rs`) | a map of windows | admit or refuse | every route |
| Polymarket client (`providers/polymarket/client.rs`) | - | sign and send requests, classify errors | the venue |
| provider registry, market data, analytics, users, config, entities, mail | - | stateless, or single statements | - |

### What is hard, and what makes each part correct

* **Trade intents.** The outcome of a POST may be unknown (timeout, crash); a user
  may retry; reconcile, cancellations and events write the row at the same time.
  Correct: no order is posted blindly twice; a trade is bound to one signed
  order and an order to one trade; a terminal status is true; a trade whose request
  died does not stay in `submitting`.
* **Connections and the supervisor.** A pass works on a snapshot while users replace
  wallets and credentials. Correct: a worker that is kept serves the wallet the user
  has now; credentials are not condemned for what older ones were; a connection that
  stays eligible is served; one that stops matching does not stay active.
* **Wallets.** Sign-in and association race for a wallet, a challenge may be replayed.
  Correct: one owner per wallet, and a challenge works once.
* **Approvals.** Approve and reject read a pending request, act, then write without a
  condition. Correct would be: a tool runs at most once, and never when the request is
  rejected. The code keeps this for decisions that neither overlap nor stop half-way.
* **Automations.** A tick evaluates a snapshot; alerts are sent before the run is
  recorded. Correct: a recorded evaluation keeps the next alerts a cooldown away, a
  trigger compares values of one workflow, a deleted automation is silent, what the
  user paused stays paused, and no automation is forgotten.
* **Accounts.** A link or a challenge is looked up by one statement and takes effect by another,
  while the address, the password or the same link are used by other requests, or the process
  restarts. Correct: a token works once, a verified address was proven by its own link, and no
  session outlives a change of the password.
* **Signed orders.** The intent, the signed order and the connection are compared by several
  functions, amounts by products of 128-bit integers and rounded decimals. Correct: what is
  submitted is what was asked for, by the wallet that asked, at every amount.
* **Workflows.** The service validates a workflow, the executor orders and reads it again later
  with code of its own, in the one task all users share. Correct: what the service accepts the
  executor runs, in an order along the connections, and no stored workflow holds its loop.
* **Pages and streams.** Rows are stamped before they are inserted, and inserted and removed
  between two pages; alerts and comments are stored, then published, to streams that open, lag and
  close. Correct: pages neither skip nor repeat a row, no alert falls between the list and
  the stream, and clearing alerts touches none that has come since.
* **Limits.** Each limiter has windows of its own per address, drops those that are over when it is
  crowded, and sits behind another. Correct: no address gets two limits in one window, and
  none is refused before it has had its limit.

`PROJECT.json` lists these as hazards, each at its line.

## 2. Modules

| module | what it is |
|---|---|
| `OrderPlacement` | abstract: a trade is bound once to one signed order, and the venue holds only bound orders |
| `TradeIntents` | the handlers of `trades/service.rs`, the stream worker and the venue; implements `OrderPlacement` |
| `TradeIntentsProofs`, `TradeSafetyProofs` | its theorems: types, bindings, the refinement and what is settled; what is true of the venue |
| `SignedOrders` | the checks a payload and a signed order pass before the claim |
| `VenueConnections` | wallets, connections, the supervisor and its workers |
| `VenueConnectionsProofs` | its theorems |
| `Accounts` | accounts, the links mailed to them, challenges and sessions |
| `AccountsProofs` | its theorems |
| `AutomationLife` | abstract: automations live, pause and go as requests ask, and are sent for by ticks, whose alerts are those of the workflow they sent for |
| `Automations` | the automation service's calls, the executor and their tables; implements `AutomationLife` |
| `AutomationsProofs` | its theorems |
| `Workflows` | validation of a workflow in the service, and its ordering in the executor |
| `WorkflowsProofs` | its theorems |
| `ApprovalDecision` | abstract: a request is asked for, then refused without effect, or executed once and approved; decisions are final |
| `McpApprovals` | extends `Automations` with the requests for approval, whose tools are its calls; implements `ApprovalDecision` |
| `McpApprovalsProofs` | its theorems; extends `AutomationsProofs`, whose lemmas cover the tools |
| `RateLimiter` | the limiters and their layers around the routes |
| `Pages` | comments and favorites, read page by page while they change |
| `Feeds` | alerts and comments, stored, listed, streamed, marked and cleared |
| `RulesProofs` | the theorems of `SignedOrders`, `RateLimiter`, `Pages` and `Feeds` |
| `MCTradeIntents`, `MCVenueConnections`, `MCAccounts`, `MCAutomations`, `MCMcpApprovals` | constants and symmetry for TLC, and in `MCAutomations` which calls and automations a behaviour has |
| `MCRules` | inputs for `Workflows`, `SignedOrders`, `RateLimiter`, `Pages` and `Feeds`, which share nothing; each behaviour is about one of them |

### TradeIntents

*State.* `status`, `hash`, `orderId`, `responded` are the columns `status`,
`signed_order_hash`, `provider_order_id` and `provider_response IS NOT NULL`;
`fresh` says that `submission_started_at` is less than 30 s old. `sub`, `rec`, `can`
and `stream` are the locals of the handlers in flight, with the statement each has
come to. `wire`, `exOrder` and `exFills` are the venue: requests under way, orders,
and the statuses each fill has gone through.

*Actions.* One statement or one request each. `SubmitRead`, `SubmitClaim` (or
`SubmitConflict`), `SubmitPost` (or `SubmitUnsent`), the venue's `VenueAccept`, then its
`VenueAnswer`, or `VenueRefuse`, or `SubmitTimeout`, `SubmitFinish`: the conditional UPDATE of
`claim_submission` with the unique index on the hash, the POST, its outcome
classes, and the conditional write of `update_claimed_trade`. `ReconcileRead`,
`ReconcileMark` or `ReconcileOrder`, `ReconcileTrade`, `ReconcileWrite`. `CancelTrades`,
`CancelAll`, `CancelMarket`, then `CancelMark`, `CancelCall`, `CancelApply`.
`StreamRead`, `StreamApply`. An `Abandon` action of each handler stands for a dropped
future, an error return and a crash of the process alike: locals are lost, rows stay.

*Abstractions.* One user: every query filters by the user, but the unique index on
the hash, which is global and which two trades of the model share. A signed order,
its hash and its venue id are one value. The checks on a payload and a signed order
have no effect on state; they are `SignedOrders`. A POST is answered by `success: false`, by any
word for the status that `provider_status` tells apart (`live` stands for all the words it does not
know, and for none), each with an order id or without one, by a 4xx, or by what leaves the outcome
unknown. The venue is outside the repository, so what its answers mean is an assumption: they are true
when they are given. A refusal (4xx, `success: false`, `rejected`) of an order it does not have means that
this request placed nothing; of an order it has, its answers are the `TrueWords`: `confirmed` is said of
one with a confirmed fill, and a refusal of one whose fills have all failed. A lost event is one that
is never read; a repeated or late one is read again or later, so storing events
once does not matter to the rows. The venue may cancel what it likes among what a DELETE
covers, match, settle and close orders by itself, and take a request after its client gave up.

### SignedOrders

*State and actions.* `trade` is the intent that `Create` has stored, `taken` the submission
that `Submit` has let through. A payload and a submission carry what the service reads while it
handles them: the user's primary wallet, the venue's market, the active connection and its
config. They are read at different times, so each comes with any value. A refused
request changes nothing. `Create` needs `Ready` (`validate_readiness`), `ValidPayload`
(`validate_trade_payload`) and `Offers` (`resolve_market` and `resolve_instrument`); `Accepts` joins
`validate_submission_options`, `validate_readiness`, `resolve_instrument`,
`validate_resolved_trade`, `credentials` and `validate_signed_order`.

*Abstractions.* An outcome is a label and its token, labels up to their case; addresses are
compared as they are. `MaxU128` bounds the integers: `InRange` is what `checked_mul` refuses, and
`Times` is the product as the machine has it, so that a check left out would show. The user's
decimals are multiples of `1/Fine` of a base unit, which `Normalized` rounds as the code does; that
a 64-bit float is not exactly a decimal is left out.

### VenueConnections

*State.* `users`, `wallet` (`primary_wallet_address`), `method` (the rows of
`auth_methods` of type wallet, one per address by the unique index), `chal`
(`wallet_signature_challenges`), `conn` (`venue_connections`, one row per user by the
index on user and provider), and the locals of the requests in flight: `assoc`,
`cnx`, `signin`. `sup` is the supervisor's pass: the rows of its snapshot still
to be taken, and a verdict about to be written. `worker` is its table of workers.

*Actions.* `CreateChallenge`, `ExpireChallenge`; `AssociateRead` and `AssociateCommit`
(one transaction: consume the challenge, check the wallet, write the user, restore or
mark the connection, move the auth method; it commits all of it or nothing);
`ConnectFind`, `ConnectWrite`; `SignInFind`, `SignInInsert`, `SignInMethod`; `SupList`,
and for each row of the snapshot `SupKeep`, `SupSkip`, `SupSpawn` or `SupReject` with
`SupMark` or `SupMarkFails`; `SupSleep`; `WorkerEnds`.

*Abstractions.* `updated_at` is a version that every write increases: two
writes of one row are assumed to have different timestamps (PostgreSQL keeps
microseconds). `enabled` is never set to false by the code and is left
out. `associate_wallet` is atomic because its statements run in one transaction whose
unique indexes and conditional updates decide every race the
properties are about; under READ COMMITTED two transactions that write one row wait for
each other at the first such write, the user's row or the challenge. The in-memory
challenge of a wallet sign-in is consumed before the first modelled statement and is
left out. A restart of the process is a pass that starts again after every
worker has ended. A stored config is one of three kinds, by what
`stream_credentials` finds in it. Sessions are taken to be valid; they are in `Accounts`.

### Accounts

*State.* `row` is `users` (address, verified, the tokens of verification and reset, and
`epoch`, the number of passwords the account has had), `session` is `user_sessions`, `challenge`
the service's map of wallet challenges, `call` the locals of the requests. `link` says what
each token is for, to whom it was given and whether the mail has gone. `proven`, `uses`, `shared`
and `strayed` are history variables: the address the last link came back from, how often a token
took effect, the tokens two requests held at once, and the accounts that changed their
address while something of the old one was outstanding (`Strays`). Of two changes to one address that
overlap, the later finds it already the account's own: it takes the verification back and mails another
link, but the address is the same and nothing strays by it.

*Actions.* One per statement or transaction: `SignupLookup`, `SignupInsert`; `LoginRead`;
`VerifyRead`, `VerifyWrite`; `ForgotRead`, `ForgotWrite`; `ResetRead`, `ResetWrite` (one
transaction); `Authorize` for every request with an access token, then `EmailRead`, `EmailLookup`,
`EmailWrite`, or `PasswordRead`, `PasswordWrite`, or `Logout`, `LogoutAll`; `CreateChallenge`,
`VerifyChallenge`. Most end in `WriteMethod`, `SendMail` or `IssueSession`, actions of their own.
`Abandon` is an error or a dropped request after any statement, `Restart` loses the requests and the
challenges.

*Abstractions.* Time is left out: a link, a challenge or a session that has expired is one with which no
request succeeds any more, which is among the behaviours. So is the content of passwords. A sign-in
that has read its account before a change of the password, and issues its session after it, is `late`;
the code does nothing about it and `SessionsAreCurrent` leaves it out. Usernames are left out,
and the email rows of `auth_methods`, which nothing reads.

### Automations

*State.* `row` is `automations` (workflow, status, idempotency key; `None` where there is
no row), `obs` the trigger's row of `automation_observations`, `runs` the times of the rows of
`automation_runs` that count for the cooldown. `call` holds the locals of the requests
in flight, `exec` those of the executor: the rest of its snapshot, the automation under
evaluation and the step it has come to. `alertAt`, `unrecorded` and `disturbed` are history
variables: when the executor last sent an alert of an automation, the automations
whose last alerts have no run because an evaluation ended too early, and those updated in a way
that may leave an old observation behind. No action reads them.

*Actions.* `Publish` (`Lookup`, `Insert`, or `InsertFails` and `Lookup` again), `Update`
(`Find`, `UpdateWrite`, `Forget`), `Alter` for pause, resume and delete (`Find`, `SetStatus`
or `Delete`), each followed by its `Alert`; `Fail` is an error, as that of an UPDATE whose row
is gone, or a failed check. `StartTick`, then for each row of the snapshot
`Evaluate`, `Load` (market and previous observation), `SaveFind` and `Save`, `Decide`,
`Act` for each action, `Record` and `Stamp` (the two statements of `insert_run`);
`EvaluationFails` anywhere. `Restart` loses every local; `Elapse` is the clock.

*Abstractions.* One user, as every query filters by the user and the executor shares
nothing between users but its loop. There is one provider, so its pause for
another one never happens. A workflow is its market, the metric of its trigger and its
actions; its conditions are an arbitrary Boolean, a market's value is arbitrary, and the
trigger keeps its step id, so that an update changes what the observation of that step
means. The tick takes its snapshot in any order. `last_run_status`, `last_run_at` and
the texts of alerts are left out, since nothing modelled reads them. Listing, marking and
clearing alerts is in `Feeds`.

*Refinement.* `AutomationLife` has no tables and no statements. `Phase` and `Plan` read the row (an
identifier that was used and has no row is `gone`), `Asked` the requests whose next statement
writes it, `tick` is the snapshot, `Turn` the entry of it that is evaluated. `UpdateWrite` is `Update`,
`SetStatus` is `Pause` or `Resume`, `Act` with its insert is `Alert`; what reads, forgets, saves and records
stutters. `Stamp`, the executor's late write of the automation, ends an evaluation (`Done`) and may change
neither its phase nor its plan.

### Workflows

*State and actions.* A `workflow` is received by the service or was stored before, by an
earlier release for instance. `Validate` is `validate_workflow` with the functions it calls;
`HasCycle` is its depth-first search with the two sets it keeps. `StartOrder`, `FollowStep` and
`EndOrder` are `ordered_workflow_steps`: the checks before its loop, one iteration, and the checks
behind. `Run` is what `evaluate_automation` then needs of each step. `stage` says how far the
workflow has come. `Roots`, `Sinks` and `First` are places in the list of steps, not steps: the code
counts what its filters return, and two equal steps are two. `Visit` is the search as one recursive
function of what it knows: its two sets, the steps its innermost loop has still to visit, and whether it
has met its own path. A step is `Entered` by a search of its own and `Left` behind it.

*Abstractions.* Five of the nine actions stand for all, as the others are checked and read like
one of them, and one parameter for all that an action needs, with the values on which the
service's reading and the executor's differ (a number in quotes, an interval out of the
list, a key left out). The loop counts nothing, so the model stops adding to `ordered` once it has
more steps than the workflow, but does not stop the loop. The search visits the steps a step leads to in an
order of its own, where the code has that of the list. Once it has met its own path the code returns
without touching its sets, which nothing reads any more; the model moves on in both cases alike.

### McpApprovals

*State.* `status`, `tool`, `overdue` are the columns of `mcp_approval_requests` (`overdue`
says that `expires_at` has passed), `notice` the status shown by the alert that asks for
approval, `told` the decisions that further alerts tell of, `dec` the locals of a handler of a
request. `executed` and `troubled` are history
variables: how often a request's tool took effect, and the requests for which two
decisions overlapped or one was cut short after the effect.

*Actions.* `Propose` and `Ask` (the row, then the alert), `Expire`, `Reject`, `FindExpired`,
and `Approve`, which starts the tool as a call of `Automations`: its steps are `Step`,
its result `Executed`, the unconditional write of the decision `Write`, the alert that asked for it
`Notify`, and the alert that tells of the decision `Tell`.
`Abandon` is an error or a dropped handler, `Clear` the user's clearing of alerts, `Serve`
what the API starts beside. The executor touches no request and is left out here; its
variables do not change.

### RateLimiter

*State.* `buckets` is the map of each limiter: per address a count and the start of its window.
`admitted` and `refused` are history variables: of each address the requests let through in the last
`Window` ticks (when, and which of that tick), and who was refused at this tick.

*Actions.* `Request` is `enforce` in the layers around a route, `Check` the whole of
`RateLimiter::check` (the clearing of a crowded map included); a request that the outer layer
refuses does not reach the inner one. `Pass` is the clock. The clock is read just before the mutex is
taken; a window has a minute, so the model takes the two as one step.

### Pages

*State.* `rows` is the table, `stamped` the rows whose `created_at` is taken and whose insert is
still to come, `reader` the client that reads and the locals of its request: the cursor, and the row
it was found to be. `shown`, `returned` and `whole` are history variables.

*Actions.* `Stamp` and `InsertRow` (create, or favorite with its `ON CONFLICT DO NOTHING`, which
is taken to be no error), `RemoveFavorite`; `FindCursor`, an error when its row is gone,
after which the client begins again; `QueryPage`, with the one row more that tells whether there is a
next page; `RetryPage`.

*Abstractions.* The ids of comments and favorites are random, so any id can be taken next and only
their order is kept. Comments are never deleted.

### Feeds

*State.* `entry` is the table of alerts, or of comments; `created` their `created_at`, which is taken
before they are inserted and so in any order; `unsent` the rows that are inserted and not yet
published; `sent` what was published since the process started, of which the broadcast
channel keeps the last `Backlog`; `stream` the receiver, the response and what the client knows;
`edit` the locals of requests that mark or clear alerts. `cleared` and `marked` are history.

*Actions.* `InsertEntry`, `Publish`; `OpenStream`, `ListEntries`, `TakeEvent` (an event that is not
the client's own is passed over), `Lag`, `Heartbeat`, `ReadEvent`, `CloseStream`; `ListUnread` or
`ReadAlert` with `MarkEntry`, `ListAlerts` with `ClearEntry`, row by row, `EndEdit`. `DropWriter`
is a writer that ends between its insert and its publication, `RestartFeed` the process.

*Abstractions.* Comments are listed whole, as their pages are in `Pages`. Of the alerts a list has the
newest `ListLimit`, which is 20, in any order where their times are equal (`Listings`), and no further
page: `NothingMissed` says so of an alert when the client has that many which are no older. The lists that
requests to mark or clear go by have no limit. One alert of the code is inserted
without being published, that of another provider in `users/service.rs`, which cannot
happen while there is one provider.

## 3. Runs

TLC explores every state of each run; none uses a constraint, but `MCNext` bounds the calls in
`automations` as said below, and `MCRules` keeps to one subject in each behaviour. Deadlock is not checked
because the systems may stop: every trade settled, or every request used up.

| run | bounds | shows |
|---|---|---|
| `trade_submission` | 2 trades, 2 orders, no fill, 2 submissions, 1 reconciliation, 1 cancellation | `NoBlindRepost`, `TerminalIsTrue`, `OrdersAreClaimed`, `OrderIdIsOwn`, and that `TradeIntents` implements `OrderPlacement` |
| `trade_live` | 1 trade, 1 order, 1 fill, 1 submission, 1 reconciliation | `TypeOK`, `TerminalIsTrue`, `NeverWedged`, `SettledStays` |
| `trade_terminal_final` | as above | violated: reconcile moves a terminal trade back |
| `trade_unknown_outcome` | as above | violated: the stream does not resolve an unknown outcome |
| `venue_accounts` | 2 users, 2 wallets, 2 challenges, 2 associations, 1 sign-in | `TypeOK`, `OneOwner`, `AssociationIsProven` |
| `venue_workers` | 1 user, 2 wallets, 2 challenges, 1 association, 1 connect, 3 writes of the row | `WorkerIsEligible`, `VerdictIsCurrent`, `EligibleIsServed`, `MismatchIsNoticed` |
| `venue_warning` | 1 user, 1 wallet, 1 challenge | violated: connecting the wallet does not resolve `wallet_missing` |
| `automations` | 1 automation, 3 workflows, 3 calls one after another, or 2 and a restart, 2 levels, times 0 and 1, cooldown 1; 2 automations that differ in nothing, and 1 call or 1 restart beside, 1 level, time 0 | `TypeOK`, `BaselineIsOwn`, `AlertsRespectCooldown`, `ActiveIsEvaluated`, and that `Automations` implements `AutomationLife` (`LifeSpec`) |
| `accounts` | 2 accounts, one of a wallet, 2 addresses, 3 tokens, 1 session, 2 requests at a time, 2 passwords each | `TypeOK`, `VerifiedIsProven`, `WorksOnce`, `SessionsAreCurrent` |
| `rules` | workflows: 1 to 4 steps, up to 3 connections, and pairs of steps with every action and parameter; orders: amounts and prices up to 8 halves of a base unit, `Scale` 4, `Fine` 2, integers up to 31, 2 wallets, 2 markets, 2 tokens, 2 labels; limiters: 2 addresses, 2 layers with limits 2 and 1, windows of 2 ticks in 5, crowded beyond 1; pages: 3 rows, 3 markets, pages of 1 or 2, 2 times; feeds: 3 rows, 2 of them own, 1 stream, 2 editors, lists of 1 alert, 2 times, backlog and room 1 | `AcceptedRuns`, `OrderIsSound`, `CyclesAreFound`, `OrderingEnds`; `EconomicsKept`, `OneWalletOneOutcome`; `LimitIsKept`; `PagesAreExact`; `NothingMissed`, `OnlyListedGo` |
| `approvals` | 2 automations, 1 request, 5 tools, 2 handlers, 1 key, 3 calls | `AloneIsDecidedOnce`, `ApprovedWasExecuted`, `NoticeIsTrue`, `OneRowPerKey`, and that `McpApprovals` implements `ApprovalDecision` |
| `approvals_decided` | as above | violated: a rejected request whose tool runs |

*Why the bounds are enough.* Request identifiers are slots that are used again, so
one slot already gives any number of requests in sequence and the numbers above
bound those that overlap. Two submissions overlap because a blind repost needs one
that claims and one that reclaims, and may finish in either order. The bindings relate
two trades and two orders at most. Fills have a run of their own, with the stream: one
fill gives every order of a match, its failure or confirmation, and the answers and events
about them; that more fills, or fills beside more handlers, change nothing is what the
theorems about `TerminalIsTrue` and `NoBlindRepost` show. Connections of
different users share nothing but the wallets, so the workers need one user and the
ownership of wallets two. `MaxVersion` bounds the writes of one row: three allow a
reconnection, an association's mark and a supervisor's mark to meet; a write beyond
the bound is not taken, and `MismatchIsNoticed` allows for it. The executor
evaluates one automation at a time and shares nothing between two but its loop, so most of `automations`
is about one. That an evaluation which fails must not keep the others from theirs needs two, taken in
either order: a second may be published right behind the first (`MCSecond`), and then both have one
workflow, since what they do is of no matter (`MCFocus`). A call comes when there is, or was, what it is
about, and a restart in the place of one (`MCCalls`); of the calls, updates only are also addressed by
the market id, which makes a difference to them alone; the others are in `approvals`. The three
workflows have the three metrics, one or two actions, and both kinds of them. Three calls allow to
publish, change and change back while the executor is in the middle of an evaluation; times 0 and 1
with a cooldown of 1 have a moment inside the cooldown and one after it. The overlap of requests is in `approvals`,
without the executor, which does not see requests but through the tables: two rows that
could have one key, and two handlers that publish with it, of which a third call may follow. Two
decisions overlap with two handlers. In `accounts` two requests overlap, with a token for
each of them and one to mint meanwhile; one session is enough as the sessions of an account
are dealt with alike, and a second account and address are there to take what the first gives up. In
`rules`, three connections among three steps make every cycle, and among
four steps a cycle beside a path, which the count of connections does not tell from one path;
the steps come ordered by kind, as neither function looks at their places in the list. Integers
up to 31 let both products of a price exceed them, with amounts that would agree after the
wrap; halves of a base unit show the rounding. With windows of two ticks among five, windows of
different addresses start at different ticks, end and begin again, while a map beyond one bucket is
crowded. Three rows and pages of one or two make a page that ends a list and one that does
not, two rows of one time, and a row that comes late between them. A backlog of one lags at the second
event that waits, and a room of one is full at the second; a list of one alert leaves out the older of
two, or either when their times are equal, and the alert inserted last may be the older one; the
streams, the edits and, with fewer rows and one editor, both together are taken in turn. The safety
theorems of section 5 hold for any value of these constants.

*Mutations.* Each property has a definition of the code replaced by what a
plausible bug would make of it (operators named `X_Bug` beside `X`): a dropped
compare, an unstamped update, an index that is missing. TLC then finds the property
violated in the same run.

## 4. Fairness

`TradeIntents!LiveSpec`: the runtime polls a handler until it finishes or is dropped,
and the HTTP client gives up after 20 s, so each handler's step is weakly fair and
time passes for `Age`. A client that wants its trade resolved asks again, and not all of
its requests are dropped: strong fairness of the steps of reconcile. Nothing is
assumed of the venue or of new submissions; the stream's worker is fair only so that the
violation in `trade_unknown_outcome` cannot be put down to events that were never read.

`VenueConnections!LiveSpec`: the supervisor's task is an endless loop, weakly
fair. A query may fail now and then but not every time, so writing a verdict, starting
a worker and rejecting a row are strongly fair. No request is assumed to be made or to finish.

`Automations!LiveSpec`, and `MCLiveSpec` for its run: the executor's task is an endless loop as well, and a failed
evaluation is one of its steps, so its steps together are weakly fair. This alone
gives `ActiveIsEvaluated`: every evaluation may fail, and one that does ends neither the tick nor the
loop, since the errors are dealt with inside the loop over the automations.

`MCRules!RulesSpec`: `ordered_workflow_steps` is a loop without an await, so its steps together
are weakly fair; nothing else is.

`Accounts`, `McpApprovals` and the other rules have no fairness: requests may stop anywhere, and
nothing in the code makes a client come back.

## 5. Proofs

All for any sets of trades, orders, fills, users, wallets, challenges, automations,
workflows, accounts, tokens, tools, requests, addresses, routes, rows and clients. The assumptions
are named in the modules: `None`, `Missing`, `Absent` and `NoRow` are none of the values they stand beside
(and no alert is the word `"heartbeat"`), an automation's workflow has a metric and at least one action,
a workflow that is received is made of steps and of connections between their ids (what the request
deserialises to), every window, room, backlog and page size is at least one (constants of the code, and `page_size`), and
what bounds a counter is a natural number. A list of alerts has room for one at least. A rate limit is at
least one: the configuration refuses zero (`env_number`, `config/mod.rs:102`).

*TradeIntents.* `TypeCorrect` proves `TypeOK`. The safety properties are not inductive.
The first three are strengthened to `PlacementInv`: a row has a hash exactly when it has
left `pending_signature`, no two rows share one, and every request in flight, every
reconciliation and the worker act on the row's own order (`BindingInv`). The lemma
`Grows` states what no step undoes: a hash once set, an order once taken, a fill status once
reached. From it follow `OrdersClaimed`, `OrderIdsOwn` (an id on a row is of the row's own order, though
any 2xx answer may bring one; the venue has that order, unless the row says that it was rejected or
must be reconciled), `BindingKept` (no step
rebinds a trade, which the runs check as part of `PlacementSpec`), and
`PlacementImplemented`, step by step: a claim is `Bind`, the venue's acceptance is
`Place`, every other step stutters.
`TradeSafetyProofs` adds to it `SubExclusive` and `TruthInv` (together `SafetyInv`). The first: unless a
fill of the order has failed, one request per trade is in flight at most, its row is
not claimable, and what it is about to post or saw refused is untaken, or void at the venue
(`NothingTaken`). The
second: what the worker and the handlers hold about the venue was true when they read it, and
stays true. Both rest on what section 2 assumes of the venue's answers. The exception for failed fills is the code's own: a fill that failed makes
the row `failed`, which `claim_submission` accepts again. Hence
`NeverRepostedBlindly` and `TerminalStatusTrue`.
`SettledStaysSettled` bounds what `trade_terminal_final` shows: a trade is `Settled` when it is filled,
cancelled or rejected and no reconciliation has it in hand. The statements of all the other handlers
compare the status they find, so they leave it as it is (`StatusSettles`), and no reconciliation
begins with a trade that is terminal (`NoneReconciles`); so only one that was under way can reopen it.

*VenueConnections.* `TypeCorrect`; then `EligibilityInv`: the version a snapshot, a worker
or a verdict carries is never above the row's, and when they are equal the
snapshot is the row, the worker's wallet is the user's, and the verdict is true
of the stored config. `RowStep`, `PassStep`, `WorkerStep` and `MarkStep` say what
any step may do to a row and to the supervisor's locals about it, and the invariant
follows from these alone. Hence `WorkersEligible` and `VerdictsCurrent`. `WalletsMove` says
how any step may change wallets, and gives `WalletHasOneOwner` and `AssociationsProven`.

*Automations.* `TypeCorrect` includes the foreign keys (no observation or run without
its automation) and what each step has at hand. `KeysUnique`, `DeletedStaysSilent` and
`UsersResume` follow from it action by action. For the cooldown, `CooldownInv` says that the
last alert of an automation outside `unrecorded` is covered: by the evaluation that sent it
and has still to record its run, or by a run no older than it. `Decide` sends nothing
while a run is recent, so the first alert of the next evaluation is late enough
(`CooldownRespected`). For the baseline, `OwnInv` says that outside `disturbed` the workflows of the
snapshot and of the evaluation are those of the row, and with them the observation saved from
them, unless an update is about to delete it; and that an update which will not delete the
observations is noted. Hence `BaselineCorrect`, for the automations outside `disturbed`: one that was
updated while a tick had it, whose update was cut off before it deleted, or was addressed by a market
id, may keep the old observation.
`LifeImplemented` is the refinement of `AutomationLife`. It needs `Fits` beside the types: a request
about to write has an operation and what this takes (`CallFits`), and the executor has an entry of its
snapshot, and has sent no more alerts than the workflow of the entry has actions, exactly while it
evaluates (`TurnFits`). `LifeCall` and `LifeExecutor` map each statement to its abstract
step. `DeletedStaysSilent` and `UsersResume` state two of its consequences alone.
`ToolsKeepLife` carries the refinement over to the approvals, where tools are calls as well.

*SignedOrders.* The invariant `Checked` says that a submission
that was taken is one of the inputs and has passed `Accepts` for the intent, which passed
`Ready`, `ValidPayload` and `Offers`. From it `PartiesCorrect` follows by the equalities, `EconomicsCorrect` by arithmetic:
`NormalizedNear` bounds the rounding error by half a base unit, `TimesExact` says that a product
in range is not wrapped, and `AmountBound` and `PriceBound` carry the two tolerances through.
They hold for every `Scale`, `Fine` and `MaxU128`.

*Accounts.* `TypeCorrect` proves `Typed`: the rows, the links, and for each stage of a request what it
has at hand. The other properties need one invariant each, on top of it. `Alive`: accounts never go
away, requests and sessions are of accounts that are known, and a password is set only as the
sessions end, or on a new account (`Risen`); hence `SessionsCorrect`. `Mailed`: of an account that
has not strayed, the stored links and those that requests hold are to the address it has, since a new
address takes the place of the stored verification and any other link to the old one makes the
account stray, while a change to the address it has already leaves every link to that address
(`Steady`); hence `VerifiedCorrect`. It says nothing of the accounts that strayed. `Held`: a token is minted unused, is stored in one
row, is held by one request unless two share it, and is found nowhere once it has taken effect, while a
wallet's challenge is out of the map before it is compared; hence `WorksOnceCorrect`.

*McpApprovals.* `DecidedIsInvariant` proves `ATypeOK` together with `Decided`, and uses
`TypeStep` of `AutomationsProofs` for the calls beside. `Decided` says what each stage of a decision knows
(`Shaped`); that a tool, which has no idempotency key, has acted exactly when its call has come past
its write, so that one that succeeds has acted (`Tooled`, from `ToolStep`); that what has acted or is
approved was executed (`Effective`); and that a request outside `troubled` has one decision at a
time, with its effect counted while it is pending (`Alone`) and its alerts behind it (`Noticed`).
`OneDecision` reduces a step to the decision and the request it is about. Hence
`AloneCorrect`, `EffectCorrect`, which holds of the troubled requests as well, and `NoticeCorrect`;
and, step by step, `DecisionImplemented`: a request outside `troubled` goes the way of `ApprovalDecision`,
where a troubled one is `disputed`, so that its decision is also final. `ToolsKeepKeys` carries
`OneRowPerKey` over to the calls that are tools: the steps that are none of the service's leave its
rows alone.

*Workflows.* `WorkflowInv` has at its heart `Walked`: the steps ordered so far are different, each leads
to the next by a connection, the first is a root and the last leads to `current`. It is kept because in
a workflow that is `Orderable` a step has one connection to it at most and the root none, so the step
the loop comes to is a new one (`WalkedNew`); different steps are no more than there are places
(`NoMorePlaces`), hence `LoopBounded`, which says of the loop of any stored workflow what its
fairness then turns into `OrderingEnds`. When the walk of an accepted one stops, the ids it has been at are
closed under the connections; so all that `validate_linear_path` follows from the root is among
them (`FollowedWithin`, by induction on its rounds), which are all ids, and different ids need as many
steps (`NoFewerPlaces`, `AcceptedWhole`). Hence
`AcceptedCorrect` and `OrderCorrect`. The search for cycles is not used for these: a workflow that has
passed `validate_linear_path` has no cycle (`AcceptedAcyclic`: the steps of a cycle have all their
connections from one another, so what is followed from the root never comes to it).

`CyclesFound` is about the search itself: where every connection is between steps of the workflow, which
`validate_connections` tests first, `has_cycle` answers as there is a cycle or not. A recursive
function is known to satisfy its equation only once a function that does so is shown to exist, and the
search calls itself with what its own search behind a step returns. So the proof begins with
a measure: `ToGo` counts the steps that are not on the path, times one more than all steps, and adds what
the innermost loop has left. It falls with every step entered, with every step passed over and with every
round after a search behind a step, since a search that finds nothing gives the path back as it was (`Back`). By induction on `ToGo`, taken as numbers from 0 as the library's
induction theorems are out of reach, there is such a function up to each weight
and hence `Visit` is one (`VisitEnds`), which ends with nothing left or with a path met. By the same
induction the search is right (`VisitRight`): if it begins `Explorable`, where the path is a walk to
what it still has to visit, and the finished steps lead to finished steps only and have no cycle, it
ends so, with nothing left to visit (`Kept`: and nothing lost), unless it has met its path, and
then there is a cycle. `SearchIsRight` puts the two outcomes together.

*RateLimiter.* `LimitIsKept` is about what was admitted in any `Window` ticks, of which the bucket knows
one part. `LimiterInv` divides the requests at the start of the bucket: those since are its count, and
one at least came at the start itself; those before are fewer than the limit, and so are all
of them when no bucket counts (`Counted`). A bucket that begins again, or one that was dropped from a
crowded map, turns the first case into the second, since requests of the old window that are still
recent came after its first. Hence `LimitCorrect`: fewer than twice the limit, and none refused before the limit.

*Pages.* `PagesInv`: ids are different, the client's cursor is the last row it was shown, the rows it must
be shown and was not come behind it, and nothing is shown twice (`Reading`). `NewestFirst` says that the
`Newest` n rows are ahead of all the others, `NewestSome` and `NewestAll` that a page has a row when
there is one, and that the page was the last when it has no more; all by the finite sets of rows above a row. Hence `PagesCorrect`.

*Feeds.* `FeedInv` says for each editor that its rows were listed, were inserted before, and are gone or
read when they are not left (`Listed`); for each stream that it stands somewhere in what was
published, and that an event it has not lagged behind is known, in its response, or to come
(`Follows`), or is an alert outside a full list of such as are no older (`Outlisted`). What was published
has been inserted before (`Inserted`), which is why the list, read
after the stream was opened, makes up for what was sent earlier, up to the rows it passes over
(`ListingIs`). Hence `OnlyListedCorrect`
and `NothingMissedCorrect`.

*Only model-checked.* `NeverWedged`, `EligibleIsServed`, `MismatchIsNoticed`, `ActiveIsEvaluated` and
`OrderingEnds`: liveness under fairness, and ENABLED, are beyond the prover. The four violations are shown by TLC's traces. The theorems are about
each module's own specification; `MCRules` takes one module's steps at a time and leaves the
others unchanged, so its behaviours are theirs.

## 6. Findings

* `reconcile` says "terminal trades cannot be reconciled", but checks the status it
  read before its requests to the venue and writes unconditionally: a trade filled or
  cancelled in the meantime is moved back (`trade_terminal_final`).
* A trade without a provider order id is told to "await the user stream", but events
  are matched by that id only: no event resolves it (`trade_unknown_outcome`).
* A connection in `wallet_missing` is told it "needs a connected wallet"; connecting
  the wallet restores only `wallet_mismatch` (`venue_warning`).

* A request for approval that is rejected, while its approval is under way, ends as
  `rejected` or `approved` by the order of the writes, and its tool runs all the same; two
  approvals run it twice. The error "MCP approval request is already decided" promises
  otherwise (`approvals_decided`).

Weaknesses no text of the repository speaks of are not findings; the properties name them as
their exceptions. An update that overlaps a tick, or is addressed by a market id, may leave
an observation of the old workflow behind (`disturbed`). When a later action of an evaluation
fails, the alerts of the earlier ones are sent again at the next tick (`unrecorded`). An
approval that stops between its tool and its write can be repeated (`troubled`). A verification or
a reset under way while the address changes marks the new address as verified (`strayed`); a
sign-in that overlaps a change of the password keeps its session (`late`); two requests with one
link that overlap both succeed (`shared`). A stream that lags behind the channel is not told so
(`lagged`), and an alert older than the 20 newest that was published before the stream opened is neither
listed nor streamed (`Outlisted`).

## 7. State and limits

All modules of section 2 are checked by the runs of section 3. Of the properties of the
passing runs every invariant, every action property and every refinement is also a theorem; the five
liveness properties are not. What they rest on would be the next to state as safety: that
a pass of the supervisor which comes to its end has dealt with every row of its snapshot, and that a
row left in `submitting` is one that reconcile accepts once its window is over.

*Not modelled, and why.* Parsing and forwarding of market data and
analytics have no state. Usernames, the preferred provider and the waitlist are single guarded
writes. The tools of the MCP server that only read, and its framing, change nothing. The websocket framing, mail, OpenAPI text, configuration and
the seed program are I/O. Encryption and address normalisation are pure functions
whose results the models take as given. Entities are generated.
