# StalZone tools API: a verification project in TLA+

The repository is a FastAPI service over one PostgreSQL database. Two background
tasks of the API process fill the database: one copies items and hideout recipes
from a GitHub repository, one asks a rate-limited HTTP API for auction lots and
trades and computes what each craft earns. Request handlers read the result page by
page, keep craft records and their sales, and register and log in users. A small
browser application calls them.

This directory models the parts in which order, failure and concurrency matter,
checks the models with TLC on small instances, and proves the most important facts
with TLAPS for every value of the constants. `PROJECT.json` lists components, runs,
mutants, the lines behind each definition, findings, hazards and theorems.

    tlc -workers 2 -config AuctionSync_market.cfg MCAuctionSync.tla     # a run
    tlapm AuctionSyncProofs.tla                                         # proofs

## 1. The system

### Components, their state and operations

| component | code (`src/app/`) | state | operations |
|---|---|---|---|
| Auction synchronisation | `services/auction_sync.py`, `auction_runner.py` | refresh queue, current prices, trades, candles, craft profit snapshots; a lock | one run per scheduler interval: candidates, then per region the due lots and history requests, profits, commit |
| Auction API client | `services/auction_client.py`, `core/auth.py` | next slot of the limiter, access token | `get_lots`, `get_history`, one repetition after a 401 |
| GitHub synchronisation | `services/github_sync.py`, `sync_runner.py`, `github_client.py` | items, recipes, two markers, the status | one run per interval: commit, tree, files, two transactions, status |
| Craft records | `services/craft_records.py` | records and sales | `create_record`, `add_sale`, two reads |
| Accounts and sessions | `services/user.py`, `auth.py` | users, roles of users, refresh tokens | register, log in, refresh, log out |
| Market reads | `services/market.py`, `routers/market.py` | none | searches and rankings of items and crafts |
| Parsers | `item_parser.py`, `hideout_recipe_parser.py` | none | JSON document to records, or an error |
| Database migrations | `alembic/env.py`, `alembic/versions/` | the schema, roles, permissions and grants | twelve revisions, each up and down |
| Permissions, seed, start-up | `core/dependencies.py`, `permission.py`, `test_seed.py`, `main.py` | the account of the test administrator | look-up per request; tasks created and cancelled |
| Browser application | `static/app.js` | per list: the last question, its page; sort order | load, load more, sort, submit forms |

### How they interact

* Both schedulers and all requests run in one event loop; they meet only in the
  database, and only at an `await`. Sessions are made with `autoflush=False` and
  `expire_on_commit=False` (`db/database.py:6`) and PostgreSQL's default isolation,
  so each *statement* sees what is committed when it runs, and does not see what its
  own session holds unflushed.
* The auction run reads items and recipes that the GitHub run replaces meanwhile;
  deleting a recipe cascades to the snapshots that an auction run is about to store.
* The auction run calls the client sequentially; a call waits for the limiter, for a
  token, and for the answer. An `AuctionApiError` costs one candidate, anything else
  the region and the run.
* Market reads see both synchronisations commit between their statements.
* The container runs all pending migrations before the server, whose requests need the
  tables, roles and grants that they leave; the server may seed an administrator first.
* The synchronisation with GitHub hands each downloaded document to a parser, and what
  the parser makes of it to tables with constraints and columns of limited length.
* The browser asks for pages of a listing and shows the answers as they arrive.
* `create_record` reads items, prices and profits; sales of one record meet at its
  row lock.

### What is hard, and what makes each part correct

* **Auction synchronisation**: a budget shared by regions and by two queues; a
  lifecycle of each item that spans many runs; prices, trades, candles and profits
  that must agree although they are written, flushed and queried at different
  moments; the catalogue changing under a run; failures at any await. Correct if the
  budget is kept, no queue starves the other, items retire and become active only for a
  reason, candles and snapshots agree with trades and prices.
* **Client**: a slot granted before a slow token request, a token that expires while
  the call waits, repetitions that must be counted, a new limiter for every run.
  Correct if the rate is kept and expiry never fails a call.
* **GitHub synchronisation**: rows brought up to date by differences from whatever was
  applied last, two transactions, pushes and failures between any two steps, pending
  insertions flushed before later deletions. Correct if the markers tell the truth
  and the database converges.
* **Craft records**: check-then-insert under concurrent sales, lost replies,
  cancellation while a lock is held. Correct if the answers are those of some serial
  order and every request ends.
* **Accounts**: check-then-insert of a name, two commits per refresh. Correct if a
  name has one account with its role, a spent token stays spent, and other sessions
  are left alone.
* **Market reads**: a page put together by several statements. Correct if it is in
  the order it claims, complete unless the recipes were replaced meanwhile, and if
  the pages of a listing partition it.
* **Parsers**: a document is accepted or refused as a whole, and one refused row stops
  every later synchronisation. Correct if what passes a parser is what the tables
  take, and attributes and components keep the order of their source.
* **Deployment**: twelve files that must agree on the order of their tables, commands in
  any order, killed half-way, beside registrations and stored rows. Correct if no
  statement is refused and every account can use the endpoints meant for it.
* **Browser lists**: requests are neither numbered nor cancelled, so answers come in any
  order. Correct if a list answers one question from its first page on, and the button
  below it goes on where the rows end.

## 2. Modules

| module | what it is |
|---|---|
| `AuctionSync` | the synchronisation, one action per await of a run |
| `MarketLifecycle` | what the queue promises of an item; `AuctionSync` implements it |
| `AuctionClient` | limiter, token and repetition |
| `GitHubSync` | runner, service and client of the GitHub synchronisation |
| `SourceParsers` | the two parsers as operators, and the constraints of their tables |
| `CatalogueSync` | `GitHubSync` with `SourceParsers`: documents decide what is refused |
| `CraftRecords` | `create_record` and `add_sale`, statement by statement |
| `SaleLedger` | the serial ledger that `CraftRecords` implements |
| `Accounts` | registration and sessions, statement by statement |
| `MarketReads` | listings and pages beside the commits of the writers |
| `Deployment` | revisions, permissions, start of the container, test administrator |
| `ListPanels` | one list of the browser application |
| `MC...` | values of the constants for TLC |
| `...Proofs` | theorems and proofs of one module each |

An operator marked `Mutation:` stands before the definition it is a faulty variant
of; nothing uses it in the specification. It documents the mistake that the property
named beside it in `PROJECT.json` ("mutants") catches.

### AuctionSync

*State.* The first group of variables is the database, per region and item; a row is
`NoRow` or a record of the columns that matter. `pc`, `at`, `phase`, `todo`, `cur`,
`used`, `spent`, `total` are the local variables of the run; `s...` is what its
session holds for the current region, which `CommitRegion` writes and `Rollback`
drops. `unflushed` holds the price rows a query cannot see yet. `stale` is set when
the recipes of pending snapshots are deleted meanwhile, which makes the commit fail.

*Actions.* `StartRun`, `EnsureCandidates` (`ensure_*_candidates`), `BeginRegion`
(`sync_due`), `PickItem`, `LotsReceived`, `RequestRejected`, `HistorySkipped`,
`HistoryReceived`, `CraftPhaseEnds`, `MarketPhaseEnds` (`_sync_queue_items`),
`Recalculate`, `RecalculationFails`, `CommitRegion`, `CommitFails`; `Abort` is any
other exception or cancellation; `Tick`, `ReplaceItems`, `ReplaceRecipes` are the
environment.

*Abstractions.* A refresh instant is the ticks left until it (0 is due), because the
code only compares it with now. A price is a natural number and 0 a missing one. Of a
candle only the trades it summarises are kept, of a snapshot only the prices it was
computed from. A reply of lots is the set of their unit prices.

### AuctionClient

One call at a time, as in the code. Timers are relative and are served before the
next tick; answers and tokens may take any number of ticks, for ever included.
The API rejects an expired token and may reject any other (`revoked`). `recent`
holds the ages of the requests of the last minute. Ages over a minute are dropped,
which keeps the state finite without a horizon. `Pause` is the sleep of the
scheduler, at least a minute, after which a run has a client of its own.

### GitHubSync

A tree gives each path a blob; a blob stands for the content of a file. A run asks
for the commit, lists the tree, downloads what differs, applies the items in one
transaction and the recipes in another, and stores its outcome. `PrimaryKeyClash` is
the condition under which the flushes of the items (`github_sync.py:107`), which
happen entry by entry, insert an identifier that a later entry still owns.
`RequestFails` is a failure that the run stores, `RunDies` one that it does not.
`ItemRefusal` and `RecipeRefusal` say which exception, if any, a blob ends in.

### SourceParsers and CatalogueSync

A document is a record whose texts are members of `Text`; `Blank`, `Long` and
`DescriptionKey` name the texts that the code tells apart, and `Absent` stands for a
field that is missing or of a wrong type. `parse_item` goes over the blocks of a document
and the elements of each as the loops of the code do, `AfterBlocks` and `AfterElements`
being what has been collected after so many of them; `parse_hideout_recipes` is the
conjunction of the checks and the rows that remain. `Item...` and `Recipes...KeepConstraints` and `HasRoom` are the
CHECK and UNIQUE constraints and column lengths of the models. `CatalogueSync` joins
them: the refusals and identifiers of `GitHubSync` are what parser and tables make of
the document of each blob (`DocumentAssumption`).

### Deployment

A revision is the sequence of statements of its file; `Accepts` is what PostgreSQL
demands of a statement (a referenced table exists, a dropped one is referenced by none, a
required column fits the rows that are there), `Effect` what it does, and `After` the
database after so many statements of a revision. A command
works on a copy of the database (`work`), revision by revision, and `Commit` or `RollBack`
ends it: `env.py` opens one transaction for all of them. `StartContainer` is the command
of `docker-compose.yml`; `StartServing`, `SeedTestAdmin` and `StartRaises` are the ways
the lifespan of the application goes on. `create_user` and `seed_refresh_queue` are the requests and
synchronisations whose rows later statements meet, `GrantByHand` the permissions that
one revision was written to clean up. A command and a request lock the same tables, so
a request stands before or after it. `orphans` is a history: the accounts that had no
role to get, or have lost it by a downgrade below the roles.

### ListPanels

A list is what it shows (`shown`, from top to bottom), its button, and `entry`, the
question and page that `state` holds for it. `AskMore` is a click on the button; the
listener is gone while its page is loaded, because `innerHTML` is assigned to itself.
`Receive` and `Fail` apply an answer to whatever is shown by then. `late` and `mixed`
are histories: loads that a newer question has overtaken, and whether one of them has
been answered since.

### CraftRecords and SaleLedger

Each await on the database is a step of the request. `lock` is the row lock of
`SELECT ... FOR UPDATE`, `seen` the total of the sales loaded under it, `quote` what
the tables say of the item, which changes between statements. `Lose` stands for a
cancelled request, a dead process, or a reply lost after the commit. The ledger knows
only the stock of each record and the answers given.

### Accounts

An insertion waits while another transaction has inserted the same name and is not
over, and fails if that one commits. `users` says how committed tables know a name:
not at all, without its role (`bare`), or with it. A refresh is `Validate`, `Revoke`
(first commit) and `IssueToken` (second commit). `created`, `unused`, `spent` and
`late` are histories for the properties: how many registrations of a name succeeded,
tokens never presented, tokens answered for, requests submitted with a spent token.

### MarketReads

A request is `Ask`, a ranking or search statement, and for crafts `LoadRecipes` and
`LoadComponents` (`selectinload` is a statement of its own) and `ShowCraft`, once per
row. `CommitAuction`, `CommitItems` and `CommitRecipes` are all that the writers'
transactions can do to what is read. The ranked snapshots stay in the session, so
`db.get` in `craft_market` returns them unchanged (`ProfitOf`). Requests only read,
so one at a time stands for all of them. `turning` and `turned` follow a reader who
asks for page after page while nothing changes.

## 3. Runs

Sizes are distinct states. Types are proved by the `Typing` theorems; TLC checks them in
`access_migrations` only, where they include that every row refers to rows that exist.

| run | instance | shows |
|---|---|---|
| `auction_market` | 1 region, 2 items, 1 recipe, replies without lots, without buyout prices and with two, 1 trade, 3 requests per run, 2 empty probes, items rejected as invalid, failures at any await; 1.8 M | retirement only with its evidence; candles cover the trades; snapshots never contradict prices; `MarketLifecycle` is implemented |
| `auction_schedule` | 2 regions, a craft item due at every run, a market item, 4 requests, of which any may fail and leave its item due, failures at any await; 115 k | the budget holds over both regions; an active row has a stored lot or trade; catalogue items are queued in every region; the market queue is served although craft items would use up the budget |
| `auction_freshness` | 1 recipe over 2 items | **violation**, finding 1 |
| `client_rate` | 4 requests a minute, 3 ticks apart, tokens of 7 ticks, tokens revoked at any time; 23 k | no minute has more than five requests; expiry never fails a call |
| `github_mirror` | 3 paths, 12 trees over 8 items and 6 recipe documents, 2 failures; 64 k | markers and status are true; the database converges; a status "running" does not last; only rotating identifiers break a constraint; attributes keep their order; stored recipes have results |
| `github_refusal` | 2 trees whose identifiers rotate | **violation**, finding 2 |
| `craft_ledger` | 2 requests of 2 users, quantities 1 and 2, quotes that change, lost replies; 187 k | nothing oversold; serial answers; every request ends |
| `accounts_requests` | 2 requests, 1 name, 3 tokens, lost replies; 230 k | one account, with its role; spent tokens stay spent, unused ones good |
| `accounts_conflict` | 2 registrations of a name | **violation**, finding 3 |
| `reads_listings` | 1 item, 3 recipe identifiers, pages of 2; 277 k | rankings in order, whole unless replaced, pages partition |
| `access_migrations` | all 12 revisions as goals of a command, 2 accounts, 2 permissions inserted by hand; 165 k | no statement is refused; schema and rights fit the application; accounts keep their roles; a start fails only without the roles |
| `panels_lists` | pages of 2; questions of two full pages, one and a half, and none; 3 loads under way; 41 k | a list answers one question in order; its button continues it and is never left dead; nothing is left behind; loading ends |

### Why the bounds are enough

* Two requests, two regions and two items are the least that can disagree; the code
  treats each further one alike, and the safety properties are proved for any number.
  The exception is the market queue: rows of one priority come in any order
  (`auction_sync.py:107`), so with several market items due together one of them may wait
  for ever. `MarketQueueIsServed` speaks of the queue of a region and not of an item. That
  more items do not take its share is proved for any number of them
  (`MarketShareIsKept`).
* Three empty-or-not replies are needed to see a price come, change to missing and
  return; two probes to see the counter accumulate and be reset.
* Three paths are the least for which identifiers can rotate, and for a file to move
  over the place of another while a third stays.
* The limiter is checked over unbounded time; four requests a minute is enough for a
  late request to meet both its neighbours.
* Two quotes of a craft record mix, statement by statement, into every combination of
  known or unknown item, market price and recipe cost.
* Upstream never publishes the energy item in the runs of `AuctionSync`
  (`CatalogueItem`): it is a candidate of every run anyway, with the highest priority.
* Bounds that are part of a module are named there: `RunTicks` (ticks within a run),
  `MaxFaults`, `LastRecipe`, `Pages`, `TokensLeft`, and the guard of `SubmitRecord`.
  The trees of `github_mirror` are named for what they do to the first one: edited,
  moved, swapped, rotated, duplicate, malformed, overlong, without recipes, without a
  result, with twin perks, with a text that is too long. The document of `tea1` has
  every type of block and element, several of them without an attribute, and texts
  before and after its lists; `rum1` has one key twice.
* `access_migrations` may stop at any revision, so each pair of revisions is crossed in
  both directions with every kind of row in place. Two accounts suffice, since a
  statement treats all rows alike; one of them is the test administrator.
* Three loads under way are the least in which an answer arrives behind two others; two
  full pages are the least after which a further page is asked for and finds nothing.
* Symmetry is used only for requests and tokens of `Accounts`, whose properties are
  invariants.

### Fairness

* `AuctionSync`, `GitHubSync`: weak fairness of the runner. The scheduler tasks loop
  for ever, catch every exception, and the event loop resumes them; a process that
  dies is started again. That a step of the runner is taken at all has a premise which
  is not in the code: the API and the token endpoint answer each call, if only with an
  error. No property claims that a call or a run ends.
* `AuctionSync` adds strong fairness of `EnsureCandidates`, the first transaction of a
  run and committed by itself: it does not fail every time. Nothing is assumed of the
  rest of a run, which may fail every time; `CatalogueIsQueued` holds all the same.
  `MarketQueueIsServed` has a premise of its own, that from some moment on no run is cut
  short (`CutShort`) before its last region has used its requests: what is rolled back
  leaves its items due, and a run that fails in the craft phase serves no market item.
* `Converges` of `GitHubSync` allows finitely many failures (`MaxFaults`) and any number
  of pushes, as long as they end.
* `ListPanels`: weak fairness of the answer of each load, since a browser ends each
  request, if only with an error.
* `Deployment` states no liveness: an operator decides what is started.
* `CraftRecords`: weak fairness of each request's steps, and strong fairness of
  `LockRecord`: PostgreSQL serves the waiters of a row lock in their order.
* `AuctionClient`, `Accounts` and `MarketReads` state no liveness. A call to the API
  need not end: `get_access_token` sets no timeout.

## 4. Theorems

All are of the form `Spec => []P` or a refinement, for every value of the constants
that satisfies the named assumptions of the module.

| theorem | inductive invariant, and why it is needed |
|---|---|
| `AuctionSyncProofs!Typing` | `TypeInv`: besides types, the rows that the loop may still touch exist in the session |
| `!RequestsWithinBudget`, `!MarketShareIsKept` | `BudgetInv` relates requests counted so far to the regions done and the phase; with the lemma that the shares of the regions add up to no more than the budget |
| `!RetirementIsJustified` | `RetirementInv` states it of the session's rows too, which a commit stores |
| `!ActivityHasEvidence` | `EvidenceInv`: in the database and in the session, a row that is not due for lots and says they were not empty has a price, and so has an active one, or a trade; the history of an item is asked for only once its lots are no longer due, so the probe never reads the initial value of `last_lots_was_empty` |
| `!ImplementsLifecycle` | `LifecycleInv`: each session row is one move from the stored row it will replace; commits are then steps of `MarketLifecycle` and all else stutters |
| `!SnapshotsAgreeWithPrices` | `SnapshotInv`: stored snapshots agree with stored prices; the prices of the session equal those of the database until a reply changes one; at the commit the pending snapshots agree with the prices of the session and cover every stored one |
| `!CandlesStayCurrent` | `CandleInv`: it holds in the session too, which a commit stores |
| `AuctionClientProofs!RateStaysKept` | `SpacingInv`: the requests of the last minute are spaced by the interval, but for one that a slow token held back; a count of spaced ages gives the bound |
| `!ExpiryStaysInvisible` | `TokenInv`: at the second attempt the token is younger than the one interval it can still wait; assumes `TokenLife > Interval` |
| `CraftRecordsProofs!NothingOversold` | `IInv`: the holder of the lock has seen the true total, and no other request is past the lock |
| `!ImplementsLedger` | the same; each answer is a step of the ledger |
| `CatalogueSyncProofs!MarkersTellTheTruth`, `!SuccessMeansConsistency` | `RunInv`: what is downloaded belongs to the target, and the markers have reached the target where the run is past them; the lemma `DifferencesSuffice` shows that applying differences to a mirror of any tree gives the mirror of the target |
| `AccountsProofs!OneAccountEach`, `!RolesAreGranted` | `NamesInv`: an uncommitted insertion excludes every other and any earlier success |
| `!TokensSpentOnce`, `!OtherSessionsStayGood` | `SessionInv`: what is known of a token at each step of a request that holds it |
| `!SourceOrderKept` | what is stored is a blob that was not refused; of any accepted document, `Numbered` is carried by induction through `AfterElements` and `AfterBlocks`: the attributes collected so far enumerate the places that are worth one (`Worthy`) up to here, once each, in their order, and carry their numbers and keys. The place of a number is then the count of worthy places before it |
| `!OnlyRotationFails` | the same walk through a document gives the CHECK and UNIQUE constraints of every accepted item (`ItemsPassConstraints`), and the checks of the parser those of every accepted recipe (`RecipesPassConstraints`); so only a clash of identifiers (`PrimaryKeyClash`) is left to end in an `IntegrityError` |
| `!RecipesYield` | what is stored is a blob that was not refused (`RunInv`), and `ComponentsYield` shows of any accepted document that its results come first and the places of its components differ |
| `ListPanelsProofs!ListsAnswerOneQuestion`, `!ButtonsContinue`, `!DeadButtonsAreReplaced`, `!NothingIsLeftBehind` | `IInv`: of the loads that are not overtaken there is at most one; if it is a further page it goes on from the whole list behind a dead button, else the list is still loading; the last rows are those of `entry`, and without a button they are not a full page |
| `MarketReadsProofs!RankingsStaySorted`, `!TornOnlyByReplacement`, `!ProfitsHaveComponents` | `Inv`: what is held in the session is sorted, and unless replaced, all recipes of it exist and are whole; assumes that there are finitely many items |
| `!PagesPartitionListings` | `TurnedInv`: what has been turned is the beginning of the listing as far as the last page reaches; a listing of rows that differ is unique (`OneListing`), as the first m of it are counted by their place |
| `DeploymentProofs!Invariant` | `IInv`: what migrations and requests can depend on is a function of the revision (`Holds(d, rev)`: the tables, the lifecycle columns, the roles and the seeded grants, and that rows refer to rows), in the database and in the transaction of a command; each of the 24 revisions leads from `Holds` at its revision to `Holds` at the next, statement by statement (`UpgradesReach`, `DowngradesReach`). A command whose goal has the roles works on the accounts of the database, and an account that is no orphan has a role |
| `!NothingRefused`, `!SchemaIsTheModels`, `!EveryoneIsServed`, `!RolesAreKept`, `!StartNeedsOnlyRoles` | `IInv` at the newest revision and at the base; a start can fail only for want of `RbacTables` or "admin", which `Holds` gives from the third revision on |
| `!StatusForAdministrators` | `IInv`, under the hypothesis that nobody has inserted "system:read" by hand |
| `Typing` in each of them | types, with the facts about locations that they rest on |

*Assumptions.* They are the named `ASSUME`s of each module. Most give constants their
type. Those with content: in
`CatalogueSync`, that refusals and identifiers are those the documents give and that
the blocks and elements of an item, the recipes of a document and the lists of a recipe
are lists, as JSON arrays are (`DocumentAssumption`, `BlocksAssumption`,
`ListAssumption`); in `Deployment`, that commands name revisions and that the test
administrator is an account name; elsewhere a set of items that holds the energy item and
all that upstream may publish, regions named once each, positive refresh intervals and limits (`core/config.py` demands them), a token
that outlives one interval of the limiter, and special values such as `NoRow` that are
no rows.

*A hypothesis of its own.* `StatusForAdministrators` is stated for `"system:read"
\notin HandMade`. Revision `9f1c7a4b2d8e` deletes five legacy names and the grants of
them, but adds to the grants of the names it seeds: had a hand given "system:read" to the
role "user" before it, every account would keep it. Nothing in the repository does that,
so the run has no such name, and the theorem says on what it depends.

*Induction over data.* The induction theorems of the library take an operator and cannot
be instantiated here. What a loop computes is a recursive function on `0 .. n`
(`AfterBlocks`, `AfterElements`, `After`), whose equation is proved from its definition,
and the lemma `Induction` is about sets: a subset of `0 .. n` that holds 0 and with
each m < n also m + 1 is all of it.

*Only model-checked.* Liveness (`CatalogueIsQueued`, `MarketQueueIsServed`, `Converges`,
`StatusSettles`, `RequestsAnswered`, `LoadingEnds`), which is outside what the prover can
do. Every invariant, action property
and refinement of a passing run is proved.

## 5. Findings

1. `auction_freshness`. Without autoflush, `recalculate_craft_profit` does not see
   price rows that the same transaction has just added, unless trades were flushed
   since; the test at line 84 expects them to be used. The next change corrects it.
2. `github_refusal`. A valid source whose identifiers rotate among three files is
   refused with an `IntegrityError` at every retry (`github_sync.py:107` against
   line 24). `Converges` shows that nothing else stops a tree that can be parsed.
3. `accounts_conflict`. Of two overlapping registrations of one name the second is
   answered with status 500, where `tests/routers/test_user.py:26` expects 409.

Seen while modelling, without a run of their own:

* Three quarters of a region's requests are a hard cap for craft items
  (`auction_sync.py:112-118`), also when no market item wants the rest;
  `tests/services/test_auction_sync.py:73` expects all requests to be used.
* A request without any response raises an `httpx` error that is no `AuctionApiError`
  (`auction_client.py:90` against line 14): the run ends for all candidates.
* A text that is too long for its column passes both parsers and fails as a `DataError`,
  although their errors are for sources that "cannot be stored in the local schema"
  (`item_parser.py:7`, `hideout_recipe_parser.py:7`). One such document, or one that is
  refused, holds up all items and recipes until it is corrected. `Converges` is stated
  for trees without one.
* `get_access_token` sets no timeout (`core/auth.py:10`): a token endpoint that never
  answers holds up the synchronisation.
* The answer to a committed sale may be lost (`routers/market.py:99`), and a client that
  repeats it sells twice; a refresh that is lost between its two commits
  (`services/auth.py:41`) leaves its session without a token.
* Two trades of one item at one time, with one amount and price, have one fingerprint
  and count once (`auction_sync.py:284`).
* `event.currentTarget` is null after the await at `app.js:225`, so a record that was
  stored is followed by an error message.
* After an operator's downgrade below the roles, a start that seeds the test
  administrator raises (`test_seed.py:20`); accounts older than the downgrade stay
  without a role after the next upgrade. `EveryoneServed` excepts exactly those.

## 6. Not modelled

* The figures of candles, percentiles and profits; fractions and NaN in documents.
* Of the browser application, the panel of craft records with its forms, and the tabs.
* Decoding of access tokens, schemas of requests, configuration, hashing: library calls
  and declarations without state. Indexes and column types of the migrations, and their
  offline mode.
* Within modelled parts: GitHub's `truncated` flag, which the client does not read;
  downloads still under way after another failed; a region configured twice; a
  restart of the process within a minute, whose new limiter knows nothing of the
  old; two records sharing a cost read at different moments. `SourceParsers` has one case
  for the two texts of an item's title. `AuctionSync` has both kinds of errors of the
  API, and so have its proofs; the runs have one each, the ones that retire an item in
  `auction_market`, the ones that leave it due in `auction_schedule`.

## 7. Plan

Written so far, in this order: `AuctionSync` with `MarketLifecycle`, `CraftRecords`
with `SaleLedger`, `GitHubSync`, `AuctionClient`, `Accounts`, `MarketReads`,
`Deployment`, `ListPanels`, and `SourceParsers` with `CatalogueSync`, each with its
runs and its proofs.

Next:

1. `PriceFigures`: unit prices, candles with their percentile, craft profit and the
   figures of a record as pure operators, each against a reference definition over
   bounded inputs; then `Profit` of `AuctionSync` against it.
2. `AuctionService`: `AuctionSync` with `AuctionClient`, to show that the number of
   requests of a run and the rate of the client are the same count.
3. The refinement of `Accounts` to an abstract register of names.
