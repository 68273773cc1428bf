# A formal model of the MaxPay portal

These are the TLA+ modules kept beside the portal: what the code does to a
client's money, checked on small instances with TLC, and, for the properties
that matter most, proved with TLAPS for every value of the constants. Paths are
relative to the repository; `services.py` alone is
`src/apps/transactions/services.py`.

1. [The system](#1-the-system)
2. [Plan](#2-plan)
3. [The modules and the code](#3-the-modules-and-the-code)
4. [The runs](#4-the-runs)
5. [Fairness](#5-fairness)
6. [Where the code and its documents part](#6-where-the-code-and-its-documents-part)
7. [The proofs](#7-the-proofs)
8. [What is only model-checked, and what is not modelled](#8-what-is-only-model-checked-and-what-is-not-modelled)
9. [Running it](#9-running-it)

## 1. The system

A Django application. Clients reach it inside an iframe of the broker's CRM
(B2CORE), Finance operators and merchants through server-rendered panels, all
of them over one PostgreSQL database and one cache. There is no worker and no
queue: every state change is somebody's HTTP request, `ATOMIC_REQUESTS` is off,
and the isolation level is the default, READ COMMITTED. So everything
concurrent here is two requests, each a sequence of reads and short
transactions, interleaved.

| Component | State it keeps | Operations | What makes it correct |
| --- | --- | --- | --- |
| **Request lifecycle** (`transactions/services.py`, `models.py`) | `Request`: type, status, selected and assigned merchant, the amount now and as submitted, three stamps, a reason | `create_request`, `auto_route`, the ten moves of `TRANSITIONS` through `apply_transition`, `correct_amount` | ends stay ended; nothing is credited but on the word of the merchant who holds it; the client's submission survives; no open status is a trap |
| **Pricing** (`portal/pricing.py`, `payloads.py`) | none | `price`, `bounds_for`, a receipt's figures | reconciles with the rate; nobody is paid less than a step; the screen and the server agree |
| **Exchange rates and quotes** (`rates/models.py`, `portal/submissions.py`, `static/js/flow.js`) | append-only `ExchangeRate` rows with a date; the rate on each client's screen | set a rate, load a catalogue, submit, `rate_changed` | a client is charged what their screen showed |
| **Merchant and wallet registry** (`merchants`, `finance/views.py`) | `Merchant`, `MerchantPaymentMethod`, `Wallet`, `archived_at` and `is_active` on each | create, edit, switch, activate, archive, restore, remove | one active wallet to a link; nothing archived is offered; a used wallet is never lost |
| **Deposit submission and caps** (`portal/submissions.py`, `catalog.py`, `merchants/capacity.py`) | the wallet a screen shows; consumption, counted from `Request` rows | options, `build_deposit_draft`, `create_request` | the row names the wallet the client was shown |
| **Conversation and unread markers** (`transactions/messaging.py`, `reads.py`) | `Message`, internal notes, `RequestSeen`; the pages people have open | post, read, mark seen | each audience reads what it may and no more; only one's own page clears one's badge |
| **Live panels** (`static/js/panel.js`, `finance/live_views.py`, `merchant_panel/api.py`) | in each page a timer, a version token, a badge, requests on their way | tick, pulse, fragment, swap, hide and show | the poll never dies; the badge comes to be right |
| **Client access** (`portal/session.py`, `portal/views.py`, `core/embed_sessions.py`, `static/js/embed.js`) | session rows under a cookie of their own; in each frame a csrf token, a pending flag, a timer | exchange, probe, end, save a preference; ask, renew, log out, reload | nobody is served or written for under another's session; a frame that asks stops asking |
| **Merchant panel access** (`merchant_panel/session.py`, `embed_auth.py`) | the session's merchant and subject | exchange, re-read on every request | an unlinked, archived or disabled merchant is out at once |
| **Accounts and permissions** (`accounts/provisioning.py`, `permissions.py`) | `User`, role groups, overrides, the link to a merchant, one-time passwords, 2FA devices | create, update, disable, override, link, reset | a merchant's panel names no client; what an account may do, others let it; a password handed out is replaced |
| **Rate limits, lockout and signing keys** (`portal/ratelimit.py`, `accounts/throttling.py`, `portal/b2core/jwks.py`) | counters in the cache; in each process a key set and the time of its last forced refresh | allow, record, clear; resolve a key, refresh | no more than the limit in a window; a good token is not refused on another's account; who retries gets in |
| **Business hours** (`core/hours.py`, `finance/forms.py`, `static/js/flow.js`) | two times, a zone and an override in `SystemSettings`; on the client's page a screen, a trail and the last answer | `evaluate`, the settings form; go, back, recheck | the countdown names the next change; no composing on a shut desk; a waiting client is let in |
| **Reports** (`reports/aggregates.py`) | none | sums over a queryset | each request counted once, in the figures its status entitles it to |
| **Client's wizard** (`static/js/flow.js`) | direction, rate, wallet, amount, answers on their way | choose, apply an answer, submit, apply a refusal | what is submitted is what is shown |
| **Audit log** (`core/services.py`) | `AuditLog` | one insert in the transaction of each change | nothing happens unrecorded |
| Attachments, Django admin, search, operations | files; the same rows; none; backups | upload and stream; edit; read; scripts | see section 8 |

How they interact. A submission reads the registry and the rates through the
catalogue, prices, measures the cap, writes a `Request`, and hands a deposit to
`auto_route`. From then on Finance and merchants move the request through
`apply_transition`, which locks the row, posts the reason to the conversation
and writes the audit log, in one transaction. Finance edits the registry, the
rates and the accounts from other screens meanwhile, and nothing tells the open
pages.

What is hard, therefore, is nearly always one thing: a decision made on
something read before a lock, or without one. `apply_transition` and
`correct_amount` re-read the *request* under `SELECT ... FOR UPDATE`; the
*merchant* a route names, the *wallet* a draft chose, the *instance* a panel
view is about to save and the *consumption* a cap is measured against are all
read earlier and trusted later. The second hard thing is answers that arrive
out of order at the client's screen; the third, the arithmetic, which is done
twice by two languages that round differently; the fourth, long legal sequences
of park, hand-back and route; the fifth, the pages themselves: timers that
schedule themselves, one cookie under several tabs, a notice that has to come
down by itself. `PROJECT.json` lists 40 such hazards, each at the
line where it bites, with the properties that watch it.

## 2. Plan

In the order of what a mistake would cost.

| # | Module | Question | State |
| --- | --- | --- | --- |
| 1 | `RequestPromise`, `Lifecycle` | what may happen to a request, by whom, from a stale page | done |
| 2 | `LifecycleProofs` | the same for any number of requests, merchants, operators, and any grants | done |
| 3 | `Pricing`, `QuotesProofs` | the arithmetic, for all figures | done |
| 4 | `Quotes`, `QuotesProofs` | which rate a client is held to, and what corrections keep | done |
| 5 | `Registry`, `Submission`, `SubmissionProofs` | which wallet a deposit names, with operators saving over each other | done |
| 6 | `Conversation`, `Panel`, `PanelProofs` | who sees which words, who clears and who wakes a badge, and the polling page over it | done |
| 7 | `SessionPromise`, `Access`, `Embed`, `EmbedProofs` | the session table against frames whose calls, renewals and logouts overlap | done |
| 8 | `Accounts`, `AccountsProofs` | roles, grants, links, passwords and sessions, with administrators and owners interleaving | done |
| 9 | `Hours`, `Notice`, `NoticeProofs` | the answer about the hours for every window, and the page that waits on it | done |
| 10 | `Throttle`, `Keys`, `KeysProofs` | two counters over a cache that expires between two calls, and the keys behind the first | done |
| 11 | report figures over `Lifecycle`'s rows | functions against a reference | not begun |

Composition: `Quotes` extends `Pricing`, `Submission` extends `Registry`,
`Panel` extends `Conversation`, `Embed` extends `Access`, `Notice` extends
`Hours`, `Keys` extends `Throttle`: in the last four the first talks, from a
browser or a worker process, to what the second keeps. `Lifecycle` implements
`RequestPromise`, and `Embed`, with the table of `Access`, implements
`SessionPromise`, each by a refinement mapping.

What the plan has left: the reports.

## 3. The modules and the code

The names are the source's wherever TLA+ allows. Every definition that models
code is listed with its lines under `map` in `PROJECT.json`. A definition
commented `fault` is a slip the code does *not* make; no behaviour of a
specification uses it. It stands beside the definition it distorts so that one
can put it in its place and watch the property it was written against fail,
which is how we know that the property can.

### `Lifecycle`

`row` is the `Request` table (and the `Draft` before it), `page` what each
actor's view has read without a lock, `merchant` the columns of a merchant that
routing asks about, `thread` the reasons that moves post and to which side, and
`trail` what the audit log would say (reviewed or not, who acted, who paid,
which figure was booked).

A move is two steps because the program takes it in two. `Open` is
`_get_request` in a panel view and the form it renders, including the list of
merchants `eligible_merchants` offers. The second step is the POST's
transaction: `Gate` is `apply_transition`'s checks in their order (permission
on the caller, then type, holder and source status on the *locked* row), and
the rest of the action is the assignments, the stamps, the message and the log
entry that follow. `page` stands for the unlocked read of the POST itself; it
may as well be read as the page the operator had open, since the code checks
neither against the other. `Route` keeps the merchant it had from the form
(`page[s].options`) and looks up only the method link again, as
`_validate_merchant` does. `CreateRequest` contains `auto_route`'s savepoint: a
deposit is assigned in the same transaction if the link still covers the
method, and stays `submitted`, without assignment or stamp, if not.

Permissions are `Granted`, an arbitrary set for each actor; the instance takes
what `sync_roles` grants. Which side may press which button (the role check)
is built into the actions. A superuser, who passes the role check as well, is
not modelled.

`RequestPromise` is the abstract specification: absent, open, acted, booked,
ended; a holder; a figure. Only an acted request is booked, only a held one is
acted on, a booked figure stays, an end is an end. `Promised` maps a row to it.

### `Pricing`

`price`, the refusal `amount_below_commission` and `Receipt` (what
`payloads.py` works back out of the stored columns) in exact integers: cents,
and hundredths of a dinar. `HalfUp` is `Decimal`'s `ROUND_HALF_UP`, which
rounds a half away from zero; `MathRound` is JavaScript's, which rounds a half
up. They differ below zero, and a subtotal is below zero when a commission is
larger than the amount; `ScreenTotal` is the client's arithmetic with the
second. `Reconciles` is the reference: nothing in it rounds, it says how far
from the exact value each figure may be. A rate so low that a deposit's total
rounds to nothing is accepted by the code, and by the model.

### `Quotes`

`rates` is append-only and a revision may be dated ahead or back; `InForce` is
`ExchangeRate.current`'s ordering (date, then id). The screen's `coming` is the
set of answers on their way: `Load` is the first load, which asks for no
direction and gets a deposit's rate, `Choose` blanks the rate and asks again,
`Arrive` applies whatever arrives, in any order, as `applyOptions` does.
`Submit` is `resolve_quote`: bounds, then the rate, then the price; `LookAgain`
is the `rate_changed` refusal, which carries the new rate to the screen.
`CorrectAmount` is the pricing half of `correct_amount` (at the request's own
rate and commission rate; its gate is in `Lifecycle`). `quoted` and `shown` on
a row are history: what the client was looking at.

### `Registry` and `Submission`

`Registry` is Finance's screens over merchants, links and wallets. Those views
do not lock: a POST loads the instance (`Load`), decides, and saves; a full
save writes every column back (`SaveMerchant`, `Written`), and puts a deleted
row back. A single-column save (`ToggleMerchant`, `DeactivateWallet`) writes
only its column. `Wallet.save` is a transaction of two statements, so it is two
steps: `BeginSave` notes the active siblings it can see, `CommitWallet` stands
them down and writes, or fails whole on the partial unique index if a sibling
it did not see has committed since. `archive_merchant`, `restore_merchant` and
`remove_wallet` re-read under a lock and are one step each.

`Submission` adds clients. Nothing a client's request reads is one snapshot:
`build_draft` runs its queries outside any transaction, so each is a step, and
what Finance commits in between is in force for what is still to be read.
`AskOptions` and `Options` are the catalogue's answer (the link is read, then
the wallet), `Send` the form as it was filled in, `ResolveLink` the three
questions about merchant and link, of which the last decides, and
`ResolveWallet` the wallet query with its comparison of primary keys;
`WalletChanged` and `WalletRefused` are its refusals, of which the first shows
the new wallet. `CheckCapacity` completes the draft. `Measure` and `Commit` are
`create_request`, whose cap check and insert are two statements of one
transaction that locks nothing. `Remove` stays one step: it locks the wallet's
row `FOR UPDATE`, and an insert that names the wallet waits for that lock.
`consumed_iqd` is counted, as in `capacity.py`, by the number on the instance in
hand and not by the wallet's row. `shut` is history: what has been archived or
deleted ever since the client's form arrived. The comment in
`submissions.py:11-13` (and `src/README.md`) that everything after the upload
is "inside one transaction" is true of `create_request` only.

One link per merchant, and wallets that have a number: a wallet known by a QR
image alone is not in the model.

### `Conversation` and `Panel`

`row` is what the request list reads of a request (its status, its holder and
its two stamps), `thread` its messages, `seen` the `RequestSeen` markers, and
`screen` what is in front of each person: nothing, a list, or one request with
the words and the files the view read for them. Time is a counter that every
stamp moves on, so two events never share a moment.

A message has two moments. `post` stamps it and `Commit` makes it visible:
`post_message` stores files between the two, and a move's reason commits with
the move. So a message may become visible with a stamp older than a marker
written meanwhile. A detail view is two steps as well: `Open` reads, and
`mark_seen` stamps the moment *it* runs, afterwards. `Words` is
`visible_messages` and the file lists are the two other reads of the same page
(`get_attachments`, `detail_payload`), which filter nothing. `is_unread` is
`reads.py`'s annotation with its two bases. The moves (`Submit`, `Route`,
`Act`, `HandBack`, `Park`, `Reject`, `Close`) are those of `Lifecycle` as far as
they stamp, re-assign, or write in a thread; which ones are legal when is that
module's business, and this one's is only what the views require.

`Panel` adds the script of `panel.js` in a page. `flight` holds the requests a
page has out: a tab that is hidden and shown ticks at once though another tick
is under way, so there may be several. `Tock` is the timer, `News` the answer
to a pulse, `Swap` the fragment, `Caught` any failure, and `Scheduled` is
`schedule()`. A list's badge may be rendered hidden, whatever there is to read,
until the first pulse (`merchant/base.html:48-50`), so a page starts at 0.
`Turned` says that the script lives and dies with its page.

### `Access` and `Embed`

`rows` is the session table, keyed by session key. A key is drawn once, so the
CSRF token, which is drawn where the key is cycled and nowhere else, is stood
for by the key. `Handle` is a whole endpoint, guards first (a stale csrf token, an
ended session, a blocked client), since nearly every handler settles in one
statement. `PreferencesView` is two steps, because the
middleware writes back, after the view, what was loaded before it: `_persist`.
`Lapsing` bounds whom the desk blocks and whose tokens run out.
The token's verification (`b2core/tokens.py`) is an outcome: accepted for a
subject, refused, or failed; `Keys` is about the way to it.

`Embed` is the browser: one `jar` for all tabs, a `frame` per tab with the csrf
token it holds and its `pending` flag, and calls that are sent, held, answered
and landed in any order, or lost on either leg (`Lossy`). The functions
`requestToken`, `fail`, `adopt`, `discardSession`, `probed` and `exchange` are
those of `embed.js`. Other tabs of the same browser are one actor whose calls
take one step (`OpenElsewhere`, `EndElsewhere`). `owner` and `own` on a call are
history: whose session was live when it left, and whether it was answered under
the token it brought.

`SessionPromise` is the abstract specification of the table: a key is drawn
once, for one person or for nobody, stays theirs, is good until the token behind
it runs out, and is not good again once it has run out or gone. `Life` maps a key to what
the table says of it. The hazard is the save of a session that another request
has ended, replaced or seen run out meanwhile: of the promise it must be no step
at all.

### `Accounts`

`user`, `groups` and `merchant` are the rows, `web` a member of staff's login
session, `door` a merchant's embedded session, `post` the request each account
has under way, one at a time. No view locks a row, so a request is two steps:
`Load` reads the account into `copy`, and the operation (`update_account`,
`set_active`, `set_permission_overrides`, `link_merchant` and the others)
decides on the copy and writes the columns its `update_fields` names, in a
transaction of its own.

The role groups are rows of their own, and so are the permissions they carry:
`get_all_permissions` is what the account's *groups* hold, and its own grants,
less what it is refused. The role column decides nothing there. What keeps the
two together is `sync_user_role_group`, which runs after every save and takes
the role of the *instance* saved, which may be an old copy's. After an
operation's save it is part of the same step (`mirror`), since the transaction
commits both. The owner's own password change and the login are in no
transaction, and there its statements are steps: the groups are read, the
others dropped, the one joined.

A password change writes the *whole* row as it was loaded (`save_password`), and
takes the one-time-password flag off in a statement of its own (`clear_flag`),
which bypasses the signal. Passwords and devices are numbered as they come,
which is how Django's session hash is stood for: a session is good while its
number is the row's. `chose`, `crossed` and `given` are history: the last
password the owner chose, whether one was handed out in the middle of their
choosing, and every permission somebody else's request ever gave the account.

### `Hours` and `Notice`

`evaluate` is translated branch by branch (override, equal times, a window, one
across midnight), with an instant that is the same for everybody and wall
clocks that differ by zone; a zone may move its clocks once. `_at` is
`datetime.combine` with `fold = 0`, `_guard` the function of that name.
`SaveSettings` writes every setting the form carries, any of them changed or
none, the rest as they were when the form was rendered.

`Notice` is one client's page: `screen`, the `trail` that `back()` pops, the
last answer, and the timer `applyHours` sets from it, which fires once. `go`,
`back`, `restart`, `applyHours` are `flow.js`'s. Calls to the catalogue and the
submission endpoint are sent, served and answered in any order; the server
looks at the hours first, whatever the page thinks (`SubmitView`).

### `Throttle` and `Keys`

`Throttle` is two cache entries, each with the life it was made with: the
limiter's (`allowance`) and the lockout's (`failures`). `add`, `incr` and the
expiry are the cache's, external, and atomic, as the code takes them to be (section 8);
each statement of `allow` and of `record_failure` is a step, so an entry may expire between an `add` that found
it and the `incr` that follows. A count past the limit is kept as one past it.
`through` and `unread` are history.

`Keys` is one worker process with its requests (`thread`). An exchange goes
through the limiter, the header check of `verify_token` and
`get_signing_key`; `Lookup` and `Fetch` are `PyJWKClient`, external, as the code
uses it: it keeps the set for `Lifespan`, keeps every key it resolved, fetches
when it has no set and once more when the set has not the key. A fetch that
fails drops the set, and one that is answered with something other than a key
set may also leave that answer in its place for `Lifespan` (`FetchFails`): which
of the two the library does cannot be read from this repository, so both happen. `Gate` is the code's own floor, under its lock, and
`floor` the ticks until it opens. A login is `Attempt` (the lockout), the
password, and what is recorded; a merchant's right password, refused by the
setting, clears the count like any other. `Rotate` is B2CORE, `Restart` the
worker with its requests, `CacheDown` a statement that raised: both counters
fail open.

## 4. The runs

| Run | Distinct states | What it shows |
| --- | --- | --- |
| `lifecycle` | 88,737 | A request of either direction, two operators and two merchants. Its invariants and action properties hold, and `KeepsPromise`: every step is a step, or a stutter, of `RequestPromise`. |
| `progress` | 20,932 | `EveryRequestEnds`, under `FairSpec`, while one merchant keeps losing and regaining the method and parking, handing back, correcting and editing never need to stop. |
| `quotes` | 124,128 | One client, three revisions, two moments, every order of answers: charged as shown, receipts reconcile, withdrawals pay, agreements stand, and (`SettledClientFiles`) `rate_changed` never locks anybody out. |
| `submission` | 1,861,066 | Two operators with stale copies over two wallets of one link, and one client whose request reads them one query at a time: one active wallet, deposits resolve, what stays archived takes nothing. |
| `conversation` | 334,302 | One request between a desk, two merchants and a client, messages that commit late, and one merchant's polling page with failures, refusals and overlapping ticks. |
| `access` | 1,158,258 | Two clients in one browser: one tab with two calls at a time over a network that loses them, the rest of the browser, a block and an expiry for one of them, and a key table of two. |
| `accounts` | 1,486,482 | An administrator, a member of staff and an account still to be created, two merchant records, three requests that write, any number of logins, and the owner's own saves statement by statement. |
| `hours` | 696,288 | A page with two calls at a time over two days of four ticks, every window and override, saves that change any of them at once, submissions that may fail. |
| `keys` | 727,821 | Two requests at once in one worker, limits of one, the cache and B2CORE's endpoint failing at any moment, keys rotating, the worker restarting. |
| `skip_review`, `note_file`, `logged_out` | | Each is expected to fail: section 6. |

The properties, beside one type invariant to a module:

- `CreditedOnConfirmation`, `EndIsExplained` (invariants), `SubmissionKept`,
  `MerchantWritesOnlyHeld` (what a step may never do), `KeepsPromise`
  (refinement; that an end is an end and a booked figure stays is part of it),
  `EveryRequestEnds` (liveness).
- `ChargedAsShown`, `FiguresReconcile`, `WithdrawalPays`, `SettledClientFiles`.
- `OneActiveWallet`, `DepositResolves`, and `ArchivedTakesNoForm`: a merchant or
  wallet that was archived when a form arrived, and ever since, takes no deposit
  from it, though the reads are separate and an old copy may be saved meanwhile.
  One archived between two of the reads may: the code lets it, and the property
  does not claim otherwise.
- `WordsStayWithReaders`: no screen carries one merchant's words to another, or
  a note past the desk, also when the writer's transaction commits after the
  request was routed away. `OnlyOwnEyesClear` and `WokenByOthers`: what may put
  a badge out, and what may light it. `PollNeverDies`, and `BadgeCatchesUp`
  (liveness): when things come to rest, a page in front of somebody shows the
  right number.
- `ServedAsOpened`: a call is answered only as the client whose session was
  live when it left. `WritesAreOwn`: what a page sends is done in the name of
  the client it shows. `DoorKeepsPromise` (refinement): every step of the door
  is a step of `SessionPromise` or none. `AskingEnds` (liveness): a frame that
  waits for a token does not wait for ever, whatever B2CORE and the network do.
- `ServedAsSignedIn`: an embedded panel is the one its session was opened for.
  `MerchantsSeeNoIdentity`: an account that is shown a merchant panel holds no
  permission over client identity, in its grants or through any group an old
  copy left it in. `HandedOutIsReplaced`: nobody works under a password the desk
  issued, the first or a later one, unless it was issued between the statements
  of a change of their own. `GivenByOthers`: no request of an account's own,
  from however stale a copy, makes more of it than others have made.
- `CountdownIsRight`: the moment a countdown runs to is exactly when the answer
  changes, in whatever zone, while that zone's clocks stand still, and later
  than now in any case; an answer that names no moment (equal bounds, an
  override) does not change by itself. `ComposeOnlyWhenOpen`. `NoticeLifts`
  (liveness): from whatever moment on the desk follows a window, a client in
  front of a notice that counts down is let in without reloading.
- `RefusedForCause`: a token is refused for want of its key only if a fetch
  made for that token failed or came without it, or what was kept is no key
  set, whatever the cache and the floor have come to through other requests. `AttemptsBounded`: a window
  lets through its limit, and an account hears guesses, and beyond that at most
  one for each other request under way. `RetryGetsIn` (liveness): whoever keeps
  coming back with a good token gets in, though refusals count too.

`StatusFitsDirection`, `BookedFigureFrozen`, `TerminalFinal`,
`WithdrawalThroughDesk` (`Lifecycle`) and `AgreementKept` (`Quotes`) are stated
and proved (section 7) and in no run.

### The bounds, and why they are enough

*Lifecycle.* One request: no handler reads or writes a second one, so requests
do not interact except through pages, and each actor has one page at a time.
Two merchants: every property that compares merchants compares two (the one
assigned now and one who was). Two operators: a race has two sides. Two
amounts, compared only for equality. In `lifecycle` the merchants' records
stand still (`Editable = {}`): none of its properties depend on them, the proofs
cover every edit, and `progress` and `stale_merchant` do edit them. Amounts,
operators and unedited merchants are interchangeable and `SYMMETRY` is used for
the safety run only.

*Progress.* One operator, since fairness is on each of them; one amount, one
merchant edited, one not: the assumption the code can rest on is that *some*
merchant stays eligible. When nobody is, a routed request may indeed wait.

*Quotes.* The figures are chosen for their rounding. With 1150.00 a dollar and
a commission of 700.00 a dollar a one-dollar withdrawal is refused and a
deposit of one dollar fifty rounds; 1311.00 gives other roundings; 0.50 is below the
bounds. Three revisions give one to look at, one to be overtaken by, and one
dated the same moment; two moments tell past from future. `Horizon` and
`MaxRates` are the bounds on counters, and the system stops when they are
spent and everybody has filed, so deadlock is not looked for there. The proofs
drop all of these bounds.

*Submission.* One link, since the index and `Wallet.save` look at one link
only; two wallets to compete for it; two operators; two numbers, so that a
wallet's number can be edited or reused. One client: clients meet only in the
caps, which have a configuration of their own (`cap_exceeded`) with two; in
`submission` there is no cap, and the proofs cover any `DailyCap` and any
number of clients.

*Conversation.* One request, since every list and marker is computed request
by request; two merchants, so that one can be the wrong one. `MaxTime` bounds
the stamped events (three: enough for an assignment, a message and a marker in
every order, and the actions of the module all occur); `MaxPages` the other
people who have a page open at once; `Slots` the requests a page has out, two
of which is an overlap. `Watchers` has one page whose script is modelled:
scripts do not see each other. `Uploads` holds only plain messages, since a
file changes nothing that this run's properties look at; `note_file` has the
other value. The system stops when `MaxTime` is spent, so deadlock is not
looked for.

*Access.* `MaxKeys = 2` lets a session be replaced once and `MaxCalls = 2` lets
a call overlap another, which every race of the module needs; `Others` supplies
the second tab. Two clients, so that there is somebody else's session to be
served under. Only one of them is blocked or runs out of time
(`Lapsing = {s1}`), since either is enough to end a session under a page; which
of the two comes first, and whose keys are whose, is left open. The proofs drop
these bounds. Drawing keys ends at `MaxKeys`, so deadlock is not looked for.

*Accounts.* `MaxOps = 3` requests that write, counting edits of merchant
records and password changes: two to prepare a state and one to race it. Logins
are not counted. Merchant records are interchangeable (`SYMMETRY`). An account
has one request under way; a race between two of its own is left out.
`Overrides` has a grant over identity, which
a merchant must not keep, and the management of accounts given and taken, with
which an aide becomes an administrator. The proofs drop the bound.

*Hours.* A tick is six hours. Two times of day give an ordinary window, one
across midnight, and the equal pair; the override gives the rest, and a save may
go from any of these to any other. `Horizon` is
two days, after which the clock starts the same days again, so that the
liveness property has somewhere to go; the clock may start over between a load
and an answer, which costs nothing because a page only measures what is left.
`CountdownIsRight` quantifies over every zone of `ZoneRule`, the one whose
clocks go back included. With `Day = 24` (ticks of an hour) and the page left
out, it passes as well (270,000 states).

*Keys.* Two callers: every race here is one request against another's
statements. Limits of one make the first refusal come at the second request;
the limiter's window is two ticks so that a tick inside it is not its end, and
the other lives are one, after which any of them may have passed. Two keys, of
which the tokens use one: the other is what B2CORE publishes when it does not
publish that one. Safety passes with tokens under both keys as well (4.9
million states, in a version of the module with finer steps). Nothing is
counted without end, and the run looks for deadlock.

## 5. Fairness

The code schedules nothing; people press buttons. `Lifecycle!FairSpec` assumes
what an organisation that works would do, and no more: an operator opens a
request sooner or later, a merchant opens it if it keeps waiting on them; whoever
is *repeatedly* offered a move that takes a request forward (review, credit,
close, confirm, pay) makes it in the end; and no merchant whom the form keeps
offering is passed over for ever. It is strong fairness because a page can be
overtaken again and again. Nobody is assumed to stop parking, handing back or
correcting, no merchant's record is assumed to stay as it is, and nobody is
assumed to cancel or reject. What the property then tests is the code's side:
that the moves out of every status exist and are not all withdrawn.

`Quotes!FairSpec` assumes that a client with a figure on the screen keeps
sending the form, for each amount, and that a draft that was accepted is
written (the next statement of the same handler). That a rate stops moving is
not assumed; it follows in the run from `MaxRates`, and `SettledClientFiles` is
about what happens once the client settles on a deposit.

`Panel!PanelFairSpec` is weak fairness of what a browser and a server do by
themselves: a page's script starts, its timer fires, a request is answered, the
answer is delivered; and a detail view that has read goes on to mark. Nobody is
assumed to show a hidden tab again, and `BadgeCatchesUp` claims nothing of a
tab that is hidden or was refused, nor of the moments at which a request has
just failed.

`Embed!FairSpec` is weaker still: a fetch of the exchange ends, with an answer
or an error, and the fifteen-second timer goes off. Nothing is asked of B2CORE
or of the person, and nothing of any other call.

`Keys!FairSpec`: a request that is being served is served to its end, and time
goes on. That the endpoint answers, the worker stays and the client comes back
is in the formula, for it is what the client must be able to count on and not
what the code ensures.

`Notice!FairSpec`: time goes on, timers fire, the server answers, the browser
delivers. `Tick` waits for a timer that is due and for calls that are a tick
old, because a tick is hours. That catalogue calls do not fail is an assumption
of the `hours` run (`Lossy = {"submit"}`) and not of the code: `notice_stuck.cfg`
shows what one failure does. `NoticeLifts` also assumes, in the formula, that
from the moment it speaks of the desk follows some window and in the end leaves
the settings alone, and that the notice counts down: one given under an override
does not, and `override_stuck.cfg` shows that it stays.

## 6. Where the code and its documents part

TLC produces the sequence of steps for each of these; none needs a component
to be broken, only an order. The first three are runs of `PROJECT.json`.

| Run | Property | What is said | What happens |
| --- | --- | --- | --- |
| `skip_review` | `NoPayoutWithoutReview` | a withdrawal "still goes through review first" (`services.py:234-236`) | submitted, parked, routed from pending, paid |
| `note_file` | `NoteStaysAtDesk` | a note "never leaves the desk" (`messaging.py:86-90`) | its file is in the client's and the merchant's list of files |
| `logged_out` | `LoggedOutStays` | "On `embed-logout`, the session is cleared" (`maxpay-portal-spec.md:44`) | an exchange already sent answers after the logout and opens a session |

The others keep a configuration each, to be run by hand:

| Configuration (module) | Property | What is said | What happens |
| --- | --- | --- | --- |
| `paid_twice` (`MCLifecycle`) | `PaidOnce` | may be moved "while the first has not acted" (`services.py:202-203`) | paid, parked, routed to another, paid again |
| `route_overwrite` (`MCLifecycle`) | `NoRouteOverwritten` | "the second press must be told" (`services.py:508-511`) | assigned is itself a source of route; the second press wins |
| `stale_merchant` (`MCLifecycle`) | `RoutedMerchantCanExecute` | "must refuse a merchant who stopped being able to execute" (`services.py:24-25`) | the merchant's switches are the form's; the wallet is not looked at |
| `late_answer` (`MCQuotes`) | `OwnDirectionOnScreen` | "can never submit against the other one's figures" (`flow.js:1277-1281`) | the first load's answer arrives after the choice (the server then refuses: `ChargedAsShown` holds) |
| `shown_number` (`MCSubmission`) | `SnapshotIsWhatWasShown` | number "as shown at submission time" (`maxpay-portal-spec.md:85`) | the number of the same row is edited; the key still matches |
| `cap_exceeded` (`MCSubmission`) | `CapNeverExceeded` | re-checked inside the transaction because two clients can fill the gap (`submissions.py:467-471`) | the transaction locks nothing; both measure, both commit |
| `wallet_returns` (`MCSubmission`) | `RemovedWalletGone` | "deleted outright", or "gone from every screen" (`src/README.md:2470-2471`) | a stale instance, saved, brings it back |
| `reenabled` (`MCAccounts`) | `DisabledStaysOut` | "Disabling the account is the lever" (`provisioning.py:260-264`) | a password change loaded before saves the whole row, `is_active` with it |
| `missed_arrival` (`MCPanel`) | `AssignedAppears` | "a new assigned request to appear without a page refresh" (`merchant_panel/api.py:127-128`) | assigned between the render and the first pulse, whose version is taken for the page's own (`panel.js:151-152`) |
| `back_to_notice` (`MCNotice`) | `NoticeOnlyWhenShut` | reopened while the notice is up, a fresh request is started (`flow.js:674-676`) | a request opened from the notice, the desk opening meanwhile, and back (`flow.js:1111`) |
| `notice_stuck` (`MCNotice`) | `NoticeLifts` | "The recheck timer is what reopens the compose screen" (`flow.js:717`) | it fires once; the call it makes fails, and nothing asks again |
| `override_stuck` (`MCNotice`) | `AnyNoticeLifts` | the same sentence | an answer given under the override names no moment, so no timer is set, and nothing asks when the switch is thrown back |
| `switched` (`MCNotice`) | `SwitchedByHand` | an override is a switch a human throws and a human has to throw back (`src/README.md:1771`) | a settings page opened before it was thrown is saved for another reason |
| `dst` (`MCNotice`) | `CountdownOffByTheMove` | a countdown may be "an hour long" (`hours.py:189-196`) | in a repeated hour, a closing time already past on its first coming is pushed a whole day |

`Accounts` states five more that do not hold, to be put in the place of
`DisabledStaysOut` in `reenabled.cfg`: `MerchantsHoldNoIdentity` (overrides are
not looked at again when a role changes; the panel's door does look, which is
`MerchantsSeeNoIdentity`), `AdministratorRemains` (`guard_not_self` stops one
administrator, not two who disable each other), `OneTimePasswordOnlyOnce` (a
reset between the two statements of a password change loses its flag),
`ResetKeepsSessions` ("Every session the account has open keeps working",
`provisioning.py:260`: the session hash depends on the password), and
`GroupFollowsRole` (role and groups "stay in lockstep", `permissions.py:8-9`: of
two requests that loaded one account the later save, which need not touch the
role at all, mirrors the role it had loaded).

Smaller things met on the way, without a run: consumption follows a wallet's
number, so editing the number gives a full wallet its cap back, and a corrected
amount can pass a cap; two wallet forms at once can store one number twice;
`Credit` carries no figure, so what the operator booked in B2CORE and a
correction committed after their page was read can differ (the authors say as
much at `services.py:606-609`; `trail.seen` and `trail.booked` show it); the
Django admin writes a request's status around the lifecycle
(`transactions/admin.py:61`); the pulse carries no query string, though both
views say that it does (`live_views.py:82-86`, `api.py:170-175`) and
`src/README.md:2684-2687` too; a fragment that failed is not asked for again
until the version moves once more; "what the account actually holds", as the
account's page shows it (`provisioning.py:324`), is worked out from the role,
while what it may do is worked out from the groups; a hand-back wakes nobody at the desk by
itself (`reads.py` stamps a merchant's move, and its note is internal to
neither base); a marker is stamped after the read, so what committed between
them counts as seen; an answer to a request loaded before the key was cycled
deletes the cookie by name (`embed_sessions.py:101-109`) and may take the
renewed session's with it; and a stale csrf token is answered 403 with the
remedy "reauthenticate", which `flow.js`'s `fail` acts upon for a 401 only.

## 7. The proofs

All theorems hold for every value of the constants that satisfies the modules'
named assumptions (`LifecycleAssumption`, `QuotesAssumption`,
`RegistryAssumption`, `SubmissionAssumption`, `AccessAssumption` and so on).
They say that sets are disjoint where the code's tables are, that numbers are
natural, and that `None` stands for no row and no entry and so is not one. Two
say more. `ThrottleAssumption`: the requests under way at one time are finitely
many. `HoursAssumption`: no zone moves its clocks back by more than a day, which
is true of the zone database and needed, because `_guard` adds a day once.
`Pricing` declares no constants.

**`LifecycleProofs`.** `SoundAlways` is the inductive invariant. None of the
properties is inductive alone: that a `credited` request's merchant confirmed
it (`CreditedOnConfirmation`) rests on `merchant_confirmed` meaning that the
merchant *assigned now* acted, which rests on every route clearing who acted,
and on a request that waits on a merchant having one. The invariant says, of
each request, what its status implies of its direction, its merchant, its
booked figure, its stamps, its reason and its thread; it is proved with one
step for each action. From it follow, as `Spec => []...`, the type invariant
and four invariants; four action properties are proved from
it step by step; and `LifecycleKeepsPromise` shows that the initial state maps
to `RequestPromise`'s and that each step maps to one of its steps or to none.
Nothing in it depends on `Granted`, which is arbitrary: the properties do not
rest on who holds which permission.

**`QuotesProofs`.** First the arithmetic, for all natural rates, commissions
and amounts. `PriceReconciles` against the reference that rounds nothing;
`ScreenAgrees`, that the two rounding functions give one total wherever the
server does not refuse, and `RefusedIsUnshown`, that where it does the screen
shows none; `PayoutAtLeastAStep`; `ReceiptIsTheQuote`; `TotalNearExact`. The
lemmas are about integer division: what `HalfUp` and `MathRound` bound, and
that they agree on what is not negative.

The invariant `SoundAlways` then says that every figure on a draft or a row is
`price`'s, at the revision in its `quoted`, which never changes because the
table is append-only, and that a correction keeps all of that. With the
arithmetic it gives `ChargedWhatWasShown`, `ReceiptsReconcile`,
`WithdrawalsPay` and `AgreementsKept`.

**`SubmissionProofs`.** The invariant adds what a desk may be holding: the
wallet a view is about to save is one with a number, a wallet about to be
created is claimed by one operator, the slot-holders noted by `BeginSave` are
siblings; that a deposit's wallet is the one that was shown, from `ResolveWallet`
on, and `live` once filed; and that a form that has been matched to a link or a
wallet found it unarchived since it was sent, which is what `shut` remembers
(`ArchivesTakeNoForm`). It is needed because `CommitWallet` writes state read
arbitrarily long before, and because each of a client's reads is trusted by the
next. `DepositsResolve` rests on `was_used` seeing every request of
every status, so that a wallet with one is archived and not deleted.

**`PanelProofs`.** `PanelInv` has three parts. `TalkInv` is the conversation's:
types, stamps that never lie ahead of the clock, and a page that only stands
open on a request that exists. `WordsStayWithReaders` is itself inductive only
together with the third, `TabFits`: a fragment on its way to a page already fits
that page's reader, since `Swap` puts it there without asking. `OnlyOwnEyes` and
`WokenOnlyByOthers` are proved for each step of the conversation from the order
of the stamps; to them a script's step is a stutter. They need the greatest
stamp of a finite set, for which the module has its lemmas. `PollGoesOn` follows
the timer and the slots through every path of a tick.

**`EmbedProofs`.** Neither property of the door is inductive: that a call is
answered as its `owner` rests on a key whose row is gone never being drawn
again. `DoorInv` says that only drawn keys are in use (in the table, the jar,
the frames, the calls), that a call that left under a live session finds that
session under its key, or nothing, and that what a handler holds between its two
steps is still the row, unless the row is gone. `TypeCorrect` counts the calls
under way.

`DoorKeepsItsPromise` is the refinement. Under the invariant every step but an
expiry does one of three things to the table (`TableMoves`): nothing, a row that
was drawn goes, or a row comes under a key drawn for it, with the old one going
in the same step or not. Each is a step of `SessionPromise`, and so is an
expiry. The save of a held session is the first of the three: what it writes is
what is there, for otherwise it would bring back what another request has ended.

**`AccountsProofs`.** `AccountsInv` has, beside the types, three parts, each of
every account. `Prepared`, of its unfinished request: the account it is about
still exists, nobody creates or attaches their own, and the role in the copy,
which the mirror will write, is one that somebody else gave. `Chosen`: who need
not change their password is on one they chose, or on one handed out while they
were choosing. `Held`: the role, the grants and the groups of the row are within
`given`. `HandedOutAreReplaced` follows from the second, carried through every
statement of a password change, which writes an old flag back before it clears
it. `NobodyRaisesThemselves` follows from the third, and rests on
`guard_not_self` and on the first: a save of one's own can bring back no role but
one that was loaded, and that one was somebody else's doing.
`DoorServesItsSession` and `PanelsHideIdentity` follow from `get_merchant` and
the door's own look at the account, whatever groups it is in.

**`KeysProofs`.** A counter says how many came; the bound on it is about who may
still come. So `KeysInv` counts, beside each entry, the requests between their
look at it and their mark in it: for the limiter those that found no entry where
there had just been one (`Late`), for the lockout those that are at the password
or on the way to the count (`Guessing`). Every request that is let through or
counted leaves such a set, and one can only be in it if it was under way when the
entry was made or before the limit was reached: `CountersBound`, for any finite
number of requests, any limits and periods. `RefusalsHaveCause` needs the same
invariant's other half: a token comes to the gate only by a fetch of
its own that did not help, or on finding a kept answer that is no key set, and
only with a key that can sign. Both are proved over an
endpoint, a cache and a worker that may fail at any statement.

**`NoticeProofs`.** `CountdownRight` is arithmetic on wall clocks: the time of
day some ticks on is the time of day now plus those ticks, less a day if it
passes midnight (`ClockLater`); the next edge of a window is the first tick at
which the clock enters or leaves it, also when it crosses midnight
(`EdgeIsNext`); and `_guard` puts what `datetime.combine` makes of that edge
ahead of now in every case (`GuardAhead`) and on that edge exactly while the
clocks stand still (`GuardExact`); and where the answer names no moment it is the
same at every instant (`NoMoment`). `NoticeTypes` needs the first of these: a
timer is set to what is left until a moment, and that must be some ticks and no
more than two days. Its invariant adds that a call on its way carries what its
kind is answered with. `NoComposingWhenShut`: every change of screen and of the
kept answer is followed into `go`, which is what the comment in `flow.js` asks
for ("so a new caller cannot forget it").

Each action property and invariant that a run checks is the same definition, so
the run shows it on a small instance and the theorem for all. Where a run takes a
specification with fairness (`PanelFairSpec`, the `FairSpec`s of `Quotes`, `Embed`,
`Keys` and `Notice`), the theorem is about the one without, which it implies.

## 8. What is only model-checked, and what is not modelled

Only model-checked: the liveness properties (`EveryRequestEnds`,
`SettledClientFiles`, `BadgeCatchesUp`, `AskingEnds`, `NoticeLifts`,
`RetryGetsIn`), because liveness under fairness is out of the prover's reach, as
is `ENABLED`; and the disagreements of section 6, which are counterexamples.
Every other property of the runs, invariant, action property or refinement, is
also a theorem.

Not modelled inside the modelled parts:

- superusers, who pass the role check as well, in `Lifecycle` and `Accounts`;
- the withdrawal's destination fields and the proof of transfer at submission:
  each refuses before anything is written; the hours, which do too, are in
  `Notice`;
- the change of day, at which consumption restarts, and wallets without a
  number;
- several links to one merchant: no rule relates two of them;
- what a message says, which files pass validation, and the queue's filters;
- two requests under way for one account at the desk, and roles given other than
  through the screens;
- the cache server's own reading of `incr`, which is in Django and not in this
  repository: its Redis backend asks whether the key is there and then increments
  it, so that a counter that expires in between comes back without a life. The
  code (`ratelimit.py`, `throttling.py`) takes `incr` to be one operation, and so
  does `Throttle`;
- the library that fetches the keys, beyond what `jwks.py` relies on;
- the arithmetic of a renewal's delay, and the stage drawn on a frame;
- several scopes and addresses of the limiter, which share no entry, and a
  change of the key set's URL;
- the script of the merchant's frame, and how a second factor is enrolled.

Not modelled, and not planned soon: the reports, which are sums over one read.

Not modelled, and not planned:

- *Attachments*: content sniffing, storage and streaming are input and output;
  the one rule with state, a payment and its proof in one transaction, is in
  `Pay`.
- *Django admin*: it may write any column of any row, so as a step it would
  void every property; it is a way around the model.
- *Search, filters, wording, layout*: reads.
- *Settings, start-up checks, backups, demo data*: scripts run by one person.
- *The signature of a token*: PyJWT's.

## 9. Running it

Inside `tla/`: `tlc -config lifecycle.cfg MCLifecycle`, and so on (the module
and the configuration of each run are in `PROJECT.json`); `tlapm
LifecycleProofs.tla`, and the other seven. The longest runs, `submission`,
`conversation`, `access`, `accounts`, `hours` and `keys`, take two to four
minutes each on two cores, the proofs ten minutes in all.
