# TLA+ models of the Socrate monitoring console

The repository is the operator console of Socrate, an OAuth 2.1 / OpenID Connect server: a
Vue 3 single-page application (`src/src`) and a Go backend-for-frontend, the BFF (`src/bff`). The
browser holds an opaque session cookie only; the BFF holds the tokens, renews them, injects them
into the admin API calls it proxies, and drives sign-in, step-up and sign-out. Paths below are
relative to the repository root, so the BFF is `bff/` and the SPA is `src/`.

## The system

### Backend-for-frontend (Go)

| Part | State | Operations | What makes it hard |
|---|---|---|---|
| Session handlers (`auth.go`, `server.go`) | the session row, its tokens and CSRF secret; the counter of failed store statements | `handleSession`, `handleLogout`, `handleElevate`, `currentSession`, `writeBack`, `deleteSession` | every request reads, touches and writes back the session while others refresh, elevate or delete it; the store reports failures only through a counter |
| Login and callback (`auth.go`) | pending logins, the `mon_login` nonce cookie | `handleLogin`, `handleCallback` | several tabs share one nonce cookie; a callback may arrive twice, late, or in another browser |
| Rate limiter (`ratelimit.go`) | a fixed window per client address | `allow`, `sweep`, `clientIP`, `rateLimited` | window boundaries; the sweeper runs between two events of one key |
| OAuth client (`oauth.go`) | none | `authorizeURL`, `exchange`, `refresh`, `revoke`, `userFromToken`, `mergeRoles` | an answer lost after the issuer acted |
| Configuration (`config.go`) | none after start | `LoadConfig` | combinations of settings |
| Routing, version proxy, attribution (`server.go`, `attribution.go`) | none | `Handler`, `canonicalPathOnly` | per-request functions |
| Start and stop (`main.go`) | the process | `main` | shutdown with requests in flight |

### Single-page application (TypeScript)

| Part | State | Operations | What makes it hard |
|---|---|---|---|
| `authStore`, router, `App` | the cached identity, the loaded flag, the CSRF token | `fetchSession`, `login`, `logout`, `elevate`, the `beforeEach` guard | a 401 in any call drops the identity while a navigation is being guarded; logout is awaited in some callers and not in others |
| `useApi.fetchWithAuth` | none | one call, at most one step-up, at most one retry | many calls meet `elevation_required` at different moments of one step-up |
| `stepUpStore`, `StepUpDialog` | the shared promise, the dialog's form | `request`, `complete`, `cancel`, `confirm` | double submit, cancel, late 403s |
| `useSSE`, `DashboardView` | the connection, the reconnect timer, the half-read chunk, the live list | `connect`, `disconnect`, stream chunks, `processEvent`, `addLiveEvent`, mount, unmount | a timer that fires after `disconnect`, an old connection's error after a new one opened, chunks cut anywhere, a mount interrupted by an unmount |
| `monitorStore` with the read views (dashboard, events, sessions, audit, threats, tokens, geo) | one slot and one loading flag per kind of data, shared by all views; each view's filters, period and page | `load*`, `fetch*`, filter, page, period and refresh controls, the dashboard's interval | loads that overlap, fail, or are answered when another view shows the slot |
| `AlertsView` | rules, history, the unacknowledged count, two dialogs | load, create, edit, delete, toggle, acknowledge, leave and return | optimistic changes against loads that were served before or after them, by this mount, an earlier one or a dashboard that was left |
| `BlockedIPsView`, IP lookup of `ThreatsView` | the blocked list, the form, the reputation dialog | block, unblock, look up, leave and return | a row put in by an answer and again by a load, or by the other view's answer; dialogs changed while a call is out |
| `usePolicyDecisions`, `PolicyDecisionsView` | the list, its cursor, the summary, the filters | `load`, `loadOlder`, `reset` | pages of a log that grows and ages; a page for a list that was replaced |
| `useVersionCheck`, version store | the snapshot, the interval | `fetchBackend`, `check` | two fetches at start-up, checks that overlap |
| `ReportsView` | reports, the dialog, poll timers | `generateReport`, `pollReportStatus` | polls that outlive the view, one failing |

### How the parts interact

The SPA calls the BFF with `fetch`; every answer re-enters the SPA as a callback on its one thread,
in whatever order the network delivers. The BFF runs one goroutine per request; requests of one
browser share a session object (memory store) or a row (Postgres store). For every session the
gateway of the `backendkit` library keeps at most one token refresh in flight, which all requests
of that session join. A ticker runs the sweeper beside the requests. With the Postgres store the
row outlives the process and may be used by several instances.

## Modules

| Module | Models | Specification it implements |
|---|---|---|
| `BffSession` | the session handlers, the refresh they share, both stores, the sweeper, restarts | `SessionLife` |
| `LoginFlow` | `/bff/login`, `/bff/callback`, pending logins, the nonce cookie | |
| `RateLimiter` | the limiter and its key | `RateBudget` |
| `StepUp` | `fetchWithAuth`, `stepUpStore`, `StepUpDialog`, `revokeSelected` | |
| `AuthRouter` | `authStore`, the `beforeEach` guard, the bootstrap, the sign-out buttons, the 401 branch | |
| `SseClient` | `useSSE`'s connections and timers, the dashboard's mount and unmount | |
| `SseFeed` | the stream's read loop, parser and live list, on top of `SseClient` | |
| `ViewLoads` | the read views and the store slots they share | |
| `Alerts` | `AlertsView`, its store slots and its server | |
| `IpDesk` | blocking, unblocking and looking up addresses, in both views | |
| `PolicyLog` | `usePolicyDecisions` against the log it pages through | |
| `VersionCheck`, `Reports` | the version check; the report dialog and polls | |
| `TabPollers` | composes the two: what runs on whatever view is shown, faults, the reload of the page | |

`MC*` modules hold what TLC needs (symmetry, small functions); `*Proofs` modules hold the theorems.
Definitions named as mutants are faulty variants of the definition that follows them; they are not
part of any specification and exist to show that a property notices the fault.

### BffSession

One session is modelled: sessions have random ids and share only the counter of failed store
statements, which other sessions change through `OtherStatementFails`. A handler is a program
counter; a step ends wherever another goroutine could see the difference: the store's `Get`, the
write-back, the calls to the issuer, the counter reads around `Delete`. `Durable` selects the
store. With the memory store all handlers work on the stored object (`val`); with Postgres each
works on the copy it read (`held`) and every write replaces the whole row. `Put` never revives a
tombstone. The gateway's refresh (`flight`) is one per session; the issuer rotates a refresh token
once, may reject it, may be out of reach, and may lose its answer after rotating. History variables
(`ended`, `late`, `lost`, `spent`, and about the copies `latest`, `stale`, `overwritten`) only
record; no guard reads them.

A timeout (`Lapse`) falls at any moment, also between a handler's `Get` and its write-back
(`bff/server.go:215`), whose upsert then puts the row back. Only the pruning of a tombstone
(`PruneTombstone`) waits until no handler is between its `Get` and its last write: a tombstone is
kept for an hour, and a handler's upstream calls end after ten seconds, which is what the comment of
`writeBack` relies on (`bff/server.go:225`). `SessionLife` says what that comes to for a caller: a
session that was ended stays ended, and one that lapsed is there again only if a request that had
been granted it before writes it back (`Renew`).

`Elevate` leaves out one branch: a step-up response that carries a refresh token of its own
(`bff/auth.go:232`). The admin login that serves the step-up returns none (`bff/auth_test.go:118`).

### LoginFlow

A login is one run of `/bff/login`. State, verifier and nonce are fresh random values and are
identified with it. Which store is in use is chosen in the initial state, so one run covers both.
Cookies change when a response is delivered, so two logins of one browser can cross, and the nonce a
callback carries is the one the browser held when it sent it. A callback URL may be opened twice,
cut short, or in another browser.

### RateLimiter

`allow` and `sweep` run under one mutex, so each is one step. Keys are addresses; what
`X-Forwarded-For` may hold is an address or something else. `log` records what was granted to whom
and when, so that the properties do not have to trust the counters they are about. `allow` lets
everything through when its limit is not positive; `getint` replaces such a setting by the default,
so the branch is dead in a server made from `LoadConfig` and the limit is assumed positive.

### StepUp

A step is what the page's thread runs between two awaits, with the promise continuations it
triggers. The server is reduced to a session that may end and an elevation that may lapse. The
promise of `stepUpStore` has an identity, so that a call can be seen to await a promise that is no
longer the store's.

### SseClient

Each mount of the dashboard is an instance of `useSSE` with its own controller, attempts and
timers; the Live indicator is shared. Closing a connection makes it end silently, except while the
body of an error response is read, where the code catches the rejection and takes the failure path.

### AuthRouter

A page starts with `fetchSession` and only then installs the router. A navigation is the guard,
once per redirect, and then the import of the view's chunk; answers from the network arrive while a
chunk loads, never between two redirects, which run in microtasks. A newer navigation replaces the
one under way and one to the view shown ends at once: that is vue-router's doing and external. The
routes are two sets, by the role they need. `logout` is two actions, the click and the end of its
call, and the three callers are two kinds: the sidebar and the settings wait for the end and then
push `/login`, the Access Denied view pushes at once. `stranded` (a chunk could not be loaded) and
`bounced` (a sign-out that was not awaited has ended) are history variables; they name the two ways
in which a protected view can stay on the screen without an identity.

### SseFeed

Extends `SseClient`: each of its steps is joined with what it does to the feed (`ClientStep`). The
server sends every event to every open stream as lines, and a chunk may end anywhere. A connection
is in event `at[c]`, of which `lineNo[c]` lines were read, and `buffer[c]` holds the text of the
next line when it came without its newline. One turn of the read loop is a `ReadChunk`
(`currentEvent` and `currentData` start empty for every chunk, as in the code), a `ReadLine` for each
newline in the chunk, and a `KeepRest`, which leaves what follows the last newline in the buffer.
Nothing else happens on the page between them (`chunkOf`), as in the code, where the loop over the
lines has no `await`: the steps are only a way of letting a chunk have any number of lines.
`ParseLine`, `processEvent` and `addLiveEvent`, with its cap, are the functions of the code. A buffer
without text is "none". The ghosts are `read`, the events read to their end, and the exceptions the
code has: `torn` events, whose lines ended in two chunks; `doubled`, two dashboards with a stream at
once; `ended`, a stream the server ended; `late`, a view left with something due.

### ViewLoads

A request is its slot, the selection it was sent with and the mount that sent it; an answer writes
the slot whoever is looking at it by then. `Main` is the slot a view is about. The ghost `last` is
the request of a slot that was sent last, while it is out; `intact` the mount that sent it, once its
answer is in and while it is the last one stored. What is shown is compared with the controls then:
loads may overlap as they like, as long as the youngest is also the last to be answered. Four slots
that only the dashboard reads, and asks for together, are one (`board`). It also loads the threat
slot, with its own period, and its interval goes on if the view was left during its first load; its
call for the alert history is in `Alerts`. `ThreatsView` follows its metrics with the integrity
check. `EventsView` keeps its page when filters are applied, `AuditLogsView` goes back to the first;
`onPage` follows the paginator, which PrimeVue moves when the total shrinks.

### Alerts, IpDesk

Both have a server of their own. A call is sent, served and answered in three steps, each in any
order with respect to other calls, and may fail before or after it was served. What a click
changes at once, what an answer changes, and the load that follows a change are parts of the
actions they belong to. A ghost (`wrong` in `IpDesk`, `astray` in `Alerts`) marks the cases in which
the store can be left behind the server, until the view's next load that is answered in its turn:
a load overtaken by a younger answer, a failed call, and what other views and mounts put into the slot.

Both views are left and mounted again. In `Alerts` (`Return`), calls that are out stay out
(`LeftOut`): a save of an earlier mount no longer closes a dialog, and an earlier mount reloads with
the filter it had (`otherHistory`). A dashboard that was left in its first load goes on loading the
history every 30 seconds (`BoardRefresh`); its answer is a page of the newest unacknowledged alerts
(`BoardPages`). The prompt before a delete and its accept are two actions, with loads in between. In
`IpDesk` a behaviour follows the list of `BlockedIPsView` (`desk` "list", and "away" while it is not
shown), its reputation dialog ("lookup") or `ThreatsView` ("threats"). Blocks that are out when the
list is left become `pastBlock`s, which still reload when they are answered; one that `ThreatsView`
sends meanwhile is an `awayBlock`, which adds its row and loads nothing. The address in the form can
be edited at any time, so the form is only open or closed. The prompt before an unblock and its
accept are one step: the call is about a block by its id, whatever the list shows by then, so one
accepted late does nothing that one served late does not.

In `Alerts` the server's rules are a list (`serverRules`) in the order they were created (`born`
counts them), since the page shows them in that order; a behaviour follows one of the two tabs. A
toggle that crossed a load or another toggle is `astray` too, because no load follows it.
`updateAlertRule` replaces the first row of an id, `removeAlertRule` leaves the rows of the other
ids, and a created rule is pushed whether or not a load has already listed it. When it has, a
toggle of the second row replaces the first and then flips the second (`flipSecondRow`).

### PolicyLog

Decisions are numbers in the order they are logged; `horizon` is how far the 24 hours have moved.
`load` sends its two calls together and waits for both (`waits`, `ServeSummary`); if one fails the
load fails. What the summary says is only shown and is not kept: its query is the period alone, with
30 days for "all", so it is not a summary of the list when other filters are set. `loadOlder` sends
the cursor of the last row listed. Both are answered against the log as it is by then: the answer is
any page in `Pages`, the set of sequences that hold the newest `PageSize` rows the query selects
below the cursor, newest first (there is exactly one). `crossed` and `blended` mark a page that was
added to a list it does not continue, and one of other filters.

### VersionCheck, Reports, TabPollers

The pollers share nothing but the tab, so a behaviour of `TabPollers` follows one of them; a
reload ends timers and forgets what the page held, while the server's reports and versions stay.

## Runs

| Run | Instance | What it shows |
|---|---|---|
| `session_memory` | memory store, 2 requests, 3 tokens, with fairness | a spent token is presented only after one was lost, every request is answered |
| `session_durable` | Postgres store, 2 requests, failing statements | the inductive invariant of the proofs (with nothing served after the end), no revival, a clean logout report is true, the row keeps the newest tokens unless a rotation was lost or a copy read earlier was written over them, implements `SessionLife` with timeouts between any two steps |
| `login_flow` | both stores, two tabs of one browser, a second browser, two callbacks, one slot, with fairness | only the browser that began a login is signed in; a code is exchanged once; refusals have a cause; abandoned logins free their slots |
| `rate_limiter` | two kinds of peers, limit 2, two ticks a second | fewer than twice the limit in any window of time, no unjust refusal, a Retry-After less than a second short, the sweeper is invisible |
| `step_up` | two calls, two concurrent confirms, with fairness | no orphaned call, nothing done twice or after a cancel, a true toast, every call settles or asks |
| `sse_feed` | two mounts, two connections, one retry, three kinds of events, with fairness | one connection or timer per view; a scheduled reconnect is made; the live list is what was read; Live and quiet are true but for the named exceptions |
| `auth_router` | two viewer and two admin routes, all roles, two sign-outs at a time | at most two redirects, what is shown suits who is signed in, a page that lost its identity leaves |
| `view_loads` | six tours of the seven views, two selections, three pages, three requests out | what is shown is the selection once the newest load's answer is the last one stored; the page exists, no spinner hangs, the integrity panel is the period's |
| `alerts` | one rule, two alerts, pages of one for the dashboard, three calls out | rules, history and the count end up as the server's in whatever order changes and loads were served, by this mount or an earlier one, with a dashboard loading beside them |
| `ip_desk` | two addresses, two blocks of each, three calls out | the list ends up as the server's, each block once, also when it was left with calls out; a mount of `BlockedIPsView` has one block out at a time; the dialog shows the address it names |
| `policy_log` | up to four decisions, pages of two, three settings, two loads out | the list is newest first, without duplicate or gap, down to its end |
| `tab_pollers` | two versions, two deployments, two reports, one fault, one reload, with fairness | every toast is a deployment, the snapshot catches up, a report shown as generating is followed to its end, what is offered is ready |

An invariant whose name ends in `Inv` is a conjunction of the named parts above it in its module,
the type invariant first.

### Bounds

Two requests, calls or callbacks are enough for every pairwise race, which is what the handlers
have: they meet in one row, one flight, one promise, one cookie. `MaxTokens` 3 allows two
rotations, so that a token can be spent, replaced and presented again. `MaxErrors` lets a failure
fall before, on and after a logout's `Delete`. One slot in the pending-login store makes it full;
the real capacity is ten thousand. The limiter's clock runs past the end of a window into the next, and
`MaxAttempts` 1 (5 in the code) has a first attempt, a retry and the end of retrying; the proofs
about the connections hold for any number. `Cap` 1 (100 in the code) drops an event as soon as a
second is shown, and `MCScripts` sends every kind; the order of a longer list is left to the proof.

A tour is the views visited in one behaviour: those that share a slot, the dashboard and
`ThreatsView`, are visited together, with themselves when entered twice, and the others alone,
because they share nothing. Three requests out are two of one slot, which cross, and one of another.
Three calls of `Alerts` and `IpDesk` are a change, the load that follows it and one more of either;
one rule is enough for calls about it to cross, and that the order of several rules is kept is left
to the proofs; a page of one of two alerts is one that leaves some out (`BoardSize`, 5 in the code);
the second block of an address is the one sent after it was unblocked. Three or four decisions and
pages of two give a full page, a page that is not full, and one that is exactly the rest. One fault
and one reload are enough for each poll, since a poll remembers nothing. Slots for requests,
promises and connections are used again when free, so the behaviours are not bounded in length,
apart from the tokens, errors, ticks, logins and mounts named above.

### Fairness

`BffSession`: weak fairness of each handler's next step and of the refresh, because a goroutine runs
and every call it makes ends (the HTTP client's timeout is ten seconds, database calls carry the
request's context). `LoginFlow`: the sweeper's ticker, the passing of time, the handlers. `StepUp`
and `SseClient`: the server answers or the request fails, timers fire, the page's thread runs;
`SseFeed` assumes the same of those steps, so that the thread comes to the end of a chunk.
`TabPollers`: the interval and the poll timers fire, the oldest check and each poll are answered or
fail, and the server finishes its reports. Nothing is assumed of the user, of the operator, or of a
stream's end.

## Proofs

`BffSessionProofs` proves, for every set of requests, every bound and (except where said) both
stores, by induction on `SessionInv`:

* `TypeCorrect`, `NeverResurrected`, `EndIsFinal`, `CleanReportIsTrue`. `NoResurrection` is not
  inductive: a write-back may follow the pruning of the tombstone unless no handler then holds the
  session. `TombstoneOutlivesHolders` says that, while a handler is between its `Get` and its last
  write, the tombstone of an ended session stays; `FlightHasWaiter` extends that to the
  write-through of a refresh, which always has a waiting handler; `TombstoneMeansEnded` and
  `LateNeverHolds` carry it to the answers. `CleanLogoutEnded` needs `CountedDelete`: the counter
  only grows, so equal values around the `Delete` mean that it succeeded.
* `MemoryStoreKeepsNewestToken`, for the memory store: `NewestToken` says that the stored token is
  the newest one issued except between the issuer's answer and the write-through.
* `RowKeepsNewestTokens`, for both stores: `StoredIsLatest`, by `CopyInv`. A handler whose copy is not
  `stale` works on the tokens the row has, or had before it timed out, so its write-back changes
  nothing but the row's life; the write-through of a refresh and a step-up build on such a copy, or
  are what is `latest` from then on.
* `Refinement`: `BffSession` implements `SessionLife`, with a session's life read off the row and
  the history of its end and a caller's view off its program counter. A write-back after `Lapse` is
  `Renew`, and only a handler that was granted the session makes one.

`RateLimiterProofs` proves `LimiterKeepsBudget`: the limiter implements `RateBudget`. The mapping
reads an entry whose window is over as no entry, which makes `Sweep` a stutter. It also proves
`BurstIsBounded` and `RefusalsAreEarned`, for any limit, window, clock and peers, by induction on
`LimiterIInv`. `BurstBound` counts events of the log, so it needs to know what the counters are:
`WindowsMatchLog` says that an entry's count is the number of events logged for its key since its
window opened, which was with an event, and that a key without an entry was granted less than a
budget within the last window's length. An interval of that length meets at most two windows, and it
cannot hold both the event the first one opened with and all of the second, so it has fewer than
twice the limit. The counting lemmas say how `EventsIn` changes when an event is logged and when the
interval is split or cut. `RefusalWindow` follows the window a refusal spoke of until it is over.

`LoginFlowProofs` proves every safety property of `LoginFlow` by induction on `LoginInv`.
`AcceptedOnce` needs `TakenOnce`: a state that left the store does not come back, so at most one
callback goes on with it. `OwnBrowserOnly` needs `NonceOwned`: a browser only ever holds nonces of
its own logins. `RefusedForAReason` needs `NonceKept`, which follows a nonce from the delivered
redirect to the callback that carries it.

`StepUpProofs` proves the safety properties of `StepUp` by induction on `StepUpInv`: the dialog is
open exactly while the store has an open promise and every waiting call awaits that one
(`PromiseOpen`), and where a call stands says what the server did for it (`AppliedByPC`).

`AuthRouterProofs` proves the properties of `AuthRouter`, for any routes, by induction on
`RouterInv`: `GuardHops` says where a navigation can be after each redirect, `ChunkAllowed` that
the view being loaded is one the guard would still let pass, unless the page is being left.

`SseClientProofs` proves `OneChain` and `CanBeClosed` by induction on `SseInv`. They need each
other's help: a view is quiet until its first load is over (`QuietBeforeLoad`), so each `connect()`
past its guards follows a timer or the load with nothing else active, and a controller belongs to
a connection of its own view (`OwnController`).

It EXTENDS `SseFeed` and goes on to `LiveMeansOpen` and `CleanupIsComplete`, by induction on
`FeedIInv`: `LiveUnlessEnded` is inductive with `SseInv`; that a view that was left is quiet needs
`LeftQuiet`, which names what may still be due when it is left. `FeedSingleChain` carries `OneChain`
over: every step of `SseFeed` is a step of `SseClient` or leaves its variables alone.

`FeedIsRight` is `FeedInv`, for any events, chunks, connections, cap and finite set of views, by
induction on `ListIInv` beside `FeedIInv`. `InStream` and `BufferRight` say where in an event a stream
is and that the buffer holds nothing or the next line; `ParserHolds`, that what the loop holds
is of the event being read, and `ParserComplete`, that it holds all of an event that is
not torn. `Forward` is why the list is in order and has nothing twice: while streams were never two
at a time, the open one is past everything that was read. With several, `WithinViews` counts: the
rows of an event and the streams that have not read it to its end are together no more than the
views, because a view has one connection (`OneChain`). The lemmas `PushedList`, `PushedNewest` and
`PushedCopies` say what `addLiveEvent` does to a list that is below or at its cap.

`ViewLoadsProofs` proves the properties of `ViewLoads`, for any tour, selections, pages and number
of requests out, by induction on `LoadsIInv`. `LastFits` says that the load sent last of a view's
slot, while it is out, asks for what the controls select; `ChecksFollow` that an
integrity check sent alone is for the period selected. `ControlsFit` and `MountsInOrder` say what the
controls and the mount numbers can be.

`ConsoleProofs` extends four modules that have no variable in common, whose proofs share the
lemmas on sequences of calls: removing a call leaves the others in order (`RemoveAtKeeps`), adding
one leaves them in place (`AppendKeeps`). Three of the modules therefore have names of their own for
what is `Init`, `Next` and `Spec` elsewhere (`TabSpec`, `DeskSpec`, `AlertsSpec`).

* `PolicyLog`: `LogStaysInOrder` and `ListHasNoGap`, for any log, filters and page size, by
  induction on `LogIInv`. A load out is `CallRight`: its query asks for all that its filters select
  at any later horizon; its page is in order and below its cursor, and leaves out selected rows only
  if it is full and they are below it; and one that is not `stale` continues the list shown, which
  was answered before it. The last part is why appending keeps order and leaves no gap.
* `TabPollers`: `ToastsAreEarned` and `ReportsAreFollowed`, for any number of versions,
  deployments, checks, reports and faults, by induction on `TabIInv`. `ToastsCovered`
  counts: while checks do not overlap, the toasts shown and those that the snapshot is behind were
  all deployed, where an answer that is on its way counts as one more step. For the reports, each
  entry known to the page is one the server made, a spinner has a poll or a lost one, and the
  requests of the dialog are its mount's.
* `IpDesk`: `BlockedListIsRight` and `DeskIsSound`, for any addresses, blocks and number of calls
  out, by induction on `DeskIInv`. `ListSettles` says that a list that is not the server's has a
  change out that a load will follow, or a load out that is not late; that the youngest such load
  brings the server's list (`FreshLast`); and that late loads were sent before those that are not
  (`LateFirst`), so a load that is answered on time makes late only older ones. A row can be doubled
  only by the answer to its own block (`RowsBounded`, `MadeOnce`), which comes once; that of an
  `awayBlock` makes every load out late, and the list `wrong` until a later one. An earlier mount's
  changes count like the present one's, because each still reloads. `HeaderFollows` ties the dialog
  to the lookups out.
* `Alerts`: `RulesAreRight` and `HistoryIsRight`, for any number of rules, any alerts and number of
  calls out, by induction on `AlertsIInv`. The properties speak of a page with nothing out; what is
  inductive is how the page and the calls out add up to the server. `FreshTab`: the youngest load,
  unless it is late, asks for what is selected and brings the server's answer, or a change that the
  server has taken will be followed by a load. `TabSettles`: when no load is out or will follow,
  what is shown is the server's once the toggle that the server has taken, if any, replaces its row
  (`Due`). `NoneCrosses` makes that toggle unique: whatever is out with it is late. `FreshTab` is
  about the view's own loads; an `other` one, or an earlier mount's acknowledgement, leaves the page
  `astray`. The lemmas are about one call that goes out, is taken by the server, or ends
  (`AddedKeeps`, `TakenKeeps`, `GoneKeeps`, `GoneFresh`, `GoneSettles`), and about the server's list
  when a rule is changed, made or deleted.

The theorems rest on the `ASSUME` of the module they are about and on nothing else. These say that
bounds are natural numbers (positive where the code's are), that the sets of rows, selections and
sections are what their comments say, and that the marks `None`, `Nil`, `NoVersion`, `Absent` and
`Unset` differ from the values they stand beside.

Only model-checked: the liveness properties, which are outside the prover's reach. Every invariant
and every action property of a run is stated by a theorem. The other way round, `TypeOK`,
`NothingServedAfterEnd`, `NoDeadEndRedirect`, `CancelNotStuck` and `CanBeClosed` are theorems and no
longer have an entry of their own in a run.

## Not modelled

`backendkit` (stores, gateway, login binding), Socrate, vue-router and PrimeVue are external: they
are modelled from how the repository and its tests use them. Formatting, charts, themes, logging,
type declarations and detail dialogs have nothing to check; the CSV export of the audit log and
`fetchAppUsage` keep nothing. Configuration loading, the route table, `canonicalPathOnly`,
attribution and the functions on token claims decide per call and keep no state; they are string
handling, of which a model would leave little.

### Seen while modelling

Behaviour of the code that the properties above name as an exception, or that no run states.

BFF:

* `handleLogout` answers 204 with the session still live when the lookup of the session fails in
  the store (`bff/auth.go:110`): the counter is compared around `Delete` only. `CleanLogoutEnded`
  speaks of logouts that found a session.
* With the Postgres store a handler writes back the whole row it read (`bff/server.go:220`), so a
  refresh that ended in between is undone and the spent refresh token is presented next; a step-up
  is undone in the same way. A row that timed out in between is back.
* `handleLogout` revokes the tokens it copied (`bff/auth.go:138`); a refresh under way leaves the
  rotated one to the issuer's expiry.
* `rateLimited` cuts Retry-After to whole seconds, so a caller that waits exactly that long can
  still be inside the window; `RetryAfterSuffices` therefore allows the rest of a second more.

Identity, step-up and stream:

* Signing out from Access Denied pushes `/login` before the session is gone
  (`src/views/UnauthorisedView.vue:10`); the guard sends the user on, and the page can end on the
  dashboard.
* `stepUpStore.request` joins only a promise that is still open: a call of a bulk action whose 403
  is delivered after `complete` opens a second dialog.
* Live stays on after the server itself ended the stream (`src/composables/useSSE.ts:71`).
* A dashboard left during its first load, or with a reconnect due, opens a stream and an interval
  that nothing closes; a second dashboard then lists events twice, and the interval writes its 24
  hours over the period `ThreatsView` shows.
* An event whose lines end in two chunks is lost.

Views:

* The edit dialog of a rule saves the `enabled` it was opened with, and so undoes a toggle made by
  then. A second click on Create or Acknowledge sends the call again.
* A dashboard that was left in its first load goes on putting five unacknowledged alerts into the
  history `AlertsView` shows, under whatever filter it has selected; an earlier mount's
  acknowledgement reloads with that mount's filter.
* A block sent from `ThreatsView` and answered after `BlockedIPsView` loaded a list that has it
  adds a second row for it, which stays until the next load.
* The answer to a block closes whatever form is open. The Block button of `ThreatsView`'s
  dialog uses the address looked up before while a lookup is out or after it failed.
* `ThreatsView` says "No significant threats detected" before it has an answer; `GeoView` and
  `TokensView` keep their skeleton after a first load that failed.
* Apply keeps the page in `EventsView`; the list can be on a page that is not there any more until
  the paginator moves.
* `openGenerateDialog` sets 30 days, so the presets of the quick reports are lost; a date range with one
  end only ends in an error toast. One failed poll ends the polling of a report without a word.
* Of two loads that overlap the one answered last stays shown, also when it was sent first; nothing
  compares an answer with the selection.
* `loadOlder` adds its page to whatever list is shown when it arrives. The summary's label
  follows the edited period, not the one loaded, and its numbers are of 30 days and of all decisions
  when "all" or other filters are selected.
* If the store has no version when the check's own first fetch is over, no update is ever announced;
  overlapping checks add a second toast for one deployment.
