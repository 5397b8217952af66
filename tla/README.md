# rsync-viewer in TLA+

rsync-viewer is a FastAPI server that ingests rsync logs, finds failed and
missing syncs in them, and tells the operator through webhooks. This directory
holds TLA+ models of the parts of it that are hard to test, the TLC
configurations that check them on small instances, and theorems that hold for
every instance, with proofs checked by TLAPS. Paths below are relative to the
repository (`app/...`).

## The system

One Python process runs one asyncio loop (`entrypoint.sh` starts one server).
Database access is synchronous (SQLModel on PostgreSQL), so a handler runs
without interruption from one `await` to the next. That rule sets the grain of
every model: **what lies between two awaits is one action**. Concurrency comes
from the awaits (HTTP posts, back-off sleeps, waiting for a cancelled task,
bcrypt in a thread), from background tasks, and from crashes.

| Component | State | Operations | What is hard | What makes it correct |
|---|---|---|---|---|
| Webhook dispatcher (`services/webhook_dispatcher.py`) | per dispatch: loaded hook rows, uncommitted log rows | select hooks, attempt with retries, commit | works for minutes on rows loaded at the start, one commit at the end; overlap with other dispatches, the operator, cancellation, crash | flag, counter, switch and delivery log agree |
| Webhook endpoints (`api/endpoints/webhooks.py`) | `webhook_endpoints`, options | create, update, delete | deletes and updates under a running dispatch, foreign keys | log rows never lose their hook; only the operator enables |
| Ingestion (`api/endpoints/sync_logs.py`) | `sync_logs`, `failure_events`, `last_sync_at` | create, delete, list with cursor or offset | dispatch inline in the request; late logs; pages while rows come and go | failure stored before it is sent; pages skip nothing |
| Failure detection (`services/stale_checker.py`), monitors (`api/endpoints/monitors.py`) | `sync_source_monitors`, stale events | check, create, update, delete | deadlines, window of 30 days, order of logs | a stale event is true of the last sync to arrive, and not repeated as far back as the checker looks |
| Retention (`services/retention.py`) | all log tables | periodic pass, synthetic purge | order of deletions under foreign keys, transactions | due rows go, nothing else does |
| Synthetic monitor (`services/synthetic_check.py`, `api/endpoints/settings.py`) | module globals, one task, configuration row, results | start, stop, check cycle | replacement of a running task by concurrent requests; cancellation at any await | one task, running exactly when configured |
| Accounts, sessions (`api/endpoints/users.py`, `auth.py`, `services/registration.py`) | `users`, refresh and reset tokens | register, login, refresh, reset, role, status, delete | login awaits between read and check; foreign keys | always an active admin; a token is used once |
| API keys and authorization (`api/deps.py`, `api/endpoints/api_keys.py`) | `api_keys` | create, revoke, verify | role of a key follows its owner | a key never exceeds its owner |
| OIDC login (`services/oidc.py`, `routes/auth.py`) | pending states, discovery cache | configure, login, callback, discovery test | both requests wait for the provider, without a lock; callbacks repeat, overlap, come late; a slow fetch overwrites a later one; a restart loses the memory | a state gives one session, no outdated document is used |
| Media catalogue (`services/media_catalog.py`, `media_repair.py`, `api/endpoints/media.py`, `scripts/backfill_media.py`) | `media_items` | record, retire, bring back, unlink, repair, back-fill, list | deletions and transfers in one log, logs out of order, batches by offset under changing rows | one item per key, present exactly when last sent; no sighting lost |
| Media classifier, parser (`services/media_classifier.py`, `rsync_parser.py`) | none | which lines are files, what a path is | one text format, read by two parsers | (through the catalogue) |
| Health and analytics (`services/source_health.py`, `api/endpoints/analytics.py`, `sources.py`) | none | streak, status, daily points; summary, statistics, export | windows, ends of days, ties, filters repeated in each query | reports over the same logs agree |
| Update check (`services/update_check.py`) | one cached release | check | overlapping checks end out of order, failures | checks keep their distance, also when they fail |
| Settings, SMTP, e-mail, backup scripts, middleware, metrics, changelog, pages, frontend, migrations | rows of their own, or none | | I/O, text, third-party counters | partly or not modelled, see below |

How they interact: ingestion raises a failure event and, in the same request,
runs the dispatcher; the synthetic monitor posts to ingestion over HTTP and
runs the dispatcher itself when that fails; ingestion also feeds the media
catalogue, and a deleted log is unlinked from it; the list, the health and the
analytics read the same rows while they change; logins and update checks share
the event loop and lose their memory together; retention, the purge and the
administrator delete what the others wrote, held back by foreign keys; settings
requests replace the synthetic task; process start reads the stored
configuration. PROJECT.json lists every component and every hazard with its line.

## Modules

| Module | Models | EXTENDS / INSTANCEs |
|---|---|---|
| `WebhookDispatch` | dispatcher, webhook endpoints, retention of the delivery log | |
| `HookBreaker` | what the dispatcher promises of each hook: a circuit breaker over the outcomes of dispatches | instantiated by `WebhookDispatch` (refinement) |
| `SyntheticMonitor` | task, settings request, check cycle, restart | |
| `FailureDetection` | logs, failures, monitors, stale checker, deletion, retention | |
| `Accounts` | users, roles, logins, refresh and reset tokens, administration, API keys | |
| `LogTable` | the table of logs as its readers see it, the lines of an upload, filters | |
| `MediaClassifier` | how a path becomes a film, an episode or nothing | |
| `MediaCatalogue` | items, retirement and return, back-fill, repair, media reads | extends `LogTable`, `MediaClassifier` |
| `LogPages` | a client that pages by cursor in both directions | extends `LogTable` |
| `LogReports` | health, summary, statistics, export | extends `LogTable` |
| `LogViews` | ingestion and deletion together with everything that shows logs | composes `MediaCatalogue`, `LogPages`, `LogReports` |
| `FetchSlots` | the clock and the requests in flight | |
| `OidcLogin` | login by an OpenID provider, discovery cache, states | extends `FetchSlots` |
| `UpdateCheck` | the check for a release | extends `FetchSlots` |
| `ProcessMemory` | both in one process that restarts | composes `OidcLogin`, `UpdateCheck` |
| `WebhookDispatchProofs`, `SyntheticMonitorProofs`, `FailureDetectionProofs`, `AccountsProofs`, `LogViewsProofs`, `ProcessMemoryProofs` | theorems about the module they are named after; `LogViewsProofs` has those about pages and reports | extend it |
| `CatalogueProofs` | theorems about the catalogue of `LogViews`, and those that need its invariant | extends `LogViewsProofs` |
| `FoldLemmas` | what a left fold computes, for an operator given as a constant | instantiated for `RecordLog`, `RepairPhantom` and `CountRow` |
| `MC...` | sets of model values for TLC | extend the module they are named after |

### WebhookDispatch

Database variables are the columns (`row`, `enabled`, `fails` =
consecutive_failures, `accepts` = source_filters, `stored`, `notified`,
`notes` = notification_logs). Session variables hold what a dispatch loaded
(`selected`, `seen`) and has not committed (`pending`). `StartDispatch` is all
that happens from ingestion to the first await; `Attempt` is one pass of the
retry loop; `Commit` writes, as SQLAlchemy does, only attributes that changed:
`CounterWritten` derives from the loaded value, `EnabledWritten` touches
`enabled` only to switch it off. `CommitFails` is the rollback when a hook was
deleted, `AttemptRaises` an exception that leaves the dispatcher,
`CancelSynthetic` the cancellation of a synthetic check inside its dispatch,
`Crash` the death of the process. `RetentionPass` deletes failures with their
delivery log and leaves the hooks and their counters alone; a dispatch may still
be running for such a failure, and its commit then breaks a foreign key
(`KeysHold`).

The log cannot be the measure of the counter, because retention shortens it, so
the history `verdicts` keeps what committed dispatches found of their hooks.
`streak` is the run of failures of a hook, counted anew when the operator
switches it on after the threshold switched it off (`Reopens`). `crossed` has
the hooks that two dispatches have served at a time, for which counts may be
lost, `reopened` those switched on again, for which the code keeps a counter
that its specification resets. No guard reads any history. `HookBreaker` leaves
both open where the repository does: after a crossing the count is anything
from one to the failures so far, and a switch may or may not reset it.

### SyntheticMonitor

The module globals are `current` (`_background_task` with its event), `on`
and `shown` (`_state`). A task's state names the await it stands at: not begun,
warming up, posting, alerting, closing its client, waiting. `WriteSynthetic`
runs to the await of the cancelled task, `Resume` is the rest, which clears the
globals, whatever they hold by then, and re-reads the configuration. The POST
of a check has a life of its own in the server (`HandlePost`). A check ends in
`Passed`/`Recorded`, `Refused`/`Alerted`, `TimedOut`/`Alerted`, an exception
(`CheckRaises`), or a cancellation (`TaskEnds`). A failing database is not
modelled here.

### FailureDetection

Rows are records in sets; foreign keys are the predicate `References`, and a
transaction that would break it has no effect. A monitor's interval times its
grace factor is one `deadline`. `CheckStale`, `RetentionPass` and
`PurgeSynthetic` are whole transactions, because none of them awaits. `Ingest`
is two, one after the other without an await: nothing comes between, but the
second, with the failure and `last_sync_at`, may fail or be lost in a crash
(`whole`); `counted` has the logs for which it succeeded. The client sends the
end of its sync, so logs arrive in any order of their ends, and `last_sync_at`
takes that of whatever arrives. `Notify` stands for the commit of a dispatch.

### Accounts

A request with an access token loads its user and finishes without an await, so
it is one action whose guard is the dependency (`Enabled` for
`get_current_user`, `Admins` for `AdminDep`). Two requests await a bcrypt check
in a thread and are split: `BeginLogin`/`EndLogin`, which goes on with the row
it read, and `BeginKeyUse`/`EndKeyUse`, which reads the owner afterwards.
`request` is what they carry across. `refresh`, `resets`, `keys` and
`configured` are the rows that refer to a user without ON DELETE; `Referenced`
is the foreign keys' view of a delete. `served` records what the step accepted
a key for. An expired token is one nobody presents any more; a password is
represented by how often it was replaced.

### LogTable, LogPages, LogReports, MediaCatalogue, LogViews

Ids of logs are numbers, which stand for the order of UUIDs; a log's content is
one of `Uploads[l]`, chosen when it arrives, and logs arrive in any order. A file
list (`FileList`) is a set of positions in the lines of the output, which have a
form (summary, other control output, itemized, plain, deletion) and a path; a
path is its directories, its file with
what the regular expressions find in it, and whether its first word reads as
rsync's own output, which is what makes the second parse of a path
(`ClassifyTransfer`) lose it. `Ingest` stores the row and records it in the
catalogue with no await between; `record_media_safely` may fail and then loses
only the media (`RecordSafely`). `RecordMedia` keeps the code's order: retire
what the log deletes, bring back what it sends, insert what is new and leave a
conflicting row as it is. `Delete` nulls the foreign key of items. The back-fill
goes by offset over the rows of the moment, batch by batch; the migration
repairs phantom rows in any order the database may return them. The back-fill is
a script, a process of its own, whose statements can fall between those of the
server under row locks; the model lets the server act between batches only.
A title stands for its spellings in upper and lower case, which the key of an
item folds; that the pages group episodes by the title as written is left out.

A reader has a query, a direction and the page it last received; `Respond` is
one request: rows ahead of the cursor, one more than fits, the offered cursors,
the probe for `has_next` of a backward page. Its filters stay the same along a
trail; `shown`, `twice` and `steady` are the trail's history. `told` is the
history of recordings: `told[l]` has the logs that were last recorded before `l`
was, so `LastTold` of some logs is the one all others come before. The reports are operators, since they change nothing;
`CountRow` is the loop of `_consecutive_failures` over the rows of all sources,
and `StreakAgrees` compares it with a definition that needs no loop. A day is
`DayLength` units, the last of which lies after 23:59:59; days count from 1, and
0 stands for a bound the caller left out. `InOrder` is the `ORDER BY` of
start and id: a row's place is the number of rows before it. The export sorts by
start alone, so `Export` is a set of answers: any list of the rows with the
latest first (`LatestFirst`), cut at offset and limit, and each request may get
another list. Over two requests tied rows can then repeat or be missed, and
`ReportsAgree` claims what remains: the number of rows, their times in order,
and each row that ties with none once.

### FetchSlots, OidcLogin, UpdateCheck, ProcessMemory

A slot is a request that waits for another server: `Begin...` is all up to the
await, `End...` all after it. `slot[s].since` is the time the code read before
the await and writes after it. A login's number stands for its state, its nonce
and its code. The provider may replace its document at any time (`Replace`); a
fetch under way may then be answered with either version, which is why a slot
carries the set `docs`. `fetch_discovery` is split over `Hits` (a document young
enough, no await) and `Store`. `validate_state` is `Popped`, before any await of
the callback. `Grant` asks of the ID token its issuer and nonce (`Accepted`);
`Fail` and `CallbackInVain` are the exceptions and early returns. `Restart`
loses slots, cache and states together.

`Tick` lets no request wait longer than `Patience`. This is an assumption on the
providers: httpx applies its read timeout to each chunk of an answer, so the code
does not bound an answer that comes in ever so many small chunks.
`OidcAssumption` has `Patience` less than
the life of a document (seconds against an hour). Without it `DocumentFresh`
could not hold, whatever the cache did.

## Runs

| Run | Shows | Bounds |
|---|---|---|
| `dispatch` | flag, log, counter and switch agree under overlap, deletion, retention, cancellation, crash; the counter is the run of failures and the threshold switches off; refinement of `HookBreaker`; every dispatch ends | 2 hooks, 2 events, one of them synthetic, 2 attempts, threshold 2, 2 dispatches at once |
| `dispatch_overlap_threshold` | **violated**: overlapping dispatches lose a failure and the hook stays on | 2 events, 1 attempt |
| `dispatch_attempts_logged` | **violated**: an exception or rollback discards the log of attempts made | 1 hook, 2 events |
| `dispatch_reenabled` | **violated**: a hook switched on again keeps its counter at the threshold | 1 hook, 3 events, 1 attempt, one dispatch at a time |
| `monitor_serial` | one monitor, running as configured; rows, results, shown status; requests return | 1 request at a time |
| `monitor_overlap` | **violated**: two requests that enable leave two monitors | 2 requests at once |
| `detection` | stale events true of the last arrival and not repeated within the window; retention deletes what is due, in an order that succeeds | 2 sources (one synthetic), 2 logs in any order, times 0..3, window 1, retention 2 |
| `retention_synthetic` | **violated**: the synthetic purge of a pass is rolled back | as above, times 0..4 |
| `stale_repeated` | **violated**: an outage longer than the window is reported twice | 1 log, times 0..4 |
| `log_views` | items present exactly when last sent, sightings kept; pages that skip nothing, cursors that lead on; streaks and reports that agree | 3 logs in any order (ids 1 to 3, two tied in time), 5 uploads with content and 1 empty, 3 sources one of them synthetic, 2 legacy catalogues, 2 queries, pages of 1, batches of 2, days of 4 units, exports of 2 |
| `process_memory` | one session per state, fresh documents, update checks apart | 2 requests at a time, 2 logins, times 1..4, one accident (second issuer, new document, or restart) |
| `accounts` | always an admin, no orphans, keys within owners, one valid token per login, resets used once, roles changed by admins only | 2 users (symmetric), 1 request in progress, 2 tokens, 1 reset, 1 key, 1 configuration row |

Why the bounds suffice. The threshold is 10 in the code; 2 already separates
one failure, a run of failures, and a run broken by a success. Two attempts
have a first one that fails and a last one; the code's three add another in the
middle, which the proofs cover. Two dispatches are enough to lose an update, two
hooks to have one judged and one not. A third failure after a re-enable is in
`dispatch_reenabled` and in the proofs. Lives of a monitor task are bounded by `Tasks`; a second restart adds
nothing, since a crash leaves no process state behind. `MaxResults` stands for
2016 and is small enough for pruning to happen. Times 0..3 let a log
expire and be due exactly at the boundary, and a second stale event fall inside
the checker's window; 0..4 let an outage outlast it. Two
users are the fewest with an administrator and a target; a login or a key check
in progress sees everything else happen before it resumes. All properties of
`accounts` and of `log_views` are also proved without these bounds.

Three logs are the fewest with a page before, a page at and a page after a
cursor, pages of one row make every row a boundary, and two of the logs tie in
time. The uploads hold a film under two layouts, an episode whose directory is
deleted, a path that reads as control output, a dry run, a failure, and a
synthetic log; each may come first or last, be deleted, or be recorded again by
the back-fill, whose batch of two is less than the table. Days of four units have
a second after 23:59:59 and syncs on both sides of midnight; exports of two
need a second request. Two logins and two requests suffice for a swapped code,
an overlapping callback and a fetch that overwrites another. `CONSTRAINT Bounds`
of `process_memory` keeps the run in minutes: it allows one accident per
behaviour and explores logins and update checks apart, as they share only slots
and clock. What it cuts off is covered by the proofs, which have no bounds.

`CHECK_DEADLOCK FALSE` is set in every configuration: identities and time are
bounded, so a run may stop when they are used up, and an idle server is no error.

Fairness. `dispatch` assumes weak fairness of the steps of a dispatch:
every await returns, because posts have a timeout and sleeps end. It assumes
nothing of crashes, operators or new events. `monitor_serial` assumes that the
loop delivers a cancellation and resumes the waiter; it does not assume that a
POST is answered or that a crash happens.

## Proofs

`WebhookDispatchProofs` proves, for all sets of hooks, events and sources, any
threshold, number of attempts and overlap (assumption `DispatchAssumption`):

| Theorem | States |
|---|---|
| `TypeCorrect` | `Spec => []TypeOK` |
| `NotifiedMatchesLog` | an event is flagged notified exactly if a committed log row says a hook took it |
| `LogComplete` | the committed log of an event is the whole, ordered story of its dispatch, or empty |
| `CounterIsJustified` | the counter never exceeds the dispatches given up, each of which the log shows until retention |
| `FailureIsPersisted` | an exit-code failure is stored before anything is sent, and only retention takes it away |
| `NoDispatchEnables` | no dispatch switches a hook on (action property) |
| `DispatchIsBreaker` | `Spec => BreakerSpec`, for any overlap |
| `CounterCountsStreak` | the counter is the run of failures, of a hook neither crossed nor reopened |
| `ThresholdDisables` | a run at the threshold switches a hook off that was not crossed |

The invariants are not inductive alone. What the log says is decided by the
uncommitted rows, so `LogInv` adds that pending rows belong to running
dispatches and their selected hooks, that they are in order of attempts, and
that only ended dispatches have committed rows; `CommitKeepsLog` is the step
where pending rows become committed ones. `CounterIsJustified` needs that the
stale value `seen` is bounded by the verdicts too: they only grow, so a value
once justified stays so, which is why lost updates can lower the counter and
never raise it. The last three rest on `Unshared`: while a dispatch runs, the
counter it loaded is still the stored one for each of its hooks that is not
crossed, so its commit writes the successor of the present value. A commit is
then the abstract `Record` of its verdicts, `StartDispatch` a `Cross`, the
operator's endpoints a `Switch`, and every other step a stutter, retention
included. `dispatch_overlap_threshold` shows that the crossed hooks have to be
left out, `dispatch_reenabled` that the reopened ones have to; for those the
counter is ahead of the run, never behind it (`CountCoversRun`), which is enough
for `ThresholdDisables`.

`AccountsProofs` proves, for any number of users, tokens, resets, keys and
requests in progress (assumption `AccountsAssumption`):

| Theorem | States |
|---|---|
| `TypeCorrect` | `TypeOK`, and that a key under verification is a row (`KeyRead`) |
| `NoOrphans` | no token, reset, key or configuration row outlives its user |
| `AdminRemains` | once there is a user there is an enabled administrator |
| `KeysBounded` | a key is accepted with at most its owner's current role |
| `OneValidToken` | a login has at most one refresh token that is not revoked |
| `ResetsSpent` | a password is replaced once per reset token used |
| `OnlyAdminsChange` | role and status change by another administrator's hand (action property) |

`NoOrphans` is inductive with the types: a delete needs `~Referenced`, a login
that resumes needs its user alive. `AdminRemains` rests on it, because a user
made by OIDC is a viewer and may only come after an administrator: the OIDC
configuration has a live author. For the rest the administrator who acts is
never the target, which is also why no count is needed when a status changes.
`OneValidToken` needs `ChainStarted`: the first token of a chain stays a row, so
no new login can be taken for an old one.

`SyntheticMonitorProofs` proves, for any number of tasks, requests and rows
(`MonitorAssumption`), the last four with `Concurrent = 1`:

| Theorem | States |
|---|---|
| `TypeCorrect` | `TypeOK`, with the bound on stored results |
| `RowsAccountedFor` | no row of the synthetic source is forgotten |
| `MonitorIsOne` | no task runs beside the one the globals refer to |
| `RunsAsStored` | the monitor runs exactly if the stored configuration says so |
| `ShownAsRunning` | `_state.enabled` is true exactly while a begun monitor runs |
| `ShownAsStored` | the status shown after a check is the newest one stored |

The first two need to know which row a check will remove: it is there, no other
check's, and not given up (`RowOfOne`), and a task has a POST only at the awaits
where a check needs it (`PostFits`). The others rest on `WaitsAlone`: while a
request waits, nothing runs, and it goes on to what is stored. `monitor_overlap`
shows that two requests break it. `ShownFirst` adds the moment between showing
and storing a result.

`FailureDetectionProofs` proves, for any sources, deadlines, window and
periods (`DetectionAssumption`):

| Theorem | States |
|---|---|
| `TypeCorrect` | `TypeOK`, unique ids (`Numbered`), deadlines that were configured |
| `OncePerWindow` | of two stale events of a source within the window, a sync came between |
| `StaleTellsTruth` | a stale event is true of the sync of its source that had arrived last |
| `RetentionCleans` | a pass leaves no real log beyond the period |
| `FailureGoesWithLog` | a failure is deleted only with its log (action property) |

The checker's theorems assume nothing of the order in which logs arrive. They
rest on `LastIsLatest`: what a monitor holds is the end of the completed sync of
its source that arrived last, or nothing; and on ids growing with the time of
arrival. `RetentionCleans` needs `KeysHold`: the foreign keys hold before
the pass, so the order of its deletions keeps them and nothing is rolled back
(`PassSucceeds`). `FailureGoesWithLog` needs that ids are not reused.

`ProcessMemoryProofs` proves, for any number of requests, logins, issuers,
documents and restarts (`SlotsAssumption`, `OidcAssumption`, `CheckAssumption`):

| Theorem | States |
|---|---|
| `TypeCorrect` | `TypeOK` |
| `StateIsUsedOnce` | a login gives one session at most, to its own state, code, issuer and process, in time |
| `DocumentIsFresh` | no document is used that was replaced as long as the cache's life ago |
| `ChecksKeepDistance` | a check starts only when the youngest ended one began long enough ago (action property) |

A state is pending, or held by one callback, or spent, or lost
(`PendingIsYoung`, `CallHoldsState`, `OneCallPerState`, `SpentIsGone`). A
document in the cache, or in an answer to come, was current no earlier than the
time it is stamped with (`CacheSeen`, `AnswersSeen`), and no request waits
longer than `Patience` (`Waits`). The stamp of the last check is behind the
youngest ended one by one wait at most (`StampIsLate`).

`LogViewsProofs` proves, for any logs, filters, size of page and length of a day
(`LogTableAssumption`, `PagesAssumption`, `ReportsAssumption`):

| Theorem | States |
|---|---|
| `NothingIsSkipped` | a trail passes over no log that stays and shows none twice |
| `CursorsAreRight` | a cursor is offered exactly where there is more (action property) |
| `StreaksAgree` | a streak is the number of failures since the last success, and fits the card's status and days |

`TrailInv` adds that all that was shown lies behind the cursor (`TrailBehind`)
and that what the client still has to see matches its filters. The order of
logs is total (`OrderFacts`), a page has a last row (`LastExists`, by
well-foundedness of the naturals and finiteness), and all rows of a page lie
before the rest (`PageFacts`). A query lists each of its rows once
(`InOrderFacts`: the number of rows before a row is an injection into 0..n-1,
hence onto). `Counted` is the invariant of the loop of streaks: for each source
the streak is the size of its run of failures among the rows read so far, which
an older row joins only while the source is not closed (`CountStep`).

`CatalogueProofs` proves, for any uploads, size of a batch and catalogues of the
older version (also `CatalogueAssumption`, `LegaciesAssumption`):

| Theorem | States |
|---|---|
| `ViewsTypeCorrect` | `TypeOK`: no item refers to a log that is gone |
| `PresentIsLast` | an item is present exactly if the last recorded log that speaks of it transfers it |
| `SightingsKept` | no step loses an item or its first sighting; the migration leaves no phantom (action property) |
| `AllReportsAgree` | summary, statistics, export, source list and media summary agree, whatever order ties get in each request |

`PresentIsLastSent` speaks of the last log only through `CHOOSE`, so
`CatalogueInv` says it of every log that all others that speak of the item come
before (`LastDecides`), and that the order of recordings is strict with a last
element in every set (`ToldOrder`). `RecordKeeps` is the step: the recorded log
is now last, it decides of all it speaks of, and of the rest `RetireMedia`,
`BroughtBack` and `Insert` touch nothing. Until the migration has run nothing
else has; `RepairInv` says what has become of the phantoms repaired so far. It
needs the third part of `LegaciesAssumption`: a phantom whose key is the key of
another phantom's path has that key itself, or the repair of the first would
remove what the other was merged into. The media summary needs that the
catalogue is finite, which is why `AllReportsAgree` stands here. Its sums rest on
`GroupsAddUp`: the sizes of the groups of a finite set add up to its size; its
export on `NoneLater`: two lists of the same rows by start have equal starts at
every place, or more rows than places would come before one (a pigeonhole).

The folds of the code (the batch of the back-fill, the chain of repairs, the loop
of streaks) are reasoned about without induction over data: `FoldIsChain` shows
that `FoldLeft` with the operator `Op` is the end of a chain of applications of
`Op`, and `UpTo`, which follows from the well-foundedness of the naturals, carries
a property along the chain, as a set of indices.

Only model-checked: all liveness (`DispatchEnds`, `RequestsReturn`), since
temporal reasoning under fairness and ENABLED is out of the prover's reach; and
the six violated properties, of course.

## What the checks found

The six violated runs are disagreements between the code and its own documents,
quoted in PROJECT.json:

- failure counts lost when dispatches overlap;
- delivery logs discarded by an exception or a rollback;
- a counter that a manual re-enable leaves at the threshold, although
  `specs/webhook-service.md` says it is reset: one more failure switches the
  hook off again;
- a second synthetic monitor;
- a purge that is never committed;
- a second stale event for an outage of more than 30 days, although the checker's
  docstring and `specs/failure-detection.md` promise one until the source syncs.

Others were met while modelling and have no run of their own. A log that is
delivered late moves `last_sync_at` back, which `specs/failure-detection.md`
defines as the most recent sync, so a source can be reported although it has
synced in time; `StaleIsTrue` claims only what holds. `create_monitor` leaves
`last_sync_at` empty for a source that has synced, and the checker passes over
the monitor as "never synced" until the next sync. Nothing in `app/` calls
`check_stale_sources`, although that document promises a scheduler. Rows of an
export that start at the same time may repeat or be missing over two requests.

## Plan

Done, in this order: `WebhookDispatch` with `HookBreaker`; `SyntheticMonitor`;
`FailureDetection`; `Accounts`; `LogViews` with catalogue, pages and reports;
`ProcessMemory` with OIDC login and update check; proofs about all of them, and of
every safety property the passing runs check.

Left, most useful first:

1. The connection pool beside long dispatches. A session returns its connection
   at commit and takes another at its next statement, which has to be read out
   of SQLAlchemy first.
2. A composition of ingestion, dispatch and synthetic monitor, in which a check's
   failing POST and its alert meet other dispatches.
3. API keys without an owner, their expiry and the debounced `last_used_at`.
4. The backup script killed in the middle of a dump: the partial archive counts
   for `--keep`.

## Not modelled

- Text: what regular expressions find in a line or a name (an attribute of the
  path in `MediaClassifier`), transfer numbers, rendering, payloads, the CSV of
  an export, the changelog, versions of releases. They hold no state whose order
  matters.
- Reads that promise nothing to relate: the deprecated listing by offset, single
  rows, averages and byte sums of the reports, `_stale` of the health answer.
  `apply_sync_filters` has no caller in `app/`.
- Nothing in `app/` calls `check_stale_sources`, so that it runs at all is not
  stated; `CheckStale` runs at any time. Nothing resumes the dispatch of a
  failure that was stored before a crash, so that every failure is notified is
  not stated either.
- The client id, audience and signature of tokens; the single rows of SMTP
  settings; outgoing mail; middleware and the counters of slowapi and
  Prometheus, which are per request or third-party; the frontend; schema
  migrations other than the phantom repair; demo data; backup and restore.
- Several server processes: the container starts one. What the server does while
  a batch of the back-fill is under way, which is a process of its own. Database failures other
  than broken foreign keys, and the exhaustion of the connection pool.
- Durations are abstracted to order, except in `FailureDetection` and
  `ProcessMemory`, where a clock of small integers stands for them.
