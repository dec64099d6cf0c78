# TLA+ models of claude-subscription-proxy

The proxy serves the Anthropic and OpenAI HTTP APIs from Claude Code
subscription accounts. A FastAPI process (the *main process*) routes every
request to one of a pool of *workers*; a worker is a subprocess that runs the
real `claude` CLI in a PTY behind its own mitmproxy, and puts the request's body
into the call the CLI makes. The main process talks to a worker over two pipes
of JSON lines. Everything in the main process and in a worker runs on one
asyncio loop, so an action of the models is one stretch of a coroutine between
two awaits.

This directory holds the specifications, their TLC configurations, the TLAPS
proofs, and `PROJECT.json`, which maps every definition to the lines it stands
for. Paths below are relative to the repository root of the sources (`src/` in
`PROJECT.json`).

## 1. Inventory

| Component | State | Operations | Hard parts |
|---|---|---|---|
| Account rate-limit table, `src/session/manager.py:17-562` | one `AccountIssue` per account (kind, reason, until, pinned), backoff streak per account | inferred mark with cap or backoff, degraded mark, authoritative mark, clear, demotion on success, expiry on read | evidence of many sibling workers merged in any order; stale successes; one 429 detected twice |
| Session, `src/session/session.py`, `state.py` | the asyncio lock, table of response channels, reader task, keepalive task, subprocess and its return code, failure streak, forced-restart flag | `call`, `_submit`, `_read_loop`, `stop`, `restart`, forced restart, keepalive, `probe_quota` | restarts against callers, late exit status, dead reader with a live worker, failing spawns |
| Worker choice, `manager.py:639-901` | round-robin indices, session affinity | `pick`, `pick_excluding`, bind, expire, prune | awaits between reading the state and choosing |
| Anthropic endpoint, `src/api/anthropic.py` | per request: attempt, primary and backup channel, who reads which | affinity wait-and-retry, hedged open, loser drain, delivery with synthetic events | race of two first-byte readers, one end marker per channel, exceptions half way |
| Manager lifecycle, `manager.py:564-624, 903-1344` | session table, manager lock, next port | `get_or_create`, `spawn_account`, `stop_account`, `start`, `stop`, `_restarter` | two lock levels, revive, dropped sessions |
| Worker, mitm addon, PTY driver, `src/worker.py`, `src/mitm/addon.py`, `src/pty_driver.py` | pending slot, response slot, active flow, per-flow watchdog, event queue, TUI modals | trigger, hijack, tap, 429 event, stall watchdog, intercept timeout, `/usage` probe | late calls of the CLI, two flows at a time, timeout against late bytes |
| Quota probe, `src/quota_probe.py` | snapshots, attempt floor, cooldown and 429 streak per account, a file | start-up walk, periodic walk, `probe_now`, `record`, `record_429`, register, unregister, load, save | restart in the middle of a cooldown, a list that changes under the walks, late answers |
| OAuth refresher, `src/oauth_refresh.py` | credentials files, the loop and who holds it | tick, refresh-now, atomic write, enable and disable by a reload | single-use refresh token, several refreshers, crash before the rename, accounts deleted meanwhile |
| OAuth login, `src/oauth_login.py` | one login flow per account, the registry's lock | begin, finish, abort, sweep | flow popped before it is through, pool read before the lock |
| Configuration, `src/config.py` | `config.yaml`, the overlay `accounts.runtime.yaml`, the live accounts and pools | load, validate and wire, write the overlay | whether what was written can be loaded |
| Admin API, `src/api/admin.py` | configuration in place | reload, restart worker, set and clear mark, add and delete account | reload, finish and deletion against each other and against running requests |
| Account quota, `src/account_quota.py` | (nothing imports it) | | |
| OpenAI adapter, `src/api/openai.py`, `translate.py` | per stream: open block, tool index | event-by-event conversion | order of events |
| Usage store, auth, status, dashboard, container scripts | files, SQLite, none | queries, look-ups | none that a model checker would find |

How they interact: a request goes endpoint → `pick` → `ClaudeSession.call` → pipe
→ worker `call` → PTY trigger → addon hijack → upstream; bytes come back through
the addon's tap, the worker's channel, the pipe and the read loop into the main
process's `ResponseChannel`. The read loop calls back into the manager (usage,
rate limit, quota) *before* the chunk reaches the endpoint, and these callbacks
change the table `pick` reads. The endpoint reports the outcome to the session
(`mark_request_success`, `mark_intercept_failure`), which may spawn a forced
restart. The admin API changes two dicts, the accounts and the pools, which
routing, the manager and the next start read; the refresher writes the credentials
files that logins and deletions create and remove; the quota probe types into idle
workers and takes its answers from their events. Scheduled, operator's and
reviving restarts, keepalive, the quota probe and `stop_account` meet at the
session's lock.

What makes each component correct, in one line: the table blocks an account as
long as the evidence says and no longer; a session never forgets a caller and
never has two restarts; the endpoint answers every request once, drains what it
drops and tells each worker's health from its channel only; the choice respects
limits, binding, tier and load in that order; a worker answers each call with
the bytes of that call; a single-use token is never lost or put back; what the
admin API leaves on disk can be started from, and keeps the accounts that were
logged in; the usage endpoint is left alone for as long as it asked.

Observations that are not properties of a model: `ClaudeSession` has no attribute
`pty` (the PTY lives in the worker process), so the TUI-busy test of `pick`
(`manager.py:771`, `:796`) never applies in the main process and the models leave
it out; the endpoints that add and remove accounts tell the quota probe, a reload
tells nobody (`admin.py:1014-1041`), so the accounts it adds are not probed before
the next start; a finish whose pool has been deleted meanwhile answers 400 after
the credentials were installed (`admin.py:497-504`), and the name can then be
neither used nor logged in again without an operator; the repository's README
section 2.3 speaks of quota lanes, but a saturated `seven_day_sonnet` window
blocks the whole account (`quota_probe.py:357`).

## 2. Modules

| Module | Contents |
|---|---|
| `RateLimitTable` | the table with its writers: addon headers, body scan, success, spawn failure, probe, operator, expiry; the clearing when an account is stopped for good (`manager.py:1065`) is not one, the account being gone |
| `RateLimitTableProofs` | its theorems |
| `ReplyChannels` | abstract promise to a caller: bytes, one end, nothing more; eventually an end |
| `Session` | one `ClaudeSession` and every task that touches it; refines `ReplyChannels` |
| `SessionProofs` | its theorems |
| `WorkerChoice` | the layers of `pick` as sets of workers |
| `RequestPath` | requests through retry, hedge, drain and delivery; extends `WorkerChoice` |
| `RequestPathProofs` | its theorems |
| `ManagerLifecycle` | the table of workers, the manager's lock and every session's lock, and all tasks that create, revive, restart or remove a worker |
| `ManagerLifecycleProofs` | its theorems |
| `PtyDriver` | the driver of the terminal: what its buffers remember of screens that are gone |
| `WorkerMitm` | one worker process: calls, the lock, pending and response slot, hijacked flows, tap, watchdog, timeout, `/usage` probe; extends `PtyDriver` |
| `WorkerMitmProofs` | its theorems |
| `OAuthRefresh` | refresh loops and forced refreshes over files of single-use tokens |
| `OAuthRefreshProofs` | its theorems |
| `Accounts` | logins, deletions, reloads, restarts over `config.yaml`, the overlay and the live configuration |
| `AccountsProofs` | its theorems |
| `QuotaProbe` | the walks, the gates of each account, and the file that keeps them |
| `QuotaProbeProofs` | its theorems |
| `MC*` | symmetry sets and functions for TLC |

**RateLimitTable.** `issue` is `_account_rl`, `streak` is `_rl_streak`,
`inflight` are the requests being served, `det` the detections (event from the
headers, body scan) still on their way through the pipe, `stated` is a history
variable: the latest reset an authority gave. One 429 gives up to two
detections, handled in any order and arbitrarily late; the handlers are
`HandleEvent`, `HandleBodyReset`, `HandleBodyHint`, `HandleBodyBare`. Windows
are small integers that keep the order of the code's constants (floor < 6 h ≤
36 h < two weeks, base ≤ cap). Wall and monotonic clock advance together.

**Session.** `lockq` is the asyncio lock as its FIFO (the head holds it), `pc`
the place of each task, `proc` what `self.proc` and its `returncode` show,
`registered` is `_channels`, `owed` the requests the process has taken and not
ended, `chan[c]` what was put on the queue of channel `c`. The pipes are folded
into the worker's steps. `Faults` names what may go wrong: the worker dies
(`crash`), its exit status arrives after its EOF (`late_reap`), the
read loop raises (`reader`), a spawn fails or is not ready in time (`start`) or says
something else than ready (`bad_line`), the account is retired (`retire`). `start()`
waits for none of the processes it gives up: a worker it has killed may still show
no exit status when the lock comes free, and takes a request. The draining loops that wait
before a restart (up to `restart_drain_seconds`) are a matter of time only: a
restart may begin whenever it has the lock, with or without open channels.

**RequestPath.** `chan[h]` is what the worker did on channel `h`, `role[h]` who
reads it (first-byte task, loser drain, handler), `taken[h]` how far that reader
got, `counted[h]` what was reported to the session, `cool` the cooldown of each
account in three classes (none, at most the wait cap, longer), `affinity` the
binding. Workers appear through their channels only; `Session` is where their
insides are. A client may go away while it is streamed to (`Disconnect`): the server
cancels the generator, and the channel stays as it is. `PickCooldown` says whether
`pick` spares workers that have just closed a channel.

**ManagerLifecycle.** A session object is `<<u, g>>`, the `g`-th made for user
`u`, because the code drops sessions from the table while other tasks still hold
them. `table` is `self.sessions`, `mlockq` the manager's lock, `lockq[o]` the lock
of object `o` (both FIFO, head holds), `proc[o]` its process as `self.proc` and
`returncode` show it (`dying` is terminated or killed and not yet reaped: the code
takes it for alive), `warm[o]` whether the process had its prewarm. A task is at
one place (`pc`) and works on one object (`mine`). The steps `RestartBegin`,
`RestartStopped`, `Exec`, `Ready`/`ActorFails`, `PrewarmEnd` are shared by the
request that revives, `spawn_account`, the restarter and the operator;
`ColdReady`, `ColdFails` and `ReviveFails` are the request's own, `ForceReady` the
forced restart's. `Exec` may fail, too, before there is a process (`Fails` with
`proc` still none): a request, `spawn_account` and the restarter then drop the
session, the operator's and the forced restart leave it without one (place
`aborted`). What happens inside a session in the meantime is `Session`'s business.

**PtyDriver.** A screen's text is one mark, the name of the screen; `recent` and
`tail` are the 4 KB and 16 KB buffers as sets of marks, `snippet` says that a limit
text is frozen, `passed` that the date it names has gone by. The CLI shows what it
likes, when it likes. `Drain` is one chunk read, with the dismiss key debounced or
not; `ForceDismiss` what `trigger` does before it types. Of
the run's properties none reads `snippet`, `passed` and what `worker.py` reports of them;
they are there for `NoStaleLimit` of section 4.

**WorkerMitm.** `lockq` is `WorkerSession.lock`, `pending` and `response` the two
slots, `chan[r]` the queue of call `r` (identities of flows, then the end marker),
`flows` the hijacked flows with the body they carry and the channel they write to,
`active` `_active_flow_id`, `got[r]` what went to stdout under the id of `r`. The CLI
may call at any moment, also for a placeholder typed long ago, and what it had
written when it died still arrives (`Hijack`). A call whose `trigger()` raised is
`failed`, and its body stays in the slot. The
timeout and the hijack may meet in one round of the loop (`Expire`, `GiveUp`).

**OAuthRefresh.** A token is an account, a login and a generation; the endpoint
(external) takes a valid one once and issues the next. `Send` reads the file and
posts; `Grant` is the endpoint's side; `Write`, `WriteFails`, `AnswerLost`, `Refused`
are what comes of it. `Boot` is the loop of the start, `Reloads` are loops that
`/admin/reload` starts, `Requests` are `refresh-now`. `lost` keeps the tokens that
were issued and reached no file.

**Accounts.** `yaml` and `overlay` are the two files, `accounts` (name to pool
tag) and `users` (key to workers) the two live dicts, `cred[n]` whose login the
directory of `n` holds. `Load` is `Config.load` with `_wire_accounts`, as a
function of the files, and `DbPath` whether config.yaml has a `usage.db_path`: the
overlay is written beside the database in use and `Read` beside the one
config.yaml names, so that without a name no start finds it. A process whose files
do not load is not `up`. A finish is asked, waits for the registry's lock, pops
the flow, exchanges the code, installs and wires in one stretch, and spawns; a
reload keeps the configuration it read in `reload.new` and works it off await by
await. An account has one worker, named like the account.

**QuotaProbe.** `cool`, `streak`, `floor`, `soft` are the gates of each account as
what is left of them, `file` what was written of them, `at` and `idx` the place of
the two walks in the live list, `pending` the probes whose answer is on its way.
`owed` and `row` are history: what the 429s the tracker was told of ask for since the
account's last success or its last entry. A restart reads the file, or nothing if it
is not readable (`saved`); a cooldown path that is not set acts like writes that
all fail. `RefusedUnheard` is the 429 of a session created on demand, which the
tracker is not told of.

## 3. Runs

Passing runs, all of them exhaustive on their instance:

| Run | Instance | What it shows |
|---|---|---|
| `rate_limit` | one account, two requests in flight, reset windows 1 and 4, clock to 2 | whatever the order of detections, successes, spawn failures, probes and operator's acts: an inferred mark never outlasts the middle band from its evidence (`InferredBlockBounded`), weekly evidence an authority stated stays in force (`WeeklyEvidenceHolds`), only a completed chat or an authority weakens a block (`OnlyEvidenceWeakens`) |
| `session_safety` | two callers, one managed restart, forced restart, keepalive, probe, `stop_account`, every fault | a waiting caller is always in the table that will be flushed (`NoLostWaiter`), a live worker owes what its session waits for (`LiveWorkerOwes`), the prewarm is the first request (`PrewarmFirst`), one restart, forced or of the manager, at a time (`OneRestart`), flag, streak and task of the forced restart agree (`ForceFlag`, `StreakActedOn`), each reply is bytes, one end, nothing more (`RepliesSafe`) |
| `session_live` | the same with crashes and spawns that fail, time out or begin with a wrong line, without `late_reap`, `reader` and `retire` | every reply that waits while a read loop is attached ends (`HeardReplyEnds`; every reply does not: `RepliesEnd` below), every queued caller gets the lock (`QueueServed`), forced restarts end (`ForceEnds`) |
| `request_safety` | a request with a conversation key and two attempts, pools of one and of two workers in two accounts, failing spawns, marks by other requests, a client that may go away | each channel's outcome is counted once and as what it showed (`CountedRight`), every channel whose end is to come has a reader, but for the primary of a hedge that raised and the answer of a client that left (`NeverAbandoned`) |
| `request_live` | the same with two workers of one account and without the cooldown of `pick` | every channel of both attempts is read to its end, but for those two (`EveryChannelDrained`), a client that stays is answered unless the winner closed empty (`AnsweredUnlessEmpty`) |
| `lifecycle` | one user, two requests, any two of `spawn_account`, restarter, operator, forced restart and `stop_account`, one spawn that fails before or after there is a process, one crash | a session that is still being started is locked by the task that starts it, but for one an operator's or a forced restart could not exec a process for (`PlaceholderLocked`), a user nobody dropped has one worker (`OneWorker`), no request meets a worker the manager has not prewarmed (`WarmFirst`), the two levels of locks never block for ever (`RequestsEnd`) |
| `worker` | two calls and two hijacked flows, the `/usage` and the limit screen, a CLI that may die | each call gets the bytes of its own flow and no body is sent twice (`OwnReply`), a call that reads can come to its end (`AlwaysACloser`), no body leaves for a call that has its response or has timed out (`NeverSentLate`) |
| `refresh` | two accounts, one of them deleted and logged in again, read-only directories, the start's loop, a reload's and a forced refresh, one crash | a file holds a valid token or its successor is about to be written, unless a fault took that answer (`TokenKept`), no older token comes back (`NeverBack`), what is due is refreshed (`DueRefreshed`) |
| `accounts` | an account of `config.yaml` and one of the dashboard, whose name extends the other's and which may be entered or only wired in `config.yaml`, two flows, one finish, three edits, deletions, reloads or restarts | if the files do not load, `config.yaml` itself is to blame, and the live pools have accounts (`ConfigValid`), a finished login stays (`NeverDropped`), an account joins the pool its own login named (`InstalledAsChosen`) |
| `quota` | two accounts that come and go, one without an idle worker, one restart that may not read the file, writes that fail | no probe is sent before the time is over that the 429s the tracker was told of ask for, over restarts that read what was written (`CooldownKept`), each registered account is attempted again and again (`EveryAccountProbed`) |

Refuting runs, each of one claim of a docstring or comment (`findings` in
`PROJECT.json` has the quotations):

| Run | Claim refuted |
|---|---|
| `stuck_ping` | keepalive discovers a stuck worker: when the read loop has died and the process has not, the ping itself waits for ever, with the lock |
| `quota_soft_skip` | a restart within `tick_seconds` of a success does not probe the account: it does, from 60 s on |

**Bounds.** One account is enough for the table, because no operation reads two
accounts. Two requests in flight and a clock to 2 let a mark be set, expire and be
set again while the evidence of an earlier request is still on its way; the
windows include one below each threshold and one above, so each label and each cap
occurs. Two callers and one managed restart next to the forced one, the keepalive
and the probe are what the lock hazards need (a holder, a waiter and one to
overtake it); the threshold of forced restarts is the code's 2, reached by two
callers or by a caller and a ping. Two accounts of different priority and two
workers give a primary and a backup, the one-worker pool the case without backup;
two attempts contain a retry after a drained 429. `request_live` keeps both
attempts and leaves out the second account and the cooldown of `pick`, which
decide who gets a channel and not who reads it. In `lifecycle`, each actor acts at
most once and at most two of them do (`MaxActors`), which is every pair of them in
every order against two requests; with two users, two requests and `MaxActors = 1`
the same properties hold. Four generations of objects (`MaxGen`) are more than one
failure and these tasks can make. Symmetry is used for callers and for requests of
the table, in runs of safety properties only. In `worker`, two calls are a holder
and a waiter, or an answered and a pending one, and two flows one that lost the
tap and one that took it; the other screens (`busy`, `modal`) act on the driver as
`usage` does, by forcing a dismissal, and calls are interchangeable (symmetry). In
`refresh`, a token comes due once per login (`MAX_GEN`), which is enough for two
refreshers to hold it; only one of the two accounts is logged in twice (`Again`).
In `accounts`, `MAX_OPS` counts edits, deletions, reloads and restarts together;
three contain delete, restart, reload in every order. `DbPath` is TRUE; with FALSE
the run passes too, and `NeverDropped` says nothing. In `quota`, a unit of time is
about a minute in the order floor < tick and base < cap; `MAX_STREAK` is where the
cap is reached. Deadlock is not checked: callers and restarts are single shots and
the clock has an end, so every instance may stop.

**Fairness.** The loop runs every ready coroutine: weak fairness on every step
that needs no fault and no new client. A live worker ends every request, because
the intercept timeout and the stall watchdog do (`worker.py:105`, `addon.py:224`);
a spawn ends within `worker_ready_seconds` (`session.py:214`), a prewarm within
`prewarm_seconds` (`manager.py:1238`); a terminated or dead child is reaped
(`stop()` kills after 5 s). Nothing is assumed of clients, crashes, operators,
marks or of the moment a restart is requested; `ScheduledSpec` adds that the
manager's restarter gets to the session, to show that even this does not free a
stuck ping. `session_live` excludes a dead reader and the late exit status of a
worker that crashed, because with them queued callers do hang (`stuck_ping`;
`DeadWorkerFlushed` below); the late exit status of a worker that was not ready in
time it does not exclude, and asks for the end of the replies that somebody reads.
`EveryChannelDrained` makes an exception of the one channel `LeftBehind` names,
for the reason given below. In `lifecycle` the lock of a session comes free in
finite time; the stuck ping that would hold it for ever is `stuck_ping`. In
`refresh`, a POST ends (httpx bounds each wait for the endpoint by 30 s,
`oauth_refresh.py:236`, and not the whole; an endpoint that sends its answer byte
by byte for ever is left out) and an endpoint asked for an account again and again
grants it at last: strong fairness on `Grant` per account, for otherwise a refusal
for ever would be a behaviour. Requests, reloads and deletions need not happen. In
`quota`, time passes and the walks go on; nothing is assumed of answers, so that
the attempts are due to the walks alone.

## 4. What comments say and the code does not do

While the models were written, several statements of docstrings and comments
turned out not to be what the code does. Two have a run (section 3). The
others are definitions at the end of their module; each is violated within
seconds when it is named as the only INVARIANT or PROPERTY of the configuration
in the second column (without SYMMETRY).

| Definition | Configuration | Code, and the statement it does not keep |
|---|---|---|
| `SuccessProvesStale` | `RateLimit` | `manager.py:424` clears the mark on any 200; `manager.py:411-412` "the 200 response proves the inferred mark was stale or spurious". The 200 may be of a request sent before the 429 that set the mark. |
| `BackoffNeverFallsBack` | `RateLimit`, one request, `MaxTime = 4` | `manager.py:221` takes a gap above the cap for a recovery; `config.py:127-129` and `README.md` promise 120 → 240 → 480 → 600 (cap) while the account keeps failing. After a cooldown of cap length the gap is above the cap, and the sequence starts again at 120. |
| `TimedResponseSkipsBackoff` | `RateLimit` | `session.py:582` escalates from a body without a time; `config.py:129-130` "Parsed-reset ... 429s carry an authoritative window and skip this entirely". The headers of the same response may have carried the window. |
| `PinnedMeansStated` | `RateLimit` | `manager.py:291-316` extends a pinned mark in place with inferred data; `manager.py:49-53` "True iff the mark came from an authoritative source". |
| `ProbeNeverShortens` | `RateLimit` | `quota_probe.py:392` overwrites; `quota_probe.py:384-388` "we never call it with a SHORTER until than what's already there". |
| `DeadWorkerFlushed` | `SessionSafety` | `session.py:403` tests `returncode`, which is set after the end of file; `session.py:501` "If worker died, flush every waiting channel". A submit in between registers a channel nobody flushes. |
| `RepliesEnd` | `SessionLive` | `session.py:217-221` kills a worker that is not ready in time and raises without waiting for it; `session.py:206-207` "wait for it (with timeout) so a hung worker doesn't block the API request indefinitely". The next caller in the queue finds no exit status yet, is accepted, and waits for a process nobody reads; the same after a wrong first line, where the process is not killed at all. |
| `ForcedByWorker` | `SessionSafety` | A restart ends the open replies empty and their handlers count them (`session.py:776-778` "mitm intercept timeout / watchdog early close"), so a restart may set off a forced restart of the new worker. |
| `RetiredIsStopped` | `SessionSafety` | `manager.py:1050` gives the lock back before `stop()`; `manager.py:1026-1027` "Drain + stop every worker". A restart that waited for the lock spawns a worker for the session that is dropped. |
| `NoOrphan` | `Lifecycle` | The same over the table: also a placeholder of `spawn_account` whose process does not exist yet is dropped by `stop_account`, then started. Its process has no entry. |
| `OthersUnaffected` | `Lifecycle` | `manager.py:595` waits for a session's lock with the manager's lock held; `manager.py:566-570` "this keeps the prewarm window short (other users unaffected)". When the holder of that lock is in a spawn or a prewarm, the requests of every user wait for it. |
| `OnlyDeadRevived` | `Lifecycle` | `manager.py:583` is tested before that wait and not after it: the request restarts a worker that somebody else has just started, terminating it. |
| `AlwaysWarm` | `Lifecycle` | `session.py:811` restarts without a prewarm; `manager.py:1264-1265` "By running this dummy call at startup / restart / revive, the burst happens while no user is waiting". |
| `PinnedNeverSpreads` | `RequestSafety` | `anthropic.py:187` picks a backup without regard to the binding; `anthropic.py:298-300` "retries on the SAME account, rather than re-routing", `:39` "never spread". |
| `NoneMeansBothFailed` | `RequestLive` | `anthropic.py:217` takes the first reader that completes, and one that saw an empty close is complete; `anthropic.py:165-166` "If first_chunk is None ... both attempts (or the only attempt) failed". The backup that would have answered becomes the loser. |
| `ZeroBytesAnswered` | `RequestLive`, `SPECIFICATION FairSpec` | `anthropic.py:256` iterates a queue whose only end marker the first-byte reader has taken; `anthropic.py:377-387` promises a synthesised reply for "zero bytes ever". The client gets neither that nor an end. |
| `HijackedIsTapped` | `Worker` | `addon.py:559` taps the active flow only; `addon.py:200-202` "keeps a stale flow that times out late from clobbering a fresh hijack". The fresh hijack takes the tap from a response whose headers are still to come. |
| `TimedOutMeansUnsent` | `Worker` | `worker.py:107`: the timeout may fire in the round of the hijack; `worker.py:110` "mitm never saw a /v1/messages it could claim". The body was sent, its reply is not read. |
| `NoStaleLimit` | `Worker` | `pty_driver.py:601-635` freezes the text of a limit screen for good; every later intercept timeout reports it again, and a date that has passed is read as next year's. `session.py:657-661` "defends against a parse that yields a stale-past timestamp". |
| `OneLoop` | `Refresh`, two reloads | `admin.py:949-956` awaits `initial_refresh` before it registers the loop; `oauth_refresh.py:18` "the main process becomes the SOLE refresher". Two reloads that overlap leave a loop nobody can cancel. |
| `LoginKept` | `Refresh` | `oauth_refresh.py:112` writes the whole file as it was read before the await; `oauth_refresh.py:58` "single-writer per account". An account deleted and logged in again gets the token of its old login. |
| `ForcedReachesAll` | `Refresh` | `oauth_refresh.py:80-91` has no handler around a write that raises; its docstring counts "any error" as failed. The remaining accounts are left out. |
| `EveryAccountWatched` | `Accounts` | `main.py:127` fixes the paths at the start; `oauth_refresh.py:24` "walks every configured path each tick". An account logged in later is not refreshed before a restart. |
| `NothingClobbered` | `Accounts`, two finishes | `oauth_login.py:289-316` installs into whatever directory is there; `admin.py:428` "already has contents — refuse to clobber". The test is made at begin only. |
| `DeletedIsGone` | `Accounts` | `admin.py:605` drops the account from memory and the overlay; `admin.py:587` "account is gone for good". One that `config.yaml` lists is back after a start, without credentials. |
| `NoStrayWorker` | `Accounts` | `manager.py:605` creates the worker of any listed name; `config.py:238` "otherwise the worker would have no account to symlink to at runtime". It may do so while the account is being deleted. |
| `DisjointPools` | `Accounts` | `config.py:249-252` gives the pool of the api key every account; `admin.py:684` "Pools are account-disjoint". An account tagged with another key is in both after a start. |
| `PrunesOwn` | `Accounts` | `admin.py:607` prunes by the prefix `name-`; `config.py:344` "account names themselves may contain hyphens". Deleting `a` takes the workers of `a-b` out of the pools. |
| `LoginSurvives` | `Accounts`, `DbPath = FALSE` | `config.py:422-425` looks for the overlay beside `/data/proxy/usage.db` when config.yaml names no database, `config.py:378-380` writes it beside the default `./data/usage.db` (`config.py:77`); `admin.py:538-539` "so the account survives container restarts without manual config.yaml edits". (`src/README.md` gives the first path as the default of `usage.db_path`.) |
| `StillStarts` | `Accounts` | `config.py:279-289` refuses a config.yaml that lists a worker without an account; `admin.py:391` "operator wires manually in config.yaml", `:585` "Stop all workers for an account and remove it from config". After the deletion of an account wired by hand the process no longer starts. |
| `RefusalsHeeded` | `Quota`, `SPECIFICATION Spec` | `manager.py:609-616` builds sessions without the 429 callback; `session.py:690-691` "so QuotaProbeService can record a cooldown and stop hammering", `manager.py:467` "so the service can put the account into cooldown". A 429 met by such a session is dropped. |
| `NoAmnesty` | `Quota`, `SPECIFICATION Spec` | `quota_probe.py:186` drops an expired cooldown with its streak; `quota_probe.py:245` a rebuild "can't amnesty an account out of the compounded backoff". |
| `DeletedForgotten` | `Quota`, `SPECIFICATION Spec` | `quota_probe.py:447` records for any name; `quota_probe.py:419` "drop its state". An answer that comes late brings the gates of a deleted account back. |

Two more show as the exceptions (`LeftBehind`) in `NeverAbandoned` and
`EveryChannelDrained`. When the second of the two opens raises (`anthropic.py:207`),
the handler ends with an exception and nobody reads the first channel, although
`anthropic.py:151-152` says the loser "gets drained in the background". When the
client of a stream goes away, `gen()` (`anthropic.py:374-463`) is cancelled and nobody
reads the rest of the answer. The exception in `PlaceholderLocked` is of the same
kind: `admin.py:183-189` and `session.py:802-818` give the lock back over a session
whose exec has failed, and leave it in the table without a process until the next
start; so is that in `NeverSentLate`: `worker.py:103` raises with the slot filled
(`worker.py:247-251` answers with an error), and a request the dying CLI had already
written takes the body.

## 5. Proofs

For any sets of accounts, requests and windows that satisfy the assumptions of
`RateLimitTable` (thresholds ordered, caps inside the middle band; the code's
constants satisfy them):

- `TypeCorrect`: types.
- `InferredBounded`: `[]InferredBlockBounded`. Not inductive by itself, because an
  event on its way may carry a window: `InferredInv` adds that a pending event
  that is not weekly lies in the band, and that no mark is dated ahead.
- `EvidenceWeakens`: the action property `OnlyEvidenceWeakens`. The lemma
  `MarkedNotWeaker` (a merge never weakens a mark in force) does the work,
  `DetectionIsMark` summarises the handlers.
- `WeeklyEvidence`: `[]WeeklyEvidenceHolds`, from the same lemma and the
  promote-only label.

For any callers, restarts, threshold and set of faults of `Session`, retirement
included:

- `TypeCorrect`, with the bound of one end per channel. The invariant `Inv` adds
  `ChannelInv` (a channel in the table has no end yet, otherwise a flush would
  give it a second one) and `LockInv` (who restarts, prewarms, pings or probes
  holds the lock).
- `NoWaiterLost`: `[]NoLostWaiter`.
- `RestartsSafe` (`[]OneRestart`), `PrewarmComesFirst` (`[]PrewarmFirst`),
  `WorkerOwesItsOwn` (`[]LiveWorkerOwes`), from one invariant: `RestartInv` adds
  `WorkerInv`, that between two workers nothing is owed or registered, although
  `stop_account` runs without the lock. `OneHolder` gives mutual exclusion.
- `ForcedOnce` (`[]ForceFlag`) and `StuckWorkerRestarted` (`[]StreakActedOn`).
  `StreakInv` ties the counter to the flag; `CountStep` says what one counted
  failure does to both, `StreakStep` lifts it to every step.
- `ImplementsReplies`: every step is a step of `ReplyChannels` or a stutter; the
  flush of the table is `CloseAll` (`FlushCloses`).

For any accounts, forced refreshes, reloads, logins and crashes of `OAuthRefresh`:

- `TypeCorrect`, `TokensKept` (`[]TokenKept`), `NeverPutBack` (`NeverBack`). All three
  come from one invariant, `RefreshInv`, about who may hold which token. Of each
  login the endpoint takes one token, the newest there is (`FrontierInv`); its
  predecessor may be in many hands, but only one actor has spent it
  (`GrantedInv`), and until that actor has written the answer nobody else has
  seen the new token, nor ever sees one that was lost (`UnseenInv`). A file keeps
  the token of its own account (`PathInv`), and a login starts a number nobody has
  used (`LoginInv`). `Quiet` treats the steps that move no new token, `GrantRotates`,
  `WriteRotates`, `LoginRotates` the three that do. The parts of `RefreshInv` range
  over the infinite set `Token`: the run checks `TokenKept` and `NeverBack` only.

For any calls, flows and screens of `WorkerMitm`:

- `TypeCorrect`, `RepliesOwn` (`[]OwnReply`), `CloserExists` (`[]AlwaysACloser`),
  `LateCallsHarmless` (`NeverSentLate`). The slot, the response channel and the
  active flow are one variable each for all calls. `LockInv` says that a call
  which has filled the slot and not begun to read holds the lock, with the
  response channel its own; `SlotInv` that a filled slot is of that call, or of
  one whose trigger failed; `FlowInv` that a hijack pairs body and channel for
  good, once per body; `ChanInv` that a channel has only what its flow mirrored;
  `CloserInv` that a call which reads has its end or a flow that will put one,
  also when the timeout and the hijack met. `ChannelStep` says what a step may do
  to a channel.

For any users, requests, actors, failing spawns and dying workers of
`ManagerLifecycle`:

- `TypeCorrect`, `PlaceholdersLocked` (`[]PlaceholderLocked`), `OneWorkerEach`
  (`[]OneWorker`), `WarmBeforeServed` (`WarmFirst`). Two kinds of lock protect a
  user's worker, and a creation takes one, a restart the other. `MLockInv` says
  that whoever decides about the table is the holder of the manager's lock, and
  `LockInv` that whoever is in the queue of an object's lock is at a place that
  says so; `ColdInv` that nobody but its creator knows an object that is not in the
  table yet; `KeptInv` that, as long as nobody dropped a user's session, every task
  works on the one in the table. `OneWorker` follows from these. `WarmInv` and
  `PlaceholderLocked` follow a process from its start to its prewarm. The lemmas
  `QueueStep`, `RegistryStep`, `ProcStep`, `TaskStep` and `TodoStep` say what a step may
  do to each part of the state; the invariant is proved from these.

For any requests, pools, accounts and attempts of `RequestPath`:

- `TypeCorrect`, `StreaksMoveRight` (`[]CountedRight`), `EveryChannelHasReader`
  (`[]NeverAbandoned`). Neither property is inductive: whether a channel is
  counted depends on who reads it, and who reads it on the place of a handler that
  may have gone on to the next attempt. `ChannelOK` says what is true of a channel
  by its reader (waited for and not counted, or answered from or drained and
  counted once, by what it did); `ReaderOK` that a first-byte task or a handler
  reads for the current attempt only, and that later attempts have no channels;
  `PhaseOK` which of the two channels a handler at each place has.
  `PreferredWithin` and `UsableWithin` say of `pick` that its layers leave workers
  out and add none, `CountedOnce` what counting does to a channel not counted yet.
- `PickFindsWorker` and `LowestTierFirst`, of the layers of `pick` alone, for any
  nonempty pool of finitely many workers, any limits, cooling set and loads
  (natural numbers): a worker is found, a limited account is taken only when the
  whole pool is limited, affinity holds whenever the bound account is usable, and
  a lower tier is taken only for a cool idle worker the tiers above do not have.
  That a lowest tier and a least load exist (`SomeLeast`) is the well-foundedness
  of strict inclusion on a finite set.

For any accounts, keys, flows, finishes, configurations and number of operations of
`Accounts`, with and without a `usage.db_path`. `AccountsAssumption` keeps the keys of
`config.yaml`: an edit that takes a key away may leave a tag in the overlay that no
start takes, which is the operator's to mend. Nothing else is assumed of the edits: a
start may fail, and the process is then down until a start succeeds (`Idle`).

- `PoolAsChosen` (`InstalledAsChosen`). `FlowsLinked` makes the registry and the places
  of the flows agree, with one flow that is starting. `PoolRead` is the point: the
  pool a finish has read may be that of another flow, but not if the flow is the one
  whose code it brings, as long as that one is open, and the CLI takes no other code.
- `TypeCorrect` and `StartsAgain` (`[]ConfigValid`). `ConfigInv` says that every tag in
  the overlay, in memory and in what a reload is about to install is a key, and
  follows a reload that met nobody: what it still has to add and remove makes the
  live accounts cover the pools it will swap in (`ContinueValid`, the stretch between
  two of its awaits). `LoadTakes` gives the converse of `YamlAtFault`: with such an
  overlay, a config.yaml that is not at fault itself loads. `WiredFacts` and `LoadFacts`
  say what `_wire_accounts` and `Config.load` return, `ReadFacts` what of the overlay.
- `KeptAccountsStay` (`[]NeverDropped`). `KeptInv` adds that what a reload under way read
  has the kept account, with its tag and in its pool, and that the account is none
  of those it still has to add or remove; this holds because a finish inside a
  reload does not count as kept. A deletion unkeeps the names that extend the one it
  removes, too: their pool forgets them (`PrunesOwn`).

For any accounts, intervals, Retry-After, cap and number of restarts of
`QuotaProbe`:

- `TypeCorrect` and `AccountsSpared` (`CooldownKept`). The cooldown and what is
  owed are counted by different streaks, because a restart may forget one of them
  (or, with a file it cannot read, both: then nothing is owed; a 429 the tracker
  is not told of never is); `OwedKept` says that the cooldown is no shorter than
  what is owed and the streak no shorter than the row of 429s, in memory and, when
  the last write went through, in the file. A 429 keeps that because the back-off
  grows with the streak (`BackoffGrows`). No prover here knows a law of exponents,
  and induction is out of reach: `PowersGrow` takes it from the library's theorem
  that a set with `n` elements has `2^n` subsets. A cooldown of the file has a
  streak (`OneGate`).

Of the properties of the passing runs, every invariant and every action property is
proved. Only model-checked are the liveness properties (`HeardReplyEnds`, `QueueServed`,
`ForceEnds`, `EveryChannelDrained`, `AnsweredUnlessEmpty`, `RequestsEnd`,
`DueRefreshed`, `EveryAccountProbed`), which TLAPS cannot prove: they need fairness
and `ENABLED`. The refuted claims of section 4 are TLC's.

## 6. Not modelled, and what is left

Left out because its correctness is about text, which the models abstract: the
merge of request bodies and headers, SSE events split over chunks and their
collapse into one message (`anthropic.py:420` is the hazard it leaves), the
conversion to OpenAI's format, the parsing of reset moments and of modals. One
task works on each of these, with no shared state.

Left out because it keeps no state that other components race for: token
look-up, SQLite reports, the HTML dashboard, the status report, logging,
container scripts; `account_quota.py`, which nothing imports.

Left of the components that are modelled: a second deletion of an account while
the first waits for its workers (`DeleteAsk` has one at a time per account), the
parallel chains and the fail-fast of `SessionManager.start`, ports, worker counts
above one per account in `Accounts`, the settings a reload assigns in place, the
start and end of the worker process.

What could be proved next: that `WorkerMitm` implements what `Session` assumes of a
worker, and what holds of `Accounts` when an edit of `config.yaml` takes a key away.
