# Verification of sqltop

TLA+ models of `sqltop`, the TLC runs that check them and the TLAPS proofs about
them. `sqltop` watches one SQL Server: it samples it at four cadences over one
pinned connection, keeps a short history, and serves a page that follows it.
On request it captures the statements of one session with an Extended Events
session. What can go wrong in it goes wrong between goroutines, between the tool
and the server, and at the ends of numbers, and that is what is modelled here.

Source paths are relative to `src/`. `PROJECT.json` maps every definition of a
module to the lines it stands for.

## The system

| Part | State it keeps | Operations | Meets |
|---|---|---|---|
| Capture manager `internal/capture` | the capture that runs, its panel, one record per capture | Toggle, Stop, the drain of each capture | handlers, grace timers and Serve call it; it calls the source |
| Event sessions `internal/source/mssql/capture.go` | none: the event sessions are on the server | sweep, CREATE, START, poll, DROP | shared with every other instance on that server |
| Ring buffer reader `internal/source/mssql/ringbuffer.go` | none: a mark is handed in | place a document against a mark | called by the drain |
| Web server `internal/web/server.go`, `stream.go` | open streams, the pending grace timer | a stream opens or closes, the timer fires, shutdown | the page, the manager, the process |
| Observation budget `internal/collector/budget.go` | the window of readings, the level, the clocks of its steps | Observe, SetBase, Period | read by every tier, written by the counters tier and the f key |
| Collector `internal/collector/collector.go` | figures, errors per tier, backoff per tier | Run, one loop per tier, Status | the source, the budget, the window, every stream |
| Retention window `internal/window` | the ticks of the request tier | Append, the queries of the views, the blocking tree of a sample | written by one tier, read by every handler |
| Pinned connection `internal/source/mssql/mssql.go` | one connection of a pool of one | Open, lease, pin, query, repair, Close | every tier and handler, one at a time |
| SQL Server queries `internal/source/mssql` | the capabilities Identify has found | Identify, the methods that sample or answer a page | the pinned connection; the collector and the handlers |
| Rate counters `internal/source/mssql/counters.go`, `server.go` | the reading before, per tier | apply, rate | written by SampleServer, one goroutine per tier |
| Stream protocol `internal/web/protocol.go`, `stream.go` | per stream, the references it has sent | Snapshot | the page, over a socket that may break |
| Browser page `internal/web/assets` | the references it was given, what it draws, whether it is frozen | absorb, draw, freeze, reload, post | the stream, the endpoints |
| Connect phase `internal/web/connect.go`, `cmd/sqltop` | the form, the attempt, the source it opened | attempt, hand-over | several tabs; the monitor that takes its socket |
| Layout and configuration `internal/web/layout.go`, `internal/config` | the configuration, in memory and on disk | load, save, replace the file, write it out | several tabs |
| Output files, `.env` `internal/outdir`, `internal/dotenv` | files | create beside, replace in place | the capture, the plan view, the connect phase |

What is hard in each, and what makes it right:

* **Capture.** Several handlers, a timer, Serve and the drain itself may end one
  capture while another is being started, and every statement to the server may
  fail with or without its effect. Right means: one capture at a time, ended once
  and for its own reason, drained before it is dropped, nothing left on the
  server that nothing remembers, and a panel that tells of one capture only.
* **Lifecycle.** A timer that has begun to fire cannot be stopped, and the process
  ends under goroutines that are still at work. Right means: a watched capture is
  never ended for want of a viewer, an unwatched one always is, and nothing is
  left behind.
* **Ring buffer.** Eviction, truncation and overlap in one read. Right means:
  every event filed once and in order, or counted.
* **Budget.** A window of uneven intervals, two hysteresis clocks that share an
  instant. Right means: steps up are spaced and never overdue, steps down are
  earned and never overdue.
* **Collector.** Four loops share a status, a throttle moves their periods while
  they back off. Right means: each error is its own tier's, and a failing tier waits
  a period before it tries again.
* **Window.** Two bounds evict in turn over one count, and executions are told apart
  by an age and a gap. Right means: the most of the past that both allow, no
  execution counted twice, and every blocked row under its blocker, cycles included.
* **Event sessions.** Other instances create, start, sweep and die on the same
  server, between any two statements. Right means: a sweep never drops what was started
  when it looked, and never leaves what it found dead.
* **Source.** The only connection may die at any point of a query, and the
  error does not always say so. Right means: the pool's slot is never lost, every
  query returns, and a dead connection is not taken for a missing permission.
* **Rates.** A difference needs two readings that follow each other, from one run of
  the server, and the time between them. Right means: that, or no figure.
* **Stream.** The encoder and the page never compare notes, and snapshots are lost,
  held back by a freeze, and repeated after a reconnection. Right means: a row on the
  screen has its own statement, and nothing piles up.
* **Process.** One socket is served by two servers in turn, forms and layouts come
  from several tabs, and the process may die inside a save. Right means: one login,
  no page left unanswered, and what was saved is what the next start reads (one case
  of the code where it is not is among the differences below).

## Modules

| Module | What it is |
|---|---|
| `Capture` | The manager. One action per critical section of `Manager.mu` and one per statement sent to the server. |
| `CaptureSlot` | What the manager promises, without goroutines. `Capture` implements it through `Slot` (property `ImplementsSlot`). |
| `CaptureLifecycle` | Extends `Capture` with the streams, the grace timers, Serve and the exit of the process. |
| `RingBuffer` | The accounting of one capture's events: the server's buffer, the document, the mark, the file. |
| `EventSessions` | Extends `RingBuffer` with the instances that share a server: their sweeps, their DDL, their deaths. |
| `Ladder` | Which tier is slowed at which level. Shared by the next three. |
| `Throttle` | What the tiers are promised of the throttle: the abstract specification of the next, and what the one after it allows for. |
| `Budget` | The throttle. |
| `Collector` | The tiers' loops, over a throttle that may move by a step at any reading. |
| `Blocking` | `Flatten`: the blocking tree of one sample. Operators only. |
| `Window` | Extends `Blocking` with the retention window and the executions the queries view makes of it. |
| `PinnedConnection` | The lock, the pool of one, the pinned connection, its death and repair. |
| `Source` | Extends `PinnedConnection` with Identify, the capabilities and the methods gated by them. |
| `ServerFigures` | Rates, ratios and growth, over the two tiers of SampleServer that keep a reading. |
| `StreamProtocol` | One page, its stream and its Encoder. |
| `Positions` | Lists by position: what a loop over a list keeps of it. Shared by the next two. |
| `DotEnv` | The `.env` file: `Load` and `Set`. Operators only. |
| `Layout` | `sqltop.yaml`, its resolution, and the endpoint that rewrites it. |
| `Process` | Extends `Layout` and `DotEnv` with the start, the connect phase, the monitor and the end of the process. |
| `*_proofs` | Theorems, each extending the component it is about: `Capture_proofs` also has those of `CaptureLifecycle`, `EventSessions_proofs` those of `RingBuffer`, `Process_proofs` those of `Layout` and `DotEnv`, and `Samples_proofs` those of `Window`, `Blocking` and `ServerFigures`. |
| `MC*` | Constants for TLC. Modules without one take theirs from the cfg. |

Definitions named "mutant of" stand beside the one they alter; no specification
uses them. Each is a plausible slip in that code, and each property of a run is
known to fail on one of them.

### Capture

A *stopper* is anything that may be inside `stop`: a handler in `Toggle`, a caller
that holds no run (the grace timer, Serve), or the goroutine a drain starts to end
its own capture. `pc` says where each is, `target` is its local `r`. A handler's
`pc` goes on through `start`. A capture is a number of `Runs`, taken when
`WatchedSession` has answered; per capture there is its drain's place (`drain`), its context
(`cancelled`), the reason given by whoever took it (`reason`), the reason its own
drain decided on (`why`), what it has read (`statements`, `fresh`), its file and
its event session.

* A mutex's critical section is one action; `toggling` is a variable because it is
  held across calls to the server.
* Each DDL statement is one action with an outcome: it worked, it failed without
  effect, or it took effect and the answer was lost.
* `select` between a tick and a cancelled context chooses at random, as Go does.
* The sweep is one step here. `EventSessions` takes it apart, with the other
  instances that its SELECT and its DROPs may interleave with.
* A session id goes away and comes back under another login (`login`); a capture
  grows old in two steps, the cap and twice the cap (`age`, as far as `MaxAge`).
* `State`, `Recent` and `SetIdentity` change nothing that is modelled. The panel
  is the state they read (`st`, `rows`).

### CaptureLifecycle

`clients` and `idle` are `Server.clients` and `Server.captureIdle`. A timer is a
model value with a place: armed, disarmed, fired (the callback runs), `look` (it has
read the count), `stop` (it has read the manager's state and goes into `stopCapture`). A
callback that fires does so as a stopper of its own. `armedAt` stands for the
instant it was armed, as the set of captures whose `Started` is before it: the code
compares the two instants.

The handler of the key is `Posted` (its request is read, from then on it is `asking` the
manager, and through it the server, for the state), then `EntersToggle` or `TurnedAway`.
`Toggle` gets a context of its own, so neither Ctrl-C nor the end of the shutdown's grace
stops a handler on its way there: a capture may start while the server drains, and after Serve's
`Stop` has found none. The shutdown's two seconds of grace are the choice `ServeStops` has to
come while handlers are still asking or inside `Toggle`; `late` remembers that it did, and `begun`
which captures were running by then. `OnlyInFlightOutlives` tells the two ways apart in which an
event session survives the process: another goroutine had taken the capture, or a late handler
started it since. After `Exit` no goroutine takes a step.

### RingBuffer

An event is its absolute index. The server evicts the oldest, a document is a
prefix of what the buffer holds, of any length, and may be flagged as truncated or
not. `Adopt` is the part of `tick` that follows a successful poll. The server's side
is external: it is what the comment at the top of `ringbuffer.go` says was measured.

### EventSessions

An event session is a name, `<<instance, number>>`; the server knows which are
`defined` and the `age` of those that are started. Per instance there is a place
(`pc`: sweeping at boot, sweeping for a start, created, unstarted, capturing), the
`list` its sweep has still to drop, and the session it believes is its own (`mine`). Every
DDL statement may fail before or after its effect; a process dies anywhere and its
successor boots with a sweep. `Us` is the instance whose drain `RingBuffer` describes, so a
sweep of another one that takes its session away is one of the things its account has to
survive. `Minute` is the clock: a drain ends at the cap or at most `Late` after it. `read`
and `running` are histories of what a sweep's SELECT answered. Names carry random digits in
the code; the model has no two that collide.

### Budget

`Observe` is `Seed`, `Skip` or `Fold`, in the order of its early returns, and `Fold`
ends in one of the three branches of `reviseLocked`. The zero `time.Time` is the
constant `Never`. The average is compared with the limit by multiplication. `streak`,
`evaluatedAt`, `widest` and `movedAt` are histories for the properties: nothing of
the throttle reads them.

### Collector

`pc` is where a tier's loop is: it places its call (`Begin`), the source answers or
fails, the counters tier reads the tool's cost, the period is read and the wait
chosen (`Decide`), and the wait is a select with the context. The throttle is
abstract: a reading of the cost may move the level by a step either way. That is
`Throttle`, which `Budget` implements (`KeepsItsPromise`, `BudgetKeepsItsPromise`), and
every step of it is one the collector admits (`LoopsAdmitTheBudget`).

### Window and Blocking

A tick is an instant, rows, and a number of other rows, those of system sessions, that only the
bounds count; `all` is the history of every tick appended. A row is a request, as the source
samples them: a session may have several at once, a request goes through statements, and its
counters are its own since it came, while hash and text are of the statement it is at. A request
is named by its session and the instant it came (`asked`); `began` says when the execution it is at
began. `Sampled` is what the server may run by the next tick, in any order: requests that were
there, at the same statement or the next, requests that came since, or none.
`Evicted` is `evictLocked`: the old ones go first, then the oldest until the count is inside
the cap, with the count the code keeps (`samples`) and not one made afresh. `KeepsAllItMay` compares the window with its
definition: the longest suffix of that history that respects both bounds. `Runs` walks
the ticks as `Statements` does, with the gap between two ticks against the elapsed time of the first
row of a session and a shape (`Leading`); the others of the tick join its run. The CPU a request has
spent is taken to be its elapsed time: both grow with the request and restart with none of its
statements. `RunsAreExecutions` compares the result with the set of executions there are: never more
runs than executions, every session that had one, and exactly the executions and their
counters where they come one by one (`OneByOne`). Elsewhere the code itself gives no more: two
requests of a session at the same shape are one run, and of a request that comes back to a shape
(A, B, A in one batch) both runs of A carry what the request had spent by then, so that the
group's sum exceeds it. `Flatten` is
`internal/window/blocking.go` with its recursion as a list of rows still to be walked: `Walk`
is one call of `walk`, `WalkAll` is the walk of a whole list, which takes no more than two calls
a row. `IsLayout` and `NoneAdrift` say what the result owes the sample without walking it:
each row once, under a row of the session that blocks it, and further in than the margin if it
is blocked and a chain leads to it from a root (`Led`, which is what every closed set of rows
contains). `Flatten` is a function of one sample, so `EveryRowLaidOut` looks at the first tick,
over every sample of that tick's size.

### PinnedConnection and Source

`slot` is the one connection of the pool (free, idle or leased), `db` whether `Source.db` is
set, `link` what the connection is good for and whether the driver knows. A query is
a path through `pc` under `mu`: lease, read @@SPID, pin, ask, repair. Its answer is rows, a
refusal, a cancelled context, a server that ended the session, or one of the ways a dead
connection shows; `Repair` is `repairLocked`. `Main` opens and closes. database/sql and
the driver are external: modelled by what this use of them shows.

`Source` asks `Questions` one after another, as `Identify` does: identity, marker,
probes, facts, permission to capture. `found` is its local copy of the capabilities,
`caps` what it publishes. A method is `Gated` (it does not ask) or a `Method` (it asks and
reports). One caller stands for the four tiers of the collector, which wait for the same
lock as a handler does; every method is its right and what it makes of a refusal.

### ServerFigures

A reading is a function from the counters it has rows for. `Stamp` takes the instant before
the connection is waited for, `ReadCounters` applies a reading, `ReadOSViews` completes the
sample and `Breaks` loses it with the reading applied. The figures are quotients
`[num, over]`; `of` and `vof` remember which readings they are of. The two tiers share
nothing but the server, so one is looked at per behaviour (`driven`).

### StreamProtocol

A reference is a key (the session and a fingerprint of everything it carries) and what it
stands for. `sent` is `Encoder.sent`, `wire` the snapshots written and not yet read, `refs` and
`data` what the page has. `Draw` prunes as the page does; `ReadFrozen` only absorbs. A lost
connection delivers a prefix of what was written; a reload forgets everything. One page is
enough, because each connection has its own Encoder.

### Layout, DotEnv and Process

`file` is `sqltop.yaml` as it can be read back, `cfg` the server's copy. What a file may say
is `Config`: views whose columns may be in any order, twice, unknown or without a switch, and a
dashboard likewise; `Files` and `Posts` are what TLC takes from it. A save is the handler's
steps under `saveMu`: clone and edit, rename, replace the shared value; the process may end
between any two. `Columns` and `Dashboard` are the resolution against the catalogue;
`NoSaveIsUndone` compares it with the last layout saved for each view. A line of `.env` is a
definition or something else; the values are `Values`, the strings a form may give `Typed`. An
instance's connection string is the variable it names, or none; `Mentioning` are the variables
whose name contains `SQLTOP_CONN`, which is all that the code looks for before it saves.

`Process` goes through `opening` or `asking`, `handover`, `monitor` and `leaving`, and starts
again on the files it left. A tab's connection is queued in the kernel, accepted by
whoever serves, or refused when the process ends. A form's attempt is `busy`'s holder; its login
may reach the server after the attempt was given up. `cleared` is the deadline that
`handoff.Close` puts on the listener and that the monitor lifts.

## Runs

All runs disable deadlock checking: every model may stop, because its bounds are
used up, the process has exited, or every goroutine has returned.

| Run | Bounds | Question |
|---|---|---|
| `capture` | 2 handlers, 2 captures, 2 failed DDL statements, a session id reused once, cap and sweep ages | Is any capture unheld, ended twice, ended for another's reason, forgotten, or dropped before it is drained? |
| `capture_panel` | 1 handler, 1 other stopper, 2 captures of up to 2 statements, a panel of 1 | Does the panel tell of one capture and show the tail of its file, and do the goroutines implement one slot? |
| `lifecycle` | 1 handler, 1 grace timer, Serve, 1 capture, 2 streams | Can a grace be armed while somebody watches, and what outlives the process? Does Toggle return, does a capture end at its cap and when unwatched, does Ctrl-C end the process? |
| `budget` | window 2, recovery 5, readings 0, 1 or 2 apart, 16 units | Are steps spaced, earned, and never overdue? |
| `collector` | 2 tiers with periods 1 or 3, backoff from 1 to 2, 4 units | Whose error is it, and how far apart are retries? |
| `ring_buffer` | 2 instances, 1 capture each, cap 2, a drain 1 late; a buffer of 2, 5 events, 1 dropped | Does a sweep spare what was started when it looked and find what is dead, and is every event filed once or counted, whoever dropped the session? |
| `window` | 4 ticks of up to 2 rows, or 4 of system sessions beside 1, retention 3, 4 samples, 2 sessions, 2 statements; blocking over up to 4 rows of 3 sessions with 2 requests each | Is the window what it should be, is no execution counted twice and each once where they come one by one, and is every row laid out? |
| `stream` | 1 session, 3 logins, 1 text, 2 rows, 2 snapshots under way, 2 breaks | Does a row on the page have its own statement, is the table pruned, and does what stays show up? |
| `process` | 2 views, 2 tabs, 2 starts, 2 saves, 3 keys, of which 2 contain `SQLTOP_CONN` | Are saves kept, is there one login, is the saved string read, is every page answered? |
| `source` | 2 callers, 2 probes, 1 fault | Is the slot ever lost, does every query return, is a break taken for a refusal? |
| `counters` | 2 counters, 1 restart, 2 units, a version store of 0 or 1 pages | Is a rate of the last two readings and over the time between them? |
| `capture_residue` | 1 handler, 1 timer, Serve, 2 captures | Can the process leave an event session behind? (It can.) |

Why they are enough. Every race in the capture manager is between one capture and its
successor, because `toggling` is held throughout a start; two handlers meet at that mutex
and a third would only wait. The liveness run has one handler, one capture and one
timer, because the wait that could go in a circle is between a stopper and a drain; its
two safety properties are also proved for any number (`GraceWaitsForNobody`,
`LeavesOnlyWhatWasInHand`). The limit on failed polls is 1 instead of 30, which makes that
ending more frequent and the count no less a count. In the budget the clock allows a climb by
several steps and the whole of one recovery. Two instances are what one sweep
and one drain need to meet, and a third would be another of either; a buffer of 2 is evicted
twice over by 5 events. Four ticks let both bounds evict before and after each other, one
of them over the cap by itself, and an execution span three; two rows are what
a session needs for two requests at once. Three sessions make every shape of a chain: a cycle, a
self-block, a tail that hangs on a cycle, a vanished head. One session whose
login changes is what makes a reference stale; two snapshots under way are what a
lost connection can split. One fault is enough to lose a connection at every place of a
query; the proofs cover any number.

`capture_residue` shows that the code does something else than a comment says of it: the
process may exit before another goroutine's DROP was sent (`web/server.go:565`). The
`lifecycle` run shows that this, or a handler that was still on its way to `Toggle` or in it
when Serve called `Stop`, is the only way (`OnlyInFlightOutlives`).

Smaller differences between the code and what is said of it are in the models as the
code has them, without a run:

* The grace timer looks whether the capture that runs was started after it was armed, and
  then stops whatever runs by then (`web/server.go:523`): one started in between, while the
  reading of the state asked the server two questions, is ended although the comment
  (line 509) says that the timer has no business ending it.
* A handler of the key that waits for `State` while the process is interrupted calls `Toggle`
  afterwards, with `context.Background()` (`web/views.go:376`): it may start a capture that
  Serve's `Stop` (`web/server.go:573`) has come too early for.
* `saveReachesTheConnection` asks whether the instance's connection string contains
  `SQLTOP_CONN` (`cmd/sqltop/connect.go:32`). `${SQLTOP_CONN_PROD}` does: the page then reports a
  save that the next start does not read, the case the comment above it (line 27) wants to
  exclude. `SavedIsRead` excepts it.
* The comment in `window/window.go:144` says that a run contributes its maximum "never the sum of
  its samples"; a request that leaves a shape and comes back to it is two runs, and its cumulative
  counters are added twice (`window/window.go:196`, `source/mssql/requests.go:124`).
* After an outage one interval carries the whole of it, and a step is given back at once
  (`collector/budget.go:209`, against line 23).
* The connection is judged by a preflight that ran once: a source that fails
  later shows as connected (`collector.go:396`, against `collector_test.go:56`).
* A backoff begun under a short period is only doubled once the period has grown
  (`collector/collector.go:180`), so a broken tier may poll faster than a healthy one
  (`collector.go:22` says that it must not).
* Identify runs once; `mssql/mssql.go:597` speaks of "once more after a
  reconnection", which nothing does. The collector's comment (`collector.go:105`) owns to
  it. An Identify that fails leaves the capabilities empty for good, and every
  gated method unavailable.
* A sweep drops what is defined and not started, which another instance may have
  created a moment ago and be about to start (`mssql/capture.go:70`): its START then fails.
  Two instances that sweep the same residue: the second DROP fails, and its
  start with it.
* A poll that finds the event session gone answers with an empty progress, and the
  count of dropped events becomes zero although the gap records of the file say otherwise
  (`mssql/capture.go:310`). `GapsAddUp` is therefore about the missed events only.
* `Window.capped` is cleared by the next append that does not evict for the cap,
  while the window is still shorter than its retention (`window/window.go:55`).
* A page that stays frozen absorbs references and prunes none, until it draws again.
* `app.js:704` says that the file cannot change under a running process except through
  the page's own save; with two tabs it can, through the other's.
* A variable that is set and empty in the environment of the process hides the value the
  `.env` file gives it. `DotEnv` is about an environment that defines none of the keys.

## Fairness

Every goroutine that can run is run, every call to the server returns (its errors
included: a driver call without a deadline is assumed to end), and a timer of the
runtime fires. These are weak fairness of one process's step. Strong fairness is assumed
where the runtime gives it: a Go mutex goes to a waiter that has starved (`Lock` in
`CaptureLifecycle` and in `Source`), and a `select` whose `Done` is ready does not choose the
tick for ever (`Finish`).

* `FairWebSpec` has the manager's goroutines, the timers and Serve.
* `SourceSpec` has the steps of a query. The driver's keepalive and dialling timeout end
  what a lost server leaves hanging; nobody owes a new call, and no server has to come back.
* `FairSpec` of `StreamProtocol`: the stream's ticker fires, the socket delivers,
  EventSource reconnects. The page owes no end to a pause: `StaysShown` is about a
  page that does not stay frozen.
* `ProcessSpec`: main goes on with what it has begun, and whoever serves accepts. A
  save, a form and an attempt may stay where they are.

Nobody has to press a key, submit a form, close a page or interrupt the process.

## Proofs

`tlapm` checks every theorem, for every value of the constants that satisfies the
module's named assumption. The assumptions are those TLC evaluates on every run: that
bounds and periods are naturals of the sign the code checks for, that a placeholder is none of
the values it stands beside, that sessions, requests and tiers are finitely many
(`WindowAssumption`, `BlockingAssumption`, `CollectorAssumption`), that a catalogue and
a page's post name every column once (`LayoutAssumption`), and that a string typed into a form is
one of the values a line may hold and `SQLTOP_CONN` contains itself (`EnvAssumption`). Where a proof is by induction, on a
recursive function or on the size of a set, it takes a least counterexample and finds a
smaller one (`NoneIsFirst`, `NoneIsLeast`).

* **Capture.** For any number of handlers, other stoppers and captures. `Step` says
  in fourteen ways what the actions do to the control and leaves their data out
  (`Steps`); each part of the invariant has a lemma that takes it through those
  ways. `MutexInv`: whoever is between `Lock` and its return holds `toggling`.
  `StartInv`: while a handler holds it, the manager's run can only become none, so a
  handler that builds a capture finds no other, and one that stops takes the run it
  saw or none. `StopInv`, `OnceInv`: a run in a stopper's hands has left the manager,
  has its reason, and is in no other's. `RunInv`: the run held is drained and not
  cancelled. `WhyInv`: a drain decides once, and its reason reaches a capture through
  its own goroutine only. From these follow `DrainIsHeld`, `EndedOnce`,
  `EndReasonIsOwn`, `KeyEndsWhatItSaw`, and that the manager implements `CaptureSlot`
  (`ManagerIsASlot`: a start is `Begin`, the critical section of a stop is `End`,
  the end record is `Close`, all else is a stutter). A second list of steps carries
  the types of the data, with two facts about counts (`CountInv`). Nothing is
  assumed of the constants but `CaptureAssumption`.
  `HeldInv` is about the event sessions: whoever stops or starts a capture keeps it
  in hand until its DROP, a stopper drops only after the drain is done, and a drain that
  lives has a started session, unless a sweep took it past twice the cap. It gives
  `EventSessionAccounted` and `DrainedBeforeDrop`. The panel needs what its drain has
  read and not yet told (`FreshInv`): `PanelNamesTheRun` says whose panel it is, and
  `PanelIsTailOfFile` follows from it with lemmas about stretches of a file, their joins and
  their tails (`RecordsJoin`, `RecordsTail`, `TailGrows`). `NoCircle` is the half of
  `ToggleReturns` that is no liveness: who waits at `toggling` waits for a handler past it, who
  waits for a drain waits for one it has cancelled (`JoinInv`), and a drain takes neither lock
  (`NobodyWaitsInACircle`).
* **CaptureLifecycle.** Every step of the process is one of the manager's or leaves
  its state alone (`WebStepsAreSteps`): the process implements the manager
  (`TheProcessIsAManager`), and every theorem above holds here too.
  `GraceInv` counts the streams against the timers; `EndInv` says that once Serve has called
  Stop, with no handler asking or inside `Toggle`, none is again, and that no run that had begun
  by then is the manager's after Serve's turn, nor becomes it again (`EarlierIsTaken`); one that is
  in nobody's hands any more is dropped. `NobodyForgets` is about the timers that overlap when pages come and
  go, of which a run with liveness has one only: the last stream to close arms one that has
  seen the capture (`LastOneArms`), and while nobody comes, none on its way to stop it gives
  up (`WillStopKept`), because what it reads of the panel is of the run it would take
  (`PanelNamesTheRun`).
* **RingBuffer.** The invariant adds to the properties that the mark is past every
  event filed, is not past what the server has processed, and that `held <= total`.
  A poll then either adopts a run of indices that starts at the mark or past it,
  or nothing: `EmittedFacts` says which, `AppendInOrder` that appending it keeps the
  file in order, `AdoptKeeps` that the counts follow. Beside the two properties of the run,
  `InOrder` shows that no event is filed twice or out of order.
* **Budget.** The average is left opaque, so that the theorems hold whatever the
  readings add up to. `KeptFacts` shows that the window is never empty after a
  reading and that its oldest interval ends inside it. The invariant says that
  `lastEscalate` is the last change of level in either direction (`LadderInv`), and
  where the quiet is counted from (`QuietInv`): the last step of this streak, or not
  much before the streak. That is what makes `RecoveryEarned` inductive, and why its
  bound is one window and one interval short of the recovery period. `HotInv` is
  the same for steps up. One lemma per branch of `reviseLocked` carries it. To the tiers, every
  branch is a step of `Throttle` or none (`StepsArePromised`), and with `Throttle` comes the order
  of degradation: a move changes one tier's cadence, the right one (`TheGridGivesLast`).
* **EventSessions.** For any number of instances, captures, any cap and any lateness below
  it. `Owned`: an instance names only sessions it made. `Known`: nothing is on the server or in
  a list that was not made. `Young`: a capture that is owned has not reached twice the
  cap. `Spared`: what was started when the SELECT ran and is on the list is nobody's, nor to become it,
  because a name is never used twice. `Swept`: what was listed and is still there is still to be
  dropped. `LossIsExact` is carried through the composition by a lemma per kind of step.
  Each capture is a behaviour of `RingBuffer` from its start on (`EachCaptureIsARingBuffer`), and
  the buffer it reads is that of its own event session, which other instances may drop under it
  (`OneServer`). `None` is neither a name nor a number, or the age of a session could
  be taken for the age of none (`NoneAssumption`).
* **Source.** `PinInv` says what the slot and the reference are at each place of the holder of
  the lock, and that nobody else is at one; hence whoever holds it waits for no connection
  another query has (`NobodyWaitsForALease`), which `QueriesGoOn` needs. `RightsInv` follows Identify question by
  question: every probe gone by was learnt or skipped, and a server's answer to a query that
  needs a right is the login's right.
* **Collector.** `LoopsAdmitTheBudget`: whatever a budget that keeps its promise does, the loops
  have a step for, at the reading of the cost or at the f key. `Spoken`: the message of a tier and its last outcome agree from the sample on.
  `Backed`: a backoff is no shorter than some period it was made of. `Spaced`: a tier that waits
  after a failure waits its backoff out. `TypeCorrect` adds the types,
  the doubling of a backoff up to its cap among them.
* **StreamProtocol.** The invariant is about the chain of snapshots on the wire: each
  refers only to what it brings and to what the rows of the one before it use, the first to
  what the page holds, and the Encoder believes no more than the last one shows.

* **Process.** `LoginInv` follows a login from who asked for it to who goes on with it: an
  attempt belongs to one tab, the connection left open is the attempt's or main's, never both
  (`LoginIsOne`). `EnvInv` is `SavedIsRead` with the lines well formed, for every file there may
  be: `Set` makes the key read as what was saved and leaves what every other key
  reads as (`SetAdds`, `SetReplaces`), which is where a later duplicate would show; what an
  instance reads follows unless it names another variable of `Mentioning`. `DoorInv`
  follows the listener's deadline through the handover: set in the past to free it from the
  first server, lifted before the second one serves (`TheDoorIsOpen`, the half of
  `ArrivalsAreServed` that is no liveness).
* **Layout.** `FileInv`: a save edits what the file says, because what is served is the file
  except between the rename and its being served, and one save at a time is past its
  clone. `SavesStand` then needs what a list resolves to, for every file: `Columns` of anything
  names every column once (`ColumnsAreWhole`), `Columns` of what names every column once is itself
  (`WholeStays`), and so for the dashboard, a group named twice included. The lemmas about
  positions (`InOrderLists`, `PickedIsList`) carry the loops.
* **ServerFigures.** `ReadingKept`: the reading kept is the last one made, and no counter is
  below it while the server that gave it runs. A rate is then of the last two readings or there
  is none (`RatesAreTrue`). `GrowthInv` is the same of the version store's size, through readings
  that fail (`GrowthIsOfTheLastTwo`).
* **Window.** `KeptInv`: the window is the past without its oldest ticks, the count kept is the
  difference of two sums over the past, and every tick let go is outside a bound and stays so:
  the clock does not go back and sums only grow (`UptoGrows`). The cut the eviction makes is
  therefore the least that respects both bounds (`WindowKeepsTheMost`). `Lived` says what ticks
  may say of a server whose requests come, go through statements and go; eviction keeps it. Along
  the walk over them, `RunIs`: the runs of a session, the one at hand included, are no more than the
  executions seen of it, since a new one begins only with an execution not seen before
  (`BeginsWithANewOne`); and where they come one by one, the run at hand is the last execution, with
  its last counters, and what was added before are all the others (`WalkedOn`,
  `WalkedOnPlainly`). Adding up over the sessions is a sum over disjoint sets (`SumOfBoth`), and gives
  `ViewCountsExecutions`.
* **Blocking.** `LayoutInv` is kept by every call of `walk`: nothing is laid out twice, what is
  further in hangs on the last row one step less far in, what a session laid out blocks is laid
  out or on the list, and the list falls in depth, which is why a row on it still finds its blocker
  after others were laid out before it. `Weight`, the list and the rows of sessions not laid out
  yet, falls by one with every call (`WalkKeeps`), so the walk ends within the two calls a row that
  `WalkAll` has (`WalkAllIs`). What the roots' walk lays out is closed, and so holds all that a
  chain leads to (`LedIsLaid`): what is left over goes to the margin rightly.
  `EveryChainIsLaidOut` has this for any sample, `EverySampleLaidOut` for the window's.

Types: `TypeCorrect` of Capture, Budget and Collector, `WebTypeCorrect`, `SessionsTypeCorrect`,
`StreamTypeCorrect`, `PinnedTypeCorrect` and `WindowTypeCorrect` hold for every value of the
constants; where a type says more than a shape (a backoff at most its cap, a count of rows at most
the cap and never below nothing, no more in flight than the socket holds) they rest on the
invariants above.

Model-checked only: liveness (`ToggleReturns`, `CapEndsCapture`, `UnwatchedCaptureEnds`,
`InterruptEndsProcess`, `StaysShown`, `ArrivalsAreServed`, `QueriesGoOn`), since the prover has
neither ENABLED nor a rule for fairness, and the refuted property of `capture_residue`. Every
safety and action property of a run is also a theorem. Of four of the seven the part that is
safety is one too, for any number of goroutines: nobody waits in a circle (`ToggleReturns`), an
unwatched capture has a timer behind it (`UnwatchedCaptureEnds`), the door is open
(`ArrivalsAreServed`), the holder of the lock waits for nobody (`QueriesGoOn`).

## Not modelled

* The texts of queries and the scanning of rows; decoding, formatting and drawing; tokens,
  headers and routing; titles, widths, sorting and filters of columns.
* `views.go` and `internal/model` (tables of names and JSON shapes), the fake source and
  `sqlstress` (test equipment), the output directory (a name with a suffix, of which
  there are nine per second: the call fails and says so).
* The tempdb, CPU-history and scheduler figures, which are shown as they are read; the
  instant of a sample is taken before the lock is waited for, and the bias of it is not a
  property.
* A server too old to be monitored (`ErrVersionTooOld`): Identify ends there.
* The collector's four goroutines are one caller in `Source`; no query of theirs has a
  deadline of its own, and the models have none. A marker query that breaks may mix the facts
  of two sessions, and a break while the permission to capture is asked for loses it
  silently (`caps \subseteq grants` allows it).
* Files changed from outside: an edit by hand, or a second process on the same
  `sqltop.yaml`, is overwritten by the next save; a crash leaves a temporary file beside it;
  `config.Save` replaces a symbolic link where `dotenv.Set` follows it; a first save does not
  update the path that is shown.
* An event of the ring buffer cut at 64K, and the milliseconds by which a tick and an elapsed
  time may disagree in `window.Statements`: both are read from one clock here. `Waits`, averages and
  `SessionStatements`, which keeps no runs.

## What is left

1. `capped` of the window and what the history view says with it.
2. Several collector goroutines in `Source`, and a deadline per query if the code gets one.
3. A second run of `CaptureLifecycle` with two timers: its liveness is too large here, and only
   `NobodyIsForgotten` speaks of them.
