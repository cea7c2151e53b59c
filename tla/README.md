# A formal model of the currency rates service

The repository is a Windows service that downloads the exchange rates of the
National Bank of Ukraine once a day into a JSON file, remembers the days it
could not fetch in a second file, and tries those again on a schedule of its
own. The author's support library (`support/`) provides its queues, locks,
JSON values and HTTP client. The repository has no tests.

This directory models the concurrent and failure-prone part of it in TLA+,
checks the models with TLC and proves theorems about them with TLAPS.

Paths below are relative to `src/`. "Main" is `CurrRatesServiceMain.cpp`,
"logic" is `src/exchange_rates_fetch_logic.hpp`, "queue" is
`support/command_queue.hpp`.

## 1. Inventory

| Component | State | Operations | Talks to |
|---|---|---|---|
| **command_queue** (queue) | two lists of jobs under `evt_mtp_`, atomic `size_approx_`, list of workers under `processors_mtp_`, one tri-state flag and three booleans per worker, termination flag | `add_job`, `add_job_urgent`, `fetch_job`, the arbiter's cycle, `~worker`, `~command_queue` | the cron threads call `add_job`; its workers run the fetch jobs |
| **exchange_rates_fetch_logic** (logic) | the storage `strg_`, two cron threads, `sched_file_mtp_`; captured by the jobs it queues | `init`, the two cron loops, the regular and the retry job, `fetch_rates`, `schedule_fetching`, `unschedule_fetching`, `get_last_scheduled` | both queues, both files, configuration, log, HTTP client |
| **storage** (`src/rates_storage.hpp`) | the JSON database behind a lock | `load`, `add`, `save`, lookups nobody calls | data file, log |
| **fetch_schedule** (`src/fetch_schedule.hpp`) | a JSON object of dates, rebuilt from the file for each use | `load`, `schedule`, `unschedule`, `all_scheduled_dates`, `save` | schedule file, log |
| **service control** (Main 240-423, `src/globals.cpp`) | `g_ServiceStatus`, `g_ServiceStopEvent`, `global_termination`, the static queues and configuration | `ServiceMain`, `ServiceCtrlHandler`, the destruction of the static objects | the service manager (external), the updater thread, the fetch logic |
| **configuration** (`src/configuration.hpp`) | seven settings behind one lock | `load`, `store`, `reload`, getters | everything that reads a setting |
| **logging** (`src/logging.*`, Main 79-96) | a pointer to a stream behind a lock, the file stream, the null stream | `LOG`, `setup_log`, `set_log`, `set_log_null` | everything |
| **thread_safe_wrapper_stl** (`support/threading.hpp`) | a value and its mutex | `x--`, `*x`: a proxy that locks to the end of the full expression | storage, configuration, log, database |
| **deferred_command_queue** (`support/command_queue.cpp`) | jobs keyed by the time they fire | `add_job_*`, the processors, the destructor | not used by the service |
| **rw_lock** (`support/threading/rw_lock.hpp`) | one counter and three counters of those who wait | `lock`, `try_lock`, `unlock`, `upgrade`, `downgrade` | not used by the service |
| **ring_buffer** (`support/containers/ring_buffer.hpp`) | raw slots, first position, length | push, pop, index, assign | not used by the service |
| **HTTP client** (`support/http_client/httprequest.hpp`) | one request: connection, bytes not parsed yet, body | compose, send, the receive loop, the chunked decoder | the server (external) |
| **JSON values** (`support/json.*`, `support/fsm_tokenizer.hpp`) | a tree of values; the reader's stack; the tokenizer's state and buffer | index, assign, push, remove, serialize, deserialize | storage, schedule, configuration |
| **dates** (`src/misc_utils.hpp`, `support/time`) | none | check of a date, its key, reading and writing of ISO 8601 | storage, schedule, log |
| **URL composer**, string utilities, file utilities | none | pure, or one-shot I/O | the components above |

What is hard here, and what makes each part correct:

* **command_queue.** Producers test the length without the lock; a worker can be
  doomed while it is on its way to a job; the arbiter joins a worker while the
  destructor waits for the arbiter; a worker's thread starts before the members
  behind it are initialized. Correct means: it is a bounded, two-priority,
  first-come-first-served queue that loses and repeats nothing, its bounds
  hold, and its destructor returns with nothing left running.
* **Fetch logic and its files.** Three jobs at once rewrite two files in place;
  the process can die between the truncation and the write, and an open or a
  write can fail; a failed date is
  retried by two workers and scheduled again by a third. Correct means: a day
  once due is stored or scheduled, never neither; what was stored stays; the
  gaps close once the server answers again.
* **Locks.** Every statement that mentions several wrapped objects nests their
  locks in evaluation order. Correct means: no circular wait, and a service
  told to stop gets through its joins.
* **Service control.** A status written by two threads without a lock, early
  exits that skip the cleanup, jobs that outlive the object they captured,
  static objects that are destroyed while jobs run. Correct means: a stop is
  honoured, STOPPED is the last report, and the process ends.
* **Configuration and log.** The user edits the file at any time; a reload is
  validated before it is applied; the log's stream is replaced while others
  write to it. Correct means: no mixture of two edits, every valid edit takes
  effect, and nobody writes to a stream that is gone.
* **Library parts.** An upgradable lock whose look and attempt are two
  operations; a buffer with a branch for each way of storing a value; a parser
  that sees a message in arbitrary pieces; a queue whose waits are computed
  from two readings of the clock.

`PROJECT.json` lists every such hazard with its line.

## 2. Modules

| Module | Models | Checked by | Proved in |
|---|---|---|---|
| `JobPool` | what `command_queue` promises: two lines, at most `MaxThreads` jobs in hand, close | as `PoolSpec` in `queue_safety` | `CommandQueueProofs` |
| `CommandQueue` | `command_queue` with producers, workers, arbiter, destructor | `queue_safety`, `queue_live` | `CommandQueueProofs` |
| `DayStore` | what the storage and its file promise: the sets of days they hold | as `StorageKeepsDays` in `support` | `RatesStorageProofs` |
| `FetchLogic` | the jobs of the fetch logic, storage, schedule, both files, crash, restart and failing files | `fetch_*` | `FetchLogicProofs` |
| `ServiceLocks` | the locks nested by all threads of the service, and the shutdown joins | `locks_*` | `ServiceLocksProofs` |
| `ServiceControl` | `ServiceMain`, `ServiceCtrlHandler`, updater and cron threads, queued jobs, the end of the process | `service*` | `ServiceControlProofs` |
| `LogConfig` | the configuration, its file and its user; the updater; `setup_log` and the streams | `support`, `log` | `ServiceLocksProofs` |
| `RwLock` | `rw_lock` | `support` | `SupportProofs` |
| `SlidingWindow` | what `ring_buffer` promises: the last `Capacity` values | as `KeepsLastValues` in `support` | `SupportProofs` |
| `RingBuffer` | `ring_buffer` | `support` | `SupportProofs` |
| `HttpReader` | the receive loop of `Request::send` | `support` | `HttpProofs` |
| `JsonTokenizer` | `fsm_tokenizer` with the rules of `json.cpp` | `support` | |
| `JsonValue` | the values of `json::object` | with the next three | |
| `JsonReader` | `object_deserializer`, against the grammar of JSON | `support` | |
| `JsonObject` | a `json::object` that is changed | `support` | `RatesStorageProofs` |
| `JsonSerializer` | `serialize`, against what is read back | `support` | |
| `DeferredQueue` | `deferred_command_queue` | `support` | `SupportProofs` |
| `StrUtil` | helpers of `str_util`: numbers, `str_tok`, `atoi` | with the next five | |
| `DateText` | dates of records, their keys, and the time stamps of the log | `support` | |
| `RatesStorage` | the database: dictionary, rates by date, lookups | `support` | `RatesStorageProofs` |
| `JsonText` | strings and names on their way through the data file | `support` | `JsonProofs` |
| `HttpFields` | the parser of a response's header, and the search for JSON in it | `support` | |
| `HttpRequest` | the URL of a date, its parser, and the request | `support` | `HttpProofs` |

The `MC` modules give constants their values and add symmetry sets. `MCSupport`
puts the components that share no state into one run: each of its behaviours
is one component's (`subject`), while the others stay at their start. `MCText`
has the texts for it: dates, zones, characters, headers and URLs.
An operator marked *Faulty variant* is a plausible mistake in the definition
that follows it; it is in no specification, and `PROJECT.json` ("mutants")
pairs each with the property it would break.

### CommandQueue

An action is a stretch of one thread's code between two points where another
thread can see or disturb it. `prodPc`, `workPc`, `arbPc` and `dtorPc` are the
places between those stretches; `workPc[w] = "armed"` means inside `fetch_job`
with the mutex and with the worker's flag at -1.

* *Time.* Each wait in this code has a timeout. A waiting thread may therefore
  go on at any moment, and a notification adds no behaviour. The workload, the
  enqueueing speed and the ages the arbiter computes only ever permit a spawn
  or a kill beyond the first worker; the model may take or skip each one it
  permits (`SkipSpawn`, `SkipKill`). The first worker is spawned whatever the load.
* *Initialization.* `work_thread_` is declared before `busy_`,
  `work_or_stop_pending_` and `has_worked_since_spawning_` (queue 557-568), so the
  thread runs before they are set. `Spawn` leaves the flag arbitrary and
  `Construct` sets it, possibly while the worker already holds it. The checks
  and the proof cover that race; it turns out harmless, because a worker that
  has not worked yet cannot be doomed.
* *Locals.* The arbiter's locals are reset when its cycle ends and a worker's
  flags when it is freed: nobody reads them again.
* *Lists and `size_approx_`* change in one action, because the mutex is held.
  `Admit` reads the size without the mutex in a step of its own.
* *Environment.* A job is submitted once; callers are done before the
  destructor starts (`Call`, `Terminate`).

### FetchLogic

A date stands for all the rates of that date, a file for the set of dates it
parses to or for `Broken` (empty, half written, absent). `OpenData`/`WriteData`
and `OpenSchedule`/`WriteSchedule` are the two halves of `save_to_file` and of the
schedule's `ofstream`; each half may fail (`Fault`), which nobody is told of.
`Pick` is the retry loop's condition: it takes the
greatest key (the source takes the last of the sorted keys), and a key that is
no date, which sorts last, is unscheduled without a request. The server is
external: it fails, or returns the rates of the day asked for. Queues are
counters here; `CommandQueue` says what they guarantee. `Crash` is the death of the
process and the `init()` of the next one.

`due` is history: the days whose fetch has begun. It survives a crash. What a crash may have
lost of them is recorded beside it (`exposed`): the days then in the hands of a regular worker (`InHand`), and
the contents of a file that is emptied and not yet written again (`AtStake`). `NoGap` is about all other
days, so that it says of a crash what it can do and what not: a day that a retry job works on is still
scheduled, a retry job that waits for a lock has nothing at stake, and a file nobody
rewrites is left alone. A day asked for again is no longer exposed.

`DayStore` is the storage without workers, locks and halves of a save: a set of days in
memory, a set in the file, and four operations. `FetchLogic` takes the storage to be that;
`RatesStorage`, where a day is a text, is shown to implement it.

### ServiceLocks

A thread is the sequence of lock operations of the stretch of code it is in,
from one point where it holds no lock to the next (`Stretches`). Data do not
matter, so the stretches of a thread may follow one another in any order: that
is more than the code does, and nothing that holds here depends on it. `Around`
is the scope of a proxy. In C++17 the left operand of `<<` is evaluated first, so
`LOG << ... << config()--->...` locks the log and then the configuration, while
a function argument is evaluated before the call. ServiceMain's joins are waits without a
lock, and so is `add_job` of a cron thread (`EnterAddJob`, `LeaveAddJob`): it polls while the queue is
full and looks at no termination flag. When a queue gets room is not a matter of
these locks alone, so that nothing obliges `LeaveAddJob` here, and the properties about the stop have as
their condition that no call of `add_job` waits for ever (`AddsReturn`). `ServiceControl` has the
queues.

### ServiceControl

One life of the process, from the registration of the handler to the
destruction of the static objects. `status` is `g_ServiceStatus`, `told` what the
service manager has last been told; both threads write the status member by
member, so that a step of one may come between two steps of the other. Each
start that can fail may do so: the handle, the event, the threads, the file.
Two failures end the process: `get_conf_file_name` logs before the log exists
(Main 74), and an exception of `erl.init()` destroys a joinable thread
(Main 360). `waiting` and `running` count the jobs that hold a pointer to the fetch
logic, per queue; what a job does is `FetchLogic`, and here it need not end. A cron thread is inside `add_job`
from `Tick` to `AddJob`, which waits for `waiting` to be below `MaxJobs` (`max_queue_len_`); it can end
only outside (`CronEnds`).
`leftOver` remembers how many there were when the fetch logic was destroyed.
`global_termination` is a plain `bool` read in loops; the model assumes that the
loops read it again, as they call functions the compiler cannot see into.

### LogConfig

The file holds a text: valid or not, with or without a wrong value, no JSON, or
no file, which is then created with the defaults (`StoreDefaults`; that may fail, and ServiceMain
breaks off, or leave a file that is no JSON). `Edit` is the user, at any time. `applied` are the updater's locals
`log_enabled` and `log_file_name`. Streams are numbered; the last one made is
`log_file`, all before it are destroyed, 0 is the null log. `BeginLine` and
`EndLine` are the beginning and the end of a `LOG` statement, which holds the lock
of the log, but not that of `log_file`, which has none.

### RwLock

The look at the counters of those who wait, the `compare_exchange`, and the decrement of the
counter when the call returns are three actions (`AskRead`, `TryRead`, `TakeOff`); the calls, which add to those counters, are another.
`ahead` is history: who of the preferred kind waited when a caller called.
A timed-out call, and the only attempt of `try_lock`, leave by `GiveUp`.
Callers unlock and upgrade what they hold; the lock itself does not check it.

### RingBuffer and SlidingWindow

A slot holds a value or is raw storage (`Dead`). `assignable` is the kind of value
stored: one that can be assigned, or one that can only be constructed. For the
latter, the branch of `push_back` that moves into a full buffer stores the value at the
first position and returns without moving that position, so that the newest value
takes the place of the oldest; `stuck` records that it was taken, and `KeepsLastValues` is stated for all behaviours up to that moment.

### HttpReader

Bytes are numbers, and so are the digits of a chunk's size taken together: the code looks at
none of them before the line end behind them has arrived. `Framed` is what a correct server sends
for a body, framed by its length, in chunks (`cuts` says where they begin) or by closing. `Receive` takes any number of the bytes
that have been sent. The connection may be closed early (`cut`). `send` never uses its
timeout parameter: that a server answers, or closes, is an assumption about the
server, not a property of this code.

### JsonTokenizer, JsonReader, JsonObject, JsonSerializer

These are the path of `deserialize` without simdjson. The shipped build
defines `USE_SIMDJSON` and takes the other path unless a caller asks for this
one. `JsonTokenizer` is the table of rules and the machine that follows it,
`JsonReader` the stack machine that takes the tokens, with the grammar of JSON
as its reference definition (`Denotes`). `JsonObject` is the changes of a value, and
`JsonSerializer` what it is saved as, read back with `Denotes`. What the fallback path accepts beyond JSON is in the
model: comments, single quotes, a comma after the last element, `nil`, `1e+.`, a
text that ends within a string or before the last bracket. A comment that ends
in `**/` is not closed there. A NUL character ends the text for the tokenizer,
and is in no alphabet of the model.

### DeferredQueue

Time is counted in ticks of the queue's tolerance (5 ms) and passes between any
two steps, also between the two readings of the clock in `fetch_job`. The
negative number that can result is converted to an unsigned one, which the
language leaves undefined: the wait then ends at once or never. A job whose
fire time is taken overwrites the one that has it (`overwritten`).

### DateText, RatesStorage

A date of the server, `dd.mm.yyyy`, is split and read with `atoi`, written again
as `yyyy-mm-dd`, parsed as a time stamp, given to `mktime`, and accepted if what
`localtime` makes of it is the date that was read (`Convert`, `Scan`, `Finish`,
`Check`). One `Scan` is one character of `parse_iso_8601`. The same parser reads
what `to_iso_8601_str` writes. `mktime`, `localtime` and `gmtime` are the
calendar with a fixed offset. The fraction of a time stamp is added to its seconds in a `long double`,
which has 53 bits with the compilers of Windows, and cut off to nanoseconds (`Ticks`,
`NanosecondsOf`): `.501` in 2024 is read as 500.999927 ms. The model has fractions of three digits, which is what
`to_iso_8601_str` writes for the log, and times from 2^29 s (1987) on, whose ticks it knows. `StampIsTheTime`, a part of `ReadAsWritten`, says that the
second comes back and the millisecond to within a microsecond, and leaves out two kinds of
times that do not come back, both in its comment.

`RatesStorage` has what `FetchLogic` abstracts to a set of dates: the keys, the
dictionary and the lookups. `add` takes a response one record at a time (`AddResponse`,
`AddRecord`; `coming` is what it has not come to yet), while its caller has the database
locked: no save or load comes in between. `given` and `filed` remember what was added by
date, so that the lookups have something to be compared with. The days of a table are those whose
key it has (`HeldDays`), which is how the database is a `DayStore`.

### JsonText

One member with a name and a string is written with `serialize_actual` and read
as simdjson reads it. The characters are code points; the conversions work on
their bytes and on a `wchar_t` of 16 bits, that of Windows. One `ConvertChar` is a
round of `from_utf8`. `simdjson` is an action per character of what
is `unread`. `unescape`, which the fallback path reads strings with, is
compared with `escape` alone. Both are functions over the places of a text, with one
operator for what happens to a character (`EscapedChar`, `UnescapeChar`).

### HttpFields, HttpRequest

A header is a sequence of words, digits, delimiters, blanks and line ends; what
the server means by it is a list of fields with the lines and blanks it writes
them in, and the properties compare what is read with that list. `ReadField` is a round of
`send`'s loop, `SearchType` one of `fetch_rates`' loop over the fields; a body that is no JSON throws, which
ends `fetch_rates` and not this field only.
`HttpRequest` takes a date through `given_date_rates`, the constructor of
`Request` and `encodeHtml`, and other URLs through the last two. `IsUrl` says which URLs
the property speaks of.

## 3. Runs

| Run | Instance | Shows |
|---|---|---|
| `queue_safety` | 2 producers, 3 worker identities, 2 threads, length 1, 2 ordinary and 1 urgent job; symmetry of threads | the queue implements `JobPool`; `QueueBound`, `ThreadBound`, `DoomedTakesNothing`, `QuietAfterDestroy` |
| `queue_live` | 2 producers, 2 workers, 2 jobs, length 1, fairness | `AcceptedJobRuns`, `BlockedProducerProceeds`, `DestructorReturns` |
| `fetch_safety` | 1 regular and 2 retry workers, 2 days, 1 crash, 1 failing open or write | `NoGap` (while no file has failed), `StoredIsKept` (while the process lives) |
| `fetch_live` | 1 regular, 1 retry worker, 2 days, fairness | `GapsClose`: once the server answers, every day that was due gets stored |
| `fetch_crash` | 1 crash | **violated**: a crash during a save loses every stored rate |
| `fetch_scan` | no crash | **violated**: a failed date is asked for again within one scan |
| `locks_all` | regular and retry fetcher, cron thread, updater, ServiceMain, fairness | `OnlyLogAndConfig`, `StopUnlessCrossed`: every circular wait contains the holders of log and config, each waiting for the other's lock, and a fetcher has the log; without it, and with room in the queues, a stop completes |
| `locks_stop` | the same | **violated**: that deadlock keeps the service from stopping |
| `service` | queues of length 2, fairness | `NoNewJobOnDeadLogic`, `StoppedIsLast`, `StopHonoured`, `ExitWaitsOnlyForJobs` |
| `service_pending` | the same with length 1 | **violated**: a stop after a failed load stays pending |
| `support`: log | 2 schedules, 2 names, 2 edits, 1 logging thread | `OptionsFromOneEdit`, `LogAsApplied`, `EditTakesEffect` |
| `support`: lock | 3 callers, both preferences | `CounterExact`, `PreferredFirst`, `WaitersProceed` |
| `support`: ring | capacity 3, 2 values, both kinds | `SlotsHoldWindow`, `KeepsLastValues` |
| `support`: http | 5 bodies, all framings, chunkings and splittings | `ResponseAsSent`: no byte is lost or added (`BodyAsSent`), and none is waited for in vain (`NoWaitAfterEnd`) |
| `support`: reader, object, tokenizer | 9 tokens; arrays up to 3 elements with holes; texts of 6 characters over 6 alphabets | `FallbackReadsJson` (`TokensAreText` and `ReadsJson`), `RoundTrip`, `RemovalIsExact` |
| `support`: deferred | 2 processors, 2 jobs, length 1, clock up to 3 | `JobsAccounted`, `WakesInTime`, `NoSleeperJoined` |
| `support`: dates | 254 texts, 192 times, 5 zones | `ReadAsWritten` (`KeyIsTheDate`, `StampIsTheTime`) |
| `support`: rates | 3 dates, 2 currencies, 2 rates, 2 responses of 1 or 2 records, saves, loads, lost files | `LookupsAreRight` (`ActualIsLatest`, `LookupIsRight`); the database implements `DayStore` |
| `support`: json | texts of up to 2 characters of 10 kinds, names of up to 1 | `TextSurvives` |
| `support`: fields | 5 status lines, up to 2 of 33 fields | `HeaderUnderstood` (`FieldsAsSent`, `FramingAsAnnounced`, `JsonRecognised`) |
| `support`: request | 220 URLs, 4 texts for a date | `RequestAsAsked` |
| `log` | 1 schedule, 2 names, 2 edits | **violated**: a line is written to a destroyed stream |

`support` checks the type invariants of its modules too. Those of the
queue, the fetch logic, the locks and the service control are theorems (section 5).

**Why the bounds are enough.** A queue of length 1 with two producers is the
smallest in which an unlocked reading can be stale; with three worker
identities for two threads one worker can be built while another is joined;
three jobs put two in one line and one in the other. Two days
give the retry loop a choice; one crash and one fault hit any step, and a second one finds
the same kinds of files (the theorems hold for any number). For the locks two fetchers suffice to close a circle of two
locks, and the circles through a third thread pass through the updater, a cron
thread or ServiceMain, which are all there. Two waiting jobs per queue, with a queue that is full at two, and one
that runs tell "drops", "waits for" and "runs" apart. Two edits are one to switch the log on and one to
rename it or switch it off, with the reload of either delayed. Three callers of the lock are two
of one kind and one of the other, or two that upgrade with a third that waits. A
ring of three slots has a middle one. The bodies include the bytes of the framing itself. Nine tokens reach two levels of nesting with
two members; six characters reach an escaped quote inside a string, a comment, an exponent with
its sign, and each keyword with what ends it. The dates differ in which of them is the last when zeros are left out or days and
months are swapped; the texts of dates have each kind of number that `atoi` takes or refuses at
each place. The characters are one of each way through the conversions and escapes, and two of them put each before
each. Two
fields are enough for one to hide, repeat or contradict another. The deferred jobs fire before and after one
another, at one time, and in the past.

**Fairness.** *CommandQueue*: every wait is timed and every sleep ends, so each
thread that can go on does (weak fairness per thread). `evt_mtp_` is asked for
again and again by several threads; that each gets it in the end is strong
fairness on `Lock`, `Wake`, `Push` and `NotifyAll`, a promise of the platform's
mutex rather than of this code. A job's function ends, and creating the
first thread does not fail for ever. Nothing obliges anybody to call `add_job` or to destroy
the queue. *FetchLogic*: the retry cron ticks, workers run, locks are obtained,
and a request ends one way or the other: an assumption about the server and the
network, because the client waits without a timeout. `GapsClose`
assumes in its own statement that the server stops failing. *ServiceLocks*:
locks that are free again and again are obtained, loops whose condition is
false return. *ServiceControl*: the threads run and their loops test their
flags, `add_job` sees room when there is some (only one thread fills the queue) and a free worker
takes a waiting job; no fairness is assumed of the end of a job, of the service manager's stop or of the
cron ticks. `StopHonoured` has as its condition that no queue stays full for ever, and `ExitWaitsOnlyForJobs` has the end of the running jobs as its condition.
*MCSupport*: the updater runs and gets the lock of the log (strong fairness of
`SetLog`), `LOG` statements end, callers of `rw_lock` that can proceed do and
unlock in the end.

**Deadlock** checking is off in four kinds of runs: the locks (the service may stop, and
a circular wait is what the properties are about), the service (the process
ends, or stays as it is after an early `break`), the support run (two callers that upgrade wait
for each other; a reader that is done stops, a function that has returned too; bounded
documents and clocks end) and the
log (a configuration that cannot be loaded ends it).

## 4. Findings

1. **Deadlock of log and config** (`locks_stop`). logic 182 locks the log and then
   the configuration; logic 183 with `rates_storage.hpp:32` locks the configuration and then the log.
   A regular and a retry worker that store rates at the same time can block each other; the
   updater and the cron threads then block on config or log, and ServiceMain
   never gets through its joins. `locks_all` shows that it is the only circle of locks, and
   that without it a stop completes as far as locks and joins go, if the queues get room. If they do
   not, a stop can hang without this deadlock, in `add_job` (below).
2. **A crash during a save loses the database** (`fetch_crash`).
   `file_util.cpp:633-643` truncates the file in place; `storage::load` then
   starts empty, and the next save makes the loss final.
3. **Retries do not wait for the next scan** (`fetch_scan`). The retry job loops
   until the schedule is empty and a failed date stays in it, so it is asked for
   again at once, without a pause and always the same one.
4. **A stop that stays pending** (`service_pending`). The `break` after a failed
   load (Main 323) skips the cleanup. The service still reports RUNNING and accepts a stop,
   which the handler reports as pending; nobody waits for its event.
5. **A line written to a destroyed stream** (`log`). `setup_log` (Main 85) replaces the stream the
   log points to, opens the file, and sets the log afterwards: a `LOG` statement of another thread
   in between uses a stream that no longer exists.

Seen while modelling; no run has them as its property, and the properties that are
checked say what they leave out: a stop that waits for a full
queue, because `add_job` polls while the queue is full and tests no termination flag (queue 298): a cron thread that
is inside it (logic 57 and 85) keeps the join of logic 35-36 waiting while the jobs of the
queue do not end, as the retry jobs do not while the server fails (finding 3), or a job that receives from a silent
server. "Stop globally" (Main 366) does not reach that loop; the queues have a length of 10000 (Main 314-315), so that
it takes as many scans; the key of `get_exchange_rate` has a day of one digit where the
database's has two, so that a rate of the first nine days of a month is not found (`rates_storage.hpp:43`;
the service does not call it); names are written without escapes (`json.hpp:1016`) and
control characters without a letter of their own as they are (`json.hpp:69`), which makes a data file
that simdjson refuses; `from_utf8` never ends on a text with a zero character in it (`str_util.cpp:155`);
`LOG` through a null pointer when the registry has no configuration path (Main 74);
`std::terminate` when `erl.init()` throws (Main 360); jobs that lock the
configuration after its destruction at the end of the process (`globals.cpp:8`);
days that are neither stored nor scheduled when a save fails (`rates_storage.hpp:33`); a
header that arrives in two pieces is not read (`httprequest.hpp:766`);
a content type with a blank before its semicolon is not recognised
(`exchange_rates_fetch_logic.hpp:176`); an encoding that is folded away from its name is
refused (`httprequest.hpp:789`); the offset of a time whose local date is not that of UTC is a day
off (`timespec_wrapper.hpp:286`), a fraction rounded to 1000 loses a digit (line 260), and a date
before 1970 has no `tm` (line 409); `atoi` ignores what precedes a sign (`str_util.cpp:252`);
characters beyond 16 bits do not survive the data file (`str_util.cpp:155`);
two jobs with one fire time (`command_queue.cpp:50`); the
branch of `push_back` that stores a value without moving the first position (`ring_buffer.hpp:246`); two readers that upgrade
(`rw_lock.hpp:60`).

## 5. Proofs

**`CommandQueueProofs`**, for any finite sets of producers and workers, any jobs
and any bounds (`ConstantsAssumption`: finite sets, `None` is no worker and no
job, the bounds are positive and there are at least as many worker identities as threads):
`TypeCorrect`, `QueueIsBounded` (the length passes `max_queue_len_` by at most one job for
each other producer), `ThreadsAreBounded`, `QuietWhenDestroyed`, `DoomIsFinal` (a doomed worker
takes no further job).

None of these is inductive. `Inv` ties the places of the threads to the shared
state: who holds the mutex (`MutexInv`), which workers have a thread
(`PoolInv`), what the arbiter's `victim` is (`VictimInv`), what the flag says
about a worker in its critical section (`FlagInv`), who has a job in hand
(`HandInv`), that the size is exact (`SizeInv`), that each producer past the
length test has its place reserved (`RoomInv`: the reason for `QueueBound`), and
the order of the destructor (`DtorInv`). The delicate part is `FlagInv`. A worker
whose flag was reset by its own constructor while it held it is "armed" with
the flag at 0, which `prepare_for_stopping` would take for idle; it is not
doomed because it has not worked yet, and because the arbiter never finds more
than `max_threads_` workers (`VictimInv`), the one other ground to doom it.
`InitInv` and one lemma per thread (`ProduceInv`, `WorkInv`,
`ArbitrateInv`, `DestructInv`) give `StepInv`; the theorems follow by temporal logic.
The invariant was checked with TLC on the instance of `queue_safety` before it was proved.

Its second part, from the same assumptions, proves `ImplementsPool`:
`Spec => PoolSpec`. Besides `Inv` it needs that a job is in one place at a time:
once within its list, hand or call (`OnceInv`), and in one of those only
(`ApartInv`); `OncePerJob` is that invariant. Five steps touch the state of the
pool (`Call`, `Push`, `Take`, `Finish`, `Destroy`), each with a lemma saying what
it does to the places, and `OtherSteps` shows that all others stutter. The
bound on jobs in hand (`RoomForOneMore`) maps the threads that hold a job onto
the jobs in hand, and uses that the worker about to take one holds none.

**`FetchLogicProofs`**, for any sets of workers, days, jobs, crashes and faults:
`FetchTypeOK`, `StoredIsKeptAlways` and `NoGapAlways`. The invariant says who can be where
with which date (`Places`), that a worker with an open file holds its lock
(`Holders`), that the file never holds more than the storage and a worker that saves has its date in it
(`Memory`), what was stored is kept (`StoredIsKept` itself: the storage of a live process only
grows, so that no save puts back older contents), and that without faults a date past its save is in
the file (`SavesArrive`). `NoGap` follows day by day: what the data file shows or is
about to show never shrinks (`DataViewGrows`), the schedule loses only the date
that is unscheduled (`ScheduleViewKeeps`), and that date has just been saved. A crash is a case of its own (`CrashStep`): whatever of these two views it takes away belonged to a file
that was open, and whatever date was in a regular worker's hands is exposed (`AtStake`), so that every other day
is still where it was. `StoredIsKept` has `crashes = 0` as its condition: after a crash
during a save what was stored is lost (`fetch_crash`, finding 2).

**`ServiceLocksProofs`**, for any sets of fetchers and cron threads: `LocksTypeOK` and
`OnlyLogAndConfigAlways`. A stretch of code is a sequence of lock operations, and what a thread
holds is what the rest of its stretch releases without acquiring it first (`OpenFrom`, `HoldersInv`). Every
stretch acquires its locks along one order (`Order`, `Tidy`), with one exception: the `LOG`
statement of a fetcher that takes the configuration while it holds the log. In a circle of waits
somebody must go against the order, so the holder of the log is such a fetcher; the
holder of the configuration is on the circle too, and all it can want there is the log.

Its second part is `LogConfig`, what two of those locks are for, with any schedules, names, edits and
threads: `OptionsFromOneEditAlways`,
`LogAsAppliedAlways`. The invariant (`LcInv`) adds that a valid text in the file was offered (`Sources`)
and where `setup_log` is between the old and the new log (`Progress`).

**`ServiceControlProofs`**, for any number of jobs: `ServiceTypeOK`, `NoNewJobAlways`,
`StoppedIsLastAlways`. `JobsSafe` says that the cron threads are over before the
logic is dead, and that from then on the jobs only get fewer. `Protocol` ties the
event to the handler: the event is set only by the last step of the handler, so
a ServiceMain that was woken by it writes the status alone; and no second stop
is sent, because the status told no longer accepts one.

**`SupportProofs`** has three parts. *rw_lock*, for any finite set of callers: `CounterExactAlways` (mutual exclusion) and
`PreferredFirstAlways`. The counters of those who wait count exactly them and those
on their way out with the lock (`PendingExact`), and the callers `ahead` of somebody still wait and are of the preferred
kind (`AheadWaits`); hence a look that finds a zero finds nobody ahead.

*ring_buffer*, for any capacity and values: `SlotsHoldWindowAlways` and the
refinement `KeepsLastValuesAlways`. The arithmetic of the wrapped indices is reduced once to
"offset from the first slot" (`Modulo`, `Index`, `Offsets`); each operation then
maps to the window's operation of the same name.

*deferred_command_queue*, for any processors, jobs and times (`NoTimer` is none of the
times): `WakesInTimeAlways`, `NoSleeperJoinedAlways` and `JobsAccountedAlways`. A processor between its test and its wait has the lock
(`LockedFetch`), so the wait it computed still fits the first job when it falls
asleep (`WaitsFit`), and after the notification, which needs the lock, nobody
gets past the flag (`NobodyFetches`). That no job is lost or run twice is stated by places
rather than by counting: each job that was added, and whose fire time nobody took, is queued, in exactly one
hand, or done, and the places exclude each other.

**`HttpProofs`**, for URLs of the service without a bound on the length of their
parts (`HttpRequestConstants`, `IsUrl`: a delimiter stands in front of its part, or where the
syntax of URLs allows it inside one): `RequestAsAskedAlways`. The parser cuts the text at delimiters, each time at the
first one it finds. `FirstPlace` says what a cut gives once the first place is known, and
`CutPart` that a part of words without the delimiter is cut off whole; `AuthorityCut`,
`SchemeSeen` and `PartsBack` follow `parseUri` through the text of a URL from left to right, and
`RequestOfUrl` carries the parts into the request. The invariant (`RqInv`) is that what has been
parsed and sent so far belongs to the URL asked for.

Its second part is `HttpReader`, for any set of bodies of any length and any chunks:
`ResponseAsSentAlways`. `ResponseAsSent` says nothing about the bytes that have not been parsed, so the
invariant (`HrInv`) says where in the message the reader is: in the header, in the body, or in
a chunk, between it and its line end, or at the size of the next one (`Place`); that the bytes
at hand, and those on their way, are the message from there on (`Unread`); and that a
reader that waits has fewer bytes than its next step takes (`Wanted`), which is why none is waited for
in vain. `SizeLine` gives what stands at the beginning of each chunk, `SizeSeen` what a search for the line
end finds there, however much has arrived; a body may contain line ends and sizes itself. There
is one lemma per action (`ReceivingKeeps` to `ChunkLineKeeps`).

**`RatesStorageProofs`**, for any set of days of the years 1970 to 9999, any currencies and
responses: `LookupsAreRightAlways`. The invariant relates the database and the history (`Agree`): the keys are the
texts of the days added, and under each key is what was given for that day; the same for
the file. What makes it say something are the lemmas on keys: a key is eight characters, the
decimal digits of its day (`Width`, `Padding`, `KeyIs`); two days never have one
key (`KeyDistinct`); and the order of the texts, which `get_actual_ex_rate` relies on when it takes the
last member, is the order of the days (`PrecedesIs`, `KeyOrder`). Of any days one is the last (`LatestDay`), although
nothing bounds how many there are. A key with a day of one digit has seven characters
(`KeysAsked`) and is not found, which is the exception `LookupIsRight` makes.
From the same lemmas `StorageIsDayStore`: a record adds its day, and because keys are distinct it makes no
other day appear (`RecordAddsDay`). `DatabaseTypes` is the type invariant, with what the rows of
the file hold as its strengthening (`RowInv`).

The second part is about the documents of `JsonObject`: `RemovalsAreExact`, for arrays of any length. The code moves
the elements behind the removed one with a loop over a map that has holes and reads its bound
after the erasure; the theorem says that what is left is the list without that one
element. `RemovalIs` says which indices are in use afterwards and what is at each, `SizeAfter` that the
array gets shorter by one unless the last element goes, and `RemovalExact` compares the lists. The
invariant (`JoInv`) is the type of the document and that its indices are within `MaxIndex`, so that they have a
greatest one.

**`JsonProofs`**, for any code points, texts of any length and any bounds: `UnescapeUndoesEscape` and
`TextsSurvive`. Three facts carry it. The bytes of a text are those of its characters one after another, so
`from_utf8` in front of the bytes of a character of 16 bits finds that character and moves by
its length (`CharOfBytes`, `ConvertsNext`). To escape the characters of a text or its bytes is
the same (`EscapeCommutes`), for what is escaped is ASCII, and no byte of a longer
character is (`UtfBytes`). And simdjson in front of an escaped text takes its first character or, if there is
none, finds the quote (`ReadStep`). The invariant (`JxInv`) says for each
phase what has been converted or read and what stands in front of the reader (`OnTheWay`), if
the texts are of those that have to survive (`Good`).

What `FlattenSeq` and `Unescaped` give for every length is induction over data, and is done by
the least number for which something fails (`LeastNumber`): a loop has a run to its end
(`LoopEnds`), the function that a recursive definition chooses is that run
(`FlattenIs`, `ScansIs`), and a set of texts that has the empty one, and each text one character longer
than one of its own, has them all (`TextInduction`).

**Only model-checked:** `JsonTokenizer`, `JsonReader` and `JsonSerializer` (their reference definitions are recursive);
`HeaderUnderstood` of `HttpFields` and `ReadAsWritten` of `DateText` (loops and folds over
texts in several phases); the type invariants of `JsonTokenizer`, `JsonReader`,
`JsonText`, `DateText`, `HttpFields` and `HttpRequest` (those of the other components are theorems or
part of the invariants above); `StopUnlessCrossed`; everything with liveness. Liveness under fairness and ENABLED
are out of reach of the prover, and so are the library's induction theorems and RECURSIVE operators.

## 6. Not modelled

* Pure functions that the service does not use: bit and number utilities, base64, `any`,
  `set_of`, `unescaper`, conversions of JSON numbers, merging of documents. Negative
  years, and dates before 1970, for which `mktime` fails.
* File names (`good_file_name_or_candidate`): the answer is the file system's.
* The vendored libraries (simdjson, WinReg, croncpp), which are most of the lines of
  the repository: the models take from them what the code that calls them sees, a parsed
  value or an exception, a string or an error, the next time of a schedule.
* Service installation and command line: one-shot calls of the Windows API.
* Sockets and TLS: calls of their libraries. `HttpReader` has what they deliver.
* The timing statistics of `command_queue`, abstracted as said above; the exit of
  `rw_lock` after too many spins in builds that ask for it.
* Data races on plain variables (`g_ServiceStatus`, `global_termination`) beyond the
  order of their single reads and writes.

## 7. What could follow

What the models of the service's components leave out is said above. Worth adding:
a reload that reads a file an editor has half written, byte by byte; the lookups of `RatesStorage` in the
steps in which they lock the database; the tokenizer and the reader of JSON composed;
`DateText` for all dates, digit by digit with the lemmas of `RatesStorageProofs`; and
`ServiceControl` over `JobPool` instead of its counters.
