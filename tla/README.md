# A verification project for marc

marc captures what AI coding agents send to and get from a model, ships it to an object store, turns it
into events in ClickHouse and asks its user about the decisions found in them. This directory holds TLA+
models of that pipeline, the TLC configurations that check them on small instances, and proofs about them
that TLAPS checks. Line references are to `src/`.

```
 request ─▶ proxy ──channel──▶ writer ──┐
                                        ├─▶ capture.jsonl ─▶ shipper ─▶ raw/<machine>/ ─▶ processor ─▶ ClickHouse
 marc-bot (another process) ────────────┘     (rename)      (PUT)      (MinIO)          │ cursor     │
                                                                                        ▼            ▼
              user ◀─ Telegram ◀─ bot tick ◀─ pending_questions ◀─ question generator ◀─ archive   events
```

## 1. The system

| part | its state | its operations | it meets others through |
|---|---|---|---|
| proxy, requests (`internal/proxy/handler.go`, `sse*.go`) | one goroutine per request | relay to the upstream, stream back, build an event | the event channel; the context of the process |
| proxy, capture path (`proxy.go`, `writer.go`, `capture.go`) | bounded channel, closed flag, overflow counter | `Run`, `sendEvent`, `runWriter`, shutdown | the capture file; the signal |
| proxy, health (`health.go`) | counters, two time stamps | record, snapshot | request goroutines |
| capture file (`internal/jsonl`) | the file at a path, a mutex per process, a lock per inode | `AppendEvent`, line iterator | every process that appends; the shipper's rename |
| shipper (`internal/ship`) | `<path>`, `<path>.shipping`, uploaded objects | `runOnce`, `recoverShipping`, `uploadAndRemove`, key format | the writers' inode; the object store |
| object store client (`internal/minioclient`) | none | put, move, list, get | shipper, processor |
| processor (`internal/process`) | staged file, machine cursors | tick, visit a machine, process an object, denoise, insert, archive | object store, SQLite, ClickHouse, models |
| state database (`internal/sqlitedb`) | `processor_cursors`, `question_gen_cursor`, `pending_questions` | get/update cursor, insert question, statistics | processor, generator, bot |
| question generator (`internal/generate`) | its cursor | one cycle: read, query, count, ask the model, insert, advance | ClickHouse, SQLite, model; other cycles |
| question sender (`scripts/marc-bot-tick.py`) | none between ticks | pick, send, mark | SQLite, Telegram; other ticks; the answer handler |
| model clients (`internal/ollama`, `minimax`, `passthrough`) | none | denoise with retries | processor |
| run wrapper (`internal/clauderun`) | run ledger and its temporary file, crash-loop guard | guard, launch, record, prune | other wrapped runs through the ledger file |
| self update (`internal/update`) | the binary, `<target>.update.tmp` | fetch, download, check, replace | other updates; whoever executes the binary |
| configuration (`internal/configure`, `config`) | the configuration file | wizard, checks of the services, write, load | services and doctor, which load the file |
| services (`internal/install`) | unit files; what the service manager made of them | install, gate, roll back, uninstall | systemd or launchd; the binary it tests |
| doctor (`internal/doctor`) | none | configuration, units, port, health page, store | everything the other commands leave |
| self-test (`internal/selftest`) | a proxy and a capture file of its own | start, poll, send, read, judge | the proxy; its health page; install's gate |

What is hard here. Two processes append to one file that a third renames, with no lock between writers and
the shipper. Every part may be killed between any two of its calls and starts again from what is on disk.
A call that reports an error may have taken effect. The processor trusts the order of object keys, the
generator the order of capture times, and both keep a single cursor. Generator and sender are started by
timers and by hand, and nothing keeps two of them apart. The proxy must never make its client wait for a
capture, nor leave captured events behind when it stops. The commands of a host share files and take no locks:
two wrapped runs rewrite one ledger, two updates copy to one temporary path, and configure, install, the
service manager and doctor each act on what the others are in the middle of changing.

What makes each part correct:

* *capture file*: lines stay whole; every call returns; what was acknowledged is kept;
* *shipper*: every file reaches the bucket, kills or not; only faults make duplicates; a waiting file drains;
* *processor*: no object vanishes; an archived object is completely stored; a cursor passes only what is
  done with; internal calls do not come back as events; everything is consumed in the end;
* *generator and sender*: the queue is bounded; no decision is passed over; each question is sent, once but
  for explained repetitions; an answer is not lost;
* *proxy*: accepted events are written in order and before the end; the process ends; the health page says
  what was so while it was read;
* *run wrapper*: the ledger is the newest end of the history, and the guard judges by it;
* *update*: what stands at the binary's path is whole and verified;
* *configure, install, doctor, self-test*: what a command says in the end is so.

`PROJECT.json` lists every hazard at its line with the properties that watch it.

## 2. The modules

| module | models | checked through |
|---|---|---|
| `CaptureFile` | `jsonl/append.go`: appenders of several processes, and a rotation as their environment | `MCShipper` |
| `Shipper` | `ship/*.go`, with `CaptureFile` (EXTENDS) | `MCShipper` |
| `Delivery` | the abstract promise of the server side; no code of its own | `MCProcessor`, as a property |
| `Processor` | `process/process.go` with the object store, the cursor table and ClickHouse as it uses them | `MCProcessor` |
| `ModelCall` | `Processor` with the inside of its calls: `minimax/client.go`, `ollama/client.go`, `process/event_builder.go` | `MCProcessor` |
| `Generator` | `generate/generate.go`, and the queue as it sees it | `MCGenerator` |
| `QuestionQueue` | `scripts/marc-bot-tick.py` and the user, with `Generator` (EXTENDS) | `MCQuestionQueue` |
| `ProxyCapture` | `proxy/proxy.go`, `writer.go` and the course of a request in `handler.go` | its cfg |
| `ProxyHealth` | `proxy/health.go`, with `ProxyCapture` (EXTENDS) | `SelfTest` |
| `SelfTest` | `selftest/selftest.go`, driving the proxy of `ProxyHealth` (EXTENDS) | `MCSelfTest` |
| `RunLedger` | `clauderun/*.go`: several wrapped runs and the ledger they share | `MCRunLedger` |
| `Updater` | `update/update.go`: several updates and the binary | `Host` |
| `Configurator` | `configure/client`, `configure/server`, and the loading in `config` | `Host` |
| `Services` | `install/*.go` and the service manager, with `Updater` and `Configurator` (EXTENDS) | `Host` |
| `Host` | `doctor/doctor.go` and the composition of all commands (EXTENDS `Services`) | its cfg |
| `CaptureFileProofs`, `ShipperProofs`, `ProcessorProofs` (with `ModelCall`), `ProxyProofs` (`ProxyCapture`, `ProxyHealth`, `SelfTest`), `GeneratorProofs`, `QueueProofs`, `LedgerProofs`, `HostProofs` | theorems about the modules they are named for | |

```
 CaptureFile ◀─ Shipper        Processor ◀─ ModelCall      Generator ◀─ QuestionQueue
 ProxyCapture ◀─ ProxyHealth ◀─ SelfTest                   Updater, Configurator ◀─ Services ◀─ Host
 refinements: Shipper ⇒ CaptureFile      Processor ⇒ Delivery      QuestionQueue ⇒ Generator
```

Each model has one action per call or system call that another actor can see the effect of, so kills and
other actors can come between any two of them.

**CaptureFile.** `pc[w]` is the line of `AppendEvent` a caller is at: take the process mutex (`LockMutex`),
open whatever inode is at the path (`OpenCapture`), lock *that inode* (`TakeFlock`), write in one or two
pieces (`WriteHead`, `WriteTail`), return through the deferred releases (`Return`). `content[i]` is the
sequence of chunks in inode `i`; a line is a head chunk and a chunk with the newline, which is all
interleaving can be seen by. `OpenFails`, `WriteFails` and `Kill` are the error paths and the death of a
process, which frees its locks. `Rotate` renames the capture file away: the writer that opened it before
keeps its inode.

**Shipper.** `spc` walks through `runOnce`: `Recover`, then `ReadShipping`, `Put`, `RemoveShipping` when a
file waits, `StatCapture`, `Rename` (a `Rotate` of `CaptureFile`), and the upload again. `ShipFault` fails
whichever call is due, a PUT that fails may have stored its object; `ShipKill` forgets the volatile state.
`rotated` says which of the two uploads of an iteration it is, as the code goes on to the rename after a
failed recovery and not after a failed upload of its own.

**Processor.** `ppc` walks through a tick: list the machines, list a machine's keys after its cursor, then
for each key download, read lines (`SkipLine`, `LineTooLong`, `Denoise`, `DenoisePoison`, `Insert`), copy,
remove, advance the cursor. `Kind` tells the lines apart that the code treats differently: malformed,
internal, over the event limit, over the reader's limit. `Fault` fails the due call and ends the machine's
visit as every error return does; `DownloadCut` is the network failure the code takes for corruption. A key
is its second and the rank of its random part. `late`, `cut` are history variables for the properties.

**Delivery.** What is left when buckets, cursors, staging files and failures are taken away: an object is
shipped, its events are stored or dropped one by one, it is filed when it has nothing left to say, and
only then removed. `Processor!Delivered` is the refinement mapping (`raw/`, the archive, ClickHouse's rows,
and the events the model gave up).

**ModelCall.** Splits `Denoise` and `Insert` of `Processor` where more can happen than their result:
`Retry` counts the attempts of a call with a transient status, `Answers`, `AnswerUnusable` and `CallFails` end
it; `InsertRow` adds the row `buildEvent` makes, whose id is fresh each time when the event's own is not a UUID;
`InsertFails` may have inserted. The provider is a setting, and the other clients are restrictions of
MiniMax's (one attempt; always an answer), so their behaviours are among these.

**Generator.** `gpc[r]` walks through `Run`: `ReadCursor`, `QueryEvents` (ascending, `LIMIT`),
`CountReady` (full queue: advance and leave), `Generate`, `InsertQuestion` one by one, `AdvanceGenCursor`, which
stores whole seconds. The model answers with an array of any number of questions, whatever the batch holds:
nothing in the code caps it, and several may name one event, or none and get the newest. So a question is its
text and its status, and `longest` remembers the longest answer, which the bounds are in terms of. `Arrive` lets events become
visible in any order. An event is `late` if the cursor has passed its time when it comes, or if a cycle under
way has: that cycle read a cursor beyond it, or got a batch that does. The cycle's own cursor counts, as
another cycle may set the stored one back in the meantime.

**QuestionQueue.** A tick picks the oldest ready row, sends it and marks it: three calls, with a second tick
or a user's answer between any two. `Answer` is external: the handler is not in the repository and is
modelled from the statuses `sqlitedb/schema.go` lists and the marking code expects.

**ProxyCapture.** Requests arrive, are relayed and offer an event to the channel without waiting (`Send`);
the writer receives and appends; `Run` serves until the signal or a listener error, waits in `Shutdown` for
requests in flight or for 30 seconds, closes the channel and waits for the writer. A send on the closed
channel panics (and is recovered by net/http). A request whose event cannot be built (`BuildFails`) offers none.
Events are named by their requests.

**ProxyHealth.** `recordSuccess` and `recordFailure` are two steps of a request each, the atomic counter
(`Count`) and the time stamp under the lock (`Stamp`), and the page is three reads (`LoadForwarded`,
`LoadFailed`, `ReadStamps`), so a page can mix moments. Time stamps are numbered in the order the lock gives
them. `page.true` collects what would have been right at each moment of the reading.

**SelfTest.** `tester` walks through `Run`: set up, poll the health page, send (or let the CLI send), poll the
capture file, judge, tear down. Each poll has a time-out as an alternative at any moment. The proxy lives only
between setup and end and is cancelled by `Judge`; the test's requests are the only ones it has. An append may fail
half way, and the tester may read the file while one is half done: a part of an event, or two run together, is a
`Torn` line. `Verify` looks at what the code looks for in each line (`Content`: not an event, internal, a header's
key, the API key) and for one event of `/v1/messages` without an error.

**RunLedger.** `pc[r]` walks through a wrapped run: resolve the guard, look at the ledger, launch (with the
resume flags, without them, or not at all), end, append the record, count the lines, rewrite. Files are inodes
with a sequence of lines. The rewrite opens the shared temporary path with truncation and writes at its own
offset, so two of them overwrite each other, and a line behind a gap leaves a hole that spoils it.

**Updater.** `upc[u]` walks through an update; a binary has two chunks, which is what it takes to be half
copied. Rename within a file system, rename refused, and copy over `<target>.update.tmp` are the three
ways of `Replace`. An update that still writes to an inode after another renamed it writes into the binary.

**Configurator.** Either command from the questions to the file, which is emptied before it is written.
`StoreResults` are the four checks of the client as functions of what the store answers; `LoadClient`
and `LoadServer` are what the other commands can load.

**Services.** `ipc` walks through install and uninstall unit by unit, in the order each platform has; a unit
file's content is the number of the command that wrote it. The manager is external: it keeps the units of
`active`, starts them from the definition it last read (`loaded`), and rereads at a reload or a boot. On the server
the timer starts a run of `generate` whenever it likes while it is kept (`TimerElapses`), and the run ends by itself
(`GenerateEnds`); an uninstall takes the process and the timer away in one call (`Named`), and then stops the run
there may be (`StopGenerate`). A call that fails may have done its work for some of its units.

**Host.** All of these beside each other, and `marc doctor`, whose checks are one step each. `quiet` is
the history of whether anybody else took a step since it began.

## 3. The runs

Passing runs:

| run | question | distinct states |
|---|---|---|
| `shipper` | Two processes append (two and one event), the shipper rotates at two chunks; up to two failed calls or kills anywhere. Are lines whole, is at most one line of each process late for its upload, do kills alone lose no file, does every duplicate object have a fault, does everything drain, does the shipper leave the appenders what `CaptureFile` promises? | 147,889 |
| `processor` | Two machines, two objects of any of three contents, one truncated body, one failed call, one kill, model calls with all five attempts. Is an archived object completely stored, is an event stored once for its id, is every object behind a cursor explained, does a cursor never go back, is everything consumed, and is all of it a `Delivery`? | 484,514 |
| `generator` | Two cycles overlap over four events, two at one capture time, with `LIMIT 1`, answers of up to three questions and one fault. Does a failure lose no more questions than an answer had, is the queue bounded by the answers of overlapping runs, is no event passed over but late or tied ones? | about 933,000 |
| `queue` | One generator, two overlapping ticks, a user, one fault of each, one question that Telegram refuses. Are repeated messages and answers explained, is every event looked at and every question sent, and is all of it a generator to the generator? | 268,109 |
| `proxy` | Three requests over a channel of one place, a lagging writer, a listener that may fail, a signal at any point. Is nothing accepted lost or reordered, is every panic explained, does the process end? | 58,171 |
| `selftest` | Two requests through the proxy of a self-test, with the CLI or without, and its health page; appends that fail or are read half done. Does the page say what was so, is a pass proven by the lines read and a failure explained by them? | 7,779,050 |
| `run_guard` | Two wrapped runs in one directory, three earlier ledgers, each mode of the guard, one error or kill. Is the ledger the end of the history unless runs overlapped, does the guard judge by it? | 941,019 |
| `host` | Two commands among updates, configuration, installs and doctor, on systemd, launchd or the server and its timer, with two faults or reboots. Is the binary whole, is a configuration in place checked, do doctor and install tell the truth? | 683,444 |

The counts of `generator`, `run_guard` and `selftest` are up to symmetry, of which TLC picks the representatives: the runs of the first two and the requests
of the third differ only in name, and so do the two events of one capture time. None has a liveness property.

Runs that TLC refutes, each of which states what a comment of the code says:

| run | the comment | what happens |
|---|---|---|
| `unshipped_overwritten` | a failed upload's file "is left in place; the next iteration's crash recovery will pick it up" (`ship.go:126-127`) | after a failed *recovery* upload the same iteration renames the next file over it |
| `late_append_lost` | the single writer "avoids the rename-vs-write race" (`proxy.go:130-132`) | a writer that opened the file before the rename writes after it was read for the upload; the file is removed |
| `key_order` | sortable keys allow "a simple cursor" (`key.go:18-19`) | two objects of one second sort by random uuids; the processor's cursor passes the second before it is there |
| `re_emission` | milliseconds are kept "so we don't re-emit the last second's events" (`generate.go:145-146`) | the cursor is stored in whole seconds (`db.go:449`) and the last second comes back |

The disagreements that need no run to be seen, and those whose run would repeat what an action of a passing
run already shows (a partial line after a short write, a cut download taken for corruption, the grace period
that the cancelled context takes away), are in `PROJECT.json` under `findings`, each with the line it quotes.

### Bounds, and why they are enough

Every counter has a bound that is named in its module (`MaxCalls`, `MaxInodes`, `MaxFaults`, `MaxUploads`,
`MaxQuestions`, ...). Two writers in two processes are the smallest number that contends for the inode lock
while each holds its own mutex; a second call of one of them lets it follow a rotation. Three inodes are two
rotations and a current file. Two faults with kills among them are what the shortest losses need
(`unshipped_overwritten` needs exactly two). For the processor the interesting relation is between two keys
of one machine or of two machines, hence two objects. For the generator two events at one whole
second, one before them and one after tell the limit, the tie and the rounding apart, and let one cycle set the
cursor back behind what another has read: without either case in the properties' terms (`Tied`, `late`) TLC refutes
`PassedIsSeenOrLate` on this instance. `Limit = 1` makes `LIMIT`
cut in every query; the `queue` run has `Limit = 2` and a second for each event so that
`SparseSeconds`, the precondition of `EveryDecisionSeen`, holds and the property is not vacuous. Answers of three
questions to a batch of one event, two overlapping runs and a limit of one ready question are where a bound by the
batch would break. A channel of one place overflows with two
events. Two requests are what a self-test's poll of the file can confuse, and what the two counters of the
health page can mix. Two wrapped runs are enough to rewrite one temporary path together; `Keep = 2` makes every
record a reason to rewrite, and the earlier ledgers bring the streak to each side of `Threshold`. Two updates share
the temporary path; two commands of any kind, with two faults or reboots, are every pair that can meet on the
host, and the longest chains (install, reboot, service starts, doctor) fit in them. The bounds on faults also mean that faults stop, which the liveness properties need.

### Fairness

Only specifications with a liveness property state any: `shipper`, `processor`, `queue` and `proxy`.
`WF` on each goroutine or process step, never on its environment: writers and the shipper run whenever they
can (Go schedules them, systemd restarts the shipper), the daemon ticks for ever (`process.go`'s ticker),
timers start cycles and ticks again and again, the proxy's writer and `Run` proceed. Nothing is assumed of
clients, upstreams, users, uploads, kills or faults. Where a step needs an answer from outside (a PUT, an
insert, a message) fairness says that calls return, with an error or not: they have timeouts. In `ModelCall` a
retry is a step of the daemon like any other, so `EveryObjectConsumed` also says that retries end. No strong
fairness is used. The commands of `Host`, the wrapped runs and the self-test are checked for safety only.

`CHECK_DEADLOCK FALSE` stands only where processes are meant to end: the proxy, the self-test, the wrapped
runs and the commands of a host.

## 4. The proofs

`CaptureFileProofs`. `TypeCorrect` and `LinesNeverTorn`: for any writers, processes, bounds, errors, kills and
rotations no line is torn by another. `LinesContiguous` is not inductive: that a tail lands behind its head needs to
know that the head is still the last chunk. The inductive invariant is `TypeOK /\ FlockHeld /\ HeadWritten /\
LinesContiguous`: a writer in its write holds the lock of the inode it *opened* (not of the file now at the path,
which is why rotation is harmless), and between its two writes the last chunk of that inode is its own head. The
process mutex plays no part in the argument.

`ShipperProofs`. `ShipperImplementsCaptureFile`: each step of the shipper is a `Rotate` or a stutter to the appenders,
so `LinesNeverTornByShipper` follows by refinement. `ShipTypeCorrect` includes that an upload under way has a file.
`KillsAloneLoseNoFile`: while no call fails, every file ever created is at the path, waiting, or uploaded, whatever
kills come; its strengthening says that a file about to be removed was uploaded, and that the rename is only reached
when no file waits. `DuplicatesArePaid`: the failure that leaves a stored file waiting pays in advance for the
duplicate its next upload makes (`Paid`). `FewLinesAreLate`: the lines that may still reach a rotated file are those
of writers that have it open; nobody opens it again, and `MutexHeld` (a writer past its `Lock` holds its process's
mutex) leaves one such writer to a process (`LateInv`). Here the mutex matters: without it the bound would be the
number of writers.

`ProcessorProofs`. `ProcTypeCorrect`, `NothingEverVanishes`, `ArchiveImpliesStored`: for any machines, objects, faults
and kills no object is lost between `raw/` and the archive, and an object is archived only if each storable event is
in ClickHouse or was given up by the model. First `KeyInv` (types, unique keys, and that what is listed is there)
makes `ObjectAt(key)` one object throughout a visit. Then `Accounted` carries the argument: what an object had to say
is stored, given up, or in the part not read yet; at the copy nothing is left to read; what is removed is in the
archive. `DaemonDelivers` is the refinement: with `Accounted` every step of the daemon, its uploads, faults and kills
is a step of `Delivery` or a stutter. `CursorsAdvance` and `NothingLeftUnexplained` rest on `CursorInv`: a cursor
stands at an uploaded key of its machine; the keys a visit has still to do lie in front of it, the one at hand before
the others; what lies in front of the daemon and was not listed came late; an object taken for corrupt is truncated or
was cut by the network; one whose cursor is about to advance is no longer in `raw/`. That keys are totally ordered
follows from `Key` and `Before`. `RowsAreCounted` counts the rows of an event whose id is no UUID: each line the
daemon is done with has paid for one row, and each failure or kill, after which an object may be read again, pays for
one more of every line the event has (`CallInv`); the lines left to read are the end of the object at hand
(`PlaceInv`), so a line is not done with twice. The count says nothing of an object with a line that can never be
read, which is the exception `StoredOnce` makes. `CallsDeliver`: `ModelCall` takes steps of `Processor` only, so every
promise above holds of it.

`ProxyProofs`. `EventsKeepOrder`: the events the channel took are, in order, those handled, the one in the writer's
hand and those in the channel, none twice; inductive together with the types and with `DroppedDone` (an event that was
dropped belongs to a request that is over, so it is not sent again). `NothingIsLeftBehind` adds `EndInv`: the writer
leaves only a closed and empty channel, and `Run` only after the writer; with the order nothing can be missing.
`PanicsAreExplained` rests on `RunInv`: a `Shutdown` that drained leaves no request in flight, and none can arrive
after it.

The self-test drives the same proxy: a step of the test is one of the proxy, leaves it alone or cancels it, so types
and `OrderInv` carry over. `SelfInv` adds that the file has no more lines than the writer handled events, that a whole
line of it, or of what was read, is an accepted event (`FileInv`), that a tester past its request had a good exchange,
that each line read has only the flaws its kind can have, and that without the CLI there is one request (`TestInv`).
`PassMeansCaptured` and `FailureHasAReason` follow.

`PageIsTrue`: nothing orders the counter of a recording and its timestamp, nor the page's three reads. `HealthInv`
ties each to the history of outcomes: a counter has left 0 exactly when an outcome of its kind happened or is being
recorded (`RecordInv`); comparing the timestamps tells the last outcome (`StampInv`); and a page of which nothing
moved has the counters as they are, while one that read two zeros was begun when both were 0 (`PageInv`). It holds of
the proxy alone and of the one under test; `HealthKeepsProxy` says that its steps are those of `ProxyCapture`.

`HostProofs`. `ConfigStaysValidated`: a client's command past its validation holds answers the services took, and the
update, the services and doctor leave the file alone. `DoctorTellsTheTruth`: with nobody interfering, each check that
passed still holds at the next (`DoctorInv`); a step of anyone else makes `quiet` false and the claim void.
`BinaryStaysWhole`: until two updates copy to the shared path at one time, the one that copies has written what
`CopyIsWhole` says, into an inode that is not the binary's; that it can have such an inode is a pigeonhole argument
over the inodes that are named or open, which is why `Updaters` must be finite. After that only the types hold, and
they still say that no chunk of the binary is of an unverified download. `InstallsReportTheTruth` follows an install
or uninstall unit by unit: what it has written, had loaded and stopped of the units before the one it has come to
(`Written`, `StoppedAt` and their companions), so that at the report it holds of all of them. On the server it needs
the order of the calls: the timer starts nothing once it is gone (`TimerKeeps`), and only then is `generate` stopped. It is an action property, since a
reboot or a crash may change the host the moment after.

`GeneratorProofs`. `NothingPassedOver`: that the cursor passes only what is explained is not inductive, since a cycle
writes the time of a batch it read long ago. `SeenInv` says the same of the cursor each run *read* and of each event
in its batch: whatever is not later is explained, or has the time of one in the batch. The query keeps it because it
takes the oldest; an overlapping run that sets the cursor back cannot break it because lateness counts the cycles
under way. `QuestionsAreKept`: no run holds more questions than the longest answer had (`LostInv`), and those in the
runs' hands are counted as pairs of run and position; a fault takes one answer's worth at most. `QueueIsBounded`: a run
asks for questions only when it saw room, so the ready questions, those in the hands of runs that insert, and an answer
for each run still at the model stay within the limit and the longest answer for each run and fault (`ReadyInv`).

`QueueProofs`. `QueueImplementsGenerator`: a tick's mark and a user's answer are the generator's `Deliver`, everything
else of theirs a stutter; so `NothingPassedOver` and `QuestionsAreKept` hold of the composition. For the counts,
`Held(q, at)` is the number of ticks that hold a question before its message (`"send"`) or before its mark (`"mark"`).
`MessageInv`: while a row is ready its messages are those of ticks that have still to mark it or have failed, and when
it is not, only the ticks that hold it can send it again. `AnswerInv`: an answer, and the chance of one that an
unmarked row or a pending mark gives, is paid for by a message but for the first. `RepeatsAreExplained` and
`AnswersAreExplained` follow for any number of ticks. `QueueTypeCorrect` includes that a tick under way holds a row
that exists.

`LedgerProofs`. The invariant `LedgerInv` is a claim about the runs until a rewrite runs beside an append or another
rewrite, or a record is cut short; both are remembered, so nothing has to hold afterwards. Until then an open file is
the ledger of the run that appends or the temporary file of the run that copies (`OpenInv`); the lines a rewrite keeps
are still the newest `Keep` records, because nobody records beside it, and the temporary file holds as many of them as
were copied (`RewriteInv`), so the rename puts the newest end in place of the newest end. `LedgerKeepsTheEnd` is that.
`GuardJudgesRightly` needs one fact about sequences, `CrashesGrow`: the crashes a directory ends with are no fewer in
a longer end of one history. What the guard reads lies between the newest `Keep` records and all of them
(`GuardSees`), so a run it lets through has few crashes in the former, and one it holds has many in the latter.

Assumptions: those named in the modules (the bounds are naturals, `Runs`, `Events`, `Ticks` and `Updaters` are finite,
`None` is not a member of the sets it stands beside, `ProcOf`, `DirOf`, `Captured` and `Kind` are functions on their
sets). The ledgers that an earlier history left (`Earlier`) consist of whole records, and no exit reason is one of the
marks of a spoilt line: a ledger that was spoilt before is, like a record cut short, outside what `LedgerIsTheEnd`
says. TLC evaluates each of them in the runs.

Every safety invariant and action property that a passing run checks is stated by a theorem. What stays with TLC are
the seven liveness properties (`AppendReturns`, `ShippingDrains`, `CaptureRotates`, `EveryObjectConsumed`,
`EveryDecisionSeen`, `EveryQuestionSent`, `ShutdownTerminates`): fairness is outside the prover. No module declares a
recursive operator; facts that need induction over data are not stated.

## 5. What is not modelled

* The contents of events, prompts, questions, objects and unit files; parsing beyond accepted or refused.
* The proxy's routing, its rewriting of bodies and headers, and the aggregation of server-sent events: computations
  on bytes of one request. What of them another actor can see (whether an event comes out, and when) is modelled.
* The throttle between model calls and the waits between attempts: they take time and no step.
* `marc-server init`, which creates the databases in one sequence of statements; flags and their texts; listings and statistics.
* The operations files (unit templates, cron lines, prompts): not code.
* A negative crash-loop threshold, which turns the guard off.
* Events older than a month, which the generator's query leaves out.
* Reordering within a disk: a completed write is durable. A crash of the machine, as opposed to a process, would
  add losses no code here defends against.

Two hazards have no property, and say why in `PROJECT.json`: the grace period that the code takes away itself, and a
second with so many events that the generator's cursor cannot leave it (`SparseSeconds` is the precondition
under which `EveryDecisionSeen` holds; nothing in the code establishes it).

## 6. Plan

Done, in this order: capture file and shipper (where captured data can be lost), processor (where it can be
skipped), generator and queue (where decisions can be missed or asked twice), the proxy's capture path; then the
abstract specification of delivery, the model clients, the wrapped runs and their ledger, and the commands of a host.

1. Theorems about compositions: the proxy's capture path as a writer of `CaptureFile`.
2. `ProxyStream`: the aggregation of server-sent events as an operator, against a reference definition.
3. Composition of the shipper with the processor through the bucket, so that `Delivery` reaches from the capture
   file to ClickHouse.
