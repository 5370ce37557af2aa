# A specification of demd

demd answers `POST /v1/elevations` — a JSON array of coordinates — with the
elevation of each, read from raster files (DEMs) through GDAL. These modules
specify the parts of it in which something can go wrong that a test would
hardly reach: the threads and their queues, the cache of open files and its
back-off, the life of the daemon from its first context to its exit, the file an
index is published in, and the way from a list of sources to an answer. TLC checks
them on small instances; TLAPS proves, for every value of the constants, each property of the
passing runs that is not about liveness.

All references are to the repository's files (`pool.cpp:191` is line 191).

## The system

| part | state it keeps | operations | talks to |
|---|---|---|---|
| startup and cleanup (`main.cpp`) | `ctx`, `workerContexts`, the pool, evhttp, the base, signal events | `main()`, the labels `err` and below, `do_term()`; `demd -w`, `demd -W` | everything below |
| event loop (libevent) | sockets, the wakeup event | dispatch | the rest, by callbacks |
| elevation requests (`elevation.cpp`) | one `elevation_job` per request | `elevation_request_cb()`, `ElevationCompute()`, `ElevationFinish()`, `ElevationAbort()` | the pool, or a context directly with `-t 1` |
| lookup threads (`pool.cpp`) | `pending`, `done`, `stopping`, each worker's `current` (under `pool->lock`); a watch on each job's socket | `PoolCreate()`, `PoolSubmit()`, `poolWork()`, `poolDrain()`, `poolPeek()`, `PoolFree()` | loop thread by `event_active()`, workers by a condition variable |
| context (`context.cpp`) | the datasets in order of precedence, the list of open ones, the grid | `ContextCreate()`, `ContextGetAltitudeFrom()`, `ContextFree()` | datasets, grid, index; one context for each thread |
| dataset (`dataset.cpp`) | GDAL handle, `fail_count`, `next_retry`, bounds | `DatasetCreate()`, `DatasetOpen()`, `DatasetClose()`, `DatasetGetAltitude()` | GDAL; the process-wide lock `datasetProj` for PROJ |
| grid (`grid.cpp`) | cells, their lists, the list of oversized boxes; immutable | `GridBuild()`, `GridBegin()`, `GridNext()` | the context |
| index (`index.cpp`) | a file | `IndexGenerate()`, `IndexRead()`, `IndexVerify()` | file system, datasets |
| paths, SRS helpers (`paths.cpp`, `srs.cpp`) | none | listing and rewriting names, calls into OSR | — |

What makes each of them hard, and the property that answers it:

* **Requests and threads.** A job is in one of two queues, in a worker's hands or
  in a list local to `poolDrain()`. Clients leave, or send more, while it is
  there; a signal may come at any moment. Correct means: a live job is in
  exactly one place (`JobOwnership`), it is answered once (`AnsweredOnce`) with
  what it earned (`ResultsRight`, `ServiceSpec`), no signal and no activation
  is lost (`WorkConserving`, `NoLostWakeup`), no event reaches a freed job
  (`NoDanglingWatch`), and shutdown neither hangs nor forgets anybody
  (`StopReachesWorkers`, `NothingLeftAtExit`, `ShutdownCompletes`).
* **Open files.** Eager loading, lazy opening, evictions, failures and the
  back-off all touch the same list, count and handles. Correct means: they
  agree (`HandlesTracked`), the cap holds (`CapHeld`), the least recently used
  file goes first (`KeepsMostRecent`), precedence is never given up because of
  the cache (`NeverPassedOver`), and a failing file is probed neither too
  early nor too late (`ProbesSpaced`, `HealsWithinCeiling`).
* **Grid and geometry.** The grid must never change an answer (`SameAsScan`), whatever
  the boxes, and never cost more than its bounds (`GridBounded`). A box must never hide
  a value that its raster has (`AnswersFromRasters`).
* **From sources to answers.** Files, directories and indexes of several arguments
  become one list: precedence must be the command line's (`AnswersFromFirstLayer`), an
  index that verified must be as good as its sources (`VerifiedIndexIsSources`), and one
  that was just made must verify (`FreshIndexVerifies`).
* **The file of an index.** Whatever happens while one is written — a kill, a power
  failure, a full disk, another generator — the target must stay as it was or become the
  whole new index (`UntouchedUnlessPublished`, `PublishedIsWhole`,
  `WholeUnlessDiskFilled`), nothing may be left behind (`NoLitter`), and a daemon must
  not accept less than a whole one (`AcceptedIsWhole`).
* **Startup and exit.** A dozen steps may fail into one label while contexts belong to
  `ctx`, to `workerContexts`, or to the pool. Correct means: each is freed once and
  under nobody's feet (`ContextsFreedOnce`), nothing is left (`NothingLeftAtExit`), nothing
  goes before what needs it (`TakenApartInOrder`), one thread at a time is inside PROJ
  (`ProjExclusive`), threads agree about the data (`ServesOneWorld`), and neither
  startup nor cleanup hangs (`NeverStuck`).

## The modules

| module | stands for |
|---|---|
| `Elevation` | what one request is worth: the order of the refusals in `elevation_request_cb()`, the verdicts of `ElevationCompute()` |
| `ElevationService` | abstract: what a client is promised, without threads, queues or sockets |
| `WorkerPool` | the daemon with `-t n`: loop thread, workers, clients, signal; implements `ElevationService` |
| `MCWorkerPool` | instances of it |
| `WorkerPool_proofs` | theorems about it |
| `OpenFiles` | one context: its datasets, which are open, what loading and lookups do to them, the back-off |
| `OpenFiles_proofs` | theorems about it |
| `Daemon` | `main()`: contexts and their owners, every step that may fail, the pool's creation and end, who is inside PROJ |
| `Daemon_proofs` | theorems about it |
| `Raster` | where a raster lies: corners, bounds, the cell of a point |
| `Raster_proofs` | a theorem about it |
| `LookupGrid` | the grid and its cursor; extends `Raster` |
| `LookupGrid_proofs` | theorems about it |
| `Deployment` | `demd -w`, `demd -W`, a daemon over an index or over sources, a lookup through the grid; extends `LookupGrid` |
| `MCDeployment` | rasters, layouts, command lines and points for it |
| `Deployment_proofs` | theorems about it |
| `IndexFile` | runs of `demd -w` that publish an index, a daemon that reads it, the file system between them |
| `MCIndexFile` | instances of it |
| `IndexFile_proofs` | theorems about it |

`Daemon` and `WorkerPool` look at the same threads from two sides. `WorkerPool` is the pool
once it runs, with every job in its place, and leaves out how it came to be;
`Daemon` has the startup, the failures, the contexts and PROJ, and its jobs are two
counters.

### WorkerPool

A variable per piece of shared state, with the code's names: `pending`, `done`,
`stopping`, `current[w]`, `cancelled[j]`, `status[j]`; `wakeup` is whether the
event `pool->wakeup` is active; `watch[j]` is `job->watch`; `ready` is
`poolDrain()`'s local list; `memory[j]` says whether the job is allocated;
`sent[j]` is what was handed to evhttp; `loop` and `pc[w]` are where the two kinds
of threads are.

One action is one critical section of `pool->lock`, one callback of the event
loop, or one step of a lookup between two accesses to shared state. That is
fine enough because everything else a thread touches is its own: a job's fields
belong to whoever holds the job (which is what `JobOwnership` says), and a
worker's context to the worker. The exceptions are finer steps: `poolDrain()`
consumes the activation (`StartDrain`), takes the queue under the lock
(`TakeDone`) and answers without it (`DrainOne`); `cancelled` is a relaxed atomic
flag that is read once for each point (`CheckPoint`) and has an action of its own
for that. Since the flag only ever rises while the job lives and nothing else is published
through it, relaxed ordering shows as a late read, which is an interleaving of the
model.

`poolWork()` does not let go of the lock between handing a job back and looking
for the next one: `Finish` and the head of the loop (`NextJob`) are one action.
`pthread_cond_signal()` wakes one waiting worker, any of them, or none if none
waits; a woken worker has to get the lock (`pc = "lock"`) and may find nothing.
`pthread_cond_wait()` may return on its own (`WakeSpuriously`).

Failures that do not depend on the request — no memory for a buffer, the tokener,
the reply — may happen at each place where the code checks for one (`Refuse`,
`Parse`, `LookUp`, `Serialise`, `FinishReplies`); the watch may fail to install
(`Submit`).

Abstractions. A request is what the decisions read of it; a reply is its status
and its number of points; a point either is a pair of finite numbers or not. Each
request is on its own connection, so the requests pipelined on one connection
are one request and a flag (`piped`). A half-closed connection is a client that
left, as it is in `poolPeek()`. Readiness events without data or end (EAGAIN) are
left out, as are evhttp's own refusals (body or headers too long). When a job is
freed its fields return to their initial values, so that they cannot tell states
apart.

### OpenFiles

`datasets`, `lru` (`open_datasets`), `num_open`, `open[f]` (`hSrcDS`),
`fail_count[f]` and `next_retry[f]` are the code's. `pc` and `at` are the thread's
place in loading or in a lookup; `ground[f]` is what the file has at the point
looked up. `now` and `usable[f]` are the world: a clock, and storage that fails
and recovers between any two steps — also between `DatasetOpen()` reading the
time and `GDALOpen()` returning (`started`). `recency` is history: the files in
the order of their last use, kept by `Use` beside the code's own list so that
`KeepsMostRecent` has something to compare it with. `since[f]` is history too: when the first
of `f`'s failures in a row was begun, from which `ProbesSpaced` counts.

A context belongs to one thread at a time, so its steps do not interleave with
each other. Any file may come from an index (`LoadIndexed`, unopened), be opened
eagerly (`LoadEager`), or be left out (`LeaveOut`: the path is missing, the file
or its index is refused, memory ran out). The grid gives the lookup fewer
candidates than all datasets; those it leaves out are outside of the point, and
`Consult` passes over them without effect, so it is not repeated here. `usable`
covers everything `datasetLoad()` and `GDALRasterIO()` may fail for.

### Daemon

`pc` is where `main()` is, `stack` the labels it returns to from `ContextFree()` and
`PoolFree()`. Each allocation, `pthread_create()` or registration is a step that works or
fails (`Setup`, `InstallSignal`, `CreateContext`, `AllocPool`, `Spawn`, …), and a failure goes
where the code's `goto` goes. `life[i]` is one context, `ctx`, `slots` (`workerContexts`) and
`mine` (`workers[i].ctx`) are the pointers to contexts, each a set of contexts,
`todo` what is being freed, `held` all other things that are allocated. A second
`ContextFree()` of one context is `life[i] = "twice"`, which nothing may reach.

`loaded[i]` is what each path argument gave context `i`. Storage may change while the contexts
load (`StorageChanges`), and memory may run out inside `contextAddPath()`, which skips the
path. `handles[i]` counts the context's open files; while the daemon serves, lookups open and
evict files in any pattern that the cap allows (`Consult` to `Closed`), with `datasetProj`
in `lock`. `GDALOpen()` is outside of it, `datasetLoadProj()` and `DatasetClose()` inside, and
`half[i]` is a file that GDAL opened and whose transformations are not built.
`main()` enters PROJ without the lock where the code does: in `ContextCreate()` and in the
end of `ContextFree()`.

Fewer steps than the code: what `main()` frees with `free()` alone goes with the
step before it, and `evhttp_free()`, which ends open connections, is one step.
The drivers are registered before `Init`; option parsing and the tools end before.

### Raster and LookupGrid

A raster's geotransform and the transformation to the request SRS are one affine map of
pixels and lines (`at`), so bounds of turned and slanted rasters are covered, and the
bends of a curved projection are not. `ComputeBounds` takes each side from two corners
as `datasetComputeBounds()` does, `Pixel` and `Line` invert the map as
`DatasetGetAltitude()` does, and `Covers` is its range check.

`GridBuild` is a function of the boxes, built as the code builds it: extent,
median extents, sides, halving, oversized boxes, lists filled in order. The
cursor is two lists (`cell`, `wide`) that `GridNext` merges. Coordinates are
integers and arithmetic is exact. The code has doubles, where a box's edge and a
point on it go through the same `cellIndex()`: what is needed of it is that it is
monotone, which rounding keeps. A list of the grid is its set of numbers in ascending
order (`Ascending`: the k-th number has k - 1 below it), which is what walking the boxes in
order leaves; an upper median is the least extent that more than half of them do not
exceed. NaN and infinite bounds are not modelled:
`indexParseEntry()` refuses them and `OCTTransform()` fails rather than give them.
The offsets-and-entries array is a list for each cell.

### Deployment

A path is a number, so that files have an alphabetical order; `Rewritten` is what
`PathToVSI()` makes of a name and `Resolved` what `indexResolve()` makes of one in an
index. An argument of the command line is the set of files it names — one, or those of a
directory — and may hold the index. `index` is the entries in order, with their boxes, and
`srs` its `#srs`, the `-s` it was made with; the tools and the daemon that run here have one
`-s` (`RequestSRS`), and an index that was there before may have another.

`Local` is the names that `stat(2)` finds. A daemon skips an argument that it does not
find (`PathExists`, context.cpp:124), be it readable through GDAL or not, and the entries of an
index it takes wherever they are; `-w` and `-W` ask GDAL alone, so that a URL or a /vsi name is a
source for them and no argument for the daemon. Files of a directory were listed and are there.

`IndexGenerate` and `IndexVerify` are the tools over `collectSources()`; `Change`
replaces or spoils a raster between them. `Serve` is `ContextCreate()` over the
arguments: an index contributes its entries, unopened; a file or a directory what
can be opened; an argument that is not there, or whose index is refused, for its boxes or its
`#srs` (`Usable`), nothing. `Begin`, `TryNext` and `End` are one lookup, by
the grid's cursor; `Consult` is the box and then the raster. Once a daemon runs, nothing
changes any more: what open files make of changes is in `OpenFiles`, how the index gets
into its file in `IndexFile`. `fresh` and `verified` are history: from what the index
was made and with what it last agreed, as long as nothing has changed since.

`AnswersFromFirstLayer` has its own account of what is behind an argument (`FilesOf`): the names
in the index it is or holds, none if that is refused, and otherwise its files that are on this
machine. `VerifiedIndexIsSources` compares, after a `-W` that passed, what a daemon over the
index would load (`Datasets`) with what the sources are, and, where a daemon can be given the
sources themselves (`Servable`: no lines, arguments that `stat(2)` finds, names that the tools
leave alone), with what that daemon would load. The first holds for URLs, too; the second
does not, and is not claimed for them.

### IndexFile

`pc[g]` is how far `IndexGenerate()` is in the run `g`; `fd[g]`, `pos[g]` and `buf[g]`
are its `FILE`. The file system is inodes (`data`), what of each is certain to be on
disk (`synced`), and names. A file is the header and the entries' lines, each line
in two halves, since a stdio buffer ends in the middle of a line. `Open` to `Publish`
are the calls of `IndexGenerate()` in their order, `Fail`, `Abandon` and `OpenFails`
its early returns with their `unlink()`.

The world may kill a generator at any moment (`Kill`), take the power once
(`PowerFails`: files fall back to what was synced and some of what followed, names to
what they were or are), and refuse a write for want of space (`full` remembers that). That stdio drops a
buffer it could not write, so that a later `fflush()` succeeds, is what the C
library does. A buffer is written when it is full, which is after a line's end
at least; what is left at the end is `fflush()`'s or `fclose()`'s.

The daemon's side is `IndexLooksLikeIndex()` (`Sniff`), `IndexRead()` piece by piece
while generators go on (`OpenIndex`, `ReadOn`), and its verdict (`Judge`). A line whose
halves do not belong together may or may not look like an entry: both are tried.
Relative paths, bounds and `IndexVerify()` are in `Deployment`.

## The runs

| run | instance | what it shows |
|---|---|---|
| `pool_service` | 2 requests of 11 shapes, 2 workers; 2.6 M states | all safety invariants of the pool, refinement of `ElevationService` |
| `pool_liveness` | 2 requests, 2 workers, fair; 0.3 M | every request is answered, shutdown completes |
| `pool_pipelined` | 2 requests of two points | **violated**: README.md:225 against a client that pipelined before it left |
| `openfiles_cap` | 3 files, `-n 2`, ceiling 3, clock to 2 and back; 0.75 M | list, count, handles, cap, order of use, precedence |
| `openfiles_backoff` | 2 files, `-n 1`, ceiling 5, clock to 10; 1.5 M | the back-off from both sides |
| `openfiles_clock` | the same, clock to 4 and back | **violated**: dataset.cpp:45 against a clock that is set back |
| `deployment` | up to 3 rasters of 5 kinds under 13 command lines, names that resolve to others or that `stat(2)` does not find, indexes of another `-s`, 2 changes; every pair of 60 boxes, 512 mosaics of three, one-cell rasters; 28 points; 2.1 M | grid like a scan, answers from the first layer, a verified index is its sources |
| `index_duplicates` | 2 rasters, one of them named twice | **violated**: README.md:153-155 against lists of different lengths |
| `index_crash` | 2 generators of 3 and 2 sources over an index of 1, disk may fill, one power failure; 2.7 M | accepted indexes are whole, the target is whole unless the disk filled, no litter, target untouched |
| `index_full_disk` | the same | **violated**: index.h:36-38 against unchecked `fprintf()` |
| `daemon_life` | `-t 1` and `-t 2`, 2 paths of 5 kinds, `-n 1`, one change of storage, one request at a time; 1.1 M, fair | ownership, exit, PROJ, order, no more disagreement than disturbance, progress |
| `daemon_refused` | the same | **violated**: README.md:168 and index.h:30 against an ignored result |

Why the bounds are enough. Two requests and two workers are what it takes for a busy
worker to take the job that another was just woken for (`WorkConserving`), for one job to be
finished while the drain of another is under way (`NoLostWakeup`), and for a signal to come
with one job in a worker's hands and another queued or finished. Three of them in three places
at once need a third request, which the run does not have and the theorems cover, as they do
any number. Requests have two points, so that a lookup can be
cancelled and can fail at the second point. With `-n 2` and three files a file can
be evicted while another is opened, and be reopened; the clock of that run only
needs to get past one back-off. `openfiles_backoff` runs to 10 so that the wait
reaches the ceiling (2, 4, 5, 5 …) and stays there. `Horizon` bounds the clock, and
with it the failures: it is a bound on the model and not in the code. Grid bounds
are 2 cells for each box, 4 to a side and 8 in all instead of 64, 4096 and 2^20, so
that oversized boxes, the cut at the side and the halving all happen. Three sources let
a gap begin in one line and end in the next with a whole line after it; lists of
different lengths tell the runs apart. One power failure is a bound on the
model (`power`): what a second one could undo is what the first could.
In `daemon_life` two threads are a first context and another one, whose ways apart are
what the startup is about, and two workers in a race for PROJ; the theorems cover any
number. Two paths under `-n 1` make a lookup evict. `MaxQueued` is the number of requests on
their way, `Changes` how often storage changes or memory runs out while contexts load: both
are bounds on the model. In `deployment`, `MaxChanges` bounds how often a source changes, since
the third change can undo nothing that the first two could not; the command lines hold the
index alone, inside a directory with its sources, before and behind other paths, and a /vsi
name before a local file and before the index.

Symmetry. `pool_service` permutes requests and workers, which nothing but their names
tells apart; no other run uses any.

Deadlock is checked in every run but `deployment` and `index_duplicates`: with no source that
can be read and no index, the tools and the daemon refuse to run and nothing more can
happen. `Stopped` in `WorkerPool` and `Exited` in `Daemon` are the process after
`main()` returned.

Fairness (`FairSpec`). Every thread that can run runs in the end (weak fairness of
`LoopStep` and of each `WorkerStep(w)`), and libevent runs a callback that is due
(`Peek(j)`): it dispatches every active event of an iteration before it polls again.
A mutex with a waiter is always let go here in bounded time, so weak fairness of the
action that takes it is what a scheduler gives. No client, signal, or spurious
wakeup is assumed to come. Shutdown gets no help from fairness of `Terminate`.
`Daemon.FairSpec` has weak fairness of `main()`'s steps and of each worker's: a thread that
can run does, `GDALOpen()` returns in the end, and a lock is not kept for ever. No request, no
signal and no failure has to come, so that `NeverStuck` lets a daemon serve for ever.

## What is proved

Every invariant and action property of the passing runs is a theorem, for every value of the
constants, and so is the refinement of `ElevationService`. What is left to TLC is liveness.

| module | theorems are for any |
|---|---|
| `WorkerPool_proofs` | number of requests, threads and points |
| `OpenFiles_proofs` | number of files, cap (also none, `-n 0`) and ceiling |
| `Daemon_proofs` | number of threads, paths and requests, kinds of paths and cap |
| `Raster_proofs`, `LookupGrid_proofs` | rasters, boxes, points and bounds of the grid |
| `Deployment_proofs` | rasters, command lines, indexes, points and bounds of the grid |
| `IndexFile_proofs` | number of runs and of sources of each |

The assumptions are the modules' `ASSUME`s: finite sets of requests and workers, requests of
the right shape, model values that are not members, at least one thread and one path, a
grid of four cells at least (with fewer, `GridBuild()` would halve a side of 2 to 2 for
ever). Three groups of theorems have a hypothesis more:

* `TransientFailuresHeal` and `FailuresAreSpaced`: the clock is not set back. Without it
  `openfiles_clock` shows the first one false.
* `AcceptedWhole`, `WholeUnlessFull` and `Untouched`: no two runs of `-w` that have their files
  open at once have one name for their temporaries (`[]Apart`). The pid is all that is in the
  name (index.cpp:163), and processes of one machine that overlap have different ones. A run
  may have the pid of an earlier one, as each has that starts in a container of its own after
  the last has ended, and truncate what that one left when it was killed. Containers that
  overlap on one volume do not satisfy it (below).
* `LeavesNoLitter`: no pid ever comes again (`OwnTemporaries`), for a temporary may otherwise be that
  of a later run. With `Apart` alone, a temporary is that of a run that has its file open or was
  killed (`LitterInv`).

**The pool.** The base is `TypeOK` with `JobOwnership`. The ownership of jobs is
inductive together with `AnsweredOnce`, `JobsSetUp` and `PhasesInStep`: that no
job is answered twice needs that it is in one place, that it is in one place after
`PoolFree()` needs that all workers have exited, and that none is appended to a queue
twice needs that a request that has not arrived has no job. The others are
proved on top. `WorkConserving` counts: a signal moves one worker from sleeping to
woken for each job appended, a job taken is one fewer, and a worker goes to sleep
only over an empty queue. `NoLostWakeup` needs that the queue is taken between the
consumption of the activation and the end of the drain. `ResultsRight` is the
inductive invariant of a lookup's progress, and the refinement follows from it:
each reply sent is one that `ElevationService` promises at that moment, each other
step of the pool leaves the service's variables alone.

**Open files.** The inductive invariant `Inv` is `TypeOK`, `Tracked` (list, count
and handles agree), `Recent` (the list is the first part of the history, as long
as the cap allows) and `Placed` (the files loaded so far are those before the
one whose turn it is, so none is opened twice; what is read is open). The lemmas about sequences
say what moving an element to the front and cutting off the end leave; the cap
follows from `Recent` by the cardinality of a sequence's range.
`FailuresAreSpaced` rests on `Spacing`: the clock that was read before an attempt had reached
`next_retry`, and that is at least the sum of the back-offs since the first failure in a row, so
each failure adds one.
The sum is a recursive function; that there is one at all is shown by taking the least
number up to which there is none.

**The daemon.** Layers, each inductive on those before it. `ControlInv` is where
`main()` may return to, that workers run only between their creation and the join and only while
there is a pool, and that whoever has `datasetProj` is where the lock is needed:
`ProjExclusive` follows, since at the steps where `main()` goes into PROJ without the lock no
worker runs. `OwnerInv` says for every point of the startup and of the cleanup which of
`ctx`, `workerContexts` and the pool hold living contexts, that they are disjoint from what is
being freed wherever they are still needed, and that running workers imply that all
contexts are the pool's. `LeavingInv` adds that what is alive is where a later step frees
it, that open files belong to living contexts, and what is held when. The context that
`ContextFree()` comes to is a least element, which exists because the order of numbers is
well-founded. `LoadedInv` and `WorldInv` are what contexts have loaded: the paths that gave some
context anything else than storage has there now (`Stray`) are no more than were disturbed,
since one change or one failed allocation adds one path at most (`AtMostOneMore`), and whoever
owns a context owns one that went through all its paths. `OneWorldServed` follows: where two
contexts differ, one of them strayed, and `main()` looked at the first context before it made
others. `CapInv` is for the types: a context has one more file open
than `-n` allows only on the way to closing one. The attempt to prove the types showed
`Inline`, the lookup of a daemon without threads, to be without the bound on open files that
the workers' lookups have; it was corrected.

**Geometry and the grid.** `BoundsCoverRaster`: for a raster that lies north up, whatever its size,
place, turn and slant, each point that has a cell is inside the bounds taken from the four
corners. The proof bounds the point's offset from the first corner by those of the corners
at the ends of each side, through the inverse map with its denominator cleared. `NoBoxMissed`:
`cellIndex()` is monotone, so the cell of a point lies between those of the edges of any box
that contains it, and the box is listed there, or is oversized and in the list that every
lookup walks; `CellsInGrid` is the other direction: no box is listed outside of the grid.
`Fit`, the halving, ends because a halved side of a grid that is too large is shorter
(`HalvedProperties`), and what it ends with is small enough. `GridInv` is the inductive
invariant of the cursor (`Merging`): the lists ascend and have nothing in common, all that was
given out comes before all that is left, and each box that contains the point is in one of
the three. `SameAsScan` and `GridBounded` follow.

**Deployments.** `Inv` is `GridInv`, `DaemonInv` (what is served is what the command line stands for
now, since nothing changes while a daemon runs), `FreshInv` and `VerifiedInv` (what the tools found
still holds of the files as they are) and `AnswerInv` (candidates that were given out have no value,
but for the one that answers). `FirstValueAnswers` puts the two halves together: a raster with a
value at the point has it in its bounds by `BoundsCoverRaster`, so its dataset is asked,
and the cursor has come to it before any later one. For `FirstLayerAnswers` the list of datasets
is the arguments' lists one after the other, so that layers do not decrease along it and each
readable file behind an argument is there with the argument's number (`LoadedProperties`).
`VerifiedMeansSame`: two lists without repetition with the same members are as long, so
`IndexVerify()` compared their order as well, and the first entry for a path is the only one;
`IndexLoaded` is that a daemon over the index loads just these entries, `BareLoaded` that
one over the sources loads just the sources, since opening the arguments one by one opens what
`collectSources()` lists (`FlattenImages`). The
proof needs that the *index* has no path twice after `indexResolve()`: a relative and an absolute
name of one file are two sources and one path. `NamedOnce` did not say so, and the instance had
no such list; both were corrected.

**The file of an index.** `GeneratorInv(g)` says that a run writes to a file that is nobody
else's now and never was the target, made by itself or by an earlier run with its pid, that
what it has written is the first part of its index or has gaps, and that what is past the
sync is all on disk. A gap is at least two neighbouring pieces (`Gappy`), since a buffer
holds at least that when it is written and lost, and only a full disk makes one: hence a
file with a gap lacks an entry that its `#count` has, or the count itself, and `IndexRead()`
does not accept it. `TargetInv` says that whatever has, or had, the target's name is
finished and on disk to its end; no run opens it again, since its name as a temporary went
with the `rename()`. `ReaderInv` is the daemon: what it has read is the first part of one
such file, even when the name goes to another one meanwhile.

Lists that the code makes by recursion or in a loop are proved about without induction over data:
that a recursive function exists and that each of its values has a property is shown by taking
the least argument for which it has not, by the well-foundedness of the natural numbers
(`LeastNumber`).

**Only model-checked.** Liveness under fairness, for which the prover has no rule (`ENABLED`):
`EveryRequestAnswered`, `ShutdownCompletes` and `NeverStuck`.

## Differences between the code and what is said of it

* `pool_pipelined`: README.md:225-226, "**A lookup whose client has gone away stops** at the
  next point instead of running to the end." The watch on the client's socket fires once and peeks at one
  byte. A client that sent a further request and then left is taken for one that
  is still there. The comment on `poolPeek()` (pool.cpp:214-218) knows that the
  watch just ends; the README does not say so.
* `openfiles_clock`: dataset.cpp:45, "A transient failure heals within the ceiling".
  The back-off is kept in `time(NULL)`: after the wall clock is set back by an hour,
  a file that failed just before is left alone for an hour more.

* `index_full_disk`: index.h:36-38, "Returns 0 on success. On any failure [...] the
  target is left exactly as it was". The results of `fprintf()` are not looked at and
  `ferror()` is not asked: when the disk is full for a while, a buffer is lost,
  what is flushed later succeeds, and an index with a gap replaces the working
  one with status 0. `index_crash` shows the second line of defence to
  hold: `#count` makes `IndexRead()` refuse such a file.
* `daemon_refused`: README.md:167-169, "the server refuses to start on a mismatch rather than
  answer from a box that means something else", and index.h:29-30, "starting anyway would
  serve a silently smaller world". `contextAddPath()` ignores the result of
  `contextAddIndex()` (context.cpp:136, 145): next to any other path that loads, the daemon
  starts without the index. Alone, an index that is refused leaves the context empty and
  `main()` does refuse.
* `index_duplicates`: README.md:153-155, `-W` "reports anything added, removed, reordered", and
  index.h:47, "Order is compared, not just membership". `IndexVerify()` compares membership both
  ways and the order only when both lists are equally long (index.cpp:252). When a source is
  named twice, an index of a, b agrees with the sources b, a, b.

Short of a run, met while modelling:

* The temporary's name differs by `getpid()` alone (index.cpp:163). Two containers over one volume
  in which `demd` is process 1 (Dockerfile:40) write to the same temporary, and one can
  publish what the other is still writing. `TmpName` in `IndexFile` takes both forms.
* `-w` writes names as they were given (index.cpp:198), and the reader resolves a relative one
  against the directory of the index (index.cpp:333): `demd -w dem/demd.index dem` makes an index
  that names `dem/dem/…`. `FreshIndexVerifies` is about names that stay what they are.
* A raster with its first line in the south gets bounds with bottom above top
  (dataset.cpp:352): it is never asked, and an index of it is published and then
  refused (index.cpp:328). The properties of answers ask for north-up rasters.
* `snprintf()` cuts the names of the target and of its temporary at 1023 characters.
* A URL or a /vsi name can be listed for `-w` and `-W`, and the daemon serves it from the index
  they make. Given to the daemon as an argument, it is reported as missing and skipped, since
  `contextAddPath()` asks `stat(2)` (context.cpp:124): the index and its sources are not
  interchangeable there. `VerifiedIndexIsSources` says which sources are (`Servable`).
* `-W` does not read `#srs` (index.cpp:222-294). An index that was made with another `-s` passes
  if its boxes coincide, and a daemon of the `-s` that `-W` was given refuses it
  (context.cpp:209-223). `VerifiedIndexIsSources` is about indexes of that `-s`.
* Each worker loads a context of its own, and only the first one is asked whether it is empty
  (main.cpp:188). A path that could not be loaded for one of them while storage failed is
  missing from its replies for as long as the daemon runs, and a worker may serve nothing at
  all; README.md:231, "Replies are byte-for-byte those of `-t 1`", does not hold of it.
  `ServesOneWorld` bounds the damage by what was disturbed.

## What is not modelled

JSON, HTTP and number formatting; GDAL, PROJ and libevent beyond what the code sees of
them; floating point; transformations that bend edges, for which the box of four
corners may be too small (dataset.cpp:335); option parsing, which keeps no state
beyond its result; joining and suffixes of paths and the syntax of index lines, which are
string functions; the SRS helpers, two calls into OSR; the counter of consulted
datasets, which the log alone reads; the tests, the load generator and the build. In
`WorkerPool` the daemon has workers; with `-t 1` the loop thread computes the same
verdicts in the same order with no queue, and `Daemon` has only what that does to files.

## Plan

Done: pool and service, open files, grid, the file of an index, startup and exit, PROJ,
`IndexVerify()`, and the composition of sources, index, grid and lookup. Every safety property that a run checks is proved. Left:

1. `InlineServer`: `-t 1` against `ElevationService`, without ever sending 503.
2. A refinement of `OpenFiles` by one promise: the answer is that of the first dataset whose
   file can be read.
3. The safety half of liveness: that from every state of `Daemon` and `WorkerPool` some step of
   `main()` is possible, as an invariant.
