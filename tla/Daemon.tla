-------------------------------- MODULE Daemon --------------------------------
(***************************************************************************)
(* The life of one daemon, from the loading of its contexts to its exit:   *)
(* who owns which context when a step of the startup fails, what the       *)
(* lookup threads still use while main() takes things apart, and which     *)
(* thread is inside PROJ, whose state GDAL shares between all of them.     *)
(*                                                                         *)
(* Context i is the one of worker i, counted from 0; with -t 1 there is    *)
(* only context 0, which the loop thread uses.  What workers compute is in *)
(* WorkerPool and what a context does with its files in OpenFiles; here a  *)
(* lookup is the files it opens and closes.                                *)
(***************************************************************************)
EXTENDS Integers, Sequences, FiniteSets, FiniteSetsExt, SequencesExt

CONSTANTS
  Threads,    \* the values -t may have
  NPaths,     \* the number of path arguments
  Kinds,      \* what a path argument may name, out of PathKind
  MaxOpen,    \* the cap on open files of one context (-n); 0 means unlimited
  MaxQueued,  \* bound: requests waiting for a worker, or for their reply
  Changes     \* bound: how often storage changes while the contexts load

\* A path that does not exist, a raster, one that cannot be opened, an index, an
\* index of another SRS or one that is damaged.
PathKind == {"missing", "raster", "unreadable", "index", "unfit"}

ASSUME DaemonAssumption ==
  /\ Threads \subseteq Nat \ {0} /\ Threads # {}
  /\ NPaths \in Nat \ {0}
  /\ Kinds \subseteq PathKind /\ Kinds # {}
  /\ MaxOpen \in Nat /\ MaxQueued \in Nat /\ Changes \in Nat

VARIABLES
  threads,    \* -t
  storage,    \* storage[p]: what path argument p names, while contexts load
  disturbed,  \* how often storage changed or memory ran out on the way
  \* main(): where it is, the labels it returns to, and its result.
  pc, stack, ret,
  \* Contexts: life[i], what each path gave it, how many of its files are open.
  life, loaded, handles,
  next,       \* the context that is created, then the worker that is started
  \* Pointers to contexts: main()'s `ctx`, `workerContexts`, the workers' `ctx`,
  \* and the contexts that are being freed, the first of them now.
  ctx, slots, mine, todo,
  held,       \* everything else that is allocated
  \* The pool.
  stopping, queued, done,
  wpc,        \* where worker i is
  half,       \* half[i]: it has a file whose transformations are not built
  lock        \* who holds datasetProj

storages == <<threads, storage, disturbed>>
control == <<pc, stack, ret, next>>
contexts == <<life, loaded>>
owners == <<ctx, slots, mine, todo>>
jobs == <<queued, done>>
workers == <<wpc, half>>
vars == <<storages, control, contexts, handles, owners, held, stopping, jobs,
          workers, lock>>

Paths == 1 .. NPaths
All == 0 .. threads - 1
Main == -1   \* the thread of main(), as the holder of the lock
Free == -2   \* nobody

Init ==
  /\ threads \in Threads
  /\ storage \in [Paths -> Kinds]
  /\ disturbed = 0
  /\ pc = "calloc" /\ stack = <<>> /\ ret = 0 /\ next = 0
  /\ life = [i \in All |-> "none"]
  /\ loaded = [i \in All |-> <<>>]
  /\ handles = [i \in All |-> 0]
  /\ ctx = {} /\ slots = {} /\ mine = {} /\ todo = {}
  /\ held = {"drivers"}
  /\ stopping = FALSE /\ queued = 0 /\ done = 0
  /\ wpc = [i \in All |-> "none"]
  /\ half = [i \in All |-> FALSE]
  /\ lock = Free

-----------------------------------------------------------------------------
(* main(): the contexts.                                                   *)

\* goto err, with a status of 1.
Fail == pc' = "err" /\ ret' = 1

\* Storage is somebody else's.  What it does after the loading is in the opens
\* that fail.
StorageChanges ==
  /\ pc \in {"calloc", "srs", "load", "array"}
  /\ disturbed < Changes
  /\ \E p \in Paths, kind \in Kinds :
       storage[p] # kind /\ storage' = [storage EXCEPT ![p] = kind]
  /\ disturbed' = disturbed + 1
  /\ UNCHANGED <<threads, control, contexts, handles, owners, held, stopping,
                 jobs, workers, lock>>

\* ContextCreate() for context `next`: the allocation ...
CreateContext ==
  /\ pc = "calloc"
  /\ \/ pc' = "srs" /\ life' = [life EXCEPT ![next] = "live"] /\ UNCHANGED ret
     \/ Fail /\ UNCHANGED life
  /\ UNCHANGED <<storages, stack, next, loaded, handles, owners, held, stopping,
                 jobs, workers, lock>>

\* ContextFree(), to come back to the label.
FreeContexts(these, label) ==
  /\ todo' = these
  /\ stack' = <<label>> \o stack
  /\ pc' = "free"

\* ContextCreate() has failed: it frees what it has, and nobody learns of it.
ScrapContext == FreeContexts({next}, "failed")

\* ... then the request SRS, made in PROJ without the lock.
MakeSRS ==
  /\ pc = "srs"
  /\ \/ pc' = "load" /\ UNCHANGED <<stack, todo>>
     \/ ScrapContext
  /\ UNCHANGED <<storages, ret, next, contexts, handles, ctx, slots, mine, held,
                 stopping, jobs, workers, lock>>

\* What contextAddPath() makes of a path that has memory enough.  The failure of
\* contextAddIndex() is its own affair.
Gives(kind) ==
  CASE kind = "missing" -> "nothing"
    [] kind = "unreadable" -> "nothing"
    [] kind = "unfit" -> "refused"
    [] OTHER -> kind

WithData == {"raster", "index", "part"}

\* Files are open up to the cap.
Capped(n) == IF MaxOpen > 0 THEN Min({MaxOpen, n}) ELSE n

\* What it makes of one when memory runs out: an index is left half read.
Spares(kind) == IF kind = "index" THEN {"nothing", "part"} ELSE {"nothing"}

\* contextAddPath(): a raster is opened there and then, which takes PROJ, an
\* index is read, which takes PROJ for its SRS.
AddPath ==
  LET kind == storage[Len(loaded[next]) + 1]
  IN
  /\ pc = "load"
  /\ Len(loaded[next]) < NPaths
  /\ \/ /\ loaded' = [loaded EXCEPT ![next] = Append(@, Gives(kind))]
        /\ handles' = IF kind = "raster"
                      THEN [handles EXCEPT ![next] = Capped(@ + 1)] ELSE handles
        /\ UNCHANGED disturbed
     \/ /\ \E less \in Spares(kind) :
             loaded' = [loaded EXCEPT ![next] = Append(@, less)]
        /\ disturbed < Changes
        /\ disturbed' = disturbed + 1
        /\ UNCHANGED handles
  /\ UNCHANGED <<threads, storage, control, life, owners, held, stopping, jobs,
                 workers, lock>>

\* The context's datasets, one for each path that gave it any.
Datasets(i) == {p \in DOMAIN loaded[i] : loaded[i][p] \in WithData}

\* ContextEmpty().
Empty(i) == \A p \in DOMAIN loaded[i] : loaded[i][p] \notin WithData

\* Mutant: the first context may be empty.
AfterContext_EmptyServed(i) ==
  IF i = 0 THEN IF threads > 1 THEN "array" ELSE "sigpipe"
  ELSE IF i + 1 < threads THEN "calloc" ELSE "evthread"

\* Where main() goes from a context that was created.
AfterContext(i) ==
  IF i = 0 THEN IF Empty(0) THEN "err" ELSE IF threads > 1 THEN "array" ELSE "sigpipe"
  ELSE IF i + 1 < threads THEN "calloc" ELSE "evthread"

\* The end of ContextCreate(), once the grid is built and `auth` is copied: only
\* the first context is asked whether it has any data.
KeepContext ==
  /\ pc = "load"
  /\ Len(loaded[next]) = NPaths
  /\ \/ /\ pc' = AfterContext(next)
        /\ ret' = IF pc' = "err" THEN 1 ELSE ret
        /\ IF next = 0 THEN ctx' = {0} /\ UNCHANGED slots
           ELSE slots' = slots \cup {next} /\ UNCHANGED ctx
        /\ next' = IF pc' = "calloc" THEN next + 1 ELSE 0
        /\ UNCHANGED <<stack, todo>>
     \/ ScrapContext /\ UNCHANGED <<ret, next, ctx, slots>>
  /\ UNCHANGED <<storages, contexts, handles, mine, held, stopping, jobs,
                 workers, lock>>

Failed ==
  /\ pc = "failed"
  /\ Fail
  /\ UNCHANGED <<storages, stack, next, contexts, handles, owners, held, stopping,
                 jobs, workers, lock>>

-----------------------------------------------------------------------------
(* main(): everything else that is set up.                                 *)

\* A step that gets hold of something, or ends the startup.
Setup(from, what, to) ==
  /\ pc = from
  /\ \/ held' = held \cup what /\ pc' = to /\ UNCHANGED ret
     \/ Fail /\ UNCHANGED held

\* The array of the other contexts.
AllocArray ==
  /\ Setup("array", {"array"}, "calloc")
  /\ next' = 1
  /\ UNCHANGED <<storages, stack, contexts, handles, owners, stopping, jobs,
                 workers, lock>>

\* A signal's event may be there although it could not be added.
InstallSignal(from, what, to) ==
  \/ Setup(from, {what}, to)
  \/ pc = from /\ Fail /\ held' = held \cup {what}

\* The pool is created in between when there are threads.
Prepare ==
  /\ \/ Setup("evthread", {}, "sigpipe")
     \/ Setup("sigpipe", {}, "base")
     \/ Setup("base", {"base"}, "http")
     \/ Setup("http", {"http"}, IF "array" \in held THEN "handover" ELSE "bind")
     \/ Setup("bind", {}, "term")
     \/ InstallSignal("term", "term", "quit")
     \/ InstallSignal("quit", "quit", "dispatch")
  /\ UNCHANGED <<storages, stack, next, contexts, handles, owners, stopping, jobs,
                 workers, lock>>

\* Mutant: main() keeps its pointer to the first context.
HandOver_Kept ==
  /\ pc = "handover"
  /\ pc' = "pool"
  /\ slots' = slots \cup {0}
  /\ UNCHANGED <<storages, stack, ret, next, contexts, handles, ctx, mine, todo,
                 held, stopping, jobs, workers, lock>>

\* "The pool owns every context from here on, whether or not it starts."
HandOver ==
  /\ pc = "handover"
  /\ pc' = "pool"
  /\ slots' = slots \cup ctx
  /\ ctx' = {}
  /\ UNCHANGED <<storages, stack, ret, next, contexts, handles, mine, todo, held,
                 stopping, jobs, workers, lock>>

\* PoolFree(), to come back to the label.
FreePool(label) ==
  /\ pc' = "stop"
  /\ stack' = <<label>> \o stack

\* PoolCreate(): the pool, its array of workers ...
AllocPool ==
  /\ pc = "pool"
  /\ \/ pc' = "workers" /\ held' = held \cup {"pool"} /\ UNCHANGED <<stack, todo>>
     \/ FreeContexts(slots, "created") /\ UNCHANGED held
  /\ UNCHANGED <<storages, ret, next, contexts, handles, ctx, slots, mine, stopping,
                 jobs, workers, lock>>

AllocWorkers ==
  /\ pc = "workers"
  /\ \/ /\ pc' = "wakeup"
        /\ held' = held \cup {"workers"}
        /\ mine' = slots
        /\ UNCHANGED <<stack, todo>>
     \/ FreeContexts(slots, "unpool") /\ UNCHANGED <<held, mine>>
  /\ UNCHANGED <<storages, ret, next, contexts, handles, ctx, slots, stopping, jobs,
                 workers, lock>>

\* ... which PoolFree() takes for none when it could not be had ...
FreeEmptyPool ==
  /\ pc = "unpool"
  /\ FreePool("created")
  /\ UNCHANGED <<storages, ret, next, contexts, handles, owners, held, stopping,
                 jobs, workers, lock>>

\* ... the wakeup event ...
AllocWakeup ==
  /\ pc = "wakeup"
  /\ \/ pc' = "spawn" /\ held' = held \cup {"wakeup"} /\ UNCHANGED stack
     \/ FreePool("created") /\ UNCHANGED held
  /\ UNCHANGED <<storages, ret, next, contexts, handles, owners, stopping, jobs,
                 workers, lock>>

\* ... and one thread after the other.
Spawn ==
  /\ pc = "spawn"
  /\ \/ /\ wpc' = [wpc EXCEPT ![next] = "lock"]
        /\ next' = next + 1
        /\ pc' = IF next + 1 < threads THEN "spawn" ELSE "created"
        /\ UNCHANGED stack
     \/ FreePool("created") /\ UNCHANGED <<wpc, next>>
  /\ UNCHANGED <<storages, ret, contexts, handles, owners, held, stopping, jobs,
                 half, lock>>

\* main() after PoolCreate(), which returned NULL unless the pool is there.
PoolCreated ==
  /\ pc = "created"
  /\ slots' = {}
  /\ held' = held \ {"array"}
  /\ IF "pool" \in held THEN pc' = "bind" /\ UNCHANGED ret ELSE Fail
  /\ UNCHANGED <<storages, stack, next, contexts, handles, ctx, mine, todo,
                 stopping, jobs, workers, lock>>

-----------------------------------------------------------------------------
(* main(): serving.                                                        *)

\* pthread_cond_signal() wakes one waiting worker, any of them.
Signal ==
  IF \E w \in All : wpc[w] = "wait"
  THEN \E w \in All : wpc[w] = "wait" /\ wpc' = [wpc EXCEPT ![w] = "lock"]
  ELSE UNCHANGED wpc

\* A request for the workers.
Submit ==
  /\ pc = "dispatch" /\ "pool" \in held
  /\ queued + done < MaxQueued
  /\ queued' = queued + 1
  /\ Signal
  /\ UNCHANGED <<storages, control, contexts, handles, owners, held, stopping,
                 done, half, lock>>

\* A request without them: the loop thread opens a file that is not open, and may
\* have to close another.
Inline ==
  /\ pc = "dispatch" /\ "pool" \notin held
  /\ handles[0] < Cardinality(Datasets(0))
  /\ handles' = [handles EXCEPT ![0] = Capped(@ + 1)]
  /\ UNCHANGED <<storages, control, contexts, owners, held, stopping, jobs,
                 workers, lock>>

\* poolDrain().
Drain ==
  /\ pc = "dispatch" /\ done > 0
  /\ done' = 0
  /\ UNCHANGED <<storages, control, contexts, handles, owners, held, stopping,
                 queued, workers, lock>>

\* event_base_dispatch() returns, after a signal or on an error.
LeaveLoop ==
  /\ pc = "dispatch"
  /\ pc' = "err"
  /\ ret' \in {0, 1}
  /\ UNCHANGED <<storages, stack, next, contexts, handles, owners, held, stopping,
                 jobs, workers, lock>>

-----------------------------------------------------------------------------
(* main(): the cleanup at `err`, PoolFree() and ContextFree().             *)

Return == pc' = Head(stack) /\ stack' = Tail(stack)

\* The pool before evhttp.
CleanUp ==
  /\ pc = "err"
  /\ IF "pool" \in held THEN FreePool("slots") ELSE pc' = "slots" /\ UNCHANGED stack
  /\ UNCHANGED <<storages, ret, next, contexts, handles, owners, held, stopping,
                 jobs, workers, lock>>

\* Mutant: nobody is woken.
StopPool_Silent ==
  /\ pc = "stop"
  /\ pc' = "join"
  /\ stopping' = TRUE
  /\ UNCHANGED <<storages, stack, ret, next, contexts, handles, owners, held, jobs,
                 workers, lock>>

\* PoolFree() up to the unlock: every waiting worker is woken.
StopPool ==
  /\ pc = "stop"
  /\ pc' = "join"
  /\ stopping' = TRUE
  /\ wpc' = [w \in All |-> IF wpc[w] = "wait" THEN "lock" ELSE wpc[w]]
  /\ UNCHANGED <<storages, stack, ret, next, contexts, handles, owners, held, jobs,
                 half, lock>>

\* Mutant: when a thread could not be started, none is joined.
JoinWorkers_IfAllStarted ==
  /\ pc = "join"
  /\ next < threads \/ \A w \in All : wpc[w] \in {"none", "exited"}
  /\ pc' = "flush"
  /\ UNCHANGED <<storages, stack, ret, next, contexts, handles, owners, held,
                 stopping, jobs, workers, lock>>

\* The workers that were started are joined.
JoinWorkers ==
  /\ pc = "join"
  /\ \A w \in All : wpc[w] \in {"none", "exited"}
  /\ pc' = "flush"
  /\ UNCHANGED <<storages, stack, ret, next, contexts, handles, owners, held,
                 stopping, jobs, workers, lock>>

\* Every request has its reply, the event goes, and the contexts.
FlushPool ==
  /\ pc = "flush"
  /\ queued' = 0 /\ done' = 0
  /\ held' = held \ {"wakeup"}
  /\ FreeContexts(mine, "unpooled")
  /\ UNCHANGED <<storages, ret, next, contexts, handles, ctx, slots, mine, stopping,
                 workers, lock>>

FreedPool ==
  /\ pc = "unpooled"
  /\ mine' = {}
  /\ held' = held \ {"pool", "workers"}
  /\ Return
  /\ UNCHANGED <<storages, ret, next, contexts, handles, ctx, slots, todo, stopping,
                 jobs, workers, lock>>

\* Contexts are freed in order.
First == Min(todo)

\* ContextFree(), which closes the open files one by one under the lock ...
LockToClose ==
  /\ pc = "free" /\ todo # {} /\ handles[First] > 0
  /\ lock = Free
  /\ lock' = Main
  /\ pc' = "closing"
  /\ UNCHANGED <<storages, stack, ret, next, contexts, handles, owners, held,
                 stopping, jobs, workers>>

CloseOne ==
  /\ pc = "closing"
  /\ handles' = [handles EXCEPT ![First] = @ - 1]
  /\ lock' = Free
  /\ pc' = "free"
  /\ UNCHANGED <<storages, stack, ret, next, contexts, owners, held, stopping,
                 jobs, workers>>

\* ... and destroys the SRS without it.
DropSRS ==
  /\ pc = "free" /\ todo # {} /\ handles[First] = 0
  /\ pc' = "osr"
  /\ UNCHANGED <<storages, stack, ret, next, contexts, handles, owners, held,
                 stopping, jobs, workers, lock>>

DropContext ==
  /\ pc = "osr"
  /\ life' = [life EXCEPT ![First] = IF @ = "live" THEN "freed" ELSE "twice"]
  /\ todo' = todo \ {First}
  /\ pc' = "free"
  /\ UNCHANGED <<storages, stack, ret, next, loaded, handles, ctx, slots, mine, held,
                 stopping, jobs, workers, lock>>

FreedContexts ==
  /\ pc = "free" /\ todo = {}
  /\ Return
  /\ UNCHANGED <<storages, ret, next, contexts, handles, owners, held, stopping,
                 jobs, workers, lock>>

\* Mutant: what was loaded for workers that never came is forgotten.
FreeSlots_Skipped ==
  /\ pc = "slots"
  /\ FreeContexts({}, "unslot")
  /\ UNCHANGED <<storages, ret, next, contexts, handles, ctx, slots, mine, held,
                 stopping, jobs, workers, lock>>

\* The contexts that have no pool ...
FreeSlots ==
  /\ pc = "slots"
  /\ FreeContexts(slots, "unslot")
  /\ UNCHANGED <<storages, ret, next, contexts, handles, ctx, slots, mine, held,
                 stopping, jobs, workers, lock>>

\* ... what belongs to libevent, each when it is there ...
Release(from, what, to) == pc = from /\ pc' = to /\ held' = held \ {what}

ReleaseRest ==
  /\ \/ Release("unslot", "array", "unhttp")
     \/ Release("unhttp", "http", "unterm")
     \/ Release("unterm", "term", "unquit")
     \/ Release("unquit", "quit", "unbase")
     \/ Release("unbase", "base", "unctx")
     \/ Release("drivers", "drivers", "exited")
  /\ UNCHANGED <<storages, stack, ret, next, contexts, handles, owners, stopping,
                 jobs, workers, lock>>

\* ... and the first context, unless it is the pool's.
FreeFirst ==
  /\ pc = "unctx"
  /\ FreeContexts(ctx, "drivers")
  /\ UNCHANGED <<storages, ret, next, contexts, handles, ctx, slots, mine, held,
                 stopping, jobs, workers, lock>>

Exited == pc = "exited" /\ UNCHANGED vars

-----------------------------------------------------------------------------
(* The workers.                                                            *)

\* The head of poolWork()'s loop, the pool's lock held.
NextJob(w) ==
  \/ stopping /\ wpc' = [wpc EXCEPT ![w] = "exited"] /\ UNCHANGED queued
  \/ ~stopping /\ queued = 0 /\ wpc' = [wpc EXCEPT ![w] = "wait"] /\ UNCHANGED queued
  \/ /\ ~stopping /\ queued > 0
     /\ wpc' = [wpc EXCEPT ![w] = "lookup"]
     /\ queued' = queued - 1

Acquire(w) ==
  /\ wpc[w] = "lock"
  /\ NextJob(w)
  /\ UNCHANGED <<storages, control, contexts, handles, owners, held, stopping, done,
                 half, lock>>

\* pthread_cond_wait() may return on its own.
WakeSpuriously(w) ==
  /\ wpc[w] = "wait"
  /\ wpc' = [wpc EXCEPT ![w] = "lock"]
  /\ UNCHANGED <<storages, control, contexts, handles, owners, held, stopping, jobs,
                 half, lock>>

Step(w, from, to) == wpc[w] = from /\ wpc' = [wpc EXCEPT ![w] = to]

\* A lookup comes to a file that is not open, or needs none.
Consult(w) ==
  /\ \/ Step(w, "lookup", "open") /\ handles[w] < Cardinality(Datasets(w))
     \/ Step(w, "lookup", "finish")
  /\ UNCHANGED <<storages, control, contexts, handles, owners, held, stopping, jobs,
                 half, lock>>

\* GDALOpen() returns, after whatever time, and what needs no PROJ is read.
OpenReturns(w) ==
  /\ \/ Step(w, "open", "toClose") /\ UNCHANGED half
     \/ /\ Step(w, "open", "toProj") \/ Step(w, "open", "toClose")
        /\ half' = [half EXCEPT ![w] = TRUE]
  /\ UNCHANGED <<storages, control, contexts, handles, owners, held, stopping, jobs,
                 lock>>

\* Mutant: the lock is not taken.
LockProj_Open(w) ==
  /\ Step(w, "toProj", "proj") \/ Step(w, "toClose", "close")
  /\ lock' = w
  /\ UNCHANGED <<storages, control, contexts, handles, owners, held, stopping, jobs,
                 half>>

\* datasetProj is taken, to build or to tear down.
LockProj(w) ==
  /\ Step(w, "toProj", "proj") \/ Step(w, "toClose", "close")
  /\ lock = Free
  /\ lock' = w
  /\ UNCHANGED <<storages, control, contexts, handles, owners, held, stopping, jobs,
                 half>>

\* Mutant: no file is closed for another.
Built_Piles(w) ==
  /\ lock' = Free
  /\ \/ /\ handles' = [handles EXCEPT ![w] = @ + 1]
        /\ half' = [half EXCEPT ![w] = FALSE]
        /\ Step(w, "proj", "finish")
     \/ Step(w, "proj", "toClose") /\ UNCHANGED <<handles, half>>
  /\ UNCHANGED <<storages, control, contexts, owners, held, stopping, jobs>>

\* datasetLoadProj() and the unlock: the file is open, and one more may be too many;
\* or what there is of it is closed again.
Built(w) ==
  /\ lock' = Free
  /\ \/ /\ handles' = [handles EXCEPT ![w] = @ + 1]
        /\ half' = [half EXCEPT ![w] = FALSE]
        /\ Step(w, "proj", IF MaxOpen > 0 /\ handles[w] + 1 > MaxOpen
                           THEN "toClose" ELSE "finish")
     \/ Step(w, "proj", "toClose") /\ UNCHANGED <<handles, half>>
  /\ UNCHANGED <<storages, control, contexts, owners, held, stopping, jobs>>

\* DatasetClose() of the file that failed, or of the one that has to go.
Closed(w) ==
  /\ Step(w, "close", "finish")
  /\ lock' = Free
  /\ half' = [half EXCEPT ![w] = FALSE]
  /\ handles' = IF ~half[w] /\ MaxOpen > 0 /\ handles[w] > MaxOpen
                THEN [handles EXCEPT ![w] = @ - 1] ELSE handles
  /\ UNCHANGED <<storages, control, contexts, owners, held, stopping, jobs>>

\* The job goes back through the wakeup event; the lock is kept for the next one.
Finish(w) ==
  /\ wpc[w] = "finish"
  /\ done' = done + 1
  /\ NextJob(w)
  /\ UNCHANGED <<storages, control, contexts, handles, owners, held, stopping, half,
                 lock>>

-----------------------------------------------------------------------------
MainStep ==
  \/ CreateContext \/ MakeSRS \/ AddPath \/ KeepContext \/ Failed
  \/ AllocArray \/ Prepare \/ HandOver \/ AllocPool \/ AllocWorkers \/ FreeEmptyPool
  \/ AllocWakeup \/ Spawn \/ PoolCreated \/ Drain
  \/ CleanUp \/ StopPool \/ JoinWorkers \/ FlushPool \/ FreedPool
  \/ LockToClose \/ CloseOne \/ DropSRS \/ DropContext \/ FreedContexts
  \/ FreeSlots \/ ReleaseRest \/ FreeFirst

WorkerStep(w) ==
  \/ Acquire(w) \/ Consult(w) \/ OpenReturns(w) \/ LockProj(w) \/ Built(w)
  \/ Closed(w) \/ Finish(w)

Next ==
  \/ MainStep
  \/ StorageChanges \/ Submit \/ Inline \/ LeaveLoop
  \/ \E w \in All : WorkerStep(w) \/ WakeSpuriously(w)
  \/ Exited

Spec == Init /\ [][Next]_vars

\* Every thread that can go on does so in the end, GDALOpen() returns, and nobody
\* keeps a lock for ever.  No signal and no request has to come.
FairSpec ==
  /\ Spec
  /\ WF_vars(MainStep)
  /\ \A n \in 0 .. Max(Threads) - 1 : WF_vars(n \in All /\ WorkerStep(n))

-----------------------------------------------------------------------------
(* Properties.                                                             *)

Running == {w \in All : wpc[w] \notin {"none", "exited"}}

TypeOK ==
  /\ threads \in Threads
  /\ ret \in {0, 1}
  /\ disturbed \in 0 .. Changes
  /\ life \in [All -> {"none", "live", "freed", "twice"}]
  /\ \A i \in All : Len(loaded[i]) <= NPaths
  /\ \A i \in All : half[i] => wpc[i] \in {"toProj", "proj", "toClose", "close"}
  /\ ctx \cup slots \cup mine \subseteq All
  /\ \A i \in All : handles[i] \in 0 .. NPaths
  /\ \A i \in All :
       MaxOpen > 0 /\ wpc[i] \notin {"toClose", "close"} => handles[i] <= MaxOpen
  /\ lock \in {Free, Main} \cup All

\* Whatever step of the startup fails, no context is freed twice, and none while a
\* worker or a callback of the loop still reads it: main() and the pool agree at every
\* moment on who frees which ("The pool owns every context from here on, whether or
\* not it starts", main.cpp:254; "PoolFree() is the one place that frees them",
\* pool.cpp:75).
ContextsFreedOnce ==
  /\ \A i \in All : life[i] # "twice"
  /\ \A w \in Running : life[w] = "live"
  /\ pc = "dispatch" => life[0] = "live"

\* Whatever step failed, the daemon leaves nothing behind: each context that was
\* created is freed, its files are closed, every worker is joined, and all that was
\* allocated on the way is released.
NothingLeftAtExit ==
  pc = "exited" =>
    /\ \A i \in All : life[i] \in {"none", "freed"} /\ handles[i] = 0 /\ ~half[i]
    /\ held = {}
    /\ Running = {}

\* The threads that are inside PROJ.
InProj ==
  {w \in All : wpc[w] \in {"proj", "close"}}
    \cup (IF pc \in {"srs", "load", "closing", "osr"} THEN {Main} ELSE {})

\* Never two threads inside PROJ, although main() goes there without datasetProj when
\* it creates and frees contexts; and whoever holds the lock is inside, so that no
\* open of a file waits for another's round trip (dataset.cpp:17-27).
ProjExclusive ==
  /\ Cardinality(InProj) <= 1
  /\ lock # Free => lock \in InProj

\* What is taken apart is no longer used: workers have their pool, its event and the
\* event's base; requests that await their reply have evhttp; events and evhttp have
\* their base; contexts have GDAL's drivers ("Before evhttp_free()", main.cpp:297).
TakenApartInOrder ==
  /\ Running # {} => {"pool", "workers", "wakeup", "base"} \subseteq held
  /\ queued + done > 0 \/ (\E w \in Running : wpc[w] \notin {"lock", "wait"}) =>
       "http" \in held
  /\ held \cap {"http", "term", "quit", "wakeup"} # {} => "base" \in held
  /\ (\E i \in All : life[i] = "live") => "drivers" \in held

\* A daemon that serves has data, and what goes wrong while one thread's context loads
\* stays with the path it happens to: threads differ at no more paths than storage
\* changed at, or memory ran out at, meanwhile.  So a thread that serves nothing
\* (main.cpp:188 asks the first context alone) takes a disturbance at every path that
\* gave the first one data.
ServesOneWorld ==
  pc = "dispatch" =>
    /\ ~Empty(0)
    /\ Cardinality({p \in Paths : \E i \in All : loaded[i][p] # loaded[0][p]}) <= disturbed

\* README.md:168, "the server refuses to start on a mismatch"; index.h:30, "a
\* malformed index is a configuration error, and starting anyway would serve a
\* silently smaller world".
RefusedIndexRefusesStart ==
  pc = "dispatch" => \A i \in All : "refused" \notin Range(loaded[i])

\* Startup comes to an end, and so does the cleanup, from wherever it starts and
\* whatever the workers are at: also when PoolCreate() gives up with some of them
\* only just started.
NeverStuck == pc # "dispatch" ~> pc \in {"dispatch", "exited"}
=============================================================================
