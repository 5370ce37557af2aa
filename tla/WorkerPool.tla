------------------------------ MODULE WorkerPool ------------------------------
(***************************************************************************)
(* The daemon run with lookup threads (-t n): the event loop thread, which *)
(* owns all HTTP I/O, and the pool's workers, which turn request bodies    *)
(* into replies.  They share two queues guarded by pool->lock, a wakeup    *)
(* event, and the `cancelled` flag of a job.                               *)
(*                                                                         *)
(* One action is one critical section of pool->lock, one callback of the   *)
(* loop, or one step of a lookup between two accesses to shared state.     *)
(***************************************************************************)
EXTENDS Elevation, FiniteSets, Functions

CONSTANTS
  Jobs,       \* the requests that may arrive, each on its own connection
  Workers,    \* the pool's threads
  Requests,   \* the shapes a request may have
  NoRequest,  \* request[j] before anything arrived
  NoJob       \* current[w] of a worker that computes nothing

ASSUME WorkerPoolAssumption ==
  /\ IsFiniteSet(Jobs)
  /\ IsFiniteSet(Workers)
  /\ Requests \subseteq RequestShape
  /\ NoRequest \notin Requests
  /\ NoJob \notin Jobs

VARIABLES
  \* The loop thread and its clients.
  loop,       \* what event_base_dispatch() and then PoolFree() are doing
  request,    \* request[j]: the request that arrived
  gone,       \* gone[j]: the client closed its side before it was answered
  piped,      \* piped[j]: the client has sent more, and evhttp has not read it
  watch,      \* watch[j]: the pool's watch on the client's socket
  sent,       \* sent[j]: the replies handed to evhttp, in order
  ready,      \* poolDrain()'s local list
  \* Shared under pool->lock.
  pending, done, stopping, wakeup, current,
  \* The jobs: memory, and what a worker fills in.
  memory, cancelled, status, looked,
  \* The workers.
  pc

clients == <<request, gone, piped>>
queues == <<pending, done, ready>>
compute == <<status, looked>>
vars == <<loop, clients, watch, sent, queues, stopping, wakeup, current,
          memory, cancelled, compute, pc>>

\* "dispatch" is between two callbacks, "drain" and "reply" are inside
\* poolDrain(), and the rest is main() after event_base_dispatch() returned.
LoopStates == {"dispatch", "drain", "reply", "break", "join", "flush", "stopped"}
WorkerStates == {"lock", "wait", "parse", "check", "lookup", "serialise",
                 "finish", "exited"}
Computing == {"parse", "check", "lookup", "serialise", "finish"}

Points(j) == request[j].points

Init ==
  /\ loop = "dispatch"
  /\ request = [j \in Jobs |-> NoRequest]
  /\ gone = [j \in Jobs |-> FALSE]
  /\ piped = [j \in Jobs |-> FALSE]
  /\ watch = [j \in Jobs |-> "none"]
  /\ sent = [j \in Jobs |-> <<>>]
  /\ pending = <<>> /\ done = <<>> /\ ready = <<>>
  /\ stopping = FALSE
  /\ wakeup = FALSE
  /\ current = [w \in Workers |-> NoJob]
  /\ memory = [j \in Jobs |-> "none"]
  /\ cancelled = [j \in Jobs |-> FALSE]
  /\ status = [j \in Jobs |-> 0]
  /\ looked = [j \in Jobs |-> 0]
  /\ pc = [w \in Workers |-> "lock"]

-----------------------------------------------------------------------------
(* Clients.                                                                *)

InService(j) == memory[j] = "live"

\* The client closes its connection, or half-closes it: EOF either way.
Leave(j) ==
  /\ InService(j) /\ ~gone[j]
  /\ gone' = [gone EXCEPT ![j] = TRUE]
  /\ UNCHANGED <<loop, request, piped, watch, sent, queues, stopping, wakeup,
                 current, memory, cancelled, compute, pc>>

\* The client sends its next request without waiting for this reply.
Pipeline(j) ==
  /\ InService(j) /\ ~gone[j] /\ ~piped[j]
  /\ piped' = [piped EXCEPT ![j] = TRUE]
  /\ UNCHANGED <<loop, request, gone, watch, sent, queues, stopping, wakeup,
                 current, memory, cancelled, compute, pc>>

-----------------------------------------------------------------------------
(* The loop thread: requests and the watch on their sockets.               *)

\* Mutant: PoolSubmit() forgets to signal.
SignalReady_Forgotten == UNCHANGED pc

\* pthread_cond_signal(): one waiting worker, if any, goes for the lock.
SignalReady ==
  IF \E w \in Workers : pc[w] = "wait"
  THEN \E w \in Workers : pc[w] = "wait" /\ pc' = [pc EXCEPT ![w] = "lock"]
  ELSE UNCHANGED pc

\* Mutant: a signal where a broadcast is due.
BroadcastReady_One == SignalReady

\* pthread_cond_broadcast(): every waiting worker does.
BroadcastReady ==
  pc' = [w \in Workers |-> IF pc[w] = "wait" THEN "lock" ELSE pc[w]]

\* elevation_request_cb() answers at once: a check fails, or a buffer or the
\* job cannot be had.
Refuse(j) ==
  /\ loop = "dispatch"
  /\ request[j] = NoRequest
  /\ \E r \in Requests, code \in Statuses :
       /\ \/ Admission(r) # 0 /\ code = Admission(r)
          \/ HeadersAccepted(r) /\ code = 500
       /\ request' = [request EXCEPT ![j] = r]
       /\ sent' = [sent EXCEPT ![j] = Append(@, ErrorReply(code))]
  /\ UNCHANGED <<loop, gone, piped, watch, queues, stopping, wakeup, current,
                 memory, cancelled, compute, pc>>

\* Mutant: signals only when the queue was empty.
Submit_SignalsFirst(j) ==
  /\ \E installed \in {"armed", "absent"} : watch' = [watch EXCEPT ![j] = installed]
  /\ pending' = Append(pending, j)
  /\ IF pending = <<>> THEN SignalReady ELSE UNCHANGED pc

\* PoolSubmit(): the job, whose socket is watched unless the event cannot be
\* had, joins the queue.
Submit(j) ==
  /\ \E installed \in {"armed", "absent"} : watch' = [watch EXCEPT ![j] = installed]
  /\ pending' = Append(pending, j)
  /\ SignalReady

\* elevation_request_cb() hands the request to the pool.
Accept(j) ==
  /\ loop = "dispatch"
  /\ request[j] = NoRequest
  /\ \E r \in Requests :
       Admission(r) = 0 /\ request' = [request EXCEPT ![j] = r]
  /\ memory' = [memory EXCEPT ![j] = "live"]
  /\ Submit(j)
  /\ UNCHANGED <<loop, gone, piped, sent, done, ready, stopping, wakeup,
                 current, cancelled, compute>>

\* What recv(MSG_PEEK) sees: data comes before the end of the stream.
Readable(j) == piped[j] \/ gone[j]
\* Mutants: recv() returning 0 is not taken for the end, or any event is.
EndOfStream_Overlooked(j) == FALSE
EndOfStream_AnyEvent(j) == piped[j] \/ gone[j]

EndOfStream(j) == gone[j] /\ ~piped[j]

\* poolPeek(): the watch fires once, whatever made the socket readable.
PeekDue(j) == watch[j] = "armed" /\ Readable(j)
Peek(j) ==
  /\ loop = "dispatch"
  /\ PeekDue(j)
  /\ watch' = [watch EXCEPT ![j] = "fired"]
  /\ cancelled' = [cancelled EXCEPT ![j] = @ \/ EndOfStream(j)]
  /\ UNCHANGED <<loop, clients, sent, queues, stopping, wakeup, current,
                 memory, compute, pc>>

-----------------------------------------------------------------------------
(* The loop thread: replies.                                               *)

\* Mutant: an abandoned job's status is sent as it stands.
FinishReplies_Raw(j) ==
  IF status[j] = 200 THEN {OkReply(looked[j]), ErrorReply(500)}
  ELSE {ErrorReply(status[j])}

\* What ElevationFinish() may reply with: an abandoned job gets 503, and a
\* finished one its reply, or 500 when the output buffer cannot be had.
FinishReplies(j) ==
  IF status[j] = 200 THEN {OkReply(looked[j]), ErrorReply(500)}
  ELSE {ErrorReply(IF status[j] = 0 THEN 503 ELSE status[j])}

\* Mutant: the watch outlives the reply.
Release_Forgotten(j) == UNCHANGED watch

\* poolRelease(): nothing watches the socket of a job that is about to go.
Release(j) == watch' = [watch EXCEPT ![j] = "none"]

\* poolRelease(), then ElevationFinish() or ElevationAbort(): the reply goes
\* out and the job is freed, its fields with it.  What the client had sent
\* already is evhttp's to read from here on.
Conclude(j, reply) ==
  /\ Release(j)
  /\ sent' = [sent EXCEPT ![j] = Append(@, reply)]
  /\ memory' = [memory EXCEPT ![j] = "freed"]
  /\ cancelled' = [cancelled EXCEPT ![j] = FALSE]
  /\ status' = [status EXCEPT ![j] = 0]
  /\ looked' = [looked EXCEPT ![j] = 0]
  /\ piped' = [piped EXCEPT ![j] = FALSE]

\* libevent runs poolDrain(): the activation is consumed first.
StartDrain ==
  /\ loop = "dispatch"
  /\ wakeup
  /\ loop' = "drain"
  /\ wakeup' = FALSE
  /\ UNCHANGED <<clients, watch, sent, queues, stopping, current, memory,
                 cancelled, compute, pc>>

\* Mutant: poolDrain() copies the queue and leaves it as it was.
TakeDone_Copies ==
  /\ loop = "drain"
  /\ loop' = "reply"
  /\ ready' = done
  /\ UNCHANGED <<clients, watch, sent, pending, done, stopping, wakeup, current,
                 memory, cancelled, compute, pc>>

\* poolDrain() takes the whole `done` queue under the lock ...
TakeDone ==
  /\ loop = "drain"
  /\ loop' = "reply"
  /\ ready' = done
  /\ done' = <<>>
  /\ UNCHANGED <<clients, watch, sent, pending, stopping, wakeup, current,
                 memory, cancelled, compute, pc>>

\* ... and answers it job by job, without the lock.
DrainOne ==
  /\ loop = "reply"
  /\ ready # <<>>
  /\ ready' = Tail(ready)
  /\ \E reply \in FinishReplies(Head(ready)) : Conclude(Head(ready), reply)
  /\ UNCHANGED <<loop, request, gone, pending, done, stopping, wakeup, current,
                 pc>>

\* Mutant: the wakeup is consumed when poolDrain() ends.
DrainEnd_Consumes ==
  /\ loop = "reply"
  /\ ready = <<>>
  /\ loop' = "dispatch"
  /\ wakeup' = FALSE
  /\ UNCHANGED <<clients, watch, sent, queues, stopping, current, memory,
                 cancelled, compute, pc>>

DrainEnd ==
  /\ loop = "reply"
  /\ ready = <<>>
  /\ loop' = "dispatch"
  /\ UNCHANGED <<clients, watch, sent, queues, stopping, wakeup, current,
                 memory, cancelled, compute, pc>>

-----------------------------------------------------------------------------
(* The loop thread: shutdown.                                              *)

\* do_term() on SIGINT or SIGTERM: event_base_loopbreak() ends the loop after
\* the callback it is in.
Terminate ==
  /\ loop = "dispatch"
  /\ loop' = "break"
  /\ UNCHANGED <<clients, watch, sent, queues, stopping, wakeup, current,
                 memory, cancelled, compute, pc>>

\* PoolFree() tells every worker in the middle of a lookup to abandon it.
CancelCurrent ==
  cancelled' = [j \in Jobs |-> cancelled[j] \/ \E w \in Workers : current[w] = j]

\* PoolFree() up to the unlock.
StopPool ==
  /\ loop = "break"
  /\ loop' = "join"
  /\ stopping' = TRUE
  /\ CancelCurrent
  /\ BroadcastReady
  /\ UNCHANGED <<clients, watch, sent, queues, wakeup, current, memory, compute>>

\* Mutant: PoolFree() joins the first worker only.
JoinWorkers_First ==
  /\ loop = "join"
  /\ \E w \in Workers : pc[w] = "exited"
  /\ loop' = "flush"
  /\ UNCHANGED <<clients, watch, sent, queues, stopping, wakeup, current,
                 memory, cancelled, compute, pc>>

\* pthread_join() of every worker.
JoinWorkers ==
  /\ loop = "join"
  /\ \A w \in Workers : pc[w] = "exited"
  /\ loop' = "flush"
  /\ UNCHANGED <<clients, watch, sent, queues, stopping, wakeup, current,
                 memory, cancelled, compute, pc>>

\* Whatever a worker finished still gets its reply ...
FlushDone ==
  /\ loop = "flush"
  /\ done # <<>>
  /\ done' = Tail(done)
  /\ \E reply \in FinishReplies(Head(done)) : Conclude(Head(done), reply)
  /\ UNCHANGED <<loop, request, gone, pending, ready, stopping, wakeup, current,
                 pc>>

\* Mutant: TAILQ_FIRST() without TAILQ_REMOVE().
FlushPending_Keeps ==
  /\ loop = "flush"
  /\ done = <<>>
  /\ pending # <<>> /\ Len(sent[Head(pending)]) < 2
  /\ Conclude(Head(pending), ErrorReply(503))
  /\ UNCHANGED <<loop, request, gone, queues, stopping, wakeup, current, pc>>

\* ... and whatever none reached is refused.
FlushPending ==
  /\ loop = "flush"
  /\ done = <<>>
  /\ pending # <<>>
  /\ pending' = Tail(pending)
  /\ Conclude(Head(pending), ErrorReply(503))
  /\ UNCHANGED <<loop, request, gone, done, ready, stopping, wakeup, current,
                 pc>>

\* Mutant: PoolFree() answers the finished jobs only.
FlushEnd_DoneOnly ==
  /\ loop = "flush"
  /\ done = <<>>
  /\ loop' = "stopped"
  /\ wakeup' = FALSE
  /\ UNCHANGED <<clients, watch, sent, queues, stopping, current, memory,
                 cancelled, compute, pc>>

\* The rest of PoolFree(): the wakeup event goes, the pool is gone.
FlushEnd ==
  /\ loop = "flush"
  /\ done = <<>> /\ pending = <<>>
  /\ loop' = "stopped"
  /\ wakeup' = FALSE
  /\ UNCHANGED <<clients, watch, sent, queues, stopping, current, memory,
                 cancelled, compute, pc>>

Stopped ==
  /\ loop = "stopped"
  /\ UNCHANGED vars

-----------------------------------------------------------------------------
(* The workers.                                                            *)

\* Mutant: the queue is looked at before `stopping`.
NextJob_QueueFirst(w) ==
  \/ /\ pending = <<>>
     /\ pc' = [pc EXCEPT ![w] = IF stopping THEN "exited" ELSE "wait"]
     /\ current' = [current EXCEPT ![w] = NoJob]
     /\ UNCHANGED pending
  \/ /\ pending # <<>>
     /\ pc' = [pc EXCEPT ![w] = "parse"]
     /\ current' = [current EXCEPT ![w] = Head(pending)]
     /\ pending' = Tail(pending)

\* The head of poolWork()'s loop, the lock held: leave when the pool stops,
\* wait when there is nothing to do, else take the oldest job.
NextJob(w) ==
  \/ /\ stopping
     /\ pc' = [pc EXCEPT ![w] = "exited"]
     /\ current' = [current EXCEPT ![w] = NoJob]
     /\ UNCHANGED pending
  \/ /\ ~stopping
     /\ pending = <<>>
     /\ pc' = [pc EXCEPT ![w] = "wait"]
     /\ current' = [current EXCEPT ![w] = NoJob]
     /\ UNCHANGED pending
  \/ /\ ~stopping
     /\ pending # <<>>
     /\ pc' = [pc EXCEPT ![w] = "parse"]
     /\ current' = [current EXCEPT ![w] = Head(pending)]
     /\ pending' = Tail(pending)

\* A worker that has just started, or was woken, gets the lock.
Acquire(w) ==
  /\ pc[w] = "lock"
  /\ NextJob(w)
  /\ UNCHANGED <<loop, clients, watch, sent, done, ready, stopping, wakeup,
                 memory, cancelled, compute>>

\* pthread_cond_wait() may return on its own.
WakeSpuriously(w) ==
  /\ pc[w] = "wait"
  /\ pc' = [pc EXCEPT ![w] = "lock"]
  /\ UNCHANGED <<loop, clients, watch, sent, queues, stopping, wakeup, current,
                 memory, cancelled, compute>>

\* The lookup is over with this status: next, the worker hands the job back.
EndLookup(w, code) ==
  /\ status' = [status EXCEPT ![current[w]] = code]
  /\ pc' = [pc EXCEPT ![w] = "finish"]

\* Mutant: the 413 for too many points is not the end of the lookup.
Parse_FallsThrough(w) ==
  /\ pc[w] = "parse"
  /\ LET verdict == ParseVerdict(request[current[w]])
     IN \/ verdict \in {0, 413} /\ pc' = [pc EXCEPT ![w] = "check"] /\ UNCHANGED status
        \/ verdict \notin {0, 413} /\ EndLookup(w, verdict)
        \/ EndLookup(w, 500)
  /\ UNCHANGED <<loop, clients, watch, sent, queues, stopping, wakeup, current,
                 memory, cancelled, looked>>

\* ElevationCompute() up to its loop.  An allocation may fail whatever the
\* body is.
Parse(w) ==
  /\ pc[w] = "parse"
  /\ LET verdict == ParseVerdict(request[current[w]])
     IN \/ verdict = 0 /\ pc' = [pc EXCEPT ![w] = "check"] /\ UNCHANGED status
        \/ verdict # 0 /\ EndLookup(w, verdict)
        \/ EndLookup(w, 500)
  /\ UNCHANGED <<loop, clients, watch, sent, queues, stopping, wakeup, current,
                 memory, cancelled, looked>>

\* The next point: is anyone still waiting, and is it a point at all?
CheckPoint(w) ==
  LET j == current[w]
      malformed == Points(j)[looked[j] + 1] = "malformed"
  IN /\ pc[w] = "check"
     /\ \/ cancelled[j] /\ EndLookup(w, 0)
        \/ ~cancelled[j] /\ malformed /\ EndLookup(w, 400)
        \/ ~cancelled[j] /\ ~malformed
             /\ pc' = [pc EXCEPT ![w] = "lookup"] /\ UNCHANGED status
     /\ UNCHANGED <<loop, clients, watch, sent, queues, stopping, wakeup,
                    current, memory, cancelled, looked>>

\* ContextGetAltitudeFrom() and the result of the point.  Only the object of
\* a detailed result is checked for an allocation failure.
LookUp(w) ==
  LET j == current[w]
      last == looked[j] + 1 = Len(Points(j))
  IN /\ pc[w] = "lookup"
     /\ \/ /\ looked' = [looked EXCEPT ![j] = @ + 1]
           /\ pc' = [pc EXCEPT ![w] = IF last THEN "serialise" ELSE "check"]
           /\ UNCHANGED status
        \/ DetailAsked(request[j]) /\ EndLookup(w, 500) /\ UNCHANGED looked
     /\ UNCHANGED <<loop, clients, watch, sent, queues, stopping, wakeup,
                    current, memory, cancelled>>

Serialise(w) ==
  /\ pc[w] = "serialise"
  /\ \E code \in {200, 500} : EndLookup(w, code)
  /\ UNCHANGED <<loop, clients, watch, sent, queues, stopping, wakeup, current,
                 memory, cancelled, looked>>

\* Back under the lock: the job is done, the loop is told, and without
\* letting go of the lock the worker goes for its next job.
Finish(w) ==
  /\ pc[w] = "finish"
  /\ done' = Append(done, current[w])
  /\ wakeup' = TRUE
  /\ NextJob(w)
  /\ UNCHANGED <<loop, clients, watch, sent, ready, stopping, memory,
                 cancelled, compute>>

-----------------------------------------------------------------------------
LoopStep ==
  \/ StartDrain \/ TakeDone \/ DrainOne \/ DrainEnd
  \/ StopPool \/ JoinWorkers \/ FlushDone \/ FlushPending \/ FlushEnd

WorkerStep(w) ==
  \/ Acquire(w) \/ Parse(w) \/ CheckPoint(w) \/ LookUp(w) \/ Serialise(w)
  \/ Finish(w)

Next ==
  \/ \E j \in Jobs : Refuse(j) \/ Accept(j) \/ Peek(j) \/ Leave(j) \/ Pipeline(j)
  \/ LoopStep \/ Terminate \/ Stopped
  \/ \E w \in Workers : WorkerStep(w) \/ WakeSpuriously(w)

Spec == Init /\ [][Next]_vars

\* The scheduler runs every thread that can run, and libevent every callback
\* that is due.  No client, signal or spurious wakeup has to come.
Fairness ==
  /\ WF_vars(LoopStep)
  /\ \A j \in Jobs : WF_vars(Peek(j))
  /\ \A w \in Workers : WF_vars(WorkerStep(w))

FairSpec == Spec /\ Fairness

-----------------------------------------------------------------------------
(* Type invariant.                                                         *)

WatchStates == {"none", "armed", "fired", "absent"}

TypeOK ==
  /\ loop \in LoopStates
  /\ request \in [Jobs -> Requests \cup {NoRequest}]
  /\ gone \in [Jobs -> BOOLEAN]
  /\ piped \in [Jobs -> BOOLEAN]
  /\ watch \in [Jobs -> WatchStates]
  /\ sent \in [Jobs -> Seq(Reply)]
  /\ pending \in Seq(Jobs) /\ done \in Seq(Jobs) /\ ready \in Seq(Jobs)
  /\ stopping \in BOOLEAN
  /\ wakeup \in BOOLEAN
  /\ current \in [Workers -> Jobs \cup {NoJob}]
  /\ memory \in [Jobs -> {"none", "live", "freed"}]
  /\ cancelled \in [Jobs -> BOOLEAN]
  /\ status \in [Jobs -> Statuses]
  /\ looked \in [Jobs -> Nat]
  /\ pc \in [Workers -> WorkerStates]
  /\ \A w \in Workers : pc[w] \in Computing <=> current[w] # NoJob

-----------------------------------------------------------------------------
(* Safety.                                                                 *)

\* The jobs some worker computes.
Held == {current[w] : w \in Workers} \ {NoJob}

\* A live job is in exactly one place -- queued to be computed, held by one worker,
\* queued to be answered, or in poolDrain()'s hands -- so two threads never work
\* on it and none is lost on the way; a job that is not live is in no place, so
\* nothing reads it after jobFree() (pool.cpp, the TAILQ moves and
\* worker->current).
JobOwnership ==
  /\ IsInjective(pending) /\ IsInjective(done) /\ IsInjective(ready)
  /\ \A v, w \in Workers : current[v] = current[w] => v = w \/ current[v] = NoJob
  /\ Range(pending) \cap (Held \cup Range(done) \cup Range(ready)) = {}
  /\ Held \cap (Range(done) \cup Range(ready)) = {}
  /\ Range(done) \cap Range(ready) = {}
  /\ {j \in Jobs : memory[j] = "live"}
       = Range(pending) \cup Held \cup Range(done) \cup Range(ready)

\* A request is answered once: not while its job lives, and exactly once by the
\* time the job is freed, whichever of poolDrain(), PoolFree()'s two loops and
\* elevation_request_cb() answers it.
AnsweredOnce ==
  \A j \in Jobs :
    /\ Len(sent[j]) <= 1
    /\ memory[j] = "live" => sent[j] = <<>>
    /\ memory[j] = "freed" => sent[j] # <<>>
    /\ sent[j] = <<>> /\ request[j] # NoRequest => memory[j] = "live"

\* A job is set up before it is worked on, and what is set up is remembered: a
\* request not seen yet has no job and no reply, a live job has a request and a
\* watch, and a watch that fired told the job why.
JobsSetUp ==
  \A j \in Jobs :
    /\ request[j] = NoRequest => memory[j] = "none" /\ sent[j] = <<>>
    /\ memory[j] = "live" => request[j] # NoRequest /\ watch[j] # "none"
    /\ memory[j] # "live" => ~cancelled[j] /\ ~piped[j]
    /\ watch[j] = "fired" => piped[j] \/ cancelled[j]

\* PoolFree() and the workers agree on where they are: it touches the queues
\* without the lock only when every worker has exited, a worker exits only when
\* told to, and poolDrain() never leaves a job in its local list.
PhasesInStep ==
  /\ stopping <=> loop \in {"join", "flush", "stopped"}
  /\ ready # <<>> => loop = "reply"
  /\ loop \in {"flush", "stopped"} => \A w \in Workers : pc[w] = "exited"
  /\ \A w \in Workers : pc[w] = "exited" => stopping
  /\ loop = "stopped" => pending = <<>> /\ done = <<>>

\* No event on a socket can reach a job that has been freed (the comment on
\* poolRelease()).
NoDanglingWatch ==
  \A j \in Jobs : watch[j] # "none" => memory[j] = "live"

\* A job that waits for its reply has the loop's attention: the wakeup event is
\* active, or poolDrain() has yet to take the queue, or PoolFree() will see it.
\* "One activation drains them all" (pool.cpp:188-190) is only right if none can
\* be consumed without the job it was for.
NoLostWakeup ==
  done # <<>> => wakeup \/ loop \notin {"dispatch", "reply"}

Waiting == {w \in Workers : pc[w] = "wait"}
Woken == {w \in Workers : pc[w] = "lock"}

\* No worker sleeps while there is a job for it: a sleeping worker means that
\* every queued job has a woken worker on its way.  One signal per job, although
\* signals are not remembered and a busy worker may take the job of a woken one.
WorkConserving ==
  Waiting # {} => Len(pending) <= Cardinality(Woken)

\* Once the pool stops, no worker sleeps and every lookup under way has been told
\* to abandon: PoolFree() waits for no more than a point per worker.
StopReachesWorkers ==
  stopping =>
    /\ Waiting = {}
    /\ \A w \in Workers : pc[w] \in {"parse", "check", "lookup"} => cancelled[current[w]]

\* PoolFree() leaves no request behind: evhttp_free() may then tear down the
\* connections, and nothing is still queued, watched or unanswered.
NothingLeftAtExit ==
  loop = "stopped" =>
    /\ pending = <<>> /\ done = <<>> /\ ready = <<>>
    /\ \A j \in Jobs : request[j] # NoRequest => Len(sent[j]) = 1
    /\ \A j \in Jobs : watch[j] = "none"

\* What a worker must have left in a job that awaits its reply: 0 only when it was
\* told to stop, 200 only with every point looked up, and no status that the
\* request did not earn, except 500.
Settled(j) ==
  /\ status[j] = 0 => cancelled[j]
  /\ status[j] = 200 => Verdict(request[j]) = 200 /\ looked[j] = Len(Points(j))
  /\ status[j] \notin {0, 200, 500} => status[j] = Verdict(request[j])

\* Where a lookup under way has got to.
Progress(w) ==
  LET j == current[w]
  IN /\ pc[w] = "parse" => looked[j] = 0
     /\ pc[w] \in {"check", "lookup", "serialise"} =>
          /\ ParseVerdict(request[j]) = 0
          /\ \A i \in 1 .. looked[j] : Points(j)[i] # "malformed"
     /\ pc[w] \in {"check", "lookup"} => looked[j] < Len(Points(j))
     /\ pc[w] = "lookup" => Points(j)[looked[j] + 1] # "malformed"
     /\ pc[w] = "serialise" => looked[j] = Len(Points(j))
     /\ pc[w] = "finish" => Settled(j)

\* The reply that waits in a job is the one its request earned, whatever happened
\* around the worker meanwhile, and nobody's lookup is abandoned but that of a
\* client that left or of a server that stops (the `goto done` and `goto err`
\* paths of ElevationCompute(), against the checks of elevation_request_cb()).
ResultsRight ==
  /\ \A j \in Jobs :
       /\ memory[j] = "live" => Admission(request[j]) = 0
       /\ memory[j] # "live" => looked[j] = 0
       /\ cancelled[j] => gone[j] \/ stopping
  /\ \A j \in Range(pending) : looked[j] = 0
  /\ \A w \in Workers : Progress(w)
  /\ \A j \in Range(done) \cup Range(ready) : Settled(j)

\* The loop has run every callback that was due.
LoopIdle ==
  loop = "dispatch" /\ ~wakeup /\ \A j \in Jobs : ~PeekDue(j)

\* When the loop is idle, a client that left without sending anything further has
\* been noticed, provided its socket could be watched.
ClientGoneIsNoticed ==
  LoopIdle =>
    \A j \in Jobs :
      memory[j] = "live" /\ gone[j] /\ ~piped[j] /\ watch[j] # "absent"
        => cancelled[j]

\* README.md:225, "A lookup whose client has gone away stops at the next point":
\* the same without the condition on what the client had sent.
EveryClientGoneIsNoticed ==
  LoopIdle =>
    \A j \in Jobs :
      memory[j] = "live" /\ gone[j] /\ watch[j] # "absent" => cancelled[j]

-----------------------------------------------------------------------------
(* Liveness.                                                               *)

\* Every request is answered, whether its client stays or leaves and whether the
\* daemon keeps running or is told to stop.
EveryRequestAnswered ==
  \A j \in Jobs : request[j] # NoRequest ~> sent[j] # <<>>

\* A signal ends the daemon, however much work is queued.
ShutdownCompletes == loop = "break" ~> loop = "stopped"

-----------------------------------------------------------------------------
(* The pool implements the service.                                        *)

Service == INSTANCE ElevationService
             WITH closing <- loop \notin {"dispatch", "drain", "reply"}

ServiceSpec == Service!Spec
=============================================================================
