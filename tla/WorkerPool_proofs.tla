--------------------------- MODULE WorkerPool_proofs ---------------------------
(***************************************************************************)
(* Theorems about WorkerPool, for any number of requests and of workers.   *)
(***************************************************************************)
EXTENDS WorkerPool, SequenceTheorems, FiniteSetTheorems, TLAPS

-----------------------------------------------------------------------------
(* Queues.                                                                 *)

\* Joining a queue adds one element to its range, and keeps the elements
\* distinct when it was not there (TAILQ_INSERT_TAIL).
LEMMA AppendElements ==
  ASSUME NEW S, NEW q \in Seq(S), NEW e \in S
  PROVE  /\ Append(q, e) \in Seq(S)
         /\ Range(Append(q, e)) = Range(q) \cup {e}
         /\ IsInjective(q) /\ e \notin Range(q) => IsInjective(Append(q, e))
<1>1. /\ Append(q, e) \in Seq(S)
      /\ Len(Append(q, e)) = Len(q) + 1
      /\ \A i \in 1 .. Len(q) : Append(q, e)[i] = q[i]
      /\ Append(q, e)[Len(q) + 1] = e
      /\ Len(q) \in Nat
  BY AppendProperties, LenProperties
<1>2. /\ Range(q) = {q[i] : i \in 1 .. Len(q)}
      /\ Range(Append(q, e)) = {Append(q, e)[i] : i \in 1 .. Len(q) + 1}
  BY <1>1, RangeEquality
<1>3. Range(Append(q, e)) = Range(q) \cup {e}
  BY <1>1, <1>2
<1>4. ASSUME IsInjective(q), e \notin Range(q)
      PROVE  IsInjective(Append(q, e))
  <2>1. DOMAIN q = 1 .. Len(q) /\ DOMAIN Append(q, e) = 1 .. Len(q) + 1
    BY <1>1, LenProperties
  <2>2. \A i \in 1 .. Len(q) : q[i] # e
    BY <1>2, <1>4
  <2>3. \A i, k \in 1 .. Len(q) : q[i] = q[k] => i = k
    BY <1>4, <2>1 DEF IsInjective
  <2>4. ASSUME NEW i \in 1 .. Len(q) + 1, NEW k \in 1 .. Len(q) + 1,
               Append(q, e)[i] = Append(q, e)[k]
        PROVE  i = k
    BY <1>1, <2>2, <2>3, <2>4
  <2> QED  BY <2>1, <2>4 DEF IsInjective
<1> QED  BY <1>1, <1>3, <1>4

\* Leaving a queue of distinct elements takes exactly the first one away
\* (TAILQ_FIRST, TAILQ_REMOVE).
LEMMA TailElements ==
  ASSUME NEW S, NEW q \in Seq(S), q # <<>>
  PROVE  /\ Head(q) \in S
         /\ Head(q) \in Range(q)
         /\ Tail(q) \in Seq(S)
         /\ IsInjective(q) => /\ IsInjective(Tail(q))
                              /\ Range(Tail(q)) = Range(q) \ {Head(q)}
<1>1. /\ Head(q) = q[1] /\ Head(q) \in S /\ Tail(q) \in Seq(S)
      /\ Len(q) \in Nat /\ Len(q) > 0 /\ Len(Tail(q)) = Len(q) - 1
      /\ \A i \in 1 .. Len(q) - 1 : Tail(q)[i] = q[i + 1]
  BY HeadTailProperties, LenProperties, EmptySeq
<1>2. /\ Range(q) = {q[i] : i \in 1 .. Len(q)}
      /\ Range(Tail(q)) = {Tail(q)[i] : i \in 1 .. Len(q) - 1}
  BY <1>1, RangeEquality
<1>3. Head(q) \in Range(q)
  BY <1>1, <1>2
<1>4. ASSUME IsInjective(q)
      PROVE  IsInjective(Tail(q)) /\ Range(Tail(q)) = Range(q) \ {Head(q)}
  <2>1. DOMAIN q = 1 .. Len(q) /\ DOMAIN Tail(q) = 1 .. Len(q) - 1
    BY <1>1, LenProperties
  <2>2. \A i, k \in 1 .. Len(q) : q[i] = q[k] => i = k
    BY <1>4, <2>1 DEF IsInjective
  <2>3. IsInjective(Tail(q))
    BY <1>1, <2>1, <2>2 DEF IsInjective
  <2>4. ASSUME NEW x PROVE x \in Range(Tail(q)) <=> x \in Range(q) /\ x # Head(q)
    <3>1. x \in Range(Tail(q)) => x \in Range(q) /\ x # Head(q)
      BY <1>1, <1>2, <2>2
    <3>2. ASSUME x \in Range(q), x # Head(q) PROVE x \in Range(Tail(q))
      <4>1. PICK i \in 1 .. Len(q) : x = q[i]
        BY <1>2, <3>2
      <4>2. i - 1 \in 1 .. Len(q) - 1 /\ Tail(q)[i - 1] = x
        BY <1>1, <3>2, <4>1
      <4> QED  BY <1>2, <4>2
    <3> QED  BY <3>1, <3>2
  <2> QED  BY <2>3, <2>4
<1> QED  BY <1>1, <1>3, <1>4

\* The empty queue.
LEMMA EmptyElements ==
  Range(<<>>) = {} /\ IsInjective(<<>>) /\ \A S : <<>> \in Seq(S)
BY DEF Range, IsInjective

-----------------------------------------------------------------------------
(* Types.                                                                  *)

\* What ElevationFinish() sends is a reply, whatever the worker left.
LEMMA FinishRepliesType ==
  ASSUME TypeOK, NEW j \in Jobs, NEW reply \in FinishReplies(j)
  PROVE  reply \in Reply
<1>1. status[j] \in Statuses /\ looked[j] \in Nat
  BY DEF TypeOK
<1>2. CASE status[j] = 0
  BY <1>1, <1>2 DEF FinishReplies, Reply, ErrorReply, Statuses
<1>3. CASE status[j] = 200
  BY <1>1, <1>3 DEF FinishReplies, Reply, ErrorReply, OkReply, Statuses
<1>4. CASE status[j] \notin {0, 200}
  BY <1>1, <1>4 DEF FinishReplies, Reply, ErrorReply, Statuses
<1> QED  BY <1>2, <1>3, <1>4

\* A job that is answered and freed leaves every variable well typed.
LEMMA ConcludeType ==
  ASSUME TypeOK, NEW j \in Jobs, NEW reply \in Reply, Conclude(j, reply)
  PROVE  /\ watch' \in [Jobs -> WatchStates]
         /\ sent' \in [Jobs -> Seq(Reply)]
         /\ memory' \in [Jobs -> {"none", "live", "freed"}]
         /\ cancelled' \in [Jobs -> BOOLEAN]
         /\ status' \in [Jobs -> Statuses]
         /\ looked' \in [Jobs -> Nat]
         /\ piped' \in [Jobs -> BOOLEAN]
<1>1. Append(sent[j], reply) \in Seq(Reply)
  BY AppendProperties DEF TypeOK
<1> QED  BY <1>1 DEF TypeOK, Conclude, Release, WatchStates, Statuses

\* The head of poolWork()'s loop keeps queue, worker and its job in step.
LEMMA NextJobType ==
  ASSUME TypeOK, NEW w \in Workers, NextJob(w)
  PROVE  /\ pending' \in Seq(Jobs)
         /\ current' \in [Workers -> Jobs \cup {NoJob}]
         /\ pc' \in [Workers -> WorkerStates]
         /\ \A v \in Workers : pc'[v] \in Computing <=> current'[v] # NoJob
<1> USE DEF TypeOK, WorkerStates, Computing
<1>1. CASE stopping \/ pending = <<>>
  BY <1>1 DEF NextJob
<1>2. CASE ~stopping /\ pending # <<>>
  <2>1. /\ Head(pending) \in Jobs /\ Tail(pending) \in Seq(Jobs)
        /\ NoJob \notin Jobs
    BY <1>2, TailElements, WorkerPoolAssumption
  <2>2. /\ pc' = [pc EXCEPT ![w] = "parse"]
        /\ current' = [current EXCEPT ![w] = Head(pending)]
        /\ pending' = Tail(pending)
    BY <1>2 DEF NextJob
  <2>3. /\ pc' \in [Workers -> WorkerStates]
        /\ current' \in [Workers -> Jobs \cup {NoJob}]
    BY <2>1, <2>2
  <2>4. \A v \in Workers : IF v = w THEN pc'[v] = "parse" /\ current'[v] = Head(pending)
                           ELSE pc'[v] = pc[v] /\ current'[v] = current[v]
    BY <2>2
  <2>5. \A v \in Workers : pc'[v] \in Computing <=> current'[v] # NoJob
    BY <2>1, <2>4
  <2> QED  BY <2>1, <2>2, <2>3, <2>5
<1> QED  BY <1>1, <1>2

\* ElevationCompute()'s verdicts are HTTP statuses, or 0 for "go on".
LEMMA ParseVerdictType == \A r : ParseVerdict(r) \in {0, 200, 400, 413}
BY DEF ParseVerdict

\* The statuses sent before the body is read.
LEMMA AdmissionType == \A r : Admission(r) \in {0, 400, 401, 405, 413}
BY DEF Admission

\* Signals and broadcasts move sleeping workers to the lock, and no other worker.
LEMMA SignalEffect ==
  ASSUME pc \in [Workers -> WorkerStates], SignalReady \/ BroadcastReady
  PROVE  /\ pc' \in [Workers -> WorkerStates]
         /\ \A w \in Workers : \/ pc'[w] = pc[w]
                               \/ pc[w] = "wait" /\ pc'[w] = "lock"
BY DEF SignalReady, BroadcastReady, WorkerStates

\* A step of a lookup touches the worker's own program counter and what the
\* worker fills in of its own job, and nothing else.
Computes(w) == Parse(w) \/ CheckPoint(w) \/ LookUp(w) \/ Serialise(w)

\* What one step of ElevationCompute() may change: the worker's place, and its
\* own job's status and progress, which stay those of no other job.
LEMMA ComputeEffect ==
  ASSUME TypeOK, NEW w \in Workers, Computes(w)
  PROVE  /\ current[w] \in Jobs
         /\ pc[w] \in {"parse", "check", "lookup", "serialise"}
         /\ \E next \in {"check", "lookup", "serialise", "finish"} :
              /\ pc' = [pc EXCEPT ![w] = next]
              /\ next \in {"check", "lookup"} => pc[w] \in {"parse", "check", "lookup"}
         /\ \E code \in Statuses : status' = [status EXCEPT ![current[w]] = code]
         /\ \E n \in Nat : looked' = [looked EXCEPT ![current[w]] = n]
         /\ UNCHANGED <<loop, clients, watch, sent, queues, stopping, wakeup,
                        current, memory, cancelled>>
<1>1. current[w] \in Jobs
  BY DEF Computes, Parse, CheckPoint, LookUp, Serialise, TypeOK, Computing
<1>2. /\ status \in [Jobs -> Statuses] /\ looked \in [Jobs -> Nat]
      /\ status = [status EXCEPT ![current[w]] = status[current[w]]]
      /\ looked = [looked EXCEPT ![current[w]] = looked[current[w]]]
      /\ status[current[w]] \in Statuses /\ looked[current[w]] \in Nat
      /\ {0, 200, 400, 413, 500} \subseteq Statuses
  BY <1>1 DEF TypeOK, Statuses
<1>3. CASE Parse(w)
  BY <1>1, <1>2, <1>3, ParseVerdictType DEF Parse, EndLookup
<1>4. CASE CheckPoint(w)
  <2>1. \/ pc' = [pc EXCEPT ![w] = "lookup"] /\ UNCHANGED status
        \/ pc' = [pc EXCEPT ![w] = "finish"]
           /\ \E code \in {0, 400} : status' = [status EXCEPT ![current[w]] = code]
    BY <1>4 DEF CheckPoint, EndLookup
  <2> QED  BY <1>1, <1>2, <1>4, <2>1 DEF CheckPoint
<1>5. CASE LookUp(w)
  <2>1. \/ /\ looked' = [looked EXCEPT ![current[w]] = looked[current[w]] + 1]
           /\ \E next \in {"check", "serialise"} : pc' = [pc EXCEPT ![w] = next]
           /\ UNCHANGED status
        \/ /\ status' = [status EXCEPT ![current[w]] = 500]
           /\ pc' = [pc EXCEPT ![w] = "finish"]
           /\ UNCHANGED looked
    BY <1>1, <1>2, <1>5 DEF LookUp, EndLookup
  <2> QED  BY <1>1, <1>2, <1>5, <2>1 DEF LookUp
<1>6. CASE Serialise(w)
  <2>1. PICK code \in {200, 500} : EndLookup(w, code)
    BY <1>6 DEF Serialise
  <2>2. /\ pc' = [pc EXCEPT ![w] = "finish"]
        /\ status' = [status EXCEPT ![current[w]] = code]
        /\ code \in Statuses
    BY <1>2, <2>1 DEF EndLookup
  <2>3. /\ pc[w] = "serialise" /\ UNCHANGED looked
        /\ UNCHANGED <<loop, clients, watch, sent, queues, stopping, wakeup,
                       current, memory, cancelled>>
    BY <1>6 DEF Serialise
  <2>4. \E c \in Statuses : status' = [status EXCEPT ![current[w]] = c]
    BY <2>2
  <2>5. \E n \in Nat : looked' = [looked EXCEPT ![current[w]] = n]
    <3> DEFINE n == looked[current[w]]
    <3>1. looked \in [Jobs -> Nat] /\ n \in Nat
      BY <1>2
    <3>2. looked' = looked
      BY <2>3
    <3>3. looked' = [looked EXCEPT ![current[w]] = n]
      BY <1>1, <3>1, <3>2
    <3> HIDE DEF n
    <3> QED  BY <3>1, <3>3
  <2>6. \E next \in {"check", "lookup", "serialise", "finish"} :
          /\ pc' = [pc EXCEPT ![w] = next]
          /\ next \in {"check", "lookup"} => pc[w] \in {"parse", "check", "lookup"}
    <3> WITNESS "finish" \in {"check", "lookup", "serialise", "finish"}
    <3> QED  BY <2>2
  <2> QED  BY <1>1, <2>3, <2>4, <2>5, <2>6
<1> QED  BY <1>3, <1>4, <1>5, <1>6 DEF Computes

\* The daemon starts well typed.
LEMMA InitType == Init => TypeOK
<1> SUFFICES ASSUME Init PROVE TypeOK
  OBVIOUS
<1>1. <<>> \in Seq(Jobs) /\ <<>> \in Seq(Reply)
  BY EmptyElements
<1> QED  BY <1>1 DEF Init, TypeOK, LoopStates, WatchStates, Statuses, WorkerStates, Computing

\* Every step keeps the types; one case for each action.
LEMMA NextType == TypeOK /\ [Next]_vars => TypeOK'
<1> SUFFICES ASSUME TypeOK, [Next]_vars PROVE TypeOK'
  OBVIOUS
<1> USE DEF clients, queues, compute
<1>1. CASE UNCHANGED vars
  BY <1>1 DEF TypeOK, vars
<1>2. ASSUME NEW j \in Jobs, Refuse(j) PROVE TypeOK'
  <2>1. PICK r \in Requests, code \in Statuses :
          /\ (Admission(r) # 0 /\ code = Admission(r)) \/ code = 500
          /\ request' = [request EXCEPT ![j] = r]
          /\ sent' = [sent EXCEPT ![j] = Append(@, ErrorReply(code))]
    BY <1>2 DEF Refuse
  <2>2. ErrorReply(code) \in Reply
    BY <2>1 DEF ErrorReply, Reply, Statuses
  <2>3. sent[j] \in Seq(Reply)
    BY DEF TypeOK
  <2>4. Append(sent[j], ErrorReply(code)) \in Seq(Reply)
    BY <2>2, <2>3, AppendProperties
  <2> QED  BY <1>2, <2>1, <2>4 DEF Refuse, TypeOK
<1>3. ASSUME NEW j \in Jobs, Accept(j) PROVE TypeOK'
  <2>1. Append(pending, j) \in Seq(Jobs)
    BY AppendElements DEF TypeOK
  <2>2. /\ pc' \in [Workers -> WorkerStates]
        /\ \A w \in Workers : pc'[w] \in Computing <=> pc[w] \in Computing
    BY <1>3, SignalEffect DEF Accept, Submit, TypeOK, Computing
  <2> QED  BY <1>3, <2>1, <2>2 DEF Accept, Submit, TypeOK, WatchStates
<1>4. ASSUME NEW j \in Jobs, Peek(j) \/ Leave(j) \/ Pipeline(j) PROVE TypeOK'
  BY <1>4 DEF Peek, Leave, Pipeline, TypeOK, WatchStates, EndOfStream
<1>5. CASE StartDrain \/ TakeDone \/ DrainEnd \/ Terminate \/ JoinWorkers \/ FlushEnd
  BY <1>5, EmptyElements DEF StartDrain, TakeDone, DrainEnd, Terminate, JoinWorkers,
       FlushEnd, TypeOK, LoopStates
<1>6. CASE DrainOne
  <2>1. Head(ready) \in Jobs /\ Tail(ready) \in Seq(Jobs)
    BY <1>6, TailElements DEF DrainOne, TypeOK
  <2>2. PICK reply \in Reply : Conclude(Head(ready), reply)
    BY <1>6, <2>1, FinishRepliesType DEF DrainOne
  <2> QED  BY <1>6, <2>1, <2>2, ConcludeType DEF DrainOne, TypeOK
<1>7. CASE FlushDone
  <2>1. Head(done) \in Jobs /\ Tail(done) \in Seq(Jobs)
    BY <1>7, TailElements DEF FlushDone, TypeOK
  <2>2. PICK reply \in Reply : Conclude(Head(done), reply)
    BY <1>7, <2>1, FinishRepliesType DEF FlushDone
  <2> QED  BY <1>7, <2>1, <2>2, ConcludeType DEF FlushDone, TypeOK
<1>8. CASE FlushPending
  <2>1. Head(pending) \in Jobs /\ Tail(pending) \in Seq(Jobs)
    BY <1>8, TailElements DEF FlushPending, TypeOK
  <2>2. ErrorReply(503) \in Reply
    BY DEF ErrorReply, Reply, Statuses
  <2>3. PICK reply \in Reply : Conclude(Head(pending), reply)
    BY <1>8, <2>2 DEF FlushPending
  <2> QED  BY <1>8, <2>1, <2>3, ConcludeType DEF FlushPending, TypeOK
<1>9. CASE StopPool
  <2>1. /\ pc' \in [Workers -> WorkerStates]
        /\ \A w \in Workers : pc'[w] \in Computing <=> pc[w] \in Computing
    BY <1>9, SignalEffect DEF StopPool, TypeOK, Computing
  <2>2. cancelled' \in [Jobs -> BOOLEAN]
    BY <1>9 DEF StopPool, CancelCurrent, TypeOK
  <2> QED  BY <1>9, <2>1, <2>2 DEF StopPool, TypeOK, LoopStates
<1>10. CASE Stopped
  BY <1>10, <1>1 DEF Stopped
<1>11. ASSUME NEW w \in Workers, Acquire(w) \/ Finish(w) PROVE TypeOK'
  <2>1. done' \in Seq(Jobs) /\ wakeup' \in BOOLEAN
    <3>1. CASE Acquire(w)
      BY <3>1 DEF Acquire, TypeOK
    <3>2. CASE Finish(w)
      <4>1. current[w] \in Jobs
        BY <3>2 DEF Finish, TypeOK, Computing
      <4> QED  BY <3>2, <4>1, AppendElements DEF Finish, TypeOK
    <3> QED  BY <1>11, <3>1, <3>2
  <2>2. NextJob(w)
    BY <1>11 DEF Acquire, Finish
  <2> QED  BY <1>11, <2>1, <2>2, NextJobType DEF Acquire, Finish, TypeOK
<1>12. ASSUME NEW w \in Workers, WakeSpuriously(w) PROVE TypeOK'
  BY <1>12 DEF WakeSpuriously, TypeOK, WorkerStates, Computing
<1>13. ASSUME NEW w \in Workers, Computes(w) PROVE TypeOK'
  <2>1. PICK next \in {"check", "lookup", "serialise", "finish"}, code \in Statuses, n \in Nat :
          /\ pc' = [pc EXCEPT ![w] = next]
          /\ status' = [status EXCEPT ![current[w]] = code]
          /\ looked' = [looked EXCEPT ![current[w]] = n]
    BY <1>13, ComputeEffect
  <2>2. pc[w] \in Computing /\ next \in Computing /\ Computing \subseteq WorkerStates
    BY <1>13, ComputeEffect DEF Computing, WorkerStates
  <2>3. UNCHANGED <<loop, clients, watch, sent, queues, stopping, wakeup, current,
                    memory, cancelled>>
    BY <1>13, ComputeEffect
  <2> QED  BY <2>1, <2>2, <2>3 DEF TypeOK
<1> QED
  BY <1>1, <1>2, <1>3, <1>4, <1>5, <1>6, <1>7, <1>8, <1>9, <1>10, <1>11, <1>12, <1>13
     DEF Next, LoopStep, WorkerStep, Computes

\* Every state of the daemon is well typed, for any number of requests and threads.
THEOREM TypeCorrect == Spec => []TypeOK
<1>1. Init => TypeOK
  BY InitType
<1>2. TypeOK /\ [Next]_vars => TypeOK'
  BY NextType
<1> QED  BY <1>1, <1>2, PTL DEF Spec
-----------------------------------------------------------------------------
(* Who holds a job.                                                        *)

\* What the jobs held by workers become when one worker puts its job down and
\* takes another one, or none, up.
LEMMA HeldUpdate ==
  ASSUME TypeOK, NEW w \in Workers, NEW x \in Jobs \cup {NoJob},
         \A v, u \in Workers : current[v] = current[u] => v = u \/ current[v] = NoJob,
         x \notin Held,
         current' = [current EXCEPT ![w] = x]
  PROVE  /\ Held' = (Held \ {current[w]}) \cup ({x} \ {NoJob})
         /\ \A v, u \in Workers : current'[v] = current'[u] => v = u \/ current'[v] = NoJob
<1>1. /\ \A v \in Workers : current'[v] = IF v = w THEN x ELSE current[v]
      /\ \A v \in Workers : current[v] \in Held \cup {NoJob}
      /\ Held = {current[v] : v \in Workers} \ {NoJob}
      /\ Held' = {current'[v] : v \in Workers} \ {NoJob}
  BY DEF TypeOK, Held
<1>2. ASSUME NEW y PROVE y \in Held' <=> y \in (Held \ {current[w]}) \cup ({x} \ {NoJob})
  BY <1>1
<1>3. \A v, u \in Workers : current'[v] = current'[u] => v = u \/ current'[v] = NoJob
  BY <1>1
<1> QED  BY <1>2, <1>3

\* A job concluded on the loop thread is no longer live, and no other job's
\* memory changes.
LEMMA ConcludeMemory ==
  ASSUME TypeOK, NEW j \in Jobs, NEW reply, Conclude(j, reply)
  PROVE  {k \in Jobs : memory'[k] = "live"} = {k \in Jobs : memory[k] = "live"} \ {j}
BY DEF Conclude, TypeOK

\* Every step keeps each live job in exactly one place.
LEMMA OwnershipStep ==
  ASSUME TypeOK, PhasesInStep, JobsSetUp, JobOwnership, [Next]_vars
  PROVE  JobOwnership'
<1> DEFINE Live == {j \in Jobs : memory[j] = "live"}
           Single == \A v, w \in Workers : current[v] = current[w]
                                             => v = w \/ current[v] = NoJob
<1> USE DEF clients, queues, compute
<1>t. /\ pending \in Seq(Jobs) /\ done \in Seq(Jobs) /\ ready \in Seq(Jobs)
      /\ NoJob \notin Jobs
  BY WorkerPoolAssumption DEF TypeOK
<1>o. /\ IsInjective(pending) /\ IsInjective(done) /\ IsInjective(ready)
      /\ Single
      /\ Range(pending) \cap (Held \cup Range(done) \cup Range(ready)) = {}
      /\ Held \cap (Range(done) \cup Range(ready)) = {}
      /\ Range(done) \cap Range(ready) = {}
      /\ Live = Range(pending) \cup Held \cup Range(done) \cup Range(ready)
  BY DEF JobOwnership
<1>1. CASE UNCHANGED <<queues, current, memory>>
  BY <1>1 DEF JobOwnership, Held
<1>2. ASSUME NEW j \in Jobs, Accept(j) PROVE JobOwnership'
  <2>1. /\ pending' = Append(pending, j)
        /\ UNCHANGED <<done, ready, current>>
        /\ memory' = [memory EXCEPT ![j] = "live"]
        /\ j \notin Live
    BY <1>2 DEF Accept, Submit, JobsSetUp
  <2>2. /\ Range(pending') = Range(pending) \cup {j}
        /\ IsInjective(pending')
    BY <2>1, <1>t, <1>o, AppendElements
  <2>3. Live' = Live \cup {j} /\ Held' = Held /\ Single'
    BY <2>1, <1>o DEF TypeOK, Held
  <2> HIDE DEF Live, Single
  <2>4. /\ Range(pending') \cap (Held' \cup Range(done') \cup Range(ready')) = {}
        /\ Held' \cap (Range(done') \cup Range(ready')) = {}
        /\ Range(done') \cap Range(ready') = {}
        /\ Live' = Range(pending') \cup Held' \cup Range(done') \cup Range(ready')
    BY <1>o, <2>1, <2>2, <2>3
  <2> QED  BY <1>o, <2>1, <2>2, <2>3, <2>4 DEF JobOwnership, Live, Single
<1>3. CASE TakeDone
  <2>1. ready = <<>>
    BY <1>3 DEF TakeDone, PhasesInStep
  <2>2. /\ ready' = done /\ done' = <<>> /\ UNCHANGED <<pending, current, memory>>
    BY <1>3 DEF TakeDone
  <2>3. /\ Range(ready) = {} /\ Range(done') = {} /\ IsInjective(done')
    BY <2>1, <2>2, EmptyElements
  <2>4. Live' = Live /\ Held' = Held /\ Single'
    BY <2>2, <1>o DEF Held
  <2> QED  BY <1>o, <2>2, <2>3, <2>4 DEF JobOwnership
<1>4. CASE DrainOne
  <2>1. PICK reply : Conclude(Head(ready), reply)
    BY <1>4 DEF DrainOne
  <2>2. /\ ready # <<>> /\ ready' = Tail(ready) /\ UNCHANGED <<pending, done, current>>
    BY <1>4 DEF DrainOne
  <2>3. /\ Head(ready) \in Range(ready) /\ Head(ready) \in Jobs
        /\ IsInjective(ready') /\ Range(ready') = Range(ready) \ {Head(ready)}
    BY <1>t, <1>o, <2>2, TailElements
  <2>4. Live' = Live \ {Head(ready)} /\ Held' = Held /\ Single'
    BY <2>1, <2>2, <2>3, <1>o, ConcludeMemory DEF Held
  <2> HIDE DEF Live, Single
  <2> QED  BY <1>o, <2>2, <2>3, <2>4 DEF JobOwnership, Live, Single
<1>5. CASE FlushDone
  <2>1. PICK reply : Conclude(Head(done), reply)
    BY <1>5 DEF FlushDone
  <2>2. /\ done # <<>> /\ done' = Tail(done) /\ UNCHANGED <<pending, ready, current>>
    BY <1>5 DEF FlushDone
  <2>3. /\ Head(done) \in Range(done) /\ Head(done) \in Jobs
        /\ IsInjective(done') /\ Range(done') = Range(done) \ {Head(done)}
    BY <1>t, <1>o, <2>2, TailElements
  <2>4. Live' = Live \ {Head(done)} /\ Held' = Held /\ Single'
    BY <2>1, <2>2, <2>3, <1>o, ConcludeMemory DEF Held
  <2> HIDE DEF Live, Single
  <2> QED  BY <1>o, <2>2, <2>3, <2>4 DEF JobOwnership, Live, Single
<1>6. CASE FlushPending
  <2>1. Conclude(Head(pending), ErrorReply(503))
    BY <1>6 DEF FlushPending
  <2>2. /\ pending # <<>> /\ pending' = Tail(pending) /\ UNCHANGED <<done, ready, current>>
    BY <1>6 DEF FlushPending
  <2>3. /\ Head(pending) \in Range(pending) /\ Head(pending) \in Jobs
        /\ IsInjective(pending') /\ Range(pending') = Range(pending) \ {Head(pending)}
    BY <1>t, <1>o, <2>2, TailElements
  <2>4. Live' = Live \ {Head(pending)} /\ Held' = Held /\ Single'
    BY <2>1, <2>2, <2>3, <1>o, ConcludeMemory DEF Held
  <2> HIDE DEF Live, Single
  <2> QED  BY <1>o, <2>2, <2>3, <2>4 DEF JobOwnership, Live, Single
<1>7. ASSUME NEW w \in Workers, NEW x \in Jobs \cup {NoJob},
             current' = [current EXCEPT ![w] = x],
             \/ x = NoJob /\ UNCHANGED pending
             \/ pending # <<>> /\ x = Head(pending) /\ pending' = Tail(pending),
             \/ current[w] = NoJob /\ UNCHANGED done
             \/ current[w] \in Jobs /\ done' = Append(done, current[w]),
             UNCHANGED <<ready, memory>>
      PROVE  JobOwnership'
  <2> DEFINE c == current[w]
  <2>1. /\ x # NoJob => x \in Range(pending)
        /\ IsInjective(pending')
        /\ Range(pending') = Range(pending) \ {x}
        /\ x = NoJob => Range(pending') = Range(pending)
    <3>1. Range(pending) \subseteq Jobs
      BY <1>t, RangeOfSeq
    <3>2. CASE x = NoJob /\ UNCHANGED pending
      BY <1>t, <1>o, <3>1, <3>2
    <3>3. CASE pending # <<>> /\ x = Head(pending) /\ pending' = Tail(pending)
      BY <1>t, <1>o, <3>3, TailElements
    <3> QED  BY <1>7, <3>2, <3>3
  <2>2. /\ c # NoJob => c \in Held
        /\ IsInjective(done')
        /\ Range(done') = Range(done) \cup ({c} \ {NoJob})
    <3>1. c # NoJob => c \in Held
      BY DEF Held
    <3>2. CASE c = NoJob /\ UNCHANGED done
      BY <1>o, <3>1, <3>2
    <3>3. CASE c \in Jobs /\ done' = Append(done, c)
      <4>1. c \notin Range(done) /\ c # NoJob
        BY <1>o, <1>t, <3>1, <3>3
      <4> QED  BY <1>t, <1>o, <3>1, <3>3, <4>1, AppendElements
    <3> QED  BY <1>7, <3>2, <3>3
  <2>3. x \notin Held
    BY <1>o, <2>1 DEF Held
  <2>4. Held' = (Held \ {c}) \cup ({x} \ {NoJob}) /\ Single'
    BY <1>7, <1>o, <2>3, HeldUpdate
  <2>5. Live' = Live /\ NoJob \notin Held
    BY <1>7 DEF Held
  <2> HIDE DEF Live, Single, c
  <2>6. /\ Range(pending') \cap (Held' \cup Range(done') \cup Range(ready')) = {}
        /\ Held' \cap (Range(done') \cup Range(ready')) = {}
        /\ Range(done') \cap Range(ready') = {}
    BY <1>7, <1>o, <2>1, <2>2, <2>4, <2>5
  <2>7. Live' = Range(pending') \cup Held' \cup Range(done') \cup Range(ready')
    BY <1>7, <1>o, <2>1, <2>2, <2>4, <2>5
  <2> QED  BY <1>7, <1>o, <2>1, <2>2, <2>4, <2>6, <2>7 DEF JobOwnership, Live, Single
<1>8. ASSUME NEW w \in Workers, Acquire(w) \/ Finish(w) PROVE JobOwnership'
  <2>1. \E x \in Jobs \cup {NoJob} :
          /\ current' = [current EXCEPT ![w] = x]
          /\ \/ x = NoJob /\ UNCHANGED pending
             \/ pending # <<>> /\ x = Head(pending) /\ pending' = Tail(pending)
    BY <1>8, <1>t, TailElements DEF Acquire, Finish, NextJob
  <2>2. \/ current[w] = NoJob /\ UNCHANGED done
        \/ current[w] \in Jobs /\ done' = Append(done, current[w])
    BY <1>8 DEF Acquire, Finish, TypeOK, Computing
  <2>3. UNCHANGED <<ready, memory>>
    BY <1>8 DEF Acquire, Finish
  <2> QED  BY <1>7, <2>1, <2>2, <2>3
<1>9. ASSUME NEW j \in Jobs, Refuse(j) \/ Peek(j) \/ Leave(j) \/ Pipeline(j)
      PROVE  UNCHANGED <<queues, current, memory>>
  BY <1>9 DEF Refuse, Peek, Leave, Pipeline
<1>10. ASSUME StartDrain \/ DrainEnd \/ Terminate \/ StopPool \/ JoinWorkers
              \/ FlushEnd \/ Stopped \/ UNCHANGED vars
       PROVE  UNCHANGED <<queues, current, memory>>
  BY <1>10 DEF StartDrain, DrainEnd, Terminate, StopPool, JoinWorkers, FlushEnd,
       Stopped, vars
<1>11. ASSUME NEW w \in Workers, WakeSpuriously(w) \/ Computes(w)
       PROVE  UNCHANGED <<queues, current, memory>>
  BY <1>11, ComputeEffect DEF WakeSpuriously
<1> QED
  BY <1>1, <1>2, <1>3, <1>4, <1>5, <1>6, <1>8, <1>9, <1>10, <1>11
     DEF Next, LoopStep, WorkerStep, Computes
-----------------------------------------------------------------------------
(* Where the threads are.                                                  *)

\* Every step keeps the loop and the workers in step.
LEMMA PhasesStep ==
  ASSUME TypeOK, PhasesInStep, [Next]_vars
  PROVE  PhasesInStep'
<1> USE DEF PhasesInStep, clients, queues, compute
<1>1. ASSUME NEW j \in Jobs, Refuse(j) \/ Accept(j) \/ Peek(j) \/ Leave(j) \/ Pipeline(j)
      PROVE  PhasesInStep'
  <2>1. \A w \in Workers : pc'[w] = "exited" <=> pc[w] = "exited"
    BY <1>1, SignalEffect DEF Refuse, Accept, Submit, Peek, Leave, Pipeline, TypeOK
  <2>2. UNCHANGED <<loop, stopping, ready>>
    BY <1>1 DEF Refuse, Accept, Submit, Peek, Leave, Pipeline
  <2>3. loop = "stopped" => UNCHANGED <<pending, done>>
    BY <1>1 DEF Refuse, Accept, Submit, Peek, Leave, Pipeline
  <2> QED  BY <2>1, <2>2, <2>3
<1>2. CASE StartDrain \/ TakeDone \/ DrainEnd \/ Terminate \/ JoinWorkers \/ FlushEnd
           \/ Stopped \/ UNCHANGED vars
  BY <1>2 DEF StartDrain, TakeDone, DrainEnd, Terminate, JoinWorkers, FlushEnd, Stopped, vars
<1>3. CASE DrainOne
  BY <1>3 DEF DrainOne
<1>4. CASE FlushDone \/ FlushPending
  BY <1>4 DEF FlushDone, FlushPending
<1>5. CASE StopPool
  <2>1. \A w \in Workers : pc'[w] = "exited" => pc[w] = "exited"
    BY <1>5, SignalEffect DEF StopPool, TypeOK
  <2> QED  BY <1>5, <2>1 DEF StopPool
<1>6. ASSUME NEW w \in Workers, Acquire(w) \/ Finish(w) PROVE PhasesInStep'
  <2>1. UNCHANGED <<loop, stopping, ready>> /\ pc[w] # "exited"
    BY <1>6 DEF Acquire, Finish
  <2>2. \A v \in Workers : pc'[v] = "exited" => pc[v] = "exited" \/ stopping
    BY <1>6 DEF Acquire, Finish, NextJob, TypeOK
  <2> QED  BY <2>1, <2>2
<1>7. ASSUME NEW w \in Workers, WakeSpuriously(w) \/ Computes(w) PROVE PhasesInStep'
  <2>1. UNCHANGED <<loop, stopping, queues>> /\ pc[w] # "exited"
    BY <1>7, ComputeEffect DEF WakeSpuriously
  <2>2. \A v \in Workers : pc'[v] = "exited" => pc[v] = "exited"
    BY <1>7, ComputeEffect DEF WakeSpuriously, TypeOK
  <2> QED  BY <2>1, <2>2
<1> QED
  BY <1>1, <1>2, <1>3, <1>4, <1>5, <1>6, <1>7 DEF Next, LoopStep, WorkerStep, Computes

-----------------------------------------------------------------------------
(* Replies and watches.                                                    *)

\* What the loop thread knows of a job, and the same for one job.
Answers == AnsweredOnce /\ JobsSetUp /\ NoDanglingWatch

AnswersOf(j) ==
  /\ Len(sent[j]) <= 1
  /\ memory[j] = "live" => sent[j] = <<>> /\ request[j] # NoRequest /\ watch[j] # "none"
  /\ memory[j] = "freed" => sent[j] # <<>>
  /\ sent[j] = <<>> /\ request[j] # NoRequest => memory[j] = "live"
  /\ request[j] = NoRequest => memory[j] = "none" /\ sent[j] = <<>>
  /\ memory[j] # "live" => ~cancelled[j] /\ ~piped[j] /\ watch[j] = "none"
  /\ watch[j] = "fired" => piped[j] \/ cancelled[j]

\* The three parts of Answers are about one job at a time.
LEMMA AnswersByJob == /\ Answers <=> \A j \in Jobs : AnswersOf(j)
                      /\ Answers' <=> \A j \in Jobs : AnswersOf(j)'
BY DEF Answers, AnswersOf, AnsweredOnce, JobsSetUp, NoDanglingWatch

\* Concluding a live job answers it once and leaves nothing watching it.
LEMMA ConcludeAnswers ==
  ASSUME TypeOK, Answers, NEW j \in Jobs, memory[j] = "live",
         NEW reply \in Reply, Conclude(j, reply), UNCHANGED <<request, gone>>
  PROVE  Answers'
<1>1. sent[j] = <<>> /\ sent \in [Jobs -> Seq(Reply)]
  BY DEF Answers, AnsweredOnce, TypeOK
<1>2. Append(sent[j], reply) # <<>> /\ Len(Append(sent[j], reply)) = 1
  BY <1>1, AppendProperties, EmptySeq
<1>3. \A k \in Jobs :
        /\ k # j => /\ sent'[k] = sent[k] /\ memory'[k] = memory[k] /\ watch'[k] = watch[k]
                    /\ cancelled'[k] = cancelled[k] /\ piped'[k] = piped[k]
        /\ k = j => /\ sent'[k] # <<>> /\ Len(sent'[k]) = 1 /\ memory'[k] = "freed"
                    /\ watch'[k] = "none" /\ ~cancelled'[k] /\ ~piped'[k]
  BY <1>1, <1>2 DEF Conclude, Release, TypeOK
<1>4. request[j] # NoRequest
  BY DEF Answers, JobsSetUp
<1>5. AnswersOf(j)'
  <2>1. /\ sent'[j] # <<>> /\ Len(sent'[j]) = 1 /\ memory'[j] = "freed"
        /\ watch'[j] = "none" /\ ~cancelled'[j] /\ ~piped'[j]
    BY <1>3
  <2>2. request'[j] # NoRequest
    BY <1>4
  <2> QED  BY <2>1, <2>2 DEF AnswersOf
<1>6. ASSUME NEW k \in Jobs, k # j PROVE AnswersOf(k)'
  <2>1. AnswersOf(k)
    BY AnswersByJob
  <2> QED  BY <1>3, <1>6, <2>1 DEF AnswersOf
<1> QED  BY <1>5, <1>6, AnswersByJob

\* Every step keeps what the loop knows of each job.
LEMMA AnswersStep ==
  ASSUME TypeOK, PhasesInStep, JobOwnership, Answers, [Next]_vars
  PROVE  Answers'
<1> USE DEF clients, queues, compute
<1>1. CASE UNCHANGED <<request, piped, watch, sent, memory, cancelled>>
  BY <1>1 DEF Answers, AnsweredOnce, JobsSetUp, NoDanglingWatch
<1>2. ASSUME NEW j \in Jobs, Refuse(j) PROVE Answers'
  <2>1. /\ request[j] = NoRequest /\ request'[j] # NoRequest
        /\ \A k \in Jobs : k # j => request'[k] = request[k] /\ sent'[k] = sent[k]
    BY <1>2, WorkerPoolAssumption DEF Refuse, TypeOK
  <2>2. sent[j] = <<>> /\ memory[j] = "none"
    BY <2>1 DEF Answers, JobsSetUp
  <2>3. PICK reply : sent' = [sent EXCEPT ![j] = Append(@, reply)]
    BY <1>2 DEF Refuse
  <2>4. sent'[j] = Append(<<>>, reply)
    BY <2>2, <2>3 DEF TypeOK
  <2>5. sent'[j] # <<>> /\ Len(sent'[j]) = 1
    BY <2>4, AppendProperties, EmptySeq
  <2>6. UNCHANGED <<piped, watch, memory, cancelled>>
    BY <1>2 DEF Refuse
  <2>7. \A k \in Jobs : AnswersOf(k)
    BY AnswersByJob
  <2>8. AnswersOf(j)'
    BY <2>1, <2>2, <2>5, <2>6, <2>7 DEF AnswersOf
  <2>9. ASSUME NEW k \in Jobs, k # j PROVE AnswersOf(k)'
    BY <2>1, <2>6, <2>7, <2>9 DEF AnswersOf
  <2> QED  BY <2>8, <2>9, AnswersByJob
<1>3. ASSUME NEW j \in Jobs, Accept(j) PROVE Answers'
  <2>1. /\ request[j] = NoRequest /\ request'[j] # NoRequest
        /\ memory'[j] = "live" /\ watch'[j] \in {"armed", "absent"}
        /\ \A k \in Jobs : k # j => /\ request'[k] = request[k] /\ memory'[k] = memory[k]
                                    /\ watch'[k] = watch[k]
        /\ UNCHANGED <<sent, cancelled, piped>>
    BY <1>3, WorkerPoolAssumption DEF Accept, Submit, TypeOK
  <2>2. sent[j] = <<>> /\ Len(<<>>) = 0
    BY <2>1, EmptySeq DEF Answers, JobsSetUp
  <2> QED  BY <2>1, <2>2 DEF Answers, AnsweredOnce, JobsSetUp, NoDanglingWatch
<1>4. ASSUME NEW j \in Jobs, Peek(j) PROVE Answers'
  <2>1. /\ watch[j] = "armed" /\ watch'[j] = "fired"
        /\ piped[j] \/ cancelled'[j]
        /\ \A k \in Jobs : k # j => watch'[k] = watch[k] /\ cancelled'[k] = cancelled[k]
        /\ UNCHANGED <<request, piped, sent, memory>>
    BY <1>4 DEF Peek, PeekDue, Readable, EndOfStream, TypeOK
  <2> QED  BY <2>1 DEF Answers, AnsweredOnce, JobsSetUp, NoDanglingWatch
<1>5. ASSUME NEW j \in Jobs, Leave(j) \/ Pipeline(j) PROVE Answers'
  <2>1. /\ memory[j] = "live" /\ UNCHANGED <<request, watch, sent, memory, cancelled>>
        /\ \A k \in Jobs : k # j => piped'[k] = piped[k]
        /\ piped[j] => piped'[j]
    BY <1>5 DEF Leave, Pipeline, InService, TypeOK
  <2> QED  BY <2>1 DEF Answers, AnsweredOnce, JobsSetUp, NoDanglingWatch
<1>6. CASE DrainOne
  <2>1. Head(ready) \in Jobs /\ Head(ready) \in Range(ready)
    BY <1>6, TailElements DEF DrainOne, TypeOK
  <2>2. PICK reply \in Reply : Conclude(Head(ready), reply)
    BY <1>6, <2>1, FinishRepliesType DEF DrainOne
  <2>3. memory[Head(ready)] = "live"
    BY <2>1 DEF JobOwnership
  <2> QED  BY <1>6, <2>1, <2>2, <2>3, ConcludeAnswers DEF DrainOne
<1>7. CASE FlushDone
  <2>1. Head(done) \in Jobs /\ Head(done) \in Range(done)
    BY <1>7, TailElements DEF FlushDone, TypeOK
  <2>2. PICK reply \in Reply : Conclude(Head(done), reply)
    BY <1>7, <2>1, FinishRepliesType DEF FlushDone
  <2>3. memory[Head(done)] = "live"
    BY <2>1 DEF JobOwnership
  <2> QED  BY <1>7, <2>1, <2>2, <2>3, ConcludeAnswers DEF FlushDone
<1>8. CASE FlushPending
  <2>1. Head(pending) \in Jobs /\ Head(pending) \in Range(pending)
    BY <1>8, TailElements DEF FlushPending, TypeOK
  <2>2. ErrorReply(503) \in Reply /\ Conclude(Head(pending), ErrorReply(503))
    BY <1>8 DEF FlushPending, ErrorReply, Reply, Statuses
  <2>3. memory[Head(pending)] = "live"
    BY <2>1 DEF JobOwnership
  <2> QED  BY <1>8, <2>1, <2>2, <2>3, ConcludeAnswers DEF FlushPending
<1>9. CASE StopPool
  <2>1. /\ UNCHANGED <<request, piped, watch, sent, memory>>
        /\ \A k \in Jobs : cancelled[k] => cancelled'[k]
        /\ \A k \in Jobs : cancelled'[k] => cancelled[k] \/ k \in Held
    BY <1>9, WorkerPoolAssumption DEF StopPool, CancelCurrent, Held
  <2>2. \A k \in Held : memory[k] = "live"
    BY DEF JobOwnership
  <2> QED  BY <2>1, <2>2 DEF Answers, AnsweredOnce, JobsSetUp, NoDanglingWatch
<1>10. ASSUME StartDrain \/ TakeDone \/ DrainEnd \/ Terminate \/ JoinWorkers \/ FlushEnd
              \/ Stopped \/ UNCHANGED vars
       PROVE  UNCHANGED <<request, piped, watch, sent, memory, cancelled>>
  BY <1>10 DEF StartDrain, TakeDone, DrainEnd, Terminate, JoinWorkers, FlushEnd,
       Stopped, vars
<1>11. ASSUME NEW w \in Workers, Acquire(w) \/ Finish(w) \/ WakeSpuriously(w) \/ Computes(w)
       PROVE  UNCHANGED <<request, piped, watch, sent, memory, cancelled>>
  BY <1>11, ComputeEffect DEF Acquire, Finish, WakeSpuriously
<1> QED
  BY <1>1, <1>2, <1>3, <1>4, <1>5, <1>6, <1>7, <1>8, <1>9, <1>10, <1>11
     DEF Next, LoopStep, WorkerStep, Computes
-----------------------------------------------------------------------------
(* Wakeups, signals and the stop.                                          *)

\* No step loses the wakeup of a finished job.
LEMMA WakeupStep ==
  ASSUME TypeOK, PhasesInStep, NoLostWakeup, [Next]_vars
  PROVE  NoLostWakeup'
<1> USE DEF NoLostWakeup, clients, queues, compute
<1>1. ASSUME NEW j \in Jobs, Refuse(j) \/ Accept(j) \/ Peek(j) \/ Leave(j) \/ Pipeline(j)
      PROVE  NoLostWakeup'
  BY <1>1 DEF Refuse, Accept, Submit, Peek, Leave, Pipeline
<1>2. CASE StartDrain \/ TakeDone \/ DrainOne \/ DrainEnd \/ Terminate \/ Stopped
           \/ UNCHANGED vars
  BY <1>2 DEF StartDrain, TakeDone, DrainOne, DrainEnd, Terminate, Stopped, vars
<1>3. CASE StopPool \/ JoinWorkers \/ FlushDone \/ FlushPending \/ FlushEnd
  BY <1>3 DEF StopPool, JoinWorkers, FlushDone, FlushPending, FlushEnd
<1>4. ASSUME NEW w \in Workers, Acquire(w) \/ Finish(w) \/ WakeSpuriously(w) \/ Computes(w)
      PROVE  NoLostWakeup'
  BY <1>4, ComputeEffect DEF Acquire, Finish, WakeSpuriously
<1> QED
  BY <1>1, <1>2, <1>3, <1>4 DEF Next, LoopStep, WorkerStep, Computes

\* Every step keeps the stop known to every worker.
LEMMA StopStep ==
  ASSUME TypeOK, PhasesInStep, StopReachesWorkers, [Next]_vars
  PROVE  StopReachesWorkers'
<1> DEFINE Told(w) == pc[w] \in {"parse", "check", "lookup"} => cancelled[current[w]]
<1> USE DEF clients, queues, compute
<1>1. ASSUME stopping,
             \A w \in Workers : pc[w] # "wait" /\ Told(w) => pc'[w] # "wait" /\ Told(w)'
      PROVE  StopReachesWorkers'
  BY <1>1 DEF StopReachesWorkers, Waiting
<1>2. CASE ~stopping'
  BY <1>2 DEF StopReachesWorkers
<1>3. CASE StopPool
  <2>1. \A w \in Workers : pc'[w] # "wait"
    BY <1>3 DEF StopPool, BroadcastReady
  <2>2. ASSUME NEW w \in Workers, pc'[w] \in {"parse", "check", "lookup"}
        PROVE  cancelled'[current'[w]]
    <3>1. pc[w] = pc'[w] /\ current' = current
      BY <1>3, <2>2 DEF StopPool, BroadcastReady, TypeOK
    <3>2. current[w] \in Jobs
      BY <2>2, <3>1 DEF TypeOK, Computing
    <3> QED  BY <1>3, <3>1, <3>2 DEF StopPool, CancelCurrent
  <2> QED  BY <2>1, <2>2 DEF StopReachesWorkers, Waiting
<1>4. ASSUME stopping, NEW j \in Jobs,
             Refuse(j) \/ Accept(j) \/ Peek(j) \/ Leave(j) \/ Pipeline(j)
      PROVE  UNCHANGED <<pc, current, cancelled>>
  BY <1>4 DEF PhasesInStep, Refuse, Accept, Peek, Leave, Pipeline
<1>5. ASSUME stopping, StartDrain \/ TakeDone \/ DrainOne \/ DrainEnd \/ Terminate
             \/ JoinWorkers \/ FlushEnd \/ Stopped \/ UNCHANGED vars
      PROVE  UNCHANGED <<pc, current, cancelled>>
  BY <1>5 DEF PhasesInStep, StartDrain, TakeDone, DrainOne, DrainEnd, Terminate,
       JoinWorkers, FlushEnd, Stopped, vars
<1>6. ASSUME stopping, UNCHANGED <<pc, current, cancelled>>
      PROVE  StopReachesWorkers'
  BY <1>1, <1>6
<1>7. ASSUME stopping, FlushDone \/ FlushPending
      PROVE  StopReachesWorkers'
  <2>1. (\A w \in Workers : pc[w] = "exited") /\ UNCHANGED pc
    BY <1>7 DEF FlushDone, FlushPending, PhasesInStep
  <2> QED  BY <2>1 DEF StopReachesWorkers, Waiting
<1>8. ASSUME stopping, NEW w \in Workers, Acquire(w) \/ Finish(w)
      PROVE  StopReachesWorkers'
  <2>1. pc' = [pc EXCEPT ![w] = "exited"] /\ current' = [current EXCEPT ![w] = NoJob]
        /\ UNCHANGED cancelled
    BY <1>8 DEF Acquire, Finish, NextJob
  <2> QED  BY <1>1, <1>8, <2>1 DEF TypeOK
<1>9. ASSUME stopping, NEW w \in Workers, WakeSpuriously(w)
      PROVE  StopReachesWorkers'
  BY <1>9 DEF WakeSpuriously, StopReachesWorkers, Waiting
<1>10. ASSUME stopping, NEW w \in Workers, Computes(w)
       PROVE  StopReachesWorkers'
  <2>1. PICK next \in {"check", "lookup", "serialise", "finish"} :
          /\ pc' = [pc EXCEPT ![w] = next]
          /\ next \in {"check", "lookup"} => pc[w] \in {"parse", "check", "lookup"}
    BY <1>10, ComputeEffect
  <2>2. UNCHANGED <<current, cancelled>>
    BY <1>10, ComputeEffect
  <2> QED  BY <1>1, <1>10, <2>1, <2>2 DEF TypeOK
<1>11. CASE stopping
  BY <1>3, <1>4, <1>5, <1>6, <1>7, <1>8, <1>9, <1>10, <1>11
     DEF Next, LoopStep, WorkerStep, Computes
<1>12. ~stopping => ~stopping' \/ StopPool
  BY DEF Next, LoopStep, WorkerStep, Refuse, Accept, Peek, Leave, Pipeline, StartDrain,
     TakeDone, DrainOne, DrainEnd, Terminate, StopPool, JoinWorkers, FlushDone,
     FlushPending, FlushEnd, Stopped, Acquire, Parse, CheckPoint, LookUp, Serialise,
     Finish, WakeSpuriously, vars
<1> QED  BY <1>2, <1>3, <1>11, <1>12

\* The sets the signals are about, when one worker's state changes.
LEMMA WokenUpdate ==
  ASSUME TypeOK, NEW w \in Workers, NEW s, pc' = [pc EXCEPT ![w] = s]
  PROVE  /\ Woken' = IF s = "lock" THEN Woken \cup {w} ELSE Woken \ {w}
         /\ Waiting' = IF s = "wait" THEN Waiting \cup {w} ELSE Waiting \ {w}
         /\ w \in Woken <=> pc[w] = "lock"
         /\ IsFiniteSet(Woken) /\ Cardinality(Woken) \in Nat
<1>1. Woken \in SUBSET Workers
  BY DEF Woken
<1>2. IsFiniteSet(Woken) /\ Cardinality(Woken) \in Nat
  BY <1>1, WorkerPoolAssumption, FS_Subset, FS_CardinalityType
<1>3. \A v \in Workers : pc'[v] = IF v = w THEN s ELSE pc[v]
  BY DEF TypeOK
<1>4. /\ Woken' = IF s = "lock" THEN Woken \cup {w} ELSE Woken \ {w}
      /\ Waiting' = IF s = "wait" THEN Waiting \cup {w} ELSE Waiting \ {w}
  BY <1>3 DEF Woken, Waiting
<1> QED  BY <1>2, <1>4 DEF Woken

\* No step leaves a queued job without a woken worker while another sleeps.
LEMMA WorkStep ==
  ASSUME TypeOK, PhasesInStep, StopReachesWorkers, WorkConserving, [Next]_vars
  PROVE  WorkConserving'
<1> USE DEF clients, queues, compute
<1>w. IsFiniteSet(Woken) /\ Cardinality(Woken) \in Nat
  <2>1. Woken \in SUBSET Workers
    BY DEF Woken
  <2> QED  BY <2>1, WorkerPoolAssumption, FS_Subset, FS_CardinalityType
<1>p. pending \in Seq(Jobs) /\ Len(pending) \in Nat
  BY LenProperties DEF TypeOK
<1>1. CASE UNCHANGED <<pending, pc>>
  BY <1>1 DEF WorkConserving, Waiting, Woken
<1>2. ASSUME NEW j \in Jobs, Accept(j) PROVE WorkConserving'
  <2>1. Len(pending') = Len(pending) + 1
    BY <1>2, <1>p, AppendProperties DEF Accept, Submit
  <2>2. CASE Waiting = {}
    <3>1. UNCHANGED pc
      BY <1>2, <2>2 DEF Accept, Submit, SignalReady, Waiting
    <3> QED  BY <2>2, <3>1 DEF WorkConserving, Waiting
  <2>3. CASE Waiting # {}
    <3>1. PICK w \in Workers : pc[w] = "wait" /\ pc' = [pc EXCEPT ![w] = "lock"]
      BY <1>2, <2>3 DEF Accept, Submit, SignalReady, Waiting
    <3>2. Woken' = Woken \cup {w} /\ w \notin Woken
      BY <3>1, WokenUpdate
    <3>3. Cardinality(Woken') = Cardinality(Woken) + 1
      BY <1>w, <3>2, FS_AddElement
    <3> QED  BY <1>w, <1>p, <2>1, <2>3, <3>3 DEF WorkConserving
  <2> QED  BY <2>2, <2>3
<1>3. ASSUME NEW w \in Workers, WakeSpuriously(w) PROVE WorkConserving'
  <2>1. /\ pc[w] = "wait" /\ pc' = [pc EXCEPT ![w] = "lock"] /\ UNCHANGED pending
    BY <1>3 DEF WakeSpuriously
  <2>2. Woken' = Woken \cup {w} /\ w \notin Woken /\ Waiting # {}
    BY <2>1, WokenUpdate DEF Waiting
  <2>3. Cardinality(Woken') = Cardinality(Woken) + 1
    BY <1>w, <2>2, FS_AddElement
  <2> QED  BY <1>w, <1>p, <2>1, <2>2, <2>3 DEF WorkConserving
<1>4. ASSUME NEW w \in Workers, Acquire(w) \/ Finish(w) PROVE WorkConserving'
  <2>1. NextJob(w) /\ pc[w] \in {"lock", "finish"}
    BY <1>4 DEF Acquire, Finish
  <2>2. CASE stopping
    <3>1. pc' = [pc EXCEPT ![w] = "exited"] /\ Waiting = {}
      BY <2>1, <2>2 DEF NextJob, StopReachesWorkers
    <3>2. \A v \in Workers : pc[v] # "wait"
      BY <3>1 DEF Waiting
    <3>3. \A v \in Workers : pc'[v] # "wait"
      BY <3>1, <3>2 DEF TypeOK
    <3>4. Waiting' = {}
      BY <3>3 DEF Waiting
    <3> QED  BY <3>4 DEF WorkConserving
  <2>3. CASE ~stopping /\ pending = <<>>
    <3>1. pc' = [pc EXCEPT ![w] = "wait"] /\ pending' = <<>>
      BY <2>1, <2>3 DEF NextJob
    <3>2. Woken' \in SUBSET Workers
      BY DEF Woken
    <3>3. IsFiniteSet(Woken')
      BY <3>2, WorkerPoolAssumption, FS_Subset
    <3>4. Cardinality(Woken') \in Nat /\ Len(pending') = 0
      BY <3>1, <3>3, FS_CardinalityType, EmptySeq
    <3> QED  BY <3>4 DEF WorkConserving
  <2>4. CASE ~stopping /\ pending # <<>>
    <3>1. pc' = [pc EXCEPT ![w] = "parse"] /\ pending' = Tail(pending)
      BY <2>1, <2>4 DEF NextJob
    <3>2. Len(pending') = Len(pending) - 1
      BY <1>p, <2>4, <3>1, HeadTailProperties
    <3>3. Woken' = Woken \ {w} /\ Waiting' = Waiting \ {w}
      <4>1. "parse" # "lock" /\ "parse" # "wait"
        OBVIOUS
      <4> QED  BY <3>1, <4>1, WokenUpdate, Zenon
    <3>4. Cardinality(Woken \ {w}) = IF w \in Woken THEN Cardinality(Woken) - 1
                                                  ELSE Cardinality(Woken)
      BY <1>w, FS_RemoveElement
    <3>5. /\ Cardinality(Woken') \in {Cardinality(Woken) - 1, Cardinality(Woken)}
          /\ Waiting' \subseteq Waiting
      BY <3>3, <3>4
    <3> QED  BY <1>w, <1>p, <3>2, <3>5 DEF WorkConserving
  <2> QED  BY <2>2, <2>3, <2>4
<1>5. ASSUME NEW w \in Workers, Computes(w) PROVE WorkConserving'
  <2>1. PICK next \in {"check", "lookup", "serialise", "finish"} : pc' = [pc EXCEPT ![w] = next]
    BY <1>5, ComputeEffect
  <2>2. pc[w] \notin {"lock", "wait"} /\ UNCHANGED pending
    BY <1>5, ComputeEffect
  <2>3. Woken' = Woken /\ Waiting' = Waiting
    BY <2>1, <2>2, WokenUpdate DEF Woken, Waiting
  <2> QED  BY <2>2, <2>3 DEF WorkConserving
<1>6. CASE StopPool
  <2>1. Waiting' = {}
    BY <1>6 DEF StopPool, BroadcastReady, Waiting
  <2> QED  BY <2>1 DEF WorkConserving
<1>7. CASE FlushPending
  <2>1. Waiting' = {}
    BY <1>7 DEF FlushPending, PhasesInStep, Waiting
  <2> QED  BY <2>1 DEF WorkConserving
<1>8. ASSUME NEW j \in Jobs, Refuse(j) \/ Peek(j) \/ Leave(j) \/ Pipeline(j)
      PROVE  UNCHANGED <<pending, pc>>
  BY <1>8 DEF Refuse, Peek, Leave, Pipeline
<1>9. ASSUME StartDrain \/ TakeDone \/ DrainOne \/ DrainEnd \/ Terminate \/ JoinWorkers
             \/ FlushDone \/ FlushEnd \/ Stopped \/ UNCHANGED vars
      PROVE  UNCHANGED <<pending, pc>>
  BY <1>9 DEF StartDrain, TakeDone, DrainOne, DrainEnd, Terminate, JoinWorkers, FlushDone,
       FlushEnd, Stopped, vars
<1> QED
  BY <1>1, <1>2, <1>3, <1>4, <1>5, <1>6, <1>7, <1>8, <1>9
     DEF Next, LoopStep, WorkerStep, Computes
-----------------------------------------------------------------------------
(* The inductive invariant and what follows from it.                       *)

\* Inductive as a whole: where the threads are (PhasesInStep) bounds what they can
\* do, ownership makes the jobs they do it to distinct and live, and Answers says
\* what of a live job the loop thread may rely on.
Inv ==
  /\ TypeOK
  /\ PhasesInStep
  /\ JobOwnership
  /\ Answers
  /\ NoLostWakeup
  /\ StopReachesWorkers
  /\ WorkConserving

\* The inductive invariant holds at the start ...
LEMMA InitInv == Init => Inv
<1> SUFFICES ASSUME Init PROVE Inv
  OBVIOUS
<1>1. TypeOK
  BY InitType
<1>2. PhasesInStep /\ NoLostWakeup /\ StopReachesWorkers
  BY DEF Init, PhasesInStep, NoLostWakeup, StopReachesWorkers
<1>3. Answers
  BY EmptySeq DEF Init, Answers, AnsweredOnce, JobsSetUp, NoDanglingWatch
<1>4. JobOwnership
  <2>1. Held = {}
    BY DEF Init, Held
  <2>2. Range(pending) = {} /\ Range(done) = {} /\ Range(ready) = {}
    BY EmptyElements DEF Init
  <2> QED  BY <2>1, <2>2, EmptyElements DEF Init, JobOwnership
<1>5. WorkConserving
  BY DEF Init, WorkConserving, Waiting
<1> QED  BY <1>1, <1>2, <1>3, <1>4, <1>5 DEF Inv

\* ... and every step keeps it.
LEMMA NextInv == Inv /\ [Next]_vars => Inv'
<1> SUFFICES ASSUME Inv, [Next]_vars PROVE Inv'
  OBVIOUS
<1> USE DEF Inv
<1>1. TypeOK'
  BY NextType
<1>2. PhasesInStep'
  BY PhasesStep
<1>3. JobOwnership'
  BY OwnershipStep DEF Answers
<1>4. Answers'
  BY AnswersStep
<1>5. NoLostWakeup'
  BY WakeupStep
<1>6. StopReachesWorkers'
  BY StopStep
<1>7. WorkConserving'
  BY WorkStep
<1> QED  BY <1>1, <1>2, <1>3, <1>4, <1>5, <1>6, <1>7

\* PoolFree() has answered everything when it returns: nobody holds a job any more,
\* so no job is live.
LEMMA ExitFromInv == Inv => NothingLeftAtExit
<1> SUFFICES ASSUME Inv, loop = "stopped" PROVE NothingLeftAtExit
  BY DEF NothingLeftAtExit
<1>1. pending = <<>> /\ done = <<>> /\ ready = <<>>
  BY DEF Inv, PhasesInStep
<1>2. Held = {}
  BY DEF Inv, PhasesInStep, TypeOK, Computing, Held
<1>3. \A j \in Jobs : memory[j] # "live"
  BY <1>1, <1>2, EmptyElements DEF Inv, JobOwnership
<1>4. \A j \in Jobs : request[j] # NoRequest => sent[j] # <<>> /\ Len(sent[j]) <= 1
  BY <1>3 DEF Inv, Answers, AnsweredOnce
<1>5. ASSUME NEW j \in Jobs, request[j] # NoRequest PROVE Len(sent[j]) = 1
  <2>1. sent[j] \in Seq(Reply)
    BY DEF Inv, TypeOK
  <2>2. sent[j] # <<>> /\ Len(sent[j]) <= 1
    BY <1>4, <1>5
  <2>3. Len(sent[j]) \in Nat \ {0}
    BY <2>1, <2>2, EmptySeq
  <2>4. \A n \in Nat \ {0} : n <= 1 => n = 1
    OBVIOUS
  <2> QED  BY <2>2, <2>3, <2>4, Zenon
<1>6. \A j \in Jobs : watch[j] = "none"
  BY <1>3 DEF Inv, Answers, NoDanglingWatch
<1> QED  BY <1>1, <1>5, <1>6 DEF NothingLeftAtExit

\* When the loop is idle no watch is due, so a departed client's has fired, and
\* with nothing pipelined it can only have seen the end of the stream.
LEMMA NoticedFromInv == Inv => ClientGoneIsNoticed
<1> SUFFICES ASSUME Inv, LoopIdle, NEW j \in Jobs,
                    memory[j] = "live", gone[j], ~piped[j], watch[j] # "absent"
             PROVE  cancelled[j]
  BY DEF ClientGoneIsNoticed
<1>1. watch[j] \in {"armed", "fired"}
  BY DEF Inv, TypeOK, WatchStates, Answers, JobsSetUp
<1>2. watch[j] # "armed"
  BY DEF LoopIdle, PeekDue, Readable
<1> QED  BY <1>1, <1>2 DEF Inv, Answers, JobsSetUp

\* The inductive invariant holds in every reachable state.
LEMMA Invariance == Spec => []Inv
<1>1. Init => Inv
  BY InitInv
<1>2. Inv /\ [Next]_vars => Inv'
  BY NextInv
<1> QED  BY <1>1, <1>2, PTL DEF Spec

\* Every job is in exactly one place, and no freed job is in any.
THEOREM JobsOwned == Spec => []JobOwnership
<1>1. Inv => JobOwnership
  BY DEF Inv
<1> QED  BY <1>1, Invariance, PTL

\* No request is answered twice, and none whose job is gone is left unanswered.
THEOREM RepliesOnce == Spec => []AnsweredOnce
<1>1. Inv => AnsweredOnce
  BY DEF Inv, Answers
<1> QED  BY <1>1, Invariance, PTL

\* No job is live without a request and a watch, and a watch that fired is explained.
THEOREM SetupKept == Spec => []JobsSetUp
<1>1. Inv => JobsSetUp
  BY DEF Inv, Answers
<1> QED  BY <1>1, Invariance, PTL

\* The events on sockets never outlive the jobs they point to.
THEOREM WatchesSafe == Spec => []NoDanglingWatch
<1>1. Inv => NoDanglingWatch
  BY DEF Inv, Answers
<1> QED  BY <1>1, Invariance, PTL

\* A finished job always has the loop's attention, whatever the interleaving.
THEOREM WakeupsKept == Spec => []NoLostWakeup
<1>1. Inv => NoLostWakeup
  BY DEF Inv
<1> QED  BY <1>1, Invariance, PTL

\* However many workers sleep, every queued job has a woken worker on its way.
THEOREM WorkConserved == Spec => []WorkConserving
<1>1. Inv => WorkConserving
  BY DEF Inv
<1> QED  BY <1>1, Invariance, PTL

\* Shutdown reaches every thread ...
THEOREM StopReaches == Spec => []StopReachesWorkers
<1>1. Inv => StopReachesWorkers
  BY DEF Inv
<1> QED  BY <1>1, Invariance, PTL

\* ... and leaves no request behind.
THEOREM CleanExit == Spec => []NothingLeftAtExit
<1> QED  BY ExitFromInv, Invariance, PTL

\* The phases of the loop thread and of the workers never get out of step.
THEOREM PhasesKept == Spec => []PhasesInStep
<1>1. Inv => PhasesInStep
  BY DEF Inv
<1> QED  BY <1>1, Invariance, PTL

\* A client that left without sending anything more is noticed.
THEOREM DeparturesNoticed == Spec => []ClientGoneIsNoticed
<1> QED  BY NoticedFromInv, Invariance, PTL
-----------------------------------------------------------------------------
(* Results.                                                                *)

\* What was left in a job stays right while the job's fields are not written,
\* apart from `cancelled`, which may still be set.
LEMMA SettledFrame ==
  ASSUME NEW k, UNCHANGED <<request[k], status[k], looked[k]>>,
         cancelled[k] => cancelled'[k], Settled(k)
  PROVE  Settled(k)'
BY DEF Settled, Points

\* A lookup under way is disturbed by nothing but its own worker's steps.
LEMMA ProgressFrame ==
  ASSUME NEW w, UNCHANGED <<pc[w], current[w]>>,
         LET k == current[w]
         IN /\ UNCHANGED <<request[k], status[k], looked[k]>>
            /\ cancelled[k] => cancelled'[k],
         Progress(w)
  PROVE  Progress(w)'
<1>1. pc[w] = "finish" => Settled(current[w]) /\ Settled(current[w])'
  BY SettledFrame DEF Progress
<1>2. UNCHANGED Points(current[w])
  BY DEF Points
<1> QED  BY <1>1, <1>2 DEF Progress, Settled, Points


\* A step that writes no job but d disturbs no result but d's.
LEMMA ResultsFrame ==
  ASSUME TypeOK, ResultsRight, NEW d,
         \A k \in Jobs : k # d => UNCHANGED <<request[k], status[k], looked[k]>>,
         \A k \in Jobs : k # d => (cancelled[k] => cancelled'[k])
  PROVE  /\ \A k \in Jobs : k \in Range(done) \cup Range(ready) /\ k # d => Settled(k)'
         /\ \A w \in Workers : /\ UNCHANGED <<pc[w], current[w]>>
                               /\ current[w] # d
                               => Progress(w)'
<1>1. ASSUME NEW k \in Jobs, k \in Range(done) \cup Range(ready), k # d PROVE Settled(k)'
  <2>1. /\ UNCHANGED <<request[k], status[k], looked[k]>>
        /\ cancelled[k] => cancelled'[k]
    BY <1>1
  <2>2. Settled(k)
    BY <1>1 DEF ResultsRight
  <2> QED  BY <2>1, <2>2, SettledFrame
<1>2. ASSUME NEW w \in Workers, UNCHANGED <<pc[w], current[w]>>, current[w] # d
      PROVE  Progress(w)'
  <2>1. CASE current[w] \in Jobs
    <3>1. /\ UNCHANGED <<request[current[w]], status[current[w]], looked[current[w]]>>
          /\ cancelled[current[w]] => cancelled'[current[w]]
      BY <1>2, <2>1
    <3>2. Progress(w)
      BY DEF ResultsRight
    <3> QED  BY <1>2, <3>1, <3>2, ProgressFrame
  <2>2. CASE current[w] = NoJob
    BY <1>2, <2>2 DEF Progress, TypeOK, Computing
  <2> QED  BY <2>1, <2>2 DEF TypeOK
<1> QED  BY <1>1, <1>2

\* What a live job's request is known to be.
LEMMA LiveRequest ==
  ASSUME Inv, ResultsRight, NEW j \in Jobs, memory[j] = "live"
  PROVE  /\ request[j] \in RequestShape
         /\ Points(j) \in Seq(Point) /\ Len(Points(j)) \in Nat
         /\ DOMAIN Points(j) = 1 .. Len(Points(j))
         /\ Verdict(request[j]) =
              IF ParseVerdict(request[j]) # 0 THEN ParseVerdict(request[j])
              ELSE IF \E i \in DOMAIN Points(j) : Points(j)[i] = "malformed" THEN 400
              ELSE 200
<1>1. request[j] # NoRequest /\ request[j] \in Requests \cup {NoRequest}
  BY DEF Inv, TypeOK, Answers, JobsSetUp
<1>2. request[j] \in RequestShape
  BY <1>1, WorkerPoolAssumption
<1>3. Points(j) \in Seq(Point)
  BY <1>2 DEF Points, RequestShape
<1>4. Admission(request[j]) = 0
  BY DEF ResultsRight
<1> QED  BY <1>2, <1>3, <1>4, LenProperties DEF Verdict, Points

\* One step of a lookup leaves the worker where the rest of it expects to be.
LEMMA ComputeProgress ==
  ASSUME Inv, ResultsRight, NEW w \in Workers, Computes(w)
  PROVE  Progress(w)'
<1> DEFINE j == current[w]
<1>1. j \in Jobs /\ memory[j] = "live"
  <2>1. j \in Jobs /\ j # NoJob
    BY ComputeEffect, WorkerPoolAssumption DEF Inv
  <2>2. j \in Held
    BY <2>1 DEF Held
  <2> QED  BY <2>1, <2>2 DEF Inv, JobOwnership
<1>2. /\ Points(j) \in Seq(Point) /\ Len(Points(j)) \in Nat
      /\ DOMAIN Points(j) = 1 .. Len(Points(j))
      /\ Verdict(request[j]) =
           IF ParseVerdict(request[j]) # 0 THEN ParseVerdict(request[j])
           ELSE IF \E i \in DOMAIN Points(j) : Points(j)[i] = "malformed" THEN 400
           ELSE 200
  BY <1>1, LiveRequest
<1>3. /\ UNCHANGED <<request, current, cancelled>>
      /\ Points(j)' = Points(j)
      /\ looked \in [Jobs -> Nat] /\ status \in [Jobs -> Statuses]
      /\ pc \in [Workers -> WorkerStates]
  BY ComputeEffect DEF Inv, TypeOK, clients, Points
<1>4. Progress(w)
  BY DEF ResultsRight
<1>5. CASE Parse(w)
  <2>1. /\ pc[w] = "parse" /\ looked[j] = 0 /\ UNCHANGED looked
    BY <1>4, <1>5 DEF Parse, Progress
  <2>2. CASE ParseVerdict(request[j]) = 0 /\ pc' = [pc EXCEPT ![w] = "check"] /\ UNCHANGED status
    <3>1. Points(j) # <<>>
      BY <2>2 DEF ParseVerdict, Points
    <3>2. Len(Points(j)) > 0
      BY <1>2, <3>1, EmptySeq
    <3> QED  BY <1>3, <2>1, <2>2, <3>2 DEF Progress
  <2>3. ASSUME NEW code \in {ParseVerdict(request[j]), 500}, code # 0, EndLookup(w, code)
        PROVE  Progress(w)'
    <3>1. pc'[w] = "finish" /\ status'[j] = code
      BY <1>1, <1>3, <2>3 DEF EndLookup
    <3>2. code = 200 => Verdict(request[j]) = 200 /\ Points(j) = <<>>
      BY <1>2, <2>3 DEF ParseVerdict, Points
    <3>3. code # 500 => code = Verdict(request[j])
      BY <1>2, <2>3
    <3>4. code = 200 => looked[j] = Len(Points(j))
      BY <2>1, <3>2, EmptySeq
    <3>5. Settled(j)'
      BY <1>3, <2>1, <2>3, <3>1, <3>2, <3>3, <3>4 DEF Settled
    <3> QED  BY <1>3, <3>1, <3>5 DEF Progress
  <2> QED  BY <1>5, <2>2, <2>3 DEF Parse
<1>6. CASE CheckPoint(w)
  <2>1. /\ pc[w] = "check" /\ UNCHANGED looked
        /\ looked[j] + 1 \in 1 .. Len(Points(j))
        /\ ParseVerdict(request[j]) = 0
        /\ \A i \in 1 .. looked[j] : Points(j)[i] # "malformed"
        /\ looked[j] < Len(Points(j))
    BY <1>1, <1>2, <1>3, <1>4, <1>6 DEF CheckPoint, Progress
  <2>2. CASE cancelled[j] /\ EndLookup(w, 0)
    <3>1. pc'[w] = "finish" /\ status'[j] = 0
      BY <1>1, <1>3, <2>2 DEF EndLookup
    <3>2. Settled(j)'
      BY <1>3, <2>2, <3>1 DEF Settled
    <3> QED  BY <1>3, <3>1, <3>2 DEF Progress
  <2>3. CASE Points(j)[looked[j] + 1] = "malformed" /\ EndLookup(w, 400)
    <3>1. pc'[w] = "finish" /\ status'[j] = 400
      BY <1>1, <1>3, <2>3 DEF EndLookup
    <3>2. Verdict(request[j]) = 400
      BY <1>2, <2>1, <2>3
    <3>3. Settled(j)'
      BY <1>3, <3>1, <3>2 DEF Settled
    <3> QED  BY <1>3, <3>1, <3>3 DEF Progress
  <2>4. CASE Points(j)[looked[j] + 1] # "malformed" /\ pc' = [pc EXCEPT ![w] = "lookup"]
    <3>1. pc'[w] = "lookup" /\ UNCHANGED <<looked, request, current>>
      BY <1>3, <2>1, <2>4
    <3> QED  BY <1>3, <2>1, <2>4, <3>1 DEF Progress
  <2> QED  BY <1>6, <2>2, <2>3, <2>4 DEF CheckPoint
<1>7. CASE LookUp(w)
  <2>1. /\ pc[w] = "lookup" /\ looked[j] \in Nat
        /\ ParseVerdict(request[j]) = 0
        /\ \A i \in 1 .. looked[j] + 1 : Points(j)[i] # "malformed"
        /\ looked[j] < Len(Points(j))
    <3>1. /\ pc[w] = "lookup" /\ looked[j] \in Nat
          /\ ParseVerdict(request[j]) = 0
          /\ looked[j] < Len(Points(j))
          /\ Points(j)[looked[j] + 1] # "malformed"
      BY <1>1, <1>3, <1>4, <1>7 DEF LookUp, Progress
    <3>2. \A i \in 1 .. looked[j] : Points(j)[i] # "malformed"
      BY <1>4, <1>7 DEF LookUp, Progress
    <3>3. \A i \in 1 .. looked[j] + 1 : i = looked[j] + 1 \/ i \in 1 .. looked[j]
      BY <3>1
    <3> QED  BY <3>1, <3>2, <3>3
  <2>2. CASE /\ looked' = [looked EXCEPT ![j] = @ + 1]
             /\ pc' = [pc EXCEPT ![w] = IF looked[j] + 1 = Len(Points(j))
                                        THEN "serialise" ELSE "check"]
    <3>1. looked'[j] = looked[j] + 1
      BY <1>1, <1>3, <2>2
    <3>2. CASE looked[j] + 1 = Len(Points(j))
      <4>1. pc'[w] = "serialise"
        BY <1>3, <2>2, <3>2
      <4> QED  BY <1>3, <2>1, <3>1, <3>2, <4>1 DEF Progress
    <3>3. CASE looked[j] + 1 # Len(Points(j))
      <4>1. pc'[w] = "check" /\ looked[j] + 1 < Len(Points(j))
        BY <1>2, <1>3, <2>1, <2>2, <3>3
      <4> QED  BY <1>3, <2>1, <3>1, <4>1 DEF Progress
    <3> QED  BY <3>2, <3>3
  <2>3. CASE EndLookup(w, 500)
    <3>1. pc'[w] = "finish" /\ status'[j] = 500
      BY <1>1, <1>3, <2>3 DEF EndLookup
    <3>2. Settled(j)'
      BY <1>3, <3>1 DEF Settled
    <3> QED  BY <1>3, <3>1, <3>2 DEF Progress
  <2> QED  BY <1>7, <2>2, <2>3 DEF LookUp
<1>8. CASE Serialise(w)
  <2>1. /\ UNCHANGED looked
        /\ ParseVerdict(request[j]) = 0 /\ looked[j] = Len(Points(j))
        /\ \A i \in 1 .. looked[j] : Points(j)[i] # "malformed"
    BY <1>4, <1>8 DEF Serialise, Progress
  <2>2. PICK code \in {200, 500} : pc'[w] = "finish" /\ status'[j] = code
    BY <1>1, <1>3, <1>8 DEF Serialise, EndLookup
  <2>3. Verdict(request[j]) = 200
    BY <1>2, <2>1
  <2>4. Settled(j)'
    BY <1>3, <2>1, <2>2, <2>3 DEF Settled
  <2> QED  BY <1>3, <2>2, <2>4 DEF Progress
<1> QED  BY <1>5, <1>6, <1>7, <1>8 DEF Computes
\* Where everybody's jobs are, from JobOwnership.
LEMMA Apart ==
  ASSUME Inv
  PROVE  /\ Range(pending) \subseteq Jobs /\ Range(done) \subseteq Jobs
         /\ Range(ready) \subseteq Jobs
         /\ \A k \in Range(pending) \cup Range(done) \cup Range(ready) : memory[k] = "live"
         /\ \A w \in Workers : current[w] # NoJob =>
              /\ current[w] \in Jobs /\ memory[current[w]] = "live"
              /\ current[w] \notin Range(pending) \cup Range(done) \cup Range(ready)
              /\ \A v \in Workers : v # w => current[v] # current[w]
<1>1. /\ Range(pending) \subseteq Jobs /\ Range(done) \subseteq Jobs
      /\ Range(ready) \subseteq Jobs
  BY RangeOfSeq DEF Inv, TypeOK
<1>2. \A w \in Workers : current[w] # NoJob => current[w] \in Held /\ current[w] \in Jobs
  BY DEF Inv, TypeOK, Held
<1>3. \A k \in Range(pending) \cup Held \cup Range(done) \cup Range(ready) : memory[k] = "live"
  BY DEF Inv, JobOwnership
<1> QED  BY <1>1, <1>2, <1>3 DEF Inv, JobOwnership

\* Answering the first of a queue disturbs no result that is still to be sent.
LEMMA ConcludeResults ==
  ASSUME Inv, Inv', ResultsRight, NEW j \in Jobs, memory[j] = "live", NEW reply,
         Conclude(j, reply), UNCHANGED <<request, gone, stopping, pc, current>>,
         \A w \in Workers : current[w] # j,
         Range(pending') \subseteq Range(pending),
         Range(done') \cup Range(ready') \subseteq Range(done) \cup Range(ready)
  PROVE  ResultsRight'
<1>1. /\ memory'[j] # "live" /\ looked'[j] = 0 /\ ~cancelled'[j]
      /\ \A k \in Jobs : k # j => UNCHANGED <<request[k], status[k], looked[k], memory[k],
                                           cancelled[k]>>
  BY DEF Conclude, Inv, TypeOK
<1>2. j \notin Range(pending') \cup Range(done') \cup Range(ready')
  <2>1. \A k \in Range(pending') \cup Range(done') \cup Range(ready') : memory'[k] = "live"
    BY DEF Inv, JobOwnership
  <2> QED  BY <1>1, <2>1
<1>3. /\ \A k \in Jobs : k \in Range(done) \cup Range(ready) /\ k # j => Settled(k)'
      /\ \A w \in Workers : Progress(w)'
  BY <1>1, ResultsFrame DEF Inv
<1>4. \A k \in Range(done') \cup Range(ready') : Settled(k)'
  BY <1>2, <1>3, Apart
<1>5. \A k \in Range(pending') : looked'[k] = 0
  BY <1>1, <1>2, Apart DEF ResultsRight
<1> QED  BY <1>1, <1>3, <1>4, <1>5 DEF ResultsRight

\* A worker hands its job, if any, over and goes for the next.
LEMMA HandOverResults ==
  ASSUME Inv, ResultsRight, NEW w \in Workers, Acquire(w) \/ Finish(w)
  PROVE  ResultsRight'
<1> USE DEF clients, queues, compute
<1>1. /\ pending \in Seq(Jobs) /\ done \in Seq(Jobs) /\ NoJob \notin Jobs
      /\ IsInjective(pending)
  BY WorkerPoolAssumption DEF Inv, TypeOK, JobOwnership
<1>2. UNCHANGED <<request, gone, stopping, memory, cancelled, status, looked, ready>>
  BY DEF Acquire, Finish
<1>3. NextJob(w)
  BY DEF Acquire, Finish
<1>4. /\ Range(pending') \subseteq Range(pending)
      /\ \A v \in Workers : v # w => UNCHANGED <<pc[v], current[v]>>
      /\ \/ pc'[w] \in {"wait", "exited"}
         \/ pc'[w] = "parse" /\ current'[w] \in Range(pending)
  <2>1. CASE stopping \/ pending = <<>>
    BY <1>3, <2>1 DEF NextJob, Inv, TypeOK
  <2>2. CASE ~stopping /\ pending # <<>>
    <3>1. Head(pending) \in Range(pending) /\ Range(Tail(pending)) \subseteq Range(pending)
      BY <1>1, <2>2, TailElements
    <3> QED  BY <1>3, <2>2, <3>1 DEF NextJob, Inv, TypeOK
  <2> QED  BY <2>1, <2>2
<1>5. \A k \in Range(done') : k \in Range(done) \/ Settled(k)
  <2>1. CASE Acquire(w)
    BY <2>1 DEF Acquire
  <2>2. CASE Finish(w)
    <3>1. current[w] \in Jobs /\ pc[w] = "finish" /\ done' = Append(done, current[w])
      BY <2>2 DEF Finish, Inv, TypeOK, Computing
    <3>2. Range(done') = Range(done) \cup {current[w]}
      BY <1>1, <3>1, AppendElements
    <3>3. Settled(current[w])
      BY <3>1 DEF ResultsRight, Progress
    <3> QED  BY <3>2, <3>3
  <2> QED  BY <2>1, <2>2
<1>6. \A k \in Range(done') \cup Range(ready') : Settled(k)'
  BY <1>2, <1>5, SettledFrame DEF ResultsRight
<1>7. ASSUME NEW v \in Workers PROVE Progress(v)'
  <2>1. CASE v # w
    BY <1>2, <1>4, <2>1, ProgressFrame DEF ResultsRight
  <2>2. CASE v = w
    BY <1>2, <1>4, <2>2 DEF Progress, ResultsRight
  <2> QED  BY <2>1, <2>2
<1> QED  BY <1>2, <1>4, <1>6, <1>7 DEF ResultsRight

\* Every step keeps what waits in each job the reply its request earned.
LEMMA ResultsStep ==
  ASSUME Inv, Inv', ResultsRight, [Next]_vars
  PROVE  ResultsRight'
<1> USE DEF clients, queues, compute
\* Steps that write no result: the queues may only shrink, or be moved about.
<1>1. ASSUME UNCHANGED <<request, memory, status, looked, current>>,
             \A k \in Jobs : /\ cancelled[k] => cancelled'[k]
                             /\ cancelled'[k] => gone'[k] \/ stopping',
             \A w \in Workers : pc'[w] = pc[w] \/ pc'[w] \notin Computing,
             UNCHANGED pending,
             Range(done') \cup Range(ready') = Range(done) \cup Range(ready)
      PROVE  ResultsRight'
  <2>1. \A k \in Range(done') \cup Range(ready') : Settled(k)'
    BY <1>1, Apart, SettledFrame DEF ResultsRight
  <2>2. ASSUME NEW w \in Workers PROVE Progress(w)'
    <3>1. CASE pc'[w] = pc[w] /\ current[w] \in Jobs
      BY <1>1, <3>1, ProgressFrame DEF ResultsRight
    <3>2. CASE pc'[w] = pc[w] /\ current[w] = NoJob
      BY <3>2 DEF Inv, TypeOK, Computing, Progress
    <3>3. CASE pc'[w] \notin Computing
      BY <3>3 DEF Progress, Computing
    <3> QED  BY <1>1, <3>1, <3>2, <3>3 DEF Inv, TypeOK
  <2> QED  BY <1>1, <2>1, <2>2 DEF ResultsRight
<1>2. CASE UNCHANGED vars
  BY <1>1, <1>2 DEF vars, ResultsRight
<1>3. ASSUME NEW j \in Jobs, Peek(j) \/ Leave(j) \/ Pipeline(j) PROVE ResultsRight'
  <2>1. \A k \in Jobs : /\ cancelled[k] => cancelled'[k]
                        /\ cancelled'[k] => gone'[k] \/ stopping'
    BY <1>3 DEF Peek, Leave, Pipeline, EndOfStream, ResultsRight, Inv, TypeOK
  <2>2. UNCHANGED <<request, memory, status, looked, current, pc, queues>>
    BY <1>3 DEF Peek, Leave, Pipeline
  <2> QED  BY <1>1, <2>1, <2>2
<1>4. CASE StartDrain \/ DrainEnd \/ Terminate \/ JoinWorkers \/ FlushEnd \/ Stopped
  <2>1. UNCHANGED <<request, memory, status, looked, current, pc, queues, cancelled,
                    gone, stopping>>
    BY <1>4 DEF StartDrain, DrainEnd, Terminate, JoinWorkers, FlushEnd, Stopped, vars
  <2> QED  BY <1>1, <2>1 DEF ResultsRight
<1>5. CASE TakeDone
  <2>1. ready = <<>> /\ ready' = done /\ done' = <<>>
    BY <1>5 DEF TakeDone, Inv, PhasesInStep
  <2>2. Range(done') \cup Range(ready') = Range(done) \cup Range(ready)
    BY <2>1, EmptyElements
  <2>3. UNCHANGED <<request, memory, status, looked, current, pc, pending, cancelled,
                    gone, stopping>>
    BY <1>5 DEF TakeDone
  <2> QED  BY <1>1, <2>2, <2>3 DEF ResultsRight
<1>6. CASE StopPool
  <2>1. \A w \in Workers : pc'[w] = pc[w] \/ pc'[w] \notin Computing
    BY <1>6 DEF StopPool, BroadcastReady, Computing
  <2>2. UNCHANGED <<request, memory, status, looked, current, queues>> /\ stopping'
    BY <1>6 DEF StopPool
  <2>3. \A k \in Jobs : cancelled[k] => cancelled'[k]
    BY <1>6 DEF StopPool, CancelCurrent
  <2> QED  BY <1>1, <2>1, <2>2, <2>3
<1>7. ASSUME NEW j \in Jobs, Refuse(j) PROVE ResultsRight'
  <2>1. /\ memory[j] # "live"
        /\ \A k \in Jobs : k # j => UNCHANGED request[k]
        /\ UNCHANGED <<memory, status, looked, cancelled, current, pc, queues, gone, stopping>>
    BY <1>7 DEF Refuse, Inv, TypeOK, Answers, JobsSetUp
  <2>2. /\ \A w \in Workers : current[w] # j
        /\ j \notin Range(pending) \cup Range(done) \cup Range(ready)
    BY <2>1, Apart, WorkerPoolAssumption
  <2>3. /\ \A k \in Jobs : k \in Range(done) \cup Range(ready) /\ k # j => Settled(k)'
        /\ \A w \in Workers : Progress(w)'
    BY <2>1, <2>2, ResultsFrame DEF Inv
  <2> QED  BY <2>1, <2>2, <2>3, Apart DEF ResultsRight
<1>8. ASSUME NEW j \in Jobs, Accept(j) PROVE ResultsRight'
  <2>1. /\ memory[j] # "live" /\ Admission(request'[j]) = 0
        /\ \A k \in Jobs : k # j => UNCHANGED <<request[k], memory[k]>>
        /\ UNCHANGED <<status, looked, cancelled, current, done, ready, gone, stopping>>
        /\ pending' = Append(pending, j)
    BY <1>8 DEF Accept, Submit, Inv, TypeOK, Answers, JobsSetUp
  <2>2. /\ \A w \in Workers : current[w] # j
        /\ j \notin Range(pending) \cup Range(done) \cup Range(ready)
    BY <2>1, Apart, WorkerPoolAssumption
  <2>3. Range(pending') = Range(pending) \cup {j}
    BY <2>1, AppendElements DEF Inv, TypeOK
  <2>4. /\ \A k \in Jobs : k \in Range(done) \cup Range(ready) /\ k # j => Settled(k)'
        /\ \A w \in Workers : UNCHANGED pc[w] => Progress(w)'
    BY <2>1, <2>2, ResultsFrame DEF Inv
  <2>5. \A w \in Workers : pc'[w] = pc[w] \/ pc'[w] = "lock"
    BY <1>8, SignalEffect DEF Accept, Submit, Inv, TypeOK
  <2>6. \A w \in Workers : Progress(w)'
    BY <2>4, <2>5 DEF Progress
  <2> QED  BY <2>1, <2>2, <2>3, <2>4, <2>6, Apart DEF ResultsRight
<1>9. CASE DrainOne
  <2> DEFINE j == Head(ready)
  <2>1. /\ ready # <<>> /\ ready' = Tail(ready)
        /\ UNCHANGED <<request, gone, stopping, pc, current, pending, done>>
    BY <1>9 DEF DrainOne
  <2>2. j \in Jobs /\ j \in Range(ready) /\ Range(ready') \subseteq Range(ready)
    BY <2>1, TailElements DEF Inv, TypeOK, JobOwnership
  <2>3. PICK reply : Conclude(j, reply)
    BY <1>9 DEF DrainOne
  <2>4. memory[j] = "live" /\ \A w \in Workers : current[w] # j
    BY <2>2, Apart, WorkerPoolAssumption
  <2> QED  BY <2>1, <2>2, <2>3, <2>4, ConcludeResults
<1>10. CASE FlushDone
  <2> DEFINE j == Head(done)
  <2>1. /\ done # <<>> /\ done' = Tail(done)
        /\ UNCHANGED <<request, gone, stopping, pc, current, pending, ready>>
    BY <1>10 DEF FlushDone
  <2>2. j \in Jobs /\ j \in Range(done) /\ Range(done') \subseteq Range(done)
    BY <2>1, TailElements DEF Inv, TypeOK, JobOwnership
  <2>3. PICK reply : Conclude(j, reply)
    BY <1>10 DEF FlushDone
  <2>4. memory[j] = "live" /\ \A w \in Workers : current[w] # j
    BY <2>2, Apart, WorkerPoolAssumption
  <2> QED  BY <2>1, <2>2, <2>3, <2>4, ConcludeResults
<1>11. CASE FlushPending
  <2> DEFINE j == Head(pending)
  <2>1. /\ pending # <<>> /\ pending' = Tail(pending)
        /\ UNCHANGED <<request, gone, stopping, pc, current, done, ready>>
        /\ Conclude(j, ErrorReply(503))
    BY <1>11 DEF FlushPending
  <2>2. j \in Jobs /\ j \in Range(pending) /\ Range(pending') \subseteq Range(pending)
    BY <2>1, TailElements DEF Inv, TypeOK, JobOwnership
  <2>3. memory[j] = "live" /\ \A w \in Workers : current[w] # j
    BY <2>2, Apart, WorkerPoolAssumption
  <2> QED  BY <2>1, <2>2, <2>3, ConcludeResults
<1>12. ASSUME NEW w \in Workers, WakeSpuriously(w) PROVE ResultsRight'
  <2>1. /\ \A v \in Workers : pc'[v] = pc[v] \/ pc'[v] \notin Computing
        /\ UNCHANGED <<request, memory, status, looked, current, queues, cancelled,
                       gone, stopping>>
    BY <1>12 DEF WakeSpuriously, Inv, TypeOK, Computing
  <2> QED  BY <1>1, <2>1 DEF ResultsRight
<1>13. ASSUME NEW w \in Workers, Computes(w) PROVE ResultsRight'
  <2> DEFINE j == current[w]
  <2>1. /\ j \in Jobs /\ memory[j] = "live"
        /\ j \notin Range(pending) \cup Range(done) \cup Range(ready)
        /\ \A v \in Workers : v # w => current[v] # j
    BY <1>13, ComputeEffect, Apart, WorkerPoolAssumption DEF Inv
  <2>2. UNCHANGED <<request, memory, cancelled, current, queues, gone, stopping>>
    BY <1>13, ComputeEffect DEF Inv
  <2>3. /\ \A k \in Jobs : k # j => UNCHANGED <<status[k], looked[k]>>
        /\ \A v \in Workers : v # w => UNCHANGED pc[v]
    <3>1. PICK code \in Statuses, n \in Nat, next \in WorkerStates :
            /\ status' = [status EXCEPT ![j] = code]
            /\ looked' = [looked EXCEPT ![j] = n]
            /\ pc' = [pc EXCEPT ![w] = next]
      BY <1>13, ComputeEffect DEF Inv, WorkerStates
    <3> QED  BY <3>1 DEF Inv, TypeOK
  <2>4. /\ \A k \in Jobs : k \in Range(done) \cup Range(ready) /\ k # j => Settled(k)'
        /\ \A v \in Workers : v # w => Progress(v)'
    BY <2>1, <2>2, <2>3, ResultsFrame DEF Inv
  <2>5. Progress(w)'
    BY <1>13, ComputeProgress
  <2>6. /\ \A k \in Range(pending) : looked'[k] = 0
        /\ \A k \in Jobs : memory'[k] # "live" => looked'[k] = 0
    BY <2>1, <2>2, <2>3, Apart DEF ResultsRight
  <2> QED  BY <2>1, <2>2, <2>4, <2>5, <2>6, Apart DEF ResultsRight
<1> QED
  BY <1>2, <1>3, <1>4, <1>5, <1>6, <1>7, <1>8, <1>9, <1>10, <1>11, <1>12, <1>13,
     HandOverResults DEF Next, LoopStep, WorkerStep, Computes
-----------------------------------------------------------------------------
(* The pool implements the service.                                        *)

\* Nothing has been computed at the start.
LEMMA InitResults == Init => ResultsRight
<1> SUFFICES ASSUME Init PROVE ResultsRight
  OBVIOUS
<1>1. /\ Range(pending) = {} /\ Range(done) = {} /\ Range(ready) = {}
      /\ \A w \in Workers : Progress(w)
  BY EmptyElements DEF Init, Progress
<1> QED  BY <1>1 DEF Init, ResultsRight

\* ResultsRight is inductive relative to the inductive invariant.
LEMMA ResultsInvariance == Spec => [](Inv /\ ResultsRight)
<1>1. Init => Inv /\ ResultsRight
  BY InitInv, InitResults
<1>2. Inv /\ ResultsRight /\ [Next]_vars => Inv' /\ ResultsRight'
  BY NextInv, ResultsStep
<1> QED  BY <1>1, <1>2, PTL DEF Spec

\* The replies that wait are the ones the requests earned.
THEOREM ResultsCorrect == Spec => []ResultsRight
BY ResultsInvariance, PTL

\* What is left in a job that awaits its reply may be sent.
LEMMA FinishPromised ==
  ASSUME Inv, ResultsRight, NEW j \in Range(done) \cup Range(ready), j \in Jobs,
         NEW reply \in FinishReplies(j)
  PROVE  /\ request[j] # NoRequest /\ sent[j] = <<>>
         /\ reply \in {EarnedReply(request[j]), ErrorReply(500)}
              \cup (IF gone[j] \/ loop \notin {"dispatch", "drain", "reply"}
                    THEN {ErrorReply(503)} ELSE {})
<1>1. memory[j] = "live"
  BY Apart
<1>2. request[j] # NoRequest /\ sent[j] = <<>>
  BY <1>1 DEF Inv, Answers, AnsweredOnce, JobsSetUp
<1>3. Settled(j) /\ (cancelled[j] => gone[j] \/ stopping)
  BY DEF ResultsRight
<1>4. stopping => loop \notin {"dispatch", "drain", "reply"}
  BY DEF Inv, PhasesInStep
<1>5. CASE status[j] = 0
  BY <1>2, <1>3, <1>4, <1>5 DEF Settled, FinishReplies
<1>6. CASE status[j] = 200
  BY <1>2, <1>3, <1>6 DEF Settled, FinishReplies, EarnedReply, Points
<1>7. CASE status[j] \notin {0, 200}
  BY <1>2, <1>3, <1>7 DEF Settled, FinishReplies, EarnedReply
<1> QED  BY <1>5, <1>6, <1>7

\* The service's own copy of the operators of Elevation.
LEMMA SameOperators ==
  /\ \A code : Service!ErrorReply(code) = ErrorReply(code)
  /\ \A r : Service!Admission(r) = Admission(r)
  /\ \A r : Service!EarnedReply(r) = EarnedReply(r)
<1>1. \A code : Service!ErrorReply(code) = ErrorReply(code)
  BY DEF Service!ErrorReply, ErrorReply
<1>2. \A n : Service!OkReply(n) = OkReply(n)
  BY DEF Service!OkReply, OkReply
<1>3. \A r : Service!Admission(r) = Admission(r)
  BY DEF Service!Admission, Admission, Service!DetailKnown, DetailKnown
<1>4. \A r : Service!ParseVerdict(r) = ParseVerdict(r)
  BY DEF Service!ParseVerdict, ParseVerdict
<1>5. \A r : Service!Verdict(r) = Verdict(r)
  BY <1>3, <1>4 DEF Service!Verdict, Verdict
<1>6. \A r : Service!EarnedReply(r) = EarnedReply(r)
  BY <1>1, <1>2, <1>5 DEF Service!EarnedReply, EarnedReply
<1> QED  BY <1>1, <1>3, <1>6

\* Concluding a job is answering its request.
LEMMA ConcludeIsAnswer ==
  ASSUME TypeOK, NEW j \in Jobs, request[j] # NoRequest, sent[j] = <<>>,
         NEW reply \in {EarnedReply(request[j]), ErrorReply(500)}
              \cup (IF gone[j] \/ loop \notin {"dispatch", "drain", "reply"}
                    THEN {ErrorReply(503)} ELSE {}),
         Conclude(j, reply), UNCHANGED <<request, gone, loop>>
  PROVE  Service!Answer(j)
<1>1. Append(sent[j], reply) = <<reply>>
  OBVIOUS
<1>2. sent' = [sent EXCEPT ![j] = <<reply>>]
  BY <1>1 DEF Conclude, TypeOK
<1>3. reply \in Service!Promised(j)
  <2>1. CASE reply \in {EarnedReply(request[j]), ErrorReply(500)}
    BY <2>1, SameOperators DEF Service!Promised
  <2>2. CASE /\ gone[j] \/ loop \notin {"dispatch", "drain", "reply"}
             /\ reply = ErrorReply(503)
    BY <2>2, SameOperators DEF Service!Promised
  <2> QED  BY <2>1, <2>2
<1>4. Service!Unanswered(j)
  BY DEF Service!Unanswered
<1> QED  BY <1>2, <1>3, <1>4 DEF Service!Answer

\* The pool starts where the service does ...
LEMMA ServiceInit == Init => Service!Init
BY DEF Init, Service!Init

\* ... and each of its steps is one of the service's, or none.
LEMMA ServiceStep ==
  ASSUME Inv, ResultsRight, [Next]_vars
  PROVE  [Service!Next]_(Service!vars)
<1> USE DEF clients, queues, compute
<1>t. TypeOK
  BY DEF Inv
<1>1. ASSUME UNCHANGED <<request, gone, sent>>,
             loop \in {"dispatch", "drain", "reply"}
               <=> loop' \in {"dispatch", "drain", "reply"}
      PROVE  UNCHANGED Service!vars
  BY <1>1 DEF Service!vars
<1>2. CASE UNCHANGED vars
  BY <1>1, <1>2 DEF vars
<1>3. ASSUME NEW j \in Jobs, Refuse(j) PROVE Service!TurnDown(j)
  <2>1. PICK r \in Requests, code \in Statuses :
          /\ code = 500 \/ (Admission(r) # 0 /\ code = Admission(r))
          /\ request' = [request EXCEPT ![j] = r]
          /\ sent' = [sent EXCEPT ![j] = Append(@, ErrorReply(code))]
    BY <1>3 DEF Refuse
  <2>2. request[j] = NoRequest /\ loop = "dispatch" /\ UNCHANGED <<gone, loop>>
    BY <1>3 DEF Refuse
  <2>3. sent[j] = <<>>
    BY <2>2 DEF Inv, Answers, JobsSetUp
  <2>4. Append(sent[j], ErrorReply(code)) = <<ErrorReply(code)>>
    BY <2>3
  <2>5. sent' = [sent EXCEPT ![j] = <<ErrorReply(code)>>]
    BY <2>1, <2>4
  <2>6. code \in {405, 401, 400, 413, 500} /\ code \in {Admission(r), 500}
    <3>1. Admission(r) \in {0, 400, 401, 405, 413}
      BY AdmissionType
    <3> QED  BY <2>1, <3>1
  <2>7. /\ code \in {Service!Admission(r), 500}
        /\ sent' = [sent EXCEPT ![j] = <<Service!ErrorReply(code)>>]
    BY <2>5, <2>6, SameOperators
  <2>8. /\ loop' \in {"dispatch", "drain", "reply"}
        /\ loop \in {"dispatch", "drain", "reply"}
    BY <2>2
  <2>9. \E q \in Requests, c \in {405, 401, 400, 413, 500} :
          /\ c \in {Service!Admission(q), 500}
          /\ request' = [request EXCEPT ![j] = q]
          /\ sent' = [sent EXCEPT ![j] = <<Service!ErrorReply(c)>>]
    <3> DEFINE TurnedDown(q, c) ==
                 /\ c \in {Service!Admission(q), 500}
                 /\ request' = [request EXCEPT ![j] = q]
                 /\ sent' = [sent EXCEPT ![j] = <<Service!ErrorReply(c)>>]
    <3>1. TurnedDown(r, code) /\ code \in {405, 401, 400, 413, 500}
      BY <2>1, <2>6, <2>7
    <3> HIDE DEF TurnedDown
    <3>2. \E q \in Requests, c \in {405, 401, 400, 413, 500} : TurnedDown(q, c)
      BY <3>1
    <3> QED  BY <3>2 DEF TurnedDown
  <2>10. UNCHANGED <<gone, loop \notin {"dispatch", "drain", "reply"}>>
    BY <2>2
  <2> QED  BY <2>2, <2>8, <2>9, <2>10 DEF Service!TurnDown
<1>4. ASSUME NEW j \in Jobs, Accept(j) PROVE Service!Receive(j)
  BY <1>4 DEF Accept, Submit, Service!Receive
<1>5. ASSUME NEW j \in Jobs, Leave(j) PROVE Service!Leave(j)
  <2>1. request[j] # NoRequest /\ sent[j] = <<>>
    BY <1>5 DEF Leave, InService, Inv, Answers, AnsweredOnce, JobsSetUp
  <2> QED  BY <1>5, <2>1 DEF Leave, Service!Leave, Service!Unanswered
<1>6. ASSUME NEW j \in Jobs, Peek(j) \/ Pipeline(j) PROVE UNCHANGED Service!vars
  BY <1>1, <1>6 DEF Peek, Pipeline
<1>7. CASE StartDrain \/ TakeDone \/ DrainEnd \/ StopPool \/ JoinWorkers \/ FlushEnd \/ Stopped
  <2>1. UNCHANGED Service!vars
    BY <1>1, <1>7 DEF StartDrain, TakeDone, DrainEnd, StopPool, JoinWorkers, FlushEnd,
         Stopped, vars
  <2> QED  BY <2>1
<1>8. CASE Terminate
  BY <1>8 DEF Terminate, Service!Close, Service!Next
<1>9. CASE DrainOne
  <2>1. PICK reply \in FinishReplies(Head(ready)) : Conclude(Head(ready), reply)
    BY <1>9 DEF DrainOne
  <2>2. Head(ready) \in Jobs /\ Head(ready) \in Range(ready)
    BY <1>9, TailElements DEF DrainOne, Inv, TypeOK
  <2>3. UNCHANGED <<request, gone, loop>>
    BY <1>9 DEF DrainOne
  <2>4. Service!Answer(Head(ready))
    BY <1>t, <2>1, <2>2, <2>3, FinishPromised, ConcludeIsAnswer
  <2> QED  BY <2>2, <2>4 DEF Service!Next
<1>10. CASE FlushDone
  <2>1. PICK reply \in FinishReplies(Head(done)) : Conclude(Head(done), reply)
    BY <1>10 DEF FlushDone
  <2>2. Head(done) \in Jobs /\ Head(done) \in Range(done)
    BY <1>10, TailElements DEF FlushDone, Inv, TypeOK
  <2>3. UNCHANGED <<request, gone, loop>>
    BY <1>10 DEF FlushDone
  <2>4. Service!Answer(Head(done))
    BY <1>t, <2>1, <2>2, <2>3, FinishPromised, ConcludeIsAnswer
  <2> QED  BY <2>2, <2>4 DEF Service!Next
<1>11. CASE FlushPending
  <2>1. Head(pending) \in Jobs /\ Head(pending) \in Range(pending)
    BY <1>11, TailElements DEF FlushPending, Inv, TypeOK
  <2>2. /\ UNCHANGED <<request, gone, loop>> /\ loop = "flush"
        /\ Conclude(Head(pending), ErrorReply(503))
    BY <1>11 DEF FlushPending
  <2>3. memory[Head(pending)] = "live"
    BY <2>1, Apart
  <2>4. request[Head(pending)] # NoRequest /\ sent[Head(pending)] = <<>>
    BY <2>1, <2>3 DEF Inv, Answers, AnsweredOnce, JobsSetUp
  <2>5. Service!Answer(Head(pending))
    BY <1>t, <2>1, <2>2, <2>4, ConcludeIsAnswer
  <2> QED  BY <2>1, <2>5 DEF Service!Next
<1>12. ASSUME NEW w \in Workers, Acquire(w) \/ Finish(w) \/ WakeSpuriously(w) \/ Computes(w)
       PROVE  UNCHANGED Service!vars
  <2>1. UNCHANGED <<request, gone, sent, loop>>
    BY <1>12, <1>t, ComputeEffect DEF Acquire, Finish, WakeSpuriously
  <2> QED  BY <1>1, <2>1
<1>13. ASSUME NEW j \in Jobs, Service!TurnDown(j) \/ Service!Receive(j) \/ Service!Leave(j)
       PROVE  Service!Next
  BY <1>13 DEF Service!Next
<1> QED
  BY <1>2, <1>3, <1>4, <1>5, <1>6, <1>7, <1>8, <1>9, <1>10, <1>11, <1>12, <1>13
     DEF Next, LoopStep, WorkerStep, Computes

\* The event loop and its workers keep every promise of ElevationService: each
\* request is answered at most once, with the reply it earned, 500, or -- for a
\* client that left or a server that stops -- 503.
THEOREM PoolImplementsService == Spec => ServiceSpec
<1>1. Init => Service!Init
  BY ServiceInit
<1>2. Inv /\ ResultsRight /\ [Next]_vars => [Service!Next]_(Service!vars)
  BY ServiceStep
<1> QED  BY <1>1, <1>2, ResultsInvariance, PTL DEF Spec, ServiceSpec, Service!Spec
=============================================================================
