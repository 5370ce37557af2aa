----------------------------- MODULE Daemon_proofs -----------------------------
(***************************************************************************)
(* Proofs about the life of a daemon with any number of threads, paths and *)
(* requests: threads exclude one another from PROJ, and no context is      *)
(* freed twice or under a thread that uses it, whatever fails.             *)
(***************************************************************************)
EXTENDS Daemon, FiniteSetTheorems, SequenceTheorems, WellFoundedInduction, TLAPS

-----------------------------------------------------------------------------
(* Least elements, and the labels main() returns to.                       *)

\* The context that is freed next is one of those to free.
LEMMA LeastIsIn ==
  ASSUME NEW S \in SUBSET Nat, S # {}
  PROVE  Min(S) \in S /\ \A y \in S : Min(S) <= y
<1>1. PICK x \in S : \A y \in S : <<y, x>> \notin OpToRel(<, Nat)
  BY NatLessThanWellFounded, WFMin
<1>2. \A y \in S : ~(y < x)
  BY <1>1 DEF OpToRel
<1>3. \A y \in S : x <= y
  BY <1>2, SMT
<1> QED
  BY <1>3 DEF Min

\* Calls nest two deep at most.
LEMMA Pushed ==
  ASSUME NEW l, NEW r
  PROVE  /\ <<l>> \o <<>> = <<l>>
         /\ <<l>> \o <<r>> = <<l, r>>
<1>1. <<l>> \in Seq({l}) /\ <<>> \in Seq({l})
  OBVIOUS
<1>2. <<l>> \o <<>> = <<l>>
  BY <1>1, ConcatEmptySeq
<1>3. <<l>> \in Seq({l, r}) /\ <<r>> \in Seq({l, r}) /\ <<l, r>> \in Seq({l, r})
  OBVIOUS
<1>4. /\ <<l>> \o <<r>> \in Seq({l, r})
      /\ Len(<<l>> \o <<r>>) = Len(<<l>>) + Len(<<r>>)
      /\ \A i \in 1 .. Len(<<l>>) + Len(<<r>>) :
           (<<l>> \o <<r>>)[i] = IF i <= Len(<<l>>) THEN <<l>>[i] ELSE <<r>>[i - Len(<<l>>)]
  BY <1>3, ConcatProperties
<1>5. Len(<<l>>) = 1 /\ Len(<<r>>) = 1 /\ <<l>>[1] = l /\ <<r>>[1] = r
  OBVIOUS
<1>6. Len(<<l>> \o <<r>>) = 2 /\ (<<l>> \o <<r>>)[1] = l /\ (<<l>> \o <<r>>)[2] = r
  BY <1>4, <1>5
<1>7. Len(<<l, r>>) = 2 /\ <<l, r>>[1] = l /\ <<l, r>>[2] = r
  OBVIOUS
<1>8. \A i \in 1 .. 2 : (<<l>> \o <<r>>)[i] = <<l, r>>[i]
  BY <1>6, <1>7
<1>9. <<l>> \o <<r>> = <<l, r>>
  BY <1>3, <1>4, <1>6, <1>7, <1>8, SeqEqual
<1> QED
  BY <1>2, <1>9

LEMMA Popped ==
  ASSUME NEW l, NEW r
  PROVE  /\ Head(<<l>>) = l /\ Tail(<<l>>) = <<>>
         /\ Head(<<l, r>>) = l /\ Tail(<<l, r>>) = <<r>>
  OBVIOUS

-----------------------------------------------------------------------------
(* Where main() is, who runs meanwhile, and who is inside PROJ.            *)

WorkerPC ==
  {"none", "lock", "wait", "lookup", "open", "toProj", "proj", "toClose", "close",
   "finish", "exited"}

\* In ContextFree(), and in PoolFree().
Freeing == {"free", "closing", "osr"}
PoolFreeing == {"stop", "join", "flush", "unpooled"}

\* The calls main() is in, by the labels they return to.
StackInv ==
  /\ pc \in Freeing =>
       \/ \E l \in {"failed", "created", "unpool", "unslot", "drivers"} : stack = <<l>>
       \/ \E l \in {"created", "slots"} : stack = <<"unpooled", l>>
  /\ pc \in PoolFreeing => \E l \in {"created", "slots"} : stack = <<l>>
  /\ pc \notin Freeing \cup PoolFreeing => stack = <<>>

\* Where there is a pool, and where it may have threads that run.
Runs(w) == wpc[w] \notin {"none", "exited"}

PoolInv ==
  /\ "pool" \in held =>
       \/ pc \in {"workers", "wakeup", "spawn", "created", "unpool", "bind", "term", "quit",
                  "dispatch", "err"} \cup PoolFreeing
       \/ pc \in Freeing /\ (stack[1] = "unpool" \/ stack[1] = "unpooled")
  /\ pc \in {"workers", "wakeup", "spawn"} => "pool" \in held
  /\ \A w \in All : Runs(w) =>
       /\ pc \in {"spawn", "created", "bind", "term", "quit", "dispatch", "err", "stop",
                  "join"}
       /\ "pool" \in held

LockInv ==
  /\ lock \in {Free, Main} \cup All
  /\ lock = Main <=> pc = "closing"
  /\ \A w \in All : lock = w <=> wpc[w] \in {"proj", "close"}

ControlInv ==
  /\ threads \in Nat \ {0}
  /\ wpc \in [All -> WorkerPC]
  /\ StackInv
  /\ PoolInv
  /\ LockInv

-----------------------------------------------------------------------------
(* Who owns which context.                                                 *)

Alive(S) == \A i \in S : life[i] = "live"

\* While contexts load: those before `next` are there, those after it are not.
LoadingInv ==
  /\ pc \in {"calloc", "srs", "load"} =>
       /\ next \in All
       /\ ctx = (IF next = 0 THEN {} ELSE {0}) /\ slots = 1 .. next - 1
       /\ "array" \in held <=> next > 0
       /\ \A i \in All :
            life[i] = IF i < next \/ (i = next /\ pc # "calloc") THEN "live" ELSE "none"
  /\ pc = "array" =>
       /\ next = 0 /\ threads > 1 /\ ctx = {0} /\ slots = {} /\ "array" \notin held
       /\ \A i \in All : life[i] = IF i = 0 THEN "live" ELSE "none"
  /\ pc \in {"evthread", "sigpipe", "base", "http", "handover"} =>
       /\ ctx = {0} /\ Alive(All)
       /\ slots = 1 .. threads - 1
       /\ pc \in {"evthread", "handover"} => "array" \in held
       /\ "array" \notin held => threads = 1

\* From the hand-over on the pool has them all, or what is left of it none.
PoolOwnsInv ==
  /\ mine # {} => "pool" \in held
  /\ pc \in {"pool", "workers", "wakeup", "spawn"} =>
       ctx = {} /\ slots = All /\ Alive(All)
  /\ pc \in {"wakeup", "spawn"} => mine = All
  /\ pc \in {"created", "unpool"} \cup PoolFreeing => ctx = {}
  /\ pc = "created" => IF "pool" \in held THEN mine = All /\ Alive(All) ELSE mine = {}
  /\ pc \in {"bind", "term", "quit", "dispatch"} =>
       /\ slots = {}
       /\ IF "pool" \in held THEN ctx = {} /\ mine = All /\ Alive(All)
          ELSE ctx = {0} /\ Alive(ctx)
  /\ pc \in {"workers", "unpool"} => mine = {}
  /\ pc \in {"stop", "join", "flush"} => Alive(mine)
  /\ pc \in PoolFreeing /\ stack[1] = "slots" => slots = {}
  /\ \A w \in All : Runs(w) => mine = All /\ Alive(All)

\* At the end, those that are not the pool's.
LeftInv ==
  /\ pc \in {"failed", "err", "slots"} => Alive(ctx \cup slots) /\ ctx \cap slots = {}
  /\ pc = "err" => Alive(mine)
  /\ pc = "err" /\ "pool" \in held => ctx = {} /\ slots = {}
  /\ pc \in {"unslot", "unhttp", "unterm", "unquit", "unbase", "unctx"} => Alive(ctx)

\* Contexts that are being freed are alive until their turn comes, and who is asked
\* for contexts later has others.
FreeingInv ==
  /\ pc \notin Freeing => todo = {}
  /\ pc \in {"closing", "osr"} => todo # {}
  /\ Alive(todo)
  /\ pc \in Freeing =>
       /\ stack[1] = "failed" =>
            Alive(ctx \cup slots) /\ ctx \cap slots = {} /\ (ctx \cup slots) \cap todo = {}
       /\ stack[1] \in {"created", "unpool"} => ctx = {} /\ mine = {}
       /\ stack[1] = "unpooled" => ctx = {} /\ (stack[2] = "slots" => slots = {})
       /\ stack[1] = "unslot" => Alive(ctx) /\ ctx \cap todo = {}

OwnerInv ==
  /\ life \in [All -> {"none", "live", "freed"}]
  /\ next \in Nat
  /\ ctx \cup slots \cup mine \cup todo \subseteq All
  /\ LoadingInv
  /\ PoolOwnsInv
  /\ LeftInv
  /\ FreeingInv

-----------------------------------------------------------------------------
(* Main() keeps to the plan of its labels.                                *)

LEMMA ControlInit == Init => ControlInv
  BY DaemonAssumption DEF Init, ControlInv, StackInv, PoolInv, LockInv, Freeing,
    PoolFreeing, Runs, All, Main, Free, WorkerPC

LEMMA ControlStep == ControlInv /\ [Next]_vars => ControlInv'
<1> SUFFICES ASSUME ControlInv, [Next]_vars
             PROVE  ControlInv'
  OBVIOUS
<1> USE DEF ControlInv, StackInv, PoolInv, LockInv, Freeing, PoolFreeing, All, Runs, Main,
    Free, WorkerPC
<1> USE Pushed, Popped DEF vars, storages, control, contexts, owners, jobs, workers
<1>StorageChanges. CASE StorageChanges
  BY <1>StorageChanges DEF StorageChanges
<1>CreateContext. CASE CreateContext
  BY <1>CreateContext DEF CreateContext, Fail
<1>MakeSRS. CASE MakeSRS
  BY <1>MakeSRS DEF MakeSRS, ScrapContext, FreeContexts
<1>AddPath. CASE AddPath
  BY <1>AddPath DEF AddPath
<1>KeepContext. CASE KeepContext
  BY <1>KeepContext DEF KeepContext, AfterContext, Empty, ScrapContext, FreeContexts
<1>Failed. CASE Failed
  BY <1>Failed DEF Failed, Fail
<1>AllocArray. CASE AllocArray
  BY <1>AllocArray DEF AllocArray, Setup, Fail
<1>Prepare. CASE Prepare
  BY <1>Prepare DEF Prepare, Setup, InstallSignal, Fail
<1>HandOver. CASE HandOver
  BY <1>HandOver DEF HandOver
<1>AllocPool. CASE AllocPool
  BY <1>AllocPool DEF AllocPool, FreeContexts
<1>AllocWorkers. CASE AllocWorkers
  BY <1>AllocWorkers DEF AllocWorkers, FreeContexts
<1>FreeEmptyPool. CASE FreeEmptyPool
  BY <1>FreeEmptyPool DEF FreeEmptyPool, FreePool
<1>AllocWakeup. CASE AllocWakeup
  BY <1>AllocWakeup DEF AllocWakeup, FreePool
<1>Spawn. CASE Spawn
  BY <1>Spawn DEF Spawn, FreePool
<1>PoolCreated. CASE PoolCreated
  BY <1>PoolCreated DEF PoolCreated, Fail
<1>Drain. CASE Drain
  BY <1>Drain DEF Drain
<1>CleanUp. CASE CleanUp
  BY <1>CleanUp DEF CleanUp, FreePool
<1>StopPool. CASE StopPool
  BY <1>StopPool DEF StopPool
<1>JoinWorkers. CASE JoinWorkers
  BY <1>JoinWorkers DEF JoinWorkers
<1>FlushPool. CASE FlushPool
  <2>1. PICK l \in {"created", "slots"} : stack = <<l>>
    BY <1>FlushPool DEF FlushPool
  <2>2. pc' = "free" /\ stack' = <<"unpooled", l>>
    BY <1>FlushPool, <2>1 DEF FlushPool, FreeContexts
  <2>3. held' = held \ {"wakeup"} /\ UNCHANGED <<threads, wpc, lock>>
    BY <1>FlushPool DEF FlushPool
  <2>4. \A w \in All : ~Runs(w)
    BY <1>FlushPool DEF FlushPool
  <2> QED
    BY <1>FlushPool, <2>1, <2>2, <2>3, <2>4 DEF FlushPool
<1>FreedPool. CASE FreedPool
  <2>1. PICK l \in {"created", "slots"} : stack = <<l>>
    BY <1>FreedPool DEF FreedPool
  <2>2. pc' = l /\ stack' = <<>>
    BY <1>FreedPool, <2>1 DEF FreedPool, Return
  <2>3. \A w \in All : ~Runs(w)
    BY <1>FreedPool DEF FreedPool
  <2> QED
    BY <1>FreedPool, <2>1, <2>2, <2>3 DEF FreedPool, storages, contexts, jobs, workers
<1>LockToClose. CASE LockToClose
  BY <1>LockToClose DEF LockToClose
<1>CloseOne. CASE CloseOne
  BY <1>CloseOne DEF CloseOne
<1>DropSRS. CASE DropSRS
  BY <1>DropSRS DEF DropSRS
<1>DropContext. CASE DropContext
  BY <1>DropContext DEF DropContext
<1>FreedContexts. CASE FreedContexts
  <2>1. \A w \in All : ~Runs(w)
    BY <1>FreedContexts DEF FreedContexts
  <2>2. CASE \E l \in {"failed", "created", "unpool", "unslot", "drivers"} : stack = <<l>>
    <3>1. PICK l \in {"failed", "created", "unpool", "unslot", "drivers"} : stack = <<l>>
      BY <2>2
    <3>2. pc' = l /\ stack' = <<>> /\ stack[1] = l
      BY <1>FreedContexts, <3>1 DEF FreedContexts, Return
    <3> QED
      BY <1>FreedContexts, <2>1, <3>1, <3>2 DEF FreedContexts, storages, contexts, owners,
          jobs, workers
  <2>3. CASE \E l \in {"created", "slots"} : stack = <<"unpooled", l>>
    <3>1. PICK l \in {"created", "slots"} : stack = <<"unpooled", l>>
      BY <2>3
    <3>2. pc' = "unpooled" /\ stack' = <<l>>
      BY <1>FreedContexts, <3>1 DEF FreedContexts, Return
    <3> QED
      BY <1>FreedContexts, <2>1, <3>1, <3>2 DEF FreedContexts, storages, contexts, owners,
          jobs, workers
  <2> QED
    BY <1>FreedContexts, <2>2, <2>3 DEF FreedContexts
<1>FreeSlots. CASE FreeSlots
  BY <1>FreeSlots DEF FreeSlots, FreeContexts
<1>ReleaseRest. CASE ReleaseRest
  BY <1>ReleaseRest DEF ReleaseRest, Release
<1>FreeFirst. CASE FreeFirst
  BY <1>FreeFirst DEF FreeFirst, FreeContexts
<1>Submit. CASE Submit
  BY <1>Submit DEF Submit, Signal
<1>Inline. CASE Inline
  BY <1>Inline DEF Inline
<1>LeaveLoop. CASE LeaveLoop
  BY <1>LeaveLoop DEF LeaveLoop
<1>Acquire. ASSUME NEW w \in All, Acquire(w)
       PROVE  ControlInv'
  BY <1>Acquire DEF Acquire, NextJob
<1>WakeSpuriously. ASSUME NEW w \in All, WakeSpuriously(w)
       PROVE  ControlInv'
  BY <1>WakeSpuriously DEF WakeSpuriously
<1>Consult. ASSUME NEW w \in All, Consult(w)
       PROVE  ControlInv'
  BY <1>Consult DEF Consult, Step
<1>OpenReturns. ASSUME NEW w \in All, OpenReturns(w)
       PROVE  ControlInv'
  BY <1>OpenReturns DEF OpenReturns, Step
<1>LockProj. ASSUME NEW w \in All, LockProj(w)
       PROVE  ControlInv'
  BY <1>LockProj DEF LockProj, Step
<1>Built. ASSUME NEW w \in All, Built(w)
       PROVE  ControlInv'
  BY <1>Built DEF Built, Step
<1>Closed. ASSUME NEW w \in All, Closed(w)
       PROVE  ControlInv'
  BY <1>Closed DEF Closed, Step
<1>Finish. ASSUME NEW w \in All, Finish(w)
       PROVE  ControlInv'
  BY <1>Finish DEF Finish, NextJob
<1>Stutter. CASE UNCHANGED vars
  BY <1>Stutter
<1> QED
  BY <1>StorageChanges, <1>CreateContext, <1>MakeSRS, <1>AddPath, <1>KeepContext, <1>Failed,
      <1>AllocArray, <1>Prepare, <1>HandOver, <1>AllocPool, <1>AllocWorkers,
      <1>FreeEmptyPool, <1>AllocWakeup, <1>Spawn, <1>PoolCreated, <1>Drain, <1>CleanUp,
      <1>StopPool, <1>JoinWorkers, <1>FlushPool, <1>FreedPool, <1>LockToClose, <1>CloseOne,
      <1>DropSRS, <1>DropContext, <1>FreedContexts, <1>FreeSlots, <1>ReleaseRest,
      <1>FreeFirst, <1>Submit, <1>Inline, <1>LeaveLoop, <1>Acquire, <1>WakeSpuriously,
      <1>Consult, <1>OpenReturns, <1>LockProj, <1>Built, <1>Closed, <1>Finish, <1>Stutter
  DEF Next, MainStep, WorkerStep, Exited

LEMMA Control == Spec => []ControlInv
  BY ControlInit, ControlStep, PTL DEF Spec

\* Two threads are never inside PROJ at once, however many there are: workers by
\* datasetProj, and main() because no worker runs when it goes there without.
THEOREM NeverTwoInProj == Spec => []ProjExclusive
<1>1. ControlInv => ProjExclusive
  <2> SUFFICES ASSUME ControlInv
               PROVE  ProjExclusive
    OBVIOUS
  <2> USE DEF ControlInv, LockInv, All, Main, Free
  <2>1. CASE pc \in {"srs", "load", "osr"}
    <3>1. \A w \in All : ~Runs(w)
      BY <2>1 DEF PoolInv
    <3>2. InProj = {Main} /\ lock = Free
      BY <2>1, <3>1 DEF InProj, Runs
    <3>3. Cardinality({Main}) = 1
      BY FS_Singleton
    <3> QED
      BY <3>2, <3>3 DEF ProjExclusive
  <2>2. CASE pc = "closing"
    <3>1. InProj = {Main} /\ lock = Main
      BY <2>2 DEF InProj
    <3>2. Cardinality({Main}) = 1
      BY FS_Singleton
    <3> QED
      BY <3>1, <3>2 DEF ProjExclusive
  <2>3. CASE pc \notin {"srs", "load", "osr", "closing"}
    <3>1. CASE lock = Free
      <4>1. InProj = {}
        BY <2>3, <3>1 DEF InProj
      <4> QED
        BY <3>1, <4>1, FS_EmptySet DEF ProjExclusive
    <3>2. CASE lock \in All
      <4>1. InProj = {lock}
        BY <2>3, <3>2 DEF InProj
      <4>2. Cardinality({lock}) = 1
        BY FS_Singleton
      <4> QED
        BY <4>1, <4>2 DEF ProjExclusive
    <3> QED
      BY <2>3, <3>1, <3>2
  <2> QED
    BY <2>1, <2>2, <2>3
<1> QED
  BY <1>1, Control, PTL

-----------------------------------------------------------------------------
(* Contexts have one owner each.                                           *)

LEMMA OwnerInit == Init => OwnerInv
  BY DaemonAssumption DEF Init, OwnerInv, LoadingInv, PoolOwnsInv, LeftInv, FreeingInv,
    Alive, Freeing, PoolFreeing, Runs, All

LEMMA OwnerStep == ControlInv /\ ControlInv' /\ OwnerInv /\ [Next]_vars => OwnerInv'
<1> SUFFICES ASSUME ControlInv, ControlInv', OwnerInv, [Next]_vars
             PROVE  OwnerInv'
  OBVIOUS
<1> USE DEF ControlInv, StackInv, PoolInv, Freeing, PoolFreeing, All, Runs, Alive,
      OwnerInv, LoadingInv, PoolOwnsInv, LeftInv, FreeingInv
<1> USE Pushed, Popped DEF vars, storages, control, contexts, owners, jobs, workers
<1>StorageChanges. CASE StorageChanges
  BY <1>StorageChanges DEF StorageChanges
<1>CreateContext. CASE CreateContext
  BY <1>CreateContext DEF CreateContext, Fail
<1>MakeSRS. CASE MakeSRS
  BY <1>MakeSRS DEF MakeSRS, ScrapContext, FreeContexts
<1>AddPath. CASE AddPath
  BY <1>AddPath DEF AddPath
<1>KeepContext. CASE KeepContext
  <2>1. pc = "load" /\ next \in All /\ UNCHANGED <<threads, life, mine, held, wpc>>
    BY <1>KeepContext DEF KeepContext, storages, contexts, workers
  <2>2. CASE ScrapContext
    BY <1>KeepContext, <2>2 DEF KeepContext, ScrapContext, FreeContexts, storages, contexts,
        jobs, workers
  <2>3. ASSUME ~ScrapContext, next = 0
        PROVE  OwnerInv'
    <3>1. /\ ctx' = {0} /\ slots' = {} /\ UNCHANGED <<stack, todo>>
          /\ pc' = AfterContext(0) /\ next' = IF pc' = "calloc" THEN next + 1 ELSE 0
      BY <1>KeepContext, <2>1, <2>3 DEF KeepContext
    <3>2. /\ pc' \in {"err", "array", "sigpipe"}
          /\ pc' = "array" => threads > 1
          /\ pc' = "sigpipe" => ~(threads > 1)
      BY <3>1 DEF AfterContext
    <3>3. next' = 0
      BY <3>1, <3>2
    <3> HIDE DEF AfterContext
    <3> QED
      BY <2>1, <2>3, <3>1, <3>2, <3>3
  <2>4. ASSUME ~ScrapContext, next > 0
        PROVE  OwnerInv'
    <3>1. /\ slots' = slots \cup {next} /\ UNCHANGED <<ctx, stack, todo>>
          /\ pc' = AfterContext(next) /\ next' = IF pc' = "calloc" THEN next + 1 ELSE 0
      BY <1>KeepContext, <2>1, <2>4 DEF KeepContext
    <3>2. pc' = IF next + 1 < threads THEN "calloc" ELSE "evthread"
      BY <2>4, <3>1 DEF AfterContext
    <3>3. slots' = 1 .. next /\ ctx = {0} /\ "array" \in held /\ mine = {} /\ todo = {}
      BY <2>1, <2>4, <3>1
    <3>4. \A i \in All : life[i] = IF i <= next THEN "live" ELSE "none"
      BY <2>1
    <3>5. CASE next + 1 < threads
      BY <2>1, <2>4, <3>1, <3>2, <3>3, <3>4, <3>5
    <3>6. CASE ~(next + 1 < threads)
      <4>1. threads = next + 1
        BY <2>1, <3>6
      <4> QED
        BY <2>1, <2>4, <3>1, <3>2, <3>3, <3>4, <3>6, <4>1
    <3> QED
      BY <3>5, <3>6
  <2> QED
    BY <2>1, <2>2, <2>3, <2>4
<1>Failed. CASE Failed
  BY <1>Failed DEF Failed, Fail
<1>AllocArray. CASE AllocArray
  BY <1>AllocArray DEF AllocArray, Setup, Fail
<1>Prepare. CASE Prepare
  BY <1>Prepare DEF Prepare, Setup, InstallSignal, Fail
<1>HandOver. CASE HandOver
  BY <1>HandOver DEF HandOver
<1>AllocPool. CASE AllocPool
  BY <1>AllocPool DEF AllocPool, FreeContexts
<1>AllocWorkers. CASE AllocWorkers
  <2>1. /\ pc = "workers" /\ ctx = {} /\ mine = {} /\ slots = All /\ Alive(All)
        /\ UNCHANGED <<threads, next, life, ctx, slots, wpc>>
    BY <1>AllocWorkers DEF AllocWorkers, storages, contexts, workers
  <2>2. CASE pc' = "free"
    <3>1. stack' = <<"unpool">> /\ todo' = slots /\ UNCHANGED <<held, mine>>
      BY <1>AllocWorkers, <2>1, <2>2 DEF AllocWorkers, FreeContexts
    <3> QED
      BY <2>1, <2>2, <3>1
  <2>3. CASE pc' = "wakeup"
    BY <1>AllocWorkers, <2>1, <2>3 DEF AllocWorkers, FreeContexts
  <2> QED
    BY <1>AllocWorkers, <2>2, <2>3 DEF AllocWorkers, FreeContexts
<1>FreeEmptyPool. CASE FreeEmptyPool
  BY <1>FreeEmptyPool DEF FreeEmptyPool, FreePool
<1>AllocWakeup. CASE AllocWakeup
  BY <1>AllocWakeup DEF AllocWakeup, FreePool
<1>Spawn. CASE Spawn
  BY <1>Spawn DEF Spawn, FreePool
<1>PoolCreated. CASE PoolCreated
  BY <1>PoolCreated DEF PoolCreated, Fail
<1>Drain. CASE Drain
  BY <1>Drain DEF Drain
<1>CleanUp. CASE CleanUp
  BY <1>CleanUp DEF CleanUp, FreePool
<1>StopPool. CASE StopPool
  BY <1>StopPool DEF StopPool
<1>JoinWorkers. CASE JoinWorkers
  BY <1>JoinWorkers DEF JoinWorkers
<1>FlushPool. CASE FlushPool
  BY <1>FlushPool DEF FlushPool, FreeContexts
<1>FreedPool. CASE FreedPool
  BY <1>FreedPool DEF FreedPool, Return
<1>LockToClose. CASE LockToClose
  BY <1>LockToClose DEF LockToClose
<1>CloseOne. CASE CloseOne
  BY <1>CloseOne DEF CloseOne
<1>DropSRS. CASE DropSRS
  BY <1>DropSRS DEF DropSRS
<1>DropContext. CASE DropContext
  <2>1. First \in todo
    BY <1>DropContext, LeastIsIn DEF DropContext, First
  <2>2. /\ pc = "osr" /\ pc' = "free" /\ todo' = todo \ {First}
        /\ life' = [life EXCEPT ![First] = "freed"]
        /\ UNCHANGED <<threads, stack, next, ctx, slots, mine, held, wpc>>
    BY <1>DropContext, <2>1 DEF DropContext, storages, workers
  <2>3. \A i \in All : life'[i] = IF i = First THEN "freed" ELSE life[i]
    BY <2>1, <2>2
  <2> QED
    BY <2>1, <2>2, <2>3
<1>FreedContexts. CASE FreedContexts
  BY <1>FreedContexts DEF FreedContexts, Return
<1>FreeSlots. CASE FreeSlots
  BY <1>FreeSlots DEF FreeSlots, FreeContexts
<1>ReleaseRest. CASE ReleaseRest
  BY <1>ReleaseRest DEF ReleaseRest, Release
<1>FreeFirst. CASE FreeFirst
  BY <1>FreeFirst DEF FreeFirst, FreeContexts
<1>Submit. CASE Submit
  BY <1>Submit DEF Submit, Signal
<1>Inline. CASE Inline
  BY <1>Inline DEF Inline
<1>LeaveLoop. CASE LeaveLoop
  BY <1>LeaveLoop DEF LeaveLoop
<1>Acquire. ASSUME NEW w \in All, Acquire(w)
       PROVE  OwnerInv'
  BY <1>Acquire DEF Acquire, NextJob
<1>WakeSpuriously. ASSUME NEW w \in All, WakeSpuriously(w)
       PROVE  OwnerInv'
  BY <1>WakeSpuriously DEF WakeSpuriously
<1>Consult. ASSUME NEW w \in All, Consult(w)
       PROVE  OwnerInv'
  BY <1>Consult DEF Consult, Step
<1>OpenReturns. ASSUME NEW w \in All, OpenReturns(w)
       PROVE  OwnerInv'
  BY <1>OpenReturns DEF OpenReturns, Step
<1>LockProj. ASSUME NEW w \in All, LockProj(w)
       PROVE  OwnerInv'
  BY <1>LockProj DEF LockProj, Step
<1>Built. ASSUME NEW w \in All, Built(w)
       PROVE  OwnerInv'
  BY <1>Built DEF Built, Step
<1>Closed. ASSUME NEW w \in All, Closed(w)
       PROVE  OwnerInv'
  BY <1>Closed DEF Closed, Step
<1>Finish. ASSUME NEW w \in All, Finish(w)
       PROVE  OwnerInv'
  BY <1>Finish DEF Finish, NextJob
<1>Stutter. CASE UNCHANGED vars
  BY <1>Stutter
<1> QED
  BY <1>StorageChanges, <1>CreateContext, <1>MakeSRS, <1>AddPath, <1>KeepContext, <1>Failed,
      <1>AllocArray, <1>Prepare, <1>HandOver, <1>AllocPool, <1>AllocWorkers,
      <1>FreeEmptyPool, <1>AllocWakeup, <1>Spawn, <1>PoolCreated, <1>Drain, <1>CleanUp,
      <1>StopPool, <1>JoinWorkers, <1>FlushPool, <1>FreedPool, <1>LockToClose, <1>CloseOne,
      <1>DropSRS, <1>DropContext, <1>FreedContexts, <1>FreeSlots, <1>ReleaseRest,
      <1>FreeFirst, <1>Submit, <1>Inline, <1>LeaveLoop, <1>Acquire, <1>WakeSpuriously,
      <1>Consult, <1>OpenReturns, <1>LockProj, <1>Built, <1>Closed, <1>Finish, <1>Stutter
  DEF Next, MainStep, WorkerStep, Exited

\* No context is freed twice, and none while a worker or a callback of the loop reads
\* it, wherever the startup fails and whatever the number of threads.
THEOREM ContextsFreed == Spec => []ContextsFreedOnce
<1>1. ControlInv /\ OwnerInv => ContextsFreedOnce
  BY DEF ControlInv, PoolInv, OwnerInv, PoolOwnsInv, ContextsFreedOnce, Running, Runs,
    Alive, All
<1>2. Init => ControlInv /\ OwnerInv
  BY ControlInit, OwnerInit
<1>3. ControlInv /\ OwnerInv /\ [Next]_vars => (ControlInv /\ OwnerInv)'
  BY ControlStep, OwnerStep
<1> QED
  BY <1>1, <1>2, <1>3, PTL DEF Spec

-----------------------------------------------------------------------------
(* What is allocated, and what it needs.                                   *)

Things == {"drivers", "array", "base", "http", "term", "quit", "pool", "workers", "wakeup"}

\* The pool is made after evhttp and its base, and goes before them ...
PoolPartsInv ==
  /\ "pool" \in held => {"base", "http"} \subseteq held
  /\ "workers" \in held => "pool" \in held /\ pc # "workers"
  /\ "wakeup" \in held => "pool" \in held /\ pc # "unpooled"
  /\ pc \in {"wakeup", "spawn"} => "workers" \in held
  /\ pc = "spawn" => "wakeup" \in held
  /\ pc \in Freeing /\ stack[1] = "unpooled" => "wakeup" \notin held
  /\ \A w \in All : Runs(w) => {"workers", "wakeup"} \subseteq held

\* ... which the rest needs ...
BaseInv ==
  /\ pc = "http" => "base" \in held
  /\ pc \in {"handover", "pool", "bind", "term", "quit", "dispatch"} =>
       {"base", "http"} \subseteq held
  /\ held \cap {"http", "term", "quit"} # {} => "base" \in held

\* ... and the cleanup has an order.
ReleasedInv ==
  /\ pc \in {"unhttp", "unterm", "unquit", "unbase", "unctx", "drivers"} => "array" \notin held
  /\ pc \in {"unterm", "unquit", "unbase", "unctx", "drivers"} => "http" \notin held
  /\ pc \in {"unquit", "unbase", "unctx", "drivers"} => "term" \notin held
  /\ pc \in {"unbase", "unctx", "drivers"} => "quit" \notin held
  /\ pc \in {"unctx", "drivers"} => "base" \notin held
  /\ pc \in Freeing /\ stack[1] = "drivers" => held \subseteq {"drivers"}
  /\ pc = "exited" => held = {}
  /\ "drivers" \in held \/ pc = "exited"

\* Requests wait while there is a pool to take them.
QueuesInv ==
  /\ queued \in Nat /\ done \in Nat
  /\ queued > 0 \/ done > 0 =>
       "pool" \in held /\ pc \in {"dispatch", "err", "stop", "join", "flush"}
  /\ \A w \in All :
       Runs(w) /\ wpc[w] \notin {"lock", "wait"} => pc \in {"dispatch", "err", "stop", "join"}

HeldInv ==
  /\ held \subseteq Things
  /\ PoolPartsInv
  /\ BaseInv
  /\ ReleasedInv
  /\ QueuesInv

-----------------------------------------------------------------------------
(* Nothing is lost on the way to the exit.                                 *)

Living(S) == \A i \in All : life[i] = "live" => i \in S

\* Every context that is alive is where somebody will free it.
KeptInv ==
  /\ pc \in {"failed", "err", "slots"} => Living(ctx \cup slots \cup mine)
  /\ pc = "unpool" => Living({})
  /\ pc = "created" /\ "pool" \notin held => Living({})
  /\ pc \in {"bind", "term", "quit", "dispatch"} => Living(ctx \cup mine)
  /\ pc \in {"stop", "join", "flush"} => Living(mine)
  /\ pc \in {"unpooled", "drivers", "exited"} => Living({})
  /\ pc \in {"unslot", "unhttp", "unterm", "unquit", "unbase", "unctx"} => Living(ctx)
  /\ pc \in Freeing =>
       /\ stack[1] = "failed" => Living(ctx \cup slots \cup todo)
       /\ stack[1] \in {"created", "unpool", "unpooled", "drivers"} => Living(todo)
       /\ stack[1] = "unslot" => Living(ctx \cup todo)

\* Only a context that is alive has files open.
FilesInv ==
  /\ handles \in [All -> Nat]
  /\ half \in [All -> BOOLEAN]
  /\ \A i \in All : handles[i] > 0 => life[i] = "live"
  /\ \A i \in All : half[i] => wpc[i] \in {"toProj", "proj", "toClose", "close"}
  /\ pc = "closing" => handles[First] > 0
  /\ pc = "osr" => handles[First] = 0

LeavingInv == HeldInv /\ KeptInv /\ FilesInv

LEMMA CappedIsNat ==
  ASSUME NEW n \in Nat
  PROVE  Capped(n) \in Nat /\ Capped(n) <= n /\ (MaxOpen > 0 => Capped(n) <= MaxOpen)
<1>0. MaxOpen \in Nat
  BY DaemonAssumption
<1>1. {MaxOpen, n} \in SUBSET Nat /\ {MaxOpen, n} # {}
  BY <1>0
<1>2. Min({MaxOpen, n}) \in {MaxOpen, n} /\ \A y \in {MaxOpen, n} : Min({MaxOpen, n}) <= y
  BY <1>1, LeastIsIn
<1> QED
  BY <1>0, <1>1, <1>2 DEF Capped

LEMMA LeavingInit == Init => LeavingInv
  BY DaemonAssumption DEF Init, LeavingInv, HeldInv, PoolPartsInv, BaseInv, ReleasedInv,
      QueuesInv,
    KeptInv, FilesInv, Things, Living, Freeing, Runs, All

LEMMA HeldStep == ControlInv /\ ControlInv' /\ HeldInv /\ [Next]_vars => HeldInv'
<1> SUFFICES ASSUME ControlInv, ControlInv', HeldInv, [Next]_vars
             PROVE  HeldInv'
  OBVIOUS
<1> USE DEF ControlInv, StackInv, PoolInv, Freeing, PoolFreeing, All, Runs, WorkerPC,
    HeldInv,
      PoolPartsInv, BaseInv, ReleasedInv, QueuesInv, Things
<1> USE Pushed, Popped DEF vars, storages, control, contexts, owners, jobs, workers
<1>StorageChanges. CASE StorageChanges
  BY <1>StorageChanges DEF StorageChanges
<1>CreateContext. CASE CreateContext
  BY <1>CreateContext DEF CreateContext, Fail
<1>MakeSRS. CASE MakeSRS
  BY <1>MakeSRS DEF MakeSRS, ScrapContext, FreeContexts
<1>AddPath. CASE AddPath
  BY <1>AddPath DEF AddPath
<1>KeepContext. CASE KeepContext
  BY <1>KeepContext DEF KeepContext, AfterContext, Empty, ScrapContext, FreeContexts
<1>Failed. CASE Failed
  BY <1>Failed DEF Failed, Fail
<1>AllocArray. CASE AllocArray
  BY <1>AllocArray DEF AllocArray, Setup, Fail
<1>Prepare. CASE Prepare
  <2>1. UNCHANGED <<threads, stack, queued, done, wpc>>
    BY <1>Prepare DEF Prepare
  <2>2. pc \in {"evthread", "sigpipe", "base", "http", "bind", "term", "quit"}
    BY <1>Prepare DEF Prepare, Setup, InstallSignal
  <2>3. CASE pc \in {"evthread", "sigpipe", "bind"}
    <3>1. held' = held /\ pc' \in {"sigpipe", "base", "term", "err"}
      BY <1>Prepare, <2>3 DEF Prepare, Setup, InstallSignal, Fail
    <3> QED
      BY <2>1, <2>3, <3>1, <1>Prepare DEF Prepare, Setup, InstallSignal, Fail
  <2>4. CASE pc = "base"
    <3>1. \/ held' = held \cup {"base"} /\ pc' = "http"
          \/ held' = held /\ pc' = "err"
      BY <1>Prepare, <2>4 DEF Prepare, Setup, InstallSignal, Fail
    <3> QED
      BY <2>1, <2>4, <3>1
  <2>5. CASE pc = "http"
    <3>1. \/ held' = held \cup {"http"} /\ pc' \in {"handover", "bind"}
          \/ held' = held /\ pc' = "err"
      BY <1>Prepare, <2>5 DEF Prepare, Setup, InstallSignal, Fail
    <3> QED
      BY <2>1, <2>5, <3>1
  <2>6. CASE pc \in {"term", "quit"}
    <3>1. /\ held' = held \/ held' = held \cup {"term"} \/ held' = held \cup {"quit"}
          /\ pc' \in {"quit", "dispatch", "err"}
      BY <1>Prepare, <2>6 DEF Prepare, Setup, InstallSignal, Fail
    <3> QED
      BY <2>1, <2>6, <3>1
  <2> QED
    BY <2>2, <2>3, <2>4, <2>5, <2>6
<1>HandOver. CASE HandOver
  BY <1>HandOver DEF HandOver
<1>AllocPool. CASE AllocPool
  BY <1>AllocPool DEF AllocPool, FreeContexts
<1>AllocWorkers. CASE AllocWorkers
  <2>1. pc = "workers" /\ stack = <<>> /\ UNCHANGED <<threads, queued, done, wpc>>
    BY <1>AllocWorkers DEF AllocWorkers, storages, jobs, workers
  <2>2. CASE pc' = "free"
    <3>1. stack' = <<"unpool">> /\ UNCHANGED held
      BY <1>AllocWorkers, <2>1, <2>2 DEF AllocWorkers, FreeContexts
    <3> QED
      BY <2>1, <2>2, <3>1
  <2>3. CASE pc' = "wakeup"
    <3>1. held' = held \cup {"workers"} /\ stack' = stack
      BY <1>AllocWorkers, <2>1, <2>3 DEF AllocWorkers, FreeContexts
    <3> QED
      BY <2>1, <2>3, <3>1
  <2> QED
    BY <1>AllocWorkers, <2>2, <2>3 DEF AllocWorkers, FreeContexts
<1>FreeEmptyPool. CASE FreeEmptyPool
  BY <1>FreeEmptyPool DEF FreeEmptyPool, FreePool
<1>AllocWakeup. CASE AllocWakeup
  BY <1>AllocWakeup DEF AllocWakeup, FreePool
<1>Spawn. CASE Spawn
  BY <1>Spawn DEF Spawn, FreePool
<1>PoolCreated. CASE PoolCreated
  BY <1>PoolCreated DEF PoolCreated, Fail
<1>Drain. CASE Drain
  BY <1>Drain DEF Drain
<1>CleanUp. CASE CleanUp
  BY <1>CleanUp DEF CleanUp, FreePool
<1>StopPool. CASE StopPool
  BY <1>StopPool DEF StopPool
<1>JoinWorkers. CASE JoinWorkers
  BY <1>JoinWorkers DEF JoinWorkers
<1>FlushPool. CASE FlushPool
  BY <1>FlushPool DEF FlushPool, FreeContexts
<1>FreedPool. CASE FreedPool
  BY <1>FreedPool DEF FreedPool, Return
<1>LockToClose. CASE LockToClose
  BY <1>LockToClose DEF LockToClose
<1>CloseOne. CASE CloseOne
  BY <1>CloseOne DEF CloseOne
<1>DropSRS. CASE DropSRS
  BY <1>DropSRS DEF DropSRS
<1>DropContext. CASE DropContext
  BY <1>DropContext DEF DropContext
<1>FreedContexts. CASE FreedContexts
  BY <1>FreedContexts DEF FreedContexts, Return
<1>FreeSlots. CASE FreeSlots
  BY <1>FreeSlots DEF FreeSlots, FreeContexts
<1>ReleaseRest. CASE ReleaseRest
  BY <1>ReleaseRest DEF ReleaseRest, Release
<1>FreeFirst. CASE FreeFirst
  BY <1>FreeFirst DEF FreeFirst, FreeContexts
<1>Submit. CASE Submit
  BY <1>Submit DEF Submit, Signal
<1>Inline. CASE Inline
  BY <1>Inline DEF Inline
<1>LeaveLoop. CASE LeaveLoop
  BY <1>LeaveLoop DEF LeaveLoop
<1>Acquire. ASSUME NEW w \in All, Acquire(w)
       PROVE  HeldInv'
  BY <1>Acquire DEF Acquire, NextJob
<1>WakeSpuriously. ASSUME NEW w \in All, WakeSpuriously(w)
       PROVE  HeldInv'
  BY <1>WakeSpuriously DEF WakeSpuriously
<1>Consult. ASSUME NEW w \in All, Consult(w)
       PROVE  HeldInv'
  BY <1>Consult DEF Consult, Step
<1>OpenReturns. ASSUME NEW w \in All, OpenReturns(w)
       PROVE  HeldInv'
  BY <1>OpenReturns DEF OpenReturns, Step
<1>LockProj. ASSUME NEW w \in All, LockProj(w)
       PROVE  HeldInv'
  BY <1>LockProj DEF LockProj, Step
<1>Built. ASSUME NEW w \in All, Built(w)
       PROVE  HeldInv'
  BY <1>Built DEF Built, Step
<1>Closed. ASSUME NEW w \in All, Closed(w)
       PROVE  HeldInv'
  BY <1>Closed DEF Closed, Step
<1>Finish. ASSUME NEW w \in All, Finish(w)
       PROVE  HeldInv'
  BY <1>Finish DEF Finish, NextJob
<1>Stutter. CASE UNCHANGED vars
  BY <1>Stutter
<1> QED
  BY <1>StorageChanges, <1>CreateContext, <1>MakeSRS, <1>AddPath, <1>KeepContext, <1>Failed,
      <1>AllocArray, <1>Prepare, <1>HandOver, <1>AllocPool, <1>AllocWorkers,
      <1>FreeEmptyPool, <1>AllocWakeup, <1>Spawn, <1>PoolCreated, <1>Drain, <1>CleanUp,
      <1>StopPool, <1>JoinWorkers, <1>FlushPool, <1>FreedPool, <1>LockToClose, <1>CloseOne,
      <1>DropSRS, <1>DropContext, <1>FreedContexts, <1>FreeSlots, <1>ReleaseRest,
      <1>FreeFirst, <1>Submit, <1>Inline, <1>LeaveLoop, <1>Acquire, <1>WakeSpuriously,
      <1>Consult, <1>OpenReturns, <1>LockProj, <1>Built, <1>Closed, <1>Finish, <1>Stutter
  DEF Next, MainStep, WorkerStep, Exited

LEMMA KeptStep ==
  ControlInv /\ ControlInv' /\ OwnerInv /\ OwnerInv' /\ KeptInv /\ [Next]_vars => KeptInv'
<1> SUFFICES ASSUME ControlInv, ControlInv', OwnerInv, OwnerInv', KeptInv, [Next]_vars
             PROVE  KeptInv'
  OBVIOUS
<1> USE DEF ControlInv, StackInv, PoolInv, Freeing, PoolFreeing, All, OwnerInv, LoadingInv,
      PoolOwnsInv, FreeingInv, Alive, KeptInv, Living
<1> USE Pushed, Popped DEF vars, storages, control, contexts, owners, jobs, workers
<1>StorageChanges. CASE StorageChanges
  BY <1>StorageChanges DEF StorageChanges
<1>CreateContext. CASE CreateContext
  BY <1>CreateContext DEF CreateContext, Fail
<1>MakeSRS. CASE MakeSRS
  BY <1>MakeSRS DEF MakeSRS, ScrapContext, FreeContexts
<1>AddPath. CASE AddPath
  BY <1>AddPath DEF AddPath
<1>KeepContext. CASE KeepContext
  BY <1>KeepContext DEF KeepContext, AfterContext, Empty, ScrapContext, FreeContexts
<1>Failed. CASE Failed
  BY <1>Failed DEF Failed, Fail
<1>AllocArray. CASE AllocArray
  BY <1>AllocArray DEF AllocArray, Setup, Fail
<1>Prepare. CASE Prepare
  BY <1>Prepare DEF Prepare, Setup, InstallSignal, Fail
<1>HandOver. CASE HandOver
  BY <1>HandOver DEF HandOver
<1>AllocPool. CASE AllocPool
  BY <1>AllocPool DEF AllocPool, FreeContexts
<1>AllocWorkers. CASE AllocWorkers
  BY <1>AllocWorkers DEF AllocWorkers, FreeContexts
<1>FreeEmptyPool. CASE FreeEmptyPool
  BY <1>FreeEmptyPool DEF FreeEmptyPool, FreePool
<1>AllocWakeup. CASE AllocWakeup
  BY <1>AllocWakeup DEF AllocWakeup, FreePool
<1>Spawn. CASE Spawn
  BY <1>Spawn DEF Spawn, FreePool
<1>PoolCreated. CASE PoolCreated
  BY <1>PoolCreated DEF PoolCreated, Fail
<1>Drain. CASE Drain
  BY <1>Drain DEF Drain
<1>CleanUp. CASE CleanUp
  BY <1>CleanUp DEF CleanUp, FreePool
<1>StopPool. CASE StopPool
  BY <1>StopPool DEF StopPool
<1>JoinWorkers. CASE JoinWorkers
  BY <1>JoinWorkers DEF JoinWorkers
<1>FlushPool. CASE FlushPool
  BY <1>FlushPool DEF FlushPool, FreeContexts
<1>FreedPool. CASE FreedPool
  BY <1>FreedPool DEF FreedPool, Return
<1>LockToClose. CASE LockToClose
  BY <1>LockToClose DEF LockToClose
<1>CloseOne. CASE CloseOne
  BY <1>CloseOne DEF CloseOne
<1>DropSRS. CASE DropSRS
  BY <1>DropSRS DEF DropSRS
<1>DropContext. CASE DropContext
  BY <1>DropContext DEF DropContext
<1>FreedContexts. CASE FreedContexts
  BY <1>FreedContexts DEF FreedContexts, Return
<1>FreeSlots. CASE FreeSlots
  BY <1>FreeSlots DEF FreeSlots, FreeContexts
<1>ReleaseRest. CASE ReleaseRest
  BY <1>ReleaseRest DEF ReleaseRest, Release
<1>FreeFirst. CASE FreeFirst
  BY <1>FreeFirst DEF FreeFirst, FreeContexts
<1>Submit. CASE Submit
  BY <1>Submit DEF Submit, Signal
<1>Inline. CASE Inline
  BY <1>Inline DEF Inline
<1>LeaveLoop. CASE LeaveLoop
  BY <1>LeaveLoop DEF LeaveLoop
<1>Acquire. ASSUME NEW w \in All, Acquire(w)
       PROVE  KeptInv'
  BY <1>Acquire DEF Acquire, NextJob
<1>WakeSpuriously. ASSUME NEW w \in All, WakeSpuriously(w)
       PROVE  KeptInv'
  BY <1>WakeSpuriously DEF WakeSpuriously
<1>Consult. ASSUME NEW w \in All, Consult(w)
       PROVE  KeptInv'
  BY <1>Consult DEF Consult, Step
<1>OpenReturns. ASSUME NEW w \in All, OpenReturns(w)
       PROVE  KeptInv'
  BY <1>OpenReturns DEF OpenReturns, Step
<1>LockProj. ASSUME NEW w \in All, LockProj(w)
       PROVE  KeptInv'
  BY <1>LockProj DEF LockProj, Step
<1>Built. ASSUME NEW w \in All, Built(w)
       PROVE  KeptInv'
  BY <1>Built DEF Built, Step
<1>Closed. ASSUME NEW w \in All, Closed(w)
       PROVE  KeptInv'
  BY <1>Closed DEF Closed, Step
<1>Finish. ASSUME NEW w \in All, Finish(w)
       PROVE  KeptInv'
  BY <1>Finish DEF Finish, NextJob
<1>Stutter. CASE UNCHANGED vars
  BY <1>Stutter
<1> QED
  BY <1>StorageChanges, <1>CreateContext, <1>MakeSRS, <1>AddPath, <1>KeepContext, <1>Failed,
      <1>AllocArray, <1>Prepare, <1>HandOver, <1>AllocPool, <1>AllocWorkers,
      <1>FreeEmptyPool, <1>AllocWakeup, <1>Spawn, <1>PoolCreated, <1>Drain, <1>CleanUp,
      <1>StopPool, <1>JoinWorkers, <1>FlushPool, <1>FreedPool, <1>LockToClose, <1>CloseOne,
      <1>DropSRS, <1>DropContext, <1>FreedContexts, <1>FreeSlots, <1>ReleaseRest,
      <1>FreeFirst, <1>Submit, <1>Inline, <1>LeaveLoop, <1>Acquire, <1>WakeSpuriously,
      <1>Consult, <1>OpenReturns, <1>LockProj, <1>Built, <1>Closed, <1>Finish, <1>Stutter
  DEF Next, MainStep, WorkerStep, Exited

LEMMA FilesStep ==
  ControlInv /\ OwnerInv /\ HeldInv /\ FilesInv /\ [Next]_vars => FilesInv'
<1> SUFFICES ASSUME ControlInv, OwnerInv, HeldInv, FilesInv, [Next]_vars
             PROVE  FilesInv'
  OBVIOUS
<1> USE DEF ControlInv, PoolInv, Freeing, All, Runs, WorkerPC, OwnerInv, LoadingInv,
      PoolOwnsInv, FreeingInv, Alive, HeldInv, QueuesInv, FilesInv
<1>first. UNCHANGED todo => First' = First
  BY DEF First
<1>busy. \A w \in All : Runs(w) => pc \notin Freeing /\ life[w] = "live"
  OBVIOUS
<1> USE <1>first DEF vars, storages, control, contexts, owners, jobs, workers
<1>StorageChanges. CASE StorageChanges
  BY <1>StorageChanges DEF StorageChanges
<1>CreateContext. CASE CreateContext
  BY <1>CreateContext DEF CreateContext, Fail
<1>MakeSRS. CASE MakeSRS
  BY <1>MakeSRS DEF MakeSRS, ScrapContext, FreeContexts
<1>AddPath. CASE AddPath
  <2>1. pc = "load" /\ pc' = "load" /\ next \in All /\ life[next] = "live"
    BY <1>AddPath DEF AddPath, control
  <2>2. UNCHANGED <<threads, life, half, wpc>>
    BY <1>AddPath DEF AddPath, workers
  <2>3. Capped(handles[next] + 1) \in Nat
    <3>1. handles[next] + 1 \in Nat
      BY <2>1
    <3> QED
      BY <3>1, CappedIsNat
  <2>4. \/ handles' = [handles EXCEPT ![next] = Capped(handles[next] + 1)]
        \/ handles' = handles
    BY <1>AddPath DEF AddPath
  <2>5. PICK m \in Nat : handles' = [handles EXCEPT ![next] = m]
    <3>1. handles = [handles EXCEPT ![next] = handles[next]] /\ handles[next] \in Nat
      BY <2>1
    <3> QED
      BY <2>3, <2>4, <3>1
  <2>6. handles' \in [All -> Nat] /\ \A i \in All \ {next} : handles'[i] = handles[i]
    BY <2>1, <2>5
  <2>7. \A i \in All : handles'[i] > 0 => life[i] = "live"
    BY <2>1, <2>6
  <2> QED
    BY <2>1, <2>2, <2>6, <2>7
<1>KeepContext. CASE KeepContext
  BY <1>KeepContext DEF KeepContext, AfterContext, Empty, ScrapContext, FreeContexts
<1>Failed. CASE Failed
  BY <1>Failed DEF Failed, Fail
<1>AllocArray. CASE AllocArray
  BY <1>AllocArray DEF AllocArray, Setup, Fail
<1>Prepare. CASE Prepare
  BY <1>Prepare DEF Prepare, Setup, InstallSignal, Fail
<1>HandOver. CASE HandOver
  BY <1>HandOver DEF HandOver
<1>AllocPool. CASE AllocPool
  BY <1>AllocPool DEF AllocPool, FreeContexts
<1>AllocWorkers. CASE AllocWorkers
  BY <1>AllocWorkers DEF AllocWorkers, FreeContexts
<1>FreeEmptyPool. CASE FreeEmptyPool
  BY <1>FreeEmptyPool DEF FreeEmptyPool, FreePool
<1>AllocWakeup. CASE AllocWakeup
  BY <1>AllocWakeup DEF AllocWakeup, FreePool
<1>Spawn. CASE Spawn
  BY <1>Spawn DEF Spawn, FreePool
<1>PoolCreated. CASE PoolCreated
  BY <1>PoolCreated DEF PoolCreated, Fail
<1>Drain. CASE Drain
  BY <1>Drain DEF Drain
<1>CleanUp. CASE CleanUp
  BY <1>CleanUp DEF CleanUp, FreePool
<1>StopPool. CASE StopPool
  BY <1>StopPool DEF StopPool
<1>JoinWorkers. CASE JoinWorkers
  BY <1>JoinWorkers DEF JoinWorkers
<1>FlushPool. CASE FlushPool
  BY <1>FlushPool DEF FlushPool, FreeContexts
<1>FreedPool. CASE FreedPool
  <2>1. PICK l \in {"created", "slots"} : stack = <<l>>
    BY <1>FreedPool DEF FreedPool, StackInv, PoolFreeing
  <2>2. pc' = l
    BY <1>FreedPool, <2>1, Popped DEF FreedPool, Return
  <2> QED
    BY <1>FreedPool, <2>2 DEF FreedPool, storages, contexts, workers
<1>LockToClose. CASE LockToClose
  BY <1>LockToClose DEF LockToClose
<1>CloseOne. CASE CloseOne
  <2>1. First \in All
    BY <1>CloseOne, LeastIsIn DEF CloseOne, First
  <2> QED
    BY <1>CloseOne, <2>1 DEF CloseOne, storages, contexts, workers
<1>DropSRS. CASE DropSRS
  BY <1>DropSRS DEF DropSRS
<1>DropContext. CASE DropContext
  BY <1>DropContext DEF DropContext
<1>FreedContexts. CASE FreedContexts
  <2>1. PICK l \in {"failed", "created", "unpool", "unslot", "drivers", "unpooled"} :
          stack[1] = l /\ Head(stack) = l
    BY <1>FreedContexts, Popped DEF FreedContexts, StackInv
  <2>2. pc' = l
    BY <1>FreedContexts, <2>1 DEF FreedContexts, Return
  <2> QED
    BY <1>FreedContexts, <2>2 DEF FreedContexts, storages, contexts, workers
<1>FreeSlots. CASE FreeSlots
  BY <1>FreeSlots DEF FreeSlots, FreeContexts
<1>ReleaseRest. CASE ReleaseRest
  BY <1>ReleaseRest DEF ReleaseRest, Release
<1>FreeFirst. CASE FreeFirst
  BY <1>FreeFirst DEF FreeFirst, FreeContexts
<1>Submit. CASE Submit
  BY <1>Submit DEF Submit, Signal
<1>Inline. CASE Inline
  <2>1. pc = "dispatch" /\ pc' = "dispatch" /\ 0 \in All /\ life[0] = "live"
    BY <1>Inline DEF Inline, control
  <2>2. UNCHANGED <<threads, life, half, wpc>>
    BY <1>Inline DEF Inline, storages, contexts, workers
  <2>3. Capped(handles[0] + 1) \in Nat
    <3>1. handles[0] + 1 \in Nat
      BY <2>1
    <3> QED
      BY <3>1, CappedIsNat
  <2>4. PICK n \in {handles[0], Capped(handles[0] + 1)} : handles' = [handles EXCEPT ![0] = n]
    BY <1>Inline DEF Inline
  <2> QED
    BY <2>1, <2>2, <2>3, <2>4
<1>LeaveLoop. CASE LeaveLoop
  BY <1>LeaveLoop DEF LeaveLoop
<1>moves. ASSUME NEW w \in All, NEW to, ~half[w], wpc' = [wpc EXCEPT ![w] = to],
                UNCHANGED <<threads, pc, life, handles, half, todo>>
          PROVE  FilesInv'
  <2>1. \A i \in All \ {w} : wpc'[i] = wpc[i]
    BY <1>moves
  <2>2. \A i \in All : half'[i] => wpc'[i] \in {"toProj", "proj", "toClose", "close"}
    BY <1>moves, <2>1
  <2> QED
    BY <1>moves, <2>2
<1>Acquire. ASSUME NEW w \in All, Acquire(w)
       PROVE  FilesInv'
  <2>1. ~half[w] /\ \E to : wpc' = [wpc EXCEPT ![w] = to]
    BY <1>Acquire DEF Acquire, NextJob
  <2>2. UNCHANGED <<threads, pc, life, handles, half, todo>>
    BY <1>Acquire DEF Acquire
  <2> QED
    BY <1>moves, <2>1, <2>2
<1>WakeSpuriously. ASSUME NEW w \in All, WakeSpuriously(w)
       PROVE  FilesInv'
  <2>1. ~half[w] /\ \E to : wpc' = [wpc EXCEPT ![w] = to]
    BY <1>WakeSpuriously DEF WakeSpuriously
  <2>2. UNCHANGED <<threads, pc, life, handles, half, todo>>
    BY <1>WakeSpuriously DEF WakeSpuriously
  <2> QED
    BY <1>moves, <2>1, <2>2
<1>Consult. ASSUME NEW w \in All, Consult(w)
       PROVE  FilesInv'
  <2>1. ~half[w] /\ \E to : wpc' = [wpc EXCEPT ![w] = to]
    BY <1>Consult DEF Consult, Step
  <2>2. UNCHANGED <<threads, pc, life, handles, half, todo>>
    BY <1>Consult DEF Consult
  <2> QED
    BY <1>moves, <2>1, <2>2
<1>OpenReturns. ASSUME NEW w \in All, OpenReturns(w)
       PROVE  FilesInv'
  <2>1. PICK to \in {"toProj", "toClose"} : wpc[w] = "open" /\ wpc' = [wpc EXCEPT ![w] = to]
    BY <1>OpenReturns DEF OpenReturns, Step
  <2>2. half' = half \/ half' = [half EXCEPT ![w] = TRUE]
    BY <1>OpenReturns DEF OpenReturns
  <2>3. UNCHANGED <<threads, pc, life, handles, todo>>
    BY <1>OpenReturns DEF OpenReturns, storages, control, contexts, owners
  <2>4. ~half[w]
    BY <2>1
  <2>5. \A i \in All : wpc'[i] = IF i = w THEN to ELSE wpc[i]
    BY <2>1
  <2>6. CASE half' = half
    BY <2>1, <2>3, <2>4, <2>5, <2>6
  <2>7. CASE half' = [half EXCEPT ![w] = TRUE]
    <3>1. half' \in [All -> BOOLEAN]
      BY <2>7
    <3>2. \A i \in All \ {w} : half'[i] = half[i]
      BY <2>7
    <3>3. \A i \in All : half'[i] => wpc'[i] \in {"toProj", "proj", "toClose", "close"}
      BY <2>1, <2>5, <3>2
    <3> QED
      BY <2>3, <3>1, <3>3
  <2> QED
    BY <2>2, <2>6, <2>7
<1>LockProj. ASSUME NEW w \in All, LockProj(w)
       PROVE  FilesInv'
  BY <1>LockProj, <1>busy DEF LockProj, Step, storages, control, contexts, owners, jobs,
      workers
<1>Built. ASSUME NEW w \in All, Built(w)
       PROVE  FilesInv'
  <2>1. UNCHANGED <<threads, pc, life, todo>> /\ pc \notin Freeing /\ life[w] = "live"
    BY <1>Built, <1>busy DEF Built, Step, storages, control, contexts, owners
  <2>2. CASE /\ wpc[w] = "proj" /\ wpc' = [wpc EXCEPT ![w] = "toClose"]
             /\ UNCHANGED <<handles, half>>
    BY <2>1, <2>2
  <2>3. CASE /\ handles' = [handles EXCEPT ![w] = handles[w] + 1]
             /\ half' = [half EXCEPT ![w] = FALSE]
             /\ \E to \in {"toClose", "finish"} : wpc' = [wpc EXCEPT ![w] = to]
    BY <2>1, <2>3
  <2>4. CASE Step(w, "proj", "toClose") /\ UNCHANGED <<handles, half>>
    BY <2>2, <2>4 DEF Step
  <2>5. CASE /\ handles' = [handles EXCEPT ![w] = handles[w] + 1]
             /\ half' = [half EXCEPT ![w] = FALSE]
             /\ Step(w, "proj", IF MaxOpen > 0 /\ handles[w] + 1 > MaxOpen
                                THEN "toClose" ELSE "finish")
    <3>1. \E to \in {"toClose", "finish"} : wpc' = [wpc EXCEPT ![w] = to]
      BY <2>5 DEF Step
    <3> QED
      BY <2>3, <2>5, <3>1
  <2> QED
    BY <1>Built, <2>4, <2>5 DEF Built
<1>Closed. ASSUME NEW w \in All, Closed(w)
       PROVE  FilesInv'
  BY <1>Closed, <1>busy, DaemonAssumption DEF Closed, Step, storages, control, contexts,
      owners, jobs, workers
<1>Finish. ASSUME NEW w \in All, Finish(w)
       PROVE  FilesInv'
  <2>1. ~half[w] /\ \E to : wpc' = [wpc EXCEPT ![w] = to]
    BY <1>Finish DEF Finish, NextJob
  <2>2. UNCHANGED <<threads, pc, life, handles, half, todo>>
    BY <1>Finish DEF Finish
  <2> QED
    BY <1>moves, <2>1, <2>2
<1>Stutter. CASE UNCHANGED vars
  BY <1>Stutter
<1> QED
  BY <1>StorageChanges, <1>CreateContext, <1>MakeSRS, <1>AddPath, <1>KeepContext, <1>Failed,
      <1>AllocArray, <1>Prepare, <1>HandOver, <1>AllocPool, <1>AllocWorkers,
      <1>FreeEmptyPool, <1>AllocWakeup, <1>Spawn, <1>PoolCreated, <1>Drain, <1>CleanUp,
      <1>StopPool, <1>JoinWorkers, <1>FlushPool, <1>FreedPool, <1>LockToClose, <1>CloseOne,
      <1>DropSRS, <1>DropContext, <1>FreedContexts, <1>FreeSlots, <1>ReleaseRest,
      <1>FreeFirst, <1>Submit, <1>Inline, <1>LeaveLoop, <1>Acquire, <1>WakeSpuriously,
      <1>Consult, <1>OpenReturns, <1>LockProj, <1>Built, <1>Closed, <1>Finish, <1>Stutter
  DEF Next, MainStep, WorkerStep, Exited

-----------------------------------------------------------------------------
(* What is left, and in which order it goes.                               *)

LEMMA Leaving == Spec => [](ControlInv /\ OwnerInv /\ LeavingInv)
<1>1. Init => ControlInv /\ OwnerInv /\ LeavingInv
  BY ControlInit, OwnerInit, LeavingInit
<1>2. ControlInv /\ OwnerInv /\ LeavingInv /\ [Next]_vars => (ControlInv /\ OwnerInv /\ LeavingInv)'
  BY ControlStep, OwnerStep, HeldStep, KeptStep, FilesStep DEF LeavingInv
<1> QED
  BY <1>1, <1>2, PTL DEF Spec

\* Whatever failed, nothing is left when the daemon is gone: no context, no open file,
\* no thread and nothing that was allocated.
THEOREM CleanExit == Spec => []NothingLeftAtExit
<1>1. ControlInv /\ OwnerInv /\ LeavingInv => NothingLeftAtExit
  <2> SUFFICES ASSUME ControlInv, OwnerInv, LeavingInv, pc = "exited"
               PROVE  /\ \A i \in All :
                           life[i] \in {"none", "freed"} /\ handles[i] = 0 /\ ~half[i]
                      /\ held = {}
                      /\ Running = {}
    BY DEF NothingLeftAtExit
  <2>1. held = {}
    BY DEF LeavingInv, HeldInv, ReleasedInv
  <2>2. \A w \in All : ~Runs(w)
    BY DEF ControlInv, PoolInv
  <2>3. Running = {}
    BY <2>2 DEF Running, Runs
  <2>4. \A i \in All : life[i] \in {"none", "freed"}
    BY DEF OwnerInv, LeavingInv, KeptInv, Living
  <2>5. \A i \in All : handles[i] = 0
    BY <2>4 DEF LeavingInv, FilesInv
  <2>6. \A i \in All : ~half[i]
    BY <2>2 DEF LeavingInv, FilesInv, Runs
  <2> QED
    BY <2>1, <2>3, <2>4, <2>5, <2>6
<1> QED
  BY <1>1, Leaving, PTL

\* Nothing is taken apart while something else still needs it.
THEOREM OrderOfCleanup == Spec => []TakenApartInOrder
<1>1. ControlInv /\ OwnerInv /\ LeavingInv => TakenApartInOrder
  <2> SUFFICES ASSUME ControlInv, OwnerInv, LeavingInv
               PROVE  TakenApartInOrder
    OBVIOUS
  <2>1. Running # {} => {"pool", "workers", "wakeup", "base"} \subseteq held
    BY DEF Running, Runs, ControlInv, PoolInv, LeavingInv, HeldInv, PoolPartsInv
  <2>2. queued + done > 0 => "http" \in held
    BY DEF LeavingInv, HeldInv, QueuesInv, PoolPartsInv
  <2>3. (\E w \in Running : wpc[w] \notin {"lock", "wait"}) => "http" \in held
    BY DEF Running, Runs, ControlInv, PoolInv, LeavingInv, HeldInv, PoolPartsInv
  <2>4. held \cap {"http", "term", "quit", "wakeup"} # {} => "base" \in held
    BY DEF LeavingInv, HeldInv, PoolPartsInv, BaseInv
  <2>5. (\E i \in All : life[i] = "live") => "drivers" \in held
    BY DEF LeavingInv, HeldInv, ReleasedInv, KeptInv, Living
  <2> QED
    BY <2>1, <2>2, <2>3, <2>4, <2>5 DEF TakenApartInOrder
<1> QED
  BY <1>1, Leaving, PTL

-----------------------------------------------------------------------------
(* What contexts have loaded.                                              *)

Outcome == {"nothing", "refused", "raster", "index", "part"}

\* Paths that gave some context something else than they name now.
Stray ==
  {p \in Paths : \E i \in All : p \in 1 .. Len(loaded[i]) /\ loaded[i][p] # Gives(storage[p])}

\* Each path has given a context what it names, but for as many as were disturbed.
LoadedInv ==
  /\ threads \in Threads /\ disturbed \in 0 .. Changes
  /\ storage \in [Paths -> PathKind]
  /\ loaded \in [All -> Seq(Outcome)]
  /\ \A i \in All : Len(loaded[i]) <= NPaths
  /\ Cardinality(Stray) <= disturbed

\* main() is on its way to serve, and has looked at the first context.
Going ==
  \/ pc \in {"array", "evthread", "sigpipe", "base", "http", "handover", "pool", "workers",
             "wakeup", "spawn", "bind", "term", "quit", "dispatch"}
  \/ pc \in {"calloc", "srs", "load"} /\ next > 0
  \/ pc = "created" /\ "pool" \in held

\* Contexts that have an owner have all their paths.
WorldInv ==
  /\ \A i \in ctx \cup slots \cup mine : Len(loaded[i]) = NPaths
  /\ Going => ~Empty(0)
  /\ pc \in {"bind", "term", "quit", "dispatch"} /\ "pool" \notin held => threads = 1
  /\ ret \in {0, 1}

LEMMA LoadsOnly == [Next]_vars => StorageChanges \/ AddPath \/ UNCHANGED <<storages, loaded>>
<1> SUFFICES ASSUME [Next]_vars
             PROVE  StorageChanges \/ AddPath \/ UNCHANGED <<storages, loaded>>
  OBVIOUS
<1>1. CASE MainStep
  BY <1>1 DEF MainStep, CreateContext, MakeSRS, KeepContext, Failed, AllocArray, Prepare,
      HandOver, AllocPool, AllocWorkers, FreeEmptyPool, AllocWakeup, Spawn, PoolCreated, Drain,
      CleanUp, StopPool, JoinWorkers, FlushPool, FreedPool, LockToClose, CloseOne, DropSRS,
      DropContext, FreedContexts, FreeSlots, ReleaseRest, FreeFirst, contexts
<1>2. CASE \E w \in All : WorkerStep(w) \/ WakeSpuriously(w)
  BY <1>2 DEF WorkerStep, WakeSpuriously, Acquire, Consult, OpenReturns, LockProj, Built,
      Closed, Finish, contexts
<1>3. CASE Submit \/ Inline \/ LeaveLoop \/ Exited \/ UNCHANGED vars
  BY <1>3 DEF Submit, Inline, LeaveLoop, Exited, vars, contexts
<1> QED
  BY <1>1, <1>2, <1>3 DEF Next

\* One more.
LEMMA AtMostOneMore ==
  ASSUME NEW A, NEW B, NEW p, NEW n \in Nat,
         A \subseteq B \cup {p}, IsFiniteSet(B), Cardinality(B) <= n
  PROVE  Cardinality(A) <= n + 1
<1>1. IsFiniteSet(B \cup {p}) /\ Cardinality(B) \in Nat
      /\ (Cardinality(B \cup {p}) = Cardinality(B) \/ Cardinality(B \cup {p}) = Cardinality(B) + 1)
  BY FS_AddElement, FS_CardinalityType
<1>2. Cardinality(A) \in Nat /\ Cardinality(A) <= Cardinality(B \cup {p})
  <2>1. IsFiniteSet(A)
    BY <1>1, FS_Subset
  <2> QED
    BY <1>1, <2>1, FS_Subset, FS_CardinalityType
<1> QED
  BY <1>1, <1>2

LEMMA StrayFinite == IsFiniteSet(Stray) /\ Cardinality(Stray) \in Nat
<1>1. IsFiniteSet(1 .. NPaths) /\ Stray \subseteq 1 .. NPaths
  BY DaemonAssumption, FS_Interval DEF Stray, Paths
<1> QED
  BY <1>1, FS_Subset, FS_CardinalityType

LEMMA LoadedInit == Init => LoadedInv
<1> SUFFICES ASSUME Init
             PROVE  LoadedInv
  OBVIOUS
<1>1. <<>> \in Seq(Outcome) /\ Len(<<>>) = 0
  OBVIOUS
<1>2. loaded = [i \in All |-> <<>>] /\ threads \in Threads /\ disturbed = 0
  BY DEF Init
<1>3. storage \in [Paths -> PathKind]
  BY DaemonAssumption DEF Init
<1>4. Stray = {}
  BY <1>1, <1>2 DEF Stray
<1>5. Cardinality({}) = 0
  BY FS_EmptySet
<1> QED
  BY <1>1, <1>2, <1>3, <1>4, <1>5, DaemonAssumption DEF LoadedInv

\* What contextAddPath() can make of a path.
LEMMA PathGives ==
  ASSUME NEW kind \in PathKind
  PROVE  Gives(kind) \in Outcome /\ Spares(kind) \subseteq Outcome
  BY DEF PathKind, Gives, Outcome, Spares

LEMMA LoadedStep == OwnerInv /\ LoadedInv /\ [Next]_vars => LoadedInv'
<1> SUFFICES ASSUME OwnerInv, LoadedInv, [Next]_vars
             PROVE  LoadedInv'
  OBVIOUS
<1>0. Changes \in Nat /\ NPaths \in Nat /\ Kinds \subseteq PathKind /\ disturbed \in Nat
  BY DaemonAssumption DEF LoadedInv
<1>1. CASE StorageChanges
  <2>1. /\ disturbed < Changes /\ disturbed' = disturbed + 1
        /\ UNCHANGED <<threads, loaded>>
        /\ \E p \in Paths, kind \in Kinds : storage' = [storage EXCEPT ![p] = kind]
    BY <1>1 DEF StorageChanges, contexts
  <2>2. storage' \in [Paths -> PathKind] /\ disturbed' \in 0 .. Changes
    BY <1>0, <2>1 DEF LoadedInv
  <2>3. PICK p \in Paths : \E kind \in Kinds : storage' = [storage EXCEPT ![p] = kind]
    BY <2>1
  <2>4. Stray' \subseteq Stray \cup {p}
    <3>1. \A q \in Paths \ {p} : storage'[q] = storage[q]
      BY <2>3 DEF LoadedInv
    <3> QED
      BY <2>1, <3>1 DEF Stray, All
  <2>5. Cardinality(Stray') <= disturbed'
    BY <1>0, <2>1, <2>4, StrayFinite, AtMostOneMore DEF LoadedInv
  <2> QED
    BY <2>1, <2>2, <2>5 DEF LoadedInv, All
<1>2. CASE AddPath
  <2> DEFINE s == loaded[next]
             n == Len(s)
             kind == storage[n + 1]
  <2>1. pc = "load" /\ next \in All /\ n < NPaths /\ s \in Seq(Outcome) /\ n \in Nat
        /\ UNCHANGED <<threads, storage>>
    BY <1>2 DEF AddPath, OwnerInv, LoadingInv, LoadedInv
  <2>2. kind \in PathKind
    BY <1>0, <2>1 DEF LoadedInv, Paths
  <2>3. PICK x \in Outcome :
          /\ loaded' = [loaded EXCEPT ![next] = Append(s, x)]
          /\ \/ x = Gives(kind) /\ disturbed' = disturbed
             \/ disturbed < Changes /\ disturbed' = disturbed + 1
    <3>1. Gives(kind) \in Outcome /\ Spares(kind) \subseteq Outcome
      BY <2>2, PathGives
    <3> QED
      BY <1>2, <3>1 DEF AddPath
  <2> HIDE DEF kind
  <2>4. /\ Append(s, x) \in Seq(Outcome) /\ Len(Append(s, x)) = n + 1
        /\ Append(s, x)[n + 1] = x /\ \A p \in 1 .. n : Append(s, x)[p] = s[p]
    BY <2>1, AppendProperties
  <2>5. disturbed' \in 0 .. Changes
    BY <1>0, <2>3 DEF LoadedInv
  <2>6. /\ loaded' \in [All -> Seq(Outcome)] /\ loaded'[next] = Append(s, x)
        /\ \A i \in All \ {next} : loaded'[i] = loaded[i]
    BY <2>1, <2>3, <2>4 DEF LoadedInv
  <2>7. ASSUME NEW i \in All
        PROVE  Len(loaded'[i]) <= NPaths
    <3>1. n + 1 <= NPaths
      BY <1>0, <2>1
    <3> HIDE DEF s, n
    <3> QED
      BY <2>4, <2>6, <3>1 DEF LoadedInv
  <2>8. ASSUME NEW p \in Stray'
        PROVE  p \in Stray \/ (p = n + 1 /\ x # Gives(kind))
    <3>1. PICK i \in All : p \in 1 .. Len(loaded'[i]) /\ loaded'[i][p] # Gives(storage[p])
      BY <2>1 DEF Stray, All
    <3>2. p \in Paths
      BY DEF Stray, Paths
    <3>3. CASE i # next
      BY <2>6, <3>1, <3>2, <3>3 DEF Stray
    <3>4. CASE i = next
      <4>1. 1 .. n + 1 = (1 .. n) \cup {n + 1}
        BY <2>1
      <4>2. CASE p \in 1 .. n
        <5>1. p \in 1 .. Len(loaded[next]) /\ loaded[next][p] # Gives(storage[p])
          BY <2>4, <2>6, <3>1, <3>4, <4>2
        <5> QED
          BY <2>1, <3>2, <5>1 DEF Stray
      <4>3. CASE p = n + 1
        BY <2>4, <2>6, <3>1, <3>4, <4>3 DEF kind
      <4> HIDE DEF n
      <4> QED
        BY <2>4, <2>6, <3>1, <3>4, <4>1, <4>2, <4>3
    <3> QED
      BY <3>3, <3>4
  <2>9. Cardinality(Stray') <= disturbed'
    <3>1. CASE x = Gives(kind) /\ disturbed' = disturbed
      <4>1. Stray' \subseteq Stray
        BY <2>8, <3>1
      <4>2. Cardinality(Stray') \in Nat /\ Cardinality(Stray') <= Cardinality(Stray)
        <5>1. IsFiniteSet(Stray')
          BY <4>1, StrayFinite, FS_Subset
        <5> QED
          BY <4>1, <5>1, StrayFinite, FS_Subset, FS_CardinalityType
      <4> QED
        BY <1>0, <3>1, <4>2, StrayFinite DEF LoadedInv
    <3>2. CASE disturbed' = disturbed + 1
      <4>1. Stray' \subseteq Stray \cup {n + 1}
        BY <2>8
      <4> QED
        BY <1>0, <3>2, <4>1, StrayFinite, AtMostOneMore DEF LoadedInv
    <3> QED
      BY <2>3, <3>1, <3>2
  <2> QED
    BY <2>1, <2>5, <2>6, <2>7, <2>9 DEF LoadedInv, All
<1>3. CASE UNCHANGED <<storages, loaded>>
  <2>1. Stray' = Stray
    BY <1>3 DEF Stray, storages, All
  <2> QED
    BY <1>3, <2>1 DEF LoadedInv, storages, All
<1> QED
  BY <1>1, <1>2, <1>3, LoadsOnly

LEMMA WorldInit == Init => WorldInv
  BY DEF Init, WorldInv, Going

LEMMA WorldStep ==
  ControlInv /\ OwnerInv /\ LoadedInv /\ WorldInv /\ [Next]_vars => WorldInv'
<1> SUFFICES ASSUME ControlInv, OwnerInv, LoadedInv, WorldInv, [Next]_vars
             PROVE  WorldInv'
  OBVIOUS
<1> USE DEF ControlInv, StackInv, PoolInv, Freeing, PoolFreeing, All, OwnerInv, LoadingInv,
    PoolOwnsInv, WorldInv, Going
<1>same. UNCHANGED loaded => Empty(0)' = Empty(0)
  BY DEF Empty
<1> USE <1>same DEF vars, storages, control, contexts, owners, jobs, workers
<1>StorageChanges. CASE StorageChanges
  BY <1>StorageChanges DEF StorageChanges
<1>CreateContext. CASE CreateContext
  BY <1>CreateContext DEF CreateContext, Fail
<1>MakeSRS. CASE MakeSRS
  BY <1>MakeSRS DEF MakeSRS, ScrapContext, FreeContexts
<1>AddPath. CASE AddPath
  <2>1. pc = "load" /\ next \in All /\ next \notin ctx \cup slots \cup mine
    BY <1>AddPath DEF AddPath
  <2>2. /\ UNCHANGED <<threads, control, owners, held>>
        /\ \A i \in All \ {next} : loaded'[i] = loaded[i]
    BY <1>AddPath DEF AddPath, LoadedInv
  <2>3. next > 0 => Empty(0)' = Empty(0)
    BY <2>1, <2>2 DEF Empty
  <2> QED
    BY <2>1, <2>2, <2>3
<1>KeepContext. CASE KeepContext
  <2>1. pc = "load" /\ next \in All /\ UNCHANGED <<threads, loaded, mine, held>>
        /\ Len(loaded[next]) = NPaths
    BY <1>KeepContext DEF KeepContext
  <2>2. CASE ScrapContext /\ UNCHANGED <<ret, next, ctx, slots>>
    BY <2>1, <2>2 DEF ScrapContext, FreeContexts
  <2>3. CASE /\ pc' = AfterContext(next) /\ ret' = IF pc' = "err" THEN 1 ELSE ret
             /\ IF next = 0 THEN ctx' = {0} /\ UNCHANGED slots
                ELSE slots' = slots \cup {next} /\ UNCHANGED ctx
             /\ next' = IF pc' = "calloc" THEN next + 1 ELSE 0
    <3>1. \A i \in (ctx \cup slots \cup mine)' : Len(loaded'[i]) = NPaths
      BY <2>1, <2>3
    <3>2. next # 0 => ~Empty(0)
      BY <2>1
    <3>3. next = 0 => pc' = IF Empty(0) THEN "err" ELSE IF threads > 1 THEN "array" ELSE "sigpipe"
      BY <2>3 DEF AfterContext
    <3>4. next # 0 => pc' \in {"calloc", "evthread"}
      BY <2>3 DEF AfterContext
    <3>5. Going' => ~Empty(0)'
      BY <2>1, <3>2, <3>3, <3>4, <1>same
    <3>6. pc' \notin {"bind", "term", "quit", "dispatch"} /\ ret' \in {0, 1}
      BY <2>3, <3>3, <3>4
    <3> QED
      BY <3>1, <3>5, <3>6
  <2> QED
    BY <1>KeepContext, <2>2, <2>3 DEF KeepContext
<1>Failed. CASE Failed
  BY <1>Failed DEF Failed, Fail
<1>AllocArray. CASE AllocArray
  BY <1>AllocArray DEF AllocArray, Setup, Fail
<1>Prepare. CASE Prepare
  BY <1>Prepare DEF Prepare, Setup, InstallSignal, Fail
<1>HandOver. CASE HandOver
  BY <1>HandOver DEF HandOver
<1>AllocPool. CASE AllocPool
  BY <1>AllocPool DEF AllocPool, FreeContexts
<1>AllocWorkers. CASE AllocWorkers
  BY <1>AllocWorkers DEF AllocWorkers, FreeContexts
<1>FreeEmptyPool. CASE FreeEmptyPool
  BY <1>FreeEmptyPool DEF FreeEmptyPool, FreePool
<1>AllocWakeup. CASE AllocWakeup
  BY <1>AllocWakeup DEF AllocWakeup, FreePool
<1>Spawn. CASE Spawn
  BY <1>Spawn DEF Spawn, FreePool
<1>PoolCreated. CASE PoolCreated
  BY <1>PoolCreated DEF PoolCreated, Fail
<1>Drain. CASE Drain
  BY <1>Drain DEF Drain
<1>CleanUp. CASE CleanUp
  BY <1>CleanUp DEF CleanUp, FreePool
<1>StopPool. CASE StopPool
  BY <1>StopPool DEF StopPool
<1>JoinWorkers. CASE JoinWorkers
  BY <1>JoinWorkers DEF JoinWorkers
<1>FlushPool. CASE FlushPool
  BY <1>FlushPool DEF FlushPool, FreeContexts
<1>FreedPool. CASE FreedPool
  <2>1. PICK l \in {"created", "slots"} : pc' = l
    BY <1>FreedPool, Popped DEF FreedPool, Return
  <2>2. held' = held \ {"pool", "workers"} /\ mine' = {}
    BY <1>FreedPool DEF FreedPool
  <2> QED
    BY <1>FreedPool, <2>1, <2>2 DEF FreedPool
<1>LockToClose. CASE LockToClose
  BY <1>LockToClose DEF LockToClose
<1>CloseOne. CASE CloseOne
  BY <1>CloseOne DEF CloseOne
<1>DropSRS. CASE DropSRS
  BY <1>DropSRS DEF DropSRS
<1>DropContext. CASE DropContext
  BY <1>DropContext DEF DropContext
<1>FreedContexts. CASE FreedContexts
  <2>1. PICK l \in {"failed", "created", "unpool", "unslot", "drivers", "unpooled"} :
          stack[1] = l /\ Head(stack) = l
    BY <1>FreedContexts, Popped DEF FreedContexts
  <2>2. pc' = l /\ (pc' = "created" => "pool" \notin held)
    BY <1>FreedContexts, <2>1 DEF FreedContexts, Return
  <2> QED
    BY <1>FreedContexts, <2>2 DEF FreedContexts
<1>FreeSlots. CASE FreeSlots
  BY <1>FreeSlots DEF FreeSlots, FreeContexts
<1>ReleaseRest. CASE ReleaseRest
  BY <1>ReleaseRest DEF ReleaseRest, Release
<1>FreeFirst. CASE FreeFirst
  BY <1>FreeFirst DEF FreeFirst, FreeContexts
<1>Submit. CASE Submit
  BY <1>Submit DEF Submit, Signal
<1>Inline. CASE Inline
  BY <1>Inline DEF Inline
<1>LeaveLoop. CASE LeaveLoop
  BY <1>LeaveLoop DEF LeaveLoop
<1>Acquire. ASSUME NEW w \in All, Acquire(w)
       PROVE  WorldInv'
  BY <1>Acquire DEF Acquire, NextJob
<1>WakeSpuriously. ASSUME NEW w \in All, WakeSpuriously(w)
       PROVE  WorldInv'
  BY <1>WakeSpuriously DEF WakeSpuriously
<1>Consult. ASSUME NEW w \in All, Consult(w)
       PROVE  WorldInv'
  BY <1>Consult DEF Consult, Step
<1>OpenReturns. ASSUME NEW w \in All, OpenReturns(w)
       PROVE  WorldInv'
  BY <1>OpenReturns DEF OpenReturns, Step
<1>LockProj. ASSUME NEW w \in All, LockProj(w)
       PROVE  WorldInv'
  BY <1>LockProj DEF LockProj, Step
<1>Built. ASSUME NEW w \in All, Built(w)
       PROVE  WorldInv'
  BY <1>Built DEF Built, Step
<1>Closed. ASSUME NEW w \in All, Closed(w)
       PROVE  WorldInv'
  BY <1>Closed DEF Closed, Step
<1>Finish. ASSUME NEW w \in All, Finish(w)
       PROVE  WorldInv'
  BY <1>Finish DEF Finish, NextJob
<1>Stutter. CASE UNCHANGED vars
  BY <1>Stutter
<1> QED
  BY <1>StorageChanges, <1>CreateContext, <1>MakeSRS, <1>AddPath, <1>KeepContext, <1>Failed,
      <1>AllocArray, <1>Prepare, <1>HandOver, <1>AllocPool, <1>AllocWorkers,
      <1>FreeEmptyPool, <1>AllocWakeup, <1>Spawn, <1>PoolCreated, <1>Drain, <1>CleanUp,
      <1>StopPool, <1>JoinWorkers, <1>FlushPool, <1>FreedPool, <1>LockToClose, <1>CloseOne,
      <1>DropSRS, <1>DropContext, <1>FreedContexts, <1>FreeSlots, <1>ReleaseRest,
      <1>FreeFirst, <1>Submit, <1>Inline, <1>LeaveLoop, <1>Acquire, <1>WakeSpuriously,
      <1>Consult, <1>OpenReturns, <1>LockProj, <1>Built, <1>Closed, <1>Finish, <1>Stutter
  DEF Next, MainStep, WorkerStep, Exited

LEMMA World == Spec => [](ControlInv /\ OwnerInv /\ LoadedInv /\ WorldInv)
<1>1. Init => ControlInv /\ OwnerInv /\ LoadedInv /\ WorldInv
  BY ControlInit, OwnerInit, LoadedInit, WorldInit
<1>2. ControlInv /\ OwnerInv /\ LoadedInv /\ WorldInv /\ [Next]_vars =>
        (ControlInv /\ OwnerInv /\ LoadedInv /\ WorldInv)'
  BY ControlStep, OwnerStep, LoadedStep, WorldStep
<1> QED
  BY <1>1, <1>2, PTL DEF Spec

\* However many threads and paths: a daemon that serves has data, and its threads differ
\* at no more paths than were disturbed while they loaded.
THEOREM OneWorldServed == Spec => []ServesOneWorld
<1>1. ControlInv /\ OwnerInv /\ LoadedInv /\ WorldInv => ServesOneWorld
  <2> SUFFICES ASSUME ControlInv, OwnerInv, LoadedInv, WorldInv, pc = "dispatch"
               PROVE  /\ ~Empty(0)
                      /\ Cardinality({p \in Paths : \E i \in All : loaded[i][p] # loaded[0][p]})
                           <= disturbed
    BY DEF ServesOneWorld
  <2> DEFINE differing == {p \in Paths : \E i \in All : loaded[i][p] # loaded[0][p]}
  <2>1. ~Empty(0)
    BY DEF WorldInv, Going
  <2>2. ASSUME NEW p \in Paths, NEW i \in All, loaded[i][p] # loaded[0][p]
        PROVE  p \in Stray
    <3>1. 0 \in All /\ NPaths \in Nat
      BY DaemonAssumption DEF ControlInv, All
    <3>2. CASE "pool" \in held
      <4>1. mine = All
        BY <3>2 DEF OwnerInv, PoolOwnsInv
      <4>2. p \in 1 .. Len(loaded[i]) /\ p \in 1 .. Len(loaded[0])
        BY <3>1, <4>1 DEF WorldInv, Paths
      <4> QED
        BY <2>2, <3>1, <4>2 DEF Stray
    <3>3. CASE "pool" \notin held
      <4>1. i = 0
        BY <3>3 DEF WorldInv, All
      <4> QED
        BY <2>2, <4>1
    <3> QED
      BY <3>2, <3>3
  <2>3. differing \subseteq Stray
    BY <2>2
  <2>4. Cardinality(differing) \in Nat /\ Cardinality(differing) <= Cardinality(Stray)
    <3> HIDE DEF differing
    <3>1. IsFiniteSet(differing)
      BY <2>3, StrayFinite, FS_Subset
    <3> QED
      BY <2>3, <3>1, StrayFinite, FS_Subset, FS_CardinalityType
  <2> QED
    BY <2>1, <2>4, StrayFinite, DaemonAssumption DEF LoadedInv
<1> QED
  BY <1>1, World, PTL

-----------------------------------------------------------------------------
(* Open files, and the types.                                              *)

\* A context has no file open twice, and one more than the cap only until it has
\* closed another.
CapInv ==
  /\ \A i \in All : handles[i] <= Cardinality(Datasets(i))
  /\ \A w \in All :
       wpc[w] \in {"open", "toProj", "proj"} => handles[w] < Cardinality(Datasets(w))
  /\ MaxOpen > 0 =>
       \A i \in All :
         /\ wpc[i] \notin {"toClose", "close"} \/ half[i] => handles[i] <= MaxOpen
         /\ handles[i] <= MaxOpen + 1

\* Workers are started in order, each once.
SpawnInv ==
  /\ pc \in {"calloc", "srs", "load", "array", "evthread", "sigpipe", "base", "http",
            "handover", "pool", "workers", "wakeup"} =>
       \A w \in All : wpc[w] = "none"
  /\ pc = "spawn" => \A w \in All : w >= next => wpc[w] = "none"

LEMMA SpawnStep ==
  ControlInv /\ OwnerInv /\ SpawnInv /\ [Next]_vars => SpawnInv'
<1> SUFFICES ASSUME ControlInv, OwnerInv, SpawnInv, [Next]_vars
             PROVE  SpawnInv'
  OBVIOUS
<1> USE DEF ControlInv, StackInv, PoolInv, Freeing, PoolFreeing, All, OwnerInv, SpawnInv
<1> USE DEF vars, storages, control, contexts, owners, jobs, workers
<1>StorageChanges. CASE StorageChanges
  BY <1>StorageChanges DEF StorageChanges
<1>CreateContext. CASE CreateContext
  BY <1>CreateContext DEF CreateContext, Fail
<1>MakeSRS. CASE MakeSRS
  BY <1>MakeSRS DEF MakeSRS, ScrapContext, FreeContexts
<1>AddPath. CASE AddPath
  BY <1>AddPath DEF AddPath
<1>KeepContext. CASE KeepContext
  BY <1>KeepContext DEF KeepContext, ScrapContext, FreeContexts, AfterContext, LoadingInv
<1>Failed. CASE Failed
  BY <1>Failed DEF Failed, Fail
<1>AllocArray. CASE AllocArray
  BY <1>AllocArray DEF AllocArray, Setup, Fail
<1>Prepare. CASE Prepare
  BY <1>Prepare DEF Prepare, Setup, InstallSignal, Fail
<1>HandOver. CASE HandOver
  BY <1>HandOver DEF HandOver
<1>AllocPool. CASE AllocPool
  BY <1>AllocPool DEF AllocPool, FreeContexts
<1>AllocWorkers. CASE AllocWorkers
  BY <1>AllocWorkers DEF AllocWorkers, FreeContexts
<1>FreeEmptyPool. CASE FreeEmptyPool
  BY <1>FreeEmptyPool DEF FreeEmptyPool, FreePool
<1>AllocWakeup. CASE AllocWakeup
  BY <1>AllocWakeup DEF AllocWakeup, FreePool
<1>Spawn. CASE Spawn
  BY <1>Spawn DEF Spawn, FreePool
<1>PoolCreated. CASE PoolCreated
  BY <1>PoolCreated DEF PoolCreated, Fail
<1>Drain. CASE Drain
  BY <1>Drain DEF Drain
<1>CleanUp. CASE CleanUp
  BY <1>CleanUp DEF CleanUp, FreePool
<1>StopPool. CASE StopPool
  BY <1>StopPool DEF StopPool
<1>JoinWorkers. CASE JoinWorkers
  BY <1>JoinWorkers DEF JoinWorkers
<1>FlushPool. CASE FlushPool
  BY <1>FlushPool DEF FlushPool, FreeContexts
<1>FreedPool. CASE FreedPool
  <2>1. PICK l \in {"created", "slots"} : pc' = l
    BY <1>FreedPool, Popped DEF FreedPool, Return
  <2> QED
    BY <1>FreedPool, <2>1 DEF FreedPool
<1>LockToClose. CASE LockToClose
  BY <1>LockToClose DEF LockToClose
<1>CloseOne. CASE CloseOne
  BY <1>CloseOne DEF CloseOne
<1>DropSRS. CASE DropSRS
  BY <1>DropSRS DEF DropSRS
<1>DropContext. CASE DropContext
  BY <1>DropContext DEF DropContext
<1>FreedContexts. CASE FreedContexts
  <2>1. PICK l \in {"failed", "created", "unpool", "unslot", "drivers", "unpooled"} :
          stack[1] = l /\ Head(stack) = l
    BY <1>FreedContexts, Popped DEF FreedContexts
  <2>2. pc' = l
    BY <1>FreedContexts, <2>1 DEF FreedContexts, Return
  <2> QED
    BY <1>FreedContexts, <2>2 DEF FreedContexts
<1>FreeSlots. CASE FreeSlots
  BY <1>FreeSlots DEF FreeSlots, FreeContexts
<1>ReleaseRest. CASE ReleaseRest
  BY <1>ReleaseRest DEF ReleaseRest, Release
<1>FreeFirst. CASE FreeFirst
  BY <1>FreeFirst DEF FreeFirst, FreeContexts
<1>Submit. CASE Submit
  BY <1>Submit DEF Submit, Signal
<1>Inline. CASE Inline
  BY <1>Inline DEF Inline
<1>LeaveLoop. CASE LeaveLoop
  BY <1>LeaveLoop DEF LeaveLoop
<1>Acquire. ASSUME NEW w \in All, Acquire(w)
       PROVE  SpawnInv'
  BY <1>Acquire DEF Acquire, NextJob
<1>WakeSpuriously. ASSUME NEW w \in All, WakeSpuriously(w)
       PROVE  SpawnInv'
  BY <1>WakeSpuriously DEF WakeSpuriously
<1>Consult. ASSUME NEW w \in All, Consult(w)
       PROVE  SpawnInv'
  BY <1>Consult DEF Consult, Step
<1>OpenReturns. ASSUME NEW w \in All, OpenReturns(w)
       PROVE  SpawnInv'
  BY <1>OpenReturns DEF OpenReturns, Step
<1>LockProj. ASSUME NEW w \in All, LockProj(w)
       PROVE  SpawnInv'
  BY <1>LockProj DEF LockProj, Step
<1>Built. ASSUME NEW w \in All, Built(w)
       PROVE  SpawnInv'
  BY <1>Built DEF Built, Step
<1>Closed. ASSUME NEW w \in All, Closed(w)
       PROVE  SpawnInv'
  BY <1>Closed DEF Closed, Step
<1>Finish. ASSUME NEW w \in All, Finish(w)
       PROVE  SpawnInv'
  BY <1>Finish DEF Finish, NextJob
<1>Stutter. CASE UNCHANGED vars
  BY <1>Stutter
<1> QED
  BY <1>StorageChanges, <1>CreateContext, <1>MakeSRS, <1>AddPath, <1>KeepContext, <1>Failed,
      <1>AllocArray, <1>Prepare, <1>HandOver, <1>AllocPool, <1>AllocWorkers,
      <1>FreeEmptyPool, <1>AllocWakeup, <1>Spawn, <1>PoolCreated, <1>Drain, <1>CleanUp,
      <1>StopPool, <1>JoinWorkers, <1>FlushPool, <1>FreedPool, <1>LockToClose, <1>CloseOne,
      <1>DropSRS, <1>DropContext, <1>FreedContexts, <1>FreeSlots, <1>ReleaseRest,
      <1>FreeFirst, <1>Submit, <1>Inline, <1>LeaveLoop, <1>Acquire, <1>WakeSpuriously,
      <1>Consult, <1>OpenReturns, <1>LockProj, <1>Built, <1>Closed, <1>Finish, <1>Stutter
  DEF Next, MainStep, WorkerStep, Exited

\* Most steps open and close nothing.
Quiet ==
  /\ UNCHANGED <<threads, loaded, handles, half>>
  /\ \A w \in All :
       \/ wpc'[w] = wpc[w]
       \/ /\ wpc[w] \notin {"toClose", "close"}
          /\ wpc'[w] \notin {"open", "toProj", "proj", "toClose", "close"}

LEMMA DatasetsFinite ==
  ASSUME LoadedInv, NEW i \in All
  PROVE  /\ IsFiniteSet(Datasets(i)) /\ Cardinality(Datasets(i)) \in Nat
         /\ Cardinality(Datasets(i)) <= NPaths
<1>1. loaded[i] \in Seq(Outcome) /\ Len(loaded[i]) \in Nat /\ Len(loaded[i]) <= NPaths
  BY DEF LoadedInv
<1>2. Datasets(i) \subseteq 1 .. Len(loaded[i])
  BY <1>1 DEF Datasets
<1>3. IsFiniteSet(1 .. Len(loaded[i])) /\ Cardinality(1 .. Len(loaded[i])) = Len(loaded[i])
  <2> DEFINE n == Len(loaded[i])
  <2>1. n \in Nat
    BY <1>1
  <2> HIDE DEF n
  <2>2. IsFiniteSet(1 .. n) /\ Cardinality(1 .. n) = n
    BY <2>1, FS_Interval
  <2> QED
    BY <2>2 DEF n
<1>4. /\ IsFiniteSet(Datasets(i)) /\ Cardinality(Datasets(i)) \in Nat
      /\ Cardinality(Datasets(i)) <= Len(loaded[i])
  BY <1>2, <1>3, FS_Subset, FS_CardinalityType
<1> QED
  BY <1>1, <1>4, DaemonAssumption

LEMMA CapInit == Init => CapInv
<1> SUFFICES ASSUME Init
             PROVE  CapInv
  OBVIOUS
<1>1. \A i \in All : Datasets(i) = {}
  BY DEF Init, Datasets
<1>2. Cardinality({}) = 0 /\ MaxOpen \in Nat
  BY FS_EmptySet, DaemonAssumption
<1>3. /\ handles = [i \in All |-> 0] /\ wpc = [i \in All |-> "none"]
      /\ half = [i \in All |-> FALSE]
  BY DEF Init
<1> QED
  BY <1>1, <1>2, <1>3 DEF CapInv

LEMMA CapStep ==
  ControlInv /\ OwnerInv /\ LeavingInv /\ LoadedInv /\ SpawnInv /\ CapInv /\ [Next]_vars =>
    CapInv'
<1> SUFFICES ASSUME ControlInv, OwnerInv, LeavingInv, LoadedInv, SpawnInv, CapInv, [Next]_vars
             PROVE  CapInv'
  OBVIOUS
<1>0. /\ handles \in [All -> Nat] /\ half \in [All -> BOOLEAN] /\ wpc \in [All -> WorkerPC]
      /\ MaxOpen \in Nat
  BY DaemonAssumption DEF ControlInv, LeavingInv, FilesInv
<1>same. UNCHANGED loaded => \A i : Datasets(i)' = Datasets(i)
  BY DEF Datasets
<1>quiet. Quiet => CapInv'
  BY <1>same DEF Quiet, CapInv, All
<1>lower. /\ UNCHANGED <<threads, loaded, half, wpc>>
          /\ \A i \in All : handles'[i] \in Int /\ handles'[i] <= handles[i]
          => CapInv'
  <2> SUFFICES ASSUME UNCHANGED <<threads, loaded, half, wpc>>,
                      \A i \in All : handles'[i] \in Int /\ handles'[i] <= handles[i]
               PROVE  CapInv'
    OBVIOUS
  <2>1. \A i \in All : Datasets(i)' = Datasets(i) /\ Cardinality(Datasets(i)) \in Nat
    BY <1>same, DatasetsFinite
  <2>2. \A i \in All : handles[i] \in Nat
    BY <1>0
  <2> QED
    BY <1>0, <2>1, <2>2 DEF CapInv, All
<1> USE DEF vars, storages, control, contexts, owners, jobs, workers
<1>StorageChanges. CASE StorageChanges
  <2>1. Quiet
    BY <1>StorageChanges DEF StorageChanges, Quiet
  <2> QED
    BY <1>quiet, <2>1
<1>CreateContext. CASE CreateContext
  <2>1. Quiet
    BY <1>CreateContext DEF CreateContext, Fail, Quiet
  <2> QED
    BY <1>quiet, <2>1
<1>MakeSRS. CASE MakeSRS
  <2>1. Quiet
    BY <1>MakeSRS DEF MakeSRS, ScrapContext, FreeContexts, Quiet
  <2> QED
    BY <1>quiet, <2>1
<1>AddPath. CASE AddPath
  <2> DEFINE s == loaded[next]
             n == Len(s)
             kind == storage[n + 1]
  <2>1. pc = "load" /\ next \in All /\ s \in Seq(Outcome) /\ n \in Nat
        /\ UNCHANGED <<threads, next, half, wpc>> /\ \A w \in All : wpc[w] \in {"none", "exited"}
    BY <1>0, <1>AddPath DEF AddPath, LoadedInv, OwnerInv, LoadingInv, ControlInv, PoolInv, Runs,
        WorkerPC
  <2>2. PICK x :
          /\ loaded' = [loaded EXCEPT ![next] = Append(s, x)]
          /\ \/ handles' = handles
             \/ x = "raster" /\ handles' = [handles EXCEPT ![next] = Capped(handles[next] + 1)]
    BY <1>AddPath DEF AddPath, Gives
  <2> HIDE DEF kind
  <2>3. \A i \in All \ {next} : Datasets(i)' = Datasets(i) /\ handles'[i] = handles[i]
    BY <2>1, <2>2, <1>0 DEF Datasets, LoadedInv
  <2> DEFINE D == Datasets(next)
             h == handles[next]
  <2>4. /\ D \subseteq 1 .. n /\ n + 1 \notin D /\ IsFiniteSet(D) /\ Cardinality(D) \in Nat
        /\ h \in Nat /\ h <= Cardinality(D)
    <3>1. D \subseteq 1 .. n
      BY <2>1 DEF Datasets
    <3>2. n + 1 \notin 1 .. n
      BY <2>1
    <3>3. IsFiniteSet(D) /\ Cardinality(D) \in Nat
      BY <2>1, DatasetsFinite
    <3>4. h \in Nat /\ h <= Cardinality(D)
      BY <1>0, <2>1 DEF CapInv
    <3> QED
      BY <3>1, <3>2, <3>3, <3>4
  <2>5. \/ Datasets(next)' = D /\ x # "raster"
        \/ Datasets(next)' = D \cup {n + 1}
    <3>1. loaded'[next] = Append(s, x)
      BY <2>1, <2>2 DEF LoadedInv
    <3>2. DOMAIN Append(s, x) = (1 .. n) \cup {n + 1} /\ DOMAIN s = 1 .. n
      BY <2>1
    <3>3. Append(s, x)[n + 1] = x /\ \A p \in 1 .. n : Append(s, x)[p] = s[p]
      BY <2>1
    <3>4. n + 1 \notin 1 .. n
      BY <2>1
    <3> DEFINE t == Append(s, x)
    <3>5. Datasets(next)' = {p \in DOMAIN t : t[p] \in WithData}
      BY <2>1, <3>1 DEF Datasets
    <3>6. D = {p \in DOMAIN s : s[p] \in WithData}
      BY DEF Datasets
    <3> HIDE DEF n, t, D, s
    <3>7. CASE x \in WithData
      <4>1. Datasets(next)' = D \cup {n + 1}
        BY <3>2, <3>3, <3>4, <3>5, <3>6, <3>7 DEF t
      <4> QED
        BY <4>1
    <3>8. CASE x \notin WithData
      <4>1. Datasets(next)' = D
        BY <3>2, <3>3, <3>4, <3>5, <3>6, <3>8 DEF t
      <4> QED
        BY <3>8, <4>1 DEF WithData
    <3> QED
      BY <3>7, <3>8
  <2>6. Cardinality(D \cup {n + 1}) = Cardinality(D) + 1
    BY <2>4, FS_AddElement
  <2> HIDE DEF D, h, s, n
  <2>7. h + 1 \in Nat
    BY <2>4
  <2>8. Capped(h + 1) \in Nat /\ Capped(h + 1) <= h + 1 /\ (MaxOpen > 0 => Capped(h + 1) <= MaxOpen)
    BY <2>7, CappedIsNat
  <2>9. handles'[next] \in Nat /\ handles'[next] <= Cardinality(Datasets(next)')
    <3>1. handles'[next] = h \/ (x = "raster" /\ handles'[next] = Capped(h + 1))
      BY <1>0, <2>1, <2>2 DEF h
    <3>2. CASE handles'[next] = h
      BY <2>4, <2>5, <2>6, <3>2
    <3>3. CASE x = "raster" /\ handles'[next] = Capped(h + 1)
      <4>1. Cardinality(Datasets(next)') = Cardinality(D) + 1
        BY <2>5, <2>6, <3>3
      <4> QED
        BY <2>4, <2>8, <3>3, <4>1
    <3> QED
      BY <3>1, <3>2, <3>3
  <2>10. MaxOpen > 0 => handles'[next] <= MaxOpen
    <3>1. MaxOpen > 0 => h <= MaxOpen
      BY <2>1 DEF CapInv, h
    <3>2. handles'[next] = h \/ handles'[next] = Capped(h + 1)
      BY <1>0, <2>1, <2>2 DEF h
    <3> QED
      BY <2>8, <3>1, <3>2
  <2>11. MaxOpen > 0 => \A i \in All : handles[i] <= MaxOpen
    BY <2>1 DEF CapInv
  <2>12. ASSUME NEW i \in All
         PROVE  /\ handles'[i] <= Cardinality(Datasets(i)')
                /\ MaxOpen > 0 => handles'[i] <= MaxOpen
    <3>1. CASE i = next
      <4>1. Datasets(next)' = Datasets(i)'
        BY <2>1, <3>1 DEF Datasets
      <4> QED
        BY <2>9, <2>10, <3>1, <4>1
    <3>2. CASE i # next
      <4>1. Datasets(i)' = Datasets(i) /\ handles'[i] = handles[i]
        BY <2>3, <3>2
      <4>2. handles[i] <= Cardinality(Datasets(i)) /\ (MaxOpen > 0 => handles[i] <= MaxOpen)
        BY <2>11 DEF CapInv
      <4> QED
        BY <4>1, <4>2
    <3> QED
      BY <3>1, <3>2
  <2>13. MaxOpen > 0 => \A i \in All : handles'[i] <= MaxOpen + 1
    <3>1. \A i \in All : handles'[i] \in Int
      BY <1>0, <2>3, <2>9
    <3> QED
      BY <1>0, <2>12, <3>1
  <2> QED
    BY <2>1, <2>12, <2>13 DEF CapInv, All
<1>KeepContext. CASE KeepContext
  <2>1. Quiet
    BY <1>KeepContext DEF KeepContext, ScrapContext, FreeContexts, AfterContext, Quiet
  <2> QED
    BY <1>quiet, <2>1
<1>Failed. CASE Failed
  <2>1. Quiet
    BY <1>Failed DEF Failed, Fail, Quiet
  <2> QED
    BY <1>quiet, <2>1
<1>AllocArray. CASE AllocArray
  <2>1. Quiet
    BY <1>AllocArray DEF AllocArray, Setup, Fail, Quiet
  <2> QED
    BY <1>quiet, <2>1
<1>Prepare. CASE Prepare
  <2>1. Quiet
    BY <1>Prepare DEF Prepare, Setup, InstallSignal, Fail, Quiet
  <2> QED
    BY <1>quiet, <2>1
<1>HandOver. CASE HandOver
  <2>1. Quiet
    BY <1>HandOver DEF HandOver, Quiet
  <2> QED
    BY <1>quiet, <2>1
<1>AllocPool. CASE AllocPool
  <2>1. Quiet
    BY <1>AllocPool DEF AllocPool, FreeContexts, Quiet
  <2> QED
    BY <1>quiet, <2>1
<1>AllocWorkers. CASE AllocWorkers
  <2>1. Quiet
    BY <1>AllocWorkers DEF AllocWorkers, FreeContexts, Quiet
  <2> QED
    BY <1>quiet, <2>1
<1>FreeEmptyPool. CASE FreeEmptyPool
  <2>1. Quiet
    BY <1>FreeEmptyPool DEF FreeEmptyPool, FreePool, Quiet
  <2> QED
    BY <1>quiet, <2>1
<1>AllocWakeup. CASE AllocWakeup
  <2>1. Quiet
    BY <1>AllocWakeup DEF AllocWakeup, FreePool, Quiet
  <2> QED
    BY <1>quiet, <2>1
<1>Spawn. CASE Spawn
  <2>1. /\ UNCHANGED <<threads, loaded, handles, half>>
        /\ \/ wpc' = [wpc EXCEPT ![next] = "lock"]
           \/ wpc' = wpc
    BY <1>Spawn DEF Spawn
  <2>2. next \in All => wpc[next] = "none"
    BY <1>Spawn DEF Spawn, SpawnInv, OwnerInv, All
  <2>3. Quiet
    BY <1>0, <2>1, <2>2 DEF Quiet
  <2> QED
    BY <1>quiet, <2>3
<1>PoolCreated. CASE PoolCreated
  <2>1. Quiet
    BY <1>PoolCreated DEF PoolCreated, Fail, Quiet
  <2> QED
    BY <1>quiet, <2>1
<1>Drain. CASE Drain
  <2>1. Quiet
    BY <1>Drain DEF Drain, Quiet
  <2> QED
    BY <1>quiet, <2>1
<1>CleanUp. CASE CleanUp
  <2>1. Quiet
    BY <1>CleanUp DEF CleanUp, FreePool, Quiet
  <2> QED
    BY <1>quiet, <2>1
<1>StopPool. CASE StopPool
  <2>1. Quiet
    BY <1>StopPool DEF StopPool, Quiet
  <2> QED
    BY <1>quiet, <2>1
<1>JoinWorkers. CASE JoinWorkers
  <2>1. Quiet
    BY <1>JoinWorkers DEF JoinWorkers, Quiet
  <2> QED
    BY <1>quiet, <2>1
<1>FlushPool. CASE FlushPool
  <2>1. Quiet
    BY <1>FlushPool DEF FlushPool, FreeContexts, Quiet
  <2> QED
    BY <1>quiet, <2>1
<1>FreedPool. CASE FreedPool
  <2>1. Quiet
    BY <1>FreedPool DEF FreedPool, Return, Quiet
  <2> QED
    BY <1>quiet, <2>1
<1>LockToClose. CASE LockToClose
  <2>1. Quiet
    BY <1>LockToClose DEF LockToClose, Quiet
  <2> QED
    BY <1>quiet, <2>1
<1>CloseOne. CASE CloseOne
  <2>1. First \in All
    BY <1>CloseOne, LeastIsIn DEF CloseOne, First, OwnerInv, FreeingInv, All
  <2>2. UNCHANGED <<threads, loaded, half, wpc>>
        /\ handles' = [handles EXCEPT ![First] = handles[First] - 1]
    BY <1>CloseOne DEF CloseOne
  <2>3. \A i \in All : handles'[i] \in Int /\ handles'[i] <= handles[i]
    BY <1>0, <2>1, <2>2
  <2> QED
    BY <1>lower, <2>2, <2>3
<1>DropSRS. CASE DropSRS
  <2>1. Quiet
    BY <1>DropSRS DEF DropSRS, Quiet
  <2> QED
    BY <1>quiet, <2>1
<1>DropContext. CASE DropContext
  <2>1. Quiet
    BY <1>DropContext DEF DropContext, Quiet
  <2> QED
    BY <1>quiet, <2>1
<1>FreedContexts. CASE FreedContexts
  <2>1. Quiet
    BY <1>FreedContexts DEF FreedContexts, Return, Quiet
  <2> QED
    BY <1>quiet, <2>1
<1>FreeSlots. CASE FreeSlots
  <2>1. Quiet
    BY <1>FreeSlots DEF FreeSlots, FreeContexts, Quiet
  <2> QED
    BY <1>quiet, <2>1
<1>ReleaseRest. CASE ReleaseRest
  <2>1. Quiet
    BY <1>ReleaseRest DEF ReleaseRest, Release, Quiet
  <2> QED
    BY <1>quiet, <2>1
<1>FreeFirst. CASE FreeFirst
  <2>1. Quiet
    BY <1>FreeFirst DEF FreeFirst, FreeContexts, Quiet
  <2> QED
    BY <1>quiet, <2>1
<1>Submit. CASE Submit
  <2>1. Quiet
    BY <1>0, <1>Submit DEF Submit, Signal, Quiet
  <2> QED
    BY <1>quiet, <2>1
<1>Inline. CASE Inline
  <2> DEFINE h == handles[0]
             d == Cardinality(Datasets(0))
  <2>1. /\ 0 \in All /\ h < d /\ handles' = [handles EXCEPT ![0] = Capped(h + 1)]
        /\ UNCHANGED <<threads, loaded, half, wpc>> /\ \A w \in All : wpc[w] \in {"none", "exited"}
    BY <1>Inline DEF Inline, ControlInv, PoolInv, Runs, All
  <2>2. h \in Nat /\ h + 1 \in Nat /\ d \in Nat
    BY <1>0, <2>1, DatasetsFinite
  <2> HIDE DEF h, d
  <2>3. Capped(h + 1) \in Nat /\ Capped(h + 1) <= h + 1 /\ (MaxOpen > 0 => Capped(h + 1) <= MaxOpen)
    BY <2>2, CappedIsNat
  <2>4. handles'[0] = Capped(h + 1) /\ \A i \in All \ {0} : handles'[i] = handles[i]
    BY <1>0, <2>1
  <2>5. handles'[0] <= d /\ (MaxOpen > 0 => handles'[0] <= MaxOpen /\ handles'[0] <= MaxOpen + 1)
    BY <1>0, <2>1, <2>2, <2>3, <2>4
  <2>6. \A i \in All : Cardinality(Datasets(i)') = Cardinality(Datasets(i))
    BY <1>same, <2>1
  <2>7. \A i \in All : handles'[i] <= Cardinality(Datasets(i)')
    BY <2>4, <2>5, <2>6 DEF CapInv, d
  <2> QED
    BY <2>1, <2>4, <2>5, <2>7 DEF CapInv, All
<1>LeaveLoop. CASE LeaveLoop
  <2>1. Quiet
    BY <1>LeaveLoop DEF LeaveLoop, Quiet
  <2> QED
    BY <1>quiet, <2>1
<1>Acquire. ASSUME NEW w \in All, Acquire(w)
       PROVE  CapInv'
  <2>1. Quiet
    BY <1>0, <1>Acquire DEF Acquire, NextJob, Quiet
  <2> QED
    BY <1>quiet, <2>1
<1>WakeSpuriously. ASSUME NEW w \in All, WakeSpuriously(w)
       PROVE  CapInv'
  <2>1. Quiet
    BY <1>WakeSpuriously DEF WakeSpuriously, Quiet
  <2> QED
    BY <1>quiet, <2>1
<1>Consult. ASSUME NEW w \in All, Consult(w)
       PROVE  CapInv'
  <2>1. /\ UNCHANGED <<threads, handles, loaded>>
        /\ wpc[w] = "lookup" /\ half' = half
        /\ \/ wpc' = [wpc EXCEPT ![w] = "open"] /\ handles[w] < Cardinality(Datasets(w))
           \/ wpc' = [wpc EXCEPT ![w] = "finish"]
    BY <1>Consult DEF Consult, Step
  <2>2. \A i \in All : Cardinality(Datasets(i)') = Cardinality(Datasets(i))
    BY <1>same, <2>1
  <2>3. \A i \in All \ {w} : wpc'[i] = wpc[i] /\ half'[i] = half[i]
    BY <1>0, <2>1
  <2>4. wpc'[w] = "finish" \/ (wpc'[w] = "open" /\ handles[w] < Cardinality(Datasets(w)))
    BY <1>0, <2>1
  <2> QED
    BY <2>1, <2>2, <2>3, <2>4 DEF CapInv, All
<1>OpenReturns. ASSUME NEW w \in All, OpenReturns(w)
       PROVE  CapInv'
  <2>1. /\ UNCHANGED <<threads, handles, loaded>>
        /\ wpc[w] = "open" /\ (half' = half \/ half' = [half EXCEPT ![w] = TRUE])
        /\ \/ wpc' = [wpc EXCEPT ![w] = "toProj"] \/ wpc' = [wpc EXCEPT ![w] = "toClose"]
    BY <1>OpenReturns DEF OpenReturns, Step
  <2>2. \A i \in All : Cardinality(Datasets(i)') = Cardinality(Datasets(i))
    BY <1>same, <2>1
  <2>3. \A i \in All \ {w} : wpc'[i] = wpc[i] /\ half'[i] = half[i]
    BY <1>0, <2>1
  <2>4. wpc'[w] \in {"toProj", "toClose"}
    BY <1>0, <2>1
  <2> QED
    BY <2>1, <2>2, <2>3, <2>4 DEF CapInv, All
<1>LockProj. ASSUME NEW w \in All, LockProj(w)
       PROVE  CapInv'
  <2>1. /\ UNCHANGED <<threads, handles, loaded>>
        /\ half' = half
        /\ \/ wpc[w] = "toProj" /\ wpc' = [wpc EXCEPT ![w] = "proj"]
           \/ wpc[w] = "toClose" /\ wpc' = [wpc EXCEPT ![w] = "close"]
    BY <1>LockProj DEF LockProj, Step
  <2>2. \A i \in All : Cardinality(Datasets(i)') = Cardinality(Datasets(i))
    BY <1>same, <2>1
  <2>3. \A i \in All \ {w} : wpc'[i] = wpc[i] /\ half'[i] = half[i]
    BY <1>0, <2>1
  <2>4. \/ wpc[w] = "toProj" /\ wpc'[w] = "proj"
        \/ wpc[w] = "toClose" /\ wpc'[w] = "close"
    BY <1>0, <2>1
  <2> QED
    BY <2>1, <2>2, <2>3, <2>4 DEF CapInv, All
<1>Built. ASSUME NEW w \in All, Built(w)
       PROVE  CapInv'
  <2> DEFINE h == handles[w]
             d == Cardinality(Datasets(w))
  <2>1. /\ UNCHANGED <<threads, loaded>> /\ wpc[w] = "proj"
        /\ \/ /\ handles' = [handles EXCEPT ![w] = h + 1] /\ half' = [half EXCEPT ![w] = FALSE]
              /\ wpc' = [wpc EXCEPT ![w] = IF MaxOpen > 0 /\ h + 1 > MaxOpen
                                           THEN "toClose" ELSE "finish"]
           \/ UNCHANGED <<handles, half>> /\ wpc' = [wpc EXCEPT ![w] = "toClose"]
    BY <1>Built DEF Built, Step
  <2>2. h \in Nat /\ d \in Nat /\ h < d /\ (MaxOpen > 0 => h <= MaxOpen)
    BY <1>0, <2>1, DatasetsFinite DEF CapInv
  <2>3. \A i \in All : Cardinality(Datasets(i)') = Cardinality(Datasets(i))
    BY <1>same, <2>1
  <2>4. \A i \in All \ {w} : wpc'[i] = wpc[i] /\ half'[i] = half[i] /\ handles'[i] = handles[i]
    BY <1>0, <2>1
  <2>5. /\ handles'[w] \in Nat /\ handles'[w] <= d /\ wpc'[w] \in {"toClose", "finish"}
        /\ MaxOpen > 0 =>
             /\ handles'[w] <= MaxOpen + 1
             /\ wpc'[w] # "toClose" \/ half'[w] => handles'[w] <= MaxOpen
    <3> HIDE DEF h, d
    <3>1. /\ handles'[w] \in {h, h + 1} /\ wpc'[w] \in {"toClose", "finish"}
          /\ handles'[w] = h \/ (~half'[w] /\ (MaxOpen > 0 /\ h + 1 > MaxOpen => wpc'[w] = "toClose"))
      BY <1>0, <2>1 DEF h
    <3> QED
      BY <1>0, <2>2, <3>1
  <2> QED
    BY <2>1, <2>3, <2>4, <2>5 DEF CapInv, All
<1>Closed. ASSUME NEW w \in All, Closed(w)
       PROVE  CapInv'
  <2> DEFINE h == handles[w]
             n == IF ~half[w] /\ MaxOpen > 0 /\ h > MaxOpen THEN h - 1 ELSE h
  <2>1. /\ UNCHANGED <<threads, loaded>> /\ wpc[w] = "close"
        /\ handles' = [handles EXCEPT ![w] = n] /\ half' = [half EXCEPT ![w] = FALSE]
        /\ wpc' = [wpc EXCEPT ![w] = "finish"]
    <3>1. handles = [handles EXCEPT ![w] = handles[w]]
      BY <1>0
    <3> QED
      BY <1>Closed, <3>1 DEF Closed, Step
  <2>2. h \in Nat /\ Cardinality(Datasets(w)) \in Nat /\ h <= Cardinality(Datasets(w))
        /\ (MaxOpen > 0 => h <= MaxOpen + 1 /\ (half[w] => h <= MaxOpen))
    BY <1>0, <2>1, DatasetsFinite DEF CapInv
  <2>3. \A i \in All : Cardinality(Datasets(i)') = Cardinality(Datasets(i))
    BY <1>same, <2>1
  <2> HIDE DEF h
  <2>4. n <= Cardinality(Datasets(w)) /\ (MaxOpen > 0 => n <= MaxOpen /\ n <= MaxOpen + 1)
    BY <1>0, <2>2
  <2> HIDE DEF n
  <2>5. /\ handles'[w] = n /\ wpc'[w] = "finish"
        /\ \A i \in All \ {w} : wpc'[i] = wpc[i] /\ half'[i] = half[i] /\ handles'[i] = handles[i]
    BY <1>0, <2>1
  <2>6. \A i \in All : handles'[i] <= Cardinality(Datasets(i)')
    BY <2>3, <2>4, <2>5 DEF CapInv
  <2>7. \A i \in All :
          wpc'[i] \in {"open", "toProj", "proj"} => handles'[i] < Cardinality(Datasets(i)')
    BY <2>3, <2>5 DEF CapInv
  <2>8. MaxOpen > 0 =>
          \A i \in All :
            /\ wpc'[i] \notin {"toClose", "close"} \/ half'[i] => handles'[i] <= MaxOpen
            /\ handles'[i] <= MaxOpen + 1
    BY <2>4, <2>5 DEF CapInv
  <2> QED
    BY <2>1, <2>6, <2>7, <2>8 DEF CapInv, All
<1>Finish. ASSUME NEW w \in All, Finish(w)
       PROVE  CapInv'
  <2>1. Quiet
    BY <1>0, <1>Finish DEF Finish, NextJob, Quiet
  <2> QED
    BY <1>quiet, <2>1
<1>Stutter. CASE UNCHANGED vars
  BY <1>Stutter, <1>quiet DEF Quiet
<1> QED
  BY <1>StorageChanges, <1>CreateContext, <1>MakeSRS, <1>AddPath, <1>KeepContext, <1>Failed,
      <1>AllocArray, <1>Prepare, <1>HandOver, <1>AllocPool, <1>AllocWorkers,
      <1>FreeEmptyPool, <1>AllocWakeup, <1>Spawn, <1>PoolCreated, <1>Drain, <1>CleanUp,
      <1>StopPool, <1>JoinWorkers, <1>FlushPool, <1>FreedPool, <1>LockToClose, <1>CloseOne,
      <1>DropSRS, <1>DropContext, <1>FreedContexts, <1>FreeSlots, <1>ReleaseRest,
      <1>FreeFirst, <1>Submit, <1>Inline, <1>LeaveLoop, <1>Acquire, <1>WakeSpuriously,
      <1>Consult, <1>OpenReturns, <1>LockProj, <1>Built, <1>Closed, <1>Finish, <1>Stutter
  DEF Next, MainStep, WorkerStep, Exited

LEMMA Capping == Spec => [](ControlInv /\ OwnerInv /\ LeavingInv /\ LoadedInv /\ WorldInv /\ CapInv)
<1>1. Init => SpawnInv /\ CapInv
  BY CapInit DEF Init, SpawnInv
<1>2. ControlInv /\ OwnerInv /\ LeavingInv /\ LoadedInv /\ SpawnInv /\ CapInv /\ [Next]_vars =>
        SpawnInv' /\ CapInv'
  BY SpawnStep, CapStep
<1> QED
  BY <1>1, <1>2, Leaving, World, PTL DEF Spec

\* The types, and that no context has more files open than it has datasets, nor more
\* than -n allows when it is not about to close one.
THEOREM TypeCorrect == Spec => []TypeOK
<1>1. ControlInv /\ OwnerInv /\ LeavingInv /\ LoadedInv /\ WorldInv /\ CapInv => TypeOK
  <2> SUFFICES ASSUME ControlInv, OwnerInv, LeavingInv, LoadedInv, WorldInv, CapInv
               PROVE  TypeOK
    OBVIOUS
  <2>1. \A i \in All : handles[i] \in 0 .. NPaths
    <3> TAKE i \in All
    <3>1. handles[i] \in Nat /\ handles[i] <= Cardinality(Datasets(i))
      BY DEF LeavingInv, FilesInv, CapInv
    <3>2. Cardinality(Datasets(i)) \in Nat /\ Cardinality(Datasets(i)) <= NPaths /\ NPaths \in Nat
      BY DatasetsFinite, DaemonAssumption
    <3> QED
      BY <3>1, <3>2
  <2>2. \A i \in All :
          MaxOpen > 0 /\ wpc[i] \notin {"toClose", "close"} => handles[i] <= MaxOpen
    BY DEF CapInv
  <2>3. \A i \in All : half[i] => wpc[i] \in {"toProj", "proj", "toClose", "close"}
    BY DEF LeavingInv, FilesInv
  <2>4. life \in [All -> {"none", "live", "freed", "twice"}] /\ ctx \cup slots \cup mine \subseteq All
    BY DEF OwnerInv
  <2>5. threads \in Threads /\ disturbed \in 0 .. Changes /\ ret \in {0, 1}
        /\ \A i \in All : Len(loaded[i]) <= NPaths
    BY DEF LoadedInv, WorldInv
  <2>6. lock \in {Free, Main} \cup All
    BY DEF ControlInv, LockInv
  <2> QED
    BY <2>1, <2>2, <2>3, <2>4, <2>5, <2>6 DEF TypeOK
<1> QED
  BY <1>1, Capping, PTL
==============================================================================
