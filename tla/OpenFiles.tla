------------------------------- MODULE OpenFiles -------------------------------
(***************************************************************************)
(* One context of the daemon: the datasets loaded from the path arguments, *)
(* which of them are open, and what a lookup does to that.  A context is   *)
(* used by one thread at a time -- main() while it loads, then the event   *)
(* loop or the worker that owns it -- so what interleaves with a lookup is *)
(* the world: the clock runs, and files become unusable and recover, while *)
(* GDALOpen() waits for them.                                              *)
(***************************************************************************)
EXTENDS Integers, FiniteSets, FiniteSetsExt, Functions, SequencesExt

CONSTANTS
  NumFiles,      \* how many files the path arguments come to
  MaxOpen,       \* -n: how many may stay open, 0 for any number
  RetryCeiling,  \* DATASET_RETRY_CEILING
  ClockSteps,    \* whether the wall clock may be set back
  Horizon        \* where the clock stops: a bound on the model, not in the code

ASSUME OpenFilesAssumption ==
  /\ NumFiles \in Nat
  /\ MaxOpen \in Nat
  /\ RetryCeiling \in Nat
  /\ ClockSteps \in BOOLEAN
  /\ Horizon \in Nat

\* The files, numbered as the path arguments give them.
Files == 1 .. NumFiles
NoFile == 0

VARIABLES
  \* The world.
  now,         \* time(NULL)
  usable,      \* usable[f]: f can be opened and read
  \* The context.
  datasets,    \* the files in it, in order of precedence
  lru,         \* open_datasets, the most recently used first
  num_open,    \* how many the context counts
  \* The datasets.
  open,        \* open[f]: hSrcDS is not NULL
  fail_count, next_retry,
  \* The thread that uses the context.
  pc,          \* what it is doing
  at,          \* the path argument, or the dataset, whose turn it is
  ground,      \* ground[f]: what f has at the point that is looked up
  answer,      \* the dataset that answered, or none
  started,     \* DatasetOpen()'s `now`
  \* History.
  recency,     \* the files used so far, the most recently used first
  since        \* since[f]: when the first of f's failures in a row was begun

world == <<now, usable>>
retries == <<fail_count, next_retry, since>>
opened == <<lru, num_open, open, recency>>
lookup == <<at, ground, answer>>
vars == <<world, datasets, opened, retries, pc, lookup, started>>

Grounds == {"outside", "nodata", "value"}
Nowhere == [f \in Files |-> "outside"]

Init ==
  /\ now = 0
  /\ usable \in [Files -> BOOLEAN]
  /\ datasets = <<>>
  /\ lru = <<>>
  /\ num_open = 0
  /\ open = [f \in Files |-> FALSE]
  /\ fail_count = [f \in Files |-> 0]
  /\ next_retry = [f \in Files |-> 0]
  /\ pc = "loading"
  /\ at = 1
  /\ ground = Nowhere
  /\ answer = NoFile
  /\ started = 0
  /\ recency = <<>>
  /\ since = [f \in Files |-> 0]

-----------------------------------------------------------------------------
(* The world.                                                              *)

Tick ==
  /\ now < Horizon
  /\ now' = now + 1
  /\ UNCHANGED <<usable, datasets, opened, retries, pc, lookup, started>>

\* time() follows the wall clock, which an operator or NTP may set back.
StepBack ==
  /\ ClockSteps
  /\ \E earlier \in 0 .. now - 1 : now' = earlier
  /\ UNCHANGED <<usable, datasets, opened, retries, pc, lookup, started>>

\* An outage of the storage behind f, or its end.
Turn(f) ==
  /\ usable' = [usable EXCEPT ![f] = ~@]
  /\ UNCHANGED <<now, datasets, opened, retries, pc, lookup, started>>

-----------------------------------------------------------------------------
(* The files that are open.                                                *)

\* s with f moved, or put, first.
ToHead(f, s) ==
  IF f \in Range(s) THEN <<f>> \o RemoveAt(s, CHOOSE i \in 1 .. Len(s) : s[i] = f)
  ELSE <<f>> \o s

\* History: f is used.
Use(f) == recency' = ToHead(f, recency)

\* Mutant: one more than the cap stays open.
Surplus_OneMore ==
  IF MaxOpen = 0 \/ num_open <= MaxOpen THEN 0
  ELSE IF num_open - MaxOpen <= Len(lru) THEN num_open - MaxOpen
  ELSE Len(lru)

\* How many of the least recently used contextNoteOpened() closes, now that
\* another is open: never that one.
Surplus ==
  IF MaxOpen = 0 \/ num_open + 1 <= MaxOpen THEN 0
  ELSE IF num_open + 1 - MaxOpen <= Len(lru) THEN num_open + 1 - MaxOpen
  ELSE Len(lru)

\* Mutant: TAILQ_FIRST() for TAILQ_LAST().
NoteOpened_ClosesFirst(f) ==
  LET list == <<f>> \o lru
      kept == SubSeq(list, Surplus + 1, Len(list))
  IN /\ lru' = kept
     /\ num_open' = num_open + 1 - Surplus
     /\ open' = [g \in Files |-> g \in Range(kept)]

\* contextNoteOpened(): f takes a slot, and the least recently used lose theirs.
NoteOpened(f) ==
  LET kept == SubSeq(lru, 1, Len(lru) - Surplus)
      victims == Range(lru) \ Range(kept)
  IN /\ lru' = <<f>> \o kept
     /\ num_open' = num_open + 1 - Surplus
     /\ open' = [g \in Files |-> g = f \/ (open[g] /\ g \notin victims)]

\* Mutant: the order is that of the openings.
Touch_Forgotten(f) == UNCHANGED lru

\* contextTouch(): a listed file moves to the head.
Touch(f) ==
  IF f \in Range(lru) THEN lru' = ToHead(f, lru) ELSE UNCHANGED lru

-----------------------------------------------------------------------------
(* Loading: ContextCreate().                                               *)

\* The next file comes from an index: it joins the context unopened.
LoadIndexed ==
  /\ pc = "loading"
  /\ at \in Files
  /\ datasets' = Append(datasets, at)
  /\ at' = at + 1
  /\ UNCHANGED <<world, opened, retries, pc, ground, answer, started>>

\* The next file is opened eagerly, and stays open for now.
LoadEager ==
  /\ pc = "loading"
  /\ at \in Files
  /\ usable[at]
  /\ datasets' = Append(datasets, at)
  /\ NoteOpened(at) /\ Use(at)
  /\ at' = at + 1
  /\ UNCHANGED <<world, retries, pc, ground, answer, started>>

\* The next file is left out, with a message at most: the path does not exist, the
\* file cannot be opened, its index is refused, or memory ran out.
LeaveOut ==
  /\ pc = "loading"
  /\ at \in Files
  /\ at' = at + 1
  /\ UNCHANGED <<world, datasets, opened, retries, pc, ground, answer, started>>

\* Every path argument is loaded.
Serve ==
  /\ pc = "loading"
  /\ at \notin Files
  /\ pc' = "idle"
  /\ at' = 0
  /\ UNCHANGED <<world, datasets, opened, retries, ground, answer, started>>

-----------------------------------------------------------------------------
(* Lookups.                                                                *)

\* ContextGetAltitudeFrom(): a point comes in.  The grid may leave out files
\* whose box it is outside of, which changes nothing here; an empty context has
\* no grid and no answer.
Begin ==
  /\ pc = "idle"
  /\ datasets # <<>>
  /\ ground' \in [Files -> Grounds]
  /\ \A f \in Files \ Range(datasets) : ground'[f] = "outside"
  /\ answer' = NoFile
  /\ at' = 1
  /\ pc' = "consult"
  /\ UNCHANGED <<world, datasets, opened, retries, started>>

\* The lookup is over, with f's value or with none.
End(f) == pc' = "idle" /\ at' = 0 /\ ground' = Nowhere /\ answer' = f

\* Mutant: the end of the list is not one.
Pass_NoEnd == pc' = "consult" /\ at' = at + 1 /\ UNCHANGED <<ground, answer>>

\* The dataset whose turn it is has no answer: the next one's turn.
Pass ==
  IF at < Len(datasets)
  THEN pc' = "consult" /\ at' = at + 1 /\ UNCHANGED <<ground, answer>>
  ELSE End(NoFile)

BackingOff(f) == fail_count[f] > 0 /\ now < next_retry[f]

\* contextConsult() up to GDALOpen(): the bounds, the handle, the backoff.
Consult ==
  LET f == datasets[at]
  IN /\ pc = "consult"
     /\ \/ ground[f] = "outside" /\ Pass /\ UNCHANGED <<lru, recency, started>>
        \/ /\ ground[f] # "outside" /\ open[f]
           /\ IF MaxOpen > 0 THEN Touch(f) ELSE UNCHANGED lru
           /\ Use(f)
           /\ pc' = "reading"
           /\ UNCHANGED <<lookup, started>>
        \/ /\ ground[f] # "outside" /\ ~open[f] /\ BackingOff(f)
           /\ Pass
           /\ UNCHANGED <<lru, recency, started>>
        \/ /\ ground[f] # "outside" /\ ~open[f] /\ ~BackingOff(f)
           /\ started' = now
           /\ pc' = "opening"
           /\ UNCHANGED <<lookup, lru, recency>>
     /\ UNCHANGED <<world, datasets, num_open, open, retries>>

\* Mutants: 2^n is not capped, or the failure is counted afterwards.
Wait_Uncapped(n) == 2 ^ n
Wait_OneLess(n) == IF 2 ^ (n - 1) > RetryCeiling THEN RetryCeiling ELSE 2 ^ (n - 1)

\* How long to leave a file alone after its n-th failure in a row.
Wait(n) ==
  IF n >= 31 THEN RetryCeiling
  ELSE IF 2 ^ n > RetryCeiling THEN RetryCeiling ELSE 2 ^ n

\* GDALOpen() and the rest of datasetLoad() succeed.
OpenSucceeds ==
  LET f == datasets[at]
  IN /\ pc = "opening"
     /\ usable[f]
     /\ fail_count' = [fail_count EXCEPT ![f] = 0]
     /\ next_retry' = [next_retry EXCEPT ![f] = 0]
     /\ since' = [since EXCEPT ![f] = 0]
     /\ NoteOpened(f) /\ Use(f)
     /\ pc' = "reading"
     /\ started' = 0
     /\ UNCHANGED <<world, datasets, lookup>>

\* History: f fails.
Fail(f) == since' = IF fail_count[f] = 0 THEN [since EXCEPT ![f] = started] ELSE since

\* Mutant: a file that opens but cannot be used keeps its handle.
OpenFails_HalfBuilt ==
  LET f == datasets[at]
  IN /\ pc = "opening"
     /\ ~usable[f]
     /\ open' = [open EXCEPT ![f] = TRUE]
     /\ fail_count' = [fail_count EXCEPT ![f] = @ + 1]
     /\ next_retry' = [next_retry EXCEPT ![f] = started + Wait(fail_count[f] + 1)]
     /\ Fail(f)
     /\ Pass
     /\ started' = 0
     /\ UNCHANGED <<world, datasets, lru, num_open, recency>>

\* One of them fails: what was built is closed, and the backoff grows.
OpenFails ==
  LET f == datasets[at]
  IN /\ pc = "opening"
     /\ ~usable[f]
     /\ open' = [open EXCEPT ![f] = FALSE]
     /\ fail_count' = [fail_count EXCEPT ![f] = @ + 1]
     /\ next_retry' = [next_retry EXCEPT ![f] = started + Wait(fail_count[f] + 1)]
     /\ Fail(f)
     /\ Pass
     /\ started' = 0
     /\ UNCHANGED <<world, datasets, lru, num_open, recency>>

\* DatasetGetAltitude(): a handle, a value in the file, and the means to read it.
Read ==
  LET f == datasets[at]
  IN /\ pc = "reading"
     /\ IF open[f] /\ ground[f] = "value" /\ usable[f] THEN End(f) ELSE Pass
     /\ UNCHANGED <<world, datasets, opened, retries, started>>

-----------------------------------------------------------------------------
Next ==
  \/ Tick \/ StepBack \/ \E f \in Files : Turn(f)
  \/ LoadIndexed \/ LoadEager \/ LeaveOut \/ Serve
  \/ Begin \/ Consult \/ OpenSucceeds \/ OpenFails \/ Read

Spec == Init /\ [][Next]_vars

-----------------------------------------------------------------------------
(* Properties.                                                             *)

TypeOK ==
  /\ now \in Nat
  /\ usable \in [Files -> BOOLEAN]
  /\ datasets \in Seq(Files)
  /\ lru \in Seq(Files)
  /\ num_open \in Nat
  /\ open \in [Files -> BOOLEAN]
  /\ fail_count \in [Files -> Nat]
  /\ next_retry \in [Files -> Int]
  /\ pc \in {"loading", "idle", "consult", "opening", "reading"}
  /\ at \in Nat
  /\ pc \in {"consult", "opening", "reading"} => at \in 1 .. Len(datasets)
  /\ ground \in [Files -> Grounds]
  /\ answer \in Files \cup {NoFile}
  /\ started \in Nat
  /\ recency \in Seq(Files)
  /\ since \in [Files -> Nat]

OpenOnes == {f \in Files : open[f]}

\* The list of open datasets, the context's count of them and their handles agree,
\* so no handle is held that nothing would ever close, and no closed dataset
\* takes a slot; what is open is not backing off (contextNoteOpened() and
\* DatasetClose(), which DatasetOpen() and the eviction both call).
HandlesTracked ==
  /\ OpenOnes = Range(lru)
  /\ IsInjective(lru)
  /\ num_open = Len(lru)
  /\ OpenOnes \subseteq Range(datasets)
  /\ pc = "opening" => ~open[datasets[at]]
  /\ pc = "reading" => open[datasets[at]]
  /\ \A f \in OpenOnes : fail_count[f] = 0

\* No more files stay open than -n allows, through loading, evictions, failures
\* and reopenings alike (contextNoteOpened()).
CapHeld == MaxOpen > 0 => Cardinality(OpenOnes) <= MaxOpen

\* What stays open is what was used last: "closing the least recently used beyond
\* that" (README.md:203).  Without a cap, nothing that was used is closed.
KeepsMostRecent ==
  IF MaxOpen > 0 /\ Len(recency) > MaxOpen
  THEN OpenOnes = Range(SubSeq(recency, 1, MaxOpen))
  ELSE OpenOnes = Range(recency)

\* "A transient failure heals within the ceiling" (dataset.cpp:45): whatever the
\* failures so far, a file is tried again at most RetryCeiling seconds from now.
HealsWithinCeiling ==
  \A f \in Files : fail_count[f] > 0 => next_retry[f] <= now + RetryCeiling

\* What the n-th failure in a row has to be waited for, in seconds, and what the
\* first n of them come to.
Owed(n) == IF 2 ^ n < RetryCeiling THEN 2 ^ n ELSE RetryCeiling
BackoffSum[n \in Nat] == IF n = 0 THEN 0 ELSE BackoffSum[n - 1] + Owed(n)

\* The back-off adds up: since the first of n failures in a row was begun, at least
\* the waits between them have passed, and the next attempt is one wait further,
\* although `now` is read before GDALOpen() and is old by the time it fails, and
\* however many failures and successes came before (DatasetOpen()).
ProbesSpaced ==
  \A f \in Files : fail_count[f] > 0 =>
    /\ now >= since[f] + BackoffSum[fail_count[f] - 1]
    /\ next_retry[f] >= since[f] + BackoffSum[fail_count[f]]

\* The lookup goes past the dataset whose turn it is.
PassedOver(f) ==
  /\ pc \in {"consult", "opening", "reading"}
  /\ f = datasets[at]
  /\ at' # at
  /\ answer' = NoFile

\* Precedence is only ever given up for a reason: a dataset that has a value at
\* the point is passed over only while its file is unusable or backing off, and
\* never because of what the cache of open files did meanwhile
\* (ContextGetAltitudeFrom() and contextConsult()).
NeverPassedOver ==
  [][\A f \in Files :
       PassedOver(f) => ground[f] # "value" \/ ~usable[f] \/ (~open[f] /\ BackingOff(f))]_vars
=============================================================================
