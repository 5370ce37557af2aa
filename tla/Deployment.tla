------------------------------ MODULE Deployment ------------------------------
(***************************************************************************)
(* From sources to answers: `demd -w` makes an index of a list of sources, *)
(* `demd -W` compares one with a list, a daemon loads its datasets from an *)
(* index or from the sources themselves and looks points up in them, by    *)
(* way of the grid.  How an index gets into its file is in IndexFile, how  *)
(* a context opens files in OpenFiles.                                     *)
(***************************************************************************)
EXTENDS LookupGrid

CONSTANTS
  Paths,         \* names of files: numbers, in alphabetical order
  Local,         \* those of them that stat(2) finds; a URL or a /vsi name is not
  IndexName,     \* "demd.index", or whatever the index is called
  Rewritten,     \* Rewritten[p]: what PathToVSI() makes of the name
  Resolved,      \* Resolved[p]: what indexResolve() makes of it
  Unreadable,    \* in place of a raster that cannot be loaded
  RequestSRS,    \* the -s of the daemon and of the tools
  Settings,      \* what to start from: [rasters, index, srs, inputs]
  Replacements,  \* the rasters a source may turn into
  MaxChanges,    \* bound: how often a source changes
  NoIndex, Nobody, Nothing

\* An argument is the set of the files it names: one file, or those of a directory,
\* which are on this machine.  Lines come from stdin.
Argument ==
  {files \in SUBSET (Paths \cup {IndexName}) :
     /\ IsFiniteSet(files)
     /\ files \subseteq Local \cup {IndexName} \/ \E p \in Paths : files = {p}}
Input == [lines : Seq(Paths), arguments : Seq(Argument)]

Entry == [path : Paths, box : Box]

ASSUME DeploymentAssumption ==
  /\ Paths \subseteq Nat /\ Local \subseteq Paths /\ IndexName \notin Paths
  /\ Rewritten \in [Paths -> Paths] /\ Resolved \in [Paths -> Paths]
  /\ Unreadable \notin RasterShape
  /\ Nobody \notin Input /\ Nothing \notin Nat
  /\ MaxChanges \in Nat
  /\ Settings \subseteq [ rasters : [Paths -> Raster \cup {Unreadable}],
                           index : Seq(Entry) \cup {NoIndex},
                           srs : STRING,
                           inputs : SUBSET Input ]
  /\ Replacements \subseteq Raster \cup {Unreadable}

VARIABLES
  rasters,   \* rasters[p]: the file of that name
  index,     \* the index: a sequence of entries
  srs,       \* its #srs: the -s it was made with
  inputs,    \* the command lines that the tools and the daemon may be given
  changes,   \* how many times a file has changed
  fresh,     \* what the index was made from, while nothing has changed
  verified,  \* what the index was last found to agree with, likewise
  running,   \* the command line of the daemon, or Nobody
  served,    \* its datasets, in order of precedence, each with its layer
  answer     \* the dataset that answers the point, by its number

tools == <<rasters, index, srs, inputs, changes>>
history == <<fresh, verified>>
daemon == <<running, served>>
vars == <<tools, history, daemon, answer, gridVars>>

Init ==
  /\ \E s \in Settings :
       rasters = s.rasters /\ index = s.index /\ srs = s.srs /\ inputs = s.inputs
  /\ changes = 0
  /\ fresh = Nobody /\ verified = Nobody
  /\ running = Nobody /\ served = <<>>
  /\ boxes = <<>> /\ grid = NoGrid /\ NoCursor
  /\ answer = Nothing

Readable(p) == rasters[p] # Unreadable

-----------------------------------------------------------------------------
(* Lists of sources.                                                       *)

\* PathListDEMs(), or the one file.  An index has neither of the suffixes.
ListDEMs(argument) == Ascending(argument \ {IndexName})

Listed(arguments) == FlattenSeq([k \in DOMAIN arguments |-> ListDEMs(arguments[k])])

\* collectSources(): the lines first.
CollectSources(input) ==
  LET all == input.lines \o Listed(input.arguments)
  IN [i \in DOMAIN all |-> Rewritten[all[i]]]

\* The tools would take an index for a raster, and fail.
ToolInputs == {input \in inputs : {IndexName} \notin Range(input.arguments)}

\* The environment replaces or spoils a source.  What open files make of that is in
\* OpenFiles: no daemon runs meanwhile.
Change ==
  /\ running = Nobody
  /\ changes < MaxChanges /\ changes' = changes + 1
  /\ \E input \in ToolInputs, r \in Replacements :
       \E p \in Range(CollectSources(input)) :
         rasters[p] # r /\ rasters' = [rasters EXCEPT ![p] = r]
  /\ fresh' = Nobody /\ verified' = Nobody
  /\ UNCHANGED <<index, srs, inputs, daemon, answer, gridVars>>

\* DatasetCreate(), for a file that is readable, and what an index has of it.
Bounds(p) == ComputeBounds(rasters[p])

\* Mutant: top and bottom change places.
EntryOf_Swapped(p) ==
  [path |-> p, box |-> [Bounds(p) EXCEPT !.top = Bounds(p).bottom, !.bottom = Bounds(p).top]]

EntryOf(p) == [path |-> p, box |-> Bounds(p)]

-----------------------------------------------------------------------------
(* demd -w and demd -W.                                                    *)

\* IndexGenerate(): one source that cannot be read is enough to fail.
IndexGenerate ==
  \E input \in ToolInputs :
    LET paths == CollectSources(input)
    IN /\ running = Nobody
       /\ paths # <<>> /\ \A i \in DOMAIN paths : Readable(paths[i])
       /\ index' = [i \in DOMAIN paths |-> EntryOf(paths[i])]
       /\ srs' = RequestSRS
       /\ fresh' = input /\ verified' = Nobody
       /\ UNCHANGED <<rasters, inputs, changes, daemon, answer, gridVars>>

\* indexParseEntry() refuses a box that is turned inside out.
Plausible(b) == b.bottom <= b.top /\ b.left <= b.right

Accepted(entries) == \A i \in DOMAIN entries : Plausible(entries[i].box)

\* IndexRead(), of an index that is accepted.
IndexRead(entries) ==
  [i \in DOMAIN entries |-> [entries[i] EXCEPT !.path = Resolved[@]]]

PathsIn(entries) == [i \in DOMAIN entries |-> entries[i].path]

\* The first entry for a path.
FirstFor(entries, p) == Min({j \in DOMAIN entries : entries[j].path = p})

\* Mutant: membership is all that is compared.
Agrees_Unordered(entries, paths) == Range(paths) = Range(PathsIn(entries))

\* Membership both ways, then the order when there are as many of each.
Agrees(entries, paths) ==
  /\ Range(paths) = Range(PathsIn(entries))
  /\ Len(paths) = Len(entries) => paths = PathsIn(entries)

\* IndexVerify() returns 0.  It does not look at #srs.
Verifies(paths) ==
  LET entries == IndexRead(index)
  IN /\ Accepted(index)
     /\ Agrees(entries, paths)
     /\ \A i \in DOMAIN paths :
          /\ Readable(paths[i])
          /\ entries[FirstFor(entries, paths[i])].box = Bounds(paths[i])

IndexVerify ==
  \E input \in ToolInputs :
    LET paths == CollectSources(input)
    IN /\ running = Nobody
       /\ index # NoIndex /\ paths # <<>>
       /\ verified' = IF Verifies(paths) THEN input ELSE Nobody
       /\ UNCHANGED <<tools, fresh, daemon, answer, gridVars>>

-----------------------------------------------------------------------------
(* The daemon.                                                             *)

\* contextAddDataset(), of what can be read.
Opened(paths) ==
  LET readable == Ascending({i \in DOMAIN paths : Readable(paths[i])})
  IN [k \in DOMAIN readable |-> EntryOf(paths[readable[k]])]

\* PathExists(), of an argument.
PathExists(argument) == argument \ {IndexName} \subseteq Local

HoldsIndex(argument) == IndexName \in argument /\ index # NoIndex

\* contextAddIndex() takes an index that is well formed and was made with its own -s.
Usable == Accepted(index) /\ srs = RequestSRS

\* contextAddPath(): an argument that is not there contributes nothing, nor does one
\* whose index is refused.
Contributes(argument) ==
  CASE ~PathExists(argument) -> <<>>
    [] PathExists(argument) /\ HoldsIndex(argument) -> IF Usable THEN IndexRead(index) ELSE <<>>
    [] OTHER -> Opened(ListDEMs(argument))

\* All that the k-th argument contributes is of one layer.
AddPath(arguments, k) ==
  LET entries == Contributes(arguments[k])
  IN [i \in DOMAIN entries |-> [path |-> entries[i].path, box |-> entries[i].box, src |-> k]]

\* Mutant: indexes first, as nothing has to be opened for them.
Loaded_IndexesFirst(arguments) ==
  LET indexed == {k \in DOMAIN arguments : IndexName \in arguments[k]}
      order == Ascending(indexed) \o Ascending(DOMAIN arguments \ indexed)
  IN FlattenSeq([n \in DOMAIN order |-> AddPath(arguments, order[n])])

\* ContextCreate(): the arguments in their order.
Loaded(arguments) == FlattenSeq([k \in DOMAIN arguments |-> AddPath(arguments, k)])

\* main() refuses to serve nothing.  Once a daemon runs, the tools are done.
Serve ==
  \E input \in inputs :
    LET datasets == Loaded(input.arguments)
    IN /\ running = Nobody
       /\ input.lines = <<>> /\ datasets # <<>>
       /\ running' = input
       /\ served' = datasets
       /\ BuildGrid([i \in DOMAIN datasets |-> datasets[i].box])
       /\ fresh' = Nobody /\ verified' = Nobody
       /\ UNCHANGED <<tools, answer>>

\* contextConsult(): the box first, then the raster.
Consult(i) ==
  /\ DatasetContains(BoxOf(boxes, i), point)
  /\ Readable(BoxOf(served, i).path)
  /\ HasValue(rasters[BoxOf(served, i).path], point)

Exhausted == cell = <<>> /\ wide = <<>>

Begin == running # Nobody /\ GridBegin /\ UNCHANGED <<tools, history, daemon, answer>>

\* ContextGetAltitudeFrom(): the first candidate with a value has it.
TryNext ==
  /\ point # NoPlace /\ answer = Nothing
  /\ GridNext
  /\ answer' = IF Consult(Last(given')) THEN Last(given') ELSE Nothing
  /\ UNCHANGED <<tools, history, daemon>>

Answered == point # NoPlace /\ (answer # Nothing \/ Exhausted)

End ==
  /\ Answered
  /\ Return
  /\ answer' = Nothing
  /\ UNCHANGED <<tools, history, daemon>>

Next ==
  \/ Change \/ IndexGenerate \/ IndexVerify \/ Serve
  \/ Begin \/ TryNext \/ End

Spec == Init /\ [][Next]_vars

-----------------------------------------------------------------------------
(* Properties.                                                             *)

TypeOK ==
  /\ GridTypeOK
  /\ Len(served) = Len(boxes)
  /\ \A i \in DOMAIN served :
       served[i].path \in Paths /\ served[i].src \in DOMAIN running.arguments
  /\ index # NoIndex => \A i \in DOMAIN index : index[i].path \in Paths
  /\ {fresh, verified, running} \subseteq inputs \cup {Nobody}
  /\ answer \in Numbers(served) \cup {Nothing}

HasValueAt(p) == Readable(p) /\ HasValue(rasters[p], point)

\* No raster was replaced since its bounds were taken, and each is north-up.
Current ==
  \A i \in Numbers(served) :
    LET p == BoxOf(served, i).path
    IN Readable(p) => NorthUp(rasters[p]) /\ BoxOf(boxes, i) = Bounds(p)

\* Neither the grid nor the boxes decide an answer: it comes from the first dataset in
\* order of precedence that has a value at the point, whether the dataset was opened
\* at startup or is known from an index, as long as the index is not stale and rasters
\* are north-up ("Bounds only gate a fast path", index.cpp:196; grid, cursor, bounds
\* and pixel arithmetic together).
AnswersFromRasters ==
  LET having == {i \in Numbers(served) : HasValueAt(BoxOf(served, i).path)}
  IN Answered /\ Current => answer = IF having = {} THEN Nothing ELSE Min(having)

\* The files behind an argument: those of the index it is or holds, wherever they are,
\* unless its boxes mean something else (README.md:167), or its own that are on this
\* machine.
FilesOf(argument) ==
  IF HoldsIndex(argument)
  THEN IF Accepted(index) /\ srs = RequestSRS THEN Range(PathsIn(IndexRead(index))) ELSE {}
  ELSE argument \cap Local

\* README.md:108, "Each path argument is a layer, tried in the order given; a point takes
\* its value from the first layer that has one there": the layer that is reported is
\* the first argument with a value in any of its files, be they listed, scanned or
\* indexed.
AnswersFromFirstLayer ==
  LET arguments == running.arguments
      layers == {k \in DOMAIN arguments : \E p \in FilesOf(arguments[k]) : HasValueAt(p)}
  IN Answered /\ Current =>
       IF layers = {} THEN answer = Nothing
       ELSE answer # Nothing /\ BoxOf(served, answer).src = Min(layers)

\* What a daemon loads, in order of precedence, whatever the layers are called.
Datasets(arguments) ==
  LET loaded == Loaded(arguments)
  IN [i \in DOMAIN loaded |-> [path |-> loaded[i].path, box |-> loaded[i].box]]

\* The arguments as they were before an index was put beside the files.
Bare(arguments) == [k \in DOMAIN arguments |-> arguments[k] \ {IndexName}]

\* A daemon can be given the sources themselves: they are arguments that it finds, under
\* the names that the tools use.
Servable(input) ==
  /\ input.lines = <<>>
  /\ \A k \in DOMAIN input.arguments :
       /\ PathExists(input.arguments[k])
       /\ \A p \in input.arguments[k] \ {IndexName} : Rewritten[p] = p

NamedOnce(input) == IsInjective(CollectSources(input)) /\ IsInjective(PathsIn(IndexRead(index)))

\* What a deploy may rely on after -W: a daemon over the index has the datasets, bounds
\* and precedence that the sources have now, and that a daemon over the sources would
\* have, if they are such that it can be given them; when no source is named twice, under
\* one name or under two (README.md:154), and -s is the daemon's.  In particular
\* directories are listed alike for the index and for the daemon (main.cpp:350).
VerifiedIndexIsSources ==
  verified # Nobody /\ NamedOnce(verified) /\ srs = RequestSRS =>
    LET indexed == Datasets(<<{IndexName}>>)
    IN /\ indexed = Opened(CollectSources(verified))
       /\ Servable(verified) => indexed = Datasets(Bare(verified.arguments))

\* README.md:154, "reports anything added, removed, reordered, or with changed bounds; it
\* exits nonzero when they disagree": what has passed has the paths of the sources, the
\* same boxes, and the same one of any two first.
EveryDifferenceReported ==
  verified # Nobody =>
    LET read == IndexRead(index)
        sources == Opened(CollectSources(verified))
        first(entries, p, q) == FirstFor(entries, p) < FirstFor(entries, q)
    IN /\ Range(read) = Range(sources)
       /\ \A p, q \in Range(PathsIn(read)) : first(read, p, q) = first(sources, p, q)

\* The gate lets through what has just been made: absolute names, north-up rasters, and
\* nothing changed since (the numbers read back as they were written).
FreshIndexVerifies ==
  fresh # Nobody =>
    LET paths == CollectSources(fresh)
    IN (\A i \in DOMAIN paths : Resolved[paths[i]] = paths[i] /\ NorthUp(rasters[paths[i]]))
         => Verifies(paths)
===============================================================================
