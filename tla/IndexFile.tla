------------------------------- MODULE IndexFile -------------------------------
(***************************************************************************)
(* An index on disk: runs of `demd -w` that publish it, and a daemon that  *)
(* starts and reads it, on one file system.  A file is a sequence of       *)
(* pieces: the header, and each entry's line in two halves, since stdio    *)
(* writes whole buffers, which end anywhere in a line.  Processes are      *)
(* killed, the power fails, and the disk may be full for a while.          *)
(***************************************************************************)
EXTENDS Integers, FiniteSets, Sequences

CONSTANTS
  Generators,   \* runs of IndexGenerate(), all with the same target
  Old,          \* the run that published what is there at first
  Count,        \* Count[g]: how many sources g is given
  TmpName,      \* TmpName[g]: "<target>.tmp.<pid>"
  Target,       \* the target's name
  NoInode       \* what a name that is not there names

Writers == Generators \cup {Old}
Names == {Target} \cup {TmpName[g] : g \in Generators}

ASSUME IndexFileAssumption ==
  /\ Old \notin Generators
  /\ Count \in [Writers -> Nat]
  /\ DOMAIN TmpName = Generators
  /\ Target \notin {TmpName[g] : g \in Generators}
  /\ NoInode \notin Writers

VARIABLES
  \* The file system.  An inode is named after the run that created it.
  data,       \* data[i]: the pieces in it
  synced,     \* synced[i]: how many of them are known to be on disk
  names,      \* names[n]: the inode that the name n stands for
  were,       \* the inodes the target's name stood for, none of them for certain
  power,      \* whether the power is still to fail: it does so once at most, a bound on the model
  full,       \* whether the disk has ever been too full for a buffer
  \* The generators.
  pc, fd, pos,
  made,       \* made[g]: how many pieces g has handed to stdio
  buf,        \* buf[g]: those stdio has not written
  \* The daemon.
  reader,     \* what it is doing
  in,         \* the inode it reads
  taken       \* the pieces it has read

disk == <<data, synced, names, were, power, full>>
generators == <<pc, fd, pos, made, buf>>
daemon == <<reader, in, taken>>
vars == <<disk, generators, daemon>>

-----------------------------------------------------------------------------
(* What an index looks like.                                               *)

Piece == [of : Writers, line : Nat, half : {1, 2}]
\* A gap in a file that was written to past its end.
Hole == [of |-> Old, line |-> 0, half |-> 1]

Header(g) == [of |-> g, line |-> 0, half |-> 2]

\* The index that g is to write: the header, whose #count is Count[g], and the
\* entries in order.
Whole(g) ==
  [k \in 1 .. 2 * Count[g] + 1 |->
     IF k = 1 THEN Header(g) ELSE [of |-> g, line |-> k \div 2, half |-> 1 + (k % 2)]]

Init ==
  /\ data = [i \in Writers |-> IF i = Old THEN Whole(Old) ELSE <<>>]
  /\ synced = [i \in Writers |-> Len(data[i])]
  /\ names = [n \in Names |-> IF n = Target THEN Old ELSE NoInode]
  /\ were = {Old}
  /\ power = TRUE
  /\ full = FALSE
  /\ pc = [g \in Generators |-> "start"]
  /\ fd = [g \in Generators |-> NoInode]
  /\ pos = [g \in Generators |-> 0]
  /\ made = [g \in Generators |-> 0]
  /\ buf = [g \in Generators |-> <<>>]
  /\ reader = "start"
  /\ in = NoInode
  /\ taken = <<>>

-----------------------------------------------------------------------------
(* IndexGenerate().                                                        *)

\* write() of the pieces s at offset `at` of a file.
Written(file, at, s) ==
  [k \in 1 .. (IF at + Len(s) > Len(file) THEN at + Len(s) ELSE Len(file)) |->
     IF k > at /\ k <= at + Len(s) THEN s[k - at]
     ELSE IF k <= Len(file) THEN file[k]
     ELSE Hole]

\* stdio writes its buffer out, to wherever the file is by now; or, the disk being
\* full, it drops the buffer and says so to a caller who may not ask.
BufferWritten(g) ==
  /\ data' = [data EXCEPT ![fd[g]] = Written(@, pos[g], buf[g])]
  /\ pos' = [pos EXCEPT ![g] = @ + Len(buf[g])]
  /\ buf' = [buf EXCEPT ![g] = <<>>]
  /\ UNCHANGED full
BufferDropped(g) ==
  /\ buf[g] # <<>>
  /\ buf' = [buf EXCEPT ![g] = <<>>]
  /\ full' = TRUE
  /\ UNCHANGED <<data, pos>>

\* Mutant: the index is written in place.
Open_InPlace(g) ==
  /\ pc[g] = "start"
  /\ pc' = [pc EXCEPT ![g] = "writing"]
  /\ fd' = [fd EXCEPT ![g] = names[Target]]
  /\ names' = [names EXCEPT ![TmpName[g]] = names[Target]]
  /\ data' = [data EXCEPT ![names[Target]] = <<>>]
  /\ synced' = [synced EXCEPT ![names[Target]] = 0]
  /\ UNCHANGED <<were, power, full, pos, made, buf, daemon>>

\* fopen(tmp, "w"): a file of that name is truncated, or a new one is made.
Open(g) ==
  LET there == names[TmpName[g]]
      file == IF there = NoInode THEN g ELSE there
  IN /\ pc[g] = "start"
     /\ pc' = [pc EXCEPT ![g] = "writing"]
     /\ fd' = [fd EXCEPT ![g] = file]
     /\ names' = [names EXCEPT ![TmpName[g]] = file]
     /\ data' = [data EXCEPT ![file] = <<>>]
     /\ synced' = [synced EXCEPT ![file] = 0]
     /\ UNCHANGED <<were, power, full, pos, made, buf, daemon>>

\* Mutant: what fopen() returns is not looked at.
OpenFails_Ignored(g) ==
  /\ pc[g] = "start"
  /\ pc' = [pc EXCEPT ![g] = "writing"]
  /\ UNCHANGED <<disk, fd, pos, made, buf, daemon>>

\* fopen() fails: return 1.
OpenFails(g) ==
  /\ pc[g] = "start"
  /\ pc' = [pc EXCEPT ![g] = "failed"]
  /\ UNCHANGED <<disk, fd, pos, made, buf, daemon>>

\* fprintf() of the header, or of half the line of a source that could be read.
Put(g) ==
  /\ pc[g] = "writing"
  /\ made[g] < Len(Whole(g))
  /\ made' = [made EXCEPT ![g] = @ + 1]
  /\ buf' = [buf EXCEPT ![g] = Append(@, Whole(g)[made[g] + 1])]
  /\ UNCHANGED <<disk, pc, fd, pos, daemon>>

\* The buffer is full.  It holds a line's end at least, and is written or
\* dropped as a whole, for it fills whole blocks.  Nobody looks at what
\* fprintf() returns.
WriteOut(g) ==
  /\ pc[g] = "writing"
  /\ Len(buf[g]) >= 2
  /\ BufferWritten(g) \/ BufferDropped(g)
  /\ UNCHANGED <<synced, names, were, power, pc, fd, made, daemon>>

\* Mutant: the temporary is forgotten.
Unlink_Forgotten(g) == UNCHANGED names

\* unlink(tmp), of whatever has that name by now.
Unlink(g) == names' = [names EXCEPT ![TmpName[g]] = NoInode]

\* A source cannot be read, or its path has a newline in it: fclose(), which
\* writes the buffer, and unlink().
Abandon(g) ==
  /\ pc[g] = "writing"
  /\ made[g] % 2 = 1 /\ made[g] < Len(Whole(g))
  /\ BufferWritten(g) \/ BufferDropped(g)
  /\ Unlink(g)
  /\ pc' = [pc EXCEPT ![g] = "failed"]
  /\ UNCHANGED <<synced, were, power, fd, made, daemon>>

\* fflush() succeeds.
Flush(g) ==
  /\ pc[g] = "writing"
  /\ made[g] = Len(Whole(g))
  /\ BufferWritten(g)
  /\ pc' = [pc EXCEPT ![g] = "flushed"]
  /\ UNCHANGED <<synced, names, were, power, fd, made, daemon>>

\* Mutant: no fsync().
Sync_Skipped(g) ==
  /\ pc[g] = "flushed"
  /\ pc' = [pc EXCEPT ![g] = "synced"]
  /\ UNCHANGED <<disk, fd, pos, made, buf, daemon>>

\* fsync() succeeds.
Sync(g) ==
  /\ pc[g] = "flushed"
  /\ pc' = [pc EXCEPT ![g] = "synced"]
  /\ synced' = [synced EXCEPT ![fd[g]] = Len(data[fd[g]])]
  /\ UNCHANGED <<data, names, were, power, full, fd, pos, made, buf, daemon>>

\* fclose() has nothing left to write.
Close(g) ==
  /\ pc[g] = "synced"
  /\ pc' = [pc EXCEPT ![g] = "closed"]
  /\ UNCHANGED <<disk, fd, pos, made, buf, daemon>>

\* rename() puts the temporary in the target's place: return 0.
Publish(g) ==
  /\ pc[g] = "closed"
  /\ names[TmpName[g]] # NoInode
  /\ names' = [names EXCEPT ![Target] = names[TmpName[g]], ![TmpName[g]] = NoInode]
  /\ were' = were \cup {names[TmpName[g]]}
  /\ pc' = [pc EXCEPT ![g] = "published"]
  /\ UNCHANGED <<data, synced, power, full, fd, pos, made, buf, daemon>>

\* fflush() when there is something to write, fsync(), fclose() or rename() fails:
\* what is in the buffer is gone, so is the temporary, return 1.
Fail(g) ==
  /\ \/ pc[g] = "writing" /\ made[g] = Len(Whole(g)) /\ buf[g] # <<>>
     \/ pc[g] \in {"flushed", "synced", "closed"}
  /\ Unlink(g)
  /\ buf' = [buf EXCEPT ![g] = <<>>]
  /\ pc' = [pc EXCEPT ![g] = "failed"]
  /\ UNCHANGED <<data, synced, were, power, full, fd, pos, made, daemon>>

-----------------------------------------------------------------------------
(* Crashes.                                                                *)

Running == {"start", "writing", "flushed", "synced", "closed"}

Longest == CHOOSE n \in {Len(data[i]) : i \in Writers} : \A i \in Writers : Len(data[i]) <= n

\* A generator is killed: a job that takes too long.
Kill(g) ==
  /\ pc[g] \in Running
  /\ pc' = [pc EXCEPT ![g] = "dead"]
  /\ buf' = [buf EXCEPT ![g] = <<>>]
  /\ UNCHANGED <<disk, fd, pos, made, daemon>>

\* The power fails.  Of each file, what fsync() was called for is there again, and
\* some of what follows; what was done to the names since may not have reached the
\* disk, but no rename() is half done.  The runs that had not begun still may.
PowerFails ==
  /\ power
  /\ power' = FALSE
  /\ \E kept \in [Writers -> 0 .. Longest] :
       /\ \A i \in Writers : synced[i] <= kept[i] /\ kept[i] <= Len(data[i])
       /\ data' = [i \in Writers |-> SubSeq(data[i], 1, kept[i])]
       /\ synced' = kept
  /\ \E back \in [Names -> Writers \cup {NoInode}] :
       /\ back[Target] \in were
       /\ \A n \in Names \ {Target} :
            /\ back[n] \in {names[n], NoInode} \cup {fd[g] : g \in {h \in Generators : TmpName[h] = n}}
            /\ back[n] # back[Target]
       /\ names' = back
       /\ were' = {back[Target]}
  /\ pc' = [g \in Generators |-> IF pc[g] \in Running \ {"start"} THEN "dead" ELSE pc[g]]
  /\ buf' = [g \in Generators |-> <<>>]
  /\ reader' = "start" /\ in' = NoInode /\ taken' = <<>>
  /\ UNCHANGED <<full, fd, pos, made>>

-----------------------------------------------------------------------------
(* The daemon: contextAddPath() and IndexRead().                           *)

\* IndexLooksLikeIndex(): without the magic, the path is something else.
Sniff ==
  /\ reader = "start"
  /\ LET file == data[names[Target]]
     IN reader' = IF file # <<>> /\ \E g \in Writers : file[1] = Header(g)
                  THEN "open" ELSE "scan"
  /\ UNCHANGED <<disk, generators, in, taken>>

\* IndexRead() opens what has the name by now.
OpenIndex ==
  /\ reader = "open"
  /\ reader' = "reading"
  /\ in' = names[Target]
  /\ UNCHANGED <<disk, generators, taken>>

\* getline(), while others may be writing.
ReadOn ==
  /\ reader = "reading"
  /\ Len(taken) < Len(data[in])
  /\ taken' = Append(taken, data[in][Len(taken) + 1])
  /\ UNCHANGED <<disk, generators, reader, in>>

\* The header's #count, or -1 when there is none; the last one counts.
Declared(s) ==
  LET heads == {k \in DOMAIN s : \E g \in Writers : s[k] = Header(g)}
      last == CHOOSE k \in heads : \A h \in heads : h <= k
  IN IF heads = {} THEN -1 ELSE Count[s[last].of]

\* Whether the piece s[k] ends a line: it has the newline, or the file ends with it.
EndsLine(s, k) == s[k].line > 0 /\ (s[k].half = 2 \/ k = Len(s))
Entries(s) == Cardinality({k \in DOMAIN s : EndsLine(s, k)})

\* A piece that is beside the other half of its line, where that belongs.
Joined(s, k) ==
  LET other == IF s[k].half = 1 THEN k + 1 ELSE k - 1
  IN /\ other \in DOMAIN s
     /\ s[other] = [of |-> s[k].of, line |-> s[k].line, half |-> 3 - s[k].half]

\* A line that is not as it was written: its halves are not of the same line.
Torn(s) == ~ \A k \in DOMAIN s : s[k].line > 0 => Joined(s, k)

\* Mutant: the entries are not counted.
Complete_NotCounted(s) ==
  s # <<>> /\ (\E g \in Writers : s[1] = Header(g)) /\ \A k \in DOMAIN s : s[k] # Hole

\* The checks that do not depend on what a line looks like: the magic comes first,
\* nothing is a gap, and there are as many entries as declared.
Complete(s) ==
  /\ s # <<>> /\ \E g \in Writers : s[1] = Header(g)
  /\ \A k \in DOMAIN s : s[k] # Hole
  /\ Declared(s) = Entries(s)

\* The end of the file.  Two halves that do not belong together may look like an
\* entry, or not (indexParseEntry()).
Judge ==
  /\ reader = "reading"
  /\ Len(taken) >= Len(data[in])
  /\ \/ Complete(taken) /\ reader' = "accepted"
     \/ (Torn(taken) \/ ~Complete(taken)) /\ reader' = "refused"
  /\ UNCHANGED <<disk, generators, in, taken>>

\* The daemon is started again.
Restart ==
  /\ reader \in {"accepted", "refused", "scan"}
  /\ reader' = "start" /\ in' = NoInode /\ taken' = <<>>
  /\ UNCHANGED <<disk, generators>>

-----------------------------------------------------------------------------
Generate(g) ==
  \/ Open(g) \/ OpenFails(g) \/ Put(g) \/ WriteOut(g) \/ Abandon(g) \/ Flush(g)
  \/ Sync(g) \/ Close(g) \/ Publish(g) \/ Fail(g)

Load == Sniff \/ OpenIndex \/ ReadOn \/ Judge \/ Restart

Next ==
  \/ \E g \in Generators : Generate(g) \/ Kill(g)
  \/ PowerFails
  \/ Load

Spec == Init /\ [][Next]_vars

-----------------------------------------------------------------------------
(* Properties.                                                             *)

TypeOK ==
  /\ data \in [Writers -> Seq(Piece \cup {Hole})]
  /\ synced \in [Writers -> Nat]
  /\ names \in [Names -> Writers \cup {NoInode}]
  /\ names[Target] \in were /\ were \subseteq Writers
  /\ power \in BOOLEAN /\ full \in BOOLEAN
  /\ pc \in [Generators -> Running \cup {"published", "failed", "dead"}]
  /\ fd \in [Generators -> Writers \cup {NoInode}]
  /\ \A g \in Generators : pc[g] \in Running \ {"start"} => fd[g] # NoInode
  /\ pos \in [Generators -> Nat]
  /\ made \in [Generators -> Nat]
  /\ buf \in [Generators -> Seq(Piece)]
  /\ reader \in {"start", "open", "reading", "accepted", "refused", "scan"}
  /\ in \in Writers \cup {NoInode} /\ (reader = "reading" => in # NoInode)
  /\ taken \in Seq(Piece \cup {Hole})

\* What a daemon that starts now would read.
Published == data[names[Target]]

\* "Starting anyway would serve a silently smaller world" (index.h:30): whatever
\* happened to the generators, to the disk and to the power, what IndexRead()
\* accepts is all of one list of sources, in its order.
AcceptedIsWhole == reader = "accepted" => \E g \in Writers : taken = Whole(g)

\* "On any failure [...] the target is left exactly as it was" (index.h:37): nothing
\* a generator does before its rename() can be seen under the target's name, and
\* nothing a run that fails or is killed ever did.
UntouchedUnlessPublished ==
  [][Published' # Published =>
       (\E g \in Generators : pc[g] = "closed" /\ pc'[g] = "published") \/ power' # power]_vars

\* "Publishes the index atomically" (index.h:35): whatever the disk does, there is an
\* index under the target's name, the old one or one that was written in full.
PublishedIsWhole == \E g \in Writers : Published = Whole(g)

\* The same while the disk has had room for every buffer: killed runs, concurrent runs
\* and a power failure at any moment leave the old index or a whole new one.
WholeUnlessDiskFilled == full \/ PublishedIsWhole

\* A run that returns, whatever it returns, leaves no temporary behind (the test
\* "no temporary is left behind", run.py:603, has one of the ways to fail), unless
\* the power failed.
NoLitter ==
  power => \A g \in Generators : pc[g] \in {"published", "failed"} => names[TmpName[g]] = NoInode
=============================================================================
