--------------------------- MODULE IndexFile_proofs ---------------------------
(***************************************************************************)
(* Proofs about the file of an index, for any number of runs and lists of  *)
(* any length.  All but the types need that no two runs that have their    *)
(* files open have one name for them.  A run that comes later may have the *)
(* pid of an earlier one, and find what that one left when it was killed.  *)
(***************************************************************************)
EXTENDS IndexFile, FunctionTheorems, FiniteSetTheorems, SequenceTheorems, TLAPS

HasFile == {"writing", "flushed", "synced", "closed"}

\* No two processes of one machine that run at once have one pid.
Apart ==
  \A g, h \in Generators :
    TmpName[g] = TmpName[h] /\ pc[g] \in HasFile /\ pc[h] \in HasFile => g = h

\* No pid ever comes again.
OwnTemporaries == \A g, h \in Generators : TmpName[g] = TmpName[h] => g = h

-----------------------------------------------------------------------------
(* The inductive invariant.                                                *)

\* The place that a piece has in the whole index.
Rank(p) == 2 * p.line + p.half - 1

\* What of the first w pieces is not in s.
Lost(s, w) == {r \in 1 .. w : \A k \in DOMAIN s : Rank(s[k]) # r}

\* Some of the first w pieces of g's index, in order, when buffers were dropped:
\* what is lost is lost along with a neighbour.
Gappy(g, s, w) ==
  /\ \A k \in DOMAIN s : Rank(s[k]) \in 1 .. w /\ s[k] = Whole(g)[Rank(s[k])]
  /\ \A k, l \in DOMAIN s : k < l => Rank(s[k]) < Rank(s[l])
  /\ Lost(s, w) # {}
  /\ \A r \in Lost(s, w) : r - 1 \in Lost(s, w) \/ r + 1 \in Lost(s, w)

\* What g has left stdio's buffer.
Gone(g) == made[g] - Len(buf[g])

\* What g's file holds is all that has left the buffer, or has gaps.
FileInv(g) ==
  /\ Gone(g) \in Nat /\ made[g] <= Len(Whole(g))
  /\ buf[g] = SubSeq(Whole(g), Gone(g) + 1, made[g])
  /\ \/ data[fd[g]] = SubSeq(Whole(g), 1, Gone(g))
     \/ full /\ Gappy(g, data[fd[g]], Gone(g))

\* A file that g or an earlier run with g's pid made.
Owned(g, i) == i \in Generators /\ TmpName[i] = TmpName[g] /\ pc[i] # "start"
OwnedNext(g, i) == i \in Generators /\ TmpName[i] = TmpName[g] /\ pc'[i] # "start"

GeneratorInv(g) ==
  /\ fd[g] # NoInode => Owned(g, fd[g])
  /\ names[TmpName[g]] # NoInode =>
       Owned(g, names[TmpName[g]]) /\ names[TmpName[g]] \notin were
  /\ pc[g] = "start" => fd[g] = NoInode /\ pos[g] = 0 /\ made[g] = 0 /\ buf[g] = <<>>
  /\ pc[g] \in HasFile => fd[g] # NoInode /\ fd[g] = names[TmpName[g]] /\ FileInv(g)
  /\ pc[g] = "writing" => pos[g] = Len(data[fd[g]])
  /\ pc[g] \in HasFile /\ pc[g] # "writing" => made[g] = Len(Whole(g)) /\ buf[g] = <<>>
  /\ pc[g] \in {"synced", "closed"} => synced[fd[g]] = Len(data[fd[g]])

\* An index that is on disk to its end, or has gaps.
Finished(i) ==
  /\ synced[i] = Len(data[i])
  /\ \E g \in Writers : data[i] = Whole(g) \/ (full /\ Gappy(g, data[i], Len(Whole(g))))

\* What has the target's name, or had it, is finished.
TargetInv == \A i \in were : Finished(i) /\ (i # Old => pc[i] # "start")

\* A temporary is that of a run that has its file, or of one that was killed.
LitterInv ==
  power => \A g \in Generators : names[TmpName[g]] # NoInode =>
             \E h \in Generators : TmpName[h] = TmpName[g] /\ pc[h] \in HasFile \cup {"dead"}

ReaderInv ==
  /\ reader \in {"reading", "accepted", "refused"} =>
       /\ in \in were
       /\ Len(taken) <= Len(data[in]) /\ taken = SubSeq(data[in], 1, Len(taken))
  /\ reader \in {"start", "open"} => taken = <<>>
  /\ reader = "accepted" => taken = data[in] /\ Complete(taken)

IInv == (\A g \in Generators : GeneratorInv(g)) /\ TargetInv /\ LitterInv /\ ReaderInv

-----------------------------------------------------------------------------
(* Files and what is written to them.                                      *)

LEMMA WholeIsSeq ==
  ASSUME NEW g \in Writers
  PROVE  /\ Whole(g) \in Seq(Piece) /\ Len(Whole(g)) = 2 * Count[g] + 1
         /\ Count[g] \in Nat /\ Len(Whole(g)) \in Nat
         /\ \A k \in 1 .. Len(Whole(g)) :
              Whole(g)[k] = IF k = 1 THEN Header(g)
                            ELSE [of |-> g, line |-> k \div 2, half |-> 1 + (k % 2)]
<1> DEFINE n == 2 * Count[g] + 1
           piece(k) == IF k = 1 THEN Header(g)
                       ELSE [of |-> g, line |-> k \div 2, half |-> 1 + (k % 2)]
<1>1. Count[g] \in Nat /\ n \in Nat
  BY IndexFileAssumption
<1>2. \A k \in 1 .. n : piece(k) \in Piece
  <2> TAKE k \in 1 .. n
  <2>1. k \div 2 \in Nat /\ 1 + (k % 2) \in {1, 2}
    BY <1>1, SMT
  <2> QED
    BY <2>1 DEF Piece, Header
<1>3. Whole(g) = [k \in 1 .. n |-> piece(k)]
  BY DEF Whole
<1> HIDE DEF n, piece
<1>4. Whole(g) \in Seq(Piece) /\ Len(Whole(g)) = n
  BY <1>1, <1>2, <1>3
<1> QED
  BY <1>1, <1>3, <1>4 DEF n, piece

\* The place of a piece is where Whole() has it.
LEMMA RankOfWhole ==
  ASSUME NEW g \in Writers, NEW k \in 1 .. Len(Whole(g))
  PROVE  Rank(Whole(g)[k]) = k
<1>1. Whole(g)[k] = IF k = 1 THEN Header(g)
                    ELSE [of |-> g, line |-> k \div 2, half |-> 1 + (k % 2)]
  BY WholeIsSeq
<1>2. k \in Nat /\ 2 * (k \div 2) + (1 + (k % 2)) - 1 = k
  BY WholeIsSeq, SMT
<1> QED
  BY <1>1, <1>2 DEF Rank, Header

LEMMA HoleIsPiece == Hole \in Piece /\ Piece \cup {Hole} = Piece
<1>1. Hole \in Piece
  BY DEF Hole, Piece, Writers
<1> QED
  BY <1>1

LEMMA WrittenIsSeq ==
  ASSUME NEW file \in Seq(Piece), NEW at \in Nat, NEW s \in Seq(Piece)
  PROVE  /\ Written(file, at, s) \in Seq(Piece)
         /\ Len(Written(file, at, s)) =
              IF at + Len(s) > Len(file) THEN at + Len(s) ELSE Len(file)
<1> DEFINE n == IF at + Len(s) > Len(file) THEN at + Len(s) ELSE Len(file)
           piece(k) == IF k > at /\ k <= at + Len(s) THEN s[k - at]
                       ELSE IF k <= Len(file) THEN file[k] ELSE Hole
<1>1. n \in Nat
  OBVIOUS
<1>2. \A k \in 1 .. n : piece(k) \in Piece
  BY HoleIsPiece
<1>3. Written(file, at, s) = [k \in 1 .. n |-> piece(k)]
  BY DEF Written
<1> HIDE DEF n, piece
<1> QED
  BY <1>1, <1>2, <1>3 DEF n

\* Writing at the end of a file appends.
LEMMA WrittenAtEnd ==
  ASSUME NEW file \in Seq(Piece), NEW s \in Seq(Piece)
  PROVE  Written(file, Len(file), s) = file \o s
<1> DEFINE w == Written(file, Len(file), s)
<1>1. w \in Seq(Piece) /\ Len(w) = Len(file) + Len(s)
  BY WrittenIsSeq
<1>2. \A k \in 1 .. Len(file) + Len(s) : w[k] = (file \o s)[k]
  BY DEF Written
<1>3. file \o s \in Seq(Piece) /\ Len(file \o s) = Len(file) + Len(s)
  BY ConcatProperties
<1> HIDE DEF w
<1> QED
  BY <1>1, <1>2, <1>3, SeqEqual DEF w

-----------------------------------------------------------------------------
(* Types.                                                                  *)

LEMMA InitTyped == Init => TypeOK
<1> SUFFICES ASSUME Init
             PROVE  TypeOK
  OBVIOUS
<1>1. data \in [Writers -> Seq(Piece)]
  BY WholeIsSeq DEF Init
<1>2. \A i \in Writers : Len(data[i]) \in Nat
  BY <1>1
<1>3. synced \in [Writers -> Nat]
  BY <1>2 DEF Init
<1>4. names \in [Names -> Writers \cup {NoInode}] /\ names[Target] \in were /\ were \subseteq Writers
  BY DEF Init, Names, Writers
<1>5. <<>> \in Seq(Piece)
  OBVIOUS
<1>6. /\ fd \in [Generators -> Writers \cup {NoInode}]
      /\ buf \in [Generators -> Seq(Piece)] /\ taken \in Seq(Piece)
      /\ pos \in [Generators -> Nat] /\ made \in [Generators -> Nat]
      /\ pc \in [Generators -> {"start"}]
  BY <1>5 DEF Init
<1>7. /\ power \in BOOLEAN /\ full \in BOOLEAN
      /\ reader = "start" /\ in \in Writers \cup {NoInode}
  BY DEF Init
<1> QED
  BY <1>1, <1>3, <1>4, <1>6, <1>7, HoleIsPiece DEF TypeOK, Running

\* Every file of a generator is one of the file system.
LEMMA BufferTyped ==
  ASSUME TypeOK, NEW g \in Generators, fd[g] \in Writers, BufferWritten(g) \/ BufferDropped(g)
  PROVE  /\ data' \in [Writers -> Seq(Piece)]
         /\ pos' \in [Generators -> Nat] /\ buf' \in [Generators -> Seq(Piece)]
         /\ full' \in BOOLEAN
<1>1. /\ data \in [Writers -> Seq(Piece)] /\ buf \in [Generators -> Seq(Piece)]
      /\ pos \in [Generators -> Nat] /\ full \in BOOLEAN
  BY HoleIsPiece DEF TypeOK
<1>2. CASE BufferWritten(g)
  <2>1. Written(data[fd[g]], pos[g], buf[g]) \in Seq(Piece)
    BY <1>1, WrittenIsSeq
  <2>2. data' \in [Writers -> Seq(Piece)]
    BY <1>1, <1>2, <2>1 DEF BufferWritten
  <2>3. Len(buf[g]) \in Nat
    BY <1>1
  <2> QED
    BY <1>1, <1>2, <2>2, <2>3 DEF BufferWritten
<1>3. CASE BufferDropped(g)
  BY <1>1, <1>3 DEF BufferDropped
<1> QED
  BY <1>2, <1>3

\* A step of one generator that leaves the daemon alone.
LEMMA GeneratorTyped ==
  ASSUME TypeOK, NEW g \in Generators, Generate(g) \/ Kill(g)
  PROVE  TypeOK'
<1> USE DEF Running
<1>0. /\ data \in [Writers -> Seq(Piece)] /\ synced \in [Writers -> Nat]
      /\ names \in [Names -> Writers \cup {NoInode}]
      /\ names[Target] \in were /\ were \subseteq Writers
      /\ power \in BOOLEAN /\ full \in BOOLEAN
      /\ pc \in [Generators -> Running \cup {"published", "failed", "dead"}]
      /\ fd \in [Generators -> Writers \cup {NoInode}]
      /\ \A h \in Generators : pc[h] \in Running \ {"start"} => fd[h] # NoInode
      /\ pos \in [Generators -> Nat] /\ made \in [Generators -> Nat]
      /\ buf \in [Generators -> Seq(Piece)]
  BY HoleIsPiece DEF TypeOK
<1> DEFINE Rest == /\ reader \in {"start", "open", "reading", "accepted", "refused", "scan"}
                   /\ in \in Writers \cup {NoInode} /\ (reader = "reading" => in # NoInode)
                   /\ taken \in Seq(Piece)
<1>1. Rest
  BY HoleIsPiece DEF TypeOK
<1>2. UNCHANGED daemon => Rest'
  BY <1>1 DEF daemon
<1>3. /\ TmpName[g] \in Names /\ Target \in Names /\ TmpName[g] # Target
      /\ g \in Writers /\ NoInode \notin Writers
  BY IndexFileAssumption DEF Names, Writers
<1>4. <<>> \in Seq(Piece)
  OBVIOUS
<1>5. SUFFICES /\ UNCHANGED daemon
               /\ data' \in [Writers -> Seq(Piece)] /\ synced' \in [Writers -> Nat]
               /\ names' \in [Names -> Writers \cup {NoInode}]
               /\ names'[Target] \in were' /\ were' \subseteq Writers
               /\ power' \in BOOLEAN /\ full' \in BOOLEAN
               /\ pc' \in [Generators -> Running \cup {"published", "failed", "dead"}]
               /\ fd' \in [Generators -> Writers \cup {NoInode}]
               /\ \A h \in Generators : pc'[h] \in Running \ {"start"} => fd'[h] # NoInode
               /\ pos' \in [Generators -> Nat] /\ made' \in [Generators -> Nat]
               /\ buf' \in [Generators -> Seq(Piece)]
  BY <1>2, HoleIsPiece DEF TypeOK
<1>Open. CASE Open(g)
  <2> DEFINE file == IF names[TmpName[g]] = NoInode THEN g ELSE names[TmpName[g]]
  <2>1. file \in Writers
    BY <1>0, <1>3
  <2>2. /\ pc' = [pc EXCEPT ![g] = "writing"] /\ fd' = [fd EXCEPT ![g] = file]
        /\ names' = [names EXCEPT ![TmpName[g]] = file]
        /\ data' = [data EXCEPT ![file] = <<>>] /\ synced' = [synced EXCEPT ![file] = 0]
        /\ UNCHANGED <<were, power, full, pos, made, buf, daemon>>
    BY <1>Open DEF Open
  <2> HIDE DEF file
  <2> QED
    BY <1>0, <1>3, <1>4, <2>1, <2>2
<1>OpenFails. CASE OpenFails(g)
  BY <1>0, <1>OpenFails DEF OpenFails, disk
<1>Put. CASE Put(g)
  <2>1. Whole(g)[made[g] + 1] \in Piece
    BY <1>0, <1>3, <1>Put, WholeIsSeq DEF Put
  <2> QED
    BY <1>0, <1>Put, <2>1 DEF Put, disk
<1>WriteOut. CASE WriteOut(g)
  <2>1. fd[g] \in Writers
    BY <1>0, <1>WriteOut DEF WriteOut
  <2> QED
    BY <1>0, <1>WriteOut, <2>1, BufferTyped DEF WriteOut
<1>Abandon. CASE Abandon(g)
  <2>1. fd[g] \in Writers
    BY <1>0, <1>Abandon DEF Abandon
  <2> QED
    BY <1>0, <1>3, <1>Abandon, <2>1, BufferTyped DEF Abandon, Unlink
<1>Flush. CASE Flush(g)
  <2>1. fd[g] \in Writers
    BY <1>0, <1>Flush DEF Flush
  <2> QED
    BY <1>0, <1>Flush, <2>1, BufferTyped DEF Flush
<1>Sync. CASE Sync(g)
  <2>1. fd[g] \in Writers
    BY <1>0, <1>Sync DEF Sync
  <2>2. Len(data[fd[g]]) \in Nat
    BY <1>0, <2>1
  <2> QED
    BY <1>0, <1>Sync, <2>1, <2>2 DEF Sync
<1>Close. CASE Close(g)
  BY <1>0, <1>Close DEF Close, disk
<1>Publish. CASE Publish(g)
  BY <1>0, <1>3, <1>Publish DEF Publish
<1>Fail. CASE Fail(g)
  BY <1>0, <1>3, <1>4, <1>Fail DEF Fail, Unlink
<1>Kill. CASE Kill(g)
  BY <1>0, <1>4, <1>Kill DEF Kill, disk
<1> QED
  BY <1>Open, <1>OpenFails, <1>Put, <1>WriteOut, <1>Abandon, <1>Flush, <1>Sync, <1>Close,
     <1>Publish, <1>Fail, <1>Kill DEF Generate

LEMMA PowerTyped ==
  ASSUME TypeOK, PowerFails
  PROVE  TypeOK'
<1>1. PICK kept \in [Writers -> 0 .. Longest] :
        /\ \A i \in Writers : synced[i] <= kept[i] /\ kept[i] <= Len(data[i])
        /\ data' = [i \in Writers |-> SubSeq(data[i], 1, kept[i])]
        /\ synced' = kept
  BY DEF PowerFails
<1>2. data \in [Writers -> Seq(Piece)] /\ synced \in [Writers -> Nat]
  BY HoleIsPiece DEF TypeOK
<1>3. \A i \in Writers : kept[i] \in Nat /\ kept[i] <= Len(data[i])
  <2>1. \A i \in Writers : kept[i] \in 0 .. Longest
    BY <1>1
  <2> QED
    BY <1>1, <2>1, SMT
<1>4. data' \in [Writers -> Seq(Piece)]
  <2>1. \A i \in Writers : SubSeq(data[i], 1, kept[i]) \in Seq(Piece)
    BY <1>2, <1>3, SubSeqProperties
  <2> QED
    BY <1>1, <2>1
<1>5. synced' \in [Writers -> Nat]
  BY <1>1, <1>3
<1>6. names' \in [Names -> Writers \cup {NoInode}] /\ names'[Target] \in were' /\ were' \subseteq Writers
  BY DEF PowerFails, TypeOK, Names
<1>7. buf' \in [Generators -> Seq(Piece)] /\ taken' \in Seq(Piece)
  <2>1. <<>> \in Seq(Piece)
    OBVIOUS
  <2> QED
    BY <2>1 DEF PowerFails
<1>8. /\ pc' \in [Generators -> Running \cup {"published", "failed", "dead"}]
      /\ \A g \in Generators : pc'[g] \in Running \ {"start"} => fd'[g] # NoInode
  BY DEF PowerFails, TypeOK, Running
<1>9. /\ power' \in BOOLEAN /\ full' \in BOOLEAN /\ fd' \in [Generators -> Writers \cup {NoInode}]
      /\ pos' \in [Generators -> Nat] /\ made' \in [Generators -> Nat]
      /\ reader' = "start" /\ in' \in Writers \cup {NoInode}
  BY DEF PowerFails, TypeOK
<1> QED
  BY <1>4, <1>5, <1>6, <1>7, <1>8, <1>9, HoleIsPiece DEF TypeOK

LEMMA LoadTyped ==
  ASSUME TypeOK, Load
  PROVE  TypeOK'
<1>1. UNCHANGED <<disk, generators>>
  BY DEF Load, Sniff, OpenIndex, ReadOn, Judge, Restart
<1>2. /\ reader' \in {"start", "open", "reading", "accepted", "refused", "scan"}
      /\ in' \in Writers \cup {NoInode} /\ (reader' = "reading" => in' # NoInode)
      /\ taken' \in Seq(Piece)
  <2>0. /\ reader \in {"start", "open", "reading", "accepted", "refused", "scan"}
        /\ in \in Writers \cup {NoInode} /\ (reader = "reading" => in # NoInode)
        /\ NoInode \notin Writers /\ taken \in Seq(Piece)
        /\ names[Target] \in Writers /\ data \in [Writers -> Seq(Piece)]
    BY HoleIsPiece, IndexFileAssumption DEF TypeOK
  <2>1. CASE ReadOn
    <3>1. in \in Writers /\ Len(taken) + 1 \in 1 .. Len(data[in])
      BY <2>0, <2>1 DEF ReadOn
    <3>2. data[in][Len(taken) + 1] \in Piece
      BY <2>0, <3>1
    <3> QED
      BY <2>0, <2>1, <3>2 DEF ReadOn
  <2>2. CASE Restart
    <3>1. <<>> \in Seq(Piece)
      OBVIOUS
    <3> QED
      BY <2>2, <3>1 DEF Restart
  <2>3. CASE Sniff \/ OpenIndex \/ Judge
    BY <2>0, <2>3 DEF Sniff, OpenIndex, Judge
  <2> QED
    BY <2>1, <2>2, <2>3 DEF Load
<1> QED
  BY <1>1, <1>2, HoleIsPiece DEF TypeOK, disk, generators

LEMMA NextTyped == TypeOK /\ [Next]_vars => TypeOK'
<1>1. TypeOK /\ UNCHANGED vars => TypeOK'
  BY DEF TypeOK, vars, disk, generators, daemon
<1> QED
  BY <1>1, GeneratorTyped, PowerTyped, LoadTyped DEF Next

\* TypeOK, whatever the temporaries are called.
THEOREM TypeCorrect == Spec => []TypeOK
<1> QED
  BY InitTyped, NextTyped, PTL DEF Spec

-----------------------------------------------------------------------------
(* Gaps.                                                                   *)

\* A part of the whole index.
LEMMA PartOfWhole ==
  ASSUME NEW g \in Writers, NEW a \in Nat, NEW b \in Nat, a <= b, b <= Len(Whole(g))
  PROVE  /\ SubSeq(Whole(g), a + 1, b) \in Seq(Piece)
         /\ Len(SubSeq(Whole(g), a + 1, b)) = b - a
         /\ \A k \in 1 .. b - a :
              /\ SubSeq(Whole(g), a + 1, b)[k] = Whole(g)[a + k]
              /\ Rank(Whole(g)[a + k]) = a + k
<1>1. \A i \in a + 1 .. b : Whole(g)[i] \in Piece
  BY WholeIsSeq
<1>2. /\ SubSeq(Whole(g), a + 1, b) \in Seq(Piece)
      /\ Len(SubSeq(Whole(g), a + 1, b)) = IF a + 1 <= b THEN b - (a + 1) + 1 ELSE 0
      /\ \A k \in 1 .. b - (a + 1) + 1 :
           SubSeq(Whole(g), a + 1, b)[k] = Whole(g)[a + 1 + k - 1]
  BY <1>1, SubSeqProperties
<1>3. \A k \in 1 .. b - a : a + k \in 1 .. Len(Whole(g)) /\ a + 1 + k - 1 = a + k
  BY WholeIsSeq
<1>4. Len(SubSeq(Whole(g), a + 1, b)) = b - a
  BY <1>2
<1>5. \A k \in 1 .. b - a : SubSeq(Whole(g), a + 1, b)[k] = Whole(g)[a + k]
  BY <1>2, <1>3
<1>6. \A k \in 1 .. b - a : Rank(Whole(g)[a + k]) = a + k
  BY <1>3, RankOfWhole
<1> QED
  BY <1>2, <1>4, <1>5, <1>6

LEMMA StartOfWhole ==
  ASSUME NEW g \in Writers, NEW w \in Nat, w <= Len(Whole(g))
  PROVE  /\ SubSeq(Whole(g), 1, w) \in Seq(Piece)
         /\ DOMAIN SubSeq(Whole(g), 1, w) = 1 .. w /\ Len(SubSeq(Whole(g), 1, w)) = w
         /\ \A k \in 1 .. w : /\ SubSeq(Whole(g), 1, w)[k] = Whole(g)[k]
                              /\ Rank(SubSeq(Whole(g), 1, w)[k]) = k
<1>1. \A i \in 1 .. w : Whole(g)[i] \in Piece /\ i \in 1 .. Len(Whole(g))
  BY WholeIsSeq
<1>2. /\ SubSeq(Whole(g), 1, w) \in Seq(Piece)
      /\ Len(SubSeq(Whole(g), 1, w)) = IF 1 <= w THEN w - 1 + 1 ELSE 0
      /\ \A k \in 1 .. w - 1 + 1 : SubSeq(Whole(g), 1, w)[k] = Whole(g)[1 + k - 1]
  BY <1>1, SubSeqProperties
<1>3. Len(SubSeq(Whole(g), 1, w)) = w /\ \A k \in 1 .. w : SubSeq(Whole(g), 1, w)[k] = Whole(g)[k]
  BY <1>2
<1> QED
  BY <1>1, <1>2, <1>3, RankOfWhole, LenProperties

\* What is written after a gap does not fill it.
LEMMA GapWritten ==
  ASSUME NEW g \in Writers, NEW w \in Nat, NEW m \in Nat, w <= m, m <= Len(Whole(g)),
         NEW s \in Seq(Piece), Gappy(g, s, w)
  PROVE  Gappy(g, s \o SubSeq(Whole(g), w + 1, m), m)
<1> DEFINE b == SubSeq(Whole(g), w + 1, m)
           t == s \o b
           n == Len(s)
           Before == 1 .. n
           After == n + 1 .. n + (m - w)
<1>1. b \in Seq(Piece) /\ Len(b) = m - w /\ n \in Nat
      /\ \A k \in 1 .. m - w : b[k] = Whole(g)[w + k] /\ Rank(b[k]) = w + k
  <2>1. /\ b \in Seq(Piece) /\ Len(b) = m - w
        /\ \A k \in 1 .. m - w : b[k] = Whole(g)[w + k] /\ Rank(Whole(g)[w + k]) = w + k
    BY PartOfWhole
  <2> HIDE DEF b
  <2>2. \A k \in 1 .. m - w : Rank(b[k]) = w + k
    BY <2>1
  <2>3. n \in Nat
    BY LenProperties
  <2> QED
    BY <2>1, <2>2, <2>3
<1> HIDE DEF b
<1>2. /\ DOMAIN s = Before /\ DOMAIN t = 1 .. n + (m - w)
      /\ \A k \in Before : t[k] = s[k]
      /\ \A k \in After : t[k] = b[k - n]
  <2>1. /\ t \in Seq(Piece) /\ Len(t) = n + (m - w)
        /\ \A k \in 1 .. n + (m - w) : t[k] = IF k <= n THEN s[k] ELSE b[k - n]
    <3>1. /\ t \in Seq(Piece) /\ Len(t) = Len(s) + Len(b)
          /\ \A k \in 1 .. Len(s) + Len(b) : t[k] = IF k <= Len(s) THEN s[k] ELSE b[k - Len(s)]
      BY <1>1, ConcatProperties
    <3> QED
      BY <1>1, <3>1
  <2> HIDE DEF t
  <2>2. DOMAIN s = Before /\ DOMAIN t = 1 .. n + (m - w)
    BY <2>1, LenProperties
  <2>3. \A k \in Before : k \in 1 .. n + (m - w) /\ k <= n
    BY <1>1
  <2>4. \A k \in After : k \in 1 .. n + (m - w) /\ ~(k <= n)
    BY <1>1
  <2> QED
    BY <2>1, <2>2, <2>3, <2>4
<1> HIDE DEF t, n
<1>3. \A k \in Before : Rank(t[k]) \in 1 .. w /\ t[k] = Whole(g)[Rank(t[k])]
  BY <1>2 DEF Gappy
<1>4. \A k \in After : Rank(t[k]) = w + (k - n) /\ t[k] = Whole(g)[w + (k - n)]
  <2> TAKE k \in After
  <2>1. k - n \in 1 .. m - w
    BY <1>1
  <2> QED
    BY <1>1, <1>2, <2>1
<1>5. \A k \in DOMAIN t : k \in Before \/ k \in After
  BY <1>1, <1>2
<1>6. \A k \in DOMAIN t : Rank(t[k]) \in 1 .. m /\ t[k] = Whole(g)[Rank(t[k])]
  <2> TAKE k \in DOMAIN t
  <2>1. CASE k \in Before
    BY <1>3, <2>1
  <2>2. CASE k \in After
    <3>1. w + (k - n) \in 1 .. m
      BY <1>1, <2>2
    <3> QED
      BY <1>4, <2>2, <3>1
  <2> QED
    BY <1>5, <2>1, <2>2
<1>7. \A k, l \in DOMAIN t : k < l => Rank(t[k]) < Rank(t[l])
  <2> SUFFICES ASSUME NEW k \in DOMAIN t, NEW l \in DOMAIN t, k < l
               PROVE  Rank(t[k]) < Rank(t[l])
    OBVIOUS
  <2>1. CASE k \in Before /\ l \in Before
    BY <1>2, <2>1 DEF Gappy
  <2>2. CASE k \in Before /\ l \in After
    <3>1. Rank(t[k]) <= w /\ Rank(t[k]) \in Int
      BY <1>3, <2>2
    <3>2. Rank(t[l]) = w + (l - n) /\ l - n >= 1 /\ l - n \in Int
      BY <1>1, <1>4, <2>2
    <3> QED
      BY <3>1, <3>2
  <2>3. CASE k \in After /\ l \in After
    <3>1. Rank(t[k]) = w + (k - n) /\ Rank(t[l]) = w + (l - n)
      BY <1>4, <2>3
    <3> QED
      BY <1>1, <2>3, <3>1
  <2>4. CASE k \in After /\ l \in Before
    BY <1>1, <2>4
  <2> QED
    BY <1>5, <2>1, <2>2, <2>3, <2>4
<1>8. Lost(t, m) = Lost(s, w)
  <2>1. ASSUME NEW r \in Lost(t, m)
        PROVE  r \in Lost(s, w)
    <3>1. r \in 1 .. m /\ \A k \in DOMAIN t : Rank(t[k]) # r
      BY DEF Lost
    <3>2. ~(r > w)
      <4> SUFFICES ASSUME r > w PROVE FALSE
        OBVIOUS
      <4>1. n + (r - w) \in After /\ n + (r - w) \in DOMAIN t /\ w + ((n + (r - w)) - n) = r
        BY <1>1, <1>2, <3>1
      <4> QED
        BY <1>4, <3>1, <4>1
    <3>3. \A k \in Before : k \in DOMAIN t
      BY <1>1, <1>2
    <3> QED
      BY <1>2, <3>1, <3>2, <3>3 DEF Lost
  <2>2. ASSUME NEW r \in Lost(s, w)
        PROVE  r \in Lost(t, m)
    <3>1. r \in 1 .. w /\ \A k \in DOMAIN s : Rank(s[k]) # r
      BY DEF Lost
    <3>2. ASSUME NEW k \in DOMAIN t
          PROVE  Rank(t[k]) # r
      <4>1. CASE k \in Before
        BY <1>2, <3>1, <4>1
      <4>2. CASE k \in After
        <5>1. Rank(t[k]) = w + (k - n)
          BY <1>4, <4>2
        <5>2. k - n >= 1 /\ k - n \in Int
          BY <1>1, <4>2
        <5> QED
          BY <3>1, <5>1, <5>2
      <4> QED
        BY <1>5, <4>1, <4>2
    <3> QED
      BY <3>1, <3>2 DEF Lost
  <2> QED
    BY <2>1, <2>2
<1> QED
  BY <1>6, <1>7, <1>8 DEF Gappy, t, b

\* A dropped buffer leaves a gap of two pieces at least.
LEMMA GapDropped ==
  ASSUME NEW g \in Writers, NEW w \in Nat, NEW m \in Nat, w + 2 <= m, m <= Len(Whole(g)),
         NEW s \in Seq(Piece), s = SubSeq(Whole(g), 1, w) \/ Gappy(g, s, w)
  PROVE  Gappy(g, s, m)
<1>0. w <= Len(Whole(g))
  BY WholeIsSeq
<1>1. \A k \in DOMAIN s : Rank(s[k]) \in 1 .. w /\ s[k] = Whole(g)[Rank(s[k])]
  <2>1. CASE s = SubSeq(Whole(g), 1, w)
    <3>1. DOMAIN s = 1 .. w /\ \A k \in 1 .. w : s[k] = Whole(g)[k] /\ Rank(s[k]) = k
      BY <2>1, <1>0, StartOfWhole
    <3> QED
      BY <3>1
  <2> QED
    BY <2>1 DEF Gappy
<1>2. \A k, l \in DOMAIN s : k < l => Rank(s[k]) < Rank(s[l])
  <2>1. CASE s = SubSeq(Whole(g), 1, w)
    <3>1. DOMAIN s = 1 .. w /\ \A k \in 1 .. w : s[k] = Whole(g)[k] /\ Rank(s[k]) = k
      BY <2>1, <1>0, StartOfWhole
    <3> QED
      BY <3>1
  <2> QED
    BY <2>1 DEF Gappy
<1>3. \A r \in w + 1 .. m : r \in Lost(s, m)
  BY <1>1 DEF Lost
<1>4. \A r \in Lost(s, m) : r \in w + 1 .. m \/ r \in Lost(s, w)
  BY DEF Lost
<1>5. \A r \in Lost(s, w) : r \in Lost(s, m)
  BY DEF Lost
<1>6. \A r \in Lost(s, w) : Gappy(g, s, w)
  <2> SUFFICES ASSUME NEW r \in Lost(s, w), s = SubSeq(Whole(g), 1, w)
               PROVE  FALSE
    OBVIOUS
  <2>1. DOMAIN s = 1 .. w /\ \A k \in 1 .. w : Rank(s[k]) = k
    BY <1>0, StartOfWhole
  <2> QED
    BY <2>1 DEF Lost
<1>7. \A r \in Lost(s, m) : r - 1 \in Lost(s, m) \/ r + 1 \in Lost(s, m)
  <2> TAKE r \in Lost(s, m)
  <2>1. CASE r \in Lost(s, w)
    BY <1>5, <1>6, <2>1 DEF Gappy
  <2>2. CASE r \in w + 1 .. m
    <3>1. r - 1 \in w + 1 .. m \/ r + 1 \in w + 1 .. m
      BY <2>2
    <3> QED
      BY <1>3, <3>1
  <2> QED
    BY <1>4, <2>1, <2>2
<1>8. Lost(s, m) # {}
  <2>1. w + 1 \in w + 1 .. m
    OBVIOUS
  <2> QED
    BY <1>3, <2>1
<1>9. \A k \in DOMAIN s : Rank(s[k]) \in 1 .. m
  BY <1>1
<1> QED
  BY <1>1, <1>2, <1>7, <1>8, <1>9 DEF Gappy

\* An index with a gap has fewer entries than its header declares, or no header.
LEMMA GapIsRefused ==
  ASSUME NEW g \in Writers, NEW s \in Seq(Piece), Gappy(g, s, Len(Whole(g)))
  PROVE  ~Complete(s)
<1> SUFFICES ASSUME Complete(s)
             PROVE  FALSE
  OBVIOUS
<1> DEFINE c == Count[g]
           n == 2 * c + 1
           rank(k) == Rank(s[k])
           Gone1 == Lost(s, n)
<1>0. /\ c \in Nat /\ n \in Nat /\ Len(Whole(g)) = n
      /\ \A r \in 1 .. n : Whole(g)[r] = IF r = 1 THEN Header(g)
                                         ELSE [of |-> g, line |-> r \div 2, half |-> 1 + (r % 2)]
  BY WholeIsSeq
<1>1. /\ \A k \in DOMAIN s : rank(k) \in 1 .. n /\ s[k] = Whole(g)[rank(k)]
      /\ \A k, l \in DOMAIN s : k < l => rank(k) < rank(l)
      /\ Gone1 # {} /\ \A r \in Gone1 : r - 1 \in Gone1 \/ r + 1 \in Gone1
  BY <1>0 DEF Gappy
<1>2. \A r \in Gone1 : r \in 1 .. n /\ \A k \in DOMAIN s : rank(k) # r
  BY DEF Lost
<1>d. DOMAIN s = 1 .. Len(s) /\ Len(s) \in Nat
  BY LenProperties
<1> HIDE DEF rank, Gone1, n, c
<1>3. ASSUME NEW k \in DOMAIN s
      PROVE  /\ s[k].of = g /\ s[k].line \in Nat /\ s[k].half \in {1, 2}
             /\ rank(k) = 1 => s[k] = Header(g)
             /\ rank(k) # 1 => /\ s[k].line \in 1 .. c
                               /\ rank(k) = 2 * s[k].line + s[k].half - 1
  <2>0. rank(k) \in 1 .. n /\ s[k] = Whole(g)[rank(k)]
    BY <1>1
  <2>1. CASE rank(k) = 1
    BY <1>0, <2>0, <2>1 DEF Header
  <2>2. CASE rank(k) # 1
    <3>1. s[k] = [of |-> g, line |-> rank(k) \div 2, half |-> 1 + (rank(k) % 2)]
      BY <1>0, <2>0, <2>2
    <3>2. rank(k) \div 2 \in 1 .. c /\ 1 + (rank(k) % 2) \in {1, 2}
          /\ rank(k) = 2 * (rank(k) \div 2) + (1 + (rank(k) % 2)) - 1
      <4>1. rank(k) \in 2 .. 2 * c + 1
        BY <1>0, <2>0, <2>2 DEF n
      <4> QED
        BY <1>0, <4>1, SMT
    <3> QED
      BY <1>0, <2>2, <3>1, <3>2
  <2> QED
    BY <2>1, <2>2
<1>4. 1 \in DOMAIN s /\ rank(1) = 1
  <2>1. s # <<>> /\ \E h \in Writers : s[1] = Header(h)
    BY DEF Complete
  <2>2. 1 \in DOMAIN s
    BY <1>d, <2>1
  <2>3. s[1].line = 0
    BY <2>1 DEF Header
  <2>4. ~(s[1].line \in 1 .. c)
    BY <2>3
  <2> QED
    BY <1>3, <2>2, <2>4
<1>5. Declared(s) = c
  <2> DEFINE heads == {k \in DOMAIN s : \E h \in Writers : s[k] = Header(h)}
  <2>1. heads = {1}
    <3>1. ASSUME NEW k \in heads
          PROVE  k = 1
      <4>1. k \in DOMAIN s /\ s[k].line = 0
        BY DEF Header
      <4>2. rank(k) = 1
        BY <1>3, <4>1
      <4> QED
        BY <1>1, <1>4, <1>d, <4>1, <4>2
    <3>2. 1 \in heads
      BY <1>3, <1>4
    <3> QED
      BY <3>1, <3>2
  <2>2. (CHOOSE k \in heads : \A h \in heads : h <= k) = 1
    BY <2>1
  <2>3. Declared(s) = IF heads = {} THEN -1
                      ELSE Count[s[CHOOSE k \in heads : \A h \in heads : h <= k].of]
    BY DEF Declared
  <2> HIDE DEF heads
  <2>4. s[1].of = g
    BY <1>3, <1>4
  <2> QED
    BY <2>1, <2>2, <2>3, <2>4 DEF c
<1> DEFINE D == {k \in DOMAIN s : EndsLine(s, k)}
           f == [k \in D |-> s[k].line]
<1>6. \A k \in D : k \in DOMAIN s /\ s[k].line \in 1 .. c /\ (s[k].half = 2 \/ k = Len(s))
                   /\ rank(k) = 2 * s[k].line + s[k].half - 1
  <2>1. \A k \in D : k \in DOMAIN s /\ s[k].line > 0 /\ (s[k].half = 2 \/ k = Len(s))
    BY DEF EndsLine
  <2>2. \A k \in D : rank(k) # 1
    BY <1>3, <2>1 DEF Header
  <2> QED
    BY <1>3, <2>1, <2>2
<1>7. \A k, l \in D : s[k].line = s[l].line => ~(k < l)
  <2> SUFFICES ASSUME NEW k \in D, NEW l \in D, s[k].line = s[l].line, k < l
               PROVE  FALSE
    OBVIOUS
  <2>1. s[k].half # 2
    BY <1>1, <1>3, <1>6
  <2>2. k = Len(s) /\ l <= Len(s)
    BY <1>6, <1>d, <2>1
  <2> QED
    BY <1>d, <2>2
<1>8. f \in Injection(D, 1 .. c)
  <2>1. f \in [D -> 1 .. c]
    BY <1>6
  <2>2. \A k, l \in D : f[k] = f[l] => k = l
    <3>1. \A k \in D : k \in Nat
      BY <1>6, <1>d
    <3> QED
      BY <1>7, <3>1
  <2> QED
    BY <2>1, <2>2, Fun_IsInj
<1>9. \E m \in 1 .. c : \A k \in D : s[k].line # m
  <2>1. PICK a \in Gone1 : a + 1 \in Gone1
    <3>1. PICK r \in Gone1 : r - 1 \in Gone1 \/ r + 1 \in Gone1
      BY <1>1
    <3>2. r \in Int /\ (r - 1) + 1 = r
      BY <1>2
    <3> QED
      BY <3>1, <3>2
  <2>2. a \in 2 .. n /\ a + 1 <= n
    BY <1>2, <1>4, <2>1
  <2>3. CASE \E m \in Nat : a = 2 * m
    <3>1. PICK m \in Nat : a = 2 * m
      BY <2>3
    <3>2. m \in 1 .. c
      BY <1>0, <2>2, <3>1 DEF n
    <3>3. \A k \in D : rank(k) # 2 * m /\ rank(k) # 2 * m + 1
      BY <1>2, <1>6, <2>1, <3>1
    <3>4. \A k \in D : s[k].half \in {1, 2}
      BY <1>3, <1>6
    <3> QED
      BY <1>6, <3>2, <3>3, <3>4
  <2>4. CASE \E m \in Nat : a = 2 * m + 1
    <3>1. PICK m \in Nat : a = 2 * m + 1
      BY <2>4
    <3>2. m \in 1 .. c /\ m + 1 \in 1 .. c
      BY <1>0, <2>2, <3>1 DEF n
    <3>3. SUFFICES ASSUME NEW k \in D, s[k].line = m
                   PROVE  \A l \in D : s[l].line # m + 1
      BY <3>2
    <3>4. s[k].half = 1 /\ rank(k) = 2 * m /\ k = Len(s)
      <4>1. rank(k) # 2 * m + 1
        BY <1>2, <1>6, <2>1, <3>1
      <4> QED
        BY <1>3, <1>6, <3>3, <4>1
    <3>5. \A l \in D : rank(l) <= 2 * m
      <4> TAKE l \in D
      <4>1. l \in Nat /\ l <= k /\ l \in DOMAIN s /\ k \in DOMAIN s
        BY <1>6, <1>d, <3>4
      <4>2. rank(l) \in Int /\ rank(k) \in Int
        BY <1>1, <4>1
      <4> QED
        BY <1>1, <1>d, <3>4, <4>1, <4>2
    <3>6. \A l \in D : rank(l) >= 2 * s[l].line /\ rank(l) \in Int /\ s[l].line \in Int
      <4> TAKE l \in D
      <4>1. s[l].half \in {1, 2} /\ s[l].line \in Nat /\ rank(l) = 2 * s[l].line + s[l].half - 1
        BY <1>3, <1>6
      <4> QED
        BY <4>1
    <3> QED
      BY <3>2, <3>5, <3>6
  <2>5. \E m \in Nat : a = 2 * m \/ a = 2 * m + 1
    <3>1. a \div 2 \in Nat /\ (a = 2 * (a \div 2) \/ a = 2 * (a \div 2) + 1)
      BY <1>0, <2>2, SMT
    <3> QED
      BY <3>1
  <2> QED
    BY <2>3, <2>4, <2>5
<1>10. Cardinality(D) # c
  <2>1. f \notin Surjection(D, 1 .. c)
    <3>1. PICK m \in 1 .. c : \A k \in D : s[k].line # m
      BY <1>9
    <3>2. \A k \in D : f[k] # m
      BY <3>1
    <3> HIDE DEF f, D
    <3>3. f \in Surjection(D, 1 .. c) => \A t \in 1 .. c : \E k \in D : f[k] = t
      BY Fun_SurjectionProperties
    <3> QED
      BY <3>2, <3>3
  <2>2. IsFiniteSet(1 .. c) /\ Cardinality(1 .. c) = c
    BY <1>0, FS_Interval
  <2> HIDE DEF f, D
  <2>3. Cardinality(D) = Cardinality(1 .. c) <=> f \in Surjection(D, 1 .. c)
    BY <1>8, <2>2, FS_Injection
  <2> QED
    BY <2>1, <2>2, <2>3
<1>11. Declared(s) = Entries(s) /\ Entries(s) = Cardinality(D)
  BY DEF Complete, Entries
<1> QED
  BY <1>5, <1>10, <1>11

-----------------------------------------------------------------------------
(* The invariant holds at first, and a run leaves the files of others alone. *)

LEMMA InitInv == Init => IInv
<1> SUFFICES ASSUME Init
             PROVE  IInv
  OBVIOUS
<1>1. \A g \in Generators : TmpName[g] \in Names /\ TmpName[g] # Target /\ g # Old
  BY IndexFileAssumption DEF Names
<1>2. \A g \in Generators : GeneratorInv(g)
  BY <1>1 DEF Init, GeneratorInv, HasFile
<1>3. TargetInv
  BY DEF Init, TargetInv, Finished, Writers
<1>4. LitterInv
  BY <1>1 DEF Init, LitterInv
<1> QED
  BY <1>2, <1>3, <1>4 DEF IInv, ReaderInv, Init

\* A step that leaves a file's contents alone keeps what is known of them.
LEMMA FileKept ==
  ASSUME NEW g \in Generators, FileInv(g),
         made'[g] = made[g], buf'[g] = buf[g], data'[fd'[g]] = data[fd[g]], full => full'
  PROVE  FileInv(g)'
<1>1. Gone(g)' = Gone(g)
  BY DEF Gone
<1> QED
  BY <1>1 DEF FileInv

\* What a step of g may touch.
LocalStep(g) ==
  /\ pc[g] \in Running /\ pc'[g] # "start"
  /\ \A i \in Writers : i \in were \/ i # fd'[g] => data'[i] = data[i] /\ synced'[i] = synced[i]
  /\ pc[g] \notin HasFile /\ pc'[g] \notin HasFile => UNCHANGED <<data, synced, names>>
  /\ \A h \in Generators \ {g} :
       /\ pc'[h] = pc[h] /\ fd'[h] = fd[h] /\ pos'[h] = pos[h]
       /\ made'[h] = made[h] /\ buf'[h] = buf[h]
  /\ \A h \in Generators : TmpName[h] # TmpName[g] => names'[TmpName[h]] = names[TmpName[h]]
  /\ \/ pc'[g] \in HasFile \cup {"dead"}
     \/ names'[TmpName[g]] = NoInode
     \/ pc[g] = "start" /\ names' = names
  /\ were' # were => were' = were \cup {fd[g]} /\ pc[g] = "closed" /\ UNCHANGED <<data, synced>>
  /\ names'[Target] # names[Target] => pc[g] = "closed" /\ pc'[g] = "published"
  /\ full => full'
  /\ UNCHANGED <<power, daemon>>

LEMMA StepIsLocal ==
  ASSUME TypeOK, IInv, NEW g \in Generators, Generate(g) \/ Kill(g)
  PROVE  LocalStep(g)
<1>0. /\ data \in [Writers -> Seq(Piece)] /\ synced \in [Writers -> Nat]
      /\ names \in [Names -> Writers \cup {NoInode}]
      /\ pc \in [Generators -> Running \cup {"published", "failed", "dead"}]
      /\ fd \in [Generators -> Writers \cup {NoInode}]
      /\ pos \in [Generators -> Nat] /\ made \in [Generators -> Nat]
      /\ buf \in [Generators -> Seq(Piece)]
  BY HoleIsPiece DEF TypeOK
<1>1. /\ \A h \in Generators : TmpName[h] \in Names /\ TmpName[h] # Target
      /\ Target \in Names /\ g \in Writers /\ NoInode \notin Writers /\ g # Old
  BY IndexFileAssumption DEF Names, Writers
<1>2. /\ pc[g] \in HasFile => fd[g] # NoInode /\ fd[g] = names[TmpName[g]]
      /\ names[TmpName[g]] # NoInode => names[TmpName[g]] \notin were
      /\ pc[g] = "start" => g \notin were
  BY <1>1 DEF IInv, GeneratorInv, TargetInv
<1>3. \A h \in Generators \ {g} : h \in Generators /\ h # g
  OBVIOUS
<1> USE DEF LocalStep, Running, HasFile
<1>Open. CASE Open(g)
  <2> DEFINE file == IF names[TmpName[g]] = NoInode THEN g ELSE names[TmpName[g]]
  <2>1. /\ pc' = [pc EXCEPT ![g] = "writing"] /\ fd' = [fd EXCEPT ![g] = file]
        /\ names' = [names EXCEPT ![TmpName[g]] = file]
        /\ data' = [data EXCEPT ![file] = <<>>] /\ synced' = [synced EXCEPT ![file] = 0]
        /\ UNCHANGED <<were, power, full, pos, made, buf, daemon>> /\ pc[g] = "start"
    BY <1>Open DEF Open
  <2>2. file \notin were
    BY <1>2, <2>1
  <2> HIDE DEF file
  <2>3. pc'[g] = "writing" /\ fd'[g] = file
    BY <1>0, <2>1
  <2>4. \A i \in Writers : i # file => data'[i] = data[i] /\ synced'[i] = synced[i]
    BY <1>0, <2>1
  <2>5. \A h \in Generators : TmpName[h] # TmpName[g] => names'[TmpName[h]] = names[TmpName[h]]
    BY <1>0, <1>1, <2>1
  <2>6. names'[Target] = names[Target]
    BY <1>0, <1>1, <2>1
  <2> QED
    BY <1>0, <2>1, <2>2, <2>3, <2>4, <2>5, <2>6
<1>OpenFails. CASE OpenFails(g)
  BY <1>0, <1>OpenFails DEF OpenFails, disk
<1>Put. CASE Put(g)
  BY <1>0, <1>Put DEF Put, disk
<1>WriteOut. CASE WriteOut(g)
  BY <1>0, <1>2, <1>WriteOut DEF WriteOut, BufferWritten, BufferDropped
<1>Abandon. CASE Abandon(g)
  BY <1>0, <1>1, <1>2, <1>Abandon DEF Abandon, BufferWritten, BufferDropped, Unlink
<1>Flush. CASE Flush(g)
  BY <1>0, <1>2, <1>Flush DEF Flush, BufferWritten
<1>Sync. CASE Sync(g)
  BY <1>0, <1>2, <1>Sync DEF Sync
<1>Close. CASE Close(g)
  BY <1>0, <1>Close DEF Close, disk
<1>Publish. CASE Publish(g)
  BY <1>0, <1>1, <1>2, <1>Publish DEF Publish
<1>Fail. CASE Fail(g)
  BY <1>0, <1>1, <1>Fail DEF Fail, Unlink
<1>Kill. CASE Kill(g)
  BY <1>0, <1>Kill DEF Kill, disk
<1> QED
  BY <1>Open, <1>OpenFails, <1>Put, <1>WriteOut, <1>Abandon, <1>Flush, <1>Sync, <1>Close,
     <1>Publish, <1>Fail, <1>Kill DEF Generate

\* A file that is finished stays so.
LEMMA FinishedKept ==
  ASSUME NEW i, Finished(i), data'[i] = data[i], synced'[i] = synced[i], full => full'
  PROVE  Finished(i)'
BY DEF Finished

\* A local step keeps all of the invariant but g's own part.
LEMMA OthersKept ==
  ASSUME TypeOK, IInv, Apart, Apart', NEW g \in Generators, LocalStep(g), GeneratorInv(g)'
  PROVE  (\A h \in Generators \ {g} : GeneratorInv(h)') /\ TargetInv' /\ LitterInv' /\ ReaderInv'
<1>0. /\ Old \in Writers /\ Generators \subseteq Writers /\ were \subseteq Writers
      /\ NoInode \notin Writers /\ GeneratorInv(g)
      /\ fd \in [Generators -> Writers \cup {NoInode}]
      /\ names[TmpName[g]] \in Writers \cup {NoInode}
  BY IndexFileAssumption DEF Writers, TypeOK, Names, IInv
<1>1. \A i \in Generators : pc[i] # "start" => pc'[i] # "start"
  BY DEF LocalStep
<1>2. \A i \in were : data'[i] = data[i] /\ synced'[i] = synced[i]
  BY <1>0 DEF LocalStep
<1>3. ASSUME NEW h \in Generators \ {g}
      PROVE  GeneratorInv(h)'
  <2>0. GeneratorInv(h)
    BY DEF IInv
  <2>1. /\ pc'[h] = pc[h] /\ fd'[h] = fd[h] /\ pos'[h] = pos[h]
        /\ made'[h] = made[h] /\ buf'[h] = buf[h] /\ (full => full')
    BY DEF LocalStep
  <2>2. fd'[h] # NoInode => OwnedNext(h, fd'[h])
    BY <1>1, <2>0, <2>1 DEF GeneratorInv, Owned, OwnedNext
  <2>3. names'[TmpName[h]] # NoInode =>
          OwnedNext(h, names'[TmpName[h]]) /\ names'[TmpName[h]] \notin were'
    <3>1. CASE TmpName[h] = TmpName[g]
      BY <3>1 DEF GeneratorInv, Owned, OwnedNext
    <3>2. CASE TmpName[h] # TmpName[g]
      <4>1. names'[TmpName[h]] = names[TmpName[h]]
        BY <3>2 DEF LocalStep
      <4>2. were' # were => were' = were \cup {fd[g]} /\ Owned(g, fd[g])
        BY <1>0 DEF LocalStep, GeneratorInv, HasFile
      <4> QED
        BY <1>1, <2>0, <3>2, <4>1, <4>2 DEF GeneratorInv, Owned, OwnedNext
    <3> QED
      BY <3>1, <3>2
  <2>4. pc[h] \in HasFile =>
          /\ names'[TmpName[h]] = names[TmpName[h]]
          /\ data'[fd[h]] = data[fd[h]] /\ synced'[fd[h]] = synced[fd[h]]
    <3> SUFFICES ASSUME pc[h] \in HasFile
                 PROVE  /\ names'[TmpName[h]] = names[TmpName[h]]
                        /\ data'[fd[h]] = data[fd[h]] /\ synced'[fd[h]] = synced[fd[h]]
      OBVIOUS
    <3>1. CASE TmpName[h] = TmpName[g]
      <4>1. pc[g] \notin HasFile /\ pc'[g] \notin HasFile
        BY <2>1, <3>1 DEF Apart
      <4> QED
        BY <4>1 DEF LocalStep
    <3>2. CASE TmpName[h] # TmpName[g]
      <4>1. fd[h] \in Writers /\ TmpName[fd[h]] = TmpName[h]
        BY <1>0, <2>0 DEF GeneratorInv, Owned
      <4>2. fd'[g] # NoInode => TmpName[fd'[g]] = TmpName[g]
        BY DEF GeneratorInv, Owned
      <4>3. fd[h] # fd'[g]
        BY <1>0, <3>2, <4>1, <4>2
      <4> QED
        BY <3>2, <4>1, <4>3 DEF LocalStep
    <3> QED
      BY <3>1, <3>2
  <2>5. pc[h] \in HasFile => FileInv(h)'
    BY <2>0, <2>1, <2>4, FileKept DEF GeneratorInv
  <2> QED
    BY <2>0, <2>1, <2>2, <2>3, <2>4, <2>5 DEF GeneratorInv, Owned, OwnedNext, HasFile
<1>4. TargetInv'
  <2>1. \A i \in were : Finished(i)' /\ (i # Old => pc'[i] # "start")
    <3> TAKE i \in were
    <3>1. Finished(i)'
      BY <1>2, FinishedKept DEF IInv, TargetInv, LocalStep
    <3>2. i # Old => i \in Generators
      BY <1>0 DEF Writers
    <3> QED
      BY <1>1, <3>1, <3>2 DEF IInv, TargetInv
  <2>2. CASE were' = were
    BY <2>1, <2>2 DEF TargetInv
  <2>3. CASE were' # were
    <3> DEFINE n == Len(Whole(g))
    <3>0. PICK i : i = fd[g]
      OBVIOUS
    <3>1. were' = were \cup {i} /\ pc[g] = "closed" /\ data' = data /\ synced' = synced
      BY <2>3, <3>0 DEF LocalStep
    <3>2. /\ FileInv(g) /\ made[g] = n /\ buf[g] = <<>> /\ synced[i] = Len(data[i])
          /\ Owned(g, i)
      BY <1>0, <3>0, <3>1 DEF GeneratorInv, HasFile
    <3>3. Whole(g) \in Seq(Piece) /\ n \in Nat /\ g \in Writers
      BY <1>0, WholeIsSeq
    <3>4. Gone(g) = n
      <4>1. Len(buf[g]) = 0
        BY <3>2
      <4> HIDE DEF n
      <4> QED
        BY <3>2, <3>3, <4>1 DEF Gone
    <3>5. data[i] = Whole(g) \/ (full /\ Gappy(g, data[i], n))
      BY <3>0, <3>2, <3>3, <3>4, SubSeqFull DEF FileInv
    <3>6. Finished(i)'
      <4>1. Finished(i)
        BY <3>2, <3>3, <3>5 DEF Finished
      <4> QED
        BY <3>1, <4>1, FinishedKept DEF LocalStep
    <3>7. pc'[i] # "start"
      BY <1>1, <3>2 DEF Owned
    <3> QED
      BY <2>1, <3>1, <3>6, <3>7 DEF TargetInv
  <2> QED
    BY <2>2, <2>3
<1>5. LitterInv'
  <2> SUFFICES ASSUME power', NEW h \in Generators, names'[TmpName[h]] # NoInode
               PROVE  \E k \in Generators :
                        TmpName[k] = TmpName[h] /\ pc'[k] \in HasFile \cup {"dead"}
    BY DEF LitterInv
  <2>1. CASE TmpName[h] = TmpName[g] /\ pc'[g] \in HasFile \cup {"dead"}
    BY <2>1
  <2>2. CASE names'[TmpName[h]] = names[TmpName[h]] /\ (TmpName[h] = TmpName[g] => pc[g] = "start")
    <3>1. PICK k \in Generators : TmpName[k] = TmpName[h] /\ pc[k] \in HasFile \cup {"dead"}
      BY <2>2 DEF IInv, LitterInv, LocalStep
    <3>2. k # g
      BY <2>2, <3>1 DEF HasFile
    <3> QED
      BY <3>1, <3>2 DEF LocalStep
  <2> QED
    BY <2>1, <2>2 DEF LocalStep
<1>6. ReaderInv'
  <2>1. reader' = reader /\ in' = in /\ taken' = taken /\ were \subseteq were'
    BY DEF LocalStep, daemon
  <2>2. Complete(taken) => Complete(taken)'
    BY <2>1 DEF Complete, Declared, Entries, EndsLine
  <2> QED
    BY <1>2, <2>1, <2>2 DEF IInv, ReaderInv
<1> QED
  BY <1>3, <1>4, <1>5, <1>6

-----------------------------------------------------------------------------
(* The file of the run that takes a step.                                  *)

LEMMA NothingWritten ==
  ASSUME NEW g \in Writers
  PROVE  SubSeq(Whole(g), 1, 0) = <<>>
BY SubSeqEmpty

\* Whether a buffer is written or dropped, it is empty and what is in the file is
\* all there was or has a gap.
LEMMA BufferKeepsFile ==
  ASSUME TypeOK, NEW g \in Generators, GeneratorInv(g), pc[g] = "writing",
         BufferWritten(g) \/ (BufferDropped(g) /\ Len(buf[g]) >= 2), UNCHANGED <<made, fd>>
  PROVE  FileInv(g)' /\ buf'[g] = <<>> /\ pos'[g] = Len(data'[fd'[g]])
<1> DEFINE w == Gone(g)
           m == made[g]
           i == fd[g]
<1>0. /\ data \in [Writers -> Seq(Piece)] /\ buf \in [Generators -> Seq(Piece)]
      /\ pos \in [Generators -> Nat] /\ made \in [Generators -> Nat] /\ g \in Writers
      /\ fd \in [Generators -> Writers \cup {NoInode}]
  BY HoleIsPiece DEF TypeOK, Writers
<1>1. /\ i \in Writers /\ fd'[g] = i /\ pos[g] = Len(data[i]) /\ FileInv(g)
  BY <1>0 DEF GeneratorInv, HasFile
<1>2. /\ w \in Nat /\ m \in Nat /\ w <= m /\ m <= Len(Whole(g)) /\ Len(buf[g]) \in Nat
      /\ Len(buf[g]) = m - w
      /\ buf[g] = SubSeq(Whole(g), w + 1, m)
      /\ data[i] = SubSeq(Whole(g), 1, w) \/ (full /\ Gappy(g, data[i], w))
  <2>1. Len(buf[g]) \in Nat /\ m \in Nat /\ w = m - Len(buf[g])
    BY <1>0 DEF Gone
  <2> HIDE DEF w, m
  <2>2. w \in Nat
    BY <1>1 DEF FileInv, w
  <2>3. w <= m /\ Len(buf[g]) = m - w
    BY <2>1, <2>2
  <2>4. /\ m <= Len(Whole(g)) /\ buf[g] = SubSeq(Whole(g), w + 1, m)
        /\ data[i] = SubSeq(Whole(g), 1, w) \/ (full /\ Gappy(g, data[i], w))
    BY <1>1 DEF FileInv, w, m
  <2> QED
    BY <2>1, <2>2, <2>3, <2>4
<1>3. buf'[g] = <<>> /\ made'[g] = m
  BY <1>0 DEF BufferWritten, BufferDropped
<1>4. Gone(g)' = m
  <2>1. Len(buf'[g]) = 0
    BY <1>3
  <2>2. Gone(g)' = made'[g] - Len(buf'[g])
    BY DEF Gone
  <2> QED
    BY <1>2, <1>3, <2>1, <2>2
<1>5. <<>> = SubSeq(Whole(g), m + 1, m)
  BY <1>2, SubSeqEmpty
<1> HIDE DEF w, m
<1>6. CASE BufferWritten(g)
  <2>1. data'[i] = data[i] \o buf[g] /\ full' = full /\ pos'[g] = Len(data[i]) + Len(buf[g])
    BY <1>0, <1>1, <1>6, WrittenAtEnd DEF BufferWritten
  <2>2. data[i] \in Seq(Piece) /\ buf[g] \in Seq(Piece)
    BY <1>0, <1>1
  <2>3. Len(data'[i]) = Len(data[i]) + Len(buf[g])
    BY <2>1, <2>2, ConcatProperties
  <2>4. CASE data[i] = SubSeq(Whole(g), 1, w)
    <3>1. /\ Whole(g) \in Seq(Piece) /\ 1 \in 1 .. Len(Whole(g)) + 1
          /\ w \in 1 - 1 .. Len(Whole(g)) /\ m \in w .. Len(Whole(g))
      BY <1>0, <1>2, WholeIsSeq
    <3>2. SubSeq(Whole(g), 1, w) \o SubSeq(Whole(g), w + 1, m) = SubSeq(Whole(g), 1, m)
      BY <3>1, ConcatAdjacentSubSeq
    <3>3. data'[i] = SubSeq(Whole(g), 1, m)
      BY <1>2, <2>1, <2>4, <3>2
    <3> QED
      BY <1>2, <1>3, <1>4, <1>5, <2>1, <2>3, <3>3 DEF FileInv
  <2>5. CASE full /\ Gappy(g, data[i], w)
    <3>1. Gappy(g, data'[i], m)
      BY <1>0, <1>2, <2>1, <2>2, <2>5, GapWritten
    <3> QED
      BY <1>2, <1>3, <1>4, <1>5, <2>1, <2>3, <2>5, <3>1 DEF FileInv
  <2> QED
    BY <1>2, <2>4, <2>5
<1>7. CASE BufferDropped(g) /\ Len(buf[g]) >= 2
  <2>1. data' = data /\ pos' = pos /\ full' = TRUE
    BY <1>7 DEF BufferDropped
  <2>2. data[i] \in Seq(Piece) /\ w + 2 <= m
    BY <1>0, <1>1, <1>2, <1>7
  <2>3. Gappy(g, data[i], m)
    BY <1>0, <1>2, <2>2, GapDropped
  <2> QED
    BY <1>1, <1>2, <1>3, <1>4, <1>5, <2>1, <2>3 DEF FileInv
<1> QED
  BY <1>6, <1>7

\* One piece more in the buffer.
LEMMA PutKeepsFile ==
  ASSUME TypeOK, NEW g \in Generators, GeneratorInv(g), Put(g)
  PROVE  FileInv(g)'
<1> DEFINE w == Gone(g)
           m == made[g]
<1>0. /\ buf \in [Generators -> Seq(Piece)] /\ made \in [Generators -> Nat] /\ g \in Writers
  BY HoleIsPiece DEF TypeOK, Writers
<1>1. FileInv(g) /\ m < Len(Whole(g)) /\ data' = data /\ full' = full /\ fd' = fd
      /\ made'[g] = m + 1 /\ buf'[g] = Append(buf[g], Whole(g)[m + 1])
  BY <1>0 DEF GeneratorInv, HasFile, Put, disk
<1>2. /\ w \in Nat /\ m \in Nat /\ w <= m /\ Len(buf[g]) \in Nat /\ w = m - Len(buf[g])
      /\ buf[g] = SubSeq(Whole(g), w + 1, m) /\ Len(Whole(g)) \in Nat
      /\ Whole(g) \in Seq(Piece) /\ Whole(g)[m + 1] \in Piece
  <2>1. Len(buf[g]) \in Nat /\ m \in Nat /\ w = m - Len(buf[g])
    BY <1>0 DEF Gone
  <2>2. Whole(g) \in Seq(Piece) /\ Len(Whole(g)) \in Nat
    BY <1>0, WholeIsSeq
  <2>3. m + 1 \in 1 .. Len(Whole(g))
    BY <1>1, <2>1, <2>2
  <2>4. Whole(g)[m + 1] \in Piece
    BY <2>2, <2>3, ElementOfSeq
  <2>5. buf[g] = SubSeq(Whole(g), w + 1, m) /\ w \in Nat
    BY <1>1 DEF FileInv
  <2> HIDE DEF w, m
  <2>6. w <= m
    BY <2>1, <2>5
  <2> QED
    BY <2>1, <2>2, <2>4, <2>5, <2>6
<1>3. buf[g] \in Seq(Piece) /\ Len(buf'[g]) = Len(buf[g]) + 1 /\ Gone(g)' = w
  <2>1. Len(buf'[g]) = Len(buf[g]) + 1 /\ buf[g] \in Seq(Piece)
    BY <1>0, <1>1
  <2>2. Gone(g)' = (m + 1) - (Len(buf[g]) + 1)
    BY <1>1, <2>1 DEF Gone
  <2> HIDE DEF w, m
  <2> QED
    BY <1>2, <2>1, <2>2
<1> HIDE DEF w, m
<1>4. buf'[g] = SubSeq(Whole(g), w + 1, m + 1)
  <2> DEFINE t == SubSeq(Whole(g), w + 1, m + 1)
             b == buf[g]
             p == Whole(g)[m + 1]
             n == Len(Whole(g))
             l == Len(b)
  <2>a. w \in Nat /\ m \in Nat /\ w <= m /\ l \in Nat /\ w = m - l /\ n \in Nat /\ m < n
    BY <1>1, <1>2
  <2> HIDE DEF n, l
  <2>0. m + 1 \in Nat /\ w <= m + 1 /\ m + 1 <= n /\ m <= n /\ l = m - w
    BY <2>a
  <2> USE DEF n, l
  <2>1. t \in Seq(Piece) /\ Len(t) = (m + 1) - w
        /\ \A k \in 1 .. (m + 1) - w : t[k] = Whole(g)[w + k]
    BY <1>0, <1>2, <2>0, PartOfWhole
  <2>2. \A k \in 1 .. m - w : b[k] = Whole(g)[w + k]
    <3>1. \A k \in 1 .. m - w : SubSeq(Whole(g), w + 1, m)[k] = Whole(g)[w + k]
      BY <1>0, <2>a, <2>0, PartOfWhole
    <3> QED
      BY <1>2, <3>1
  <2>3. b \in Seq(Piece) /\ p \in Piece /\ buf'[g] = Append(b, p)
    BY <1>1, <1>2, <1>3
  <2> HIDE DEF t, b, p
  <2>4. /\ Append(b, p) \in Seq(Piece) /\ Len(Append(b, p)) = Len(b) + 1
        /\ Append(b, p)[Len(b) + 1] = p
        /\ \A k \in 1 .. Len(b) : Append(b, p)[k] = b[k]
    BY <2>3, AppendProperties
  <2>5. Len(b) + 1 = (m + 1) - w /\ w + (Len(b) + 1) = m + 1
        /\ 1 .. (m + 1) - w = (1 .. Len(b)) \cup {Len(b) + 1} /\ 1 .. m - w = 1 .. Len(b)
    <3> HIDE DEF n, l
    <3>1. /\ l + 1 = (m + 1) - w /\ w + (l + 1) = m + 1
          /\ 1 .. (m + 1) - w = (1 .. l) \cup {l + 1} /\ 1 .. m - w = 1 .. l
      BY <2>a, <2>0
    <3> QED
      BY <3>1 DEF l
  <2>6. t[Len(b) + 1] = p
    BY <2>1, <2>5 DEF p
  <2>7. \A k \in 1 .. Len(t) : Append(b, p)[k] = t[k]
    BY <2>1, <2>2, <2>4, <2>5, <2>6
  <2>8. Append(b, p) = t
    BY <2>1, <2>4, <2>5, <2>7, SeqEqual
  <2> QED
    BY <2>3, <2>8 DEF t
<1>5. made'[g] <= Len(Whole(g)) /\ made'[g] = m + 1
  BY <1>1, <1>2
<1>6. data'[fd'[g]] = SubSeq(Whole(g), 1, w) \/ (full' /\ Gappy(g, data'[fd'[g]], w))
  BY <1>1 DEF FileInv, w
<1> QED
  BY <1>2, <1>3, <1>4, <1>5, <1>6 DEF FileInv

\* A run keeps its own part of the invariant.
LEMMA OwnStep ==
  ASSUME TypeOK, IInv, NEW g \in Generators, Generate(g) \/ Kill(g), LocalStep(g)
  PROVE  GeneratorInv(g)'
<1>0. /\ data \in [Writers -> Seq(Piece)] /\ synced \in [Writers -> Nat]
      /\ names \in [Names -> Writers \cup {NoInode}]
      /\ pc \in [Generators -> Running \cup {"published", "failed", "dead"}]
      /\ fd \in [Generators -> Writers \cup {NoInode}]
      /\ pos \in [Generators -> Nat] /\ made \in [Generators -> Nat]
      /\ buf \in [Generators -> Seq(Piece)]
  BY HoleIsPiece DEF TypeOK
<1>1. /\ TmpName[g] \in Names /\ Target \in Names /\ TmpName[g] # Target
      /\ g \in Writers /\ NoInode \notin Writers /\ g # Old
  BY IndexFileAssumption DEF Names, Writers
<1>2. /\ fd[g] # NoInode => Owned(g, fd[g])
      /\ names[TmpName[g]] # NoInode =>
           Owned(g, names[TmpName[g]]) /\ names[TmpName[g]] \notin were
      /\ pc[g] = "start" =>
           /\ fd[g] = NoInode /\ pos[g] = 0 /\ made[g] = 0 /\ buf[g] = <<>> /\ g \notin were
      /\ pc[g] \in HasFile => fd[g] # NoInode /\ fd[g] = names[TmpName[g]] /\ FileInv(g)
      /\ pc[g] = "writing" => pos[g] = Len(data[fd[g]])
      /\ pc[g] \in {"flushed", "synced", "closed"} => made[g] = Len(Whole(g)) /\ buf[g] = <<>>
      /\ pc[g] \in {"synced", "closed"} => synced[fd[g]] = Len(data[fd[g]])
  BY <1>1 DEF IInv, GeneratorInv, TargetInv, HasFile
<1>3. \A i : Owned(g, i) => OwnedNext(g, i)
  BY DEF Owned, OwnedNext, LocalStep
<1>4. pc[g] # "closed" => were' = were
  BY DEF LocalStep
<1>5. SUFFICES /\ fd'[g] # NoInode => OwnedNext(g, fd'[g])
               /\ names'[TmpName[g]] # NoInode =>
                    OwnedNext(g, names'[TmpName[g]]) /\ names'[TmpName[g]] \notin were'
               /\ pc'[g] \in HasFile =>
                    fd'[g] # NoInode /\ fd'[g] = names'[TmpName[g]] /\ FileInv(g)'
               /\ pc'[g] = "writing" => pos'[g] = Len(data'[fd'[g]])
               /\ pc'[g] \in HasFile /\ pc'[g] # "writing" =>
                    made'[g] = Len(Whole(g)) /\ buf'[g] = <<>>
               /\ pc'[g] \in {"synced", "closed"} => synced'[fd'[g]] = Len(data'[fd'[g]])
  BY DEF GeneratorInv, Owned, OwnedNext, LocalStep
<1> USE DEF HasFile
<1>Open. CASE Open(g)
  <2> DEFINE file == IF names[TmpName[g]] = NoInode THEN g ELSE names[TmpName[g]]
  <2>0. /\ pc[g] = "start" /\ pc' = [pc EXCEPT ![g] = "writing"] /\ fd' = [fd EXCEPT ![g] = file]
        /\ names' = [names EXCEPT ![TmpName[g]] = file]
        /\ data' = [data EXCEPT ![file] = <<>>]
        /\ UNCHANGED <<were, pos, made, buf>>
    BY <1>Open DEF Open
  <2>1. file \in Writers /\ file \notin were
    BY <1>0, <1>1, <1>2, <2>0
  <2>2. OwnedNext(g, file)
    <3>1. CASE file = g
      BY <1>0, <3>1 DEF OwnedNext, LocalStep
    <3>2. CASE file # g
      BY <1>2, <1>3, <3>2
    <3> QED
      BY <3>1, <3>2
  <2> HIDE DEF file
  <2>3. /\ pc'[g] = "writing" /\ fd'[g] = file /\ names'[TmpName[g]] = file /\ data'[file] = <<>>
        /\ pos'[g] = 0 /\ made'[g] = 0 /\ buf'[g] = <<>> /\ were' = were
    BY <1>0, <1>1, <1>2, <2>0, <2>1
  <2>4. FileInv(g)'
    <3>1. Len(buf'[g]) = 0 /\ Gone(g)' = made'[g] - Len(buf'[g])
      BY <2>3 DEF Gone
    <3>2. Gone(g)' = 0
      BY <2>3, <3>1
    <3>3. SubSeq(Whole(g), 1, 0) = <<>> /\ SubSeq(Whole(g), 0 + 1, 0) = <<>>
      BY SubSeqEmpty
    <3>4. Len(Whole(g)) \in Nat
      BY <1>1, WholeIsSeq
    <3> QED
      BY <2>3, <3>2, <3>3, <3>4 DEF FileInv
  <2> QED
    BY <1>1, <2>1, <2>2, <2>3, <2>4
<1>OpenFails. CASE OpenFails(g)
  <2>1. pc'[g] = "failed" /\ fd' = fd /\ names' = names /\ pc[g] = "start"
    BY <1>0, <1>OpenFails DEF OpenFails, disk
  <2> QED
    BY <1>2, <1>3, <1>4, <2>1
<1>Put. CASE Put(g)
  <2>1. /\ pc[g] = "writing" /\ pc' = pc /\ fd' = fd /\ names' = names /\ pos' = pos /\ data' = data
    BY <1>Put DEF Put, disk
  <2>2. FileInv(g)'
    BY <1>Put, PutKeepsFile DEF IInv
  <2> QED
    BY <1>2, <1>3, <1>4, <2>1, <2>2
<1>WriteOut. CASE WriteOut(g)
  <2>1. /\ pc[g] = "writing" /\ pc' = pc /\ fd' = fd /\ names' = names /\ made' = made
        /\ BufferWritten(g) \/ (BufferDropped(g) /\ Len(buf[g]) >= 2)
    BY <1>WriteOut DEF WriteOut
  <2>2. FileInv(g)' /\ buf'[g] = <<>> /\ pos'[g] = Len(data'[fd'[g]])
    BY <2>1, BufferKeepsFile DEF IInv
  <2> QED
    BY <1>2, <1>3, <1>4, <2>1, <2>2
<1>Abandon. CASE Abandon(g)
  <2>1. pc'[g] = "failed" /\ fd' = fd /\ names'[TmpName[g]] = NoInode
    BY <1>0, <1>1, <1>Abandon DEF Abandon, Unlink
  <2> QED
    BY <1>2, <1>3, <2>1
<1>Flush. CASE Flush(g)
  <2>1. /\ pc[g] = "writing" /\ pc'[g] = "flushed" /\ fd' = fd /\ names' = names /\ made' = made
        /\ made[g] = Len(Whole(g)) /\ BufferWritten(g)
    BY <1>0, <1>Flush DEF Flush
  <2>2. FileInv(g)' /\ buf'[g] = <<>>
    BY <2>1, BufferKeepsFile DEF IInv
  <2> QED
    BY <1>2, <1>3, <1>4, <2>1, <2>2
<1>Sync. CASE Sync(g)
  <2>0. pc[g] = "flushed" /\ fd[g] \in Writers
    BY <1>0, <1>2, <1>Sync DEF Sync
  <2>1. /\ pc'[g] = "synced" /\ synced'[fd[g]] = Len(data[fd[g]]) /\ data' = data
        /\ UNCHANGED <<names, fd, pos, made, buf, full>>
    BY <1>0, <1>Sync, <2>0 DEF Sync
  <2>2. FileInv(g)'
    BY <1>2, <2>0, <2>1, FileKept
  <2> QED
    BY <1>2, <1>3, <1>4, <2>0, <2>1, <2>2
<1>Close. CASE Close(g)
  <2>1. /\ pc[g] = "synced" /\ pc'[g] = "closed"
        /\ UNCHANGED <<data, synced, names, fd, pos, made, buf, full>>
    BY <1>0, <1>Close DEF Close, disk
  <2>2. FileInv(g)'
    BY <1>2, <2>1, FileKept
  <2> QED
    BY <1>2, <1>3, <1>4, <2>1, <2>2
<1>Publish. CASE Publish(g)
  <2>1. pc'[g] = "published" /\ names'[TmpName[g]] = NoInode /\ fd' = fd
    BY <1>0, <1>1, <1>Publish DEF Publish
  <2> QED
    BY <1>2, <1>3, <2>1
<1>Fail. CASE Fail(g)
  <2>1. pc'[g] = "failed" /\ fd' = fd /\ names'[TmpName[g]] = NoInode
    BY <1>0, <1>1, <1>Fail DEF Fail, Unlink
  <2> QED
    BY <1>2, <1>3, <2>1
<1>Kill. CASE Kill(g)
  <2>1. pc'[g] = "dead" /\ fd' = fd /\ names' = names /\ were' = were
    BY <1>0, <1>Kill DEF Kill, disk
  <2> QED
    BY <1>2, <1>3, <2>1
<1> QED
  BY <1>Open, <1>OpenFails, <1>Put, <1>WriteOut, <1>Abandon, <1>Flush, <1>Sync, <1>Close,
     <1>Publish, <1>Fail, <1>Kill DEF Generate

-----------------------------------------------------------------------------
(* The power fails, and the daemon reads.                                  *)

LEMMA PowerStep ==
  ASSUME TypeOK, IInv, PowerFails
  PROVE  IInv'
<1>0. /\ data \in [Writers -> Seq(Piece)] /\ synced \in [Writers -> Nat]
      /\ names \in [Names -> Writers \cup {NoInode}]
      /\ pc \in [Generators -> Running \cup {"published", "failed", "dead"}]
      /\ Old \in Writers /\ Generators \subseteq Writers
  BY HoleIsPiece DEF TypeOK, Writers
<1>1. PICK kept \in [Writers -> 0 .. Longest] :
        /\ \A i \in Writers : synced[i] <= kept[i] /\ kept[i] <= Len(data[i])
        /\ data' = [i \in Writers |-> SubSeq(data[i], 1, kept[i])]
        /\ synced' = kept
  BY DEF PowerFails
<1>2. PICK back \in [Names -> Writers \cup {NoInode}] :
        /\ back[Target] \in were
        /\ \A n \in Names \ {Target} :
             /\ back[n] \in {names[n], NoInode} \cup {fd[g] : g \in {h \in Generators : TmpName[h] = n}}
             /\ back[n] # back[Target]
        /\ names' = back
        /\ were' = {back[Target]}
  BY DEF PowerFails
<1>3. /\ power' = FALSE
      /\ pc' = [g \in Generators |-> IF pc[g] \in Running \ {"start"} THEN "dead" ELSE pc[g]]
      /\ buf' = [g \in Generators |-> <<>>]
      /\ reader' = "start" /\ in' = NoInode /\ taken' = <<>>
      /\ UNCHANGED <<full, fd, pos, made>>
  BY DEF PowerFails
<1>4. ASSUME NEW i \in Writers, synced[i] = Len(data[i])
      PROVE  data'[i] = data[i] /\ synced'[i] = Len(data'[i])
  <2>1. data[i] \in Seq(Piece) /\ Len(data[i]) \in Nat
    BY <1>0
  <2>2. kept[i] = Len(data[i])
    <3>1. kept[i] \in Int
      <4>1. 0 .. Longest \subseteq Int
        OBVIOUS
      <4> QED
        BY <4>1
    <3> QED
      BY <1>1, <1>4, <2>1, <3>1
  <2>3. SubSeq(data[i], 1, Len(data[i])) = data[i]
    BY <2>1, SubSeqFull
  <2> QED
    BY <1>1, <2>2, <2>3
<1>5. ASSUME NEW g \in Generators
      PROVE  pc'[g] \notin HasFile /\ (pc'[g] = "start" <=> pc[g] = "start")
  BY <1>0, <1>3 DEF HasFile, Running
<1>6. ASSUME NEW g \in Generators
      PROVE  GeneratorInv(g)'
  <2>1. GeneratorInv(g)
    BY DEF IInv
  <2>2. \A i : Owned(g, i) => OwnedNext(g, i)
    BY <1>5 DEF Owned, OwnedNext
  <2>3. TmpName[g] \in Names \ {Target}
    BY IndexFileAssumption DEF Names
  <2>4. names'[TmpName[g]] # NoInode => Owned(g, names'[TmpName[g]])
    <3> SUFFICES ASSUME names'[TmpName[g]] # NoInode
                 PROVE  Owned(g, names'[TmpName[g]])
      OBVIOUS
    <3>1. CASE names'[TmpName[g]] = names[TmpName[g]]
      BY <2>1, <3>1 DEF GeneratorInv
    <3>2. CASE names'[TmpName[g]] # names[TmpName[g]]
      <4>1. PICK h \in Generators : TmpName[h] = TmpName[g] /\ names'[TmpName[g]] = fd[h]
        BY <1>2, <2>3, <3>2
      <4>2. Owned(h, fd[h])
        BY <4>1 DEF IInv, GeneratorInv
      <4> QED
        BY <4>1, <4>2 DEF Owned
    <3> QED
      BY <3>1, <3>2
  <2>5. names'[TmpName[g]] \notin were'
    BY <1>2, <2>3
  <2>6. fd'[g] # NoInode => OwnedNext(g, fd'[g])
    BY <1>3, <2>1, <2>2 DEF GeneratorInv
  <2>7. pc'[g] = "start" => fd'[g] = NoInode /\ pos'[g] = 0 /\ made'[g] = 0 /\ buf'[g] = <<>>
    BY <1>3, <1>5, <2>1 DEF GeneratorInv
  <2> QED
    BY <1>5, <2>2, <2>4, <2>5, <2>6, <2>7 DEF GeneratorInv, Owned, OwnedNext, HasFile
<1>7. TargetInv'
  <2>1. PICK i \in were : were' = {i}
    BY <1>2
  <2>2. i \in Writers /\ Finished(i) /\ (i # Old => i \in Generators /\ pc[i] # "start")
    BY DEF IInv, TargetInv, TypeOK, Writers
  <2>3. data'[i] = data[i] /\ synced'[i] = synced[i]
    BY <1>4, <2>2 DEF Finished
  <2>4. Finished(i)'
    BY <1>3, <2>2, <2>3, FinishedKept
  <2> QED
    BY <1>5, <2>1, <2>2, <2>4 DEF TargetInv
<1>8. LitterInv'
  BY DEF PowerFails, LitterInv
<1>9. ReaderInv'
  BY <1>3 DEF ReaderInv
<1> QED
  BY <1>6, <1>7, <1>8, <1>9 DEF IInv

LEMMA LoadStep ==
  ASSUME TypeOK, IInv, Load
  PROVE  IInv'
<1>0. /\ data \in [Writers -> Seq(Piece)] /\ names[Target] \in were /\ were \subseteq Writers
      /\ taken \in Seq(Piece)
  BY HoleIsPiece DEF TypeOK
<1>1. UNCHANGED <<disk, generators>>
  BY DEF Load, Sniff, OpenIndex, ReadOn, Judge, Restart
<1>2. \A g \in Generators : GeneratorInv(g)'
  <2> TAKE g \in Generators
  <2>1. GeneratorInv(g)
    BY DEF IInv
  <2>2. FileInv(g) => FileInv(g)'
    BY <1>1, FileKept DEF disk, generators
  <2> QED
    BY <1>1, <2>1, <2>2 DEF GeneratorInv, Owned, disk, generators
<1>3. TargetInv' /\ LitterInv'
  BY <1>1 DEF IInv, TargetInv, Finished, LitterInv, disk, generators
<1>4. data' = data /\ were' = were /\ names' = names
  BY <1>1 DEF disk
<1>5. ReaderInv
  BY DEF IInv
<1>Sniff. CASE Sniff
  <2>1. taken' = <<>> /\ reader' \in {"open", "scan"}
    BY <1>5, <1>Sniff DEF Sniff, ReaderInv
  <2> QED
    BY <1>2, <1>3, <2>1 DEF IInv, ReaderInv
<1>OpenIndex. CASE OpenIndex
  <2>1. reader' = "reading" /\ in' = names[Target] /\ taken' = <<>>
    BY <1>5, <1>OpenIndex DEF OpenIndex, ReaderInv
  <2>2. Len(<<>>) = 0 /\ <<>> = SubSeq(data[names[Target]], 1, 0) /\ Len(data[names[Target]]) >= 0
    BY <1>0, SubSeqEmpty
  <2>3. ReaderInv'
    BY <1>0, <1>4, <2>1, <2>2 DEF ReaderInv
  <2> QED
    BY <1>2, <1>3, <2>3 DEF IInv
<1>ReadOn. CASE ReadOn
  <2> DEFINE file == data[in]
             n == Len(taken)
  <2>1. /\ reader = "reading" /\ reader' = "reading" /\ in' = in /\ in \in were
        /\ n < Len(file) /\ taken = SubSeq(file, 1, n) /\ taken' = Append(taken, file[n + 1])
    BY <1>5, <1>ReadOn DEF ReadOn, ReaderInv
  <2>2. file \in Seq(Piece) /\ n \in Nat /\ Len(file) \in Nat
    BY <1>0, <2>1
  <2> HIDE DEF file
  <2>3. n + 1 \in 1 .. Len(file) /\ file[n + 1] \in Piece
    BY <2>1, <2>2, ElementOfSeq
  <2>4. taken' \in Seq(Piece) /\ Len(taken') = n + 1
        /\ taken'[n + 1] = file[n + 1] /\ \A k \in 1 .. n : taken'[k] = taken[k]
    BY <1>0, <2>1, <2>3, AppendProperties
  <2> DEFINE t == SubSeq(file, 1, n + 1)
  <2>5. t \in Seq(Piece) /\ Len(t) = n + 1 /\ \A k \in 1 .. n + 1 : t[k] = file[k]
    BY <2>2, <2>3
  <2>6. \A k \in 1 .. n : taken[k] = file[k]
    BY <2>1, <2>2, <2>3
  <2> HIDE DEF t
  <2>7. \A k \in 1 .. n + 1 : taken'[k] = t[k]
    BY <2>2, <2>4, <2>5, <2>6
  <2>8. taken' = t
    BY <2>4, <2>5, <2>7, SeqEqual
  <2>9. Len(taken') <= Len(file)
    BY <2>2, <2>3, <2>4
  <2>10. ReaderInv'
    BY <1>4, <2>1, <2>4, <2>8, <2>9 DEF ReaderInv, file, t
  <2> QED
    BY <1>2, <1>3, <2>10 DEF IInv
<1>Judge. CASE Judge
  <2>1. /\ in' = in /\ taken' = taken /\ in \in were
        /\ taken = SubSeq(data[in], 1, Len(taken))
        /\ Len(taken) <= Len(data[in]) /\ Len(taken) >= Len(data[in])
        /\ reader' \in {"accepted", "refused"} /\ (reader' = "accepted" => Complete(taken))
    BY <1>5, <1>Judge DEF Judge, ReaderInv
  <2>2. data[in] \in Seq(Piece) /\ Len(taken) \in Nat /\ Len(data[in]) \in Nat
    BY <1>0, <2>1
  <2>3. Len(taken) = Len(data[in])
    BY <2>1, <2>2
  <2>4. taken = data[in]
    BY <2>1, <2>2, <2>3, SubSeqFull
  <2>5. Complete(taken) => Complete(taken)'
    BY <2>1 DEF Complete, Declared, Entries, EndsLine
  <2>6. ReaderInv'
    BY <1>4, <2>1, <2>4, <2>5 DEF ReaderInv
  <2> QED
    BY <1>2, <1>3, <2>6 DEF IInv
<1>Restart. CASE Restart
  BY <1>2, <1>3, <1>Restart DEF IInv, Restart, ReaderInv
<1> QED
  BY <1>Sniff, <1>OpenIndex, <1>ReadOn, <1>Judge, <1>Restart DEF Load

-----------------------------------------------------------------------------
(* The theorems.                                                           *)

LEMMA StepInv == TypeOK /\ IInv /\ Apart /\ Apart' /\ [Next]_vars => IInv'
<1> SUFFICES ASSUME TypeOK, IInv, Apart, Apart', [Next]_vars
             PROVE  IInv'
  OBVIOUS
<1>1. CASE \E g \in Generators : Generate(g) \/ Kill(g)
  <2>1. PICK g \in Generators : Generate(g) \/ Kill(g)
    BY <1>1
  <2>2. LocalStep(g)
    BY <2>1, StepIsLocal
  <2>3. GeneratorInv(g)'
    BY <2>1, <2>2, OwnStep
  <2>4. (\A h \in Generators \ {g} : GeneratorInv(h)') /\ TargetInv' /\ LitterInv' /\ ReaderInv'
    BY <2>2, <2>3, OthersKept
  <2> QED
    BY <2>3, <2>4 DEF IInv
<1>2. CASE PowerFails
  BY <1>2, PowerStep
<1>3. CASE Load
  BY <1>3, LoadStep
<1>4. CASE UNCHANGED vars
  <2> USE <1>4 DEF vars, disk, generators, daemon
  <2>1. ASSUME NEW g \in Generators
        PROVE  GeneratorInv(g)'
    <3>1. GeneratorInv(g) /\ (FileInv(g) => FileInv(g)')
      BY FileKept DEF IInv
    <3> QED
      BY <3>1 DEF GeneratorInv, Owned
  <2>2. TargetInv' /\ LitterInv'
    BY DEF IInv, TargetInv, Finished, LitterInv
  <2>3. Complete(taken) => Complete(taken)'
    BY DEF Complete, Declared, Entries, EndsLine
  <2>4. ReaderInv'
    BY <2>3 DEF IInv, ReaderInv
  <2> QED
    BY <2>1, <2>2, <2>4 DEF IInv
<1> QED
  BY <1>1, <1>2, <1>3, <1>4 DEF Next

\* However many runs, with lists however long, are killed, meet a full disk or a
\* power failure, and find what earlier runs of their pid left, each file that is
\* being written is what its run wrote of its index, or has gaps of two pieces at
\* least, and what the target's name stood for is not written any more.
THEOREM Invariance == Spec /\ []Apart => [](TypeOK /\ IInv)
<1>1. Init => TypeOK /\ IInv
  BY InitTyped, InitInv
<1>2. (TypeOK /\ IInv) /\ Apart /\ Apart' /\ [Next]_vars => (TypeOK /\ IInv)'
  BY NextTyped, StepInv
<1> QED
  BY <1>1, <1>2, PTL DEF Spec

\* What has or had the target's name is an index written in full, or has gaps
\* that the disk's being full made.
LEMMA PublishedOrGappy ==
  ASSUME TypeOK, IInv, NEW i \in were
  PROVE  \E g \in Writers : data[i] = Whole(g) \/ (full /\ ~Complete(data[i]))
<1>1. data[i] \in Seq(Piece)
  BY HoleIsPiece DEF TypeOK
<1>2. PICK g \in Writers : data[i] = Whole(g) \/ (full /\ Gappy(g, data[i], Len(Whole(g))))
  BY DEF IInv, TargetInv, Finished
<1> QED
  BY <1>1, <1>2, GapIsRefused

\* What IndexRead() accepts is all of one list of sources, in its order: no
\* killed run, full disk or power failure makes it serve a smaller world, for
\* the entries are counted against the header, and what a dropped buffer takes
\* out is at least a line's end and the next line's beginning, or a whole line.
THEOREM AcceptedWhole == Spec /\ []Apart => []AcceptedIsWhole
<1>1. TypeOK /\ IInv => AcceptedIsWhole
  <2> SUFFICES ASSUME TypeOK, IInv, reader = "accepted"
               PROVE  \E g \in Writers : taken = Whole(g)
    BY DEF AcceptedIsWhole
  <2>1. in \in were /\ in \in Writers /\ taken = data[in] /\ Complete(taken)
    BY DEF IInv, ReaderInv, TypeOK
  <2> QED
    BY <2>1, PublishedOrGappy
<1> QED
  BY <1>1, Invariance, PTL

\* As long as the disk has had room, the target is an index written in full.
THEOREM WholeUnlessFull == Spec /\ []Apart => []WholeUnlessDiskFilled
<1>1. TypeOK /\ IInv => WholeUnlessDiskFilled
  <2> SUFFICES ASSUME TypeOK, IInv
               PROVE  WholeUnlessDiskFilled
    OBVIOUS
  <2>1. names[Target] \in were /\ names[Target] \in Writers
    BY DEF TypeOK
  <2> QED
    BY <2>1, PublishedOrGappy DEF WholeUnlessDiskFilled, PublishedIsWhole, Published
<1> QED
  BY <1>1, Invariance, PTL

\* Runs that all have pids of their own are apart.
LEMMA OwnIsApart == OwnTemporaries => Apart
BY DEF OwnTemporaries, Apart

\* A run that has returned, with whatever status, has left no temporary, unless
\* the power failed; a later run that has its pid may have one, or have left one.
THEOREM LeavesNoLitter == OwnTemporaries /\ Spec => []NoLitter
<1> SUFFICES ASSUME OwnTemporaries
             PROVE  Spec => []NoLitter
  OBVIOUS
<1>1. Apart
  BY OwnIsApart
<1>2. IInv => NoLitter
  BY DEF IInv, LitterInv, NoLitter, OwnTemporaries, HasFile
<1> QED
  BY <1>1, <1>2, Invariance, PTL

\* Nothing but a run's rename(), or the power's failing, changes what is under the
\* target's name: neither a run that is killed nor one that fails, at any moment.
THEOREM Untouched == Spec /\ []Apart => UntouchedUnlessPublished
<1> DEFINE Allowed == Published' # Published =>
             (\E g \in Generators : pc[g] = "closed" /\ pc'[g] = "published") \/ power' # power
<1>1. TypeOK /\ IInv /\ [Next]_vars => [Allowed]_vars
  <2> SUFFICES ASSUME TypeOK, IInv, [Next]_vars, Published' # Published
               PROVE  (\E g \in Generators : pc[g] = "closed" /\ pc'[g] = "published")
                      \/ power' # power
    OBVIOUS
  <2>1. CASE \E g \in Generators : Generate(g) \/ Kill(g)
    <3>1. PICK g \in Generators : Generate(g) \/ Kill(g)
      BY <2>1
    <3>2. LocalStep(g)
      BY <3>1, StepIsLocal
    <3>3. names[Target] \in were /\ names[Target] \in Writers
      BY DEF TypeOK
    <3>4. data'[names[Target]] = data[names[Target]]
      BY <3>2, <3>3 DEF LocalStep
    <3>5. names'[Target] # names[Target]
      BY <3>4 DEF Published
    <3> QED
      BY <3>2, <3>5 DEF LocalStep
  <2>2. CASE PowerFails
    BY <2>2 DEF PowerFails
  <2>3. CASE Load
    BY <2>3 DEF Load, Sniff, OpenIndex, ReadOn, Judge, Restart, disk, Published
  <2>4. CASE UNCHANGED vars
    BY <2>4 DEF vars, disk, Published
  <2> QED
    BY <2>1, <2>2, <2>3, <2>4 DEF Next
<1> QED
  BY <1>1, Invariance, PTL DEF Spec, UntouchedUnlessPublished
===============================================================================
