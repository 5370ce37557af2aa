--------------------------- MODULE OpenFiles_proofs ---------------------------
(***************************************************************************)
(* Proofs about one context's open files, for any number of files, cap and *)
(* ceiling, and however long the clock runs.                               *)
(***************************************************************************)
EXTENDS OpenFiles, SequenceTheorems, FiniteSetTheorems, WellFoundedInduction, TLAPS

-----------------------------------------------------------------------------
(* Moving to the head of a list, and giving up its tail.                   *)

\* Taking the i-th element out moves those after it one place up.
LEMMA RemoveAtProperties ==
  ASSUME NEW S, NEW s \in Seq(S), NEW i \in 1 .. Len(s)
  PROVE  /\ RemoveAt(s, i) \in Seq(S)
         /\ Len(RemoveAt(s, i)) = Len(s) - 1
         /\ \A k \in 1 .. Len(s) - 1 :
              RemoveAt(s, i)[k] = IF k < i THEN s[k] ELSE s[k + 1]
<1> DEFINE before == SubSeq(s, 1, i - 1)
           after == SubSeq(s, i + 1, Len(s))
<1>1. Len(s) \in Nat /\ \A k \in 1 .. Len(s) : s[k] \in S
  BY LenProperties, ElementOfSeq
<1>2. /\ before \in Seq(S) /\ Len(before) = i - 1
      /\ \A k \in 1 .. i - 1 : before[k] = s[k]
  <2>1. \A k \in 1 .. i - 1 : s[k] \in S
    BY <1>1
  <2>2. /\ before \in Seq(S)
        /\ Len(before) = IF 1 <= i - 1 THEN i - 1 - 1 + 1 ELSE 0
        /\ \A k \in 1 .. i - 1 - 1 + 1 : before[k] = s[1 + k - 1]
    BY <1>1, <2>1, SubSeqProperties
  <2> QED  BY <1>1, <2>2
<1>3. /\ after \in Seq(S) /\ Len(after) = Len(s) - i
      /\ \A k \in 1 .. Len(s) - i : after[k] = s[i + k]
  <2>1. \A k \in i + 1 .. Len(s) : s[k] \in S
    BY <1>1
  <2>2. /\ after \in Seq(S)
        /\ Len(after) = IF i + 1 <= Len(s) THEN Len(s) - (i + 1) + 1 ELSE 0
        /\ \A k \in 1 .. Len(s) - (i + 1) + 1 : after[k] = s[i + 1 + k - 1]
    BY <1>1, <2>1, SubSeqProperties
  <2> QED  BY <1>1, <2>2
<1> HIDE DEF before, after
<1>4. /\ before \o after \in Seq(S)
      /\ Len(before \o after) = Len(before) + Len(after)
      /\ \A k \in 1 .. Len(before) + Len(after) : (before \o after)[k] =
           IF k <= Len(before) THEN before[k] ELSE after[k - Len(before)]
  BY <1>2, <1>3, ConcatProperties
<1>5. ASSUME NEW k \in 1 .. Len(s) - 1
      PROVE  (before \o after)[k] = IF k < i THEN s[k] ELSE s[k + 1]
  <2>1. (before \o after)[k] = IF k <= i - 1 THEN before[k] ELSE after[k - (i - 1)]
    BY <1>1, <1>2, <1>3, <1>4
  <2>2. k < i => before[k] = s[k]
    BY <1>1, <1>2
  <2>3. ~(k < i) => after[k - (i - 1)] = s[i + (k - (i - 1))]
    BY <1>1, <1>3
  <2>4. i + (k - (i - 1)) = k + 1 /\ (k <= i - 1 <=> k < i)
    BY <1>1
  <2> QED  BY <2>1, <2>2, <2>3, <2>4
<1>6. Len(before \o after) = Len(s) - 1
  BY <1>1, <1>2, <1>3, <1>4
<1>7. RemoveAt(s, i) = before \o after
  BY DEF RemoveAt, before, after
<1> QED  BY <1>4, <1>5, <1>6, <1>7

\* Putting an element first moves the others one place down.
LEMMA PrependProperties ==
  ASSUME NEW S, NEW s \in Seq(S), NEW f \in S
  PROVE  /\ <<f>> \o s \in Seq(S)
         /\ Len(<<f>> \o s) = Len(s) + 1
         /\ (<<f>> \o s)[1] = f
         /\ \A k \in 2 .. Len(s) + 1 : (<<f>> \o s)[k] = s[k - 1]
<1>1. <<f>> \in Seq(S) /\ Len(<<f>>) = 1 /\ <<f>>[1] = f
  OBVIOUS
<1>2. Len(s) \in Nat
  BY LenProperties
<1>3. /\ <<f>> \o s \in Seq(S)
      /\ Len(<<f>> \o s) = Len(<<f>>) + Len(s)
      /\ \A k \in 1 .. Len(<<f>>) + Len(s) : (<<f>> \o s)[k] =
           IF k <= Len(<<f>>) THEN <<f>>[k] ELSE s[k - Len(<<f>>)]
  BY <1>1, ConcatProperties
<1> QED  BY <1>1, <1>2, <1>3

\* Moving f to the head, when it is the i-th: the elements before it go one place
\* down, and the others stay.
LEMMA ToHeadListed ==
  ASSUME NEW S, NEW s \in Seq(S), IsInjective(s), NEW i \in 1 .. Len(s),
         NEW f \in S, s[i] = f
  PROVE  /\ ToHead(f, s) \in Seq(S)
         /\ Len(ToHead(f, s)) = Len(s)
         /\ \A k \in 1 .. Len(s) : ToHead(f, s)[k] =
              IF k = 1 THEN f ELSE IF k <= i THEN s[k - 1] ELSE s[k]
<1> DEFINE rest == RemoveAt(s, i)
<1>1. Len(s) \in Nat /\ DOMAIN s = 1 .. Len(s)
  BY LenProperties
<1>2. f \in Range(s)
  BY <1>1 DEF Range
<1>3. (CHOOSE k \in 1 .. Len(s) : s[k] = f) = i
  BY <1>1 DEF IsInjective
<1>4. ToHead(f, s) = <<f>> \o rest
  BY <1>2, <1>3 DEF ToHead
<1>5. /\ rest \in Seq(S) /\ Len(rest) = Len(s) - 1
      /\ \A k \in 1 .. Len(s) - 1 : rest[k] = IF k < i THEN s[k] ELSE s[k + 1]
  BY RemoveAtProperties
<1> HIDE DEF rest
<1>6. rest \in Seq(S)
  BY <1>5
<1>7. /\ <<f>> \o rest \in Seq(S)
      /\ Len(<<f>> \o rest) = Len(rest) + 1
      /\ (<<f>> \o rest)[1] = f
      /\ \A k \in 2 .. Len(rest) + 1 : (<<f>> \o rest)[k] = rest[k - 1]
  BY <1>6, PrependProperties
<1>8. \A k \in 1 .. Len(s) : ToHead(f, s)[k] =
        IF k = 1 THEN f ELSE IF k <= i THEN s[k - 1] ELSE s[k]
  BY <1>1, <1>4, <1>5, <1>7
<1>9. Len(ToHead(f, s)) = Len(s)
  <2>1. Len(ToHead(f, s)) = Len(rest) + 1
    BY <1>4, <1>7
  <2> QED  BY <1>1, <1>5, <2>1
<1> QED  BY <1>4, <1>7, <1>8, <1>9

\* What moving f to the head keeps: the elements, and that they are distinct.
LEMMA ToHeadProperties ==
  ASSUME NEW S, NEW s \in Seq(S), IsInjective(s), NEW f \in S
  PROVE  /\ ToHead(f, s) \in Seq(S)
         /\ IsInjective(ToHead(f, s))
         /\ Range(ToHead(f, s)) = Range(s) \cup {f}
         /\ f \in Range(s) => Len(ToHead(f, s)) = Len(s)
         /\ f \notin Range(s) => ToHead(f, s) = <<f>> \o s
<1> DEFINE t == ToHead(f, s)
<1>1. Len(s) \in Nat /\ DOMAIN s = 1 .. Len(s)
  BY LenProperties
<1>2. CASE f \in Range(s)
  <2>1. PICK i \in 1 .. Len(s) : s[i] = f
    BY <1>1, <1>2 DEF Range
  <2>2. /\ t \in Seq(S) /\ Len(t) = Len(s)
        /\ \A k \in 1 .. Len(s) : t[k] =
             IF k = 1 THEN f ELSE IF k <= i THEN s[k - 1] ELSE s[k]
    BY <2>1, ToHeadListed
  <2> HIDE DEF t
  <2>3. DOMAIN t = 1 .. Len(s)
    BY <2>2, LenProperties
  <2>4. IsInjective(t)
    BY <1>1, <2>1, <2>2, <2>3 DEF IsInjective
  <2>5. Range(t) \subseteq Range(s)
    BY <1>1, <1>2, <2>1, <2>2, <2>3 DEF Range
  <2>6. ASSUME NEW k \in 1 .. Len(s) PROVE s[k] \in Range(t)
    <3>1. CASE k = i
      BY <1>1, <2>1, <2>2, <2>3, <3>1 DEF Range
    <3>2. CASE k < i
      <4>1. t[k + 1] = s[k] /\ k + 1 \in DOMAIN t
        BY <1>1, <2>2, <2>3, <3>2
      <4> QED  BY <4>1 DEF Range
    <3>3. CASE k > i
      <4>1. t[k] = s[k] /\ k \in DOMAIN t
        BY <1>1, <2>2, <2>3, <3>3
      <4> QED  BY <4>1 DEF Range
    <3> QED  BY <1>1, <3>1, <3>2, <3>3
  <2>7. Range(s) \subseteq Range(t)
    BY <1>1, <2>6 DEF Range
  <2> QED  BY <1>2, <2>2, <2>4, <2>5, <2>7 DEF t
<1>3. CASE f \notin Range(s)
  <2>1. t = <<f>> \o s
    BY <1>3 DEF ToHead
  <2>2. /\ t \in Seq(S)
        /\ Len(t) = Len(s) + 1
        /\ t[1] = f
        /\ \A k \in 2 .. Len(s) + 1 : t[k] = s[k - 1]
    BY <2>1, PrependProperties
  <2> HIDE DEF t
  <2>3. DOMAIN t = 1 .. Len(s) + 1
    BY <2>2, LenProperties
  <2>4. \A k \in 1 .. Len(s) : s[k] # f
    BY <1>1, <1>3 DEF Range
  <2>5. IsInjective(t)
    <3>1. \A k \in 2 .. Len(s) + 1 : k - 1 \in 1 .. Len(s) /\ t[k] = s[k - 1]
      BY <1>1, <2>2
    <3>2. \A k \in 2 .. Len(s) + 1 : t[k] # f
      BY <2>4, <3>1
    <3>3. ASSUME NEW k \in DOMAIN t, NEW l \in DOMAIN t, t[k] = t[l] PROVE k = l
      <4>1. CASE k = 1 \/ l = 1
        BY <1>1, <2>2, <2>3, <3>2, <3>3, <4>1
      <4>2. CASE k # 1 /\ l # 1
        <5>1. /\ k \in 2 .. Len(s) + 1 /\ l \in 2 .. Len(s) + 1
              /\ k - 1 \in DOMAIN s /\ l - 1 \in DOMAIN s
          BY <1>1, <2>3, <4>2
        <5>2. s[k - 1] = s[l - 1]
          BY <3>1, <3>3, <5>1
        <5>3. k - 1 = l - 1
          BY <5>1, <5>2 DEF IsInjective
        <5> QED  BY <5>1, <5>3
      <4> QED  BY <4>1, <4>2
    <3> QED  BY <3>3 DEF IsInjective
  <2>6. \A k \in 1 .. Len(s) : k + 1 \in DOMAIN t /\ t[k + 1] = s[k]
    BY <1>1, <2>2, <2>3
  <2>7. Range(t) = Range(s) \cup {f}
    BY <1>1, <2>2, <2>3, <2>6 DEF Range
  <2> QED  BY <1>3, <2>1, <2>2, <2>5, <2>7 DEF t
<1> QED  BY <1>2, <1>3

\* The same, fact by fact, which is how the provers find them.
LEMMA ToHeadDistinct ==
  ASSUME NEW S, NEW s \in Seq(S), IsInjective(s), NEW f \in S
  PROVE  IsInjective(ToHead(f, s))
BY ToHeadProperties

\* Moving f to the head lists f and what was listed.
LEMMA ToHeadRange ==
  ASSUME NEW S, NEW s \in Seq(S), IsInjective(s), NEW f \in S
  PROVE  Range(ToHead(f, s)) = Range(s) \cup {f}
BY ToHeadProperties

\* Moving f to the head leaves a list of files.
LEMMA ToHeadSeq ==
  ASSUME NEW S, NEW s \in Seq(S), IsInjective(s), NEW f \in S
  PROVE  ToHead(f, s) \in Seq(S)
BY ToHeadProperties

\* The first n elements.
LEMMA FrontProperties ==
  ASSUME NEW S, NEW s \in Seq(S), NEW n \in 0 .. Len(s)
  PROVE  /\ SubSeq(s, 1, n) \in Seq(S)
         /\ Len(SubSeq(s, 1, n)) = n
         /\ \A k \in 1 .. n : SubSeq(s, 1, n)[k] = s[k]
         /\ Range(SubSeq(s, 1, n)) \subseteq Range(s)
<1>1. /\ Len(s) \in Nat /\ n \in Nat /\ DOMAIN s = 1 .. Len(s)
      /\ \A k \in 1 .. n : s[k] \in S
  BY LenProperties, ElementOfSeq
<1> DEFINE t == SubSeq(s, 1, n)
<1>2. /\ t \in Seq(S)
      /\ Len(t) = IF 1 <= n THEN n - 1 + 1 ELSE 0
      /\ \A k \in 1 .. n - 1 + 1 : t[k] = s[1 + k - 1]
  BY <1>1, SubSeqProperties
<1> HIDE DEF t
<1>3. Len(t) = n
  BY <1>1, <1>2
<1>4. \A k \in 1 .. n : t[k] = s[k]
  BY <1>1, <1>2
<1>5. DOMAIN t = 1 .. n
  BY <1>2, <1>3, LenProperties
<1>6. Range(t) \subseteq Range(s)
  BY <1>1, <1>4, <1>5 DEF Range
<1> QED  BY <1>2, <1>3, <1>4, <1>6 DEF t

\* Putting a new element first, and keeping the n that come before the rest.
LEMMA PushProperties ==
  ASSUME NEW S, NEW s \in Seq(S), IsInjective(s), NEW n \in 0 .. Len(s),
         NEW f \in S, f \notin Range(s), NEW t, t = <<f>> \o SubSeq(s, 1, n)
  PROVE  /\ t \in Seq(S) /\ Len(t) = n + 1
         /\ t[1] = f /\ \A k \in 2 .. n + 1 : t[k] = s[k - 1]
         /\ IsInjective(t)
         /\ Range(t) = {f} \cup Range(SubSeq(s, 1, n))
<1> DEFINE kept == SubSeq(s, 1, n)
<1>1. Len(s) \in Nat /\ n \in Nat /\ n <= Len(s) /\ DOMAIN s = 1 .. Len(s)
  BY LenProperties
<1>2. /\ kept \in Seq(S) /\ Len(kept) = n
      /\ \A k \in 1 .. n : kept[k] = s[k]
  BY FrontProperties
<1> HIDE DEF kept
<1>3. kept \in Seq(S) /\ DOMAIN kept = 1 .. n
  BY <1>2, LenProperties
<1>4. t = <<f>> \o kept
  BY DEF kept
<1>5. /\ t \in Seq(S) /\ Len(t) = Len(kept) + 1
      /\ t[1] = f /\ \A k \in 2 .. Len(kept) + 1 : t[k] = kept[k - 1]
  BY <1>3, <1>4, PrependProperties
<1>6. Len(t) = n + 1 /\ \A k \in 2 .. n + 1 : t[k] = kept[k - 1]
  BY <1>2, <1>5
<1>7. DOMAIN t = 1 .. n + 1
  BY <1>5, <1>6, LenProperties
<1>8. \A k \in 2 .. n + 1 : k - 1 \in 1 .. n /\ t[k] = s[k - 1]
  BY <1>1, <1>2, <1>6
<1>9. \A k \in 1 .. n : s[k] # f /\ k \in DOMAIN s
  BY <1>1 DEF Range
<1>10. IsInjective(t)
  <2>1. ASSUME NEW k \in DOMAIN t, NEW l \in DOMAIN t, t[k] = t[l] PROVE k = l
    <3>1. k \in {1} \cup 2 .. n + 1 /\ l \in {1} \cup 2 .. n + 1
      BY <1>1, <1>7
    <3>2. CASE k = 1 \/ l = 1
      BY <1>5, <1>8, <1>9, <2>1, <3>1, <3>2
    <3>3. CASE k \in 2 .. n + 1 /\ l \in 2 .. n + 1
      <4>1. s[k - 1] = s[l - 1] /\ k - 1 \in DOMAIN s /\ l - 1 \in DOMAIN s
        BY <1>8, <1>9, <2>1, <3>3
      <4>2. k - 1 = l - 1
        BY <4>1 DEF IsInjective
      <4> QED  BY <3>3, <4>2
    <3> QED  BY <3>1, <3>2, <3>3
  <2> QED  BY <2>1 DEF IsInjective
<1>11. Range(t) = {f} \cup Range(kept)
  <2>1. \A k \in 1 .. n : k + 1 \in DOMAIN t /\ t[k + 1] = kept[k]
    <3>1. \A k \in 1 .. n : k + 1 \in 2 .. n + 1 /\ k + 1 \in 1 .. n + 1 /\ k + 1 - 1 = k
      BY <1>1
    <3> QED  BY <1>6, <1>7, <3>1
  <2>2. \A k \in DOMAIN t : k = 1 \/ (k - 1 \in DOMAIN kept /\ t[k] = kept[k - 1])
    <3>1. \A k \in DOMAIN t : k = 1 \/ k \in 2 .. n + 1
      BY <1>1, <1>7
    <3> QED  BY <1>3, <1>6, <1>8, <3>1
  <2>3. 1 \in DOMAIN t
    BY <1>1, <1>7
  <2>4. Range(t) \subseteq {f} \cup Range(kept)
    BY <1>5, <2>2 DEF Range
  <2>5. Range(kept) \subseteq Range(t)
    BY <1>3, <2>1 DEF Range
  <2>6. f \in Range(t)
    BY <1>5, <2>3 DEF Range
  <2> QED  BY <2>4, <2>5, <2>6
<1> QED  BY <1>5, <1>6, <1>8, <1>10, <1>11 DEF kept

-----------------------------------------------------------------------------
(* The list of open datasets.                                              *)

\* The types of what the list is about.
ListTyped ==
  /\ lru \in Seq(Files) /\ recency \in Seq(Files)
  /\ num_open \in Nat
  /\ open \in [Files -> BOOLEAN]

\* The list, the count and the handles agree, and the cap holds.
Tracked ==
  /\ OpenOnes = Range(lru)
  /\ IsInjective(lru)
  /\ num_open = Len(lru)
  /\ MaxOpen > 0 => num_open <= MaxOpen

\* Under a cap the list is what comes first in the history of uses, as much of it
\* as the cap lets stay; without one it holds all that was used.
Recent ==
  /\ IsInjective(recency)
  /\ MaxOpen = 0 => Range(lru) = Range(recency)
  /\ MaxOpen > 0 =>
       /\ Len(lru) <= Len(recency)
       /\ Len(lru) < MaxOpen => Len(lru) = Len(recency)
       /\ \A k \in 1 .. Len(lru) : lru[k] = recency[k]

\* Opening f closes as many as the cap asks for: one at most, and never f.
LEMMA NoteOpenedTracked ==
  ASSUME ListTyped, Tracked, NEW f \in Files, ~open[f], NoteOpened(f)
  PROVE  /\ lru' \in Seq(Files) /\ num_open' \in Nat /\ open' \in [Files -> BOOLEAN]
         /\ Tracked'
         /\ OpenOnes' \subseteq OpenOnes \cup {f} /\ open'[f]
         /\ Len(lru') = Len(lru) + 1 - Surplus
         /\ lru'[1] = f /\ \A k \in 2 .. Len(lru') : lru'[k] = lru[k - 1]
         /\ Surplus = IF MaxOpen > 0 /\ Len(lru) = MaxOpen THEN 1 ELSE 0
<1> DEFINE n == Len(lru) - Surplus
<1>1. Len(lru) \in Nat /\ DOMAIN lru = 1 .. Len(lru)
  BY LenProperties DEF ListTyped
<1>2. MaxOpen \in Nat
  BY OpenFilesAssumption
<1>3. /\ Surplus = IF MaxOpen > 0 /\ Len(lru) = MaxOpen THEN 1 ELSE 0
      /\ n \in 0 .. Len(lru) /\ Len(lru) + 1 - Surplus = n + 1 /\ n \in Nat
      /\ MaxOpen > 0 => n + 1 <= MaxOpen
  BY <1>1, <1>2 DEF Surplus, Tracked
<1>4. /\ lru' = <<f>> \o SubSeq(lru, 1, n)
      /\ num_open' = num_open + 1 - Surplus
      /\ open' = [g \in Files |-> g = f
                    \/ (open[g] /\ g \notin Range(lru) \ Range(SubSeq(lru, 1, n)))]
  BY DEF NoteOpened
<1>5. f \notin Range(lru)
  BY DEF Tracked, OpenOnes
<1> HIDE DEF n
<1>6. /\ lru' \in Seq(Files) /\ Len(lru') = n + 1
      /\ lru'[1] = f /\ \A k \in 2 .. n + 1 : lru'[k] = lru[k - 1]
      /\ IsInjective(lru')
      /\ Range(lru') = {f} \cup Range(SubSeq(lru, 1, n))
  <2>1. lru \in Seq(Files) /\ IsInjective(lru) /\ n \in 0 .. Len(lru)
    BY <1>3 DEF ListTyped, Tracked
  <2>2. lru' = <<f>> \o SubSeq(lru, 1, n)
    BY <1>4
  <2>3. f \in Files /\ f \notin Range(lru)
    BY <1>5
  <2>4. lru' \in Seq(Files) /\ Len(lru') = n + 1
    BY <2>1, <2>2, <2>3, PushProperties DEF IsInjective, Range
  <2>5. lru'[1] = f
    BY <2>1, <2>2, <2>3, PushProperties DEF IsInjective, Range
  <2>6. \A k \in 2 .. n + 1 : lru'[k] = lru[k - 1]
    BY <2>1, <2>2, <2>3, PushProperties DEF IsInjective, Range
  <2>7. IsInjective(lru')
    BY <2>1, <2>2, <2>3, PushProperties DEF IsInjective, Range
  <2>8. Range(lru') = {f} \cup Range(SubSeq(lru, 1, n))
    <3> DEFINE t == <<f>> \o SubSeq(lru, 1, n)
    <3>1. Range(t) = {f} \cup Range(SubSeq(lru, 1, n))
      BY <2>1, <2>3, PushProperties DEF IsInjective, Range
    <3> QED  BY <2>2, <3>1
  <2> QED  BY <2>4, <2>5, <2>6, <2>7, <2>8
<1>7. Range(SubSeq(lru, 1, n)) \subseteq Range(lru)
  BY <1>3, FrontProperties DEF ListTyped
<1>8. open' \in [Files -> BOOLEAN]
  BY <1>4 DEF ListTyped
<1>9. OpenOnes' = {f} \cup Range(SubSeq(lru, 1, n))
  BY <1>4, <1>7 DEF OpenOnes, Tracked
<1>10. OpenOnes' \subseteq OpenOnes \cup {f} /\ open'[f]
  BY <1>4, <1>7, <1>9 DEF Tracked, OpenOnes
<1>11. num_open' = n + 1 /\ n + 1 \in Nat
  BY <1>3, <1>4 DEF Tracked
<1>12. Tracked'
  BY <1>3, <1>6, <1>9, <1>11 DEF Tracked
<1> QED  BY <1>3, <1>6, <1>8, <1>10, <1>11, <1>12

\* Using the open dataset f keeps the list and the history in step.
LEMMA TouchKeeps ==
  ASSUME ListTyped, Tracked, Recent, NEW f \in Files, open[f], UNCHANGED <<open, num_open>>,
         IF MaxOpen > 0 THEN Touch(f) ELSE UNCHANGED lru,
         Use(f)
  PROVE  ListTyped' /\ Tracked' /\ Recent'
<1>1. /\ Len(lru) \in Nat /\ DOMAIN lru = 1 .. Len(lru)
      /\ Len(recency) \in Nat /\ DOMAIN recency = 1 .. Len(recency)
  BY LenProperties DEF ListTyped
<1>2. MaxOpen \in Nat
  BY OpenFilesAssumption
<1>3. f \in Range(lru) /\ lru \in Seq(Files) /\ IsInjective(lru)
  BY DEF Tracked, OpenOnes, ListTyped
<1>4. recency \in Seq(Files) /\ IsInjective(recency) /\ recency' = ToHead(f, recency)
  BY DEF ListTyped, Recent, Use
<1>5. /\ ToHead(f, recency) \in Seq(Files) /\ IsInjective(ToHead(f, recency))
      /\ Range(ToHead(f, recency)) = Range(recency) \cup {f}
  <2>1. ToHead(f, recency) \in Seq(Files)
    BY <1>4, ToHeadSeq
  <2>2. IsInjective(ToHead(f, recency))
    BY <1>4, ToHeadDistinct
  <2>3. Range(ToHead(f, recency)) = Range(recency) \cup {f}
    BY <1>4, ToHeadRange
  <2> QED  BY <2>1, <2>2, <2>3
<1>6. CASE MaxOpen = 0
  <2>1. lru' = lru
    BY <1>6
  <2>2. Range(recency) \cup {f} = Range(recency)
    BY <1>3, <1>6 DEF Recent
  <2>3. Recent'
    BY <1>4, <1>5, <1>6, <2>1, <2>2 DEF Recent
  <2>4. ListTyped' /\ Tracked'
    BY <1>4, <1>5, <2>1 DEF ListTyped, Tracked, OpenOnes
  <2> QED  BY <2>3, <2>4
<1>7. CASE MaxOpen > 0
  <2>0. /\ Len(lru) <= Len(recency)
        /\ \A k \in 1 .. Len(lru) : lru[k] = recency[k]
    BY <1>7 DEF Recent
  <2>1. lru' = ToHead(f, lru)
    BY <1>3, <1>7 DEF Touch
  <2>2. /\ ToHead(f, lru) \in Seq(Files) /\ IsInjective(ToHead(f, lru))
        /\ Range(ToHead(f, lru)) = Range(lru) \cup {f}
    <3>1. ToHead(f, lru) \in Seq(Files)
      BY <1>3, ToHeadSeq
    <3>2. IsInjective(ToHead(f, lru))
      BY <1>3, ToHeadDistinct
    <3>3. Range(ToHead(f, lru)) = Range(lru) \cup {f}
      BY <1>3, ToHeadRange
    <3> QED  BY <3>1, <3>2, <3>3
  <2>3. PICK i \in 1 .. Len(lru) : lru[i] = f
    BY <1>1, <1>3 DEF Range
  <2>4. i \in 1 .. Len(recency) /\ recency[i] = f
    BY <1>1, <2>0, <2>3
  <2>5. /\ Len(ToHead(f, lru)) = Len(lru)
        /\ \A k \in 1 .. Len(lru) : ToHead(f, lru)[k] =
             IF k = 1 THEN f ELSE IF k <= i THEN lru[k - 1] ELSE lru[k]
    BY <1>3, <2>3, ToHeadListed DEF IsInjective
  <2>6. /\ Len(ToHead(f, recency)) = Len(recency)
        /\ \A k \in 1 .. Len(recency) : ToHead(f, recency)[k] =
             IF k = 1 THEN f ELSE IF k <= i THEN recency[k - 1] ELSE recency[k]
    BY <1>4, <2>4, ToHeadListed DEF IsInjective
  <2>7. ASSUME NEW k \in 1 .. Len(lru) PROVE ToHead(f, lru)[k] = ToHead(f, recency)[k]
    <3>1. \A m \in 1 .. Len(lru) : lru[m] = recency[m]
      BY <2>0
    <3>2. k \in 1 .. Len(recency)
      BY <1>1, <2>0
    <3>3. CASE k = 1
      BY <2>5, <2>6, <3>2, <3>3
    <3>4. CASE k # 1
      <4>1. k - 1 \in 1 .. Len(lru)
        BY <1>1, <3>4
      <4> QED  BY <2>5, <2>6, <3>1, <3>2, <3>4, <4>1
    <3> QED  BY <3>3, <3>4
  <2>8. ListTyped'
    BY <1>4, <1>5, <2>1, <2>2 DEF ListTyped
  <2>9. Tracked'
    <3>1. Range(lru) \cup {f} = Range(lru)
      BY <1>3
    <3> QED  BY <2>1, <2>2, <2>5, <3>1 DEF Tracked, OpenOnes
  <2>10. Recent'
    BY <1>4, <1>5, <1>7, <2>1, <2>5, <2>6, <2>7 DEF Recent
  <2> QED  BY <2>8, <2>9, <2>10
<1> QED  BY <1>2, <1>6, <1>7

\* Opening f keeps the list and the history in step: what is closed to make room
\* is what the history has last.
LEMMA OpeningKeeps ==
  ASSUME ListTyped, Tracked, Recent, NEW f \in Files, ~open[f], NoteOpened(f), Use(f)
  PROVE  ListTyped' /\ Tracked' /\ Recent'
<1>1. /\ Len(lru) \in Nat /\ DOMAIN lru = 1 .. Len(lru)
      /\ Len(recency) \in Nat /\ DOMAIN recency = 1 .. Len(recency)
      /\ MaxOpen \in Nat
  BY LenProperties, OpenFilesAssumption DEF ListTyped
<1>2. /\ lru' \in Seq(Files) /\ num_open' \in Nat /\ open' \in [Files -> BOOLEAN]
      /\ Tracked'
      /\ Len(lru') = Len(lru) + 1 - Surplus
      /\ lru'[1] = f /\ \A k \in 2 .. Len(lru') : lru'[k] = lru[k - 1]
      /\ Surplus = IF MaxOpen > 0 /\ Len(lru) = MaxOpen THEN 1 ELSE 0
  BY NoteOpenedTracked
<1>3. f \notin Range(lru)
  BY DEF Tracked, OpenOnes
<1>4. recency \in Seq(Files) /\ IsInjective(recency) /\ recency' = ToHead(f, recency)
  BY DEF ListTyped, Recent, Use
<1>5. /\ ToHead(f, recency) \in Seq(Files) /\ IsInjective(ToHead(f, recency))
      /\ Range(ToHead(f, recency)) = Range(recency) \cup {f}
  <2>1. ToHead(f, recency) \in Seq(Files)
    BY <1>4, ToHeadSeq
  <2>2. IsInjective(ToHead(f, recency))
    BY <1>4, ToHeadDistinct
  <2>3. Range(ToHead(f, recency)) = Range(recency) \cup {f}
    BY <1>4, ToHeadRange
  <2> QED  BY <2>1, <2>2, <2>3
<1>6. ListTyped'
  BY <1>2, <1>4, <1>5 DEF ListTyped
<1>7. CASE MaxOpen = 0
  <2>1. Surplus = 0 /\ lru' = <<f>> \o SubSeq(lru, 1, Len(lru) - Surplus)
    BY <1>1, <1>2, <1>7 DEF NoteOpened
  <2>2. SubSeq(lru, 1, Len(lru) - Surplus) = lru
    <3> DEFINE t == SubSeq(lru, 1, Len(lru))
    <3>1. t \in Seq(Files) /\ Len(t) = Len(lru) /\ \A k \in 1 .. Len(lru) : t[k] = lru[k]
      BY <1>1, FrontProperties DEF ListTyped
    <3> HIDE DEF t
    <3>2. t = lru
      BY <3>1, SeqEqual DEF ListTyped
    <3> QED  BY <1>1, <2>1, <3>2 DEF t
  <2>3. Range(<<f>> \o lru) = Range(lru) \cup {f}
    <3>1. <<f>> \o lru = ToHead(f, lru)
      BY <1>3 DEF ToHead
    <3>2. Range(ToHead(f, lru)) = Range(lru) \cup {f}
      BY ToHeadRange DEF ListTyped, Tracked
    <3> QED  BY <3>1, <3>2
  <2>4. Range(lru) = Range(recency)
    BY <1>7 DEF Recent
  <2>5. lru' = <<f>> \o lru
    BY <2>1, <2>2
  <2>6. Recent'
    BY <1>4, <1>5, <1>7, <2>3, <2>4, <2>5 DEF Recent
  <2> QED  BY <1>2, <1>6, <2>6
<1>8. CASE MaxOpen > 0 /\ f \in Range(recency)
  <2>1. PICK j \in 1 .. Len(recency) : recency[j] = f
    BY <1>1, <1>8 DEF Range
  <2>2. j > Len(lru)
    <3>1. \A k \in 1 .. Len(lru) : lru[k] = recency[k]
      BY <1>8 DEF Recent
    <3>2. \A k \in 1 .. Len(lru) : lru[k] # f
      BY <1>1, <1>3 DEF Range
    <3>3. j \notin 1 .. Len(lru)
      BY <2>1, <3>1, <3>2
    <3>4. j \in Nat /\ j >= 1
      BY <1>1, <2>1
    <3> QED  BY <1>1, <3>3, <3>4
  <2>3. Len(lru) = MaxOpen /\ Surplus = 1 /\ Len(lru') = MaxOpen
    BY <1>1, <1>2, <1>8, <2>1, <2>2 DEF Recent, Tracked
  <2>4. /\ Len(ToHead(f, recency)) = Len(recency)
        /\ \A k \in 1 .. Len(recency) : ToHead(f, recency)[k] =
             IF k = 1 THEN f ELSE IF k <= j THEN recency[k - 1] ELSE recency[k]
    BY <1>4, <2>1, ToHeadListed DEF IsInjective
  <2>5. ASSUME NEW k \in 1 .. Len(lru') PROVE lru'[k] = ToHead(f, recency)[k]
    <3>1. k \in 1 .. Len(recency) /\ k <= j
      BY <1>1, <2>1, <2>2, <2>3
    <3>2. CASE k = 1
      BY <1>2, <2>4, <3>1, <3>2
    <3>3. CASE k # 1
      <4>1. k \in 2 .. Len(lru') /\ k - 1 \in 1 .. Len(lru)
        BY <1>1, <2>3, <3>3
      <4>2. lru[k - 1] = recency[k - 1]
        BY <1>8, <4>1 DEF Recent
      <4> QED  BY <1>2, <2>4, <3>1, <3>3, <4>1, <4>2
    <3> QED  BY <3>2, <3>3
  <2>6. /\ Len(lru') <= Len(ToHead(f, recency))
        /\ ~(Len(lru') < MaxOpen)
    BY <1>1, <2>1, <2>2, <2>3, <2>4
  <2>7. Recent'
    BY <1>4, <1>5, <1>8, <2>5, <2>6 DEF Recent
  <2> QED  BY <1>2, <1>6, <2>7
<1>9. CASE MaxOpen > 0 /\ f \notin Range(recency)
  <2>0. Len(lru) <= Len(recency)
    BY <1>9 DEF Recent
  <2>1. ToHead(f, recency) = <<f>> \o recency
    BY <1>9 DEF ToHead
  <2>2. /\ Len(<<f>> \o recency) = Len(recency) + 1
        /\ (<<f>> \o recency)[1] = f
        /\ \A k \in 2 .. Len(recency) + 1 : (<<f>> \o recency)[k] = recency[k - 1]
    BY <1>4, PrependProperties
  <2>3. Len(lru') <= Len(lru) + 1 /\ Len(lru') \in Nat
    <3>1. lru' \in Seq(Files) /\ Surplus \in {0, 1} /\ Len(lru') = Len(lru) + 1 - Surplus
      BY <1>2
    <3>2. Len(lru') \in Nat
      BY <3>1, LenProperties
    <3> QED  BY <1>1, <3>1, <3>2
  <2>4. ASSUME NEW k \in 1 .. Len(lru') PROVE lru'[k] = (<<f>> \o recency)[k]
    <3>1. k \in 1 .. Len(recency) + 1
      BY <1>1, <2>0, <2>3
    <3>2. CASE k = 1
      BY <1>2, <2>2, <3>2
    <3>3. CASE k # 1
      <4>1. k \in 2 .. Len(lru') /\ k - 1 \in 1 .. Len(lru) /\ k \in 2 .. Len(recency) + 1
        BY <1>1, <2>3, <3>1, <3>3
      <4>2. lru[k - 1] = recency[k - 1]
        BY <1>9, <4>1 DEF Recent
      <4> QED  BY <1>2, <2>2, <4>1, <4>2
    <3> QED  BY <3>2, <3>3
  <2>5. Len(lru') <= Len(recency) + 1
    BY <1>1, <2>0, <2>3
  <2>6. Len(lru') < MaxOpen => Len(lru') = Len(recency) + 1
    BY <1>1, <1>2, <1>9 DEF Recent, Tracked
  <2>7. Recent'
    BY <1>4, <1>5, <1>9, <2>1, <2>2, <2>4, <2>5, <2>6 DEF Recent
  <2> QED  BY <1>2, <1>6, <2>7
<1> QED  BY <1>1, <1>7, <1>8, <1>9

-----------------------------------------------------------------------------
(* The inductive invariant.                                                *)

\* Where an open dataset can be: in the context, already looked at while loading,
\* not the one being opened, and not backing off.
Placed ==
  /\ OpenOnes \subseteq Range(datasets)
  /\ pc = "loading" => \A k \in 1 .. Len(datasets) : datasets[k] < at
  /\ pc = "loading" => \A f \in Files : fail_count[f] = 0
  /\ pc = "opening" => ~open[datasets[at]]
  /\ pc = "reading" => open[datasets[at]]
  /\ \A f \in OpenOnes : fail_count[f] = 0

Inv == TypeOK /\ Tracked /\ Recent /\ Placed

\* The backoff is a number of seconds, and no more than the ceiling.
LEMMA WaitBounded ==
  ASSUME NEW n \in Nat
  PROVE  Wait(n) \in Int /\ Wait(n) <= RetryCeiling
<1>1. RetryCeiling \in Nat
  BY OpenFilesAssumption
<1>2. 2 ^ n \in Int
  OBVIOUS
<1> QED  BY <1>1, <1>2 DEF Wait

\* The dataset whose turn it is is one of the files.
LEMMA TurnIsFile ==
  ASSUME TypeOK, pc \in {"consult", "opening", "reading"}
  PROVE  datasets[at] \in Files /\ Len(datasets) \in Nat /\ at \in 1 .. Len(datasets)
<1>1. datasets \in Seq(Files) /\ at \in 1 .. Len(datasets)
  BY DEF TypeOK
<1> QED  BY <1>1, ElementOfSeq, LenProperties

\* Going past a dataset keeps the types, and ends in "consult" or "idle".
LEMMA PassTyped ==
  ASSUME TypeOK, pc \in {"consult", "opening", "reading"}, Pass
  PROVE  /\ pc' \in {"consult", "idle"} /\ at' \in Nat
         /\ pc' = "consult" => at' \in 1 .. Len(datasets)
         /\ ground' \in [Files -> Grounds]
         /\ answer' \in Files \cup {NoFile}
<1>1. Len(datasets) \in Nat /\ at \in 1 .. Len(datasets)
  BY TurnIsFile
<1>2. ground \in [Files -> Grounds] /\ answer \in Files \cup {NoFile}
  BY DEF TypeOK
<1>3. Nowhere \in [Files -> Grounds]
  BY DEF Nowhere, Grounds
<1>4. CASE at < Len(datasets)
  <2>1. at + 1 \in Nat /\ at + 1 \in 1 .. Len(datasets)
    BY <1>1, <1>4
  <2> QED  BY <1>2, <1>4, <2>1 DEF Pass
<1>5. CASE ~(at < Len(datasets))
  BY <1>3, <1>5 DEF Pass, End
<1> QED  BY <1>4, <1>5

\* A step that leaves the list, the count, the handles and the history alone.
LEMMA ListUnchanged ==
  ASSUME Tracked, Recent, UNCHANGED opened
  PROVE  Tracked' /\ Recent'
BY DEF Tracked, Recent, OpenOnes, opened

\* The invariant holds when ContextCreate() begins.
LEMMA InitInv == Init => Inv
<1> SUFFICES ASSUME Init PROVE Inv
  OBVIOUS
<1>1. <<>> \in Seq(Files) /\ Len(<<>>) = 0 /\ Range(<<>>) = {} /\ IsInjective(<<>>)
  BY DEF Range, IsInjective
<1>2. NumFiles \in Nat /\ MaxOpen \in Nat
  BY OpenFilesAssumption
<1>3. TypeOK
  BY <1>1, <1>2 DEF Init, TypeOK, Nowhere, Grounds, NoFile, Files
<1>4. OpenOnes = {}
  BY DEF Init, OpenOnes
<1>5. Tracked
  BY <1>1, <1>2, <1>4 DEF Init, Tracked
<1>6. Recent
  BY <1>1, <1>2 DEF Init, Recent
<1>7. Placed
  BY <1>1, <1>4 DEF Init, Placed
<1> QED  BY <1>3, <1>5, <1>6, <1>7 DEF Inv

\* A file joins the context last.
LEMMA JoinProperties ==
  ASSUME NEW s \in Seq(Files), NEW f \in Files
  PROVE  /\ Append(s, f) \in Seq(Files)
         /\ Len(Append(s, f)) = Len(s) + 1
         /\ \A k \in 1 .. Len(s) : Append(s, f)[k] = s[k]
         /\ Append(s, f)[Len(s) + 1] = f
         /\ Range(s) \cup {f} \subseteq Range(Append(s, f))
<1> DEFINE t == Append(s, f)
<1>1. /\ t \in Seq(Files) /\ Len(t) = Len(s) + 1
      /\ \A k \in 1 .. Len(s) : t[k] = s[k]
      /\ t[Len(s) + 1] = f
  BY AppendProperties
<1> HIDE DEF t
<1>2. Len(s) \in Nat /\ DOMAIN s = 1 .. Len(s) /\ DOMAIN t = 1 .. Len(s) + 1
  BY <1>1, LenProperties
<1>3. ASSUME NEW g \in Range(s) PROVE g \in Range(t)
  <2>1. PICK k \in 1 .. Len(s) : s[k] = g
    BY <1>2 DEF Range
  <2>2. k \in DOMAIN t /\ t[k] = g
    BY <1>1, <1>2, <2>1
  <2> QED  BY <2>2 DEF Range
<1>4. f \in Range(t)
  <2>1. Len(s) + 1 \in DOMAIN t
    BY <1>2
  <2> QED  BY <1>1, <2>1 DEF Range
<1> QED  BY <1>1, <1>3, <1>4 DEF t

\* The steps of the world move the clock and the files only.
LEMMA WorldInv ==
  ASSUME Inv, Tick \/ StepBack \/ \E f \in Files : Turn(f)
  PROVE  Inv'
<1>1. UNCHANGED <<datasets, opened, retries, pc, lookup, started>>
  BY DEF Tick, StepBack, Turn
<1>2. now \in Nat /\ usable \in [Files -> BOOLEAN]
  BY DEF Inv, TypeOK
<1>3. now' \in Nat
  <2>1. CASE now' = now + 1 \/ now' = now
    BY <1>2, <2>1
  <2>2. CASE \E earlier \in 0 .. now - 1 : now' = earlier
    BY <1>2, <2>2
  <2> QED  BY <2>1, <2>2 DEF Tick, StepBack, Turn
<1>4. usable' \in [Files -> BOOLEAN]
  BY <1>2 DEF Tick, StepBack, Turn
<1>5. TypeOK'
  BY <1>1, <1>3, <1>4 DEF Inv, TypeOK, opened, retries, lookup
<1>6. Tracked' /\ Recent'
  BY <1>1, ListUnchanged DEF Inv
<1>7. Placed'
  BY <1>1 DEF Inv, Placed, OpenOnes, opened, retries, lookup
<1> QED  BY <1>5, <1>6, <1>7 DEF Inv

\* Loading keeps the invariant.
LEMMA LoadInv ==
  ASSUME Inv, LoadIndexed \/ LoadEager \/ LeaveOut
  PROVE  Inv'
<1> DEFINE joined == Append(datasets, at)
<1>1. TypeOK /\ Tracked /\ Recent /\ Placed /\ ListTyped
  BY DEF Inv, TypeOK, ListTyped
<1>2. /\ pc = "loading" /\ at \in Files /\ at' = at + 1
      /\ UNCHANGED <<world, retries, pc, ground, answer, started>>
  BY DEF LoadIndexed, LoadEager, LeaveOut
<1>3. /\ joined \in Seq(Files)
      /\ Len(joined) = Len(datasets) + 1
      /\ \A k \in 1 .. Len(datasets) : joined[k] = datasets[k]
      /\ joined[Len(datasets) + 1] = at
      /\ Range(datasets) \cup {at} \subseteq Range(joined)
  BY <1>1, <1>2, JoinProperties DEF TypeOK
<1> HIDE DEF joined
<1>4. /\ Len(datasets) \in Nat /\ DOMAIN datasets = 1 .. Len(datasets)
      /\ at \in Nat /\ at + 1 \in Nat
      /\ \A k \in 1 .. Len(datasets) : datasets[k] \in Nat /\ datasets[k] < at
  <2>1. datasets \in Seq(Files) /\ at \in Nat
    BY <1>1 DEF TypeOK
  <2>2. \A k \in 1 .. Len(datasets) : datasets[k] \in Files
    BY <2>1, ElementOfSeq
  <2>3. \A f \in Files : f \in Nat
    BY OpenFilesAssumption DEF Files
  <2>4. \A k \in 1 .. Len(datasets) : datasets[k] < at
    BY <1>1, <1>2 DEF Placed
  <2>5. Len(datasets) \in Nat /\ DOMAIN datasets = 1 .. Len(datasets)
    BY <2>1, LenProperties
  <2> QED  BY <2>1, <2>2, <2>3, <2>4, <2>5
<1>5. \A k \in 1 .. Len(joined) : joined[k] < at + 1
  <2>1. \A k \in 1 .. Len(joined) : k \in 1 .. Len(datasets) \/ k = Len(datasets) + 1
    BY <1>3, <1>4
  <2> QED  BY <1>3, <1>4, <2>1
<1>6. at \notin OpenOnes
  BY <1>1, <1>4 DEF Placed, Range
<1>7. CASE UNCHANGED opened /\ datasets' \in {datasets, joined}
  <2>1. Tracked' /\ Recent'
    BY <1>1, <1>7, ListUnchanged
  <2>2. datasets' \in Seq(Files) /\ OpenOnes' = OpenOnes
    BY <1>1, <1>3, <1>7 DEF TypeOK, OpenOnes, opened
  <2>3. TypeOK'
    BY <1>1, <1>2, <1>4, <1>7, <2>2 DEF TypeOK, opened, retries, world
  <2>4. Range(datasets) \subseteq Range(datasets')
    BY <1>3, <1>7
  <2>5. \A k \in 1 .. Len(datasets') : datasets'[k] < at + 1
    BY <1>4, <1>5, <1>7
  <2>6. Placed'
    BY <1>1, <1>2, <2>2, <2>4, <2>5 DEF Placed, retries
  <2> QED  BY <2>1, <2>3, <2>6 DEF Inv
<1>8. CASE datasets' = joined /\ NoteOpened(at) /\ Use(at)
  <2>1. at \in Files /\ ~open[at]
    BY <1>2, <1>6 DEF OpenOnes
  <2>2. ListTyped' /\ Tracked' /\ Recent'
    BY <1>1, <1>8, <2>1, OpeningKeeps
  <2>3. OpenOnes' \subseteq OpenOnes \cup {at}
    BY <1>1, <1>8, <2>1, NoteOpenedTracked
  <2>4. TypeOK'
    BY <1>1, <1>2, <1>3, <1>4, <1>8, <2>2 DEF TypeOK, ListTyped, retries, world
  <2>5. OpenOnes' \subseteq Range(datasets')
    <3>1. OpenOnes \cup {at} \subseteq Range(joined)
      BY <1>1, <1>3 DEF Placed
    <3> QED  BY <1>8, <2>3, <3>1
  <2>6. \A f \in Files : fail_count'[f] = 0
    BY <1>1, <1>2 DEF Placed, retries
  <2>7. \A f \in OpenOnes' : f \in Files
    BY DEF OpenOnes
  <2>8. Placed'
    BY <1>2, <1>5, <1>8, <2>5, <2>6, <2>7 DEF Placed
  <2> QED  BY <2>2, <2>4, <2>8 DEF Inv
<1> QED  BY <1>7, <1>8 DEF LoadIndexed, LoadEager, LeaveOut, joined

\* The end of loading, and the beginning of a lookup, keep the invariant.
LEMMA BeginInv ==
  ASSUME Inv, Serve \/ Begin
  PROVE  Inv'
<1>1. /\ UNCHANGED <<world, datasets, opened, retries, started>>
      /\ pc' \in {"idle", "consult"} /\ at' \in Nat
      /\ pc' = "consult" => at' = 1 /\ datasets # <<>>
      /\ answer' \in {answer, NoFile}
      /\ ground' = ground \/ ground' \in [Files -> Grounds]
  BY DEF Serve, Begin
<1>2. Tracked' /\ Recent'
  BY <1>1, ListUnchanged DEF Inv
<1>3. pc' = "consult" => at' \in 1 .. Len(datasets)
  BY <1>1, EmptySeq, LenProperties DEF Inv, TypeOK
<1>4. TypeOK'
  BY <1>1, <1>3 DEF Inv, TypeOK, world, opened, retries
<1>5. Placed'
  BY <1>1 DEF Inv, Placed, OpenOnes, opened, retries
<1> QED  BY <1>2, <1>4, <1>5 DEF Inv

\* Consulting a dataset keeps the invariant: it uses one that is open, at most.
LEMMA ConsultInv ==
  ASSUME Inv, Consult
  PROVE  Inv'
<1> DEFINE f == datasets[at]
<1>1. TypeOK /\ Tracked /\ Recent /\ Placed /\ ListTyped
  BY DEF Inv, TypeOK, ListTyped
<1>2. /\ pc = "consult"
      /\ UNCHANGED <<world, datasets, num_open, open, retries>>
  BY DEF Consult
<1>3. f \in Files /\ at \in 1 .. Len(datasets)
  BY <1>1, <1>2, TurnIsFile
<1>4. CASE Pass /\ UNCHANGED <<lru, recency, started>>
  <2>1. /\ pc' \in {"consult", "idle"} /\ at' \in Nat
        /\ pc' = "consult" => at' \in 1 .. Len(datasets)
        /\ ground' \in [Files -> Grounds]
        /\ answer' \in Files \cup {NoFile}
    BY <1>1, <1>2, <1>4, PassTyped
  <2>2. UNCHANGED opened
    BY <1>2, <1>4 DEF opened
  <2>3. Tracked' /\ Recent'
    BY <1>1, <2>2, ListUnchanged
  <2>4. TypeOK'
    BY <1>1, <1>2, <1>4, <2>1 DEF TypeOK, world, retries
  <2>5. Placed'
    BY <1>1, <1>2, <2>1 DEF Placed, OpenOnes, retries
  <2> QED  BY <2>3, <2>4, <2>5 DEF Inv
<1>5. CASE /\ open[f]
           /\ IF MaxOpen > 0 THEN Touch(f) ELSE UNCHANGED lru
           /\ Use(f)
           /\ pc' = "reading"
           /\ UNCHANGED <<lookup, started>>
  <2>1. f \in Files /\ open[f] /\ UNCHANGED <<open, num_open>>
    BY <1>2, <1>3, <1>5
  <2> HIDE DEF f
  <2>2. ListTyped' /\ Tracked' /\ Recent'
    BY <1>1, <1>5, <2>1, TouchKeeps
  <2>3. TypeOK'
    BY <1>1, <1>2, <1>3, <1>5, <2>2 DEF TypeOK, ListTyped, world, retries, lookup
  <2>4. Placed'
    BY <1>1, <1>2, <1>5 DEF Placed, OpenOnes, retries, lookup, f
  <2> QED  BY <2>2, <2>3, <2>4 DEF Inv
<1>6. CASE /\ ~open[f]
           /\ started' = now
           /\ pc' = "opening"
           /\ UNCHANGED <<lookup, lru, recency>>
  <2>1. UNCHANGED opened
    BY <1>2, <1>6 DEF opened
  <2>2. Tracked' /\ Recent'
    BY <1>1, <2>1, ListUnchanged
  <2>3. TypeOK'
    BY <1>1, <1>2, <1>3, <1>6 DEF TypeOK, world, retries, lookup
  <2>4. Placed'
    BY <1>1, <1>2, <1>6 DEF Placed, OpenOnes, retries, lookup
  <2> QED  BY <2>2, <2>3, <2>4 DEF Inv
<1> QED  BY <1>4, <1>5, <1>6 DEF Consult

\* An attempt to open a dataset keeps the invariant.
LEMMA OpenSucceedsInv ==
  ASSUME Inv, OpenSucceeds
  PROVE  Inv'
<1> DEFINE f == datasets[at]
<1>1. TypeOK /\ Tracked /\ Recent /\ Placed /\ ListTyped
  BY DEF Inv, TypeOK, ListTyped
<1>2. /\ pc = "opening"
      /\ fail_count' = [fail_count EXCEPT ![f] = 0]
      /\ next_retry' = [next_retry EXCEPT ![f] = 0]
      /\ since' = [since EXCEPT ![f] = 0]
      /\ NoteOpened(f) /\ Use(f)
      /\ pc' = "reading"
      /\ started' = 0
      /\ UNCHANGED <<world, datasets, lookup>>
  BY DEF OpenSucceeds
<1>3. f \in Files /\ at \in 1 .. Len(datasets) /\ Len(datasets) \in Nat /\ ~open[f]
  BY <1>1, <1>2, TurnIsFile DEF Placed
<1>4. f \in Range(datasets)
  <2>1. DOMAIN datasets = 1 .. Len(datasets)
    BY <1>1, LenProperties DEF TypeOK
  <2> QED  BY <1>3, <2>1 DEF Range
<1>5. at' = at /\ datasets' = datasets
  BY <1>2 DEF lookup
<1> HIDE DEF f
<1>6. ListTyped' /\ Tracked' /\ Recent'
  BY <1>1, <1>2, <1>3, OpeningKeeps
<1>7. OpenOnes' \subseteq OpenOnes \cup {f} /\ open'[f]
  BY <1>1, <1>2, <1>3, NoteOpenedTracked
<1>8. TypeOK'
  <2>1. fail_count' \in [Files -> Nat] /\ next_retry' \in [Files -> Int] /\ since' \in [Files -> Nat]
    <3>1. fail_count \in [Files -> Nat] /\ next_retry \in [Files -> Int] /\ since \in [Files -> Nat]
      BY <1>1 DEF TypeOK
    <3>2. /\ fail_count' = [g \in Files |-> IF g = f THEN 0 ELSE fail_count[g]]
          /\ next_retry' = [g \in Files |-> IF g = f THEN 0 ELSE next_retry[g]]
          /\ since' = [g \in Files |-> IF g = f THEN 0 ELSE since[g]]
      BY <1>2, <3>1
    <3>3. fail_count' \in [Files -> Nat]
      BY <3>1, <3>2
    <3>4. next_retry' \in [Files -> Int]
      BY <3>1, <3>2
    <3>5. since' \in [Files -> Nat]
      BY <3>1, <3>2
    <3> QED  BY <3>3, <3>4, <3>5
  <2>2. /\ UNCHANGED <<now, usable, datasets, at, ground, answer>>
        /\ pc' = "reading" /\ started' = 0
    BY <1>2 DEF world, lookup
  <2>3. at' \in 1 .. Len(datasets')
    BY <1>3, <2>2
  <2>4. /\ lru' \in Seq(Files) /\ recency' \in Seq(Files)
        /\ num_open' \in Nat /\ open' \in [Files -> BOOLEAN]
    BY <1>6 DEF ListTyped
  <2>5. /\ now' \in Nat /\ usable' \in [Files -> BOOLEAN] /\ datasets' \in Seq(Files)
        /\ at' \in Nat /\ ground' \in [Files -> Grounds]
        /\ answer' \in Files \cup {NoFile}
    BY <1>1, <2>2 DEF TypeOK
  <2> QED  BY <2>1, <2>2, <2>3, <2>4, <2>5 DEF TypeOK
<1>9. \A g \in OpenOnes' : fail_count'[g] = 0
  <2>1. \A g \in Files : g = f \/ g \in OpenOnes => fail_count'[g] = 0
    BY <1>1, <1>2, <1>3 DEF TypeOK, Placed
  <2>2. \A g \in OpenOnes' : g \in Files
    BY DEF OpenOnes
  <2> QED  BY <1>7, <2>1, <2>2
<1>10. OpenOnes' \subseteq Range(datasets)
  BY <1>1, <1>4, <1>7 DEF Placed
<1>11. open'[datasets[at]]
  BY <1>7 DEF f
<1>12. Placed'
  BY <1>2, <1>5, <1>9, <1>10, <1>11 DEF Placed
<1> QED  BY <1>6, <1>8, <1>12 DEF Inv

\* A failed attempt keeps the invariant: nothing stays open behind it.
LEMMA OpenFailsInv ==
  ASSUME Inv, OpenFails
  PROVE  Inv'
<1> DEFINE f == datasets[at]
<1>1. TypeOK /\ Tracked /\ Recent /\ Placed
  BY DEF Inv
<1>2. /\ pc = "opening"
      /\ open' = [open EXCEPT ![f] = FALSE]
      /\ fail_count' = [fail_count EXCEPT ![f] = @ + 1]
      /\ next_retry' = [next_retry EXCEPT ![f] = started + Wait(fail_count[f] + 1)]
      /\ since' = IF fail_count[f] = 0 THEN [since EXCEPT ![f] = started] ELSE since
      /\ Pass
      /\ started' = 0
      /\ UNCHANGED <<world, datasets, lru, num_open, recency>>
  BY DEF OpenFails, Fail
<1>3. f \in Files /\ ~open[f]
  BY <1>1, <1>2, TurnIsFile DEF Placed
<1>4. /\ pc' \in {"consult", "idle"} /\ at' \in Nat
      /\ pc' = "consult" => at' \in 1 .. Len(datasets)
      /\ ground' \in [Files -> Grounds]
      /\ answer' \in Files \cup {NoFile}
  BY <1>1, <1>2, PassTyped
<1> HIDE DEF f
<1>5. open' = open
  BY <1>1, <1>2, <1>3 DEF TypeOK
<1>6. UNCHANGED opened
  BY <1>2, <1>5 DEF opened
<1>7. Tracked' /\ Recent'
  BY <1>1, <1>6, ListUnchanged
<1>8. /\ fail_count' \in [Files -> Nat]
      /\ next_retry' \in [Files -> Int]
      /\ since' \in [Files -> Nat]
  <2>1. fail_count[f] + 1 \in Nat /\ started \in Nat
    BY <1>1, <1>3 DEF TypeOK
  <2>2. Wait(fail_count[f] + 1) \in Int
    BY <2>1, WaitBounded
  <2>3. started + Wait(fail_count[f] + 1) \in Int
    BY <2>1, <2>2
  <2>4. since' \in [Files -> Nat]
    BY <1>1, <1>2, <2>1 DEF TypeOK
  <2> QED  BY <1>1, <1>2, <2>1, <2>3, <2>4 DEF TypeOK
<1>9. TypeOK'
  BY <1>1, <1>2, <1>4, <1>5, <1>8 DEF TypeOK, world
<1>10. OpenOnes' = OpenOnes /\ \A g \in OpenOnes : fail_count'[g] = 0
  BY <1>1, <1>2, <1>3, <1>5 DEF TypeOK, Placed, OpenOnes
<1>11. Placed'
  BY <1>1, <1>2, <1>4, <1>10 DEF Placed
<1> QED  BY <1>7, <1>9, <1>11 DEF Inv

\* Reading a pixel keeps the invariant: it opens and closes nothing.
LEMMA ReadInv ==
  ASSUME Inv, Read
  PROVE  Inv'
<1>1. TypeOK /\ Tracked /\ Recent /\ Placed
  BY DEF Inv
<1>2. pc = "reading" /\ UNCHANGED <<world, datasets, opened, retries, started>>
  BY DEF Read
<1>3. datasets[at] \in Files
  BY <1>1, <1>2, TurnIsFile
<1>4. /\ pc' \in {"consult", "idle"} /\ at' \in Nat
      /\ pc' = "consult" => at' \in 1 .. Len(datasets)
      /\ ground' \in [Files -> Grounds]
      /\ answer' \in Files \cup {NoFile}
  <2>1. CASE Pass
    BY <1>1, <1>2, <2>1, PassTyped
  <2>2. CASE End(datasets[at])
    BY <1>3, <2>2 DEF End, Nowhere, Grounds
  <2> QED  BY <2>1, <2>2 DEF Read
<1>5. Tracked' /\ Recent'
  BY <1>1, <1>2, ListUnchanged
<1>6. TypeOK'
  BY <1>1, <1>2, <1>4 DEF TypeOK, world, opened, retries
<1>7. Placed'
  BY <1>1, <1>2, <1>4 DEF Placed, OpenOnes, opened, retries
<1> QED  BY <1>5, <1>6, <1>7 DEF Inv

\* Every step keeps the invariant.
LEMMA StepInv == Inv /\ [Next]_vars => Inv'
<1> SUFFICES ASSUME Inv, [Next]_vars PROVE Inv'
  OBVIOUS
<1>1. CASE Tick \/ StepBack \/ \E f \in Files : Turn(f)
  BY <1>1, WorldInv
<1>2. CASE LoadIndexed \/ LoadEager \/ LeaveOut
  BY <1>2, LoadInv
<1>3. CASE Serve \/ Begin
  BY <1>3, BeginInv
<1>4. CASE Consult
  BY <1>4, ConsultInv
<1>5. CASE OpenSucceeds
  BY <1>5, OpenSucceedsInv
<1>6. CASE OpenFails
  BY <1>6, OpenFailsInv
<1>7. CASE Read
  BY <1>7, ReadInv
<1>8. CASE UNCHANGED vars
  <2>1. Tracked' /\ Recent'
    BY <1>8, ListUnchanged DEF Inv, vars
  <2>2. TypeOK' /\ Placed'
    BY <1>8 DEF Inv, TypeOK, Placed, OpenOnes, vars, world, opened, retries, lookup
  <2> QED  BY <2>1, <2>2 DEF Inv
<1> QED  BY <1>1, <1>2, <1>3, <1>4, <1>5, <1>6, <1>7, <1>8 DEF Next

\* The invariant holds in every state.
LEMMA InvHolds == Spec => []Inv
BY InitInv, StepInv, PTL DEF Spec

-----------------------------------------------------------------------------
(* What the context guarantees.                                            *)

\* The variables keep their types, and a lookup never runs off the list.
THEOREM TypeCorrect == Spec => []TypeOK
BY InvHolds, PTL DEF Inv

\* The list, the count and the handles always agree.
THEOREM HandlesAreTracked == Spec => []HandlesTracked
<1>1. Inv => HandlesTracked
  BY DEF Inv, Tracked, Placed, HandlesTracked
<1> QED  BY <1>1, InvHolds, PTL

\* A sequence lists as many elements as it is long, at most.
LEMMA RangeCardinality ==
  ASSUME NEW S, NEW s \in Seq(S)
  PROVE  Cardinality(Range(s)) <= Len(s)
<1>1. Len(s) \in Nat /\ s \in [1 .. Len(s) -> S] /\ DOMAIN s = 1 .. Len(s)
  BY LenProperties
<1>2. s \in Surjection(1 .. Len(s), Range(s))
  BY <1>1 DEF Surjection, Range
<1>3. IsFiniteSet(1 .. Len(s)) /\ Cardinality(1 .. Len(s)) = Len(s)
  BY <1>1, FS_Interval
<1>4. /\ Cardinality(Range(s)) <= Cardinality(1 .. Len(s))
  BY <1>2, <1>3, FS_Surjection
<1> QED  BY <1>3, <1>4

\* -n is an upper bound, whatever MaxOpen is and however many files there are.
THEOREM CapIsHeld == Spec => []CapHeld
<1>1. Inv => CapHeld
  <2> SUFFICES ASSUME Inv, MaxOpen > 0 PROVE Cardinality(OpenOnes) <= MaxOpen
    BY DEF CapHeld
  <2>1. OpenOnes = Range(lru) /\ Len(lru) <= MaxOpen
    BY DEF Inv, Tracked
  <2>2. lru \in Seq(Files)
    BY DEF Inv, TypeOK
  <2>3. Cardinality(Range(lru)) <= Len(lru)
    BY <2>2, RangeCardinality
  <2>4. Len(lru) \in Nat /\ MaxOpen \in Nat
    BY <2>2, LenProperties, OpenFilesAssumption
  <2>5. IsFiniteSet(Range(lru)) /\ Cardinality(Range(lru)) \in Nat
    <3>1. IsFiniteSet(Files)
      BY OpenFilesAssumption, FS_Interval DEF Files
    <3>2. Range(lru) \in SUBSET Files
      BY <2>1 DEF OpenOnes
    <3>3. IsFiniteSet(Range(lru))
      BY <3>1, <3>2, FS_Subset
    <3> QED  BY <3>3, FS_CardinalityType
  <2> QED  BY <2>1, <2>3, <2>4, <2>5
<1> QED  BY <1>1, InvHolds, PTL

\* What is open is what was used last, as many as the cap lets stay.
THEOREM MostRecentKept == Spec => []KeepsMostRecent
<1>1. Inv => KeepsMostRecent
  <2> SUFFICES ASSUME Inv PROVE KeepsMostRecent
    OBVIOUS
  <2>1. /\ lru \in Seq(Files) /\ recency \in Seq(Files)
        /\ Len(lru) \in Nat /\ Len(recency) \in Nat /\ MaxOpen \in Nat
    BY LenProperties, OpenFilesAssumption DEF Inv, TypeOK
  <2>2. OpenOnes = Range(lru)
    BY DEF Inv, Tracked
  <2>3. CASE MaxOpen = 0
    BY <2>2, <2>3 DEF Inv, Recent, KeepsMostRecent
  <2>4. CASE MaxOpen > 0
    <3>1. /\ Len(lru) <= Len(recency) /\ Len(lru) <= MaxOpen
          /\ Len(lru) < MaxOpen => Len(lru) = Len(recency)
          /\ \A k \in 1 .. Len(lru) : lru[k] = recency[k]
      BY <2>4 DEF Inv, Recent, Tracked
    <3>2. CASE Len(recency) > MaxOpen
      <4> DEFINE front == SubSeq(recency, 1, MaxOpen)
      <4>1. MaxOpen \in 0 .. Len(recency) /\ Len(lru) = MaxOpen
        BY <2>1, <3>1, <3>2
      <4>2. /\ front \in Seq(Files) /\ Len(front) = MaxOpen
            /\ \A k \in 1 .. MaxOpen : front[k] = recency[k]
        BY <2>1, <4>1, FrontProperties
      <4> HIDE DEF front
      <4>3. lru = front
        BY <2>1, <3>1, <4>1, <4>2, SeqEqual
      <4> QED  BY <2>2, <2>4, <3>2, <4>3 DEF KeepsMostRecent, front
    <3>3. CASE ~(Len(recency) > MaxOpen)
      <4>1. Len(lru) = Len(recency)
        BY <2>1, <3>1, <3>3
      <4>2. lru = recency
        BY <2>1, <3>1, <4>1, SeqEqual
      <4> QED  BY <2>2, <3>3, <4>2 DEF KeepsMostRecent
    <3> QED  BY <3>2, <3>3
  <2> QED  BY <2>1, <2>3, <2>4
<1> QED  BY <1>1, InvHolds, PTL

\* A dataset that has a value is passed over for its file's sake only.
THEOREM PrecedenceKept == Spec => NeverPassedOver
<1> DEFINE Excused(f) ==
      ground[f] # "value" \/ ~usable[f] \/ (~open[f] /\ BackingOff(f))
<1>1. Inv /\ [Next]_vars => [\A f \in Files : PassedOver(f) => Excused(f)]_vars
  <2> SUFFICES ASSUME Inv, Next, NEW f \in Files, PassedOver(f)
               PROVE  Excused(f)
    OBVIOUS
  <2>1. /\ pc \in {"consult", "opening", "reading"}
        /\ f = datasets[at] /\ at' # at /\ answer' = NoFile
    BY DEF PassedOver
  <2>2. f # NoFile
    BY DEF Files, NoFile
  <2>3. CASE Tick \/ StepBack \/ \E g \in Files : Turn(g)
    BY <2>1, <2>3 DEF Tick, StepBack, Turn, lookup
  <2>4. CASE LoadIndexed \/ LoadEager \/ LeaveOut \/ Serve \/ Begin
    BY <2>1, <2>4 DEF LoadIndexed, LoadEager, LeaveOut, Serve, Begin
  <2>5. CASE Consult
    BY <2>1, <2>5 DEF Consult, lookup
  <2>6. CASE OpenSucceeds
    BY <2>1, <2>6 DEF OpenSucceeds, lookup
  <2>7. CASE OpenFails
    BY <2>1, <2>7 DEF OpenFails
  <2>8. CASE Read
    <3>1. open[f]
      BY <2>1, <2>8 DEF Read, Inv, Placed
    <3> QED  BY <2>1, <2>2, <2>8, <3>1 DEF Read, End
  <2> QED  BY <2>3, <2>4, <2>5, <2>6, <2>7, <2>8 DEF Next
<1> QED  BY <1>1, InvHolds, PTL DEF Spec, NeverPassedOver

\* How long a file is left alone is bounded by the clock that was read.
Healing ==
  /\ started <= now
  /\ HealsWithinCeiling

\* Unless the clock is set back, a file that failed is tried again within the ceiling.
THEOREM TransientFailuresHeal == ~ClockSteps /\ Spec => []HealsWithinCeiling
<1> SUFFICES ASSUME ~ClockSteps PROVE Spec => []HealsWithinCeiling
  OBVIOUS
<1>1. Init => Healing
  BY DEF Init, Healing, HealsWithinCeiling
<1>2. Inv /\ Healing /\ [Next]_vars => Healing'
  <2> SUFFICES ASSUME Inv, Healing, [Next]_vars PROVE Healing'
    OBVIOUS
  <2>1. /\ now \in Nat /\ started \in Nat /\ RetryCeiling \in Nat
        /\ fail_count \in [Files -> Nat] /\ next_retry \in [Files -> Int]
        /\ started <= now
        /\ \A f \in Files : fail_count[f] > 0 => next_retry[f] <= now + RetryCeiling
    BY OpenFilesAssumption DEF Inv, TypeOK, Healing, HealsWithinCeiling
  <2>2. CASE Tick
    <3>1. now' = now + 1 /\ UNCHANGED <<started, fail_count, next_retry>>
      BY <2>2 DEF Tick, retries
    <3> QED  BY <2>1, <3>1 DEF Healing, HealsWithinCeiling
  <2>3. CASE UNCHANGED <<now, started, retries>>
    BY <2>1, <2>3 DEF Healing, HealsWithinCeiling, retries
  <2>4. CASE UNCHANGED <<now, retries>> /\ started' = now
    BY <2>1, <2>4 DEF Healing, HealsWithinCeiling, retries
  <2>5. CASE OpenSucceeds
    <3> DEFINE f == datasets[at]
    <3>1. f \in Files
      BY <2>5, TurnIsFile DEF Inv, OpenSucceeds
    <3>2. /\ now' = now /\ started' = 0
          /\ fail_count' = [fail_count EXCEPT ![f] = 0]
          /\ next_retry' = [next_retry EXCEPT ![f] = 0]
      BY <2>5 DEF OpenSucceeds, world
    <3> HIDE DEF f
    <3>3. \A g \in Files : g # f => fail_count'[g] = fail_count[g] /\ next_retry'[g] = next_retry[g]
      BY <2>1, <3>2
    <3>4. fail_count'[f] = 0
      BY <2>1, <3>1, <3>2
    <3> QED  BY <2>1, <3>2, <3>3, <3>4 DEF Healing, HealsWithinCeiling
  <2>6. CASE OpenFails
    <3> DEFINE f == datasets[at]
               wait == Wait(fail_count[f] + 1)
    <3>1. f \in Files
      BY <2>6, TurnIsFile DEF Inv, OpenFails
    <3>2. /\ now' = now /\ started' = 0
          /\ fail_count' = [fail_count EXCEPT ![f] = @ + 1]
          /\ next_retry' = [next_retry EXCEPT ![f] = started + wait]
      BY <2>6 DEF OpenFails, world
    <3>3. fail_count[f] + 1 \in Nat
      BY <2>1, <3>1
    <3>4. wait \in Int /\ wait <= RetryCeiling
      BY <3>3, WaitBounded
    <3> HIDE DEF f, wait
    <3>5. \A g \in Files : g # f => fail_count'[g] = fail_count[g] /\ next_retry'[g] = next_retry[g]
      BY <2>1, <3>2
    <3>6. next_retry'[f] = started + wait
      BY <2>1, <3>1, <3>2
    <3>7. next_retry'[f] <= now + RetryCeiling
      BY <2>1, <3>4, <3>6
    <3> QED  BY <2>1, <3>2, <3>5, <3>7 DEF Healing, HealsWithinCeiling
  <2>7. CASE StepBack
    BY <2>7 DEF StepBack
  <2>8. CASE Consult
    BY <2>3, <2>4, <2>8 DEF Consult, world
  <2>9. CASE LoadIndexed \/ LoadEager \/ LeaveOut \/ Serve \/ Begin \/ Read \/ \E f \in Files : Turn(f)
    BY <2>3, <2>9 DEF LoadIndexed, LoadEager, LeaveOut, Serve, Begin, Read, Turn, world
  <2>10. CASE UNCHANGED vars
    BY <2>3, <2>10 DEF vars, world
  <2> QED  BY <2>2, <2>5, <2>6, <2>7, <2>8, <2>9, <2>10 DEF Next
<1>3. Healing => HealsWithinCeiling
  BY DEF Healing
<1> QED  BY <1>1, <1>2, <1>3, InvHolds, PTL DEF Spec

-----------------------------------------------------------------------------
(* What the waits come to.  The sum is defined by recursion over the       *)
(* failures, so it has to be shown to exist: by what it is up to each n.   *)

\* A set of numbers that is not empty has a least one.
LEMMA LeastNumber ==
  ASSUME NEW S \in SUBSET Nat, S # {}
  PROVE  \E x \in S : \A y \in S : x <= y
<1>1. PICK x \in S : \A y \in S : <<y, x>> \notin OpToRel(<, Nat)
  BY NatLessThanWellFounded, WFMin
<1>2. \A y \in S : ~(y < x)
  BY <1>1 DEF OpToRel
<1> QED  BY <1>2, SMT

\* g adds up F from 1 to n.
AddsUp(F, n, g) ==
  /\ g \in [0 .. n -> Int]
  /\ g[0] = 0
  /\ \A k \in 1 .. n : g[k] = g[k - 1] + F[k]

\* There is such a sum up to any n,
LEMMA SumUpTo ==
  ASSUME NEW F \in [Nat -> Int], NEW n \in Nat
  PROVE  \E g : AddsUp(F, n, g)
<1> DEFINE without == {m \in Nat : ~ \E g : AddsUp(F, m, g)}
<1>1. SUFFICES ASSUME without # {} PROVE FALSE
  OBVIOUS
<1>2. PICK m \in without : \A k \in without : m <= k
  BY <1>1, LeastNumber
<1>3. m \in Nat /\ ~ \E g : AddsUp(F, m, g)
  OBVIOUS
<1>4. m # 0
  <2>1. AddsUp(F, 0, [k \in 0 .. 0 |-> 0])
    BY DEF AddsUp
  <2> QED  BY <1>3, <2>1
<1>5. m - 1 \in Nat /\ ~(m <= m - 1)
  BY <1>3, <1>4
<1>6. PICK g : AddsUp(F, m - 1, g)
  BY <1>2, <1>5
<1> DEFINE h == [k \in 0 .. m |-> IF k = m THEN g[m - 1] + F[m] ELSE g[k]]
<1>7. /\ g \in [0 .. m - 1 -> Int] /\ g[0] = 0 /\ F[m] \in Int
      /\ \A k \in 1 .. m - 1 : g[k] = g[k - 1] + F[k]
  BY <1>3, <1>6 DEF AddsUp
<1>8. g[m - 1] \in Int
  BY <1>5, <1>7
<1>9. h \in [0 .. m -> Int] /\ h[0] = 0
  <2>1. \A k \in 0 .. m : k = m \/ k \in 0 .. m - 1
    BY <1>3
  <2>2. \A k \in 0 .. m : h[k] \in Int
    BY <1>7, <1>8, <2>1
  <2>3. 0 \in 0 .. m
    BY <1>3
  <2> QED  BY <1>4, <1>7, <2>2, <2>3
<1>10. ASSUME NEW k \in 1 .. m PROVE h[k] = h[k - 1] + F[k]
  <2>1. k \in 0 .. m /\ k - 1 \in 0 .. m /\ k - 1 # m /\ (k = m \/ k \in 1 .. m - 1)
    BY <1>3
  <2>2. h[k - 1] = g[k - 1]
    BY <2>1
  <2>3. CASE k = m
    BY <2>1, <2>2, <2>3
  <2>4. CASE k # m
    BY <1>7, <2>1, <2>2, <2>4
  <2> QED  BY <2>3, <2>4
<1> HIDE DEF h
<1> QED  BY <1>3, <1>9, <1>10 DEF AddsUp

\* and two of them agree as far as both go.
LEMMA SumsAgree ==
  ASSUME NEW F \in [Nat -> Int], NEW n \in Nat, NEW m \in Nat, n <= m,
         NEW g, AddsUp(F, n, g), NEW h, AddsUp(F, m, h)
  PROVE  \A k \in 0 .. n : g[k] = h[k]
<1> DEFINE apart == {k \in 0 .. n : g[k] # h[k]}
<1>1. SUFFICES ASSUME apart # {} PROVE FALSE
  OBVIOUS
<1>2. apart \in SUBSET Nat
  OBVIOUS
<1>3. PICK k \in apart : \A j \in apart : k <= j
  BY <1>1, <1>2, LeastNumber
<1>4. k \in 0 .. n /\ g[k] # h[k]
  OBVIOUS
<1>5. k # 0
  BY <1>4 DEF AddsUp
<1>6. k \in 1 .. n /\ k \in 1 .. m /\ k - 1 \in 0 .. n /\ ~(k <= k - 1)
  BY <1>4, <1>5
<1>7. g[k - 1] = h[k - 1]
  BY <1>3, <1>6
<1>8. g[k] = g[k - 1] + F[k] /\ h[k] = h[k - 1] + F[k]
  BY <1>6 DEF AddsUp
<1> QED  BY <1>4, <1>7, <1>8

\* So there is one sum for all n.
LEMMA SumExists ==
  ASSUME NEW F \in [Nat -> Int]
  PROVE  \E s \in [Nat -> Int] :
           s = [n \in Nat |-> IF n = 0 THEN 0 ELSE s[n - 1] + F[n]]
<1> DEFINE upTo(n) == CHOOSE g : AddsUp(F, n, g)
           s == [n \in Nat |-> upTo(n)[n]]
<1>1. \A n \in Nat : AddsUp(F, n, upTo(n))
  BY SumUpTo
<1> HIDE DEF upTo
<1>2. ASSUME NEW n \in Nat PROVE upTo(n)[n] \in Int
  BY <1>1 DEF AddsUp
<1>3. s \in [Nat -> Int]
  BY <1>2
<1>4. s[0] = 0
  BY <1>1 DEF AddsUp
<1>5. ASSUME NEW n \in Nat, n # 0
      PROVE  s[n] = s[n - 1] + F[n]
  <2>1. n - 1 \in Nat /\ n - 1 <= n /\ n \in 1 .. n /\ n - 1 \in 0 .. n - 1
    BY <1>5
  <2>2. upTo(n)[n] = upTo(n)[n - 1] + F[n]
    BY <1>1, <2>1 DEF AddsUp
  <2>3. upTo(n - 1)[n - 1] = upTo(n)[n - 1]
    BY <1>1, <2>1, SumsAgree
  <2> QED  BY <2>1, <2>2, <2>3
<1> DEFINE t == [n \in Nat |-> IF n = 0 THEN 0 ELSE s[n - 1] + F[n]]
<1>6. \A n \in Nat : s[n] = t[n]
  BY <1>4, <1>5
<1>7. s = t
  <2>1. s = [n \in Nat |-> s[n]] /\ t = [n \in Nat |-> t[n]]
    BY <1>3
  <2> QED  BY <1>6, <2>1
<1> QED  BY <1>3, <1>7

\* The waits add up as they are meant to.
LEMMA BackoffSumIs ==
  /\ BackoffSum \in [Nat -> Int]
  /\ BackoffSum[0] = 0
  /\ \A n \in Nat \ {0} : BackoffSum[n] = BackoffSum[n - 1] + Owed(n)
<1> DEFINE F == [n \in Nat |-> Owed(n)]
<1>1. \A n \in Nat : Owed(n) \in Int
  <2> SUFFICES ASSUME NEW n \in Nat PROVE Owed(n) \in Int
    OBVIOUS
  <2>1. 2 ^ n \in Int
    OBVIOUS
  <2> QED  BY <2>1, OpenFilesAssumption DEF Owed
<1>2. F \in [Nat -> Int]
  BY <1>1
<1>3. \A n \in Nat : F[n] = Owed(n)
  OBVIOUS
<1> HIDE DEF F
<1>4. PICK s \in [Nat -> Int] : s = [n \in Nat |-> IF n = 0 THEN 0 ELSE s[n - 1] + F[n]]
  BY <1>2, SumExists
<1>5. s = [n \in Nat |-> IF n = 0 THEN 0 ELSE s[n - 1] + Owed(n)]
  BY <1>3, <1>4
<1>6. BackoffSum = [n \in Nat |-> IF n = 0 THEN 0 ELSE BackoffSum[n - 1] + Owed(n)]
  BY <1>5 DEF BackoffSum
<1>7. BackoffSum[0] = 0
  BY <1>6
<1>8. \A n \in Nat \ {0} : BackoffSum[n] = BackoffSum[n - 1] + Owed(n)
  BY <1>6
<1> DEFINE untyped == {n \in Nat : BackoffSum[n] \notin Int}
<1>9. untyped = {}
  <2> SUFFICES ASSUME untyped # {} PROVE FALSE
    OBVIOUS
  <2>1. PICK n \in untyped : \A m \in untyped : n <= m
    BY LeastNumber
  <2>2. n \in Nat /\ BackoffSum[n] \notin Int
    OBVIOUS
  <2>3. n # 0
    BY <1>7, <2>2
  <2>4. n - 1 \in Nat /\ ~(n <= n - 1)
    BY <2>2, <2>3
  <2>5. BackoffSum[n - 1] \in Int
    BY <2>1, <2>4
  <2> QED  BY <1>1, <1>8, <2>2, <2>3, <2>5
<1>10. BackoffSum = [n \in Nat |-> BackoffSum[n]]
  BY <1>6
<1>11. BackoffSum \in [Nat -> Int]
  BY <1>9, <1>10
<1> QED  BY <1>7, <1>8, <1>11

\* A file is left alone for what the failure calls for.
LEMMA WaitOwed ==
  ASSUME NEW n \in Nat
  PROVE  Wait(n) \in Int /\ Owed(n) \in Int /\ Owed(n) <= Wait(n)
<1>1. RetryCeiling \in Nat
  BY OpenFilesAssumption
<1>2. 2 ^ n \in Int
  OBVIOUS
<1> QED  BY <1>1, <1>2 DEF Wait, Owed

\* f has waited for all its failures but the last, and has that one to wait for.
Spaced(f) == fail_count[f] > 0 =>
  /\ now >= since[f] + BackoffSum[fail_count[f] - 1]
  /\ next_retry[f] >= since[f] + BackoffSum[fail_count[f]]

\* The clock that was read before an attempt showed that the back-off was over.
Spacing ==
  /\ \A f \in Files : Spaced(f)
  /\ started <= now
  /\ pc = "opening" /\ fail_count[datasets[at]] > 0 => started >= next_retry[datasets[at]]

LEMMA SpacingStep ==
  ASSUME Inv, Spacing, ~ClockSteps, Next
  PROVE  Spacing'
<1>1. /\ now \in Nat /\ started \in Nat
      /\ fail_count \in [Files -> Nat] /\ next_retry \in [Files -> Int]
      /\ since \in [Files -> Nat]
      /\ started <= now
  BY DEF Inv, TypeOK, Spacing
<1>2. ASSUME NEW f \in Files
      PROVE  /\ fail_count[f] \in Nat /\ next_retry[f] \in Int /\ since[f] \in Nat
             /\ fail_count[f] > 0 =>
                  /\ BackoffSum[fail_count[f] - 1] \in Int /\ BackoffSum[fail_count[f]] \in Int
                  /\ now >= since[f] + BackoffSum[fail_count[f] - 1]
                  /\ next_retry[f] >= since[f] + BackoffSum[fail_count[f]]
  <2>1. fail_count[f] \in Nat /\ (fail_count[f] > 0 => fail_count[f] - 1 \in Nat)
    BY <1>1
  <2> QED  BY <1>1, <2>1, BackoffSumIs DEF Spacing, Spaced
<1>3. ASSUME UNCHANGED retries, now' \in Nat, now' >= now
      PROVE  \A f \in Files : Spaced(f)'
  <2> TAKE f \in Files
  <2> QED  BY <1>1, <1>2, <1>3 DEF Spaced, retries
<1>4. CASE Tick \/ \E f \in Files : Turn(f)
  <2>1. /\ now' \in Nat /\ now' >= now
        /\ UNCHANGED <<retries, pc, started, datasets, at>>
    BY <1>1, <1>4 DEF Tick, Turn, lookup
  <2> QED  BY <1>1, <1>3, <2>1 DEF Spacing, retries
<1>5. CASE LoadIndexed \/ LoadEager \/ LeaveOut \/ Serve \/ Begin \/ Read
  <2>1. /\ pc' # "opening"
        /\ UNCHANGED <<now, retries, started>>
    BY <1>5 DEF LoadIndexed, LoadEager, LeaveOut, Serve, Begin, Read, Pass, End, world
  <2> QED  BY <1>1, <1>3, <2>1 DEF Spacing
<1>6. CASE Consult
  <2> DEFINE f == datasets[at]
  <2>1. /\ f \in Files
        /\ UNCHANGED <<now, retries, datasets>>
    BY <1>6, TurnIsFile DEF Consult, Inv, world
  <2>2. \/ pc' # "opening" /\ UNCHANGED started
        \/ pc' = "opening" /\ UNCHANGED at /\ ~BackingOff(f) /\ started' = now
    BY <1>6 DEF Consult, Pass, End, lookup
  <2>3. BackingOff(f) <=> fail_count[f] > 0 /\ now < next_retry[f]
    BY DEF BackingOff
  <2>4. f' = IF at' = at THEN f ELSE f'
    BY <2>1
  <2> HIDE DEF f
  <2>5. \A g \in Files : Spaced(g)'
    BY <1>1, <1>3, <2>1
  <2>6. started' <= now'
    BY <1>1, <2>1, <2>2
  <2>7. CASE pc' = "opening"
    <3>1. f' = f
      BY <2>2, <2>4, <2>7
    <3>2. fail_count[f] > 0 => started' >= next_retry[f]
      BY <1>1, <1>2, <2>1, <2>2, <2>3, <2>7
    <3>3. (fail_count[f] > 0)' => started' >= next_retry[f]'
      BY <2>1, <3>1, <3>2 DEF retries
    <3> QED  BY <2>5, <2>6, <3>3 DEF Spacing, f
  <2> QED  BY <2>5, <2>6, <2>7 DEF Spacing
<1>7. CASE OpenSucceeds
  <2> DEFINE f == datasets[at]
  <2>1. /\ f \in Files /\ pc' = "reading" /\ now' = now /\ started' = 0
        /\ fail_count' = [fail_count EXCEPT ![f] = 0]
        /\ next_retry' = [next_retry EXCEPT ![f] = 0]
        /\ since' = [since EXCEPT ![f] = 0]
    BY <1>7, TurnIsFile DEF Inv, OpenSucceeds, world
  <2> HIDE DEF f
  <2>2. ASSUME NEW g \in Files PROVE Spaced(g)'
    <3>1. CASE g = f
      <4>1. fail_count'[g] = 0
        BY <1>1, <2>1, <3>1
      <4> QED  BY <4>1 DEF Spaced
    <3>2. CASE g # f
      <4>1. fail_count'[g] = fail_count[g] /\ next_retry'[g] = next_retry[g] /\ since'[g] = since[g]
        BY <1>1, <2>1, <3>2
      <4> QED  BY <1>2, <2>1, <4>1 DEF Spaced
    <3> QED  BY <3>1, <3>2
  <2> QED  BY <1>1, <2>1, <2>2 DEF Spacing
<1>8. CASE OpenFails
  <2> DEFINE f == datasets[at]
             n == fail_count[f]
             wait == Wait(n + 1)
  <2>1. /\ f \in Files /\ pc = "opening" /\ now' = now /\ started' = 0
        /\ fail_count' = [fail_count EXCEPT ![f] = n + 1]
        /\ next_retry' = [next_retry EXCEPT ![f] = started + wait]
        /\ since' = IF n = 0 THEN [since EXCEPT ![f] = started] ELSE since
    BY <1>8, TurnIsFile DEF Inv, OpenFails, Fail, world
  <2>2. pc' # "opening"
    BY <1>8 DEF OpenFails, Pass, End
  <2>3. n \in Nat /\ n + 1 \in Nat \ {0} /\ n + 1 - 1 = n
    BY <1>1, <2>1
  <2>4. wait \in Int /\ Owed(n + 1) \in Int /\ Owed(n + 1) <= wait
    BY <2>3, WaitOwed
  <2>5. BackoffSum[n + 1] = BackoffSum[n] + Owed(n + 1) /\ BackoffSum[n] \in Int
    BY <2>3, BackoffSumIs
  <2>6. since'[f] \in Nat /\ started >= since'[f] + BackoffSum[n]
    <3>1. CASE n = 0
      <4>1. since'[f] = started
        BY <1>1, <2>1, <3>1
      <4> QED  BY <1>1, <3>1, <4>1, BackoffSumIs
    <3>2. CASE n > 0
      <4>1. started >= next_retry[f]
        BY <2>1, <3>2 DEF Spacing
      <4>2. since'[f] = since[f]
        BY <2>1, <3>2
      <4> QED  BY <1>1, <1>2, <2>1, <2>5, <3>2, <4>1, <4>2
    <3> QED  BY <2>3, <3>1, <3>2
  <2> HIDE DEF f, n, wait
  <2>7. ASSUME NEW g \in Files PROVE Spaced(g)'
    <3>1. CASE g = f
      <4>1. fail_count'[g] = n + 1 /\ next_retry'[g] = started + wait
        BY <1>1, <2>1, <3>1
      <4>2. now >= since'[f] + BackoffSum[n] /\ started + wait >= since'[f] + BackoffSum[n + 1]
        BY <1>1, <2>4, <2>5, <2>6
      <4> QED  BY <2>1, <2>3, <3>1, <4>1, <4>2 DEF Spaced
    <3>2. CASE g # f
      <4>1. fail_count'[g] = fail_count[g] /\ next_retry'[g] = next_retry[g] /\ since'[g] = since[g]
        BY <1>1, <2>1, <3>2
      <4> QED  BY <1>2, <2>1, <4>1 DEF Spaced
    <3> QED  BY <3>1, <3>2
  <2> QED  BY <1>1, <2>1, <2>2, <2>7 DEF Spacing
<1>9. CASE StepBack
  BY <1>9 DEF StepBack
<1> QED  BY <1>4, <1>5, <1>6, <1>7, <1>8, <1>9 DEF Next

\* Unless the clock is set back, the failures in a row are as far apart as their waits.
THEOREM FailuresAreSpaced == ~ClockSteps /\ Spec => []ProbesSpaced
<1> SUFFICES ASSUME ~ClockSteps PROVE Spec => []ProbesSpaced
  OBVIOUS
<1>1. Init => Spacing
  BY DEF Init, Spacing, Spaced
<1>2. Inv /\ Spacing /\ [Next]_vars => Spacing'
  <2>1. CASE UNCHANGED vars
    BY <2>1 DEF vars, world, retries, lookup, Spacing, Spaced
  <2> QED  BY <2>1, SpacingStep
<1>3. Spacing => ProbesSpaced
  BY DEF Spacing, Spaced, ProbesSpaced
<1> QED  BY <1>1, <1>2, <1>3, InvHolds, PTL DEF Spec
=============================================================================
