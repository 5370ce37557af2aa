--------------------------- MODULE Deployment_proofs ---------------------------
(***************************************************************************)
(* Proofs about deployments of any rasters, command lines and indexes: the *)
(* grid is a filter that decides nothing, an answer is that of the first   *)
(* dataset and the first layer with a value, and what has passed `demd -W` *)
(* is what a daemon would get from the sources themselves.                 *)
(***************************************************************************)
EXTENDS Deployment, LookupGrid_proofs

-----------------------------------------------------------------------------
(* Lists of lists.                                                         *)

\* h has the first lists put together, up to the m-th of them.
Joins(seqs, m, h) ==
  \A i \in DOMAIN seqs : i <= m => h[i] = IF i = 1 THEN seqs[i] ELSE h[i - 1] \o seqs[i]

\* FlattenSeq() is defined by recursion: there is such a function for lists of any number.
LEMMA JoinsExist ==
  ASSUME NEW S, NEW seqs \in Seq(Seq(S)), NEW m \in Nat
  PROVE  \E h \in [DOMAIN seqs -> Seq(S)] : Joins(seqs, m, h)
<1> DEFINE D == DOMAIN seqs
           without == {k \in Nat : ~ \E h \in [D -> Seq(S)] : Joins(seqs, k, h)}
<1>0. D \subseteq Nat \ {0} /\ (\A i \in D : i # 1 => i - 1 \in D) /\ seqs \in [D -> Seq(S)]
  <2>1. Len(seqs) \in Nat /\ D = 1 .. Len(seqs) /\ seqs \in [1 .. Len(seqs) -> Seq(S)]
    BY LenProperties
  <2> QED  BY <2>1
<1> HIDE DEF D
<1>1. SUFFICES ASSUME without # {} PROVE FALSE
  BY DEF D
<1>2. PICK k \in without : \A j \in without : k <= j
  BY <1>1, LeastNumber
<1>3. k \in Nat /\ ~ \E h \in [D -> Seq(S)] : Joins(seqs, k, h)
  OBVIOUS
<1>4. k # 0
  <2>1. Joins(seqs, 0, seqs)
    BY <1>0 DEF Joins, D
  <2> QED  BY <1>0, <1>3, <2>1
<1>5. k - 1 \in Nat /\ ~(k <= k - 1)
  BY <1>3, <1>4
<1>6. PICK h \in [D -> Seq(S)] : Joins(seqs, k - 1, h)
  BY <1>2, <1>5
<1> DEFINE g == [i \in D |-> IF i = 1 THEN seqs[i] ELSE h[i - 1] \o seqs[i]]
<1>7. g \in [D -> Seq(S)]
  BY <1>0, ConcatProperties
<1>8. Joins(seqs, k, g)
  <2> SUFFICES ASSUME NEW i \in D, i <= k, i # 1
               PROVE  g[i] = g[i - 1] \o seqs[i]
    BY DEF Joins, D
  <2>1. i - 1 \in D /\ i - 1 <= k - 1 /\ i \in Nat
    BY <1>0, <1>3
  <2>2. g[i] = h[i - 1] \o seqs[i]
    OBVIOUS
  <2> DEFINE j == i - 1
  <2>3. g[j] = IF j = 1 THEN seqs[j] ELSE h[j - 1] \o seqs[j]
    BY <2>1
  <2>4. h[j] = IF j = 1 THEN seqs[j] ELSE h[j - 1] \o seqs[j]
    BY <1>6, <2>1 DEF Joins, D
  <2> QED  BY <2>2, <2>3, <2>4
<1> QED  BY <1>3, <1>7, <1>8

LEMMA FlattenIs ==
  ASSUME NEW S, NEW seqs \in Seq(Seq(S)), seqs # <<>>
  PROVE  \E f : /\ FlattenSeq(seqs) = f[Len(seqs)]
                /\ \A i \in 1 .. Len(seqs) : f[i] = IF i = 1 THEN seqs[i] ELSE f[i - 1] \o seqs[i]
<1> DEFINE n == Len(seqs)
           body(h) == [i \in 1 .. n |-> IF i = 1 THEN seqs[i] ELSE h[i - 1] \o seqs[i]]
           flatten == CHOOSE f : f = body(f)
<1>1. n \in Nat /\ n # 0 /\ DOMAIN seqs = 1 .. n
  BY LenProperties, EmptySeq
<1>2. PICK h \in [1 .. n -> Seq(S)] : Joins(seqs, n, h)
  BY <1>1, JoinsExist
<1>3. \A i \in 1 .. n : h[i] = body(h)[i]
  <2> TAKE i \in 1 .. n
  <2>1. i \in DOMAIN seqs /\ i <= n
    BY <1>1
  <2>2. h[i] = IF i = 1 THEN seqs[i] ELSE h[i - 1] \o seqs[i]
    BY <1>2, <2>1 DEF Joins
  <2> HIDE DEF n
  <2> QED  BY <2>2
<1>4. h = body(h)
  <2>1. h = [i \in 1 .. n |-> h[i]] /\ body(h) = [i \in 1 .. n |-> body(h)[i]]
    OBVIOUS
  <2> QED  BY <1>3, <2>1
<1>5. FlattenSeq(seqs) = flatten[n]
  BY <1>1 DEF FlattenSeq
<1> HIDE DEF body
<1>6. flatten = body(flatten)
  BY <1>4
<1> HIDE DEF flatten
<1>7. \A i \in 1 .. n : flatten[i] = IF i = 1 THEN seqs[i] ELSE flatten[i - 1] \o seqs[i]
  BY <1>6 DEF body
<1> QED  BY <1>5, <1>7

\* t has what the first i lists have, in their order.
JoinOf(S, seqs, i, t) ==
  /\ t \in Seq(S)
  /\ Range(t) = UNION {Range(seqs[k]) : k \in 1 .. i}
  /\ \A a, b \in 1 .. Len(t) : a < b =>
       \E j, k \in 1 .. i : j <= k /\ t[a] \in Range(seqs[j]) /\ t[b] \in Range(seqs[k])

\* Another list joins those before it.
LEMMA JoinAnother ==
  ASSUME NEW S, NEW seqs \in Seq(Seq(S)), NEW i \in 1 .. Len(seqs), i # 1,
         NEW t, JoinOf(S, seqs, i - 1, t)
  PROVE  JoinOf(S, seqs, i, t \o seqs[i])
<1> DEFINE s == seqs[i]
           u == t \o s
<1>1. Len(seqs) \in Nat /\ i \in Nat /\ i - 1 \in Nat /\ s \in Seq(S) /\ t \in Seq(S)
  BY LenProperties, ElementOfSeq DEF JoinOf
<1>2. /\ u \in Seq(S) /\ Len(u) = Len(t) + Len(s)
      /\ \A k \in 1 .. Len(t) + Len(s) : u[k] = IF k <= Len(t) THEN t[k] ELSE s[k - Len(t)]
  BY <1>1, ConcatProperties
<1>3. /\ Len(t) \in Nat /\ Len(s) \in Nat
      /\ DOMAIN t = 1 .. Len(t) /\ DOMAIN s = 1 .. Len(s)
  BY <1>1, LenProperties
<1>4. \A k : k \in 1 .. i <=> k \in 1 .. i - 1 \/ k = i
  BY <1>1
<1> DEFINE lt == Len(t)
           ls == Len(s)
<1>5. /\ Len(u) = lt + ls /\ lt \in Nat /\ ls \in Nat
      /\ \A k \in 1 .. lt + ls : u[k] = IF k <= lt THEN t[k] ELSE s[k - lt]
  BY <1>2, <1>3
<1>6. Range(u) = Range(t) \cup Range(s)
  BY <1>1, RangeConcatenation
<1> HIDE DEF lt, ls, u
<1>7. ASSUME NEW a \in 1 .. lt + ls
      PROVE  IF a <= lt THEN a \in 1 .. lt /\ u[a] = t[a]
             ELSE a - lt \in 1 .. ls /\ u[a] \in Range(s)
  <2>1. CASE a <= lt
    BY <1>5, <2>1
  <2>2. CASE ~(a <= lt)
    <3>1. a - lt \in 1 .. ls
      BY <1>5, <2>2
    <3>2. u[a] = s[a - lt]
      BY <1>5, <2>2
    <3> QED  BY <1>3, <2>2, <3>1, <3>2 DEF Range, ls
  <2> QED  BY <2>1, <2>2
<1>8. Range(u) = UNION {Range(seqs[k]) : k \in 1 .. i}
  <2>1. Range(t) = UNION {Range(seqs[k]) : k \in 1 .. i - 1}
    BY DEF JoinOf
  <2> QED  BY <1>4, <1>6, <2>1
<1>9. ASSUME NEW a \in 1 .. lt + ls, NEW b \in 1 .. lt + ls, a < b
      PROVE  \E j, k \in 1 .. i : j <= k /\ u[a] \in Range(seqs[j]) /\ u[b] \in Range(seqs[k])
  <2>1. a \in Nat /\ b \in Nat /\ i \in 1 .. i /\ i <= i
    BY <1>1, <1>5
  <2>2. CASE b <= lt
    <3>1. a <= lt
      BY <1>5, <1>9, <2>1, <2>2
    <3>2. a \in 1 .. lt /\ b \in 1 .. lt /\ u[a] = t[a] /\ u[b] = t[b]
      BY <1>7, <2>2, <3>1
    <3>3. \E j, k \in 1 .. i - 1 : j <= k /\ t[a] \in Range(seqs[j]) /\ t[b] \in Range(seqs[k])
      BY <1>9, <3>2 DEF JoinOf, lt
    <3> QED  BY <1>4, <3>2, <3>3
  <2>3. CASE ~(b <= lt) /\ a <= lt
    <3>1. u[a] = t[a] /\ a \in 1 .. lt /\ u[b] \in Range(s)
      BY <1>7, <2>3
    <3>2. u[a] \in Range(t)
      BY <1>3, <3>1 DEF Range, lt
    <3>3. PICK j \in 1 .. i - 1 : u[a] \in Range(seqs[j])
      BY <3>2 DEF JoinOf
    <3>4. j \in 1 .. i /\ j <= i
      BY <1>1
    <3> QED  BY <2>1, <3>1, <3>3, <3>4
  <2>4. CASE ~(b <= lt) /\ ~(a <= lt)
    BY <1>7, <2>1, <2>4
  <2> QED  BY <2>2, <2>3, <2>4
<1>10. \A a, b \in 1 .. Len(u) : a < b =>
         \E j, k \in 1 .. i : j <= k /\ u[a] \in Range(seqs[j]) /\ u[b] \in Range(seqs[k])
  <2>1. Len(u) = lt + ls
    BY <1>5
  <2> QED  BY <1>9, <2>1
<1>11. JoinOf(S, seqs, i, u)
  BY <1>2, <1>8, <1>10 DEF JoinOf
<1> QED  BY <1>11 DEF u, s

\* All lists together: what is in them, each element after those of the lists before.
LEMMA FlattenProperties ==
  ASSUME NEW S, NEW seqs \in Seq(Seq(S))
  PROVE  JoinOf(S, seqs, Len(seqs), FlattenSeq(seqs))
<1> DEFINE n == Len(seqs)
<1>1. n \in Nat /\ DOMAIN seqs = 1 .. n
  BY LenProperties
<1>2. CASE seqs = <<>>
  <2>1. n = 0 /\ FlattenSeq(seqs) = <<>>
    BY <1>2 DEF FlattenSeq
  <2>2. <<>> \in Seq(S) /\ Range(<<>>) = {} /\ Len(<<>>) = 0
    BY EmptyList
  <2> QED  BY <2>1, <2>2 DEF JoinOf
<1>3. CASE seqs # <<>>
  <2>1. PICK f : /\ FlattenSeq(seqs) = f[n]
                 /\ \A i \in 1 .. n : f[i] = IF i = 1 THEN seqs[i] ELSE f[i - 1] \o seqs[i]
    BY <1>3, FlattenIs
  <2>2. n # 0
    BY <1>3, EmptySeq
  <2> HIDE DEF n
  <2> DEFINE bad == {i \in Nat : i \in 1 .. n /\ ~JoinOf(S, seqs, i, f[i])}
  <2>3. bad = {}
    <3> SUFFICES ASSUME bad # {} PROVE FALSE
      OBVIOUS
    <3>1. PICK i \in bad : \A j \in bad : i <= j
      BY LeastNumber
    <3>2. i \in 1 .. n /\ ~JoinOf(S, seqs, i, f[i])
      OBVIOUS
    <3>3. CASE i = 1
      <4>1. f[i] = seqs[1] /\ seqs[1] \in Seq(S)
        BY <1>1, <2>1, <3>2, <3>3, ElementOfSeq DEF n
      <4>2. Len(f[i]) \in Nat /\ DOMAIN f[i] = 1 .. Len(f[i])
        BY <4>1, LenProperties
      <4>3. \A k : k \in 1 .. i <=> k = 1
        BY <3>3
      <4>4. \A a \in 1 .. Len(f[i]) : f[i][a] \in Range(seqs[1])
        BY <4>1, <4>2 DEF Range
      <4>5. Range(f[i]) = UNION {Range(seqs[k]) : k \in 1 .. i}
        BY <4>1, <4>3
      <4> QED  BY <3>2, <4>1, <4>3, <4>4, <4>5 DEF JoinOf
    <3>4. CASE i # 1
      <4> DEFINE j == i - 1
      <4>1. j \in Nat /\ j \in 1 .. n /\ ~(i <= j)
        BY <1>1, <3>2, <3>4
      <4>2. JoinOf(S, seqs, j, f[j])
        BY <3>1, <4>1
      <4>3. JoinOf(S, seqs, i, f[j] \o seqs[i])
        BY <3>2, <3>4, <4>2, JoinAnother DEF n
      <4>4. f[i] = f[j] \o seqs[i]
        BY <2>1, <3>2, <3>4
      <4> QED  BY <3>2, <4>3, <4>4
    <3> QED  BY <3>3, <3>4
  <2>4. n \in 1 .. n /\ n \in Nat
    BY <1>1, <2>2
  <2>5. JoinOf(S, seqs, n, f[n])
    BY <2>3, <2>4
  <2> QED  BY <2>1, <2>5 DEF n
<1> QED  BY <1>2, <1>3

\* s is t, element by element under g.
Images(g, s, t) == Len(s) = Len(t) /\ \A i \in 1 .. Len(t) : s[i] = g[t[i]]

LEMMA ImagesConcat ==
  ASSUME NEW S, NEW T, NEW g, NEW s \in Seq(S), NEW t \in Seq(T), NEW u \in Seq(S), NEW v \in Seq(T),
         Images(g, s, t), Images(g, u, v)
  PROVE  Images(g, s \o u, t \o v)
<1> DEFINE m == Len(t)
           n == Len(v)
           su == s \o u
           tv == t \o v
<1>1. m \in Nat /\ n \in Nat /\ Len(s) = m /\ Len(u) = n
  BY LenProperties DEF Images
<1>2. /\ Len(su) = m + n /\ Len(tv) = m + n
      /\ \A i \in 1 .. m + n : su[i] = IF i <= m THEN s[i] ELSE u[i - m]
      /\ \A i \in 1 .. m + n : tv[i] = IF i <= m THEN t[i] ELSE v[i - m]
  <2>1. /\ Len(su) = Len(s) + Len(u)
        /\ \A i \in 1 .. Len(s) + Len(u) : su[i] = IF i <= Len(s) THEN s[i] ELSE u[i - Len(s)]
    BY ConcatProperties
  <2>2. /\ Len(tv) = m + n
        /\ \A i \in 1 .. m + n : tv[i] = IF i <= m THEN t[i] ELSE v[i - m]
    BY ConcatProperties
  <2> HIDE DEF su, tv, m, n
  <2> QED  BY <1>1, <2>1, <2>2
<1>3. /\ \A i \in 1 .. m : s[i] = g[t[i]]
      /\ \A i \in 1 .. n : u[i] = g[v[i]]
  BY DEF Images
<1> HIDE DEF m, n, su, tv
<1>4. ASSUME NEW i \in 1 .. m + n
      PROVE  su[i] = g[tv[i]]
  <2>1. CASE i <= m
    <3>1. i \in 1 .. m
      BY <1>1, <2>1
    <3> QED  BY <1>2, <1>3, <2>1, <3>1
  <2>2. CASE ~(i <= m)
    <3>1. i - m \in 1 .. n
      BY <1>1, <2>2
    <3>2. su[i] = u[i - m] /\ tv[i] = v[i - m]
      BY <1>2, <2>2
    <3>3. u[i - m] = g[v[i - m]]
      BY <1>3, <3>1
    <3> QED  BY <3>2, <3>3
  <2> QED  BY <2>1, <2>2
<1>5. Images(g, su, tv)
  BY <1>2, <1>4 DEF Images
<1> QED  BY <1>5 DEF su, tv

\* All lists together, when each is that of another element by element.
LEMMA FlattenImages ==
  ASSUME NEW S, NEW T, NEW g, NEW seqs \in Seq(Seq(S)), NEW tuples \in Seq(Seq(T)),
         Len(seqs) = Len(tuples),
         \A k \in 1 .. Len(tuples) : Images(g, seqs[k], tuples[k])
  PROVE  Images(g, FlattenSeq(seqs), FlattenSeq(tuples))
<1> DEFINE n == Len(tuples)
<1>1. /\ n \in Nat /\ DOMAIN tuples = 1 .. n /\ Len(seqs) = n
      /\ \A k \in 1 .. n : seqs[k] \in Seq(S) /\ tuples[k] \in Seq(T)
  BY LenProperties, ElementOfSeq
<1>2. CASE tuples = <<>>
  <2>1. seqs = <<>>
    BY <1>2, EmptySeq
  <2>2. FlattenSeq(seqs) = <<>> /\ FlattenSeq(tuples) = <<>>
    BY <1>2, <2>1 DEF FlattenSeq
  <2>3. Len(<<>>) = 0 /\ 1 .. 0 = {}
    OBVIOUS
  <2> QED  BY <2>2, <2>3 DEF Images
<1>3. CASE tuples # <<>>
  <2>1. n # 0 /\ seqs # <<>>
    BY <1>1, <1>3, EmptySeq
  <2>2. PICK h : /\ FlattenSeq(tuples) = h[n]
                 /\ \A i \in 1 .. n : h[i] = IF i = 1 THEN tuples[i] ELSE h[i - 1] \o tuples[i]
    BY <1>3, FlattenIs
  <2>3. PICK f : /\ FlattenSeq(seqs) = f[n]
                 /\ \A i \in 1 .. n : f[i] = IF i = 1 THEN seqs[i] ELSE f[i - 1] \o seqs[i]
    BY <1>1, <2>1, FlattenIs
  <2>4. \A k \in 1 .. n : Images(g, seqs[k], tuples[k])
    OBVIOUS
  <2> HIDE DEF n
  <2> DEFINE good(i) == f[i] \in Seq(S) /\ h[i] \in Seq(T) /\ Images(g, f[i], h[i])
             bad == {i \in Nat : i \in 1 .. n /\ ~good(i)}
  <2>5. bad = {}
    <3> SUFFICES ASSUME bad # {} PROVE FALSE
      OBVIOUS
    <3>1. PICK i \in bad : \A j \in bad : i <= j
      BY LeastNumber
    <3>2. i \in 1 .. n /\ ~good(i)
      OBVIOUS
    <3>3. CASE i = 1
      <4>1. f[i] = seqs[i] /\ h[i] = tuples[i]
        BY <2>2, <2>3, <3>2, <3>3
      <4> QED  BY <1>1, <2>4, <3>2, <4>1
    <3>4. CASE i # 1
      <4> DEFINE j == i - 1
      <4>1. j \in Nat /\ j \in 1 .. n /\ ~(i <= j)
        BY <1>1, <3>2, <3>4
      <4>2. good(j)
        BY <3>1, <4>1
      <4>3. f[i] = f[j] \o seqs[i] /\ h[i] = h[j] \o tuples[i]
        BY <2>2, <2>3, <3>2, <3>4
      <4>4. /\ seqs[i] \in Seq(S) /\ tuples[i] \in Seq(T)
            /\ Images(g, seqs[i], tuples[i])
        BY <1>1, <2>4, <3>2
      <4> HIDE DEF j
      <4>5. f[i] \in Seq(S) /\ h[i] \in Seq(T)
        BY <4>2, <4>3, <4>4, ConcatProperties
      <4>6. Images(g, f[i], h[i])
        BY <4>2, <4>3, <4>4, ImagesConcat
      <4> QED  BY <3>2, <4>5, <4>6
    <3> QED  BY <3>3, <3>4
  <2>6. n \in 1 .. n /\ n \in Nat
    BY <1>1, <2>1
  <2>7. good(n)
    BY <2>5, <2>6
  <2> QED  BY <2>2, <2>3, <2>7
<1> QED  BY <1>2, <1>3

-----------------------------------------------------------------------------
(* Lists of sources, and what is taken from them.                          *)

\* The files and the index are what they are meant to be.
FilesTyped ==
  /\ rasters \in [Paths -> Raster \cup {Unreadable}]
  /\ index \in Seq(Entry) \cup {NoIndex}

\* A directory lists what it holds in alphabetical order, the index left out.
LEMMA ListDEMsProperties ==
  ASSUME NEW argument \in Argument
  PROVE  /\ ListDEMs(argument) \in Seq(Paths)
         /\ Range(ListDEMs(argument)) = argument \ {IndexName}
<1> DEFINE S == argument \ {IndexName}
<1>1. S \in SUBSET argument /\ S \in SUBSET Paths /\ IsFiniteSet(argument)
  BY DEF Argument
<1> HIDE DEF S
<1>2. IsFiniteSet(S) /\ S \in SUBSET Int
  <2>1. IsFiniteSet(S)
    BY <1>1, FS_Subset
  <2>2. Paths \subseteq Nat /\ Nat \subseteq Int
    BY DeploymentAssumption
  <2> QED  BY <1>1, <2>1, <2>2
<1>3. Ascending(S) \in Seq(S) /\ Range(Ascending(S)) = S
  BY <1>2, AscendingProperties
<1>4. Ascending(S) \in Seq(Paths)
  BY <1>1, <1>3, SeqMonotonic
<1> QED  BY <1>3, <1>4 DEF ListDEMs, S

\* The lists of all arguments.
LEMMA ListsOf ==
  ASSUME NEW arguments \in Seq(Argument)
  PROVE  LET lists == [k \in DOMAIN arguments |-> ListDEMs(arguments[k])]
         IN lists \in Seq(Seq(Paths)) /\ Len(lists) = Len(arguments)
<1> DEFINE lists == [k \in DOMAIN arguments |-> ListDEMs(arguments[k])]
<1>1. Len(arguments) \in Nat /\ DOMAIN arguments = 1 .. Len(arguments)
      /\ \A k \in 1 .. Len(arguments) : arguments[k] \in Argument
  BY LenProperties, ElementOfSeq
<1>2. lists \in [1 .. Len(arguments) -> Seq(Paths)]
  BY <1>1, ListDEMsProperties
<1>3. lists \in Seq(Seq(Paths)) /\ DOMAIN lists = 1 .. Len(arguments)
  BY <1>1, <1>2, SeqDef
<1>4. Len(lists) = Len(arguments)
  BY <1>1, <1>3, LenProperties
<1> QED  BY <1>3, <1>4

LEMMA ListedProperties ==
  ASSUME NEW arguments \in Seq(Argument)
  PROVE  /\ Listed(arguments) \in Seq(Paths)
         /\ Range(Listed(arguments)) =
              UNION {arguments[k] \ {IndexName} : k \in DOMAIN arguments}
<1> DEFINE lists == [k \in DOMAIN arguments |-> ListDEMs(arguments[k])]
<1>1. Len(arguments) \in Nat /\ DOMAIN arguments = 1 .. Len(arguments)
      /\ \A k \in 1 .. Len(arguments) : arguments[k] \in Argument
  BY LenProperties, ElementOfSeq
<1>2. lists \in Seq(Seq(Paths)) /\ Len(lists) = Len(arguments)
  BY ListsOf
<1>3. \A k \in DOMAIN arguments : Range(lists[k]) = arguments[k] \ {IndexName}
  BY <1>1, ListDEMsProperties
<1>4. Listed(arguments) = FlattenSeq(lists)
  BY DEF Listed
<1> HIDE DEF lists
<1>5. JoinOf(Paths, lists, Len(arguments), FlattenSeq(lists))
  BY <1>2, FlattenProperties
<1> QED  BY <1>1, <1>3, <1>4, <1>5 DEF JoinOf

LEMMA SourcesProperties ==
  ASSUME NEW input \in Input
  PROVE  /\ CollectSources(input) \in Seq(Paths)
         /\ Servable(input) => CollectSources(input) = Listed(input.arguments)
<1> DEFINE listed == Listed(input.arguments)
           all == input.lines \o listed
           sources == [i \in DOMAIN all |-> Rewritten[all[i]]]
<1>1. input.lines \in Seq(Paths) /\ listed \in Seq(Paths)
  BY ListedProperties DEF Input
<1>2. CollectSources(input) = sources
  BY DEF CollectSources
<1> HIDE DEF listed
<1>3. all \in Seq(Paths)
  BY <1>1, ConcatProperties
<1>4. input.lines = <<>> => all = listed
  BY <1>1, ConcatEmptySeq
<1> HIDE DEF all
<1>5. Len(all) \in Nat /\ DOMAIN all = 1 .. Len(all) /\ \A i \in 1 .. Len(all) : all[i] \in Paths
  BY <1>3, LenProperties, ElementOfSeq
<1>6. sources \in [1 .. Len(all) -> Paths]
  BY <1>5, DeploymentAssumption
<1>7. sources \in Seq(Paths)
  BY <1>5, <1>6, SeqDef
<1>8. ASSUME Servable(input)
      PROVE  sources = listed
  <2>0. \A i \in DOMAIN listed : Rewritten[listed[i]] = listed[i]
    <3>1. Range(listed) =
            UNION {input.arguments[k] \ {IndexName} : k \in DOMAIN input.arguments}
      BY ListedProperties DEF Input, listed
    <3>2. \A i \in DOMAIN listed : listed[i] \in Range(listed)
      BY DEF Range
    <3> QED  BY <1>8, <3>1, <3>2 DEF Servable
  <2>1. DOMAIN sources = DOMAIN listed /\ \A i \in DOMAIN listed : sources[i] = listed[i]
    BY <1>4, <1>8, <2>0 DEF Servable
  <2>2. Len(listed) \in Nat /\ DOMAIN listed = 1 .. Len(listed)
    BY <1>1, LenProperties
  <2>3. Len(sources) = Len(listed)
    BY <1>7, <2>1, <2>2, LenProperties
  <2> QED  BY <1>1, <1>7, <2>1, <2>2, <2>3, SeqEqual
<1> QED  BY <1>2, <1>7, <1>8 DEF listed

\* The bounds of a raster that can be read are a box.
LEMMA BoundsAreBox ==
  ASSUME FilesTyped, NEW p \in Paths, Readable(p)
  PROVE  /\ rasters[p] \in Raster
         /\ Bounds(p) \in Box /\ EntryOf(p) \in Entry
         /\ NorthUp(rasters[p]) => Plausible(Bounds(p))
<1> DEFINE r == rasters[p]
<1>1. r \in Raster
  BY DEF FilesTyped, Readable
<1> HIDE DEF r
<1> DEFINE a == r.at[1]
           b == r.at[2]
           c == r.at[3]
           d == r.at[4]
           e == r.at[5]
           f == r.at[6]
           w == r.width
           h == r.height
<1>2. /\ a \in Int /\ b \in Int /\ c \in Int /\ d \in Int /\ e \in Int /\ f \in Int
      /\ w \in Nat \ {0} /\ h \in Nat \ {0}
  BY <1>1 DEF Raster, RasterShape
<1> DEFINE bw == b * w
           ch == c * h
           ew == e * w
           fh == f * h
<1>3. /\ bw \in Int /\ ch \in Int /\ ew \in Int /\ fh \in Int
      /\ b * 0 = 0 /\ c * 0 = 0 /\ e * 0 = 0 /\ f * 0 = 0
  <2> HIDE DEF a, b, c, d, e, f, w, h
  <2> QED  BY <1>2, SMT
<1>4. b > 0 /\ f < 0 => bw >= 0 /\ fh <= 0
  <2> HIDE DEF a, b, c, d, e, f, w, h
  <2>1. b > 0 => b * 0 <= b * w
    BY <1>2, TimesNonNegative
  <2>2. f < 0 => f * h <= 0
    BY <1>2, Between
  <2> QED  BY <1>3, <2>1, <2>2
<1>5. ComputeBounds(r) =
        [ top    |-> Larger(d + ew + f * 0, d + e * 0 + f * 0),
          bottom |-> Smaller(d + ew + fh, d + e * 0 + fh),
          left   |-> Smaller(a + b * 0 + c * 0, a + b * 0 + ch),
          right  |-> Larger(a + bw + c * 0, a + bw + ch) ]
  BY DEF ComputeBounds, Corner
<1>6. NorthUp(r) <=> b > 0 /\ f < 0
  BY DEF NorthUp
<1> HIDE DEF a, b, c, d, e, f, w, h, bw, ch, ew, fh
<1>7. ComputeBounds(r) =
        [ top    |-> Larger(d + ew, d),
          bottom |-> Smaller(d + ew + fh, d + fh),
          left   |-> Smaller(a, a + ch),
          right  |-> Larger(a + bw, a + bw + ch) ]
  <2>1. /\ d + ew + f * 0 = d + ew /\ d + e * 0 + f * 0 = d /\ d + e * 0 + fh = d + fh
        /\ a + b * 0 + c * 0 = a /\ a + b * 0 + ch = a + ch /\ a + bw + c * 0 = a + bw
    BY <1>2, <1>3
  <2> QED  BY <1>5, <2>1
<1>8. ComputeBounds(r) \in Box
  BY <1>2, <1>3, <1>7 DEF Larger, Smaller, Box
<1>9. NorthUp(r) => Plausible(ComputeBounds(r))
  BY <1>2, <1>3, <1>4, <1>6, <1>7 DEF Larger, Smaller, Plausible
<1> QED  BY <1>1, <1>8, <1>9 DEF r, Bounds, EntryOf, Entry

\* The numbers up to n, in order, are themselves.
LEMMA AscendingInterval ==
  ASSUME NEW n \in Nat
  PROVE  /\ Ascending(1 .. n) \in Seq(1 .. n) /\ Len(Ascending(1 .. n)) = n
         /\ \A k \in 1 .. n : Ascending(1 .. n)[k] = k
<1>1. IsFiniteSet(1 .. n) /\ Cardinality(1 .. n) = n /\ 1 .. n \in SUBSET Int
  BY FS_Interval
<1>2. ASSUME NEW x \in 1 .. n
      PROVE  Cardinality(Below(1 .. n, x)) = x - 1
  <2>1. Below(1 .. n, x) = 1 .. x - 1
    BY DEF Below
  <2>2. x - 1 \in Int /\ (1 > x - 1 => x - 1 = 0)
    OBVIOUS
  <2>3. Cardinality(1 .. x - 1) = IF 1 > x - 1 THEN 0 ELSE x - 1 - 1 + 1
    BY <2>2, FS_Interval
  <2> QED  BY <2>1, <2>2, <2>3
<1>3. Ascending(1 .. n) =
        [k \in 1 .. n |-> CHOOSE x \in 1 .. n : Cardinality(Below(1 .. n, x)) = k - 1]
  BY <1>1 DEF Ascending
<1>4. ASSUME NEW k \in 1 .. n
      PROVE  Ascending(1 .. n)[k] = k
  <2>1. \A x \in 1 .. n : x - 1 = k - 1 <=> x = k
    OBVIOUS
  <2>2. \A x \in 1 .. n : Cardinality(Below(1 .. n, x)) = k - 1 <=> x = k
    BY <1>2, <2>1
  <2>3. (CHOOSE x \in 1 .. n : Cardinality(Below(1 .. n, x)) = k - 1) = k
    BY <2>2
  <2> QED  BY <1>3, <2>3
<1> QED  BY <1>1, <1>4, AscendingProperties

\* Of a list of sources those are opened that can be, in their order.
LEMMA OpenedProperties ==
  ASSUME FilesTyped, NEW paths \in Seq(Paths)
  PROVE  /\ Opened(paths) \in Seq(Entry)
         /\ \A e \in Range(Opened(paths)) :
              \E p \in Range(paths) : Readable(p) /\ e = EntryOf(p)
         /\ \A p \in Range(paths) : Readable(p) => EntryOf(p) \in Range(Opened(paths))
         /\ (\A i \in DOMAIN paths : Readable(paths[i]))
              => Opened(paths) = [i \in DOMAIN paths |-> EntryOf(paths[i])]
<1> DEFINE S == {i \in DOMAIN paths : Readable(paths[i])}
           chosen == Ascending(S)
           opened == [k \in DOMAIN chosen |-> EntryOf(paths[chosen[k]])]
<1>1. Len(paths) \in Nat /\ DOMAIN paths = 1 .. Len(paths)
      /\ \A i \in 1 .. Len(paths) : paths[i] \in Paths
  BY LenProperties, ElementOfSeq
<1>2. Opened(paths) = opened
  BY DEF Opened
<1>3. IsFiniteSet(S) /\ S \in SUBSET Int
  <2>1. S \in SUBSET (1 .. Len(paths)) /\ IsFiniteSet(1 .. Len(paths))
    BY <1>1, FS_Interval
  <2> HIDE DEF S
  <2>2. IsFiniteSet(S)
    BY <2>1, FS_Subset
  <2>3. S \in SUBSET Int
    BY <1>1, <2>1
  <2> QED  BY <2>2, <2>3
<1>4. chosen \in Seq(S) /\ Range(chosen) = S
  BY <1>3, AscendingProperties
<1> HIDE DEF chosen
<1>5. Len(chosen) \in Nat /\ DOMAIN chosen = 1 .. Len(chosen)
      /\ \A k \in DOMAIN chosen : chosen[k] \in S
  BY <1>4, LenProperties, ElementOfSeq
<1>6. \A i \in S : i \in DOMAIN paths /\ paths[i] \in Paths /\ Readable(paths[i])
                   /\ EntryOf(paths[i]) \in Entry
  BY <1>1, BoundsAreBox
<1> HIDE DEF S
<1>7. opened \in [1 .. Len(chosen) -> Entry]
  BY <1>5, <1>6
<1>8. opened \in Seq(Entry)
  BY <1>5, <1>7, SeqDef
<1>9. ASSUME NEW e \in Range(opened)
      PROVE  \E p \in Range(paths) : Readable(p) /\ e = EntryOf(p)
  <2>1. PICK k \in DOMAIN chosen : e = EntryOf(paths[chosen[k]])
    BY DEF Range
  <2>2. paths[chosen[k]] \in Range(paths) /\ Readable(paths[chosen[k]])
    BY <1>5, <1>6 DEF Range
  <2> QED  BY <2>1, <2>2
<1>10. ASSUME NEW p \in Range(paths), Readable(p)
       PROVE  EntryOf(p) \in Range(opened)
  <2>1. PICK i \in DOMAIN paths : p = paths[i]
    BY DEF Range
  <2>2. i \in S
    BY <1>10, <2>1 DEF S
  <2>3. PICK k \in DOMAIN chosen : chosen[k] = i
    BY <1>4, <2>2 DEF Range
  <2>4. opened[k] = EntryOf(p) /\ k \in DOMAIN opened
    BY <2>1, <2>3
  <2> QED  BY <2>4 DEF Range
<1>11. ASSUME \A i \in DOMAIN paths : Readable(paths[i])
       PROVE  opened = [i \in DOMAIN paths |-> EntryOf(paths[i])]
  <2>1. S = 1 .. Len(paths)
    BY <1>1, <1>11 DEF S
  <2>2. Len(chosen) = Len(paths) /\ \A k \in 1 .. Len(paths) : chosen[k] = k
    BY <1>1, <2>1, AscendingInterval DEF chosen
  <2>3. DOMAIN chosen = DOMAIN paths
    BY <1>1, <1>5, <2>2
  <2> QED  BY <1>1, <2>2, <2>3
<1> QED  BY <1>2, <1>8, <1>9, <1>10, <1>11

\* An index that is read has one entry for each that was written, with the same box.
LEMMA IndexReadProperties ==
  ASSUME NEW entries \in Seq(Entry)
  PROVE  /\ IndexRead(entries) \in Seq(Entry) /\ Len(IndexRead(entries)) = Len(entries)
         /\ \A i \in 1 .. Len(entries) :
              IndexRead(entries)[i] = [path |-> Resolved[entries[i].path], box |-> entries[i].box]
<1>1. Len(entries) \in Nat /\ DOMAIN entries = 1 .. Len(entries)
      /\ \A i \in 1 .. Len(entries) : entries[i] \in Entry
  BY LenProperties, ElementOfSeq
<1>2. ASSUME NEW i \in 1 .. Len(entries)
      PROVE  /\ IndexRead(entries)[i] = [path |-> Resolved[entries[i].path], box |-> entries[i].box]
             /\ IndexRead(entries)[i] \in Entry
  <2>1. entries[i] = [path |-> entries[i].path, box |-> entries[i].box]
        /\ entries[i].path \in Paths /\ entries[i].box \in Box
    BY <1>1 DEF Entry
  <2>2. IndexRead(entries)[i] = [entries[i] EXCEPT !.path = Resolved[entries[i].path]]
    BY <1>1 DEF IndexRead
  <2>3. Resolved[entries[i].path] \in Paths
    BY <2>1, DeploymentAssumption
  <2>4. IndexRead(entries)[i] = [path |-> Resolved[entries[i].path], box |-> entries[i].box]
    BY <2>1, <2>2
  <2> QED  BY <2>1, <2>3, <2>4 DEF Entry
<1>3. DOMAIN IndexRead(entries) = 1 .. Len(entries)
  BY <1>1 DEF IndexRead
<1>4. IndexRead(entries) \in [1 .. Len(entries) -> Entry]
  <2>1. IndexRead(entries) = [i \in 1 .. Len(entries) |-> IndexRead(entries)[i]]
    BY <1>1 DEF IndexRead
  <2> QED  BY <1>2, <2>1
<1>5. IndexRead(entries) \in Seq(Entry)
  BY <1>1, <1>4, SeqDef
<1>6. Len(IndexRead(entries)) = Len(entries)
  BY <1>1, <1>3, <1>5, LenProperties
<1> QED  BY <1>2, <1>5, <1>6

\* The paths of a list of entries are those of its entries.
LEMMA PathsInProperties ==
  ASSUME NEW entries \in Seq(Entry)
  PROVE  /\ PathsIn(entries) \in Seq(Paths) /\ Len(PathsIn(entries)) = Len(entries)
         /\ \A i \in 1 .. Len(entries) : PathsIn(entries)[i] = entries[i].path
         /\ \A p : p \in Range(PathsIn(entries)) <=> \E e \in Range(entries) : e.path = p
<1>1. Len(entries) \in Nat /\ DOMAIN entries = 1 .. Len(entries)
      /\ \A i \in 1 .. Len(entries) : entries[i] \in Entry
  BY LenProperties, ElementOfSeq
<1>2. PathsIn(entries) \in [1 .. Len(entries) -> Paths]
  BY <1>1 DEF PathsIn, Entry
<1>3. PathsIn(entries) \in Seq(Paths) /\ DOMAIN PathsIn(entries) = 1 .. Len(entries)
  BY <1>1, <1>2, SeqDef
<1>4. Len(PathsIn(entries)) = Len(entries)
  BY <1>1, <1>3, LenProperties
<1>5. \A i \in 1 .. Len(entries) : PathsIn(entries)[i] = entries[i].path
  BY <1>1 DEF PathsIn
<1>6. \A p : p \in Range(PathsIn(entries)) <=> \E e \in Range(entries) : e.path = p
  BY <1>1, <1>3, <1>5 DEF Range
<1> QED  BY <1>3, <1>4, <1>5, <1>6

Dataset == [path : Paths, box : Box, src : Nat]

\* An argument contributes the files behind it, the unreadable ones only by an index.
LEMMA AddPathProperties ==
  ASSUME FilesTyped, NEW arguments \in Seq(Argument), NEW k \in DOMAIN arguments
  PROVE  /\ AddPath(arguments, k) \in Seq(Dataset)
         /\ \A d \in Range(AddPath(arguments, k)) :
              d.src = k /\ d.path \in FilesOf(arguments[k])
         /\ \A p \in FilesOf(arguments[k]) :
              Readable(p) => \E d \in Range(AddPath(arguments, k)) : d.path = p
<1> DEFINE a == arguments[k]
           entries == Contributes(a)
           added == [i \in DOMAIN entries |->
                       [path |-> entries[i].path, box |-> entries[i].box, src |-> k]]
<1>1. AddPath(arguments, k) = added
  BY DEF AddPath
<1>2. a \in Argument /\ k \in Nat
  BY LenProperties, ElementOfSeq
<1>3. ListDEMs(a) \in Seq(Paths) /\ Range(ListDEMs(a)) = a \ {IndexName}
  BY <1>2, ListDEMsProperties
<1>4. index # NoIndex => index \in Seq(Entry)
  BY DEF FilesTyped
<1> HIDE DEF a
<1>5. /\ entries \in Seq(Entry)
      /\ \A e \in Range(entries) : e.path \in FilesOf(a)
      /\ \A p \in FilesOf(a) : Readable(p) => \E e \in Range(entries) : e.path = p
  <2>1. CASE PathExists(a) /\ HoldsIndex(a) /\ Usable
    <3>1. entries = IndexRead(index) /\ FilesOf(a) = Range(PathsIn(IndexRead(index)))
      BY <2>1 DEF Contributes, FilesOf, Usable
    <3>2. IndexRead(index) \in Seq(Entry)
      BY <1>4, <2>1, IndexReadProperties DEF HoldsIndex
    <3> QED  BY <3>1, <3>2, PathsInProperties
  <2>2. CASE PathExists(a) /\ HoldsIndex(a) /\ ~Usable
    <3>1. entries = <<>> /\ FilesOf(a) = {}
      BY <2>2 DEF Contributes, FilesOf, Usable
    <3> QED  BY <3>1, EmptyList
  <2>3. CASE PathExists(a) /\ ~HoldsIndex(a)
    <3>1. entries = Opened(ListDEMs(a)) /\ FilesOf(a) = a \ {IndexName}
      BY <2>3, <1>2, DeploymentAssumption DEF Contributes, FilesOf, PathExists
    <3>2. \A p : EntryOf(p).path = p
      BY DEF EntryOf
    <3> HIDE DEF entries
    <3> QED  BY <1>3, <3>1, <3>2, OpenedProperties
  <2>4. CASE ~PathExists(a)
    <3>1. PICK p \in Paths : a = {p} /\ p \notin Local /\ p # IndexName
      BY <1>2, <2>4 DEF Argument, PathExists
    <3>2. entries = <<>> /\ FilesOf(a) = {}
      BY <2>4, <3>1 DEF Contributes, FilesOf, HoldsIndex
    <3> QED  BY <3>2, EmptyList
  <2> QED  BY <2>1, <2>2, <2>3, <2>4
<1> HIDE DEF entries
<1>6. Len(entries) \in Nat /\ DOMAIN entries = 1 .. Len(entries)
      /\ \A i \in 1 .. Len(entries) : entries[i] \in Entry
  BY <1>5, LenProperties, ElementOfSeq
<1>7. added \in [1 .. Len(entries) -> Dataset]
  BY <1>2, <1>6 DEF Dataset, Entry
<1>8. added \in Seq(Dataset)
  BY <1>6, <1>7, SeqDef
<1>9. ASSUME NEW d \in Range(added)
      PROVE  d.src = k /\ \E e \in Range(entries) : e.path = d.path
  <2>1. PICK i \in DOMAIN entries :
               d = [path |-> entries[i].path, box |-> entries[i].box, src |-> k]
    BY DEF Range
  <2> QED  BY <2>1 DEF Range
<1>10. ASSUME NEW e \in Range(entries)
       PROVE  \E d \in Range(added) : d.path = e.path
  <2>1. PICK i \in DOMAIN entries : e = entries[i]
    BY DEF Range
  <2>2. added[i] \in Range(added) /\ added[i].path = e.path
    BY <2>1 DEF Range
  <2> QED  BY <2>2
<1> HIDE DEF added
<1> QED  BY <1>1, <1>5, <1>8, <1>9, <1>10 DEF a

\* What is served: datasets of the files behind the arguments, layer after layer, and
\* every file that can be read is among them.
LEMMA LoadedProperties ==
  ASSUME FilesTyped, NEW arguments \in Seq(Argument)
  PROVE  /\ Loaded(arguments) \in Seq(Dataset)
         /\ \A d \in Range(Loaded(arguments)) :
              d.src \in DOMAIN arguments /\ d.path \in FilesOf(arguments[d.src])
         /\ \A k \in DOMAIN arguments : \A p \in FilesOf(arguments[k]) :
              Readable(p) => \E d \in Range(Loaded(arguments)) : d.path = p /\ d.src = k
         /\ \A a, b \in DOMAIN Loaded(arguments) :
              a < b => Loaded(arguments)[a].src <= Loaded(arguments)[b].src
<1> DEFINE lists == [k \in DOMAIN arguments |-> AddPath(arguments, k)]
           n == Len(arguments)
           all == Loaded(arguments)
<1>1. n \in Nat /\ DOMAIN arguments = 1 .. n
  BY LenProperties
<1>2. lists \in [1 .. n -> Seq(Dataset)]
  BY <1>1, AddPathProperties
<1>3. lists \in Seq(Seq(Dataset)) /\ DOMAIN lists = 1 .. n
  BY <1>1, <1>2, SeqDef
<1>4. Len(lists) = n
  BY <1>1, <1>3, LenProperties
<1>5. JoinOf(Dataset, lists, n, all)
  BY <1>3, <1>4, FlattenProperties DEF Loaded
<1>6. \A k \in 1 .. n : lists[k] = AddPath(arguments, k)
  BY <1>1
<1> HIDE DEF lists, n, all
<1>7. /\ all \in Seq(Dataset)
      /\ \A d : d \in Range(all) <=> \E k \in 1 .. n : d \in Range(lists[k])
      /\ \A a, b \in 1 .. Len(all) : a < b =>
           \E j, k \in 1 .. n : j <= k /\ all[a] \in Range(lists[j]) /\ all[b] \in Range(lists[k])
  BY <1>5 DEF JoinOf
<1>8. \A k \in 1 .. n : \A d \in Range(lists[k]) :
        d.src = k /\ d.path \in FilesOf(arguments[k])
  BY <1>1, <1>6, AddPathProperties
<1>9. ASSUME NEW k \in 1 .. n, NEW p \in FilesOf(arguments[k]), Readable(p)
      PROVE  \E d \in Range(all) : d.path = p /\ d.src = k
  <2>1. PICK d \in Range(lists[k]) : d.path = p
    BY <1>1, <1>6, <1>9, AddPathProperties
  <2> QED  BY <1>7, <1>8, <2>1
<1>10. \A d \in Range(all) : d.src \in 1 .. n /\ d.path \in FilesOf(arguments[d.src])
  BY <1>7, <1>8
<1>11. \A a, b \in 1 .. Len(all) : a < b => all[a].src <= all[b].src
  BY <1>7, <1>8
<1>12. DOMAIN all = 1 .. Len(all)
  BY <1>7, LenProperties
<1> QED  BY <1>1, <1>7, <1>9, <1>10, <1>11, <1>12 DEF all

-----------------------------------------------------------------------------
(* The inductive invariant.                                                *)

\* A command line is one of those that were given.
Typed ==
  /\ FilesTyped
  /\ inputs \subseteq Input
  /\ {fresh, verified, running} \subseteq inputs \cup {Nobody}

\* What is served, and the boxes of the grid, are what the command line stands for: the
\* files it was loaded from do not change while a daemon runs.
DaemonInv ==
  IF running = Nobody THEN served = <<>> /\ boxes = <<>>
  ELSE /\ served = Loaded(running.arguments) /\ served # <<>>
       /\ boxes = [i \in DOMAIN served |-> served[i].box]

\* An index is fresh as long as it has the bounds of its sources.
FreshInv ==
  fresh # Nobody =>
    LET paths == CollectSources(fresh)
    IN /\ \A i \in DOMAIN paths : Readable(paths[i])
       /\ index = [i \in DOMAIN paths |-> EntryOf(paths[i])]

\* What was verified still is.
VerifiedInv == verified # Nobody => index # NoIndex /\ Verifies(CollectSources(verified))

\* The candidates that were given out have no value, except for the one that answers.
AnswerInv ==
  /\ point = NoPlace => answer = Nothing
  /\ \A i \in Range(given) : i # answer => ~Consult(i)
  /\ answer # Nothing => answer \in Range(given) /\ Consult(answer)

Inv == Typed /\ GridInv /\ DaemonInv /\ FreshInv /\ VerifiedInv /\ AnswerInv

\* What an argument stands for depends on the files and the index only.
LEMMA FilesKept ==
  ASSUME DaemonInv, UNCHANGED <<rasters, index, srs, running, served, boxes>>
  PROVE  DaemonInv'
<1>1. Loaded(running.arguments)' = Loaded(running.arguments)
  BY DEF Loaded, AddPath, Contributes, HoldsIndex, Usable, Opened, Readable, EntryOf, Bounds
<1> QED  BY <1>1 DEF DaemonInv

LEMMA FreshKept ==
  ASSUME FreshInv, UNCHANGED <<rasters, index, fresh>>
  PROVE  FreshInv'
BY DEF FreshInv, Readable, EntryOf, Bounds

LEMMA VerifiedKept ==
  ASSUME VerifiedInv, UNCHANGED <<rasters, index, verified>>
  PROVE  VerifiedInv'
BY DEF VerifiedInv, Verifies, Readable, Bounds

LEMMA GridKept ==
  ASSUME GridInv, UNCHANGED gridVars
  PROVE  GridInv'
BY DEF GridInv, NoCursor, Merging, Containing, gridVars, cursor

LEMMA NothingGiven ==
  ASSUME given' = <<>>, answer' = Nothing
  PROVE  AnswerInv'
BY EmptyList DEF AnswerInv

\* While no daemon runs, nothing is looked up.
LEMMA Idle ==
  ASSUME Inv, running = Nobody
  PROVE  boxes = <<>> /\ served = <<>> /\ NoCursor /\ answer = Nothing
BY DEF Inv, GridInv, DaemonInv, AnswerInv, NoCursor

LEMMA InputsTyped ==
  ASSUME Typed, NEW input \in inputs
  PROVE  input \in Input /\ input # Nobody /\ CollectSources(input) \in Seq(Paths)
BY SourcesProperties, DeploymentAssumption DEF Typed

-----------------------------------------------------------------------------
(* The steps.                                                              *)

LEMMA Initially ==
  ASSUME Init
  PROVE  Inv
<1>1. PICK s \in Settings : rasters = s.rasters /\ index = s.index /\ inputs = s.inputs
  BY DEF Init
<1>2. s \in [ rasters : [Paths -> Raster \cup {Unreadable}],
              index : Seq(Entry) \cup {NoIndex}, srs : STRING, inputs : SUBSET Input ]
  BY DeploymentAssumption
<1>3. Typed
  BY <1>1, <1>2 DEF Init, Typed, FilesTyped
<1>4. GridInv
  BY NoGridInv DEF Init
<1>5. DaemonInv /\ FreshInv /\ VerifiedInv
  BY DEF Init, DaemonInv, FreshInv, VerifiedInv
<1>6. AnswerInv
  BY EmptyList DEF Init, NoCursor, AnswerInv
<1> QED  BY <1>3, <1>4, <1>5, <1>6 DEF Inv

\* A source changes: it is a file of some list, and what was known of the index is void.
LEMMA ChangeInv ==
  ASSUME Inv, Change
  PROVE  Inv'
<1>1. PICK input \in ToolInputs, r \in Replacements :
        \E p \in Range(CollectSources(input)) : rasters' = [rasters EXCEPT ![p] = r]
  BY DEF Change
<1>2. PICK p \in Range(CollectSources(input)) : rasters' = [rasters EXCEPT ![p] = r]
  BY <1>1
<1>3. CollectSources(input) \in Seq(Paths)
  BY InputsTyped DEF Inv, ToolInputs
<1>4. p \in Paths
  BY <1>3, RangeOfList
<1>5. /\ running = Nobody /\ fresh' = Nobody /\ verified' = Nobody
      /\ UNCHANGED <<index, inputs, running, served, answer, gridVars, boxes, given>>
  BY DEF Change, daemon, gridVars, cursor
<1>6. Typed'
  <2>1. r \in Raster \cup {Unreadable}
    BY DeploymentAssumption
  <2>2. FilesTyped'
    BY <1>2, <1>4, <1>5, <2>1 DEF Inv, Typed, FilesTyped
  <2> QED  BY <1>5, <2>2 DEF Inv, Typed
<1>7. GridInv'
  BY <1>5, GridKept DEF Inv
<1>8. DaemonInv' /\ FreshInv' /\ VerifiedInv'
  BY <1>5 DEF Inv, DaemonInv, FreshInv, VerifiedInv
<1>9. AnswerInv'
  BY <1>5, Idle, NothingGiven DEF NoCursor
<1> QED  BY <1>6, <1>7, <1>8, <1>9 DEF Inv

\* An index is made: each of its entries has the bounds of a source that can be read.
LEMMA IndexGenerateInv ==
  ASSUME Inv, IndexGenerate
  PROVE  Inv'
<1>1. PICK input \in ToolInputs :
        LET paths == CollectSources(input)
        IN /\ running = Nobody
           /\ paths # <<>> /\ \A i \in DOMAIN paths : Readable(paths[i])
           /\ index' = [i \in DOMAIN paths |-> EntryOf(paths[i])]
           /\ fresh' = input /\ verified' = Nobody
           /\ UNCHANGED <<rasters, inputs, changes, daemon, answer, gridVars>>
  BY DEF IndexGenerate
<1> DEFINE paths == CollectSources(input)
<1>2. input \in inputs /\ paths \in Seq(Paths)
  BY InputsTyped DEF Inv, ToolInputs
<1>3. UNCHANGED <<running, served, boxes, given>>
  BY <1>1 DEF daemon, gridVars, cursor
<1>4. index' \in Seq(Entry)
  <2>1. Opened(paths) = index'
    BY <1>1, <1>2, OpenedProperties DEF Inv, Typed
  <2> QED  BY <1>2, <2>1, OpenedProperties DEF Inv, Typed
<1>5. Typed'
  BY <1>1, <1>2, <1>3, <1>4 DEF Inv, Typed, FilesTyped
<1>6. GridInv'
  BY <1>1, GridKept DEF Inv
<1>7. DaemonInv' /\ VerifiedInv'
  BY <1>1, <1>3 DEF Inv, DaemonInv, VerifiedInv
<1>8. FreshInv'
  BY <1>1 DEF FreshInv, Readable, EntryOf, Bounds
<1>9. AnswerInv'
  BY <1>1, <1>3, Idle, NothingGiven DEF NoCursor
<1> QED  BY <1>5, <1>6, <1>7, <1>8, <1>9 DEF Inv

LEMMA IndexVerifyInv ==
  ASSUME Inv, IndexVerify
  PROVE  Inv'
<1>1. PICK input \in ToolInputs :
        LET paths == CollectSources(input)
        IN /\ running = Nobody
           /\ index # NoIndex /\ paths # <<>>
           /\ verified' = IF Verifies(paths) THEN input ELSE Nobody
           /\ UNCHANGED <<tools, fresh, daemon, answer, gridVars>>
  BY DEF IndexVerify
<1>2. input \in inputs
  BY DEF ToolInputs
<1>3. UNCHANGED <<rasters, index, inputs, fresh, running, served, answer, boxes, given>>
  BY <1>1 DEF tools, daemon, gridVars, cursor
<1>4. Typed'
  BY <1>1, <1>2, <1>3 DEF Inv, Typed, FilesTyped
<1>5. GridInv'
  BY <1>1, GridKept DEF Inv
<1>6. DaemonInv'
  BY <1>1, <1>3 DEF Inv, DaemonInv
<1>7. FreshInv'
  BY <1>3, FreshKept DEF Inv
<1>8. VerifiedInv'
  BY <1>1, <1>3 DEF VerifiedInv, Verifies, Readable, Bounds
<1>9. AnswerInv'
  BY <1>1, <1>3, Idle, NothingGiven DEF NoCursor
<1> QED  BY <1>4, <1>5, <1>6, <1>7, <1>8, <1>9 DEF Inv

\* The boxes of what is served.
LEMMA BoxesOf ==
  ASSUME NEW datasets \in Seq(Dataset)
  PROVE  LET bs == [i \in DOMAIN datasets |-> datasets[i].box]
         IN bs \in Seq(Box) /\ Len(bs) = Len(datasets) /\ (datasets # <<>> => bs # <<>>)
<1> DEFINE bs == [i \in DOMAIN datasets |-> datasets[i].box]
<1>1. Len(datasets) \in Nat /\ DOMAIN datasets = 1 .. Len(datasets)
      /\ \A i \in 1 .. Len(datasets) : datasets[i] \in Dataset
  BY LenProperties, ElementOfSeq
<1>2. bs \in [1 .. Len(datasets) -> Box]
  BY <1>1 DEF Dataset
<1>3. bs \in Seq(Box) /\ DOMAIN bs = 1 .. Len(datasets)
  BY <1>1, <1>2, SeqDef
<1>4. Len(bs) = Len(datasets)
  BY <1>1, <1>3, LenProperties
<1>5. datasets # <<>> => bs # <<>>
  BY <1>3, <1>4, EmptySeq
<1> QED  BY <1>3, <1>4, <1>5

LEMMA ServeInv ==
  ASSUME Inv, Serve
  PROVE  Inv'
<1>1. PICK input \in inputs :
        LET datasets == Loaded(input.arguments)
        IN /\ running = Nobody
           /\ input.lines = <<>> /\ datasets # <<>>
           /\ running' = input
           /\ served' = datasets
           /\ BuildGrid([i \in DOMAIN datasets |-> datasets[i].box])
           /\ fresh' = Nobody /\ verified' = Nobody
           /\ UNCHANGED <<tools, answer>>
  BY DEF Serve
<1> DEFINE datasets == Loaded(input.arguments)
           bs == [i \in DOMAIN datasets |-> datasets[i].box]
<1>2. input \in Input /\ input # Nobody
  BY InputsTyped DEF Inv
<1>3. input.arguments \in Seq(Argument)
  BY <1>2 DEF Input
<1>4. datasets \in Seq(Dataset)
  BY <1>3, LoadedProperties DEF Inv, Typed
<1>5. /\ UNCHANGED <<rasters, index, srs, inputs, answer, given>>
      /\ boxes' = bs /\ BuildGrid(bs)
  BY <1>1 DEF tools, BuildGrid, cursor
<1>6. Typed'
  BY <1>1, <1>5 DEF Inv, Typed, FilesTyped
<1>7. bs \in Seq(Box) /\ bs # <<>>
  BY <1>1, <1>4, BoxesOf
<1>8. GridInv'
  <2>1. point = NoPlace
    BY <1>1, Idle DEF NoCursor
  <2> HIDE DEF bs
  <2> QED  BY <1>5, <1>7, <2>1, BuildGridInv DEF Inv
<1>9. DaemonInv'
  <2>1. running' = input /\ rasters' = rasters /\ index' = index /\ srs' = srs
    BY <1>1, <1>5
  <2>2. Loaded(running.arguments)' = datasets
    BY ONLY <2>1 DEF Loaded, AddPath, Contributes, HoldsIndex, Usable, Opened, Readable,
                     EntryOf, Bounds
  <2> QED  BY <1>1, <1>2, <1>5, <2>2 DEF DaemonInv
<1>10. FreshInv' /\ VerifiedInv'
  BY <1>1 DEF FreshInv, VerifiedInv
<1>11. AnswerInv'
  BY <1>1, <1>5, Idle, NothingGiven DEF NoCursor
<1> QED  BY <1>6, <1>8, <1>9, <1>10, <1>11 DEF Inv

\* What is known of files and indexes is the same after the steps of a lookup.
LEMMA LookupKeeps ==
  ASSUME Inv, UNCHANGED <<tools, history, daemon, boxes>>
  PROVE  Typed' /\ DaemonInv' /\ FreshInv' /\ VerifiedInv'
<1>1. UNCHANGED <<rasters, index, srs, inputs, fresh, verified, running, served>>
  BY DEF tools, history, daemon
<1>2. Typed'
  BY <1>1 DEF Inv, Typed, FilesTyped
<1> QED  BY <1>1, <1>2, FilesKept, FreshKept, VerifiedKept DEF Inv

LEMMA BeginInv ==
  ASSUME Inv, Begin
  PROVE  Inv'
<1>1. /\ running # Nobody /\ GridBegin /\ UNCHANGED <<tools, history, daemon, answer>>
      /\ point = NoPlace /\ UNCHANGED <<boxes, given>>
  BY DEF Begin, GridBegin
<1>2. boxes # <<>>
  <2>1. running.arguments \in Seq(Argument)
    BY <1>1 DEF Inv, Typed, Input
  <2>2. Loaded(running.arguments) \in Seq(Dataset)
    BY <2>1, LoadedProperties DEF Inv, Typed
  <2> QED  BY <1>1, <2>2, BoxesOf DEF Inv, DaemonInv
<1>3. GridInv'
  BY <1>1, <1>2, GridBeginInv DEF Inv
<1>4. AnswerInv'
  <2>1. given' = <<>> /\ answer' = Nothing
    BY <1>1 DEF Inv, GridInv, NoCursor, AnswerInv
  <2> QED  BY <2>1, NothingGiven
<1> QED  BY <1>1, <1>3, <1>4, LookupKeeps DEF Inv

LEMMA TryNextInv ==
  ASSUME Inv, TryNext
  PROVE  Inv'
<1>1. /\ point # NoPlace /\ answer = Nothing /\ GridNext
      /\ answer' = IF Consult(Last(given')) THEN Last(given') ELSE Nothing
      /\ UNCHANGED <<tools, history, daemon, boxes, point>>
  BY DEF TryNext, GridNext
<1>2. /\ GridInv'
      /\ \E i \in Numbers(boxes) :
           given' = Append(given, i) /\ Range(given') = Range(given) \cup {i}
  BY <1>1, GridNextInv DEF Inv
<1>3. PICK i \in Numbers(boxes) :
           given' = Append(given, i) /\ Range(given') = Range(given) \cup {i}
  BY <1>2
<1>4. given \in Seq(Numbers(boxes)) /\ boxes \in Seq(Box)
  BY DEF Inv, GridInv, Merging
<1>5. Last(given') = i
  <2>1. Len(given) \in Nat /\ Len(given') = Len(given) + 1 /\ given'[Len(given) + 1] = i
    BY <1>3, <1>4, LenProperties, AppendProperties
  <2> QED  BY <2>1 DEF Last
<1>6. i # Nothing
  BY <1>4, NumbersProperties, DeploymentAssumption
<1>7. \A j : Consult(j)' = Consult(j)
  BY <1>1 DEF Consult, Readable, tools, daemon
<1>8. \A j \in Range(given) : ~Consult(j)
  <2>1. \A j \in Range(given) : j # answer
    BY <1>1, <1>4, RangeOfList, NumbersProperties, DeploymentAssumption
  <2> QED  BY <2>1 DEF Inv, AnswerInv
<1>9. AnswerInv'
  <2>1. \A j \in Range(given') : j # answer' => ~Consult(j)'
    BY <1>1, <1>3, <1>5, <1>7, <1>8
  <2>2. answer' # Nothing => answer' \in Range(given') /\ Consult(i) /\ answer' = i
    BY <1>1, <1>3, <1>5
  <2>3. answer' # Nothing => Consult(answer)'
    BY <1>1, <2>2 DEF Consult, Readable, tools, daemon
  <2> QED  BY <1>1, <2>1, <2>2, <2>3 DEF AnswerInv
<1> QED  BY <1>1, <1>2, <1>9, LookupKeeps DEF Inv

LEMMA EndInv ==
  ASSUME Inv, End
  PROVE  Inv'
<1>1. Return /\ answer' = Nothing /\ given' = <<>> /\ UNCHANGED <<tools, history, daemon, boxes>>
  BY DEF End, Return
<1>2. GridInv'
  BY <1>1, ReturnInv DEF Inv
<1> QED  BY <1>1, <1>2, NothingGiven, LookupKeeps DEF Inv

LEMMA Stutter ==
  ASSUME Inv, UNCHANGED vars
  PROVE  Inv'
<1>1. UNCHANGED <<tools, history, daemon, answer, gridVars, boxes, point, given>>
  BY DEF vars, gridVars, cursor
<1>2. GridInv'
  BY <1>1, GridKept DEF Inv
<1>3. AnswerInv'
  BY <1>1 DEF Inv, AnswerInv, Consult, Readable, tools, daemon
<1> QED  BY <1>1, <1>2, <1>3, LookupKeeps DEF Inv

THEOREM Invariance == Spec => []Inv
<1>1. Init => Inv
  BY Initially
<1>2. Inv /\ [Next]_vars => Inv'
  BY ChangeInv, IndexGenerateInv, IndexVerifyInv, ServeInv, BeginInv, TryNextInv, EndInv,
     Stutter DEF Next
<1> QED  BY <1>1, <1>2, PTL DEF Spec

-----------------------------------------------------------------------------
(* What follows.                                                           *)

\* What is served has files and boxes, one for each, and a layer of the command line.
LEMMA ServedTyped ==
  ASSUME Inv
  PROVE  /\ served \in Seq(Dataset) /\ boxes \in Seq(Box)
         /\ Len(served) = Len(boxes) /\ Numbers(served) = Numbers(boxes)
         /\ \A i \in DOMAIN served : served[i].src \in DOMAIN running.arguments
         /\ running # Nobody => running.arguments \in Seq(Argument)
<1>1. CASE running = Nobody
  <2>1. served = <<>> /\ boxes = <<>>
    BY <1>1, Idle
  <2>2. DOMAIN <<>> = {}
    OBVIOUS
  <2> QED  BY <1>1, <2>1, <2>2, EmptyList DEF Numbers
<1>2. CASE running # Nobody
  <2>1. running.arguments \in Seq(Argument)
    BY <1>2 DEF Inv, Typed, Input
  <2>2. /\ served \in Seq(Dataset)
        /\ \A d \in Range(served) : d.src \in DOMAIN running.arguments
    BY <1>2, <2>1, LoadedProperties DEF Inv, Typed, DaemonInv
  <2>3. boxes = [i \in DOMAIN served |-> served[i].box]
    BY <1>2 DEF Inv, DaemonInv
  <2>4. boxes \in Seq(Box) /\ Len(served) = Len(boxes)
    BY <2>2, <2>3, BoxesOf
  <2>5. \A i \in DOMAIN served : served[i] \in Range(served)
    BY DEF Range
  <2> QED  BY <2>1, <2>2, <2>4, <2>5 DEF Numbers
<1> QED  BY <1>1, <1>2

LEMMA TypesFollow ==
  ASSUME Inv
  PROVE  TypeOK
<1>1. GridTypeOK
  BY GridTyped DEF Inv
<1>2. /\ Len(served) = Len(boxes)
      /\ \A i \in DOMAIN served :
           served[i].path \in Paths /\ served[i].src \in DOMAIN running.arguments
  <2>1. Len(served) \in Nat /\ DOMAIN served = 1 .. Len(served)
        /\ \A i \in 1 .. Len(served) : served[i] \in Dataset
    BY ServedTyped, LenProperties, ElementOfSeq
  <2> QED  BY <2>1, ServedTyped DEF Dataset
<1>3. index # NoIndex => \A i \in DOMAIN index : index[i].path \in Paths
  <2> SUFFICES ASSUME index # NoIndex, NEW i \in DOMAIN index PROVE index[i].path \in Paths
    OBVIOUS
  <2>1. index \in Seq(Entry)
    BY DEF Inv, Typed, FilesTyped
  <2>2. index[i] \in Entry
    BY <2>1, LenProperties, ElementOfSeq
  <2> QED  BY <2>2 DEF Entry
<1>4. answer \in Numbers(served) \cup {Nothing}
  <2>1. Range(given) \subseteq Numbers(served)
    BY ServedTyped, RangeOfList DEF Inv, GridInv, Merging
  <2> QED  BY <2>1 DEF Inv, AnswerInv
<1> QED  BY <1>1, <1>2, <1>3, <1>4 DEF Inv, Typed, TypeOK

\* A raster that has a value at the point has it in its bounds: its dataset is asked.
LEMMA ValueIsConsulted ==
  ASSUME Inv, Current, point # NoPlace,
         NEW i \in Numbers(served), HasValueAt(BoxOf(served, i).path)
  PROVE  Consult(i) /\ i \in Containing
<1> DEFINE p == BoxOf(served, i).path
<1>1. served \in Seq(Dataset) /\ Numbers(served) = Numbers(boxes)
  BY ServedTyped
<1>2. p \in Paths
  <2>1. BoxOf(served, i) \in Dataset
    BY <1>1, NumbersProperties
  <2> QED  BY <2>1 DEF Dataset
<1>3. Readable(p) /\ HasValue(rasters[p], point)
  BY DEF HasValueAt
<1>4. NorthUp(rasters[p]) /\ BoxOf(boxes, i) = Bounds(p)
  BY <1>3 DEF Current
<1>5. rasters[p] \in Raster /\ point \in Point
  BY <1>2, <1>3, BoundsAreBox, LookupGridAssumption DEF Inv, Typed, GridInv
<1> HIDE DEF p
<1>6. DatasetContains(Bounds(p), point)
  BY <1>3, <1>4, <1>5, BoundsCoverRaster DEF HasValue, Bounds
<1> QED  BY <1>1, <1>3, <1>4, <1>6 DEF p, Consult, Containing

\* The first of the datasets with a value answers.
LEMMA FirstAnswers ==
  ASSUME Inv, Answered, Current
  PROVE  /\ answer = Nothing =>
              \A i \in Numbers(served) : ~HasValueAt(BoxOf(served, i).path)
         /\ answer # Nothing =>
              /\ answer \in Numbers(served) /\ HasValueAt(BoxOf(served, answer).path)
              /\ \A i \in Numbers(served) : HasValueAt(BoxOf(served, i).path) => answer <= i
<1>1. point # NoPlace /\ (answer # Nothing \/ Exhausted)
  BY DEF Answered
<1>2. SameAsScan
  BY ScanFollows DEF Inv
<1>3. /\ \A i \in Containing \ Range(given) : \A j \in Range(given) : j < i
      /\ Exhausted => Containing \subseteq Range(given)
  BY <1>1, <1>2 DEF SameAsScan, Containing, Exhausted
<1>4. Numbers(served) \subseteq Nat
  BY ServedTyped, NumbersProperties
<1>5. \A i \in Range(given) : i # answer => ~Consult(i)
  BY DEF Inv, AnswerInv
<1>6. ASSUME answer = Nothing, NEW i \in Numbers(served), HasValueAt(BoxOf(served, i).path)
      PROVE  FALSE
  <2>1. Consult(i) /\ i \in Containing
    BY <1>1, <1>6, ValueIsConsulted
  <2>2. i # answer
    BY <1>4, <1>6, DeploymentAssumption
  <2> QED  BY <1>1, <1>3, <1>5, <1>6, <2>1, <2>2
<1>7. ASSUME answer # Nothing
      PROVE  answer \in Numbers(served) /\ HasValueAt(BoxOf(served, answer).path)
             /\ answer \in Range(given)
  BY <1>7, TypesFollow DEF Inv, AnswerInv, TypeOK, Consult, HasValueAt
<1>8. ASSUME answer # Nothing,
             NEW i \in Numbers(served), HasValueAt(BoxOf(served, i).path)
      PROVE  answer <= i
  <2>1. Consult(i) /\ i \in Containing
    BY <1>1, <1>8, ValueIsConsulted
  <2>2. CASE i = answer
    BY <1>4, <2>2
  <2>3. CASE i # answer
    <3>1. i \notin Range(given)
      BY <1>5, <2>1, <2>3
    <3>2. answer < i
      BY <1>3, <1>7, <1>8, <2>1, <3>1
    <3> QED  BY <1>4, <1>7, <1>8, <3>2
  <2> QED  BY <2>2, <2>3
<1> QED  BY <1>6, <1>7, <1>8

\* The least of some numbers.
LEMMA LeastIs ==
  ASSUME NEW S \in SUBSET Nat, NEW x \in S, \A y \in S : x <= y
  PROVE  Min(S) = x
<1>1. Min(S) \in S /\ \A y \in S : Min(S) <= y
  BY DEF Min
<1>2. Min(S) <= x /\ x <= Min(S) /\ Min(S) \in Nat /\ x \in Nat
  BY <1>1
<1> QED  BY <1>2

LEMMA RastersFollow ==
  ASSUME Inv
  PROVE  AnswersFromRasters
<1> DEFINE having == {i \in Numbers(served) : HasValueAt(BoxOf(served, i).path)}
<1> SUFFICES ASSUME Answered, Current
             PROVE  answer = IF having = {} THEN Nothing ELSE Min(having)
  BY DEF AnswersFromRasters
<1>1. CASE answer = Nothing
  BY <1>1, FirstAnswers
<1>2. CASE answer # Nothing
  <2>1. answer \in having /\ \A i \in having : answer <= i
    BY <1>2, FirstAnswers
  <2>2. having \in SUBSET Nat
    BY ServedTyped, NumbersProperties
  <2> HIDE DEF having
  <2>3. Min(having) = answer
    BY <2>1, <2>2, LeastIs
  <2> QED  BY <2>1, <2>3
<1> QED  BY <1>1, <1>2

LEMMA LayersFollow ==
  ASSUME Inv
  PROVE  AnswersFromFirstLayer
<1> DEFINE arguments == running.arguments
           layers == {k \in DOMAIN arguments : \E p \in FilesOf(arguments[k]) : HasValueAt(p)}
<1> SUFFICES ASSUME Answered, Current
             PROVE  IF layers = {} THEN answer = Nothing
                    ELSE answer # Nothing /\ BoxOf(served, answer).src = Min(layers)
  BY DEF AnswersFromFirstLayer
<1>1. running # Nobody
  BY Idle DEF Answered, NoCursor
<1>2. served = Loaded(arguments) /\ arguments \in Seq(Argument) /\ served \in Seq(Dataset)
  BY <1>1, ServedTyped DEF Inv, DaemonInv
<1>3. layers \in SUBSET Nat
  <2>1. DOMAIN arguments \subseteq Nat
    BY <1>2, RangeOfList
  <2> QED  BY <2>1
<1>4. Len(served) \in Nat /\ DOMAIN served = 1 .. Len(served)
  BY <1>2, LenProperties
<1>5. \A i \in Numbers(served) : i + 1 \in DOMAIN served /\ i \in Nat
                                 /\ BoxOf(served, i) = served[i + 1]
  BY <1>4 DEF Numbers, BoxOf
<1>6. ASSUME NEW k \in layers
      PROVE  \E i \in Numbers(served) :
               HasValueAt(BoxOf(served, i).path) /\ BoxOf(served, i).src = k
  <2>1. PICK p \in FilesOf(arguments[k]) : HasValueAt(p)
    BY <1>6
  <2>2. PICK d \in Range(served) : d.path = p /\ d.src = k
    BY <1>2, <1>6, <2>1, LoadedProperties DEF HasValueAt, Inv, Typed
  <2>3. PICK a \in DOMAIN served : d = served[a]
    BY <2>2 DEF Range
  <2>4. a - 1 \in Numbers(served) /\ (a - 1) + 1 = a
    BY <1>4, <2>3 DEF Numbers
  <2>5. BoxOf(served, a - 1) = d
    BY <2>3, <2>4 DEF BoxOf
  <2> QED  BY <2>1, <2>2, <2>4, <2>5
<1>7. CASE answer = Nothing
  BY <1>6, <1>7, FirstAnswers
<1>8. CASE answer # Nothing
  <2> DEFINE d == BoxOf(served, answer)
  <2>1. /\ answer \in Numbers(served) /\ HasValueAt(d.path)
        /\ \A i \in Numbers(served) : HasValueAt(BoxOf(served, i).path) => answer <= i
    BY <1>8, FirstAnswers
  <2>2. d \in Range(served)
    BY <1>5, <2>1 DEF Range
  <2>3. d.src \in DOMAIN arguments /\ d.path \in FilesOf(arguments[d.src])
    BY <1>2, <2>2, LoadedProperties DEF Inv, Typed
  <2>4. d.src \in layers
    BY <2>1, <2>3
  <2> HIDE DEF layers
  <2>5. ASSUME NEW k \in layers
        PROVE  d.src <= k
    <3>1. PICK i \in Numbers(served) :
            HasValueAt(BoxOf(served, i).path) /\ BoxOf(served, i).src = k
      BY <1>6
    <3>2. answer <= i
      BY <2>1, <3>1
    <3>3. CASE answer = i
      BY <1>3, <3>1, <3>3
    <3>4. CASE answer # i
      <4>1. answer + 1 < i + 1 /\ answer + 1 \in DOMAIN served /\ i + 1 \in DOMAIN served
        BY <1>5, <2>1, <3>2, <3>4
      <4>2. served[answer + 1].src <= served[i + 1].src
        BY <1>2, <4>1, LoadedProperties DEF Inv, Typed
      <4> QED  BY <1>5, <2>1, <3>1, <4>2
    <3> QED  BY <3>3, <3>4
  <2>6. Min(layers) = d.src
    <3> HIDE DEF d
    <3> QED  BY <1>3, <2>4, <2>5, LeastIs
  <2> QED  BY <1>8, <2>4, <2>6
<1> QED  BY <1>7, <1>8

-----------------------------------------------------------------------------
(* What passes demd -W.                                                    *)

\* Two lists that name the same files, each of them once, are as long.
LEMMA SameLength ==
  ASSUME NEW S, NEW s \in Seq(S), NEW t \in Seq(S),
         IsInjective(s), IsInjective(t), Range(s) = Range(t)
  PROVE  Len(s) = Len(t)
<1>1. ASSUME NEW u \in Seq(S), IsInjective(u)
      PROVE  Cardinality(Range(u)) = Len(u)
  <2> DEFINE n == Len(u)
  <2>1. n \in Nat /\ DOMAIN u = 1 .. n /\ u \in [1 .. n -> S]
    BY LenProperties
  <2> HIDE DEF n
  <2>2. IsFiniteSet(1 .. n) /\ Cardinality(1 .. n) = n
    BY <2>1, FS_Interval
  <2>3. u \in Surjection(1 .. n, Range(u))
    BY <2>1, Fun_RangeProperties
  <2>5. u \in [1 .. n -> Range(u)]
    BY <2>3 DEF Surjection
  <2>6. u \in Bijection(1 .. n, Range(u))
    BY <1>1, <2>3, <2>5 DEF Bijection, Injection
  <2>7. Cardinality(Range(u)) = Cardinality(1 .. n)
    BY <2>2, <2>6, FS_Bijection DEF ExistsBijection
  <2> QED  BY <2>2, <2>7 DEF n
<1> QED  BY <1>1

\* The first entry for a path that only one entry has.
LEMMA OnlyEntryFor ==
  ASSUME NEW entries \in Seq(Entry), IsInjective(PathsIn(entries)), NEW i \in 1 .. Len(entries)
  PROVE  FirstFor(entries, PathsIn(entries)[i]) = i
<1> DEFINE p == PathsIn(entries)[i]
           those == {j \in DOMAIN entries : entries[j].path = p}
<1>1. Len(entries) \in Nat /\ DOMAIN entries = 1 .. Len(entries)
  BY LenProperties
<1>2. DOMAIN PathsIn(entries) = 1 .. Len(entries)
      /\ \A j \in 1 .. Len(entries) : PathsIn(entries)[j] = entries[j].path
  BY <1>1, PathsInProperties DEF PathsIn
<1>3. those = {i}
  BY <1>1, <1>2 DEF IsInjective
<1>4. those \in SUBSET Nat /\ i \in those /\ \A j \in those : i <= j
  BY <1>1, <1>3
<1> HIDE DEF those
<1>5. Min(those) = i
  BY <1>4, LeastIs
<1> QED  BY <1>5 DEF FirstFor, those

\* What a daemon has that is given sources which can all be read, and no index.
LEMMA BareLoaded ==
  ASSUME FilesTyped, NEW input \in Input, Servable(input),
         LET listed == Listed(input.arguments) IN \A i \in DOMAIN listed : Readable(listed[i])
  PROVE  Datasets(Bare(input.arguments)) = Opened(Listed(input.arguments))
<1> DEFINE arguments == input.arguments
           n == Len(arguments)
           bare == Bare(arguments)
           listed == Listed(arguments)
           loaded == Loaded(bare)
           lists == [k \in DOMAIN arguments |-> ListDEMs(arguments[k])]
           added == [k \in DOMAIN bare |-> AddPath(bare, k)]
           name == [d \in Dataset |-> d.path]
<1>1. arguments \in Seq(Argument)
  BY DEF Input
<1>2. /\ n \in Nat /\ DOMAIN arguments = 1 .. n
      /\ \A k \in 1 .. n : arguments[k] \in Argument
  BY <1>1, LenProperties, ElementOfSeq
<1>3. /\ listed \in Seq(Paths)
      /\ Range(listed) = UNION {arguments[k] \ {IndexName} : k \in DOMAIN arguments}
  BY <1>1, ListedProperties
<1>4. \A p \in Range(listed) : Readable(p)
  BY DEF Range
<1>5. lists \in Seq(Seq(Paths)) /\ Len(lists) = n
  BY <1>1, ListsOf
<1>6. DOMAIN bare = 1 .. n /\ \A k \in 1 .. n : bare[k] = arguments[k] \ {IndexName}
  BY <1>2 DEF Bare
<1>7. bare \in Seq(Argument) /\ Len(bare) = n
  <2>1. ASSUME NEW k \in 1 .. n
        PROVE  bare[k] \in Argument
    <3>1. bare[k] \in SUBSET arguments[k] /\ bare[k] \subseteq Local
      BY <1>2, <1>6 DEF Servable, PathExists
    <3>2. IsFiniteSet(arguments[k]) /\ arguments[k] \subseteq Paths \cup {IndexName}
      BY <1>2 DEF Argument
    <3>3. IsFiniteSet(bare[k])
      BY <3>1, <3>2, FS_Subset
    <3> QED  BY <3>1, <3>2, <3>3 DEF Argument
  <2>2. bare \in [1 .. n -> Argument]
    <3>1. bare = [k \in 1 .. n |-> bare[k]]
      BY <1>6 DEF Bare
    <3> QED  BY <2>1, <3>1
  <2>3. bare \in Seq(Argument)
    BY <1>2, <2>2, SeqDef
  <2> QED  BY <1>2, <1>6, <2>3, LenProperties
<1>8. ASSUME NEW k \in 1 .. n
      PROVE  LET list == ListDEMs(arguments[k])
             IN /\ list \in Seq(Paths)
                /\ AddPath(bare, k) =
                     [i \in DOMAIN list |->
                        [path |-> list[i], box |-> Bounds(list[i]), src |-> k]]
  <2> DEFINE list == ListDEMs(arguments[k])
  <2>1. list \in Seq(Paths) /\ Range(list) = arguments[k] \ {IndexName}
    BY <1>2, ListDEMsProperties
  <2>2. ListDEMs(bare[k]) = list
    <3>1. (arguments[k] \ {IndexName}) \ {IndexName} = arguments[k] \ {IndexName}
      OBVIOUS
    <3> QED  BY <1>6, <3>1 DEF ListDEMs
  <2>3. PathExists(bare[k]) /\ ~HoldsIndex(bare[k])
    BY <1>2, <1>6 DEF Servable, PathExists, HoldsIndex
  <2>4. \A i \in DOMAIN list : Readable(list[i])
    BY <1>2, <1>3, <1>4, <2>1 DEF Range
  <2> HIDE DEF list
  <2>5. Contributes(bare[k]) = Opened(list)
    BY <2>2, <2>3 DEF Contributes
  <2>6. Opened(list) = [i \in DOMAIN list |-> EntryOf(list[i])]
    BY <2>1, <2>4, OpenedProperties
  <2>7. AddPath(bare, k) =
          [i \in DOMAIN list |-> [path |-> list[i], box |-> Bounds(list[i]), src |-> k]]
    BY <2>5, <2>6 DEF AddPath, EntryOf
  <2> QED  BY <2>1, <2>7 DEF list
<1>9. added \in Seq(Seq(Dataset)) /\ Len(added) = n
  <2>1. added \in [1 .. n -> Seq(Dataset)]
    BY <1>6, <1>7, AddPathProperties
  <2>2. added \in Seq(Seq(Dataset)) /\ DOMAIN added = 1 .. n
    BY <1>2, <2>1, SeqDef
  <2> QED  BY <1>2, <2>2, LenProperties
<1>10. ASSUME NEW k \in 1 .. n
       PROVE  Images(name, lists[k], added[k])
  <2> DEFINE list == ListDEMs(arguments[k])
             these == AddPath(bare, k)
  <2>1. lists[k] = list /\ added[k] = these
    BY <1>2, <1>6
  <2>2. /\ list \in Seq(Paths)
        /\ these = [i \in DOMAIN list |->
                      [path |-> list[i], box |-> Bounds(list[i]), src |-> k]]
    BY <1>8
  <2>3. these \in Seq(Dataset)
    BY <1>6, <1>7, AddPathProperties
  <2> HIDE DEF list, these
  <2>4. /\ Len(list) \in Nat /\ DOMAIN list = 1 .. Len(list)
        /\ Len(these) \in Nat /\ DOMAIN these = 1 .. Len(these)
        /\ \A i \in 1 .. Len(these) : these[i] \in Dataset
    BY <2>2, <2>3, LenProperties, ElementOfSeq
  <2>5. Len(list) = Len(these)
    <3>1. DOMAIN these = DOMAIN list
      BY <2>2
    <3>2. \A a, b \in Nat : 1 .. a = 1 .. b => a = b
      OBVIOUS
    <3> QED  BY <2>4, <3>1, <3>2
  <2>6. \A i \in 1 .. Len(these) : list[i] = name[these[i]]
    BY <2>2, <2>4, <2>5
  <2> QED  BY <2>1, <2>5, <2>6 DEF Images
<1>11. listed = FlattenSeq(lists) /\ loaded = FlattenSeq(added)
  BY DEF Listed, Loaded
<1>12. JoinOf(Dataset, added, n, loaded)
  <2> HIDE DEF added, n
  <2> QED  BY <1>9, <1>11, FlattenProperties
<1>13. ASSUME NEW d \in Range(loaded)
       PROVE  d \in Dataset /\ d.box = Bounds(d.path)
  <2>1. PICK k \in 1 .. n : d \in Range(added[k])
    BY <1>12 DEF JoinOf
  <2>2. added[k] = AddPath(bare, k)
    BY <1>6
  <2>3. d \in Dataset
    BY <1>9, <2>1, ElementOfSeq, RangeOfList
  <2> HIDE DEF added, bare, arguments
  <2>4. d.box = Bounds(d.path)
    BY <1>8, <2>1, <2>2 DEF Range
  <2> QED  BY <2>3, <2>4
<1>14. Images(name, listed, loaded)
  <2> HIDE DEF lists, added, n, name, listed, loaded
  <2> QED  BY <1>5, <1>9, <1>10, <1>11, FlattenImages
<1>15. Datasets(bare) = [i \in DOMAIN loaded |-> [path |-> loaded[i].path, box |-> loaded[i].box]]
  BY DEF Datasets
<1>16. Opened(listed) = [i \in DOMAIN listed |-> EntryOf(listed[i])]
  <2>1. \A i \in DOMAIN listed : Readable(listed[i])
    OBVIOUS
  <2> HIDE DEF listed
  <2> QED  BY <1>3, <2>1, OpenedProperties
<1> HIDE DEF bare, listed, loaded
<1>17. /\ Len(loaded) \in Nat /\ DOMAIN loaded = 1 .. Len(loaded)
       /\ DOMAIN listed = 1 .. Len(listed)
  BY <1>3, <1>12, LenProperties DEF JoinOf
<1>18. DOMAIN listed = DOMAIN loaded
  BY <1>14, <1>17 DEF Images
<1>19. ASSUME NEW i \in DOMAIN loaded
       PROVE  [path |-> loaded[i].path, box |-> loaded[i].box] = EntryOf(listed[i])
  <2>1. loaded[i] \in Dataset /\ loaded[i].box = Bounds(loaded[i].path)
    BY <1>13 DEF Range
  <2>2. listed[i] = loaded[i].path
    BY <1>14, <1>17, <2>1 DEF Images
  <2> QED  BY <2>1, <2>2 DEF EntryOf
<1> QED  BY <1>15, <1>16, <1>18, <1>19 DEF bare, listed

\* What a daemon has that is given the index.
LEMMA IndexLoaded ==
  ASSUME FilesTyped, index # NoIndex, Usable
  PROVE  Datasets(<<{IndexName}>>) = IndexRead(index)
<1> DEFINE arguments == <<{IndexName}>>
           added == [k \in DOMAIN arguments |-> AddPath(arguments, k)]
           loaded == Loaded(arguments)
           entries == IndexRead(index)
<1>1. index \in Seq(Entry) /\ entries \in Seq(Entry)
  BY IndexReadProperties DEF FilesTyped
<1>2. {IndexName} \in Argument /\ Len(arguments) = 1 /\ DOMAIN arguments = 1 .. 1
      /\ arguments[1] = {IndexName} /\ arguments \in Seq({{IndexName}})
  <2>1. IsFiniteSet({IndexName})
    BY FS_Singleton
  <2> QED  BY <2>1 DEF Argument
<1>3. arguments \in Seq(Argument)
  BY <1>2, SeqMonotonic
<1>4. Contributes({IndexName}) = entries
  BY DEF Contributes, PathExists, HoldsIndex
<1>5. AddPath(arguments, 1) =
        [i \in DOMAIN entries |-> [path |-> entries[i].path, box |-> entries[i].box, src |-> 1]]
  BY <1>2, <1>4 DEF AddPath
<1> HIDE DEF entries, arguments
<1>6. AddPath(arguments, 1) \in Seq(Dataset)
  <2>1. 1 \in DOMAIN arguments
    BY <1>2
  <2> QED  BY <1>3, <2>1, AddPathProperties
<1>7. added \in [1 .. 1 -> Seq(Dataset)] /\ added[1] = AddPath(arguments, 1)
  BY <1>2, <1>6
<1>8. added \in Seq(Seq(Dataset)) /\ DOMAIN added = 1 .. 1
  BY <1>7, SeqDef
<1>9. Len(added) = 1
  BY <1>8, LenProperties
<1>10. loaded = AddPath(arguments, 1)
  <2>1. loaded = FlattenSeq(added)
    BY DEF Loaded
  <2> HIDE DEF added
  <2>2. added # <<>>
    BY <1>8, <1>9, EmptySeq
  <2>3. PICK f : FlattenSeq(added) = f[1] /\ f[1] = added[1]
    BY <1>8, <1>9, <2>2, FlattenIs
  <2> QED  BY <1>7, <2>1, <2>3
<1>11. Datasets(arguments) =
         [i \in DOMAIN entries |-> [path |-> entries[i].path, box |-> entries[i].box]]
  BY <1>5, <1>10 DEF Datasets
<1>12. /\ entries = [i \in DOMAIN entries |-> entries[i]]
       /\ \A i \in DOMAIN entries :
            entries[i] = [path |-> entries[i].path, box |-> entries[i].box]
  <2>1. /\ entries \in [1 .. Len(entries) -> Entry] /\ DOMAIN entries = 1 .. Len(entries)
    BY <1>1, LenProperties
  <2>2. entries = [i \in DOMAIN entries |-> entries[i]]
    BY <2>1
  <2>3. ASSUME NEW i \in DOMAIN entries
        PROVE  entries[i] = [path |-> entries[i].path, box |-> entries[i].box]
    <3>1. entries[i] \in Entry
      BY <2>1
    <3> QED  BY <3>1 DEF Entry
  <2> QED  BY <2>2, <2>3
<1> QED  BY <1>11, <1>12 DEF arguments, entries

\* An index that agrees with the sources, each named once, has just what a daemon would
\* find in them.
LEMMA VerifiedFollows ==
  ASSUME Inv
  PROVE  VerifiedIndexIsSources
<1> DEFINE paths == CollectSources(verified)
           entries == IndexRead(index)
<1> SUFFICES ASSUME verified # Nobody, NamedOnce(verified), srs = RequestSRS
             PROVE  LET indexed == Datasets(<<{IndexName}>>)
                    IN /\ indexed = Opened(paths)
                       /\ Servable(verified) => indexed = Datasets(Bare(verified.arguments))
  BY DEF VerifiedIndexIsSources
<1>1. verified \in Input /\ paths \in Seq(Paths)
  <2>1. verified \in inputs
    BY DEF Inv, Typed
  <2> QED  BY <2>1, InputsTyped DEF Inv
<1>2. index \in Seq(Entry) /\ Verifies(paths)
  BY DEF Inv, VerifiedInv, Typed, FilesTyped
<1>3. entries \in Seq(Entry)
  BY <1>2, IndexReadProperties
<1>4. /\ Range(paths) = Range(PathsIn(entries))
      /\ Len(paths) = Len(entries) => paths = PathsIn(entries)
      /\ \A i \in DOMAIN paths :
           Readable(paths[i]) /\ entries[FirstFor(entries, paths[i])].box = Bounds(paths[i])
  BY <1>2 DEF Verifies, Agrees
<1>5. IsInjective(paths) /\ IsInjective(PathsIn(entries))
  BY DEF NamedOnce
<1> HIDE DEF paths, entries
<1>6. PathsIn(entries) \in Seq(Paths) /\ Len(PathsIn(entries)) = Len(entries)
  BY <1>3, PathsInProperties
<1>7. Len(paths) = Len(entries) /\ paths = PathsIn(entries)
  BY <1>1, <1>4, <1>5, <1>6, SameLength
<1>8. /\ Len(entries) \in Nat /\ DOMAIN entries = 1 .. Len(entries)
      /\ DOMAIN paths = 1 .. Len(entries)
      /\ \A i \in 1 .. Len(entries) : entries[i] \in Entry
  BY <1>1, <1>3, <1>7, LenProperties, ElementOfSeq
<1>9. ASSUME NEW i \in 1 .. Len(entries)
      PROVE  entries[i] = EntryOf(paths[i])
  <2>1. entries[i].path = paths[i]
    BY <1>3, <1>7, PathsInProperties
  <2>2. FirstFor(entries, paths[i]) = i
    BY <1>3, <1>5, <1>7, OnlyEntryFor
  <2>3. entries[i].box = Bounds(paths[i])
    BY <1>4, <1>8, <2>2
  <2>4. entries[i] = [path |-> entries[i].path, box |-> entries[i].box]
    BY <1>8 DEF Entry
  <2> QED  BY <2>1, <2>3, <2>4 DEF EntryOf
<1>10. entries = Opened(paths)
  <2>1. Opened(paths) = [i \in DOMAIN paths |-> EntryOf(paths[i])]
    BY <1>1, <1>4, OpenedProperties DEF Inv, Typed
  <2>2. entries = [i \in 1 .. Len(entries) |-> entries[i]]
    BY <1>3, <1>8, LenProperties
  <2> QED  BY <1>8, <1>9, <2>1, <2>2
<1>11. Datasets(<<{IndexName}>>) = entries
  <2>1. Usable /\ index # NoIndex
    BY DEF Inv, VerifiedInv, Verifies, Usable
  <2> QED  BY <2>1, IndexLoaded DEF Inv, Typed, entries
<1>12. Servable(verified) => Datasets(Bare(verified.arguments)) = Opened(paths)
  <2>1. Servable(verified) => paths = Listed(verified.arguments)
    BY <1>1, SourcesProperties DEF paths
  <2> QED  BY <1>1, <1>4, <2>1, BareLoaded DEF Inv, Typed
<1> QED  BY <1>10, <1>11, <1>12

\* What has just been made of sources with absolute names and north-up rasters is accepted.
LEMMA FreshFollows ==
  ASSUME Inv
  PROVE  FreshIndexVerifies
<1> DEFINE paths == CollectSources(fresh)
           entries == IndexRead(index)
<1> SUFFICES ASSUME fresh # Nobody,
                    \A i \in DOMAIN paths :
                      Resolved[paths[i]] = paths[i] /\ NorthUp(rasters[paths[i]])
             PROVE  Verifies(paths)
  BY DEF FreshIndexVerifies
<1>1. paths \in Seq(Paths)
  <2>1. fresh \in inputs
    BY DEF Inv, Typed
  <2> QED  BY <2>1, InputsTyped DEF Inv
<1>2. /\ \A i \in DOMAIN paths : Readable(paths[i])
      /\ index = [i \in DOMAIN paths |-> EntryOf(paths[i])]
  BY DEF Inv, FreshInv
<1> HIDE DEF paths
<1>3. Len(paths) \in Nat /\ DOMAIN paths = 1 .. Len(paths)
      /\ \A i \in 1 .. Len(paths) : paths[i] \in Paths
  BY <1>1, LenProperties, ElementOfSeq
<1>4. index = Opened(paths) /\ index \in Seq(Entry)
  BY <1>1, <1>2, OpenedProperties DEF Inv, Typed
<1>5. DOMAIN index = 1 .. Len(paths) /\ Len(index) = Len(paths)
      /\ \A i \in 1 .. Len(paths) : index[i] = EntryOf(paths[i])
  BY <1>2, <1>3, <1>4, LenProperties
<1>6. \A p : EntryOf(p).path = p /\ EntryOf(p).box = Bounds(p)
  BY DEF EntryOf
<1>7. Accepted(index)
  <2> SUFFICES ASSUME NEW i \in 1 .. Len(paths) PROVE Plausible(index[i].box)
    BY <1>5 DEF Accepted
  <2>1. Readable(paths[i]) /\ NorthUp(rasters[paths[i]]) /\ paths[i] \in Paths
    BY <1>2, <1>3
  <2>2. Plausible(Bounds(paths[i]))
    BY <2>1, BoundsAreBox DEF Inv, Typed
  <2> QED  BY <1>5, <1>6, <2>2
<1>8. /\ entries \in Seq(Entry) /\ Len(entries) = Len(paths)
      /\ \A i \in 1 .. Len(paths) :
           entries[i] = [path |-> Resolved[index[i].path], box |-> index[i].box]
  BY <1>4, <1>5, IndexReadProperties
<1> HIDE DEF entries
<1>9. \A i \in 1 .. Len(paths) : entries[i].path = paths[i] /\ entries[i].box = Bounds(paths[i])
  <2> TAKE i \in 1 .. Len(paths)
  <2>1. Resolved[paths[i]] = paths[i]
    BY <1>3
  <2>2. index[i].path = paths[i] /\ index[i].box = Bounds(paths[i])
    BY <1>5, <1>6
  <2>3. entries[i] = [path |-> Resolved[index[i].path], box |-> index[i].box]
    BY <1>8
  <2> QED  BY <2>1, <2>2, <2>3
<1>10. /\ PathsIn(entries) \in Seq(Paths) /\ Len(PathsIn(entries)) = Len(paths)
       /\ \A i \in 1 .. Len(paths) : PathsIn(entries)[i] = paths[i]
  BY <1>8, <1>9, PathsInProperties
<1>11. paths = PathsIn(entries)
  BY <1>1, <1>10, SeqEqual
<1>12. Agrees(entries, paths)
  BY <1>11 DEF Agrees
<1>13. ASSUME NEW i \in 1 .. Len(paths)
       PROVE  entries[FirstFor(entries, paths[i])].box = Bounds(paths[i])
  <2> DEFINE those == {j \in DOMAIN entries : entries[j].path = paths[i]}
  <2>1. DOMAIN entries = 1 .. Len(paths)
    BY <1>8, LenProperties
  <2>2. those \in SUBSET Nat /\ i \in those
    BY <1>9, <2>1
  <2>3. \A j \in those : entries[j].box = Bounds(paths[i])
    BY <1>9, <2>1
  <2> HIDE DEF those
  <2>4. PICK j \in those : \A k \in those : j <= k
    BY <2>2, LeastNumber
  <2>5. Min(those) = j
    BY <2>2, <2>4, LeastIs
  <2>6. FirstFor(entries, paths[i]) = j
    BY <2>5 DEF FirstFor, those
  <2> QED  BY <2>3, <2>6
<1> QED  BY <1>2, <1>3, <1>7, <1>12, <1>13 DEF Verifies, entries

-----------------------------------------------------------------------------
(* The theorems.                                                           *)

\* Datasets, boxes and cursor go together: what is served has a box and a layer for each
\* of its files, and an answer is the number of a dataset (contextAddDataset() and
\* contextBuildGrid(), context.cpp).
THEOREM TypeCorrect == Spec => []TypeOK
BY Invariance, TypesFollow, PTL

\* The grid decides nothing: whatever the boxes, the candidates that contain the point are
\* given out in order of precedence and none of them is missed, as by a walk over every
\* dataset ("it never decides the answer", context.cpp:343).
THEOREM GridDecidesNothing == Spec => []SameAsScan
BY Invariance, ScanFollows, PTL DEF Inv

\* However many boxes there are and however large they are, the grid has at most MaxCells
\* cells, at most MaxSide along an axis, and lists a box in at most MaxCellsPerBox.
THEOREM GridIsBounded == Spec => []GridBounded
BY Invariance, BoundFollows, PTL DEF Inv

\* An answer is that of the first dataset with a value at the point, or there is none:
\* grid, bounds and cursor are shortcuts ("Bounds only gate a fast path", index.cpp:196).
THEOREM FirstValueAnswers == Spec => []AnswersFromRasters
BY Invariance, RastersFollow, PTL

\* The layer of an answer is the first argument of which any file has a value at the
\* point (README.md:108).
THEOREM FirstLayerAnswers == Spec => []AnswersFromFirstLayer
BY Invariance, LayersFollow, PTL

\* After demd -W a daemon gets from the index the datasets, bounds and precedence that it
\* would get from the sources, as long as none is named twice.
THEOREM VerifiedMeansSame == Spec => []VerifiedIndexIsSources
BY Invariance, VerifiedFollows, PTL

\* demd -W accepts what demd -w has just made of north-up rasters with absolute names.
THEOREM FreshIsAccepted == Spec => []FreshIndexVerifies
BY Invariance, FreshFollows, PTL
================================================================================
