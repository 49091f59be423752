---------------------- MODULE LanguageModelStreamProofs ----------------------
(***************************************************************************)
(* Theorems about LanguageModelStream, for any model, vocabulary, grammar, *)
(* context length, options, trie of drafts and schedule.                   *)
(*                                                                         *)
(* The heart of the argument is one predicate, Ready: the state in which   *)
(* the three ways into the second half of generate() (a seed, a chained    *)
(* pass, the end of an accepted path) leave it.  From a Ready state every  *)
(* way on, a halt or a pass over any trie, keeps the invariant             *)
(* (AdvanceKeeps); each call of next() then only has to reach one.         *)
(*                                                                         *)
(* What a grammar is promised needs streams in which no prompt lookup is   *)
(* beside it (Clean); the rest of the invariant holds of all streams.      *)
(***************************************************************************)
EXTENDS LanguageModelStream, FiniteSetTheorems, SequenceTheorems,
        WellFoundedInduction, TLAPS

-----------------------------------------------------------------------------
(* Numbers, sequences and tries.                                            *)

\* A nonempty set of numbers up to m has a greatest one.
LEMMA Greatest ==
  ASSUME NEW m \in Nat, NEW S, S \subseteq 0 .. m, S # {}
  PROVE  LET max == CHOOSE n \in S : \A k \in S : k <= n
         IN  max \in S /\ \A k \in S : k <= max
<1> DEFINE R == OpToRel(<, Nat)
           T == {m - n : n \in S}
<1>1. T \subseteq Nat /\ T # {}
  <2>1. \A n \in S : n \in Nat /\ n <= m
    OBVIOUS
  <2>2. \A n \in S : m - n \in Nat
    BY <2>1
  <2> QED
    BY <2>2
<1>2. PICK x \in T : \A y \in T : ~ (<<y, x>> \in R)
  <2> HIDE DEF R, T
  <2> QED
    BY <1>1, WFMin, NatLessThanWellFounded DEF R
<1>3. PICK n \in S : x = m - n
  BY <1>2
<1>4. \A k \in S : k <= n
  <2> SUFFICES ASSUME NEW k \in S, ~(k <= n) PROVE FALSE
    OBVIOUS
  <2>1. m - k \in T /\ m - k < x /\ m - k \in Nat /\ x \in Nat
    BY <1>3
  <2> QED
    BY <2>1, <1>2 DEF OpToRel
<1> QED
  BY <1>4

LEMMA LastOfFacts ==
  ASSUME NEW S, NEW s \in Seq(S), NEW n \in Nat
  PROVE  /\ LastOf(s, n) \in Seq(S)
         /\ Len(LastOf(s, n)) = IF Len(s) > n THEN n ELSE Len(s)
         /\ \A i \in 1 .. Len(LastOf(s, n)) :
              LastOf(s, n)[i] = s[Len(s) - Len(LastOf(s, n)) + i]
<1> DEFINE from == IF Len(s) > n THEN Len(s) - n + 1 ELSE 1
<1>1. from \in Int /\ Len(s) \in Int /\ from >= 1 /\ from <= Len(s) + 1
  BY LenProperties
<1>2. \A i \in from .. Len(s) : s[i] \in S
  BY <1>1, ElementOfSeq
<1>3. LastOf(s, n) = SubSeq(s, from, Len(s))
  BY DEF LastOf
<1> HIDE DEF from
<1>4. /\ LastOf(s, n) \in Seq(S)
      /\ Len(LastOf(s, n)) = IF from <= Len(s) THEN Len(s) - from + 1 ELSE 0
      /\ \A i \in 1 .. Len(s) - from + 1 : LastOf(s, n)[i] = s[from + i - 1]
  BY <1>1, <1>2, <1>3, SubSeqProperties
<1>5. Len(LastOf(s, n)) = IF Len(s) > n THEN n ELSE Len(s)
  <2>1. Len(LastOf(s, n)) = IF from <= Len(s) THEN Len(s) - from + 1 ELSE 0
    BY <1>4
  <2>2. Len(s) \in Nat
    BY LenProperties
  <2>3. CASE Len(s) > n
    BY <2>1, <2>2, <2>3 DEF from
  <2>4. CASE ~(Len(s) > n)
    BY <2>1, <2>2, <2>4 DEF from
  <2> QED
    BY <2>3, <2>4
<1>6. ASSUME NEW i \in 1 .. Len(LastOf(s, n))
      PROVE  LastOf(s, n)[i] = s[Len(s) - Len(LastOf(s, n)) + i]
  <2>1. from <= Len(s) /\ Len(LastOf(s, n)) = Len(s) - from + 1
    BY <1>1, <1>4, <1>6
  <2>2. LastOf(s, n)[i] = s[from + i - 1]
    BY <1>4, <2>1
  <2>3. from + i - 1 = Len(s) - Len(LastOf(s, n)) + i
    BY <1>1, <2>1
  <2> QED
    BY <2>2, <2>3
<1> QED
  BY <1>4, <1>5, <1>6

\* A window that is rolled forward is the window of the whole.
LEMMA LastOfRolls ==
  ASSUME NEW S, NEW s \in Seq(S), NEW x \in Seq(S), NEW n \in Nat
  PROVE  LastOf(LastOf(s, n) \o x, n) = LastOf(s \o x, n)
<1> DEFINE a == LastOf(s, n)  ax == a \o x  sx == s \o x
           b == LastOf(ax, n)  c == LastOf(sx, n)
<1>1. /\ a \in Seq(S) /\ Len(a) = (IF Len(s) > n THEN n ELSE Len(s))
      /\ \A i \in 1 .. Len(a) : a[i] = s[Len(s) - Len(a) + i]
  BY LastOfFacts
<1> HIDE DEF a
<1>2. /\ ax \in Seq(S) /\ Len(ax) = Len(a) + Len(x)
      /\ \A i \in 1 .. Len(a) + Len(x) :
           ax[i] = IF i <= Len(a) THEN a[i] ELSE x[i - Len(a)]
      /\ sx \in Seq(S) /\ Len(sx) = Len(s) + Len(x)
      /\ \A i \in 1 .. Len(s) + Len(x) :
           sx[i] = IF i <= Len(s) THEN s[i] ELSE x[i - Len(s)]
  BY <1>1, ConcatProperties
<1> HIDE DEF ax, sx
<1>3. /\ b \in Seq(S) /\ Len(b) = (IF Len(ax) > n THEN n ELSE Len(ax))
      /\ \A i \in 1 .. Len(b) : b[i] = ax[Len(ax) - Len(b) + i]
      /\ c \in Seq(S) /\ Len(c) = (IF Len(sx) > n THEN n ELSE Len(sx))
      /\ \A i \in 1 .. Len(c) : c[i] = sx[Len(sx) - Len(c) + i]
  BY <1>2, LastOfFacts
<1> HIDE DEF b, c
<1>4. Len(s) \in Nat /\ Len(x) \in Nat /\ Len(a) \in Nat
  BY <1>1, LenProperties
<1>5. Len(b) = Len(c) /\ Len(b) \in Nat
  BY <1>1, <1>2, <1>3, <1>4
<1>6. ASSUME NEW i \in 1 .. Len(b) PROVE b[i] = c[i]
  <2> DEFINE j == Len(a) + Len(x) - Len(b) + i  k == Len(s) + Len(x) - Len(b) + i
  <2>0. /\ Len(b) <= Len(a) + Len(x) /\ Len(b) <= Len(s) + Len(x)
        /\ Len(a) <= Len(s) /\ i \in Nat /\ 1 <= i /\ i <= Len(b)
    BY <1>1, <1>2, <1>3, <1>4, <1>5
  <2>1. /\ j \in 1 .. Len(a) + Len(x) /\ k \in 1 .. Len(s) + Len(x)
        /\ j - Len(a) = k - Len(s)
        /\ Len(s) - Len(a) + j = k
    BY <2>0, <1>4, <1>5
  <2>2. b[i] = ax[j] /\ c[i] = sx[k]
    <3>1. i \in 1 .. Len(c)
      BY <1>5
    <3>2. b[i] = ax[Len(ax) - Len(b) + i] /\ c[i] = sx[Len(sx) - Len(c) + i]
      BY <1>3, <3>1
    <3>3. Len(ax) = Len(a) + Len(x) /\ Len(sx) = Len(s) + Len(x)
      BY <1>2
    <3> QED
      BY <3>2, <3>3, <1>5
  <2> HIDE DEF j, k
  <2>3. CASE j <= Len(a)
    <3>1. j \in 1 .. Len(a) /\ k <= Len(s)
      BY <2>0, <2>1, <2>3, <1>4
    <3>2. ax[j] = a[j] /\ sx[k] = s[k]
      BY <2>1, <3>1, <1>2
    <3> QED
      BY <3>1, <3>2, <2>1, <2>2, <1>1
  <2>4. CASE ~(j <= Len(a))
    <3>1. ~(k <= Len(s))
      BY <2>0, <2>1, <2>4, <1>4
    <3> QED
      BY <2>1, <2>2, <2>4, <3>1, <1>2
  <2> QED
    BY <2>3, <2>4
<1> QED
  BY <1>3, <1>5, <1>6, SeqEqual DEF b, c, ax, sx, a

\* Beginnings of a sequence.
LEMMA PrefixFacts ==
  ASSUME NEW S, NEW p \in Seq(S), NEW n \in 0 .. Len(p)
  PROVE  /\ SubSeq(p, 1, n) \in Seq(S) /\ Len(SubSeq(p, 1, n)) = n
         /\ \A i \in 1 .. n : SubSeq(p, 1, n)[i] = p[i]
         /\ SubSeq(p, 1, 0) = <<>> /\ SubSeq(p, 1, Len(p)) = p
<1>1. Len(p) \in Nat /\ n \in Nat /\ n <= Len(p)
  BY LenProperties
<1>2. \A i \in 1 .. n : p[i] \in S
  BY <1>1, ElementOfSeq
<1>3. /\ SubSeq(p, 1, n) \in Seq(S)
      /\ Len(SubSeq(p, 1, n)) = IF 1 <= n THEN n - 1 + 1 ELSE 0
      /\ \A i \in 1 .. n - 1 + 1 : SubSeq(p, 1, n)[i] = p[1 + i - 1]
  BY <1>1, <1>2, SubSeqProperties
<1>4. SubSeq(p, 1, 0) = <<>> /\ SubSeq(p, 1, Len(p)) = p
  BY SubSeqEmpty, SubSeqFull
<1>5. Len(SubSeq(p, 1, n)) = n
  BY <1>1, <1>3
<1>6. \A i \in 1 .. n : SubSeq(p, 1, n)[i] = p[i]
  BY <1>1, <1>3
<1> QED
  BY <1>3, <1>4, <1>5, <1>6

LEMMA PrefixOfPrefix ==
  ASSUME NEW S, NEW p \in Seq(S), NEW m \in 0 .. Len(p), NEW n \in 0 .. m
  PROVE  SubSeq(SubSeq(p, 1, m), 1, n) = SubSeq(p, 1, n)
<1> DEFINE a == SubSeq(p, 1, m)  b == SubSeq(a, 1, n)  c == SubSeq(p, 1, n)
<1>1. a \in Seq(S) /\ Len(a) = m /\ \A i \in 1 .. m : a[i] = p[i]
  BY PrefixFacts
<1>2. n \in 0 .. Len(p) /\ n \in 0 .. Len(a) /\ 1 .. n \subseteq 1 .. m
  BY <1>1, LenProperties
<1> HIDE DEF a
<1>3. /\ b \in Seq(S) /\ Len(b) = n /\ \A i \in 1 .. n : b[i] = a[i]
      /\ c \in Seq(S) /\ Len(c) = n /\ \A i \in 1 .. n : c[i] = p[i]
  BY <1>1, <1>2, PrefixFacts
<1> HIDE DEF b, c
<1>4. \A i \in 1 .. Len(b) : b[i] = c[i]
  BY <1>1, <1>2, <1>3
<1> QED
  BY <1>3, <1>4, SeqEqual DEF a, b, c

LEMMA PrefixOfConcat ==
  ASSUME NEW S, NEW p \in Seq(S), NEW x \in Seq(S), NEW n \in 0 .. Len(p)
  PROVE  SubSeq(p \o x, 1, n) = SubSeq(p, 1, n)
<1> DEFINE px == p \o x  b == SubSeq(px, 1, n)  c == SubSeq(p, 1, n)
<1>1. /\ px \in Seq(S) /\ Len(px) = Len(p) + Len(x)
      /\ \A i \in 1 .. Len(p) + Len(x) : px[i] = IF i <= Len(p) THEN p[i] ELSE x[i - Len(p)]
  BY ConcatProperties
<1>2. Len(p) \in Nat /\ Len(x) \in Nat /\ n \in 0 .. Len(px)
  BY <1>1, LenProperties
<1> HIDE DEF px
<1>3. /\ b \in Seq(S) /\ Len(b) = n /\ \A i \in 1 .. n : b[i] = px[i]
      /\ c \in Seq(S) /\ Len(c) = n /\ \A i \in 1 .. n : c[i] = p[i]
  BY <1>1, <1>2, PrefixFacts
<1> HIDE DEF b, c
<1>4. ASSUME NEW i \in 1 .. Len(b) PROVE b[i] = c[i]
  <2>1. i \in 1 .. n /\ i \in 1 .. Len(p) + Len(x) /\ i <= Len(p)
    BY <1>2, <1>3
  <2> QED
    BY <2>1, <1>1, <1>3
<1> QED
  BY <1>3, <1>4, SeqEqual DEF b, c, px

\* The last token of a longer sequence.
LEMMA AppendFacts ==
  ASSUME NEW S, NEW p \in Seq(S), NEW e \in S
  PROVE  /\ Append(p, e) \in Seq(S) /\ Len(Append(p, e)) = Len(p) + 1
         /\ Append(p, e) = p \o <<e>> /\ Append(p, e) # <<>>
         /\ Append(p, e)[Len(p) + 1] = e
         /\ \A i \in 1 .. Len(p) : Append(p, e)[i] = p[i]
         /\ \A n \in 0 .. Len(p) : SubSeq(Append(p, e), 1, n) = SubSeq(p, 1, n)
<1>1. /\ Append(p, e) \in Seq(S) /\ Len(Append(p, e)) = Len(p) + 1
      /\ Append(p, e)[Len(p) + 1] = e
      /\ \A i \in 1 .. Len(p) : Append(p, e)[i] = p[i]
      /\ Len(p) \in Nat
  BY AppendProperties, LenProperties
<1>2. Append(p, e) = p \o <<e>> /\ <<e>> \in Seq(S)
  BY AppendIsConcat
<1>3. \A n \in 0 .. Len(p) : SubSeq(Append(p, e), 1, n) = SubSeq(p, 1, n)
  BY <1>2, PrefixOfConcat
<1>4. Append(p, e) # <<>>
  BY <1>1, EmptySeq
<1> QED
  BY <1>1, <1>2, <1>3, <1>4

\* The nodes on the way to a path are as many as its rows.
LEMMA AboveFacts ==
  ASSUME NEW S, NEW p \in Seq(S)
  PROVE  /\ Above(p) \subseteq Seq(S) /\ IsFiniteSet(Above(p))
         /\ Cardinality(Above(p)) = Len(p) + 1
         /\ <<>> \in Above(p) /\ p \in Above(p)
         /\ \A q \in Above(p) : Above(q) \subseteq Above(p)
<1> DEFINE f == [n \in 0 .. Len(p) |-> SubSeq(p, 1, n)]
<1>0. Len(p) \in Nat
  BY LenProperties
<1>1. \A n \in 0 .. Len(p) : SubSeq(p, 1, n) \in Seq(S) /\ Len(SubSeq(p, 1, n)) = n
  BY PrefixFacts
<1>2. Above(p) \subseteq Seq(S)
  BY <1>1 DEF Above
<1>3. <<>> \in Above(p) /\ p \in Above(p)
  <2>1. 0 \in 0 .. Len(p) /\ Len(p) \in 0 .. Len(p)
    BY <1>0
  <2>2. SubSeq(p, 1, 0) = <<>> /\ SubSeq(p, 1, Len(p)) = p
    BY <2>1, PrefixFacts
  <2> QED
    BY <2>1, <2>2 DEF Above
<1>4. f \in Bijection(0 .. Len(p), Above(p))
  <2>1. f \in [0 .. Len(p) -> Above(p)]
    BY DEF Above
  <2>2. \A m, n \in 0 .. Len(p) : f[m] = f[n] => m = n
    BY <1>1
  <2>3. \A q \in Above(p) : \E n \in 0 .. Len(p) : f[n] = q
    BY DEF Above
  <2> HIDE DEF f
  <2> QED
    BY <2>1, <2>2, <2>3 DEF Bijection, Injection, Surjection
<1>5. IsFiniteSet(0 .. Len(p)) /\ Cardinality(0 .. Len(p)) = Len(p) + 1
  BY <1>0, FS_Interval
<1>6. IsFiniteSet(Above(p)) /\ Cardinality(Above(p)) = Len(p) + 1
  BY <1>4, <1>5, FS_Bijection DEF ExistsBijection
<1>7. ASSUME NEW q \in Above(p), NEW r \in Above(q) PROVE r \in Above(p)
  <2>1. PICK m \in 0 .. Len(p) : q = SubSeq(p, 1, m)
    BY DEF Above
  <2>2. Len(q) = m
    BY <2>1, <1>1
  <2>3. PICK n \in 0 .. m : r = SubSeq(q, 1, n)
    BY <2>2 DEF Above
  <2>4. r = SubSeq(p, 1, n) /\ n \in 0 .. Len(p)
    BY <2>1, <2>3, <1>0, PrefixOfPrefix
  <2> QED
    BY <2>4 DEF Above
<1> QED
  BY <1>2, <1>3, <1>6, <1>7

\* What a pass is given: paths over the vocabulary, each with the nodes above it.
Trie(trie) ==
  /\ trie \subseteq Seq(Token) /\ IsFiniteSet(trie)
  /\ <<>> \in trie
  /\ \A path \in trie : Above(path) \subseteq trie

LEMMA ChainIsTrie ==
  ASSUME NEW drafts \in Seq(Token)
  PROVE  Trie(Chain(drafts)) /\ Cardinality(Chain(drafts)) = Len(drafts) + 1
BY AboveFacts DEF Trie, Chain

LEMMA RootIsTrie ==
  /\ Trie({<<>>}) /\ Cardinality({<<>>}) = 1
  /\ Above(<<>>) = {<<>>} /\ <<>> \in Seq(Token)
<1>1. <<>> \in Seq(Token) /\ Len(<<>>) = 0
  BY EmptySeq
<1>2. Above(<<>>) = {<<>>}
  <2>1. SubSeq(<<>>, 1, 0) = <<>> /\ 0 .. Len(<<>>) = {0}
    BY <1>1, SubSeqEmpty
  <2>2. Above(<<>>) = {SubSeq(<<>>, 1, n) : n \in {0}}
    BY <2>1 DEF Above
  <2>3. {SubSeq(<<>>, 1, n) : n \in {0}} = {SubSeq(<<>>, 1, 0)}
    OBVIOUS
  <2> QED
    BY ONLY <2>1, <2>2, <2>3
<1>3. Trie(Chain(<<>>)) /\ Cardinality(Chain(<<>>)) = Len(<<>>) + 1
  BY <1>1, ChainIsTrie
<1>4. Trie({<<>>})
  BY <1>2, <1>3 DEF Chain
<1>5. Cardinality({<<>>}) = 1
  BY FS_Singleton
<1> QED
  BY <1>1, <1>2, <1>4, <1>5

\* The tokens of a path follow what was sampled above them.
Follows(path, out) == \A n \in 1 .. Len(path) : path[n] = out[SubSeq(path, 1, n - 1)]

\* A path of a trie has fewer tokens than the trie has nodes.
LEMMA PathLength ==
  ASSUME NEW trie, Trie(trie), NEW path \in trie
  PROVE  Len(path) \in Nat /\ Cardinality(trie) \in Nat /\ Len(path) + 1 <= Cardinality(trie)
<1>1. path \in Seq(Token) /\ Above(path) \subseteq trie /\ IsFiniteSet(trie)
  BY DEF Trie
<1>2. Cardinality(Above(path)) = Len(path) + 1 /\ Len(path) \in Nat
  BY <1>1, AboveFacts, LenProperties
<1>3. Cardinality(Above(path)) <= Cardinality(trie) /\ Cardinality(trie) \in Nat
  BY <1>1, FS_Subset, FS_CardinalityType
<1> QED
  BY <1>2, <1>3

\* The walk down a trie ends at one of its nodes, whose own token leaves it.
LEMMA AcceptedPathFacts ==
  ASSUME NEW trie, Trie(trie), NEW out \in [trie -> Token]
  PROVE  LET path == AcceptedPath(trie, out)
         IN  path \in trie /\ Follows(path, out) /\ Append(path, out[path]) \notin trie
<1> DEFINE lens == {Len(path) : path \in {q \in trie : Follows(q, out)}}
           max == CHOOSE n \in lens : \A k \in lens : k <= n
<1>1. Cardinality(trie) \in Nat /\ \A path \in trie : Len(path) \in 0 .. Cardinality(trie)
  <2>1. IsFiniteSet(trie)
    BY DEF Trie
  <2>2. Cardinality(trie) \in Nat
    BY <2>1, FS_CardinalityType
  <2> QED
    BY <2>2, PathLength
<1>2. lens \subseteq 0 .. Cardinality(trie)
  BY <1>1
<1>3. lens # {}
  <2>1. <<>> \in trie /\ Len(<<>>) = 0
    BY EmptySeq DEF Trie
  <2>2. Follows(<<>>, out)
    BY <2>1 DEF Follows
  <2> QED
    BY <2>1, <2>2
<1> HIDE DEF lens
<1>4. max \in lens /\ \A k \in lens : k <= max
  BY <1>1, <1>2, <1>3, Greatest
<1> HIDE DEF max
<1>5. PICK path \in trie : Follows(path, out) /\ Len(path) = max
  BY <1>4 DEF lens
<1>6. ASSUME Append(path, out[path]) \in trie PROVE FALSE
  <2> DEFINE longer == Append(path, out[path])
  <2>1. path \in Seq(Token) /\ out[path] \in Token /\ Len(path) \in Nat
    BY LenProperties DEF Trie
  <2>2. /\ Len(longer) = Len(path) + 1 /\ longer[Len(path) + 1] = out[path]
        /\ \A i \in 1 .. Len(path) : longer[i] = path[i]
        /\ \A n \in 0 .. Len(path) : SubSeq(longer, 1, n) = SubSeq(path, 1, n)
    BY <2>1, AppendFacts
  <2>3. SubSeq(path, 1, Len(path)) = path
    BY <2>1, SubSeqFull
  <2> HIDE DEF longer
  <2>4. ASSUME NEW n \in 1 .. Len(longer) PROVE longer[n] = out[SubSeq(longer, 1, n - 1)]
    <3>1. n - 1 \in 0 .. Len(path) /\ SubSeq(longer, 1, n - 1) = SubSeq(path, 1, n - 1)
      BY <2>1, <2>2
    <3>2. CASE n = Len(path) + 1
      <4>1. n - 1 = Len(path)
        BY <2>1, <3>2
      <4>2. SubSeq(longer, 1, n - 1) = path
        BY <4>1, <3>1, <2>3
      <4> QED
        BY <4>2, <3>2, <2>2
    <3>3. CASE n # Len(path) + 1
      <4>1. n \in 1 .. Len(path)
        BY <2>1, <2>2, <3>3
      <4>2. path[n] = out[SubSeq(path, 1, n - 1)]
        BY <4>1, <1>5 DEF Follows
      <4> QED
        BY <4>1, <4>2, <3>1, <2>2
    <3> QED
      BY <3>2, <3>3
  <2>5. Len(longer) \in lens
    BY <2>4, <1>6 DEF longer, lens, Follows
  <2> QED
    BY <2>1, <2>2, <2>5, <1>4, <1>5
<1>7. \E q \in trie : /\ \A n \in 1 .. Len(q) : q[n] = out[SubSeq(q, 1, n - 1)]
                      /\ Append(q, out[q]) \notin trie
  BY <1>5, <1>6 DEF Follows
<1> QED
  BY <1>7 DEF AcceptedPath, Follows

LEMMA RowPrefix ==
  ASSUME NEW S, NEW root \in S, NEW p \in Seq(S), NEW n \in 0 .. Len(p)
  PROVE  SubSeq(Row(root, p), 1, n + 1) = Row(root, SubSeq(p, 1, n))
<1> DEFINE q == SubSeq(p, 1, n)  rest == SubSeq(p, n + 1, Len(p))
<1>1. Len(p) \in Nat /\ n \in Nat /\ n <= Len(p)
  BY LenProperties
<1>2. q \in Seq(S) /\ Len(q) = n
  BY PrefixFacts
<1>3. rest \in Seq(S)
  <2>1. \A i \in n + 1 .. Len(p) : p[i] \in S
    BY <1>1, ElementOfSeq
  <2> QED
    BY <1>1, <2>1, SubSeqProperties
<1>4. q \o rest = p
  <2>0. 1 \in 1 .. Len(p) + 1 /\ n \in 1 - 1 .. Len(p) /\ Len(p) \in n .. Len(p)
    BY <1>1
  <2>1. SubSeq(p, 1, n) \o SubSeq(p, n + 1, Len(p)) = SubSeq(p, 1, Len(p))
    BY ONLY <2>0, p \in Seq(S), ConcatAdjacentSubSeq
  <2> QED
    BY <2>1, SubSeqFull
<1>5. <<root>> \in Seq(S) /\ Len(<<root>>) = 1
  OBVIOUS
<1> HIDE DEF q, rest
<1>6. Row(root, p) = Row(root, q) \o rest
  <2>1. (<<root>> \o q) \o rest = <<root>> \o (q \o rest)
    BY <1>2, <1>3, <1>5, ConcatAssociative
  <2> QED
    BY <2>1, <1>4 DEF Row
<1>7. Row(root, q) \in Seq(S) /\ Len(Row(root, q)) = n + 1
  BY <1>1, <1>2, <1>5, ConcatProperties DEF Row
<1>8. SubSeq(Row(root, p), 1, n + 1) = SubSeq(Row(root, q), 1, n + 1)
  BY <1>1, <1>3, <1>6, <1>7, PrefixOfConcat
<1> QED
  BY <1>7, <1>8, SubSeqFull DEF q

LEMMA RowFacts ==
  ASSUME NEW S, NEW root \in S, NEW p \in Seq(S)
  PROVE  Row(root, p) \in Seq(S) /\ Len(Row(root, p)) = Len(p) + 1
<1>1. <<root>> \in Seq(S) /\ Len(<<root>>) = 1 /\ Len(p) \in Nat
  BY LenProperties
<1> QED
  BY <1>1, ConcatProperties DEF Row

\* The end of a sequence that grows.
LEMMA EndOfConcat ==
  ASSUME NEW S, NEW s \in Seq(S), NEW x \in Seq(S), NEW n \in 0 .. Len(s)
  PROVE  /\ SubSeq(s \o x, n + 1, Len(s \o x)) = SubSeq(s, n + 1, Len(s)) \o x
         /\ SubSeq(s, n + 1, Len(s)) \in Seq(S)
         /\ Len(SubSeq(s, n + 1, Len(s))) = Len(s) - n
<1> DEFINE sx == s \o x  e == SubSeq(s, n + 1, Len(s))
           a == SubSeq(sx, n + 1, Len(sx))  b == e \o x
<1>1. Len(s) \in Nat /\ Len(x) \in Nat /\ n \in Nat /\ n <= Len(s)
  BY LenProperties
<1>2. /\ sx \in Seq(S) /\ Len(sx) = Len(s) + Len(x)
      /\ \A i \in 1 .. Len(s) + Len(x) : sx[i] = IF i <= Len(s) THEN s[i] ELSE x[i - Len(s)]
  BY ConcatProperties
<1>3. /\ e \in Seq(S) /\ Len(e) = Len(s) - n
      /\ \A i \in 1 .. Len(s) - n : e[i] = s[n + i]
  <2>1. \A i \in n + 1 .. Len(s) : s[i] \in S
    BY <1>1, ElementOfSeq
  <2>2. /\ e \in Seq(S) /\ Len(e) = IF n + 1 <= Len(s) THEN Len(s) - (n + 1) + 1 ELSE 0
        /\ \A i \in 1 .. Len(s) - (n + 1) + 1 : e[i] = s[n + 1 + i - 1]
    BY <1>1, <2>1, SubSeqProperties
  <2> HIDE DEF e
  <2>3. Len(e) = Len(s) - n
    BY <1>1, <2>2
  <2>4. Len(s) - (n + 1) + 1 = Len(s) - n /\ \A i \in 1 .. Len(s) - n : n + 1 + i - 1 = n + i
    BY <1>1
  <2> QED
    BY <2>2, <2>3, <2>4
<1> HIDE DEF sx, e
<1>4. /\ a \in Seq(S) /\ Len(a) = Len(sx) - n
      /\ \A i \in 1 .. Len(sx) - n : a[i] = sx[n + i]
  <2>1. \A i \in n + 1 .. Len(sx) : sx[i] \in S
    BY <1>1, <1>2, ElementOfSeq
  <2>2. /\ a \in Seq(S) /\ Len(a) = IF n + 1 <= Len(sx) THEN Len(sx) - (n + 1) + 1 ELSE 0
        /\ \A i \in 1 .. Len(sx) - (n + 1) + 1 : a[i] = sx[n + 1 + i - 1]
    BY <1>1, <1>2, <2>1, SubSeqProperties
  <2> HIDE DEF a
  <2>3. Len(a) = Len(sx) - n
    BY <1>1, <1>2, <2>2
  <2>4. Len(sx) - (n + 1) + 1 = Len(sx) - n /\ \A i \in 1 .. Len(sx) - n : n + 1 + i - 1 = n + i
    BY <1>1, <1>2
  <2> QED
    BY <2>2, <2>3, <2>4
<1>5. /\ b \in Seq(S) /\ Len(b) = Len(e) + Len(x)
      /\ \A i \in 1 .. Len(e) + Len(x) : b[i] = IF i <= Len(e) THEN e[i] ELSE x[i - Len(e)]
  BY <1>3, ConcatProperties
<1> HIDE DEF a, b
<1>6. Len(a) = Len(b)
  BY <1>1, <1>2, <1>3, <1>4, <1>5
<1>7. ASSUME NEW i \in 1 .. Len(a) PROVE a[i] = b[i]
  <2>1. /\ i \in 1 .. Len(sx) - n /\ i \in 1 .. Len(e) + Len(x) /\ n + i \in 1 .. Len(s) + Len(x)
        /\ (i <= Len(e)) = (n + i <= Len(s))
        /\ n + i - Len(s) = i - Len(e)
    BY <1>1, <1>2, <1>3, <1>4
  <2>2. a[i] = sx[n + i]
    BY <2>1, <1>4
  <2>3. CASE i <= Len(e)
    <3>1. i \in 1 .. Len(s) - n /\ n + i <= Len(s)
      BY <1>1, <1>3, <2>3
    <3>2. a[i] = s[n + i] /\ b[i] = e[i] /\ e[i] = s[n + i]
      BY <2>1, <2>2, <2>3, <3>1, <1>2, <1>3, <1>5
    <3> QED
      BY <3>2
  <2>4. CASE ~(i <= Len(e))
    <3>1. ~(n + i <= Len(s))
      BY <1>1, <1>3, <2>4
    <3>2. sx[n + i] = x[n + i - Len(s)]
      BY <2>1, <3>1, <1>2
    <3>3. b[i] = x[i - Len(e)]
      BY <2>1, <2>4, <1>5
    <3> QED
      BY <2>1, <2>2, <3>2, <3>3
  <2> QED
    BY <2>3, <2>4
<1>8. a = b
  BY <1>4, <1>5, <1>6, <1>7, SeqEqual
<1> QED
  BY <1>3, <1>8 DEF a, b, e, sx

-----------------------------------------------------------------------------
(* Sampling under a grammar.                                                *)

LEMMA SampledIsToken ==
  ASSUME NEW w, NEW context, NEW penalised, NEW seed, NEW allowed, allowed \subseteq Token
  PROVE  Sampled(w, context, penalised, seed, allowed) \in Token
<1>1. Token # {}
  BY StreamAssumption
<1>2. (CHOOSE t \in (IF allowed = {} THEN Token ELSE allowed) : TRUE) \in Token
  BY <1>1
<1> QED
  BY <1>2 DEF Sampled

LEMMA AllowedIsToken ==
  ASSUME NEW grammar, NEW g
  PROVE  Allowed(grammar, g) \subseteq Token
BY DEF Allowed

\* Nothing follows what a matcher that has terminated accepted.
LEMMA NothingFollows ==
  ASSUME NEW g \in Seq(Token), Ended(g), options.grammar,
         NEW w \in Seq(Token), Len(g) < Len(w), SubSeq(w, 1, Len(g)) = g
  PROVE  ~Admitted(w)
<1> SUFFICES ASSUME Admitted(w) PROVE FALSE
  OBVIOUS
<1> DEFINE t == w[Len(g) + 1]  gt == SubSeq(w, 1, Len(g) + 1)
<1>1. Len(g) \in Nat /\ Len(w) \in Nat /\ Len(g) + 1 \in 1 .. Len(w)
  BY LenProperties
<1>2. t \in Token
  BY <1>1, ElementOfSeq
<1>3. gt = Append(g, t)
  <2>1. gt = SubSeq(w, 1, Len(g) + 1 - 1) \o <<t>>
    BY <1>1, SubSeqRecursiveSecond
  <2>2. Len(g) + 1 - 1 = Len(g)
    BY <1>1
  <2> QED
    BY <2>1, <2>2, <1>2, AppendIsConcat
<1>4. Len(gt) = Len(g) + 1
  BY <1>1, PrefixFacts
<1>5. ASSUME NEW n \in 1 .. Len(gt) PROVE Legal(SubSeq(gt, 1, n))
  <2>1. n \in 0 .. Len(g) + 1 /\ Len(g) + 1 \in 0 .. Len(w) /\ n \in 1 .. Len(w)
    BY <1>1, <1>4
  <2>2. SubSeq(gt, 1, n) = SubSeq(w, 1, n)
    BY <2>1, PrefixOfPrefix
  <2> QED
    BY <2>1, <2>2 DEF Admitted
<1>6. Admitted(Append(g, t))
  BY <1>3, <1>5 DEF Admitted
<1> QED
  BY <1>2, <1>6 DEF Ended, Allowed

\* A matcher that was given what was said, up to where it terminated, gives
\* the same mask as one that was given all of it.
LEMMA HeardMask ==
  ASSUME NEW g \in Seq(Token), NEW said \in Seq(Token), NEW path \in Seq(Token),
         HasHeard(g, said)
  PROVE  Allowed(options.grammar, g \o path) = Allowed(options.grammar, said \o path)
<1>1. CASE g = said
  BY <1>1
<1>2. CASE ~options.grammar
  BY <1>2 DEF Allowed
<1>3. CASE options.grammar /\ Ended(g) /\ Len(g) <= Len(said) /\ g = SubSeq(said, 1, Len(g))
  <2>1. ASSUME NEW h \in Seq(Token), NEW t \in Token,
               Len(g) <= Len(h), g = SubSeq(h, 1, Len(g))
        PROVE  ~Admitted(Append(h \o path, t))
    <3> DEFINE hp == h \o path
    <3>1. hp \in Seq(Token) /\ Len(hp) = Len(h) + Len(path)
      BY ConcatProperties
    <3>2. Len(g) \in Nat /\ Len(h) \in Nat /\ Len(path) \in Nat
      BY LenProperties
    <3>3. SubSeq(hp, 1, Len(g)) = g
      BY <3>2, <2>1, PrefixOfConcat
    <3> HIDE DEF hp
    <3>4. Len(g) \in 0 .. Len(hp)
      BY <2>1, <3>1, <3>2
    <3>5. /\ Append(hp, t) \in Seq(Token) /\ Len(Append(hp, t)) = Len(hp) + 1
          /\ SubSeq(Append(hp, t), 1, Len(g)) = g
      BY <3>1, <3>3, <3>4, AppendFacts
    <3>6. Len(g) < Len(Append(hp, t))
      BY <2>1, <3>1, <3>2, <3>5
    <3> QED
      BY <1>3, <3>5, <3>6, NothingFollows DEF hp
  <2>2. g = SubSeq(g, 1, Len(g)) /\ Len(g) <= Len(g)
    BY SubSeqFull, LenProperties
  <2>3. Allowed(options.grammar, g \o path) = {}
    BY <1>3, <2>1, <2>2 DEF Allowed
  <2>4. Allowed(options.grammar, said \o path) = {}
    BY <1>3, <2>1 DEF Allowed
  <2> QED
    BY <2>3, <2>4
<1> QED
  BY <1>1, <1>2, <1>3 DEF HasHeard

-----------------------------------------------------------------------------
(* The inductive invariant.                                                 *)

\* A pass is in flight or being accepted.
Pending == phase \in {"ForwardPassPending", "Accepting"}

\* A prompt lookup beside a grammar leaves the matcher ahead of what was
\* said; what the grammar is promised holds of the other streams.
Clean == ~(options.grammar /\ speculator = "lookup")

\* Plain decoding's token after a transcript.
PlainNext(transcript) ==
  NextToken(weights, options, transcript, SubSeq(transcript, opened + 1, Len(transcript)))

\* What a pass is made of, and that its rows find room.
PassShape ==
  /\ pass = [root |-> pass.root, trie |-> pass.trie, out |-> pass.out,
             full |-> pass.full, norm |-> pass.norm]
  /\ pass.full \in BOOLEAN
  /\ Pending => /\ Trie(pass.trie) /\ pass.root \in Token
                /\ pass.full => pass.trie = {<<>>}
                /\ ~pass.full => Len(kv) + Cardinality(pass.trie) <= MaxContext
  /\ phase = "Accepting" => ~pass.full

\* Does the grammar of a stream that goes on reject the token it goes on from?
Refused(seed) == options.grammar /\ ~Admitted(<<seed>>)

\* The cache holds what was said, but for the root of a drafted pass; only a
\* stream that was dropped has kept a token.
Rows ==
  /\ phase \notin {"Seeded", "Closed"} => opened <= Len(tokens)
  /\ phase # "Closed" => lastOutput = NoToken
  /\ Pending => /\ kv \in Seq(Token)
                /\ IF pass.full THEN kv = tokens ELSE tokens = Append(kv, pass.root)
                /\ ring = LastOf(kv, options.window)
  /\ phase = "Seeded" => /\ pass.root \in Token /\ gram = <<>>
                         /\ opened = Len(tokens) + IF Refused(pass.root) THEN 1 ELSE 0
                         /\ kv = tokens /\ Len(tokens) <= MaxContext
                         /\ ring = LastOf(kv, options.window)
  /\ phase = "Closed" => \/ Len(tokens) > MaxContext
                         \/ kv = tokens /\ (tokens # <<>> => lastOutput \in Token)
  /\ speculator = "dflash" => draftKv = kv

\* The matcher was given what was said and what is about to be returned.
Heard ==
  Clean /\ options.grammar =>
    /\ phase = "ForwardPassPending" => HasHeard(gram, Said)
    /\ phase = "Accepting" => HasHeard(gram, Said \o Outputs(pass))

\* At every node of its trie a pass samples what plain decoding would, had
\* it said the tokens on the way to the node.
PassIsPlain ==
  Clean /\ Pending => \A path \in pass.trie : pass.out[path] = PlainNext(tokens \o path)

Unbroken == Clean => phase # "Panicked"

IInv == /\ TypeOK /\ ContextFits
        /\ PassShape /\ Rows /\ Heard /\ PassIsPlain /\ Unbroken

\* The state in which the first half of generate() leaves the second: its rows
\* are in place, and the matcher has heard what was said.
Formed(s, root) ==
  /\ root \in Token
  /\ s.kv \in Seq(Token) /\ Len(s.kv) <= MaxContext
  /\ s.tokens = Append(s.kv, root)
  /\ s.draftKv \in Seq(Token \cup {Unwritten})
  /\ speculator = "dflash" => s.draftKv = s.kv
  /\ s.ring = LastOf(s.kv, options.window)
  /\ s.gram \in Seq(Token)
  /\ s.sent \in Nat
  /\ opened <= Len(s.tokens)
Ready(s, root) ==
  /\ Formed(s, root)
  /\ Clean /\ options.grammar =>
       HasHeard(s.gram, SubSeq(s.tokens, opened + 1, Len(s.tokens)))

LEMMA PassOutputsType ==
  ASSUME NEW s, NEW root, NEW trie, NEW base, NEW g
  PROVE  PassOutputs(s, root, trie, base, g) \in [trie -> Token]
BY SampledIsToken, AllowedIsToken DEF PassOutputs

\* A pass over any trie samples what plain decoding would.
LEMMA PassSamplesPlain ==
  ASSUME TypeOK, NEW s, NEW root, Ready(s, root), NEW trie, trie \subseteq Seq(Token),
         NEW g, Clean, options.grammar => g = s.gram,
         NEW base, base = Len(s.kv)
  PROVE  \A path \in trie :
           PassOutputs(s, root, trie, base, g)[path] = PlainNext(s.tokens \o path)
<1> TAKE path \in trie
<1> DEFINE context == s.tokens \o path
           w == options.window
           said == SubSeq(s.tokens, opened + 1, Len(s.tokens))
<1>0. /\ root \in Token /\ s.kv \in Seq(Token) /\ s.tokens = Append(s.kv, root)
      /\ s.ring = LastOf(s.kv, w) /\ s.gram \in Seq(Token) /\ opened <= Len(s.tokens)
      /\ options.grammar => HasHeard(s.gram, said)
      /\ path \in Seq(Token)
  BY DEF Ready, Formed
<1>1. w \in Nat /\ options.grammar \in BOOLEAN /\ opened \in Nat
  BY StreamAssumption DEF TypeOK
<1>2. /\ s.tokens \in Seq(Token) /\ Len(s.tokens) = Len(s.kv) + 1
      /\ s.tokens = s.kv \o <<root>> /\ Len(s.kv) \in Nat
  <2>1. \A x \in Seq(Token) :
          /\ Append(x, root) \in Seq(Token) /\ Len(Append(x, root)) = Len(x) + 1
          /\ Append(x, root) = x \o <<root>> /\ Len(x) \in Nat
    BY root \in Token, AppendFacts, LenProperties DEF Ready, Formed
  <2> QED
    BY <1>0, <2>1
<1>3. /\ context \in Seq(Token) /\ Len(context) = Len(s.kv) + 1 + Len(path)
      /\ Len(path) \in Nat
  BY <1>0, <1>2, ConcatProperties, LenProperties
<1>4. Row(root, path) \in Seq(Token) /\ s.kv \o Row(root, path) = context
  <2>1. <<root>> \in Seq(Token)
    BY <1>0
  <2>2. \A x \in Seq(Token) : (x \o <<root>>) \o path = x \o (<<root>> \o path)
    BY <1>0, <2>1, ConcatAssociative
  <2>3. (s.kv \o <<root>>) \o path = s.kv \o (<<root>> \o path)
    BY <1>0, <2>2
  <2> QED
    BY <1>0, <1>2, <2>3, RowFacts DEF Row
<1>5. LastOf(s.ring \o Row(root, path), w) = LastOf(context, w)
  <2>1. \A x \in Seq(Token) : LastOf(LastOf(x, w) \o Row(root, path), w)
                               = LastOf(x \o Row(root, path), w)
    BY <1>1, <1>4, LastOfRolls
  <2>2. LastOf(LastOf(s.kv, w) \o Row(root, path), w) = LastOf(s.kv \o Row(root, path), w)
    BY <1>0, <2>1
  <2> HIDE DEF context
  <2> QED
    BY <1>0, <1>4, <2>2
<1>6. Len(s.kv) + Len(path) = Len(context) - 1
  BY <1>2, <1>3
<1>7. said \in Seq(Token) /\ SubSeq(context, opened + 1, Len(context)) = said \o path
  <2>1. opened \in 0 .. Len(s.tokens)
    BY <1>0, <1>1, <1>2
  <2>2. s.tokens \in Seq(Token) /\ path \in Seq(Token)
    BY <1>0, <1>2
  <2>3. \A x \in Seq(Token) : \A n \in 0 .. Len(x) :
          /\ SubSeq(x, n + 1, Len(x)) \in Seq(Token)
          /\ SubSeq(x \o path, n + 1, Len(x \o path)) = SubSeq(x, n + 1, Len(x)) \o path
    BY <2>2, EndOfConcat
  <2> QED
    BY <2>1, <2>2, <2>3
<1>8. Allowed(options.grammar, g \o path) = Allowed(options.grammar, said \o path)
  <2>1. CASE options.grammar
    <3>1. g = s.gram /\ HasHeard(s.gram, said)
      BY <1>0, <2>1
    <3> HIDE DEF said
    <3> QED
      BY <1>0, <1>7, <3>1, HeardMask
  <2>2. CASE ~options.grammar
    BY <2>2 DEF Allowed
  <2> QED
    BY <2>1, <2>2
<1>9. PassOutputs(s, root, trie, base, g)[path]
        = Sampled(weights, s.kv \o Row(root, path), LastOf(s.ring \o Row(root, path), w),
                  Len(s.kv) + Len(path), Allowed(options.grammar, g \o path))
  BY DEF PassOutputs
<1>10. PlainNext(context)
        = Sampled(weights, context, LastOf(context, w), Len(context) - 1,
                  Allowed(options.grammar, SubSeq(context, opened + 1, Len(context))))
  BY DEF PlainNext, NextToken
<1> HIDE DEF context, said
<1> QED
  BY <1>4, <1>5, <1>6, <1>7, <1>8, <1>9, <1>10 DEF context

-----------------------------------------------------------------------------
(* The second half of generate().                                           *)

LEMMA WindowType ==
  ASSUME TypeOK
  PROVE  options.window \in Nat /\ options.grammar \in BOOLEAN /\ MaxContext \in Nat
BY StreamAssumption DEF TypeOK

\* What a step of generate() leaves alone.
Kept == /\ UNCHANGED <<weights, speculator, options, lastOutput, opened>>
        /\ lastOutput = NoToken
        /\ taken' = 0

LEMMA ReadyFacts ==
  ASSUME TypeOK, NEW s, NEW root, Formed(s, root)
  PROVE  /\ s.tokens \in Seq(Token) /\ Len(s.tokens) = Len(s.kv) + 1 /\ Len(s.kv) \in Nat
         /\ s.ring \in Seq(Token) /\ s.kv \in Seq(Token \cup {Unwritten})
<1>1. s.kv \in Seq(Token) /\ root \in Token /\ s.tokens = Append(s.kv, root)
      /\ s.ring = LastOf(s.kv, options.window)
  BY DEF Ready, Formed
<1>2. s.tokens \in Seq(Token) /\ Len(s.tokens) = Len(s.kv) + 1 /\ Len(s.kv) \in Nat
  BY <1>1, AppendFacts, LenProperties
<1>3. LastOf(s.kv, options.window) \in Seq(Token)
  BY <1>1, WindowType, LastOfFacts
<1>4. s.kv \in Seq(Token \cup {Unwritten})
  BY <1>1, SeqMonotonic
<1> QED
  BY <1>1, <1>2, <1>3, <1>4

LEMMA AbandonFacts ==
  ASSUME NEW rows \in Seq(Token \cup {Unwritten}), NEW sent
  PROVE  /\ Abandon(rows, sent) \in Seq(Token \cup {Unwritten})
         /\ Len(Abandon(rows, sent)) = Len(rows)
<1>1. Len(rows) \in Nat /\ \A i \in 1 .. Len(rows) : rows[i] \in Token \cup {Unwritten}
  BY LenProperties, ElementOfSeq
<1>2. Abandon(rows, sent) \in [1 .. Len(rows) -> Token \cup {Unwritten}]
  BY <1>1 DEF Abandon
<1> QED
  BY <1>1, <1>2

LEMMA HaltKeeps ==
  ASSUME IInv, NEW s, NEW root, Formed(s, root), Halt(s), Kept
  PROVE  IInv'
<1> USE DEF IInv, Kept
<1>1. /\ phase' = "Halted" /\ pass' = pass /\ tokens' = s.tokens /\ ring' = s.ring /\ gram' = s.gram
      /\ kv' = Abandon(s.kv, s.sent) /\ draftKv' = Abandon(s.draftKv, s.sent)
      /\ Len(s.kv) >= MaxContext
  BY DEF Halt
<1>2. /\ s.tokens \in Seq(Token) /\ Len(s.tokens) = Len(s.kv) + 1 /\ Len(s.kv) \in Nat
      /\ s.ring \in Seq(Token) /\ s.kv \in Seq(Token \cup {Unwritten})
      /\ s.gram \in Seq(Token) /\ s.draftKv \in Seq(Token \cup {Unwritten})
      /\ Len(s.kv) <= MaxContext /\ opened <= Len(s.tokens)
      /\ speculator = "dflash" => s.draftKv = s.kv
  BY ReadyFacts DEF Ready, Formed
<1>3. MaxContext \in Nat
  BY StreamAssumption
<1>4. /\ kv' \in Seq(Token \cup {Unwritten}) /\ Len(kv') = Len(s.kv)
      /\ draftKv' \in Seq(Token \cup {Unwritten})
  BY <1>1, <1>2, AbandonFacts
<1>5. TypeOK'
  BY <1>1, <1>2, <1>4 DEF TypeOK, Broken
<1>6. ContextFits'
  BY <1>1, <1>2, <1>3, <1>4 DEF ContextFits
<1>7. PassShape' /\ Rows'
  BY <1>1, <1>2 DEF PassShape, Rows, Pending
<1>8. Heard' /\ PassIsPlain' /\ Unbroken'
  BY <1>1 DEF Heard, PassIsPlain, Unbroken, Pending
<1> QED
  BY <1>5, <1>6, <1>7, <1>8

LEMMA SubmitKeeps ==
  ASSUME IInv, NEW s, NEW root, Ready(s, root), Kept,
         NEW trie, Trie(trie), NEW full \in BOOLEAN, full => trie = {<<>>},
         Len(s.kv) < MaxContext,
         ~full => Len(s.kv) + Cardinality(trie) <= MaxContext,
         NEW g \in Seq(Token), Clean /\ options.grammar => g = s.gram,
         Clean => \A path \in trie : path # <<>> => Accepts(s.gram, path),
         NEW base, base = Len(s.kv), Submit(s, root, trie, full, base, g)
  PROVE  IInv'
<1> USE DEF IInv, Kept
<1> DEFINE out == PassOutputs(s, root, trie, base, g)
<1>1. /\ phase' \in {"ForwardPassPending", "Panicked"}
      /\ (\A path \in trie : path # <<>> => Accepts(g, path)) => phase' = "ForwardPassPending"
      /\ pass' = [root |-> root, trie |-> trie, out |-> out, full |-> full, norm |-> TRUE]
      /\ kv' = (IF full THEN Append(s.kv, root) ELSE s.kv)
      /\ draftKv' = (IF full THEN Followed(s.draftKv, <<root>>) ELSE s.draftKv)
      /\ ring' = (IF full THEN Rolled(s.ring, <<root>>) ELSE s.ring)
      /\ tokens' = s.tokens /\ gram' = g
  BY DEF Submit
<1>2. /\ s.tokens \in Seq(Token) /\ Len(s.tokens) = Len(s.kv) + 1 /\ Len(s.kv) \in Nat
      /\ s.ring \in Seq(Token) /\ s.kv \in Seq(Token \cup {Unwritten}) /\ s.kv \in Seq(Token)
      /\ s.gram \in Seq(Token) /\ s.draftKv \in Seq(Token \cup {Unwritten})
      /\ opened <= Len(s.tokens) /\ root \in Token /\ s.tokens = Append(s.kv, root)
      /\ speculator = "dflash" => s.draftKv = s.kv
      /\ s.ring = LastOf(s.kv, options.window)
  BY ReadyFacts DEF Ready, Formed
<1>3. options.window \in Nat /\ MaxContext \in Nat
  BY WindowType
<1>4. /\ pass'.root = root /\ pass'.trie = trie /\ pass'.out = out /\ pass'.full = full
      /\ out \in [trie -> Token]
  BY <1>1, PassOutputsType
<1> HIDE DEF out
<1>5. /\ Append(s.kv, root) = s.kv \o <<root>> /\ Append(s.kv, root) \in Seq(Token)
      /\ Len(Append(s.kv, root)) = Len(s.kv) + 1
      /\ <<root>> \in Seq(Token) /\ <<root>> \in Seq(Token \cup {Unwritten})
  <2>1. \A x \in Seq(Token) :
          /\ Append(x, root) \in Seq(Token) /\ Len(Append(x, root)) = Len(x) + 1
          /\ Append(x, root) = x \o <<root>>
    BY <1>2, AppendFacts
  <2>2. <<root>> \in Seq(Token) /\ <<root>> \in Seq(Token \cup {Unwritten})
    BY <1>2
  <2> QED
    BY <1>2, <2>1, <2>2
<1>6. /\ kv' \in Seq(Token) /\ kv' \in Seq(Token \cup {Unwritten})
      /\ Len(kv') = (IF full THEN Len(s.kv) + 1 ELSE Len(s.kv))
      /\ full => kv' = s.tokens
      /\ ~full => kv' = s.kv
  <2>1. kv' \in Seq(Token) /\ Len(kv') = (IF full THEN Len(s.kv) + 1 ELSE Len(s.kv))
        /\ (full => kv' = s.tokens) /\ (~full => kv' = s.kv)
    BY <1>1, <1>2, <1>5
  <2> QED
    BY <2>1, SeqMonotonic
<1>7. draftKv' \in Seq(Token \cup {Unwritten}) /\ (speculator = "dflash" => draftKv' = kv')
  BY <1>1, <1>2, <1>5, ConcatProperties DEF Followed
<1>8. ring' \in Seq(Token) /\ ring' = LastOf(kv', options.window)
  <2>1. CASE full
    <3>1. \A x \in Seq(Token) : LastOf(LastOf(x, options.window) \o <<root>>, options.window)
                                 = LastOf(x \o <<root>>, options.window)
      BY <1>3, <1>5, LastOfRolls
    <3>2. LastOf(LastOf(s.kv, options.window) \o <<root>>, options.window)
                                 = LastOf(s.kv \o <<root>>, options.window)
      BY <1>2, <3>1
    <3>3. ring' = LastOf(LastOf(s.kv, options.window) \o <<root>>, options.window)
      BY <1>1, <1>2, <2>1 DEF Rolled
    <3>4. kv' = s.kv \o <<root>>
      BY <1>1, <1>5, <2>1
    <3>5. ring' = LastOf(kv', options.window)
      BY <3>2, <3>3, <3>4
    <3> QED
      BY <3>5, <1>3, <1>6, LastOfFacts
  <2>2. CASE ~full
    BY <1>1, <1>2, <2>2
  <2> QED
    BY <2>1, <2>2
<1>9. TypeOK'
  <2>1. phase' = "ForwardPassPending" => <<>> \in pass'.trie
    BY <1>4 DEF Trie
  <2>2. phase' \in Broken \cup {"Closed", "Spoiled", "Seeded", "ForwardPassPending",
                              "Accepting", "Halted"}
        /\ phase' # "Accepting"
    BY <1>1 DEF Broken
  <2>3. pass'.root \in Token \cup {NoToken} /\ pass'.out \in [pass'.trie -> Token]
    BY <1>2, <1>4
  <2>4. tokens' \in Seq(Token) /\ gram' \in Seq(Token)
    BY <1>1, <1>2
  <2> QED
    BY <2>1, <2>2, <2>3, <2>4, <1>6, <1>7, <1>8 DEF TypeOK
<1>10. ContextFits'
  <2>1. Len(kv') <= MaxContext
    BY <1>2, <1>3, <1>6
  <2>2. ~full => Len(kv') + Cardinality(trie) <= MaxContext
    BY <1>6
  <2> QED
    BY <2>1, <2>2, <1>1, <1>4 DEF ContextFits
<1>11. PassShape'
  <2>1. pass' = [root |-> pass'.root, trie |-> pass'.trie, out |-> pass'.out,
                 full |-> pass'.full, norm |-> pass'.norm]
    BY <1>1
  <2>2. ~full => Len(kv') + Cardinality(trie) <= MaxContext
    BY <1>6
  <2> QED
    BY <2>1, <2>2, <1>1, <1>2, <1>4 DEF PassShape, Pending
<1>12. Rows'
  BY <1>1, <1>2, <1>4, <1>6, <1>7, <1>8 DEF Rows, Pending
<1>13. Heard'
  <2>1. Clean /\ options.grammar => g = s.gram
          /\ HasHeard(s.gram, SubSeq(s.tokens, opened + 1, Len(s.tokens)))
    BY DEF Ready, Formed
  <2>3. Clean' <=> Clean
    BY DEF Clean
  <2>4. Said' = SubSeq(s.tokens, opened + 1, Len(s.tokens)) /\ phase' # "Accepting"
    BY <1>1 DEF Said
  <2>5. Clean /\ options.grammar => HasHeard(gram, Said)'
    BY <2>1, <2>4, <1>1 DEF HasHeard, Ended
  <2> QED
    BY <2>3, <2>4, <2>5 DEF Heard
<1>14. PassIsPlain'
  <2>1. \A t : PlainNext(t)' = PlainNext(t)
    BY DEF PlainNext, NextToken, Sampled, Allowed, Admitted, LastOf
  <2>2. Clean' <=> Clean
    BY DEF Clean
  <2>3. ASSUME Clean, NEW path \in trie PROVE out[path] = PlainNext(s.tokens \o path)
    <3>1. trie \subseteq Seq(Token) /\ TypeOK
      BY DEF Trie
    <3>2. options.grammar => g = s.gram
      BY <2>3
    <3>3. \A q \in trie :
            PassOutputs(s, root, trie, base, g)[q] = PlainNext(s.tokens \o q)
      BY <2>3, <3>1, <3>2, PassSamplesPlain
    <3> QED
      BY <2>3, <3>3 DEF out
  <2>4. ASSUME Clean, NEW path \in trie PROVE pass'.out[path] = PlainNext(tokens' \o path)
    BY <2>3, <2>4, <1>1, <1>4
  <2> QED
    BY <2>1, <2>2, <2>4, <1>4 DEF PassIsPlain
<1>15. Unbroken'
  <2>1. \A path \in trie : path # <<>> /\ Clean => (Accepts(g, path) <=> Accepts(s.gram, path))
    BY DEF Accepts
  <2> QED
    BY <2>1, <1>1 DEF Unbroken, Clean
<1> QED
  BY <1>9, <1>10, <1>11, <1>12, <1>13, <1>14, <1>15

LEMMA BatchFacts ==
  ASSUME TypeOK, NEW s, Len(s.kv) \in Nat, Len(s.kv) < MaxContext, NEW schedule
  PROVE  LET batch == Batch(s, schedule)
         IN  batch \in Nat /\ 1 <= batch /\ Len(s.kv) + batch <= MaxContext
<1> DEFINE want == CASE speculator = "none"   -> 1
                     [] speculator = "dflash" -> TreeBudget
                     [] speculator = "lookup" -> IF schedule.paused THEN 1 ELSE DraftLen + 1
           room == MaxContext - Len(s.kv)
<1>1. /\ TreeBudget \in Nat /\ 1 <= TreeBudget /\ DraftLen \in Nat /\ MaxContext \in Nat
      /\ speculator \in {"none", "lookup", "dflash"}
  BY StreamAssumption DEF TypeOK
<1>2. want \in Nat /\ 1 <= want
  <2>1. CASE speculator = "none"
    BY <2>1
  <2>2. CASE speculator = "dflash"
    BY <2>2, <1>1
  <2>3. CASE speculator = "lookup"
    <3>1. want = IF schedule.paused THEN 1 ELSE DraftLen + 1
      BY <2>3
    <3> HIDE DEF want
    <3>2. CASE schedule.paused
      BY <3>1, <3>2
    <3>3. CASE ~schedule.paused
      BY <3>1, <3>3, <1>1
    <3> QED
      BY <3>2, <3>3
  <2> QED
    BY <1>1, <2>1, <2>2, <2>3
<1>3. room \in Nat /\ 1 <= room /\ Len(s.kv) + room = MaxContext
  BY <1>1
<1>4. Batch(s, schedule) = IF want < room THEN want ELSE room
  BY DEF Batch
<1> HIDE DEF want, room
<1>5. CASE want < room
  BY <1>2, <1>3, <1>4, <1>5
<1>6. CASE ~(want < room)
  BY <1>2, <1>3, <1>4, <1>6
<1> QED
  BY <1>5, <1>6

\* The prompt lookup proposes what followed the same tokens before.
LEMMA ProposeType ==
  ASSUME NEW history \in Seq(Token), NEW root
  PROVE  Propose(history, root) \in Seq(Token)
<1> DEFINE tail == LastOf(history, NGram - 1)
           ends == {e \in NGram .. Len(history) - 1 :
                      history[e] = root /\ SubSeq(history, e - NGram + 1, e - 1) = tail}
           found == CHOOSE e \in ends : \A f \in ends : f <= e
           upto == IF found + DraftLen < Len(history) THEN found + DraftLen ELSE Len(history)
<1>0. NGram \in Nat /\ 1 <= NGram /\ DraftLen \in Nat /\ Len(history) \in Nat
  BY StreamAssumption, LenProperties
<1>1. Propose(history, root) = IF ends = {} THEN <<>> ELSE SubSeq(history, found + 1, upto)
  BY DEF Propose
<1>2. ends \subseteq NGram .. Len(history) - 1
  OBVIOUS
<1> HIDE DEF tail, ends
<1>3. CASE ends = {}
  BY <1>1, <1>3, EmptySeq
<1>4. CASE ends # {}
  <2>1. ends \subseteq 0 .. Len(history)
    BY <1>0, <1>2
  <2>2. found \in ends
    BY <1>0, <1>4, <2>1, Greatest
  <2> HIDE DEF found
  <2>3. found \in Nat /\ 1 <= found /\ found <= Len(history)
    BY <1>0, <1>2, <2>2
  <2>4. upto \in Nat /\ upto <= Len(history)
    BY <1>0, <2>3
  <2> HIDE DEF upto
  <2>5. \A i \in found + 1 .. upto : i \in 1 .. Len(history)
    BY <1>0, <2>3, <2>4
  <2>6. \A i \in found + 1 .. upto : history[i] \in Token
    BY <2>5, ElementOfSeq
  <2>7. SubSeq(history, found + 1, upto) \in Seq(Token)
    BY <2>3, <2>4, <2>6, SubSeqProperties
  <2> QED
    BY <1>1, <1>4, <2>7
<1> QED
  BY <1>3, <1>4

\* The drafts that the pass is given fit its batch, and the grammar accepts
\* every one of them.
LEMMA DraftsFacts ==
  ASSUME NEW found \in Seq(Token), NEW batch \in Nat, 1 <= batch, NEW g
  PROVE  LET fit    == SubSeq(found, 1, IF Len(found) < batch - 1 THEN Len(found) ELSE batch - 1)
             legal  == {n \in 0 .. Len(fit) : \A i \in 1 .. n : Accepts(g, SubSeq(fit, 1, i))}
             drafts == SubSeq(fit, 1, CHOOSE n \in legal : \A m \in legal : m <= n)
         IN  /\ drafts \in Seq(Token) /\ Len(drafts) + 1 <= batch
             /\ \A path \in Chain(drafts) : path # <<>> => Accepts(g, path)
<1> DEFINE most == IF Len(found) < batch - 1 THEN Len(found) ELSE batch - 1
           fit == SubSeq(found, 1, most)
           legal == {n \in 0 .. Len(fit) : \A i \in 1 .. n : Accepts(g, SubSeq(fit, 1, i))}
           max == CHOOSE n \in legal : \A m \in legal : m <= n
           drafts == SubSeq(fit, 1, max)
<1>1. Len(found) \in Nat /\ most \in 0 .. Len(found) /\ most + 1 <= batch
  BY LenProperties
<1> HIDE DEF most
<1>2. fit \in Seq(Token) /\ Len(fit) = most
  BY <1>1, PrefixFacts
<1> HIDE DEF fit
<1>3. legal \subseteq 0 .. Len(fit) /\ legal # {} /\ Len(fit) \in Nat
  <2>1. Len(fit) \in Nat
    BY <1>1, <1>2
  <2>2. 0 \in legal
    BY <2>1
  <2> QED
    BY <2>1, <2>2
<1>4. \A n \in legal : \A i \in 1 .. n : Accepts(g, SubSeq(fit, 1, i))
  OBVIOUS
<1> HIDE DEF legal
<1>5. max \in legal /\ max \in 0 .. Len(fit)
  BY <1>3, Greatest
<1> HIDE DEF max
<1>6. drafts \in Seq(Token) /\ Len(drafts) = max
  BY <1>2, <1>5, PrefixFacts
<1>7. Len(drafts) + 1 <= batch
  BY <1>1, <1>2, <1>5, <1>6
<1>8. ASSUME NEW path \in Chain(drafts), path # <<>> PROVE Accepts(g, path)
  <2>1. PICK n \in 0 .. Len(drafts) : path = SubSeq(drafts, 1, n)
    BY DEF Chain, Above
  <2>2. path = SubSeq(fit, 1, n)
    BY <1>2, <1>5, <1>6, <2>1, PrefixOfPrefix
  <2>3. n \in 1 .. max
    <3>1. CASE n = 0
      BY <3>1, <2>1, <1>6, <1>8, SubSeqEmpty
    <3>2. CASE n # 0
      BY <3>2, <1>5, <1>6
    <3> QED
      BY <3>1, <3>2
  <2> QED
    BY <2>2, <2>3, <1>4, <1>5
<1> HIDE DEF drafts
<1>9. drafts \in Seq(Token) /\ Len(drafts) + 1 <= batch
             /\ \A path \in Chain(drafts) : path # <<>> => Accepts(g, path)
  BY <1>6, <1>7, <1>8
<1> QED
  BY <1>9 DEF drafts, max, legal, fit, most

\* A tree without the branches that the grammar rejects is a trie.
LEMMA FilteredFacts ==
  ASSUME NEW batch \in Nat, NEW tree \in Trees(batch), NEW g
  PROVE  LET trie == {path \in tree : \A up \in Above(path) : up # <<>> => Accepts(g, up)}
         IN  /\ Trie(trie) /\ Cardinality(trie) <= batch
             /\ \A path \in trie : path # <<>> => Accepts(g, path)
<1> DEFINE trie == {path \in tree : \A up \in Above(path) : up # <<>> => Accepts(g, up)}
<1>1. /\ <<>> \in tree /\ IsFiniteSet(tree) /\ Cardinality(tree) <= batch
      /\ \A path \in tree : Above(path) \subseteq tree
      /\ tree \subseteq UNION {[1 .. n -> Token] : n \in 0 .. batch - 1}
  BY DEF Trees
<1>2. tree \subseteq Seq(Token)
  <2>1. \A n \in 0 .. batch - 1 : n \in Nat
    OBVIOUS
  <2>2. \A n \in Nat : [1 .. n -> Token] \subseteq Seq(Token)
    OBVIOUS
  <2> QED
    BY <1>1, <2>1, <2>2
<1>3. trie \in SUBSET tree
  OBVIOUS
<1>4. IsFiniteSet(trie) /\ Cardinality(trie) <= batch
  <2>1. Cardinality(trie) \in Nat /\ Cardinality(tree) \in Nat /\ Cardinality(trie) <= Cardinality(tree)
        /\ IsFiniteSet(trie)
    BY <1>1, <1>3, FS_Subset, FS_CardinalityType
  <2> QED
    BY <1>1, <2>1
<1>5. <<>> \in trie
  BY <1>1, RootIsTrie
<1>6. ASSUME NEW path \in trie PROVE Above(path) \subseteq trie
  <2>1. path \in Seq(Token) /\ path \in tree
    BY <1>2
  <2>2. \A q \in Above(path) : Above(q) \subseteq Above(path)
    BY <2>1, AboveFacts
  <2> QED
    BY <1>1, <2>1, <2>2
<1>7. ASSUME NEW path \in trie, path # <<>> PROVE Accepts(g, path)
  <2>1. path \in Above(path)
    BY <1>2, AboveFacts
  <2> QED
    BY <2>1, <1>7
<1> QED
  BY <1>2, <1>3, <1>4, <1>5, <1>6, <1>7 DEF Trie

LEMMA AdvanceKeeps ==
  ASSUME IInv, NEW s, NEW root, Ready(s, root), NEW norm, NEW seen,
         Advance(s, root, norm, seen), Kept
  PROVE  IInv'
<1>0. TypeOK /\ s.gram \in Seq(Token) /\ Len(s.kv) \in Nat /\ s.kv \in Seq(Token)
      /\ s.tokens \in Seq(Token) /\ Len(s.tokens) = Len(s.kv) + 1 /\ MaxContext \in Nat
  BY ReadyFacts, WindowType DEF IInv, Ready, Formed
<1>1. CASE Halt(s)
  BY <1>1, HaltKeeps DEF Ready
<1>2. CASE Launch(s, root, norm, seen)
  <2> DEFINE base == Len(s.kv)
  <2> DEFINE schedule == IF speculator = "lookup" THEN Requested(s.drafting, seen) ELSE s.drafting
             batch == Batch(s, schedule)
  <2>1. Len(s.kv) < MaxContext
    BY <1>2 DEF Launch
  <2>2. batch \in Nat /\ 1 <= batch /\ Len(s.kv) + batch <= MaxContext
    <3> HIDE DEF schedule
    <3> QED
      BY <1>0, <2>1, BatchFacts
  <2>3. PlainPass(s, root, norm, batch) \/ TreePass(s, root, norm, batch) \/ ChainPass(s, root, batch)
    BY <1>2 DEF Launch
  <2> HIDE DEF batch, schedule
  <2>b. base = Len(s.kv)
    OBVIOUS
  <2>c. base \in Nat /\ base + batch <= MaxContext
    BY <1>0, <2>2
  <2> HIDE DEF base
  <2>4. CASE PlainPass(s, root, norm, batch)
    <3> DEFINE trie == {<<>>}  full == TRUE
    <3>1. Submit(s, root, trie, full, base, s.gram)
      BY <2>4, <2>b DEF PlainPass
    <3>2. Clean => \A path \in trie : path # <<>> => Accepts(s.gram, path)
      OBVIOUS
    <3>3. Trie(trie)
      BY RootIsTrie
    <3>4. full \in BOOLEAN /\ full /\ trie = {<<>>}
      OBVIOUS
    <3> HIDE DEF trie, full
    <3> QED
      BY <1>0, <2>1, <3>1, <3>2, <3>3, <3>4, <2>b, <2>c, SubmitKeeps
  <2>5. CASE TreePass(s, root, norm, batch)
    <3>1. PICK tree \in Trees(batch) :
            Submit(s, root, {path \in tree : \A up \in Above(path) : up # <<>> => Accepts(s.gram, up)},
                   FALSE, Len(s.draftKv), s.gram)
      BY <2>5 DEF TreePass
    <3> DEFINE trie == {path \in tree : \A up \in Above(path) : up # <<>> => Accepts(s.gram, up)}
    <3>2. /\ Trie(trie) /\ Cardinality(trie) <= batch
          /\ \A path \in trie : path # <<>> => Accepts(s.gram, path)
      BY <2>2, FilteredFacts
    <3>3. s.draftKv = s.kv
      BY <2>5 DEF TreePass, Ready, Formed
    <3>4. Submit(s, root, trie, FALSE, base, s.gram)
      BY <3>1, <3>3, <2>b
    <3> HIDE DEF trie
    <3>5. base + Cardinality(trie) <= MaxContext
      <4>1. Cardinality(trie) \in Nat
        BY <3>2, FS_CardinalityType DEF Trie
      <4> QED
        BY <1>0, <2>2, <2>c, <3>2, <4>1
    <3> QED
      BY <1>0, <2>1, <3>2, <3>4, <3>5, <2>b, <2>c, SubmitKeeps
  <2>6. CASE ChainPass(s, root, batch)
    <3> DEFINE found == Propose(SubSeq(s.tokens, 1, Len(s.tokens) - 1), root)
               fit == SubSeq(found, 1, IF Len(found) < batch - 1 THEN Len(found) ELSE batch - 1)
               legal == {n \in 0 .. Len(fit) : \A i \in 1 .. n : Accepts(s.gram, SubSeq(fit, 1, i))}
               drafts == SubSeq(fit, 1, CHOOSE n \in legal : \A m \in legal : m <= n)
    <3>1. Submit(s, root, Chain(drafts), drafts = <<>>, base, Accepted(s.gram, drafts))
      BY <2>6, <2>b DEF ChainPass
    <3>2. found \in Seq(Token)
      <4>1. Len(s.tokens) - 1 \in 0 .. Len(s.tokens)
        BY <1>0
      <4>2. SubSeq(s.tokens, 1, Len(s.tokens) - 1) \in Seq(Token)
        BY <1>0, <4>1, PrefixFacts
      <4> QED
        BY <4>2, ProposeType
    <3> HIDE DEF found
    <3>3. /\ drafts \in Seq(Token) /\ Len(drafts) + 1 <= batch
          /\ \A path \in Chain(drafts) : path # <<>> => Accepts(s.gram, path)
      BY <2>2, <3>2, DraftsFacts
    <3> HIDE DEF drafts
    <3>4. Trie(Chain(drafts)) /\ Cardinality(Chain(drafts)) = Len(drafts) + 1 /\ Len(drafts) \in Nat
      BY <3>3, ChainIsTrie, LenProperties
    <3>5. drafts = <<>> => Chain(drafts) = {<<>>}
      BY RootIsTrie DEF Chain
    <3>6. base + Cardinality(Chain(drafts)) <= MaxContext
      <4>1. Len(drafts) + 1 <= batch /\ batch \in Nat /\ MaxContext \in Nat
        BY <1>0, <2>2, <3>3
      <4>2. base + (Len(drafts) + 1) <= MaxContext
        BY <2>c, <3>4, <4>1
      <4> QED
        BY <3>4, <4>2
    <3>7. Accepted(s.gram, drafts) \in Seq(Token)
      BY <1>0, <3>3, ConcatProperties DEF Accepted
    <3>8. ~(Clean /\ options.grammar)
      BY <2>6 DEF ChainPass, Clean
    <3>9. (drafts = <<>>) \in BOOLEAN
      OBVIOUS
    <3> QED
      BY <1>0, <2>1, <3>1, <3>3, <3>4, <3>5, <3>6, <3>7, <3>8, <3>9, <2>b, <2>c, SubmitKeeps
  <2> QED
    BY <2>3, <2>4, <2>5, <2>6
<1> QED
  BY <1>1, <1>2 DEF Advance

-----------------------------------------------------------------------------
(* The walk down the trie.                                                  *)

\* The rows that an accepted path adds to the cache and the tokens that it
\* returns, up to any node on the way.
LEMMA PathFacts ==
  ASSUME NEW p, Trie(p.trie), p.out \in [p.trie -> Token], p.root \in Token
  PROVE  LET path == AcceptedPath(p.trie, p.out)
         IN  /\ path \in p.trie /\ path \in Seq(Token) /\ Len(path) \in Nat
             /\ Len(path) + 1 <= Cardinality(p.trie) /\ Cardinality(p.trie) \in Nat
             /\ Inputs(p) = Row(p.root, path) /\ Inputs(p) \in Seq(Token)
             /\ Len(Inputs(p)) = Len(path) + 1
             /\ p.out[path] \in Token
             /\ Outputs(p) = Append(path, p.out[path]) /\ Outputs(p) \in Seq(Token)
             /\ Len(Outputs(p)) = Len(path) + 1
             /\ Outputs(p)[Len(path) + 1] = p.out[path]
             /\ \A n \in 0 .. Len(path) :
                  LET q == SubSeq(path, 1, n)
                  IN  /\ q \in p.trie /\ q \in Seq(Token) /\ Len(q) = n
                      /\ SubSeq(Inputs(p), 1, n + 1) = Row(p.root, q)
                      /\ SubSeq(Outputs(p), 1, n) = q
                      /\ Outputs(p)[n + 1] = p.out[q]
<1> DEFINE trie == p.trie  out == p.out  root == p.root
           path == AcceptedPath(trie, out)
           inputs == Row(root, path)  outputs == Append(path, out[path])
<1>0. Trie(trie) /\ out \in [trie -> Token] /\ root \in Token
  OBVIOUS
<1>a. Inputs(p) = inputs /\ Outputs(p) = outputs
  BY DEF Inputs, Outputs
<1> HIDE DEF trie, out, root
<1>1. path \in trie /\ Follows(path, out)
  BY <1>0, AcceptedPathFacts
<1> HIDE DEF path
<1>2. path \in Seq(Token) /\ Above(path) \subseteq trie
  BY <1>0, <1>1 DEF Trie
<1>3. Len(path) \in Nat /\ Len(path) + 1 <= Cardinality(trie) /\ Cardinality(trie) \in Nat
  BY <1>0, <1>1, PathLength
<1>4. inputs \in Seq(Token) /\ Len(inputs) = Len(path) + 1
  BY <1>0, <1>2, RowFacts
<1>5. out[path] \in Token
  BY <1>0, <1>1
<1>6. /\ outputs \in Seq(Token) /\ Len(outputs) = Len(path) + 1
      /\ outputs[Len(path) + 1] = out[path]
      /\ \A i \in 1 .. Len(path) : outputs[i] = path[i]
      /\ \A n \in 0 .. Len(path) : SubSeq(outputs, 1, n) = SubSeq(path, 1, n)
  BY <1>2, <1>5, AppendFacts
<1> HIDE DEF inputs, outputs
<1>7. ASSUME NEW n \in 0 .. Len(path)
      PROVE  LET q == SubSeq(path, 1, n)
             IN  /\ q \in trie /\ q \in Seq(Token) /\ Len(q) = n
                 /\ SubSeq(inputs, 1, n + 1) = Row(root, q)
                 /\ SubSeq(outputs, 1, n) = q
                 /\ outputs[n + 1] = out[q]
  <2> DEFINE q == SubSeq(path, 1, n)
  <2>1. q \in trie
    BY <1>2 DEF Above
  <2>2. q \in Seq(Token) /\ Len(q) = n /\ SubSeq(path, 1, Len(path)) = path
    BY <1>2, PrefixFacts
  <2>3. SubSeq(inputs, 1, n + 1) = Row(root, q)
    BY <1>0, <1>2, RowPrefix DEF inputs
  <2>4. SubSeq(outputs, 1, n) = q
    BY <1>6
  <2>5. outputs[n + 1] = out[q]
    <3>1. CASE n = Len(path)
      <4>1. q = path
        BY <2>2, <3>1
      <4> QED
        BY <4>1, <3>1, <1>6
    <3>2. CASE n # Len(path)
      <4>1. n + 1 \in 1 .. Len(path) /\ n + 1 - 1 = n
        BY <1>3, <3>2
      <4>2. path[n + 1] = out[SubSeq(path, 1, n + 1 - 1)]
        BY <4>1, <1>1 DEF Follows
      <4>3. outputs[n + 1] = path[n + 1]
        BY <4>1, <1>6
      <4> QED
        BY <4>1, <4>2, <4>3
    <3> QED
      BY <3>1, <3>2
  <2> QED
    BY <2>1, <2>2, <2>3, <2>4, <2>5
<1>8. /\ path \in trie /\ path \in Seq(Token) /\ Len(path) \in Nat
      /\ Len(path) + 1 <= Cardinality(trie) /\ Cardinality(trie) \in Nat
      /\ Inputs(p) = Row(root, path) /\ Inputs(p) \in Seq(Token)
      /\ Len(Inputs(p)) = Len(path) + 1
      /\ out[path] \in Token
      /\ Outputs(p) = Append(path, out[path]) /\ Outputs(p) \in Seq(Token)
      /\ Len(Outputs(p)) = Len(path) + 1
      /\ Outputs(p)[Len(path) + 1] = out[path]
  BY <1>a, <1>1, <1>2, <1>3, <1>4, <1>5, <1>6 DEF inputs, outputs
<1>9. \A n \in 0 .. Len(path) :
        LET q == SubSeq(path, 1, n)
        IN  /\ q \in trie /\ q \in Seq(Token) /\ Len(q) = n
            /\ SubSeq(Inputs(p), 1, n + 1) = Row(root, q)
            /\ SubSeq(Outputs(p), 1, n) = q
            /\ Outputs(p)[n + 1] = out[q]
  BY <1>7, <1>a
<1> QED
  BY <1>8, <1>9 DEF path, trie, out, root

-----------------------------------------------------------------------------
(* The invariant is inductive: the start, and the streams that are opened.  *)

LEMMA InitKeeps ==
  ASSUME Init
  PROVE  IInv
<1> USE DEF Init
<1>1. pass.root = NoToken /\ pass.trie = {} /\ pass.out = <<>> /\ pass.full = TRUE
  OBVIOUS
<1>2. <<>> \in [{} -> Token]
  OBVIOUS
<1>3. \A S : <<>> \in Seq(S)
  BY EmptySeq
<1>4. Len(<<>>) = 0 /\ MaxContext \in Nat
  BY EmptySeq, StreamAssumption
<1>5. TypeOK
  BY <1>1, <1>2, <1>3, <1>4 DEF TypeOK
<1>6. ContextFits
  BY <1>4 DEF ContextFits
<1>7. PassShape
  BY <1>1 DEF PassShape, Pending
<1>8. Rows
  BY <1>4 DEF Rows, Pending
<1>9. Heard /\ PassIsPlain /\ Unbroken
  BY DEF Heard, PassIsPlain, Unbroken, Pending
<1> QED
  BY <1>5, <1>6, <1>7, <1>8, <1>9 DEF IInv

LEMMA OpenKeeps ==
  ASSUME IInv, Open
  PROVE  IInv'
<1> USE DEF IInv
<1>1. PICK n \in 1 .. MaxInput, o \in Options :
         /\ Len(tokens) + n <= MaxContext
         /\ \E input \in [1 .. n -> Token] :
              LET start == LastOf(tokens, o.window)
                  out   == Sampled(weights, kv \o input, LastOf(start \o input, o.window),
                                   Len(tokens) + n - 1, Allowed(o.grammar, <<>>))
              IN  /\ tokens' = tokens \o input
                  /\ kv' = kv \o input
                  /\ draftKv' = Followed(draftKv, input)
                  /\ ring' = LastOf(start \o input, o.window)
                  /\ pass' = [root |-> input[n], trie |-> {<<>>}, out |-> [p \in {<<>>} |-> out],
                              full |-> TRUE, norm |-> TRUE]
                  /\ opened' = Len(tokens) + n
         /\ options' = o
  BY DEF Open
<1>2. /\ phase = "Closed" /\ lastOutput' = NoToken /\ phase' = "ForwardPassPending"
      /\ gram' = <<>> /\ weights' = weights /\ speculator' = speculator /\ taken' = taken
  BY DEF Open, model
<1> DEFINE w == o.window  start == LastOf(tokens, w)
<1>3. PICK input \in [1 .. n -> Token] :
         /\ tokens' = tokens \o input
         /\ kv' = kv \o input
         /\ draftKv' = Followed(draftKv, input)
         /\ ring' = LastOf(start \o input, w)
         /\ pass' = [root |-> input[n], trie |-> {<<>>},
                     out |-> [p \in {<<>>} |->
                       Sampled(weights, kv \o input, LastOf(start \o input, w),
                               Len(tokens) + n - 1, Allowed(o.grammar, <<>>))],
                     full |-> TRUE, norm |-> TRUE]
         /\ opened' = Len(tokens) + n
  BY <1>1
<1> DEFINE out == Sampled(weights, kv \o input, LastOf(start \o input, w),
                          Len(tokens) + n - 1, Allowed(o.grammar, <<>>))
<1>4. /\ n \in Nat /\ 1 <= n /\ MaxContext \in Nat /\ w \in Nat /\ o.grammar \in BOOLEAN
      /\ tokens \in Seq(Token) /\ Len(tokens) \in Nat
  <2>1. tokens \in Seq(Token)
    BY DEF TypeOK
  <2>2. Len(tokens) \in Nat
    BY <2>1, LenProperties
  <2>3. o \in [window : Nat, grammar : BOOLEAN] /\ MaxContext \in Nat /\ MaxInput \in Nat
    BY StreamAssumption
  <2> QED
    BY <2>1, <2>2, <2>3
<1>5. input \in Seq(Token) /\ Len(input) = n /\ input[n] \in Token
  BY <1>4
<1>6. kv = tokens /\ (speculator = "dflash" => draftKv = kv)
  BY <1>1, <1>2, <1>4 DEF Rows
<1>7. /\ tokens' \in Seq(Token) /\ Len(tokens') = Len(tokens) + n
      /\ kv' = tokens'
  BY <1>3, <1>4, <1>5, <1>6, ConcatProperties
<1>8. draftKv' \in Seq(Token \cup {Unwritten}) /\ (speculator = "dflash" => draftKv' = kv')
  <2>1. input \in Seq(Token \cup {Unwritten}) /\ draftKv \in Seq(Token \cup {Unwritten})
    BY <1>5, SeqMonotonic DEF TypeOK
  <2> QED
    BY <2>1, <1>3, <1>6, ConcatProperties DEF Followed
<1>9. ring' = LastOf(kv', w) /\ ring' \in Seq(Token)
  <2>1. LastOf(start \o input, w) = LastOf(tokens \o input, w)
    BY <1>4, <1>5, LastOfRolls
  <2>2. LastOf(tokens', w) \in Seq(Token)
    BY <1>4, <1>7, LastOfFacts
  <2> QED
    BY <2>1, <2>2, <1>3, <1>6
<1>10. out \in Token
  BY SampledIsToken, AllowedIsToken
<1>11. /\ pass'.root = input[n] /\ pass'.trie = {<<>>} /\ pass'.full = TRUE
       /\ pass'.out = [p \in {<<>>} |-> out] /\ pass'.out[<<>>] = out
       /\ pass'.out \in [{<<>>} -> Token]
  BY <1>3, <1>10
<1>12. out = Sampled(weights, tokens', LastOf(tokens', w), Len(tokens') - 1,
                     Allowed(o.grammar, <<>>))
  <2>1. kv \o input = tokens' /\ LastOf(start \o input, w) = LastOf(tokens', w)
        /\ Len(tokens) + n - 1 = Len(tokens') - 1
    BY <1>3, <1>6, <1>7, <1>9
  <2> QED
    BY <2>1
<1> HIDE DEF out, start, w
<1>13. TypeOK'
  <2>1. tokens' \in Seq(Token) /\ kv' \in Seq(Token \cup {Unwritten}) /\ gram' \in Seq(Token)
    BY <1>2, <1>7, SeqMonotonic, EmptySeq
  <2>2. opened' \in 0 .. MaxContext + 1
    BY <1>1, <1>3, <1>4
  <2>3. taken' = 0
    BY <1>2 DEF TypeOK
  <2>4. weights' \in Weights /\ speculator' \in Speculators /\ options' \in Options
    BY <1>1, <1>2 DEF TypeOK
  <2> QED
    BY <2>1, <2>2, <2>3, <2>4, <1>2, <1>5, <1>8, <1>9, <1>11 DEF TypeOK
<1>14. ContextFits'
  BY <1>1, <1>2, <1>7, <1>11 DEF ContextFits
<1>15. PassShape'
  <2>1. pass' = [root |-> pass'.root, trie |-> pass'.trie, out |-> pass'.out,
                 full |-> pass'.full, norm |-> pass'.norm]
    BY <1>3
  <2> QED
    BY <2>1, <1>2, <1>5, <1>11, RootIsTrie DEF PassShape, Pending
<1>16. Rows'
  <2>1. opened' <= Len(tokens')
    BY <1>3, <1>4, <1>7
  <2>2. ring' = LastOf(kv', options'.window)
    BY <1>1, <1>9 DEF w
  <2> QED
    BY <2>1, <2>2, <1>2, <1>7, <1>8, <1>11 DEF Rows, Pending
<1>17. SubSeq(tokens', opened' + 1, Len(tokens')) = <<>>
  <2>1. opened' = Len(tokens') /\ Len(tokens') \in Nat
    BY <1>3, <1>4, <1>7
  <2> QED
    BY <2>1, SubSeqEmpty
<1>18. Heard'
  BY <1>2, <1>17 DEF Heard, Said, HasHeard
<1>19. PassIsPlain'
  <2>1. PlainNext(tokens)' = Sampled(weights, tokens', LastOf(tokens', w), Len(tokens') - 1,
                                      Allowed(o.grammar, <<>>))
    <3>1. PlainNext(tokens)' = NextToken(weights', options', tokens',
                                 SubSeq(tokens', opened' + 1, Len(tokens')))
      BY DEF PlainNext, NextToken, Sampled, Allowed, Admitted, LastOf
    <3>2. PlainNext(tokens)' = NextToken(weights, o, tokens', <<>>)
      BY <3>1, <1>1, <1>2, <1>17
    <3> QED
      BY <3>2 DEF NextToken, w
  <2>2. tokens' \o <<>> = tokens'
    BY <1>7, ConcatEmptySeq
  <2>3. ASSUME NEW path \in pass'.trie PROVE pass'.out[path] = PlainNext(tokens \o path)'
    <3>1. path = <<>> /\ pass'.out[path] = out
      BY <1>11, <2>3
    <3>2. PlainNext(tokens \o path)' = PlainNext(tokens)'
      BY <2>2, <3>1 DEF PlainNext, NextToken, Sampled, Allowed, Admitted, LastOf
    <3> QED
      BY <2>1, <3>1, <3>2, <1>12
  <2> QED
    BY <2>3 DEF PassIsPlain
<1>20. Unbroken'
  BY <1>2 DEF Unbroken
<1> QED
  BY <1>13, <1>14, <1>15, <1>16, <1>18, <1>19, <1>20

\* Plain decoding is about the transcript, the model and the options alone.
LEMMA PlainNextKept ==
  ASSUME UNCHANGED <<weights, options, opened>>
  PROVE  \A t : PlainNext(t)' = PlainNext(t)
BY DEF PlainNext, NextToken, Sampled, Allowed, Admitted, LastOf

LEMMA ContinueKeeps ==
  ASSUME IInv, Continue
  PROVE  IInv'
<1> USE DEF IInv
<1>1. /\ phase = "Closed" /\ tokens # <<>> /\ Len(tokens) <= MaxContext
      /\ phase' = "Seeded" /\ pass' = [pass EXCEPT !.root = lastOutput]
      /\ lastOutput' = NoToken /\ gram' = <<>>
      /\ UNCHANGED <<weights, speculator, tokens, kv, draftKv, taken>>
  BY DEF Continue, model
<1>2. PICK o \in Options :
        /\ options' = o /\ ring' = LastOf(tokens, o.window)
        /\ opened' = Len(tokens) + IF o.grammar /\ ~Admitted(<<lastOutput>>) THEN 1 ELSE 0
  BY DEF Continue
<1>3. o.window \in Nat /\ MaxContext \in Nat /\ tokens \in Seq(Token) /\ Len(tokens) \in Nat
  BY StreamAssumption, LenProperties DEF TypeOK
<1>4. kv = tokens /\ lastOutput \in Token /\ (speculator = "dflash" => draftKv = kv)
  BY <1>1, <1>3 DEF Rows
<1>5. /\ pass'.root = lastOutput /\ pass'.trie = pass.trie /\ pass'.out = pass.out
      /\ pass'.full = pass.full
      /\ pass' = [root |-> pass'.root, trie |-> pass'.trie, out |-> pass'.out,
                  full |-> pass'.full, norm |-> pass'.norm]
  <2>1. pass = [root |-> pass.root, trie |-> pass.trie, out |-> pass.out,
                full |-> pass.full, norm |-> pass.norm]
    BY DEF PassShape
  <2> QED
    BY <2>1, <1>1
<1>6. ring' \in Seq(Token) /\ gram' \in Seq(Token) /\ opened' \in 0 .. MaxContext + 1
  <2>1. ring' \in Seq(Token)
    BY <1>2, <1>3, LastOfFacts
  <2>2. gram' \in Seq(Token)
    BY <1>1, EmptySeq
  <2> QED
    BY <2>1, <2>2, <1>1, <1>2, <1>3
<1>7. TypeOK'
  BY <1>1, <1>2, <1>4, <1>5, <1>6 DEF TypeOK
<1>8. ContextFits' /\ PassShape'
  BY <1>1, <1>5 DEF ContextFits, PassShape, Pending
<1>9. Rows'
  <2>1. opened' = Len(tokens) + IF Refused(pass.root)' THEN 1 ELSE 0
    BY <1>2, <1>5 DEF Refused, Admitted
  <2> QED
    BY <2>1, <1>1, <1>2, <1>4, <1>5 DEF Rows, Pending
<1>10. Heard' /\ PassIsPlain' /\ Unbroken'
  BY <1>1 DEF Heard, PassIsPlain, Unbroken, Pending
<1> QED
  BY <1>7, <1>8, <1>9, <1>10

LEMMA BreakKeeps ==
  ASSUME IInv, NEW s, s.tokens \in Seq(Token), opened <= Len(s.tokens),
         NEW how \in {"Invalid", "Overrun"}, Break(s, how), Kept
  PROVE  IInv'
<1> USE DEF IInv, Kept, Break
<1>1. TypeOK'
  BY DEF TypeOK, Broken
<1>2. ContextFits' /\ PassShape' /\ Rows'
  BY DEF ContextFits, PassShape, Rows, Pending
<1>3. Heard' /\ PassIsPlain' /\ Unbroken'
  BY DEF Heard, PassIsPlain, Unbroken, Pending
<1> QED
  BY <1>1, <1>2, <1>3

-----------------------------------------------------------------------------
(* The calls of next().                                                     *)

\* Heard or rejected, the matcher is left with a sequence of tokens.
LEMMA HearingFacts ==
  ASSUME NEW g \in Seq(Token), NEW t \in Token
  PROVE  Hearing(g, t) \in Seq(Token)
<1>1. <<t>> \in Seq(Token)
  OBVIOUS
<1> QED
  BY <1>1, ConcatProperties DEF Hearing, Accepted

LEMMA SeededKeeps ==
  ASSUME IInv, GenerateSeeded
  PROVE  IInv'
<1> USE DEF IInv
<1> DEFINE root == pass.root
           seeded == Append(tokens, root)
           s == [Here EXCEPT !.tokens = seeded, !.gram = Hearing(@, root)]
<1>1. phase = "Seeded" /\ Advance(s, root, FALSE, seeded) /\ Kept
  BY DEF GenerateSeeded, model, Kept, Rows
<1>2. /\ root \in Token /\ kv = tokens /\ Len(tokens) <= MaxContext
      /\ gram = <<>> /\ opened = Len(tokens) + IF Refused(root) THEN 1 ELSE 0
      /\ ring = LastOf(kv, options.window)
      /\ (speculator = "dflash" => draftKv = kv)
  BY <1>1 DEF Rows
<1>3. /\ tokens \in Seq(Token) /\ Len(tokens) \in Nat /\ draftKv \in Seq(Token \cup {Unwritten})
      /\ gram \in Seq(Token)
  BY LenProperties DEF TypeOK
<1>4. /\ s.kv = kv /\ s.tokens = seeded /\ s.draftKv = draftKv /\ s.ring = ring
      /\ s.gram = Hearing(gram, root) /\ s.sent = Len(kv)
  BY DEF Here
<1> HIDE DEF s
<1>5. /\ Len(seeded) = Len(tokens) + 1 /\ seeded = tokens \o <<root>> /\ seeded \in Seq(Token)
      /\ <<root>> \in Seq(Token)
  BY <1>2, <1>3, AppendFacts
<1> HIDE DEF seeded, root
<1>6. opened <= Len(seeded)
  BY <1>2, <1>3, <1>5
<1>7. s.gram \in Seq(Token)
  BY <1>2, <1>3, <1>4, HearingFacts
<1>8. ASSUME options.grammar
      PROVE  HasHeard(s.gram, SubSeq(seeded, opened + 1, Len(seeded)))
  <2>1. <<>> \o <<root>> = <<root>>
    BY <1>5, ConcatEmptySeq
  <2>2. CASE Refused(root)
    <3>1. s.gram = <<>>
      BY <1>2, <1>4, <1>8, <2>1, <2>2 DEF Refused, Hearing, Accepts
    <3>2. opened + 1 \in Int /\ Len(seeded) \in Int /\ Len(seeded) < opened + 1
      BY <1>2, <1>3, <1>5, <2>2
    <3>3. SubSeq(seeded, opened + 1, Len(seeded)) = <<>>
      BY <3>2, SubSeqEmpty
    <3> QED
      BY <3>1, <3>3 DEF HasHeard
  <2>3. CASE ~Refused(root)
    <3>1. s.gram = <<root>>
      BY <1>2, <1>4, <1>8, <2>1, <2>3 DEF Refused, Hearing, Accepts, Accepted
    <3>2. opened = Len(tokens) /\ Len(tokens) \in 0 .. Len(tokens)
      BY <1>2, <1>3, <2>3
    <3>3. SubSeq(tokens \o <<root>>, Len(tokens) + 1, Len(tokens \o <<root>>))
            = SubSeq(tokens, Len(tokens) + 1, Len(tokens)) \o <<root>>
      BY <1>3, <1>5, <3>2, EndOfConcat
    <3>4. SubSeq(tokens, Len(tokens) + 1, Len(tokens)) = <<>>
      BY <1>3, SubSeqEmpty
    <3> QED
      BY <1>5, <2>1, <3>1, <3>2, <3>3, <3>4 DEF HasHeard
  <2> QED
    BY <2>2, <2>3
<1>9. Ready(s, root)
  BY <1>2, <1>3, <1>4, <1>6, <1>7, <1>8 DEF Ready, Formed, seeded
<1> QED
  BY <1>1, <1>9, AdvanceKeeps DEF root

LEMMA ChainedKeeps ==
  ASSUME IInv, GenerateChained
  PROVE  IInv'
<1> USE DEF IInv
<1> DEFINE root == pass.out[<<>>]
           s == [Here EXCEPT !.tokens = Append(@, root), !.gram = Hearing(@, root),
                             !.drafting = Schedule(Observed(@, 1, 1))]
<1>1. /\ phase = "ForwardPassPending" /\ pass.full /\ Kept
      /\ IF Accepts(gram, <<root>>) THEN Advance(s, root, TRUE, tokens)
         ELSE Halt(s) \/ Break(s, "Invalid")
  BY DEF GenerateChained, model, Kept, Rows
<1>2. /\ pass.trie = {<<>>} /\ kv = tokens /\ ring = LastOf(kv, options.window)
      /\ opened <= Len(tokens) /\ (speculator = "dflash" => draftKv = kv)
  BY <1>1 DEF Rows, PassShape, Pending
<1>3. /\ tokens \in Seq(Token) /\ Len(tokens) \in Nat /\ draftKv \in Seq(Token \cup {Unwritten})
      /\ gram \in Seq(Token) /\ opened \in Nat /\ root \in Token /\ Len(kv) <= MaxContext
  BY <1>2, LenProperties DEF TypeOK, ContextFits
<1>4. /\ s.kv = kv /\ s.tokens = Append(tokens, root) /\ s.draftKv = draftKv /\ s.ring = ring
      /\ s.gram = Hearing(gram, root) /\ s.sent = Len(kv)
  BY DEF Here
<1> HIDE DEF s, root
<1>5. /\ Append(tokens, root) \in Seq(Token) /\ Len(Append(tokens, root)) = Len(tokens) + 1
      /\ Append(tokens, root) = tokens \o <<root>> /\ <<root>> \in Seq(Token)
  BY <1>3, AppendFacts
<1>6. s.gram \in Seq(Token)
  BY <1>3, <1>4, HearingFacts
<1>7. Formed(s, root)
  BY <1>2, <1>3, <1>4, <1>5, <1>6 DEF Formed
<1>8. CASE Accepts(gram, <<root>>)
  <2>1. ASSUME Clean, options.grammar
        PROVE  HasHeard(s.gram, SubSeq(s.tokens, opened + 1, Len(s.tokens)))
    <3>1. Admitted(Append(gram, root))
      <4>1. gram \o <<root>> = Append(gram, root)
        BY <1>3, AppendFacts
      <4> QED
        BY <4>1, <1>8, <2>1 DEF Accepts
    <3>2. ~Ended(gram)
      BY <3>1, <1>3, <2>1 DEF Ended, Allowed
    <3>3. gram = Said
      BY <3>2, <1>1, <2>1 DEF Heard, HasHeard
    <3>4. opened \in 0 .. Len(tokens)
      BY <1>2, <1>3
    <3>5. SubSeq(tokens \o <<root>>, opened + 1, Len(tokens \o <<root>>)) = Said \o <<root>>
      <4>1. tokens \in Seq(Token) /\ <<root>> \in Seq(Token)
        BY <1>3, <1>5
      <4> QED
        BY <3>4, <4>1, EndOfConcat DEF Said
    <3>6. s.gram = gram \o <<root>>
      BY <1>4, <1>8, <2>1 DEF Hearing, Accepted
    <3> QED
      BY <3>3, <3>5, <3>6, <1>4, <1>5 DEF HasHeard
  <2>2. Ready(s, root)
    BY <1>7, <2>1 DEF Ready
  <2> QED
    BY <1>1, <1>8, <2>2, AdvanceKeeps
<1>9. CASE ~Accepts(gram, <<root>>)
  <2>1. s.tokens \in Seq(Token) /\ opened <= Len(s.tokens)
    BY <1>2, <1>3, <1>4, <1>5
  <2>2. CASE Halt(s)
    BY <1>1, <1>7, <2>2, HaltKeeps
  <2>3. CASE Break(s, "Invalid")
    BY <1>1, <2>1, <2>3, BreakKeeps
  <2> QED
    BY <1>1, <1>9, <2>2, <2>3
<1> QED
  BY <1>8, <1>9

\* The state of a drafted pass, by the rows it adds and the tokens it returns.
LEMMA DraftedFacts ==
  ASSUME IInv, Pending, ~pass.full
  PROVE  LET path == AcceptedPath(pass.trie, pass.out)
         IN  /\ Trie(pass.trie) /\ pass.root \in Token /\ pass.out \in [pass.trie -> Token]
             /\ kv \in Seq(Token) /\ Len(kv) \in Nat
             /\ tokens = Append(kv, pass.root) /\ tokens = kv \o <<pass.root>>
             /\ tokens \in Seq(Token) /\ Len(tokens) = Len(kv) + 1
             /\ ring = LastOf(kv, options.window)
             /\ Len(kv) + Cardinality(pass.trie) <= MaxContext
             /\ \A q \in Seq(Token) : kv \o Row(pass.root, q) = tokens \o q
<1>1. /\ Trie(pass.trie) /\ pass.root \in Token /\ pass.out \in [pass.trie -> Token]
      /\ kv \in Seq(Token) /\ tokens = Append(kv, pass.root)
      /\ ring = LastOf(kv, options.window)
      /\ Len(kv) + Cardinality(pass.trie) <= MaxContext
  BY DEF IInv, PassShape, Rows, TypeOK
<1>2. /\ tokens = kv \o <<pass.root>> /\ tokens \in Seq(Token) /\ Len(tokens) = Len(kv) + 1
      /\ <<pass.root>> \in Seq(Token) /\ Len(kv) \in Nat
  BY <1>1, AppendFacts, LenProperties
<1>3. \A q \in Seq(Token) : kv \o Row(pass.root, q) = tokens \o q
  BY <1>1, <1>2, ConcatAssociative DEF Row
<1> QED
  BY <1>1, <1>2, <1>3

LEMMA FinishKeeps ==
  ASSUME IInv, Pending, ~pass.full, NEW g \in Seq(Token),
         Clean /\ options.grammar => HasHeard(g, Said \o Outputs(pass)),
         NEW schedule, Finish(g, schedule), Kept
  PROVE  IInv'
<1> DEFINE path == AcceptedPath(pass.trie, pass.out)
           inputs == Inputs(pass)
           outputs == Outputs(pass)
           root == outputs[Len(outputs)]
           seen == tokens \o outputs
           s == [Here EXCEPT !.tokens = seen, !.kv = @ \o inputs,
                             !.draftKv = Followed(@, inputs), !.ring = Rolled(@, inputs),
                             !.gram = g, !.drafting = schedule]
<1>1. Advance(s, root, TRUE, seen)
  BY DEF Finish
<1>2. /\ Trie(pass.trie) /\ pass.root \in Token /\ pass.out \in [pass.trie -> Token]
      /\ kv \in Seq(Token) /\ Len(kv) \in Nat /\ tokens \in Seq(Token)
      /\ Len(tokens) = Len(kv) + 1 /\ ring = LastOf(kv, options.window)
      /\ Len(kv) + Cardinality(pass.trie) <= MaxContext
      /\ \A q \in Seq(Token) : kv \o Row(pass.root, q) = tokens \o q
  BY DraftedFacts
<1>3. /\ path \in Seq(Token) /\ Len(path) \in Nat
      /\ Len(path) + 1 <= Cardinality(pass.trie) /\ Cardinality(pass.trie) \in Nat
      /\ inputs = Row(pass.root, path) /\ inputs \in Seq(Token) /\ Len(inputs) = Len(path) + 1
      /\ pass.out[path] \in Token
      /\ outputs = Append(path, pass.out[path]) /\ outputs \in Seq(Token)
      /\ Len(outputs) = Len(path) + 1 /\ root = pass.out[path]
  BY <1>2, PathFacts
<1>4. /\ s.kv = kv \o inputs /\ s.tokens = seen /\ s.draftKv = Followed(draftKv, inputs)
      /\ s.ring = Rolled(ring, inputs) /\ s.gram = g /\ s.sent = Len(kv)
  BY DEF Here
<1> HIDE DEF s, path, inputs, outputs, root, seen
<1>5. /\ kv \o inputs \in Seq(Token) /\ Len(kv \o inputs) = Len(kv) + Len(inputs)
      /\ kv \o inputs = tokens \o path
      /\ Len(kv \o inputs) <= MaxContext
  <2>1. kv \o inputs \in Seq(Token) /\ Len(kv \o inputs) = Len(kv) + Len(inputs)
    <3>1. kv \in Seq(Token) /\ inputs \in Seq(Token)
      BY <1>2, <1>3
    <3> QED
      BY <3>1, ConcatProperties
  <2>2. kv \o inputs = tokens \o path
    BY <1>2, <1>3
  <2>3. /\ MaxContext \in Nat /\ Len(kv) \in Nat /\ Len(path) \in Nat
        /\ Len(inputs) = Len(path) + 1
        /\ Len(path) + 1 <= Cardinality(pass.trie) /\ Cardinality(pass.trie) \in Nat
        /\ Len(kv) + Cardinality(pass.trie) <= MaxContext
    BY <1>2, <1>3, StreamAssumption
  <2>4. Len(kv) + Len(inputs) <= MaxContext
    BY <2>3
  <2> QED
    BY <2>1, <2>2, <2>4
<1>6. seen = Append(kv \o inputs, root) /\ seen \in Seq(Token)
      /\ Len(seen) = Len(tokens) + Len(outputs)
  <2>1. outputs = path \o <<root>> /\ <<root>> \in Seq(Token)
    BY <1>3, AppendFacts
  <2>2. (tokens \o path) \o <<root>> = tokens \o (path \o <<root>>)
    <3>1. tokens \in Seq(Token) /\ path \in Seq(Token)
      BY <1>2, <1>3
    <3> QED
      BY <2>1, <3>1, ConcatAssociative
  <2>3. Append(kv \o inputs, root) = (kv \o inputs) \o <<root>>
    BY <1>3, <1>5, AppendFacts
  <2>4. seen \in Seq(Token) /\ Len(seen) = Len(tokens) + Len(outputs)
    <3>1. tokens \in Seq(Token) /\ outputs \in Seq(Token)
      BY <1>2, <1>3
    <3> QED
      BY <3>1, ConcatProperties DEF seen
  <2> QED
    BY <1>5, <2>1, <2>2, <2>3, <2>4 DEF seen
<1>7. /\ s.draftKv \in Seq(Token \cup {Unwritten})
      /\ speculator = "dflash" => s.draftKv = s.kv
  <2>1. /\ draftKv \in Seq(Token \cup {Unwritten}) /\ inputs \in Seq(Token \cup {Unwritten})
        /\ speculator = "dflash" => draftKv = kv
    BY <1>3, SeqMonotonic DEF IInv, TypeOK, Rows
  <2> QED
    BY <2>1, <1>4, ConcatProperties DEF Followed
<1>8. s.ring = LastOf(s.kv, options.window)
  <2>1. options.window \in Nat
    BY WindowType DEF IInv
  <2>2. LastOf(LastOf(kv, options.window) \o inputs, options.window)
          = LastOf(kv \o inputs, options.window)
    BY <1>2, <1>3, <2>1, LastOfRolls
  <2> QED
    BY <2>2, <1>2, <1>4 DEF Rolled
<1>9. opened \in 0 .. Len(tokens) /\ opened <= Len(seen)
  <2>1. opened <= Len(tokens) /\ opened \in Nat
    BY DEF IInv, Rows, TypeOK, Pending
  <2> QED
    BY <2>1, <1>2, <1>3, <1>6
<1>10. SubSeq(seen, opened + 1, Len(seen)) = Said \o outputs
  <2>1. tokens \in Seq(Token) /\ outputs \in Seq(Token) /\ opened \in 0 .. Len(tokens)
    BY <1>2, <1>3, <1>9
  <2> QED
    BY <2>1, EndOfConcat DEF Said, seen
<1>11. Ready(s, root)
  <2>1. Clean /\ options.grammar => HasHeard(s.gram, SubSeq(s.tokens, opened + 1, Len(s.tokens)))
    BY <1>4, <1>10 DEF outputs
  <2>2. root \in Token /\ s.kv \in Seq(Token) /\ Len(s.kv) <= MaxContext
        /\ s.tokens = Append(s.kv, root) /\ s.gram \in Seq(Token) /\ s.sent \in Nat
        /\ opened <= Len(s.tokens)
    BY <1>2, <1>3, <1>4, <1>5, <1>6, <1>9
  <2> QED
    BY <2>1, <2>2, <1>7, <1>8 DEF Ready, Formed
<1> QED
  BY <1>1, <1>11, AdvanceKeeps

LEMMA VerifiedKeeps ==
  ASSUME IInv, GenerateVerified
  PROVE  IInv'
<1> USE DEF IInv
<1> DEFINE path == AcceptedPath(pass.trie, pass.out)
           outputs == Outputs(pass)
           heard == IF Ended(gram) THEN gram ELSE Accepted(gram, outputs)
           schedule == Schedule(Observed(drafting, Cardinality(pass.trie), Len(outputs)))
<1>1. /\ phase = "ForwardPassPending" /\ ~pass.full
      /\ UNCHANGED <<weights, speculator, options, lastOutput, opened>>
      /\ \/ Break(Here, "Overrun") /\ taken' = 0
         \/ Break(Here, "Invalid") /\ taken' = 0
         \/ (Ended(gram) \/ Accepts(gram, outputs)) /\ Len(outputs) = 1
              /\ Finish(heard, schedule) /\ taken' = 0
         \/ /\ (Ended(gram) \/ Accepts(gram, outputs)) /\ Len(outputs) # 1
            /\ phase' = "Accepting" /\ taken' = 1 /\ gram' = heard
            /\ UNCHANGED <<tokens, kv, draftKv, pass, ring>>
  BY DEF GenerateVerified, model
<1> HIDE DEF schedule
<1>2. Pending
  BY <1>1 DEF Pending
<1>3. /\ Trie(pass.trie) /\ pass.root \in Token /\ pass.out \in [pass.trie -> Token]
      /\ tokens \in Seq(Token) /\ Len(tokens) \in Nat /\ gram \in Seq(Token)
      /\ opened <= Len(tokens) /\ opened \in Nat
  BY <1>1, <1>2, DraftedFacts, LenProperties DEF TypeOK, Rows
<1>4. outputs \in Seq(Token) /\ Len(outputs) = Len(path) + 1 /\ Len(path) \in Nat
  BY <1>3, PathFacts
<1> HIDE DEF outputs, path
<1>5. heard \in Seq(Token)
  BY <1>3, <1>4, ConcatProperties DEF Accepted
<1>6. ASSUME Clean, options.grammar, Ended(gram) \/ Accepts(gram, outputs)
      PROVE  HasHeard(heard, Said \o outputs)
  <2>1. HasHeard(gram, Said)
    BY <1>1, <1>6 DEF Heard
  <2>2. Said \in Seq(Token)
    BY <1>3, EndOfConcat DEF Said
  <2>3. CASE Ended(gram)
    <3>1. /\ Said \o outputs \in Seq(Token) /\ Len(Said \o outputs) = Len(Said) + Len(outputs)
          /\ Len(Said) \in Nat /\ Len(gram) \in Nat
      BY <1>3, <1>4, <2>2, ConcatProperties, LenProperties
    <3>2. Len(gram) <= Len(Said) /\ gram = SubSeq(Said, 1, Len(gram))
      BY <2>1, <2>2, <3>1, SubSeqFull DEF HasHeard
    <3>3. SubSeq(Said \o outputs, 1, Len(gram)) = SubSeq(Said, 1, Len(gram))
      BY <1>4, <2>2, <3>1, <3>2, PrefixOfConcat
    <3>4. Len(gram) <= Len(Said \o outputs)
      BY <1>4, <3>1, <3>2
    <3> QED
      BY <2>3, <3>2, <3>3, <3>4 DEF HasHeard
  <2>4. CASE ~Ended(gram)
    <3>1. gram = Said
      BY <2>1, <2>4 DEF HasHeard
    <3>2. heard = gram \o outputs
      BY <2>4, <1>6 DEF Accepted
    <3> QED
      BY <3>1, <3>2 DEF HasHeard
  <2> QED
    BY <2>3, <2>4
<1> HIDE DEF heard
<1>7. CASE (Break(Here, "Overrun") \/ Break(Here, "Invalid")) /\ taken' = 0
  <2>1. Here.tokens = tokens
    BY DEF Here
  <2>2. Here.tokens \in Seq(Token) /\ opened <= Len(Here.tokens)
    BY <1>3, <2>1
  <2>3. Kept
    BY <1>1, <1>7 DEF Kept, Rows
  <2> QED
    BY <1>7, <2>2, <2>3, BreakKeeps
<1>8. CASE (Ended(gram) \/ Accepts(gram, outputs)) /\ Finish(heard, schedule) /\ taken' = 0
  <2>1. Clean /\ options.grammar => HasHeard(heard, Said \o Outputs(pass))
    BY <1>6, <1>8 DEF outputs
  <2>2. Kept
    BY <1>1, <1>8 DEF Kept, Rows
  <2> QED
    BY <1>1, <1>2, <1>5, <1>8, <2>1, <2>2, FinishKeeps
<1>9. CASE /\ (Ended(gram) \/ Accepts(gram, outputs)) /\ Len(outputs) # 1
           /\ phase' = "Accepting" /\ taken' = 1 /\ gram' = heard
           /\ UNCHANGED <<tokens, kv, draftKv, pass, ring>>
  <2>1. Outputs(pass)' = outputs /\ taken' \in 1 .. Len(Outputs(pass)') - 1
    <3>1. Outputs(pass)' = outputs
      BY <1>9 DEF outputs
    <3>2. 1 \in 1 .. Len(outputs) - 1
      BY <1>4, <1>9
    <3> QED
      BY <3>1, <3>2, <1>9
  <2>2. TypeOK'
    BY <2>1, <1>1, <1>5, <1>9 DEF TypeOK
  <2>3. ContextFits' /\ PassShape' /\ Rows'
    BY <1>1, <1>9 DEF ContextFits, PassShape, Rows, Pending
  <2>4. Heard'
    <3>1. Clean /\ options.grammar => HasHeard(heard, Said \o outputs)
      BY <1>6, <1>9
    <3>2. Clean' = Clean /\ Said' = Said
      BY <1>1, <1>9 DEF Clean, Said
    <3>3. HasHeard(gram, Said \o Outputs(pass))' <=> HasHeard(heard, Said \o outputs)
      BY <1>1, <1>9, <2>1, <3>2 DEF HasHeard, Ended
    <3> QED
      BY <3>1, <3>2, <3>3, <1>1, <1>9 DEF Heard
  <2>5. PassIsPlain'
    <3>1. \A t : PlainNext(t)' = PlainNext(t)
      BY <1>1, PlainNextKept
    <3>2. Clean' = Clean
      BY <1>1 DEF Clean
    <3>3. Clean => \A q \in pass.trie : pass.out[q] = PlainNext(tokens \o q)
      BY <1>2 DEF PassIsPlain
    <3>4. \A q \in pass.trie : PlainNext(tokens \o q)' = PlainNext(tokens \o q)
      BY <1>1, <1>9 DEF PlainNext, NextToken, Sampled, Allowed, Admitted, LastOf
    <3> QED
      BY <3>2, <3>3, <3>4, <1>9 DEF PassIsPlain
  <2>6. Unbroken'
    BY <1>9 DEF Unbroken
  <2> QED
    BY <2>2, <2>3, <2>4, <2>5, <2>6
<1> QED
  BY <1>1, <1>7, <1>8, <1>9

LEMMA AcceptedKeeps ==
  ASSUME IInv, GenerateAccepted
  PROVE  IInv'
<1> USE DEF IInv
<1>1. /\ phase = "Accepting" /\ UNCHANGED <<weights, speculator, options, lastOutput, opened>>
      /\ \/ /\ MoreAccepted /\ taken' = taken + 1
            /\ UNCHANGED <<phase, tokens, kv, draftKv, pass, ring, gram, drafting>>
         \/ taken' = 0 /\ Finish(gram, drafting)
  BY DEF GenerateAccepted, model
<1>2. Pending /\ ~pass.full
  BY <1>1 DEF Pending, PassShape
<1>3. CASE taken' = 0 /\ Finish(gram, drafting)
  <2>1. Clean /\ options.grammar => HasHeard(gram, Said \o Outputs(pass))
    BY <1>1 DEF Heard
  <2>2. Kept /\ gram \in Seq(Token)
    BY <1>1, <1>3 DEF Kept, TypeOK, Rows
  <2> QED
    BY <1>2, <1>3, <2>1, <2>2, FinishKeeps
<1>4. CASE /\ MoreAccepted /\ taken' = taken + 1
           /\ UNCHANGED <<phase, tokens, kv, draftKv, pass, ring, gram, drafting>>
  <2>1. Trie(pass.trie) /\ pass.root \in Token /\ pass.out \in [pass.trie -> Token]
    BY <1>2, DraftedFacts
  <2>2. Len(Outputs(pass)) \in Nat
    BY <2>1, PathFacts
  <2>3. taken \in 1 .. Len(Outputs(pass)) - 1 /\ taken < Len(Outputs(pass)) - 1
    BY <1>1, <1>4 DEF TypeOK, MoreAccepted
  <2>4. taken' \in 1 .. Len(Outputs(pass)) - 1
    BY <1>4, <2>2, <2>3
  <2>5. Outputs(pass)' = Outputs(pass)
    BY <1>4
  <2>6. TypeOK'
    BY <1>1, <1>4, <2>4, <2>5 DEF TypeOK
  <2>7. ContextFits' /\ PassShape' /\ Rows'
    BY <1>1, <1>4 DEF ContextFits, PassShape, Rows, Pending
  <2>8. Heard'
    BY <1>1, <1>4, <2>5 DEF Heard, Clean, HasHeard, Said, Ended
  <2>9. PassIsPlain' /\ Unbroken'
    <3>1. \A q \in pass.trie : PlainNext(tokens \o q)' = PlainNext(tokens \o q)
      BY <1>1, <1>4 DEF PlainNext, NextToken, Sampled, Allowed, Admitted, LastOf
    <3>2. Clean' = Clean /\ Pending' = Pending
      BY <1>1, <1>4 DEF Clean, Pending
    <3>3. PassIsPlain'
      BY <1>1, <1>4, <3>1, <3>2 DEF PassIsPlain
    <3> QED
      BY <1>1, <1>4, <3>3 DEF Unbroken
  <2> QED
    BY <2>6, <2>7, <2>8, <2>9
<1> QED
  BY <1>1, <1>3, <1>4

-----------------------------------------------------------------------------
(* Dropped streams.                                                         *)

\* What a dropped stream leaves: the tokens that it returned, their rows, and
\* the token that comes after them.
LEMMA DropLeaves ==
  ASSUME IInv, Drop, phase \notin Broken
  PROVE  /\ phase' = "Closed" /\ taken' = 0 /\ phase \notin {"Closed", "Spoiled"}
         /\ UNCHANGED <<weights, speculator, options, pass, ring, gram, drafting, opened>>
         /\ tokens' = tokens \o Returned /\ tokens' \in Seq(Token)
         /\ Len(tokens') \in Nat /\ Len(tokens) <= Len(tokens')
         /\ kv' \in Seq(Token \cup {Unwritten}) /\ draftKv' \in Seq(Token \cup {Unwritten})
         /\ Len(kv') <= MaxContext
         /\ speculator = "dflash" => draftKv' = kv'
         /\ phase = "Halted" => Len(tokens') > MaxContext /\ lastOutput' = NoToken
         /\ phase # "Halted" => /\ kv' = tokens' /\ lastOutput' \in Token
                                /\ phase = "Seeded" => lastOutput' = pass.root
                                /\ phase # "Seeded" /\ Clean => lastOutput' = PlainNext(tokens')
<1> USE DEF IInv
<1> DEFINE inputs == CASE phase = "Accepting" -> SubSeq(Inputs(pass), 1, taken + 1)
                       [] phase = "ForwardPassPending" /\ ~pass.full -> <<pass.root>>
                       [] OTHER -> <<>>
           next == CASE phase = "Seeded" -> pass.root
                     [] phase = "ForwardPassPending" -> pass.out[<<>>]
                     [] phase = "Accepting" -> Outputs(pass)[taken + 1]
                     [] OTHER -> NoToken
<1>1. /\ phase' = "Closed" /\ taken' = 0 /\ phase \notin {"Closed", "Spoiled"}
      /\ UNCHANGED <<weights, speculator, options, pass, ring, gram, drafting, opened>>
      /\ kv' = kv \o inputs /\ draftKv' = Followed(draftKv, inputs)
      /\ tokens' = tokens \o Returned /\ lastOutput' = next
  BY DEF Drop, model, Returned
<1>2. /\ tokens \in Seq(Token) /\ kv \in Seq(Token \cup {Unwritten})
      /\ draftKv \in Seq(Token \cup {Unwritten}) /\ Len(tokens) \in Nat /\ Len(kv) \in Nat
      /\ MaxContext \in Nat /\ Len(kv) <= MaxContext
      /\ speculator = "dflash" => draftKv = kv
  BY StreamAssumption, LenProperties DEF TypeOK, ContextFits, Rows
\* What is left to show, phase by phase.
<1>3. ASSUME inputs \in Seq(Token), Returned \in Seq(Token),
             Len(kv) + Len(inputs) <= MaxContext
      PROVE  /\ tokens' \in Seq(Token) /\ Len(tokens') \in Nat /\ Len(tokens) <= Len(tokens')
             /\ Len(tokens') = Len(tokens) + Len(Returned)
             /\ kv' \in Seq(Token \cup {Unwritten}) /\ draftKv' \in Seq(Token \cup {Unwritten})
             /\ Len(kv') <= MaxContext
             /\ speculator = "dflash" => draftKv' = kv'
  <2> HIDE DEF inputs, next
  <2>1. /\ inputs \in Seq(Token \cup {Unwritten}) /\ Len(inputs) \in Nat /\ Len(Returned) \in Nat
    BY <1>3, SeqMonotonic, LenProperties
  <2>2. /\ kv' \in Seq(Token \cup {Unwritten}) /\ Len(kv') = Len(kv) + Len(inputs)
        /\ draftKv' \in Seq(Token \cup {Unwritten})
        /\ speculator = "dflash" => draftKv' = kv'
    BY <1>1, <1>2, <2>1, ConcatProperties DEF Followed
  <2>3. tokens' \in Seq(Token) /\ Len(tokens') = Len(tokens) + Len(Returned)
    BY <1>1, <1>2, <1>3, ConcatProperties
  <2> QED
    BY <2>1, <2>2, <2>3, <1>2, <1>3
<1>4. <<>> \in Seq(Token) /\ Len(<<>>) = 0
  BY EmptySeq
<1>5. tokens \o <<>> = tokens /\ kv \o <<>> = kv
  BY <1>2, ConcatEmptySeq
<1>6. Clean /\ Pending => \A path \in pass.trie : pass.out[path] = PlainNext(tokens \o path)
  BY DEF PassIsPlain
<1>7. CASE phase = "Accepting"
  <2> DEFINE path == AcceptedPath(pass.trie, pass.out)
             q == SubSeq(path, 1, taken)
  <2>1. Pending /\ ~pass.full /\ taken \in 1 .. Len(Outputs(pass)) - 1
    BY <1>7 DEF Pending, PassShape, TypeOK
  <2>2. /\ Trie(pass.trie) /\ pass.root \in Token /\ pass.out \in [pass.trie -> Token]
        /\ Len(kv) + Cardinality(pass.trie) <= MaxContext
        /\ \A x \in Seq(Token) : kv \o Row(pass.root, x) = tokens \o x
    BY <2>1, DraftedFacts
  <2>3. /\ path \in Seq(Token) /\ Len(path) \in Nat
        /\ Len(path) + 1 <= Cardinality(pass.trie) /\ Cardinality(pass.trie) \in Nat
        /\ Len(Outputs(pass)) = Len(path) + 1
        /\ \A n \in 0 .. Len(path) :
             /\ SubSeq(path, 1, n) \in pass.trie /\ SubSeq(path, 1, n) \in Seq(Token)
             /\ Len(SubSeq(path, 1, n)) = n
             /\ SubSeq(Inputs(pass), 1, n + 1) = Row(pass.root, SubSeq(path, 1, n))
             /\ SubSeq(Outputs(pass), 1, n) = SubSeq(path, 1, n)
             /\ Outputs(pass)[n + 1] = pass.out[SubSeq(path, 1, n)]
    BY <2>2, PathFacts
  <2> HIDE DEF path
  <2>4. taken \in 0 .. Len(path) /\ taken \in Nat
    BY <2>1, <2>3
  <2>5. /\ q \in pass.trie /\ q \in Seq(Token) /\ Len(q) = taken
        /\ SubSeq(Inputs(pass), 1, taken + 1) = Row(pass.root, q)
        /\ SubSeq(Outputs(pass), 1, taken) = q
        /\ Outputs(pass)[taken + 1] = pass.out[q]
    BY <2>3, <2>4
  <2> HIDE DEF q
  <2>6. inputs = Row(pass.root, q) /\ Returned = q /\ next = pass.out[q]
    BY <1>7, <2>5 DEF Returned
  <2> HIDE DEF inputs, next
  <2>7. inputs \in Seq(Token) /\ Len(inputs) = taken + 1
    BY <2>2, <2>5, <2>6, RowFacts
  <2>8. Len(kv) + Len(inputs) <= MaxContext
    <3>1. Len(kv) + Cardinality(pass.trie) <= MaxContext
      BY <2>2
    <3>2. Len(path) + 1 <= Cardinality(pass.trie) /\ Cardinality(pass.trie) \in Nat
          /\ Len(path) \in Nat /\ taken <= Len(path)
      BY <2>3, <2>4
    <3> QED
      BY <3>1, <3>2, <2>4, <2>7, <1>2
  <2>9. kv' = tokens'
    BY <1>1, <2>2, <2>5, <2>6
  <2>10. lastOutput' \in Token /\ (Clean => lastOutput' = PlainNext(tokens'))
    BY <1>1, <1>6, <2>1, <2>2, <2>5, <2>6
  <2> QED
    BY <1>1, <1>3, <1>7, <2>5, <2>6, <2>7, <2>8, <2>9, <2>10
<1>8. CASE phase = "ForwardPassPending"
  <2>1. Pending /\ <<>> \in pass.trie /\ pass.root \in Token /\ pass.out \in [pass.trie -> Token]
    BY <1>8 DEF Pending, PassShape, TypeOK
  <2>2. Returned = <<>> /\ next = pass.out[<<>>]
    BY <1>8 DEF Returned
  <2>3. tokens' = tokens
    BY <1>1, <1>5, <2>2
  <2>4. /\ inputs = (IF pass.full THEN <<>> ELSE <<pass.root>>)
    BY <1>8
  <2> HIDE DEF inputs, next
  <2>5. /\ inputs \in Seq(Token) /\ kv \o inputs = tokens
        /\ Len(kv) + Len(inputs) <= MaxContext
    <3>1. CASE pass.full
      <4>1. inputs = <<>> /\ kv = tokens
        BY <2>1, <2>4, <3>1 DEF Rows
      <4> QED
        BY <4>1, <1>2, <1>4, <1>5
    <3>2. CASE ~pass.full
      <4>1. inputs = <<pass.root>> /\ inputs \in Seq(Token) /\ Len(inputs) = 1
        BY <2>1, <2>4, <3>2
      <4>2. tokens = kv \o <<pass.root>> /\ Len(kv) + Cardinality(pass.trie) <= MaxContext
            /\ Trie(pass.trie)
        BY <2>1, <3>2, DraftedFacts
      <4>3. Len(<<>>) + 1 <= Cardinality(pass.trie) /\ Cardinality(pass.trie) \in Nat
        BY <2>1, <4>2, PathLength
      <4>4. Len(kv) + 1 <= MaxContext
        BY <4>2, <4>3, <1>2, <1>4
      <4> QED
        BY <4>1, <4>2, <4>4
    <3> QED
      BY <3>1, <3>2
  <2>6. lastOutput' \in Token /\ (Clean => lastOutput' = PlainNext(tokens'))
    BY <1>1, <1>5, <1>6, <2>1, <2>2, <2>3
  <2> QED
    BY <1>1, <1>3, <1>4, <1>8, <2>2, <2>3, <2>5, <2>6
<1>9. CASE phase = "Seeded"
  <2>1. inputs = <<>> /\ Returned = <<>> /\ next = pass.root
    BY <1>9 DEF Returned
  <2>2. kv = tokens /\ pass.root \in Token
    BY <1>9 DEF Rows
  <2> HIDE DEF inputs, next
  <2>3. kv' = kv /\ tokens' = tokens /\ lastOutput' = pass.root
    BY <1>1, <1>5, <2>1
  <2>4. Len(kv) + Len(inputs) <= MaxContext
    BY <1>2, <1>4, <2>1
  <2> QED
    BY <1>1, <1>3, <1>4, <1>9, <2>1, <2>2, <2>3, <2>4
<1>10. CASE phase = "Halted"
  <2>1. inputs = <<>> /\ Returned = <<>> /\ next = NoToken
    BY <1>10 DEF Returned
  <2>2. Len(tokens) > MaxContext
    BY <1>2, <1>10 DEF ContextFits
  <2> HIDE DEF inputs, next
  <2>3. Len(kv) + Len(inputs) <= MaxContext
    BY <1>2, <1>4, <2>1
  <2>4. tokens' = tokens
    BY <1>1, <1>5, <2>1
  <2> QED
    BY <1>1, <1>3, <1>4, <1>10, <2>1, <2>2, <2>3, <2>4
<1>11. phase \in {"Accepting", "ForwardPassPending", "Seeded", "Halted"}
  BY <1>1 DEF TypeOK
<1> QED
  BY <1>7, <1>8, <1>9, <1>10, <1>11

\* A stream that broke leaves its state as it is, without a token to go on from.
LEMMA SpoilLeaves ==
  ASSUME IInv, Drop, phase \in Broken
  PROVE  /\ phase' = "Spoiled" /\ lastOutput' = NoToken /\ taken' = 0
         /\ UNCHANGED <<weights, speculator, options, tokens, kv, draftKv, pass, ring, gram,
                        drafting, opened>>
<1> USE DEF IInv
<1>1. phase \notin {"Accepting", "ForwardPassPending", "Seeded", "Closed", "Spoiled"}
  BY DEF Broken
<1>2. /\ phase' = "Spoiled" /\ lastOutput' = NoToken /\ taken' = 0
      /\ kv' = kv \o <<>> /\ draftKv' = Followed(draftKv, <<>>) /\ tokens' = tokens \o <<>>
      /\ UNCHANGED <<weights, speculator, options, pass, ring, gram, drafting, opened>>
  BY <1>1 DEF Drop, model
<1>3. tokens \o <<>> = tokens /\ kv \o <<>> = kv /\ Followed(draftKv, <<>>) = draftKv
  BY ConcatEmptySeq DEF TypeOK, Followed
<1> QED
  BY <1>2, <1>3

LEMMA SpoilKeeps ==
  ASSUME IInv, Drop, phase \in Broken
  PROVE  IInv'
<1> USE DEF IInv
<1>1. /\ phase' = "Spoiled" /\ lastOutput' = NoToken /\ taken' = 0
      /\ UNCHANGED <<weights, speculator, options, tokens, kv, draftKv, pass, ring, gram,
                     drafting, opened>>
  BY SpoilLeaves
<1>2. TypeOK'
  BY <1>1 DEF TypeOK
<1>3. ContextFits' /\ PassShape' /\ Rows'
  BY <1>1 DEF ContextFits, PassShape, Rows, Pending, Broken
<1>4. Heard' /\ PassIsPlain' /\ Unbroken'
  BY <1>1 DEF Heard, PassIsPlain, Unbroken, Pending
<1> QED
  BY <1>2, <1>3, <1>4

LEMMA DropKeeps ==
  ASSUME IInv, Drop, phase \notin Broken
  PROVE  IInv'
<1> USE DEF IInv
<1>1. /\ phase' = "Closed" /\ taken' = 0
      /\ UNCHANGED <<weights, speculator, options, pass, ring, gram, drafting, opened>>
      /\ tokens' \in Seq(Token)
      /\ Len(tokens') \in Nat /\ Len(tokens) <= Len(tokens')
      /\ kv' \in Seq(Token \cup {Unwritten}) /\ draftKv' \in Seq(Token \cup {Unwritten})
      /\ Len(kv') <= MaxContext
      /\ speculator = "dflash" => draftKv' = kv'
      /\ \/ Len(tokens') > MaxContext /\ lastOutput' = NoToken
         \/ kv' = tokens' /\ lastOutput' \in Token
  BY DropLeaves
<1>2. TypeOK'
  BY <1>1 DEF TypeOK
<1>3. ContextFits' /\ PassShape'
  BY <1>1 DEF ContextFits, PassShape, Pending
<1>4. Rows'
  BY <1>1 DEF Rows, Pending
<1>5. Heard' /\ PassIsPlain' /\ Unbroken'
  BY <1>1 DEF Heard, PassIsPlain, Unbroken, Pending
<1> QED
  BY <1>2, <1>3, <1>4, <1>5

LEMMA StutterKeeps ==
  ASSUME IInv, UNCHANGED vars
  PROVE  IInv'
<1> USE DEF IInv, vars
<1>1. TypeOK' /\ ContextFits' /\ PassShape' /\ Rows'
  BY DEF TypeOK, ContextFits, PassShape, Rows, Pending, Refused
<1>2. Heard' /\ Unbroken'
  BY DEF Heard, Unbroken, Clean, HasHeard, Said, Ended
<1>3. \A q : PlainNext(tokens \o q)' = PlainNext(tokens \o q)
  BY DEF PlainNext, NextToken, Sampled, Allowed, Admitted, LastOf
<1>4. Clean' = Clean /\ Pending' = Pending
  BY DEF Clean, Pending
<1>5. PassIsPlain'
  BY <1>3, <1>4 DEF PassIsPlain
<1> QED
  BY <1>1, <1>2, <1>5

LEMMA NextKeeps ==
  ASSUME IInv, [Next]_vars
  PROVE  IInv'
BY OpenKeeps, ContinueKeeps, SeededKeeps, ChainedKeeps, VerifiedKeeps, AcceptedKeeps, DropKeeps,
   SpoilKeeps, StutterKeeps DEF Next

\* The invariant holds of every reachable state: no call of next(), in any
\* DecodingState, and no drop of the stream between two of them leaves it.
THEOREM Inductive == Spec => []IInv
<1>1. Init => IInv
  BY InitKeeps
<1>2. IInv /\ [Next]_vars => IInv'
  BY NextKeeps
<1> QED
  BY <1>1, <1>2, PTL DEF Spec

\* Every state of a stream has the shape its types give it; above all a path
\* being accepted always has a returned and an unreturned token, which drop
\* asserts.
THEOREM TypeCorrect == Spec => []TypeOK
<1>1. IInv => TypeOK
  BY DEF IInv
<1> QED
  BY <1>1, Inductive, PTL

\* No pass has more rows than the context has left, whatever batch the
\* speculator asks for, and a stream halts exactly at the last token that the
\* context has room to sample (the clamp and the halt of generate()).
THEOREM FitsContext == Spec => []ContextFits
<1>1. IInv => ContextFits
  BY DEF IInv
<1> QED
  BY <1>1, Inductive, PTL

\* Streams that the code admits once a prompt lookup and a grammar exclude
\* each other.
LEMMA AlwaysOffered ==
  Spec => [](Offered(options))
<1>1. Init => Offered(options)
  BY DEF Init
<1>2. Offered(options) /\ [Next]_vars => Offered(options)'
  <2> SUFFICES ASSUME Offered(options), [Next]_vars PROVE Offered(options)'
    OBVIOUS
  <2>1. speculator' = speculator
    BY DEF Next, vars, model, Open, Continue, GenerateSeeded, GenerateChained, GenerateVerified,
           GenerateAccepted, Drop
  <2>2. options' = options \/ Offered(options')
    BY DEF Next, vars, model, Open, Continue, GenerateSeeded, GenerateChained, GenerateVerified,
           GenerateAccepted, Drop
  <2> QED
    BY <2>1, <2>2 DEF Offered
<1> QED
  BY <1>1, <1>2, PTL DEF Spec

LEMMA CleanOnes ==
  ASSUME LookupWithGrammar = FALSE, Offered(options)
  PROVE  Clean
BY DEF Offered, Clean

\* The invariant gives what the caches are promised.
LEMMA InStep ==
  ASSUME IInv, Clean
  PROVE  CachesInStep /\ TrieMatchesGrammar
<1> USE DEF IInv
<1>1. tokens \in Seq(Token) /\ Len(tokens) \in Nat /\ MaxContext \in Nat
  BY StreamAssumption, LenProperties DEF TypeOK
<1>2. ASSUME Pending, ~pass.full PROVE kv = SubSeq(tokens, 1, Len(tokens) - 1)
  <2>1. kv \in Seq(Token) /\ pass.root \in Token /\ tokens = Append(kv, pass.root)
        /\ Len(tokens) = Len(kv) + 1 /\ Len(kv) \in Nat
    BY <1>2, DraftedFacts
  <2>2. SubSeq(tokens, 1, Len(kv)) = SubSeq(kv, 1, Len(kv)) /\ SubSeq(kv, 1, Len(kv)) = kv
    BY <2>1, AppendFacts, SubSeqFull
  <2>3. Len(tokens) - 1 = Len(kv)
    BY <2>1
  <2> QED
    BY <2>2, <2>3
<1>3. ASSUME Pending
      PROVE  /\ kv = IF pass.full THEN tokens ELSE SubSeq(tokens, 1, Len(tokens) - 1)
             /\ ring = LastOf(kv, options.window)
  BY <1>2, <1>3 DEF Rows
<1>4. options.grammar /\ phase = "ForwardPassPending" => HasHeard(gram, Said)
  BY DEF Heard
<1>5. phase \in {"Closed", "Seeded"} => kv = tokens \/ Len(tokens) > MaxContext
  BY DEF Rows
<1>6. ASSUME phase = "Closed", Len(tokens) \in 1 .. MaxContext PROVE lastOutput # NoToken
  <2>1. tokens # <<>> /\ ~(Len(tokens) > MaxContext)
    BY <1>1, <1>6, EmptySeq
  <2> QED
    BY <1>6, <2>1, StreamAssumption DEF Rows
<1>7. speculator = "dflash" => draftKv = kv
  BY DEF Rows
<1>8. CachesInStep
  BY <1>3, <1>4, <1>5, <1>6, <1>7 DEF CachesInStep, Pending
<1> QED
  BY <1>8 DEF Unbroken, TrieMatchesGrammar

\* Tokens, transformer cache, draft cache, penalty ring and matcher stay in
\* step, and masks are built without a panic, in every stream that has not
\* both a prompt lookup and a grammar, whatever streams ran over its state
\* before (next() and drop of LanguageModelStream, fill_bitmasks).
THEOREM CleanStreamsStayInStep == Spec => [](Clean => CachesInStep /\ TrieMatchesGrammar)
<1>1. IInv => (Clean => CachesInStep /\ TrieMatchesGrammar)
  BY InStep
<1> QED
  BY <1>1, Inductive, PTL

\* Caches and host stay in step through chained and drafted passes, partly
\* returned paths and streams dropped at any point, if no stream has both a
\* prompt lookup and a grammar.
THEOREM CachesStayInStep ==
  ASSUME LookupWithGrammar = FALSE
  PROVE  Spec => []CachesInStep
<1>1. Offered(options) => Clean
  BY CleanOnes
<1> QED
  BY <1>1, CleanStreamsStayInStep, AlwaysOffered, PTL

\* With no grammar beside a prompt lookup, fill_bitmasks never meets a draft
\* that the matcher rejects (the expect of trie.rs:186).
THEOREM MasksNeverPanic ==
  ASSUME LookupWithGrammar = FALSE
  PROVE  Spec => []TrieMatchesGrammar
<1>1. Offered(options) => Clean
  BY CleanOnes
<1> QED
  BY <1>1, CleanStreamsStayInStep, AlwaysOffered, PTL

-----------------------------------------------------------------------------
(* A stream says what plain decoding says.                                  *)

Transcript == tokens \o Returned
IsOpen == phase \notin {"Closed", "Spoiled"}
KeptToken == IF phase = "Seeded" THEN pass.root ELSE lastOutput
ComingToken == IF KeptToken # NoToken THEN KeptToken ELSE PlainNext(Transcript)

LEMMA SamePlain ==
  /\ \A w, o, t, c : Plain!NextToken(w, o, t, c) = NextToken(w, o, t, c)
  /\ \A t : Plain!Admitted(t) = Admitted(t)
BY DEF Plain!NextToken, Plain!Sampled, Plain!Allowed, Plain!Admitted, Plain!LastOf,
       NextToken, Sampled, Allowed, Admitted, LastOf

LEMMA SameComing == Plain!Coming = ComingToken
BY SamePlain DEF Plain!Coming, ComingToken, KeptToken, PlainNext, Transcript

\* The caller is given the token that comes.
LEMMA EmitFacts ==
  ASSUME IsOpen, IsOpen', Len(Transcript) <= MaxContext,
         Transcript' = Append(Transcript, ComingToken), KeptToken' = NoToken,
         UNCHANGED <<weights, options, opened>>
  PROVE  Plain!Next
BY SameComing DEF Plain!Next, Plain!Emit, Transcript, IsOpen, KeptToken

\* One more token of plain decoding.
LEMMA GoesOn ==
  ASSUME IInv, phase \notin {"Seeded", "Closed", "Spoiled"},
         phase' \notin {"Seeded", "Closed", "Spoiled"}, Len(Transcript) <= MaxContext,
         Transcript' = Append(Transcript, PlainNext(Transcript)),
         UNCHANGED <<weights, options, opened, lastOutput>>
  PROVE  Plain!Next
<1>1. lastOutput = NoToken
  BY DEF IInv, Rows
<1>2. KeptToken = NoToken /\ KeptToken' = NoToken
  BY <1>1 DEF KeptToken
<1> QED
  BY <1>2, EmitFacts DEF ComingToken, IsOpen

LEMMA AdvanceSays ==
  ASSUME NEW s, NEW root, NEW norm, NEW seen, Advance(s, root, norm, seen)
  PROVE  tokens' = s.tokens /\ phase' \in {"Halted", "ForwardPassPending", "Panicked"}
BY DEF Advance, Halt, Launch, PlainPass, TreePass, ChainPass, Submit

\* Between calls that return part of a path the transcript is the state's.
LEMMA TranscriptIsTokens ==
  /\ IInv /\ phase # "Accepting" => Transcript = tokens
  /\ IInv' /\ phase' # "Accepting" => Transcript' = tokens'
BY ConcatEmptySeq DEF IInv, TypeOK, Transcript, Returned

LEMMA FinishSays ==
  ASSUME NEW g, NEW schedule, Finish(g, schedule)
  PROVE  /\ tokens' = tokens \o Outputs(pass)
         /\ phase' \in {"Halted", "ForwardPassPending", "Panicked"}
<1> DEFINE inputs == Inputs(pass)
           outputs == Outputs(pass)
           seen == tokens \o outputs
           s == [Here EXCEPT !.tokens = seen, !.kv = @ \o inputs,
                             !.draftKv = Followed(@, inputs), !.ring = Rolled(@, inputs),
                             !.gram = g, !.drafting = schedule]
<1>1. Advance(s, outputs[Len(outputs)], TRUE, seen)
  BY DEF Finish
<1>2. s.tokens = seen
  BY DEF Here
<1> HIDE DEF s
<1> QED
  BY <1>1, <1>2, AdvanceSays

LEMMA OpenSays ==
  ASSUME IInv, IInv', Open
  PROVE  Plain!Next
<1>1. PICK n \in 1 .. MaxInput, o \in Options :
         /\ Len(tokens) + n <= MaxContext
         /\ \E input \in [1 .. n -> Token] : tokens' = tokens \o input
         /\ opened' = Len(tokens) + n
         /\ options' = o
  BY DEF Open
<1>2. /\ phase = "Closed" /\ phase' = "ForwardPassPending" /\ weights' = weights
      /\ lastOutput' = NoToken
  BY DEF Open, model
<1>3. Transcript = tokens /\ Transcript' = tokens'
  BY <1>2, TranscriptIsTokens
<1>4. tokens \in Seq(Token) /\ Len(tokens) \in Nat /\ MaxContext \in Nat
  BY LenProperties, StreamAssumption DEF IInv, TypeOK
<1>5. PICK input \in [1 .. n -> Token] : tokens' = tokens \o input
  BY <1>1
<1>6. n \in 1 .. MaxContext
  BY <1>1, <1>4
<1>7. opened' = Len(tokens')
  <2>1. input \in Seq(Token) /\ Len(input) = n
    OBVIOUS
  <2> QED
    BY <2>1, <1>1, <1>4, <1>5, ConcatProperties
<1>8. Plain!Prompt
  BY <1>1, <1>2, <1>3, <1>5, <1>6, <1>7 DEF Plain!Prompt, Transcript
<1> QED
  BY <1>8 DEF Plain!Next

LEMMA ContinueSays ==
  ASSUME IInv, IInv', Continue
  PROVE  Plain!Next
<1>1. /\ phase = "Closed" /\ phase' = "Seeded" /\ tokens # <<>> /\ Len(tokens) <= MaxContext
      /\ pass' = [pass EXCEPT !.root = lastOutput]
      /\ UNCHANGED <<weights, tokens>>
  BY DEF Continue, model
<1>2. PICK o \in Options :
        /\ options' = o
        /\ opened' = Len(tokens) + IF o.grammar /\ ~Admitted(<<lastOutput>>) THEN 1 ELSE 0
  BY DEF Continue
<1>3. lastOutput \in Token
  <2>1. Len(tokens) \in Nat /\ MaxContext \in Nat
    BY StreamAssumption, LenProperties DEF IInv, TypeOK
  <2> QED
    BY <1>1, <2>1 DEF IInv, Rows
<1>4. Transcript = tokens /\ Transcript' = tokens
  BY <1>1, TranscriptIsTokens
<1>5. KeptToken = lastOutput /\ KeptToken' = lastOutput
  <2>1. pass'.root = lastOutput
    BY <1>1 DEF IInv, PassShape
  <2> QED
    BY <1>1, <2>1 DEF KeptToken
<1>6. Plain!Continue
  BY <1>1, <1>2, <1>3, <1>4, <1>5, SamePlain, StreamAssumption
     DEF Plain!Continue, Transcript, KeptToken
<1> QED
  BY <1>6 DEF Plain!Next

LEMMA SeededSays ==
  ASSUME IInv, IInv', GenerateSeeded
  PROVE  Plain!Next
<1> DEFINE s == [Here EXCEPT !.tokens = Append(tokens, pass.root), !.gram = Hearing(@, pass.root)]
<1>1. /\ phase = "Seeded" /\ Advance(s, pass.root, FALSE, Append(tokens, pass.root))
      /\ UNCHANGED <<weights, options, opened, lastOutput>>
  BY DEF GenerateSeeded, model
<1>2. s.tokens = Append(tokens, pass.root)
  BY DEF Here
<1> HIDE DEF s
<1>3. /\ tokens' = Append(tokens, pass.root)
      /\ phase' \in {"Halted", "ForwardPassPending", "Panicked"}
  BY <1>1, <1>2, AdvanceSays
<1>4. Transcript = tokens /\ Transcript' = tokens'
  BY <1>1, <1>3, TranscriptIsTokens
<1>5. pass.root \in Token /\ lastOutput = NoToken /\ Len(tokens) <= MaxContext
  BY <1>1 DEF IInv, Rows
<1>6. /\ ComingToken = pass.root /\ KeptToken' = NoToken
      /\ IsOpen /\ IsOpen'
  BY <1>1, <1>3, <1>5, StreamAssumption DEF ComingToken, KeptToken, IsOpen
<1> QED
  BY <1>1, <1>3, <1>4, <1>5, <1>6, EmitFacts

LEMMA ChainedSays ==
  ASSUME IInv, IInv', Clean, GenerateChained
  PROVE  Plain!Next
<1> DEFINE root == pass.out[<<>>]
           s == [Here EXCEPT !.tokens = Append(@, root), !.gram = Hearing(@, root),
                             !.drafting = Schedule(Observed(@, 1, 1))]
<1>1. /\ phase = "ForwardPassPending" /\ pass.full
      /\ Advance(s, root, TRUE, tokens) \/ Halt(s) \/ Break(s, "Invalid")
      /\ UNCHANGED <<weights, options, opened, lastOutput>>
  BY DEF GenerateChained, model
<1>2. s.tokens = Append(tokens, root)
  BY DEF Here
<1> HIDE DEF s
<1>3. /\ tokens' = Append(tokens, root)
      /\ phase' \in {"Halted", "ForwardPassPending", "Panicked", "Invalid"}
  BY <1>1, <1>2, AdvanceSays DEF Break, Halt
<1>4. Transcript = tokens /\ Transcript' = tokens'
  BY <1>1, <1>3, TranscriptIsTokens
<1>5. <<>> \in pass.trie /\ Pending /\ tokens \in Seq(Token) /\ Len(tokens) <= MaxContext
  BY <1>1 DEF IInv, TypeOK, Pending, Rows, ContextFits
<1>6. root = PlainNext(tokens \o <<>>) /\ tokens \o <<>> = tokens
  BY <1>5, ConcatEmptySeq DEF IInv, PassIsPlain
<1> QED
  BY <1>1, <1>3, <1>4, <1>5, <1>6, GoesOn

\* Every token of an accepted path is one of plain decoding.
LEMMA PathSays ==
  ASSUME IInv, Clean, Pending, ~pass.full,
         NEW n \in 0 .. Len(AcceptedPath(pass.trie, pass.out))
  PROVE  LET said == tokens \o SubSeq(Outputs(pass), 1, n)
         IN  /\ Len(said) <= MaxContext
             /\ tokens \o SubSeq(Outputs(pass), 1, n + 1) = Append(said, PlainNext(said))
<1> DEFINE path == AcceptedPath(pass.trie, pass.out)
           outputs == Outputs(pass)
           q == SubSeq(path, 1, n)
<1>1. /\ Trie(pass.trie) /\ pass.root \in Token /\ pass.out \in [pass.trie -> Token]
      /\ tokens \in Seq(Token) /\ Len(tokens) = Len(kv) + 1 /\ Len(kv) \in Nat
      /\ Len(kv) + Cardinality(pass.trie) <= MaxContext
  BY DraftedFacts
<1>2. /\ Len(path) \in Nat
      /\ Len(path) + 1 <= Cardinality(pass.trie) /\ Cardinality(pass.trie) \in Nat
      /\ outputs \in Seq(Token) /\ Len(outputs) = Len(path) + 1
      /\ \A k \in 0 .. Len(path) :
           LET r == SubSeq(path, 1, k)
           IN  /\ r \in pass.trie /\ r \in Seq(Token) /\ Len(r) = k
               /\ SubSeq(outputs, 1, k) = r
               /\ outputs[k + 1] = pass.out[r]
  BY <1>1, PathFacts
<1>3. /\ q \in pass.trie /\ q \in Seq(Token) /\ Len(q) = n
      /\ SubSeq(outputs, 1, n) = q /\ outputs[n + 1] = pass.out[q]
  BY <1>2
<1>4. n \in Nat /\ n <= Len(path) /\ n + 1 \in 1 .. Len(outputs) /\ 1 \in 1 .. Len(outputs)
      /\ n + 1 - 1 = n
  BY <1>2
<1> HIDE DEF path, outputs, q
<1>5. /\ tokens \o q \in Seq(Token) /\ Len(tokens \o q) = Len(tokens) + n
  BY <1>1, <1>3, ConcatProperties
<1>6. Len(tokens \o q) <= MaxContext
  <2>1. MaxContext \in Nat
    BY StreamAssumption
  <2> QED
    BY <2>1, <1>1, <1>2, <1>4, <1>5
<1>7. pass.out[q] = PlainNext(tokens \o q) /\ pass.out[q] \in Token
  BY <1>1, <1>3 DEF IInv, PassIsPlain
<1>8. SubSeq(outputs, 1, n + 1) = q \o <<pass.out[q]>>
  <2>1. SubSeq(outputs, 1, n + 1) = SubSeq(outputs, 1, n + 1 - 1) \o <<outputs[n + 1]>>
    BY <1>2, <1>4, SubSeqRecursiveSecond
  <2> QED
    BY <2>1, <1>3, <1>4
<1>9. tokens \o (q \o <<pass.out[q]>>) = Append(tokens \o q, pass.out[q])
  <2>1. <<pass.out[q]>> \in Seq(Token)
    BY <1>7
  <2>2. (tokens \o q) \o <<pass.out[q]>> = tokens \o (q \o <<pass.out[q]>>)
    BY <1>1, <1>3, <2>1, ConcatAssociative
  <2>3. Append(tokens \o q, pass.out[q]) = (tokens \o q) \o <<pass.out[q]>>
    BY <1>5, <1>7, AppendFacts
  <2> QED
    BY <2>2, <2>3
<1> QED
  BY <1>3, <1>6, <1>7, <1>8, <1>9 DEF outputs

LEMMA VerifiedSays ==
  ASSUME IInv, IInv', Clean, GenerateVerified
  PROVE  Plain!Next \/ UNCHANGED <<weights, Transcript, options, opened, IsOpen, KeptToken>>
<1> DEFINE path == AcceptedPath(pass.trie, pass.out)
           outputs == Outputs(pass)
<1>1. /\ phase = "ForwardPassPending" /\ ~pass.full
      /\ UNCHANGED <<weights, options, opened, lastOutput>>
      /\ \/ \E how \in {"Overrun", "Invalid"} : Break(Here, how)
         \/ Len(outputs) = 1 /\ \E g, schedule : Finish(g, schedule)
         \/ phase' = "Accepting" /\ taken' = 1 /\ UNCHANGED <<tokens, pass>>
  BY DEF GenerateVerified, model
<1>2. Pending
  BY <1>1 DEF Pending
<1>3. Transcript = tokens /\ tokens \in Seq(Token)
  BY <1>1, TranscriptIsTokens DEF IInv, TypeOK
<1>4. /\ outputs \in Seq(Token) /\ Len(outputs) = Len(path) + 1 /\ Len(path) \in Nat
      /\ 0 \in 0 .. Len(path)
  <2>1. Trie(pass.trie) /\ pass.root \in Token /\ pass.out \in [pass.trie -> Token]
    BY <1>1, <1>2, DraftedFacts
  <2> QED
    BY <2>1, PathFacts
<1>5. /\ Len(tokens) <= MaxContext
      /\ tokens \o SubSeq(outputs, 1, 1) = Append(tokens, PlainNext(tokens))
  <2>1. /\ Len(tokens \o SubSeq(outputs, 1, 0)) <= MaxContext
        /\ tokens \o SubSeq(outputs, 1, 0 + 1)
             = Append(tokens \o SubSeq(outputs, 1, 0), PlainNext(tokens \o SubSeq(outputs, 1, 0)))
    BY <1>1, <1>2, <1>4, PathSays
  <2>2. SubSeq(outputs, 1, 0) = <<>> /\ tokens \o <<>> = tokens /\ 0 + 1 = 1
    BY <1>3, SubSeqEmpty, ConcatEmptySeq
  <2> HIDE DEF outputs
  <2>3. tokens \o SubSeq(outputs, 1, 0) = tokens
    BY <2>2
  <2> QED
    BY <2>1, <2>2, <2>3
<1> HIDE DEF outputs, path
<1>6. ASSUME Transcript' = tokens \o SubSeq(outputs, 1, 1),
             phase' \notin {"Seeded", "Closed", "Spoiled"}
      PROVE  Plain!Next
  BY <1>1, <1>3, <1>5, <1>6, GoesOn
<1>7. ASSUME NEW how \in {"Overrun", "Invalid"}, Break(Here, how)
      PROVE  UNCHANGED <<Transcript, IsOpen, KeptToken>>
  <2>1. tokens' = tokens /\ phase' \in {"Overrun", "Invalid"}
    BY <1>7 DEF Break, Here
  <2>2. Transcript' = Transcript
    BY <2>1, <1>3, TranscriptIsTokens
  <2> QED
    BY <2>1, <2>2, <1>1 DEF IsOpen, KeptToken
<1>8. ASSUME Len(outputs) = 1, NEW g, NEW schedule, Finish(g, schedule)
      PROVE  Plain!Next
  <2>1. /\ tokens' = tokens \o outputs
        /\ phase' \in {"Halted", "ForwardPassPending", "Panicked"}
    BY <1>8, FinishSays DEF outputs
  <2>2. SubSeq(outputs, 1, 1) = outputs
    BY <1>4, <1>8, SubSeqFull
  <2> QED
    BY <2>1, <2>2, <1>6, TranscriptIsTokens
<1>9. ASSUME phase' = "Accepting", taken' = 1, UNCHANGED <<tokens, pass>>
      PROVE  Plain!Next
  <2>1. Transcript' = tokens \o SubSeq(outputs, 1, 1)
    BY <1>9 DEF Transcript, Returned, outputs
  <2> QED
    BY <2>1, <1>6, <1>9
<1> QED
  BY <1>1, <1>7, <1>8, <1>9

LEMMA AcceptedSays ==
  ASSUME IInv, IInv', Clean, GenerateAccepted
  PROVE  Plain!Next
<1> DEFINE path == AcceptedPath(pass.trie, pass.out)
           outputs == Outputs(pass)
<1>1. /\ phase = "Accepting" /\ UNCHANGED <<weights, options, opened, lastOutput>>
      /\ \/ MoreAccepted /\ taken' = taken + 1 /\ UNCHANGED <<phase, tokens, pass>>
         \/ ~MoreAccepted /\ Finish(gram, drafting)
  BY DEF GenerateAccepted, model
<1>2. Pending /\ ~pass.full /\ taken \in 1 .. Len(outputs) - 1
  BY <1>1 DEF Pending, IInv, PassShape, TypeOK
<1>3. outputs \in Seq(Token) /\ Len(outputs) = Len(path) + 1 /\ Len(path) \in Nat
  <2>1. Trie(pass.trie) /\ pass.root \in Token /\ pass.out \in [pass.trie -> Token]
    BY <1>2, DraftedFacts
  <2> QED
    BY <2>1, PathFacts
<1>4. taken \in 0 .. Len(path)
  BY <1>2, <1>3
<1>5. Transcript = tokens \o SubSeq(outputs, 1, taken)
  BY <1>1 DEF Transcript, Returned
<1>6. /\ Len(Transcript) <= MaxContext
      /\ tokens \o SubSeq(outputs, 1, taken + 1) = Append(Transcript, PlainNext(Transcript))
  BY <1>2, <1>4, <1>5, PathSays
<1> HIDE DEF outputs, path
<1>7. /\ Transcript' = tokens \o SubSeq(outputs, 1, taken + 1)
      /\ phase' \notin {"Seeded", "Closed", "Spoiled"}
  <2>1. CASE MoreAccepted /\ taken' = taken + 1 /\ UNCHANGED <<phase, tokens, pass>>
    BY <1>1, <2>1 DEF Transcript, Returned, outputs
  <2>2. CASE ~MoreAccepted /\ Finish(gram, drafting)
    <3>1. /\ tokens' = tokens \o outputs
          /\ phase' \in {"Halted", "ForwardPassPending", "Panicked"}
      BY <2>2, FinishSays DEF outputs
    <3>2. ~(taken < Len(outputs) - 1)
      BY <2>2 DEF MoreAccepted, outputs
    <3>3. taken + 1 = Len(outputs)
      BY <3>2, <1>2, <1>3
    <3>4. SubSeq(outputs, 1, taken + 1) = outputs
      BY <1>3, <3>3, SubSeqFull
    <3> QED
      BY <3>1, <3>4, TranscriptIsTokens
  <2> QED
    BY <1>1, <2>1, <2>2
<1> QED
  BY <1>1, <1>6, <1>7, GoesOn

\* A stream that stops keeps the token that was coming, or none.
LEMMA DropSays ==
  ASSUME IInv, IInv', Clean, Drop
  PROVE  Plain!Next
<1>1. /\ phase \notin {"Closed", "Spoiled"} /\ phase' \in {"Closed", "Spoiled"}
      /\ tokens' = Transcript /\ lastOutput' \in {ComingToken, NoToken}
      /\ UNCHANGED <<weights, options, opened>>
  <2>1. CASE phase \in Broken
    <3>1. /\ phase' = "Spoiled" /\ lastOutput' = NoToken
          /\ UNCHANGED <<weights, options, tokens, opened>>
      BY <2>1, SpoilLeaves
    <3>2. Transcript = tokens
      BY <2>1, TranscriptIsTokens DEF Broken
    <3> QED
      BY <2>1, <3>1, <3>2 DEF Broken
  <2>2. CASE phase \notin Broken
    <3>1. /\ phase \notin {"Closed", "Spoiled"} /\ phase' = "Closed" /\ tokens' = Transcript
          /\ UNCHANGED <<weights, options, opened>>
          /\ \/ lastOutput' = NoToken
             \/ phase = "Seeded" /\ lastOutput' = pass.root /\ lastOutput' \in Token
             \/ phase # "Seeded" /\ lastOutput' = PlainNext(Transcript)
      BY <2>2, DropLeaves DEF Transcript
    <3>2. lastOutput = NoToken
      BY <3>1 DEF IInv, Rows
    <3>3. ComingToken = IF phase = "Seeded" /\ pass.root # NoToken
                        THEN pass.root ELSE PlainNext(Transcript)
      BY <3>2 DEF ComingToken, KeptToken
    <3>4. lastOutput' \in {ComingToken, NoToken}
      BY <3>1, <3>3
    <3> QED
      BY <3>1, <3>4
  <2> QED
    BY <2>1, <2>2
<1>2. Transcript' = Transcript
  BY <1>1, TranscriptIsTokens
<1>3. KeptToken' = lastOutput' /\ IsOpen /\ ~IsOpen'
  BY <1>1 DEF KeptToken, IsOpen
<1>4. Plain!Stop
  BY <1>1, <1>2, <1>3, SameComing DEF Plain!Stop, Transcript, IsOpen, KeptToken
<1> QED
  BY <1>4 DEF Plain!Next

LEMMA StepSays ==
  ASSUME IInv, IInv', Clean, [Next]_vars
  PROVE  [Plain!Next]_(Plain!vars)
<1>1. UNCHANGED vars => UNCHANGED <<weights, Transcript, options, opened, IsOpen, KeptToken>>
  BY DEF vars, Transcript, Returned, Outputs, IsOpen, KeptToken
<1>2. Plain!Next \/ UNCHANGED <<weights, Transcript, options, opened, IsOpen, KeptToken>>
  BY <1>1, OpenSays, ContinueSays, SeededSays, ChainedSays, VerifiedSays, AcceptedSays, DropSays
     DEF Next
<1> QED
  BY <1>2 DEF Plain!vars, Transcript, IsOpen, KeptToken

\* Every call of next() returns the token that plain decoding gives for the
\* transcript so far under the options of its stream, or returns none; opening,
\* continuing and dropping streams change nothing else (prompt_lookup.rs:4,
\* "greedy output is token-identical to plain decoding").  The first token of a
\* stream without input is the one that the stream before has kept, under the
\* options of that stream, and whatever the new ones say of it (stream.rs:375).
THEOREM ImplementsPlainDecoding ==
  ASSUME LookupWithGrammar = FALSE
  PROVE  Spec => PlainSpec
<1>1. Init => Plain!Init
  <2> SUFFICES ASSUME Init PROVE Plain!Init
    OBVIOUS
  <2>1. /\ tokens = <<>> /\ phase = "Closed" /\ opened = 0 /\ options \in Options
        /\ lastOutput = NoToken
    BY DEF Init
  <2>2. tokens \o Returned = <<>>
    BY <2>1, InitKeeps, TranscriptIsTokens DEF Transcript
  <2> QED
    BY <2>1, <2>2 DEF Plain!Init
<1>2. IInv /\ IInv' /\ Offered(options) /\ [Next]_vars => [Plain!Next]_(Plain!vars)
  BY CleanOnes, StepSays
<1> QED
  BY <1>1, <1>2, Inductive, AlwaysOffered, PTL DEF Spec, PlainSpec, Plain!Spec
=============================================================================
