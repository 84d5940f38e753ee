----------------------------- MODULE Matcher_proofs -----------------------------
(***************************************************************************)
(* Theorems about Matcher, for any number of blocks, sizes of blocks,      *)
(* chunks and sums, and threads.  The lemmas follow the model: hashes, the *)
(* walk of a chain, taking a block out of it and putting one in, writes to *)
(* the temporary file, what is found at a window, the folds over it, the   *)
(* rolling of a checksum.  The invariant and its preservation, action by   *)
(* action, and the theorems of the specification come next, and last the   *)
(* windows tested, for what a scan misses.                                 *)
(***************************************************************************)
EXTENDS Matcher, Lemmas

-----------------------------------------------------------------------------
(* Constants and hashes. *)

LEMMA BlocksType == NBlocks \in Nat \ {0}
BY MatcherAssumption DEF MatcherAssumption

\* The numbers of a case.
LEMMA CaseFacts ==
    ASSUME case \in Cases
    PROVE  /\ BlockSize \in Nat \ {0} /\ Context \in Nat /\ BlockSize <= Context
           /\ case.seq \in {1, 2} /\ (case.seq > 1 => Context = 2 * BlockSize)
           /\ case.width \in Nat /\ case.blockshift \in Nat /\ case.length \in Nat
           /\ case.abits \in 0 .. case.width /\ case.bbits \in 0 .. case.width
           /\ case.bytes \subseteq Nat /\ 0 \in case.bytes
           /\ case.blocksize = 2 ^ case.blockshift /\ case.self \in BOOLEAN
<1>1. /\ case.blocksize = 2 ^ case.blockshift /\ case.seq \in {1, 2}
      /\ case.width \in Nat /\ case.blockshift \in Nat /\ case.length \in Nat
      /\ case.abits \in 0 .. case.width /\ case.bbits \in 0 .. case.width
      /\ case.bytes \subseteq Nat /\ 0 \in case.bytes /\ case.self \in BOOLEAN
  BY MatcherAssumption DEF MatcherAssumption
<1>2. case.blocksize \in Nat \ {0}
  BY <1>1, Power
<1>3. case.seq = 1 => case.blocksize * case.seq = case.blocksize
  BY <1>2
<1>4. case.seq = 2 => case.blocksize * case.seq = 2 * case.blocksize
  BY <1>2
<1> QED BY <1>1, <1>2, <1>3, <1>4 DEF BlockSize, Context

\* The sum of a finite set of numbers is one.
LEMMA SumType ==
    ASSUME NEW T, IsFiniteSet(T), T \subseteq Nat
    PROVE  SumSet(T) \in Nat
<1> DEFINE c == [s \in SUBSET T |-> CHOOSE e \in s : TRUE]
           f == [p \in Nat \X T |-> p[2] + p[1]]
           Loop(h) == [s \in SUBSET T |->
                          IF s = {} THEN 0
                          ELSE (CHOOSE e \in s : TRUE) + h[s \ {CHOOSE e \in s : TRUE}]]
           iter == CHOOSE h : h = Loop(h)
           G == {s \in SUBSET T : iter[s] \in Nat}
<1>1. ASSUME NEW s \in SUBSET T, s # {} PROVE (CHOOSE e \in s : TRUE) \in s
  BY <1>1
<1>2. f \in [Nat \X T -> Nat]
  <2>1. ASSUME NEW p \in Nat \X T PROVE p[2] + p[1] \in Nat
    <3>1. p[1] \in Nat /\ p[2] \in Nat
      OBVIOUS
    <3> QED BY <3>1
  <2> QED BY <2>1
<1>3. \E h : h = Loop(h)
  <2>1. PICK h \in [SUBSET T -> Nat] : SetSolves(h, T, 0, f, c)
    <3>1. \A s \in SUBSET T : s # {} => c[s] \in s
      BY <1>1
    <3> HIDE DEF c, f
    <3> QED BY <1>2, <3>1, SetFoldExists
  <2>2. ASSUME NEW s \in SUBSET T, s # {}
        PROVE  f[<<h[s \ {c[s]}], c[s]>>] = c[s] + h[s \ {c[s]}]
    <3>1. c[s] \in T /\ h[s \ {c[s]}] \in Nat
      BY <1>1, <2>2
    <3> HIDE DEF c
    <3> QED BY <3>1
  <2>3. \A s \in SUBSET T : c[s] = CHOOSE e \in s : TRUE
    OBVIOUS
  <2>4. \A s \in SUBSET T : h[s] = Loop(h)[s]
    <3> HIDE DEF c, f
    <3> QED BY <2>1, <2>2, <2>3 DEF SetSolves
  <2>5. h = Loop(h)
    BY <2>4
  <2> QED BY <2>5
<1>4. iter = Loop(iter)
  BY <1>3
<1>5. SumSet(T) = iter[T]
  BY DEF SumSet, FoldSet, MapThenFoldSet
<1> HIDE DEF iter
<1>6. {} \in G
  BY <1>4
<1>7. ASSUME NEW s \in SUBSET T, s # {}, \A e \in s : s \ {e} \in G PROVE s \in G
  <2>1. PICK d \in s : d = CHOOSE e \in s : TRUE
    BY <1>1, <1>7
  <2>2. iter[s] = d + iter[s \ {d}]
    BY <1>4, <1>7, <2>1
  <2> QED BY <1>7, <2>2
<1>8. T \in G
  <2> HIDE DEF G
  <2> QED BY <1>6, <1>7, FromEmptyOn
<1> QED BY <1>5, <1>8

\* A hash is a number.
LEMMA HashType ==
    ASSUME case \in Cases, NEW m \in Nat, NEW n \in Nat
    PROVE  Combine(m, n) \in Nat
<1> DEFINE K(a, b) == {k \in 0 .. 3 * case.width : Bit(a, k) # Bit(b, k)}
           T(a, b) == {2 ^ k : k \in K(a, b)}
<1>1. ASSUME NEW a, NEW b PROVE Xor(a, b) \in Nat
  <2>1. IsFiniteSet(K(a, b))
    <3>1. 0 \in Int /\ 3 * case.width \in Int
      BY CaseFacts
    <3>2. IsFiniteSet(0 .. 3 * case.width)
      BY <3>1, FS_Interval
    <3> QED BY <3>2, FS_Subset
  <2>2. T(a, b) \subseteq Nat
    <3>1. \A k \in K(a, b) : k \in Nat
      BY CaseFacts
    <3> HIDE DEF K
    <3> QED BY <3>1, Power
  <2>3. IsFiniteSet(T(a, b))
    <3> DEFINE g == [k \in K(a, b) |-> 2 ^ k]
    <3>1. g \in Surjection(K(a, b), T(a, b))
      BY DEF Surjection
    <3> HIDE DEF g, T, K
    <3> QED BY <2>1, <3>1, FS_Surjection
  <2> HIDE DEF T
  <2>4. SumSet(T(a, b)) \in Nat
    BY <2>2, <2>3, SumType
  <2> QED BY <2>4 DEF Xor, T
<1> QED BY <1>1 DEF Combine

\* The hash of a block has a bucket.
LEMMA HashFacts ==
    ASSUME case \in Cases, sums \in [Blocks -> [a : Nat, b : Nat]]
    PROVE  /\ HashBits \in Nat /\ \A h \in Nat : Bucket(h) \in Buckets
           /\ \A b \in Blocks : BlockHash(b) \in Nat /\ Bucket(BlockHash(b)) \in Buckets
<1>1. HashBits \in Nat
  <2> DEFINE Fits(k) == k <= MinHashBits \/ 2 ^ (k - 1) <= NBlocks
             Fitting == {k \in 0 .. AvailBits : Fits(k)}
  <2>1. AvailBits \in Nat
    BY CaseFacts DEF AvailBits, Least
  <2>2. 0 \in Fitting
    <3>1. 0 <= MinHashBits /\ 0 \in 0 .. AvailBits
      BY <2>1, MatcherAssumption DEF MatcherAssumption
    <3>2. Fits(0)
      BY <3>1, Zenon
    <3> HIDE DEF Fits
    <3> QED BY <3>1, <3>2
  <2>3. PICK k \in Fitting : \A m \in Fitting : m <= k
    <3>1. Fitting \in SUBSET (0 .. (AvailBits + 1) - 1) /\ AvailBits + 1 \in Nat
      BY <2>1
    <3> HIDE DEF Fitting
    <3> QED BY <2>2, <3>1, GreatestOf
  <2>4. \A m \in k + 1 .. AvailBits : m \notin Fitting
    <3>1. \A m \in k + 1 .. AvailBits : ~(m <= k)
      BY <2>1
    <3> HIDE DEF Fitting
    <3> QED BY <2>3, <3>1
  <2>5. \A m \in k + 1 .. AvailBits : m \in 0 .. AvailBits
    BY <2>1
  <2>6. k \in 0 .. AvailBits /\ Fits(k) /\ \A m \in k + 1 .. AvailBits : ~Fits(m)
    BY <2>3, <2>4, <2>5
  <2>7. \E j \in 0 .. AvailBits : Fits(j) /\ \A m \in j + 1 .. AvailBits : ~Fits(m)
    <3> HIDE DEF Fits
    <3> QED BY <2>6
  <2>8. HashBits \in 0 .. AvailBits
    BY <2>7 DEF HashBits
  <2> QED BY <2>1, <2>8
<1>2. PICK d \in Nat \ {0} : d = 2 ^ HashBits
  BY <1>1, Power
<1>3. \A h \in Nat : h % d \in 0 .. d - 1
  OBVIOUS
<1>4. \A h \in Nat : Bucket(h) \in Buckets
  BY <1>2, <1>3 DEF Bucket, Buckets
<1>5. ASSUME NEW b \in Blocks PROVE BlockHash(b) \in Nat
  <2>1. sums[b].a \in Nat /\ sums[b].b \in Nat /\ (b + 1 \in Blocks => sums[b + 1].b \in Nat)
    OBVIOUS
  <2>2. (IF case.seq = 1 THEN sums[b].a
         ELSE IF b + 1 \in Blocks THEN sums[b + 1].b ELSE 0) \in Nat
    BY <2>1
  <2> QED BY <2>1, <2>2, HashType DEF BlockHash
<1> QED BY <1>1, <1>4, <1>5

-----------------------------------------------------------------------------
(* Walks over a chain. *)

\* Induction down from n.
LEMMA FromTopDown ==
    ASSUME NEW n \in Nat, NEW S, n \in S,
           \A b \in 0 .. n - 1 : (\A c \in b + 1 .. n : c \in S) => b \in S
    PROVE  0 .. n \subseteq S
<1> DEFINE G == {k \in Nat : k <= n => \A c \in n - k .. n : c \in S}
<1>1. 0 \in G
  OBVIOUS
<1>2. ASSUME NEW k \in Nat, k \in G PROVE k + 1 \in G
  <2>1. SUFFICES ASSUME k + 1 <= n PROVE \A c \in n - (k + 1) .. n : c \in S
    OBVIOUS
  <2>2. PICK b \in 0 .. n - 1 : b = n - (k + 1)
    BY <2>1
  <2>3. \A c \in b + 1 .. n : c \in S
    BY <1>2, <2>1, <2>2
  <2>4. \A c \in n - (k + 1) .. n : c = b \/ c \in b + 1 .. n
    BY <2>2
  <2> QED BY <2>2, <2>3, <2>4
<1>3. n \in G
  <2> HIDE DEF G
  <2> QED BY <1>1, <1>2, FromZeroOn
<1> QED BY <1>3

\* The links of an index lead upwards, to the end of their chain.
IndexTyped(table) ==
    /\ table \in [head : [Buckets -> 0 .. NBlocks], next : [Blocks -> 0 .. NBlocks]]
    /\ \A b \in Blocks : b < table.next[b]

\* h has what the blocks from one of them on add, in the order of their links.
Walks(h, table, adds) ==
    \A b \in 0 .. NBlocks :
        h[b] = IF b = Empty THEN <<>> ELSE adds[b] \o h[table.next[b]]

\* A walk ends, for the links lead upwards: its recursion has a solution.
LEMMA WalkExists ==
    ASSUME NEW table, IndexTyped(table), NEW V, NEW adds \in [Blocks -> Seq(V)]
    PROVE  \E h \in [0 .. NBlocks -> Seq(V)] : Walks(h, table, adds)
<1> DEFINE Fits(h, k) == \A b \in NBlocks - k .. NBlocks :
                             h[b] = IF b = Empty THEN <<>> ELSE adds[b] \o h[table.next[b]]
           Exists(k) == \E h \in [NBlocks - k .. NBlocks -> Seq(V)] : Fits(h, k)
           G == {k \in Nat : k <= NBlocks => Exists(k)}
<1> USE MatcherAssumption DEF MatcherAssumption, Blocks, Empty
<1>0. \A b \in Blocks : table.next[b] \in 0 .. NBlocks /\ b < table.next[b]
  BY DEF IndexTyped
<1>1. Exists(0)
  <2> DEFINE h == [b \in NBlocks - 0 .. NBlocks |-> <<>>]
  <2>1. h \in [NBlocks - 0 .. NBlocks -> Seq(V)]
    OBVIOUS
  <2>2. Fits(h, 0)
    OBVIOUS
  <2> QED BY <2>1, <2>2
<1>2. ASSUME NEW k \in Nat, Exists(k), k + 1 <= NBlocks PROVE Exists(k + 1)
  <2>1. PICK g \in [NBlocks - k .. NBlocks -> Seq(V)] : Fits(g, k)
    BY <1>2
  <2>2. PICK top \in Blocks : top = NBlocks - (k + 1)
    BY <1>2
  <2>3. table.next[top] \in top + 1 .. NBlocks /\ top + 1 = NBlocks - k
    BY <2>2 DEF IndexTyped
  <2> DEFINE h == [b \in top .. NBlocks |-> IF b = top THEN adds[b] \o g[table.next[b]] ELSE g[b]]
  <2>4. \A b \in top .. NBlocks : b = top \/ b \in top + 1 .. NBlocks
    OBVIOUS
  <2>5. g[table.next[top]] \in Seq(V) /\ adds[top] \in Seq(V)
    BY <2>3
  <2>6. adds[top] \o g[table.next[top]] \in Seq(V)
    BY <2>5
  <2>7. h \in [top .. NBlocks -> Seq(V)]
    BY <2>3, <2>4, <2>6
  <2>8. \A b \in top + 1 .. NBlocks : h[b] = g[b]
    OBVIOUS
  <2>9. h[top] = adds[top] \o h[table.next[top]]
    <3>1. h[table.next[top]] = g[table.next[top]]
      BY <2>3, <2>8
    <3>2. top \in top .. NBlocks
      OBVIOUS
    <3>3. h[top] = adds[top] \o g[table.next[top]]
      BY <3>2
    <3> QED BY <3>1, <3>3
  <2>10. ASSUME NEW b \in top + 1 .. NBlocks
         PROVE  h[b] = IF b = Empty THEN <<>> ELSE adds[b] \o h[table.next[b]]
    <3>1. g[b] = IF b = Empty THEN <<>> ELSE adds[b] \o g[table.next[b]]
      BY <2>1, <2>3
    <3>2. ASSUME b # Empty PROVE table.next[b] \in top + 1 .. NBlocks
      <4>1. b \in Blocks /\ top < b
        BY <3>2
      <4> QED BY <1>0, <4>1
    <3>3. h[b] = g[b] /\ (b # Empty => h[table.next[b]] = g[table.next[b]])
      BY <2>8, <3>2
    <3> HIDE DEF h
    <3> QED BY <3>1, <3>3
  <2> HIDE DEF h
  <2>11. \A b \in top .. NBlocks :
             h[b] = IF b = Empty THEN <<>> ELSE adds[b] \o h[table.next[b]]
    <3>1. top # Empty
      OBVIOUS
    <3> QED BY <2>4, <2>9, <2>10, <3>1
  <2> QED BY <2>2, <2>7, <2>11
<1> HIDE DEF Exists
<1>3. 0 \in G /\ \A k \in Nat : k \in G => k + 1 \in G
  BY <1>1, <1>2
<1>4. NBlocks \in G
  <2> HIDE DEF G
  <2> QED BY <1>3, FromZeroOn
<1>5. Exists(NBlocks)
  BY <1>4
<1>6. NBlocks - NBlocks = 0
  OBVIOUS
<1> QED BY <1>5, <1>6 DEF Exists, Walks

\* h has at b what the blocks of the chain from b on add; ch has the chain.
Gathers(h, ch, adds, b) ==
    /\ \A i \in 1 .. Len(h[b]) :
           \E j \in 1 .. Len(ch[b]) : \E m \in 1 .. Len(adds[ch[b][j]]) :
               h[b][i] = adds[ch[b][j]][m]
    /\ \A j \in 1 .. Len(ch[b]) : \A m \in 1 .. Len(adds[ch[b][j]]) :
           \E i \in 1 .. Len(h[b]) : h[b][i] = adds[ch[b][j]][m]
    /\ h[b] # <<>> => \E j \in 1 .. Len(ch[b]) :
                         adds[ch[b][j]] # <<>> /\ h[b][1] = adds[ch[b][j]][1]

\* A walk adds what the blocks of the chain add, and nothing else, in order.
LEMMA WalkGathers ==
    ASSUME NEW table, IndexTyped(table), NEW V, NEW adds \in [Blocks -> Seq(V)],
           NEW h, Walks(h, table, adds),
           NEW ch, Walks(ch, table, [b \in Blocks |-> <<b>>]),
           NEW b \in 0 .. NBlocks
    PROVE  ch[b] \in Seq(Blocks) /\ h[b] \in Seq(V) /\ Gathers(h, ch, adds, b)
<1> USE MatcherAssumption DEF MatcherAssumption, Blocks, Empty
<1> DEFINE Typed(c) == ch[c] \in Seq(Blocks) /\ h[c] \in Seq(V)
           Comes(c) == \A i \in 1 .. Len(h[c]) :
                           \E j \in 1 .. Len(ch[c]) : \E m \in 1 .. Len(adds[ch[c][j]]) :
                               h[c][i] = adds[ch[c][j]][m]
           Goes(c) == \A j \in 1 .. Len(ch[c]) : \A m \in 1 .. Len(adds[ch[c][j]]) :
                          \E i \in 1 .. Len(h[c]) : h[c][i] = adds[ch[c][j]][m]
           Begins(c) == h[c] # <<>> => \E j \in 1 .. Len(ch[c]) :
                                adds[ch[c][j]] # <<>> /\ h[c][1] = adds[ch[c][j]][1]
           S == {c \in 0 .. NBlocks : Typed(c) /\ Comes(c) /\ Goes(c) /\ Begins(c)}
<1>1. NBlocks \in S
  <2>1. NBlocks \in 0 .. NBlocks /\ NBlocks = Empty
    OBVIOUS
  <2>2. h[NBlocks] = <<>> /\ ch[NBlocks] = <<>>
    BY ONLY <2>1, Walks(h, table, adds), Walks(ch, table, [d \in Blocks |-> <<d>>]) DEF Walks
  <2>3. <<>> \in Seq(V) /\ <<>> \in Seq(Blocks) /\ 1 .. Len(<<>>) = {}
    OBVIOUS
  <2>4. Typed(NBlocks)
    BY <2>2, <2>3
  <2>5. Comes(NBlocks) /\ Goes(NBlocks) /\ Begins(NBlocks)
    BY <2>2, <2>3
  <2> HIDE DEF Typed, Comes, Goes, Begins
  <2> QED BY <2>1, <2>4, <2>5
<1>2. ASSUME NEW c \in 0 .. NBlocks - 1, \A d \in c + 1 .. NBlocks : d \in S PROVE c \in S
  <2>1. PICK d \in c + 1 .. NBlocks : d = table.next[c]
    BY DEF IndexTyped
  <2>2. Typed(d) /\ Comes(d) /\ Goes(d) /\ Begins(d)
    BY <1>2
  <2>3. h[c] = adds[c] \o h[d] /\ ch[c] = <<c>> \o ch[d]
    <3>1. c \in Blocks /\ c \in 0 .. NBlocks /\ c # Empty
      OBVIOUS
    <3>2. h[c] = adds[c] \o h[table.next[c]]
      BY <3>1 DEF Walks
    <3>3. ch[c] = [e \in Blocks |-> <<e>>][c] \o ch[table.next[c]]
      BY <3>1 DEF Walks
    <3> QED BY <2>1, <3>1, <3>2, <3>3
  <2>4. PICK u \in Seq(V) : u = adds[c]
    OBVIOUS
  <2>5. PICK v \in Seq(V) : v = h[d]
    BY <2>2
  <2>6. PICK t \in Seq(Blocks) : t = ch[d]
    BY <2>2
  <2>7. /\ u \o v \in Seq(V) /\ Len(u \o v) = Len(u) + Len(v)
        /\ Len(u) \in Nat /\ Len(v) \in Nat /\ Len(t) \in Nat
        /\ \A i \in 1 .. Len(u) : (u \o v)[i] = u[i]
        /\ \A i \in 1 .. Len(v) : (u \o v)[Len(u) + i] = v[i]
    OBVIOUS
  <2>8. /\ <<c>> \o t \in Seq(Blocks) /\ Len(<<c>> \o t) = Len(t) + 1
        /\ (<<c>> \o t)[1] = c
        /\ \A j \in 1 .. Len(t) : (<<c>> \o t)[j + 1] = t[j]
    OBVIOUS
  <2>9. PICK w : w = u \o v
    OBVIOUS
  <2>10. PICK s : s = <<c>> \o t
    OBVIOUS
  <2>11. h[c] = w /\ ch[c] = s
    BY <2>3, <2>4, <2>5, <2>6, <2>9, <2>10
  <2>12. Typed(c)
    BY <2>7, <2>8, <2>9, <2>10, <2>11
  <2>13. ASSUME NEW i \in 1 .. Len(v)
         PROVE  \E j \in 1 .. Len(t) : \E m \in 1 .. Len(adds[t[j]]) : v[i] = adds[t[j]][m]
    <3>1. i \in 1 .. Len(h[d])
      BY <2>5
    <3>2. PICK j \in 1 .. Len(ch[d]) : \E m \in 1 .. Len(adds[ch[d][j]]) :
                 h[d][i] = adds[ch[d][j]][m]
      BY <2>2, <3>1
    <3> QED BY <2>5, <2>6, <3>2
  <2>14. ASSUME NEW j \in 1 .. Len(t), NEW m \in 1 .. Len(adds[t[j]])
         PROVE  \E i \in 1 .. Len(v) : v[i] = adds[t[j]][m]
    <3>1. j \in 1 .. Len(ch[d]) /\ m \in 1 .. Len(adds[ch[d][j]])
      BY <2>6
    <3>2. PICK i \in 1 .. Len(h[d]) : h[d][i] = adds[ch[d][j]][m]
      BY <2>2, <3>1
    <3> QED BY <2>5, <2>6, <3>2
  <2>15. v # <<>> => \E j \in 1 .. Len(t) : adds[t[j]] # <<>> /\ v[1] = adds[t[j]][1]
    BY <2>2, <2>5, <2>6
  <2>16. ASSUME NEW i \in 1 .. Len(w)
         PROVE  \E j \in 1 .. Len(s) : \E m \in 1 .. Len(adds[s[j]]) : w[i] = adds[s[j]][m]
    <3>1. CASE i \in 1 .. Len(u)
      <4>1. 1 \in 1 .. Len(s) /\ s[1] = c /\ w[i] = adds[c][i]
        BY <2>4, <2>7, <2>8, <2>9, <2>10, <3>1
      <4> QED BY <2>4, <3>1, <4>1
    <3>2. CASE i \notin 1 .. Len(u)
      <4>1. PICK k \in 1 .. Len(v) : i = Len(u) + k
        <5>1. PICK m \in Nat, n \in Nat : m = Len(u) /\ n = Len(v)
          BY <2>7
        <5>2. Len(w) = m + n
          BY <2>7, <2>9, <5>1
        <5>3. i \in 1 .. m + n /\ i \notin 1 .. m
          BY <3>2, <5>1, <5>2
        <5>4. i - m \in 1 .. n /\ i = m + (i - m)
          BY ONLY m \in Nat, n \in Nat, <5>3
        <5> QED BY <5>1, <5>4
      <4>2. PICK j \in 1 .. Len(t) : \E m \in 1 .. Len(adds[t[j]]) : v[k] = adds[t[j]][m]
        BY <2>13
      <4>3. w[i] = v[k] /\ j + 1 \in 1 .. Len(s) /\ s[j + 1] = t[j]
        <5>1. w[i] = v[k]
          BY <2>7, <2>9, <4>1
        <5>2. j + 1 \in 1 .. Len(s) /\ s[j + 1] = t[j]
          BY <2>7, <2>8, <2>10
        <5> QED BY <5>1, <5>2
      <4> QED BY <4>2, <4>3
    <3> QED BY <3>1, <3>2
  <2>17. ASSUME NEW j \in 1 .. Len(s), NEW m \in 1 .. Len(adds[s[j]])
         PROVE  \E i \in 1 .. Len(w) : w[i] = adds[s[j]][m]
    <3>1. CASE j = 1
      <4>1. s[j] = c
        BY <2>8, <2>10, <3>1
      <4>2. m \in 1 .. Len(u) /\ m \in 1 .. Len(w) /\ w[m] = u[m]
        BY <2>4, <2>7, <2>9, <4>1
      <4> QED BY <2>4, <4>1, <4>2
    <3>2. CASE j # 1
      <4>1. PICK k \in 1 .. Len(t) : j = k + 1
        <5>1. j - 1 \in 1 .. Len(t) /\ j = (j - 1) + 1
          BY <2>7, <2>8, <2>10, <3>2
        <5> QED BY <5>1
      <4>2. s[j] = t[k]
        BY <2>8, <2>10, <4>1
      <4>3. PICK i \in 1 .. Len(v) : v[i] = adds[t[k]][m]
        BY <2>14, <4>2
      <4>4. Len(u) + i \in 1 .. Len(w) /\ w[Len(u) + i] = v[i]
        <5>1. PICK p \in Nat, q \in Nat : p = Len(u) /\ q = Len(v)
          BY <2>7
        <5>2. p + i \in 1 .. p + q
          <6>1. i \in 1 .. q
            BY <5>1
          <6> QED BY ONLY p \in Nat, q \in Nat, <6>1
        <5>3. Len(w) = p + q /\ w[p + i] = v[i]
          BY <2>7, <2>9, <5>1
        <5> QED BY <5>1, <5>2, <5>3
      <4> QED BY <4>2, <4>3, <4>4
    <3> QED BY <3>1, <3>2
  <2>18. ASSUME w # <<>>
         PROVE  \E j \in 1 .. Len(s) : adds[s[j]] # <<>> /\ w[1] = adds[s[j]][1]
    <3>1. CASE u # <<>>
      <4>1. 1 \in 1 .. Len(s) /\ s[1] = c
        BY <2>7, <2>8, <2>10
      <4>2. w[1] = u[1]
        BY <2>7, <2>9, <3>1
      <4> QED BY <2>4, <3>1, <4>1, <4>2
    <3>2. CASE u = <<>>
      <4>1. w = v
        BY <2>9, <3>2
      <4>2. PICK j \in 1 .. Len(t) : adds[t[j]] # <<>> /\ v[1] = adds[t[j]][1]
        BY <2>15, <2>18, <4>1
      <4>3. j + 1 \in 1 .. Len(s) /\ s[j + 1] = t[j]
        BY <2>7, <2>8, <2>10
      <4> QED BY <4>1, <4>2, <4>3
    <3> QED BY <3>1, <3>2
  <2>19. Comes(c) /\ Goes(c) /\ Begins(c)
    BY <2>11, <2>16, <2>17, <2>18
  <2> HIDE DEF Typed, Comes, Goes, Begins
  <2> QED BY <2>12, <2>19
<1>3. b \in S
  <2> HIDE DEF S
  <2>1. \A c \in 0 .. NBlocks - 1 : (\A d \in c + 1 .. NBlocks : d \in S) => c \in S
    BY <1>2
  <2> QED BY <1>1, <2>1, FromTopDown
<1> QED BY <1>3 DEF Gathers

-----------------------------------------------------------------------------
(* The index. *)

\* s is what the links from block b lead to.
Strung(table, b, s) ==
    /\ s \in Seq(Blocks)
    /\ b = IF s = <<>> THEN Empty ELSE s[1]
    /\ \A i \in 1 .. Len(s) : table.next[s[i]] = IF i = Len(s) THEN Empty ELSE s[i + 1]

Single == [b \in Blocks |-> <<b>>]

\* The chain of a bucket is the walk that adds each block itself.
LEMMA ChainWalks ==
    ASSUME NEW table, IndexTyped(table)
    PROVE  \E ch : /\ Walks(ch, table, Single)
                   /\ \A k \in Buckets : Chain(table, k) = ch[table.head[k]]
<1> USE MatcherAssumption DEF MatcherAssumption
<1> DEFINE Loop(h) == [b \in Blocks \cup {Empty} |->
                          IF b = Empty THEN <<>> ELSE Single[b] \o h[table.next[b]]]
           iter == CHOOSE h : h = Loop(h)
<1>1. Blocks \cup {Empty} = 0 .. NBlocks /\ Empty \notin Blocks
  BY DEF Blocks, Empty
<1>2. \E h : h = Loop(h)
  <2>1. Single \in [Blocks -> Seq(Blocks)]
    BY DEF Single
  <2>2. PICK h \in [0 .. NBlocks -> Seq(Blocks)] : Walks(h, table, Single)
    BY <2>1, WalkExists
  <2>3. \A b \in Blocks \cup {Empty} :
            h[b] = IF b = Empty THEN <<>> ELSE Single[b] \o h[table.next[b]]
    BY <1>1, <2>2 DEF Walks
  <2>4. h \in [Blocks \cup {Empty} -> Seq(Blocks)]
    BY <1>1, <2>2
  <2>5. h = Loop(h)
    BY <2>3, <2>4
  <2> QED BY <2>5
<1>3. iter = Loop(iter)
  BY <1>2
<1>4. \A k : Chain(table, k) = iter[table.head[k]]
  BY DEF Chain, Walk, Single
<1> HIDE DEF iter
<1>5. ASSUME NEW b \in 0 .. NBlocks
      PROVE  iter[b] = IF b = Empty THEN <<>> ELSE Single[b] \o iter[table.next[b]]
  BY <1>1, <1>3
<1>6. Walks(iter, table, Single)
  BY <1>5 DEF Walks
<1> QED BY <1>4, <1>6

\* That walk is strung on the links.
LEMMA WalkIsStrung ==
    ASSUME NEW table, IndexTyped(table), NEW ch, Walks(ch, table, Single),
           NEW b \in 0 .. NBlocks
    PROVE  Strung(table, b, ch[b])
<1> USE MatcherAssumption DEF MatcherAssumption, Blocks, Empty
<1> DEFINE S == {c \in 0 .. NBlocks : Strung(table, c, ch[c])}
<1>1. NBlocks \in S
  <2>1. NBlocks \in 0 .. NBlocks /\ NBlocks = Empty
    OBVIOUS
  <2>2. ch[NBlocks] = <<>>
    BY <2>1 DEF Walks
  <2>3. Strung(table, NBlocks, <<>>)
    BY DEF Strung
  <2> QED BY <2>1, <2>2, <2>3
<1>2. ASSUME NEW c \in 0 .. NBlocks - 1, \A d \in c + 1 .. NBlocks : d \in S PROVE c \in S
  <2>1. PICK d \in c + 1 .. NBlocks : d = table.next[c]
    BY DEF IndexTyped
  <2>2. PICK t : t = ch[d]
    OBVIOUS
  <2>3. Strung(table, d, t)
    BY <1>2, <2>2
  <2>4. ch[c] = <<c>> \o t
    <3>1. c \in Blocks /\ c \in 0 .. NBlocks /\ c # Empty
      OBVIOUS
    <3>2. ch[c] = Single[c] \o ch[table.next[c]]
      BY <3>1 DEF Walks
    <3>3. Single[c] = <<c>>
      BY <3>1 DEF Single
    <3> QED BY <2>1, <2>2, <3>2, <3>3
  <2>5. t \in Seq(Blocks) /\ c \in Blocks
    BY <2>3 DEF Strung
  <2>6. PICK s \in Seq(Blocks) : s = <<c>> \o t
    <3>1. <<c>> \in Seq(Blocks)
      BY <2>5
    <3>2. <<c>> \o t \in Seq(Blocks)
      BY <2>5, <3>1
    <3> QED BY <3>2
  <2>7. /\ Len(s) = Len(t) + 1 /\ Len(t) \in Nat /\ s # <<>> /\ s[1] = c
        /\ \A i \in 1 .. Len(t) : s[i + 1] = t[i]
    BY <2>5, <2>6
  <2>8. ASSUME NEW i \in 1 .. Len(s)
        PROVE  table.next[s[i]] = IF i = Len(s) THEN Empty ELSE s[i + 1]
    <3>1. CASE i = 1
      <4>1. table.next[s[i]] = d
        BY <2>1, <2>7, <3>1
      <4>2. d = IF t = <<>> THEN Empty ELSE t[1]
        BY <2>3 DEF Strung
      <4>3. t = <<>> <=> Len(t) = 0
        BY <2>5
      <4> QED BY <2>7, <3>1, <4>1, <4>2, <4>3
    <3>2. CASE i # 1
      <4>1. PICK j \in 1 .. Len(t) : i = j + 1
        <5>1. i - 1 \in 1 .. Len(t) /\ i = (i - 1) + 1
          BY <2>7, <3>2
        <5> QED BY <5>1
      <4>2. s[i] = t[j] /\ (j # Len(t) => s[i + 1] = t[j + 1])
        <5>1. i \in Nat /\ j \in Nat /\ i + 1 = (j + 1) + 1
          BY <4>1
        <5>2. j # Len(t) => j + 1 \in 1 .. Len(t)
          BY <2>7
        <5> QED BY <2>7, <4>1, <5>1, <5>2
      <4>3. table.next[t[j]] = IF j = Len(t) THEN Empty ELSE t[j + 1]
        BY <2>3 DEF Strung
      <4> QED BY <2>7, <4>1, <4>2, <4>3
    <3> QED BY <3>1, <3>2
  <2>9. Strung(table, c, s)
    BY <2>7, <2>8 DEF Strung
  <2>10. c \in 0 .. NBlocks /\ Strung(table, c, ch[c])
    BY <2>4, <2>6, <2>9
  <2> QED BY <2>10
<1>3. b \in S
  <2> HIDE DEF S
  <2>1. \A c \in 0 .. NBlocks - 1 : (\A d \in c + 1 .. NBlocks : d \in S) => c \in S
    BY <1>2
  <2> QED BY <1>1, <2>1, FromTopDown
<1> QED BY <1>3

\* A chain is strung on its links, and only the chain is.
LEMMA ChainIsStrung ==
    ASSUME NEW table, IndexTyped(table), NEW k \in Buckets
    PROVE  Strung(table, table.head[k], Chain(table, k))
<1>1. table.head[k] \in 0 .. NBlocks
  BY DEF IndexTyped
<1> QED BY <1>1, ChainWalks, WalkIsStrung

\* No block stands twice in a chain.
LEMMA StrungAscends ==
    ASSUME NEW table, IndexTyped(table), NEW b, NEW s, Strung(table, b, s)
    PROVE  \A i, j \in 1 .. Len(s) : i < j => s[i] < s[j]
<1> USE MatcherAssumption DEF MatcherAssumption, Blocks, Empty
<1>1. s \in Seq(Nat) /\ \A i \in 1 .. Len(s) : s[i] \in Blocks /\ s[i] \in Nat
  BY DEF Strung
<1>2. ASSUME NEW i \in 1 .. Len(s), i + 1 \in 1 .. Len(s) PROVE s[i] < s[i + 1]
  <2>1. table.next[s[i]] = s[i + 1]
    BY <1>2 DEF Strung
  <2> QED BY <1>1, <2>1 DEF IndexTyped
<1> DEFINE G == {n \in Nat : \A i, j \in 1 .. Len(s) : i < j /\ j <= i + n => s[i] < s[j]}
<1>3. 0 \in G
  OBVIOUS
<1>4. ASSUME NEW n \in Nat, n \in G PROVE n + 1 \in G
  <2>1. SUFFICES ASSUME NEW i \in 1 .. Len(s), NEW j \in 1 .. Len(s), i < j, j <= i + (n + 1)
                 PROVE  s[i] < s[j]
    OBVIOUS
  <2>2. CASE j = i + 1
    BY <1>2, <2>2
  <2>3. CASE j # i + 1
    <3>1. PICK m \in 1 .. Len(s) : m + 1 = j
      <4>1. j - 1 \in 1 .. Len(s) /\ (j - 1) + 1 = j
        BY <2>1, <2>3
      <4> QED BY <4>1
    <3>2. i < m /\ m <= i + n
      BY <2>1, <2>3, <3>1
    <3>3. s[i] < s[m]
      BY <1>4, <3>2
    <3>4. s[m] < s[j]
      BY <1>2, <3>1
    <3> QED BY <1>1, <3>3, <3>4
  <2> QED BY <2>2, <2>3
<1>5. Len(s) \in G /\ Len(s) \in Nat
  <2>1. Len(s) \in Nat
    BY <1>1
  <2> HIDE DEF G
  <2> QED BY <1>3, <1>4, <2>1, FromZeroOn
<1> QED BY <1>5

\* The links lead to one chain only.
LEMMA StrungOnce ==
    ASSUME NEW table, IndexTyped(table), NEW b, NEW s, Strung(table, b, s),
           NEW t, Strung(table, b, t)
    PROVE  s = t
<1> USE MatcherAssumption DEF MatcherAssumption, Blocks, Empty
<1>1. s \in Seq(Blocks) /\ t \in Seq(Blocks) /\ Len(s) \in Nat /\ Len(t) \in Nat
  BY DEF Strung
<1>2. \A i \in 1 .. Len(s) : s[i] \in Blocks /\ s[i] # Empty
  BY <1>1
<1>3. \A i \in 1 .. Len(t) : t[i] \in Blocks /\ t[i] # Empty
  BY <1>1
<1> DEFINE G == {n \in Nat : /\ n <= Len(s) <=> n <= Len(t)
                             /\ n >= 1 /\ n <= Len(s) => s[n] = t[n]}
<1>4. 0 \in G
  BY <1>1
<1>5. ASSUME NEW n \in Nat, n \in G PROVE n + 1 \in G
  <2>1. CASE n = 0
    <3>1. (s = <<>> <=> Len(s) = 0) /\ (t = <<>> <=> Len(t) = 0)
      BY <1>1
    <3>2. (1 <= Len(s) <=> s # <<>>) /\ (1 <= Len(t) <=> t # <<>>)
      BY <1>1, <3>1
    <3>3. 1 <= Len(s) => 1 \in 1 .. Len(s) /\ b = s[1]
      BY <1>1, <3>2 DEF Strung
    <3>4. 1 <= Len(t) => 1 \in 1 .. Len(t) /\ b = t[1]
      BY <1>1, <3>2 DEF Strung
    <3>5. (~(1 <= Len(s)) => b = Empty) /\ (~(1 <= Len(t)) => b = Empty)
      BY <3>2 DEF Strung
    <3> QED BY <1>2, <1>3, <2>1, <3>3, <3>4, <3>5
  <2>2. CASE n # 0 /\ n <= Len(s)
    <3>1. n \in 1 .. Len(s) /\ n \in 1 .. Len(t) /\ s[n] = t[n]
      BY <1>1, <1>5, <2>2
    <3>2. table.next[s[n]] = IF n = Len(s) THEN Empty ELSE s[n + 1]
      BY <3>1 DEF Strung
    <3>3. table.next[t[n]] = IF n = Len(t) THEN Empty ELSE t[n + 1]
      BY <3>1 DEF Strung
    <3>4. n # Len(s) => n + 1 \in 1 .. Len(s)
      BY <1>1, <3>1
    <3>5. n # Len(t) => n + 1 \in 1 .. Len(t)
      BY <1>1, <3>1
    <3> QED BY <1>1, <1>2, <1>3, <3>1, <3>2, <3>3, <3>4, <3>5
  <2>3. CASE ~(n <= Len(s))
    BY <1>1, <1>5, <2>3
  <2> QED BY <2>1, <2>2, <2>3
<1>6. \A n \in Nat : n \in G
  <2> HIDE DEF G
  <2> QED BY <1>4, <1>5, FromZeroOn
<1>7. Len(s) = Len(t)
  BY <1>1, <1>6
<1>8. \A i \in 1 .. Len(s) : s[i] = t[i]
  BY <1>6
<1> QED BY <1>1, <1>7, <1>8, SameSequence

\* What is strung on the links of a bucket is its chain.
LEMMA StrungIsChain ==
    ASSUME NEW table, IndexTyped(table), NEW k \in Buckets,
           NEW s, Strung(table, table.head[k], s)
    PROVE  Chain(table, k) = s
BY ChainIsStrung, StrungOnce

BucketOf(b) == Bucket(BlockHash(b))

\* Each chain holds blocks of its bucket alone, and each block of U is in one.
IndexOK(table, U) ==
    /\ IndexTyped(table)
    /\ \A k \in Buckets : \A i \in 1 .. Len(Chain(table, k)) : BucketOf(Chain(table, k)[i]) = k
    /\ \A b \in U : \E i \in 1 .. Len(Chain(table, BucketOf(b))) :
                        Chain(table, BucketOf(b))[i] = b

SumsTyped == case \in Cases /\ sums \in [Blocks -> [a : Nat, b : Nat]]

\* t is s without its element at place p.
Without(s, p, t) ==
    /\ Len(t) = Len(s) - 1 /\ Len(s) \in Nat /\ Len(s) >= 1
    /\ \A i \in 1 .. Len(t) : t[i] = IF i < p THEN s[i] ELSE s[i + 1]
    /\ \A i \in 1 .. Len(s) : i # p => \E j \in 1 .. Len(t) : t[j] = s[i]
    /\ t = <<>> <=> Len(s) = 1

\* A sequence without one of its elements.
LEMMA Removed ==
    ASSUME NEW S, NEW s \in Seq(S), NEW p \in 1 .. Len(s)
    PROVE  \E t \in Seq(S) : Without(s, p, t)
<1> DEFINE t == [i \in 1 .. Len(s) - 1 |-> IF i < p THEN s[i] ELSE s[i + 1]]
<1>1. Len(s) \in Nat /\ Len(s) >= 1 /\ Len(s) - 1 \in Nat
  OBVIOUS
<1>2. \A i \in 1 .. Len(s) - 1 : i \in 1 .. Len(s) /\ i + 1 \in 1 .. Len(s)
  OBVIOUS
<1>3. t \in [1 .. Len(s) - 1 -> S]
  BY <1>2
<1>4. t \in Seq(S) /\ Len(t) = Len(s) - 1
  BY <1>1, <1>3, IsSequence
<1>5. \A i \in 1 .. Len(s) - 1 : t[i] = IF i < p THEN s[i] ELSE s[i + 1]
  OBVIOUS
<1> HIDE DEF t
<1>6. ASSUME NEW i \in 1 .. Len(s), i # p PROVE \E j \in 1 .. Len(t) : t[j] = s[i]
  <2>1. CASE i < p
    <3>1. i \in 1 .. Len(s) - 1
      BY <2>1
    <3> QED BY <1>4, <1>5, <2>1, <3>1
  <2>2. CASE ~(i < p)
    <3>1. i - 1 \in 1 .. Len(s) - 1 /\ ~(i - 1 < p) /\ (i - 1) + 1 = i
      BY <1>6, <2>2
    <3> QED BY <1>4, <1>5, <3>1
  <2> QED BY <2>1, <2>2
<1>7. t = <<>> <=> Len(s) = 1
  <2>1. t = <<>> <=> Len(t) = 0
    BY <1>4
  <2> QED BY <1>1, <1>4, <2>1
<1>8. Without(s, p, t)
  BY <1>1, <1>4, <1>5, <1>6, <1>7 DEF Without
<1> QED BY <1>4, <1>8

LEMMA HeadReplaced ==
    ASSUME NEW A, NEW B, NEW C, NEW t \in [head : [A -> C], next : [B -> C]],
           NEW k \in A, NEW v \in C
    PROVE  [t EXCEPT !.head[k] = v] \in [head : [A -> C], next : [B -> C]]
OBVIOUS

LEMMA NextReplaced ==
    ASSUME NEW A, NEW B, NEW C, NEW t \in [head : [A -> C], next : [B -> C]],
           NEW b \in B, NEW v \in C
    PROVE  [t EXCEPT !.next[b] = v] \in [head : [A -> C], next : [B -> C]]
OBVIOUS

\* A block taken out of the index leaves the chains of the others alone.
LEMMA RemoveKeeps ==
    ASSUME SumsTyped, NEW table, NEW U \in SUBSET Blocks, IndexOK(table, U),
           NEW b \in Blocks
    PROVE  IndexOK(RemoveBlockFromHash(table, b), U \ {b})
<1> USE BlocksType
<1> DEFINE new == RemoveBlockFromHash(table, b)
           place == SelectInSeq(Chain(table, BucketOf(b)), LAMBDA c : c = b)
<1>1. PICK k \in Buckets : k = BucketOf(b)
  BY HashFacts DEF SumsTyped, BucketOf
<1>2. PICK s : s = Chain(table, k)
  OBVIOUS
<1>3. Strung(table, table.head[k], s) /\ IndexTyped(table)
  BY <1>2, ChainIsStrung DEF IndexOK
<1>4. s \in Seq(Blocks) /\ Len(s) \in Nat
  BY <1>3 DEF Strung
<1>5. \A i, j \in 1 .. Len(s) : i < j => s[i] < s[j]
  BY <1>3, StrungAscends
<1>6. \A i \in 1 .. Len(s) : s[i] \in Blocks /\ s[i] \in Nat /\ s[i] # Empty
  BY <1>4 DEF Blocks, Empty
<1>7. \A i, j \in 1 .. Len(s) : s[i] = s[j] => i = j
  BY <1>4, <1>5, <1>6
<1>8. CASE \A i \in 1 .. Len(s) : s[i] # b
  <2>1. place = 0
    BY <1>1, <1>2, <1>8 DEF SelectInSeq
  <2>2. new = table
    BY <2>1 DEF RemoveBlockFromHash, BucketOf
  <2> QED BY <2>2 DEF IndexOK
<1>9. CASE \E i \in 1 .. Len(s) : s[i] = b
  <2>1. PICK p \in 1 .. Len(s) : s[p] = b
    BY <1>9
  <2>2. place = p
    <3>1. {i \in 1 .. Len(s) : s[i] = b} = {p}
      BY <1>7, <2>1
    <3>2. Min({p}) = p
      BY DEF Min
    <3> QED BY <1>1, <1>2, <3>1, <3>2 DEF SelectInSeq
  <2>3. new = IF p = 1 THEN [table EXCEPT !.head[k] = table.next[b]]
              ELSE [table EXCEPT !.next[s[p - 1]] = table.next[b]]
    <3>1. p # 0
      BY <1>4
    <3> QED BY <1>1, <1>2, <2>2, <3>1 DEF RemoveBlockFromHash, BucketOf
  <2>4. p # 1 => p - 1 \in 1 .. Len(s) /\ s[p - 1] \in Blocks /\ s[p - 1] < b
    <3>1. p # 1 => p - 1 \in 1 .. Len(s) /\ p - 1 < p
      BY <1>4
    <3> QED BY <1>5, <1>6, <2>1, <3>1
  <2>5. table.next[b] \in 0 .. NBlocks /\ b < table.next[b]
    BY <1>3 DEF IndexTyped
  <2>6. /\ table \in [head : [Buckets -> 0 .. NBlocks], next : [Blocks -> 0 .. NBlocks]]
        /\ \A c \in Blocks : c < table.next[c]
    BY <1>3 DEF IndexTyped
  <2>7. new \in [head : [Buckets -> 0 .. NBlocks], next : [Blocks -> 0 .. NBlocks]]
    <3>1. CASE p = 1
      <4>1. [table EXCEPT !.head[k] = table.next[b]]
                \in [head : [Buckets -> 0 .. NBlocks], next : [Blocks -> 0 .. NBlocks]]
        BY <2>5, <2>6, HeadReplaced
      <4>2. new = [table EXCEPT !.head[k] = table.next[b]]
        BY <2>3, <3>1
      <4> QED BY ONLY <4>1, <4>2
    <3>2. CASE p # 1
      <4>1. [table EXCEPT !.next[s[p - 1]] = table.next[b]]
                \in [head : [Buckets -> 0 .. NBlocks], next : [Blocks -> 0 .. NBlocks]]
        BY <2>4, <2>5, <2>6, <3>2, NextReplaced
      <4>2. new = [table EXCEPT !.next[s[p - 1]] = table.next[b]]
        BY <2>3, <3>2
      <4> QED BY ONLY <4>1, <4>2
    <3> QED BY <3>1, <3>2
  <2>8. new.next = IF p = 1 THEN table.next
                   ELSE [table.next EXCEPT ![s[p - 1]] = table.next[b]]
    BY <2>3, <2>6
  <2>9. new.head = IF p = 1 THEN [table.head EXCEPT ![k] = table.next[b]] ELSE table.head
    BY <2>3, <2>6
  <2> HIDE DEF new
  <2>10. \A c \in Blocks : c < new.next[c]
    <3>1. ASSUME NEW c \in Blocks PROVE c < new.next[c]
      <4>1. CASE p # 1 /\ c = s[p - 1]
        <5>1. new.next[c] = table.next[b] /\ c < b
          BY <2>4, <2>6, <2>8, <4>1
        <5>2. c \in Nat /\ b \in Nat
          BY DEF Blocks
        <5> QED BY <2>5, <5>1, <5>2
      <4>2. CASE ~(p # 1 /\ c = s[p - 1])
        <5>1. new.next[c] = table.next[c]
          BY <2>4, <2>6, <2>8, <4>2
        <5> QED BY <2>6, <5>1
      <4> QED BY <4>1, <4>2
    <3> QED BY <3>1
  <2>11. IndexTyped(new)
    BY <2>7, <2>10 DEF IndexTyped
  <2>12. PICK t \in Seq(Blocks) : Without(s, p, t)
    BY <1>4, Removed
  <2>13. /\ t \in Seq(Blocks) /\ Len(t) = Len(s) - 1 /\ Len(s) >= 1
         /\ \A i \in 1 .. Len(t) : t[i] = IF i < p THEN s[i] ELSE s[i + 1]
         /\ \A i \in 1 .. Len(s) : i # p => \E j \in 1 .. Len(t) : t[j] = s[i]
         /\ t = <<>> <=> Len(s) = 1
    BY <2>12 DEF Without
  <2>14. \A i \in 1 .. Len(s) :
             table.next[s[i]] = IF i = Len(s) THEN Empty ELSE s[i + 1]
    BY <1>3 DEF Strung
  <2>15. Strung(new, new.head[k], t)
    <3>1. new.head[k] = IF t = <<>> THEN Empty ELSE t[1]
      <4>1. CASE p = 1
        <5>1. new.head[k] = table.next[s[1]]
          BY <2>1, <2>6, <2>9, <4>1
        <5>2. Len(s) # 1 => 1 \in 1 .. Len(t) /\ t[1] = s[2]
          BY <1>4, <2>13, <4>1
        <5> QED BY <1>4, <2>1, <2>13, <2>14, <4>1, <5>1, <5>2
      <4>2. CASE p # 1
        <5>1. new.head[k] = table.head[k] /\ Len(s) # 1 /\ 1 < p
          <6>1. 1 < p /\ p <= Len(s) /\ p \in Nat
            BY <1>4, <4>2
          <6>2. new.head = table.head
            BY <2>9, <4>2
          <6>3. Len(s) # 1
            BY ONLY <6>1
          <6> QED BY <6>1, <6>2, <6>3
        <5>2. 1 \in 1 .. Len(t) /\ t[1] = s[1]
          BY <1>4, <2>13, <5>1
        <5>3. table.head[k] = s[1]
          BY <1>3, <1>4, <5>1 DEF Strung
        <5> QED BY <2>13, <5>1, <5>2, <5>3
      <4> QED BY <4>1, <4>2
    <3>2. ASSUME NEW i \in 1 .. Len(t)
          PROVE  new.next[t[i]] = IF i = Len(t) THEN Empty ELSE t[i + 1]
      <4>1. i \in 1 .. Len(s) /\ i + 1 \in 1 .. Len(s) /\ i \in Nat /\ p \in Nat
        BY <1>4, <2>13
      <4>2. CASE i + 1 = p
        <5>1. t[i] = s[i] /\ p # 1 /\ p - 1 = i
          BY <2>13, <4>1, <4>2
        <5>2. new.next[t[i]] = table.next[b]
          BY <2>4, <2>6, <2>8, <5>1
        <5>3. table.next[b] = IF p = Len(s) THEN Empty ELSE s[p + 1]
          BY <2>1, <2>14
        <5>4. i # Len(t) => i + 1 \in 1 .. Len(t) /\ t[i + 1] = s[p + 1]
          BY <1>4, <2>13, <4>1, <4>2
        <5>5. i = Len(t) <=> p = Len(s)
          BY <1>4, <2>13, <4>1, <4>2
        <5> QED BY <5>2, <5>3, <5>4, <5>5
      <4>3. CASE i + 1 # p
        <5> DEFINE j == IF i < p THEN i ELSE i + 1
        <5>1. j \in 1 .. Len(s) /\ t[i] = s[j] /\ j # p /\ j \in Nat
          BY <2>13, <4>1, <4>3
        <5>2. p # 1 => j # p - 1
          BY <4>1, <4>3
        <5>3. p # 1 => s[j] # s[p - 1]
          BY <1>7, <2>4, <5>1, <5>2
        <5>4. new.next[t[i]] = table.next[s[j]]
          BY <1>6, <2>4, <2>6, <2>8, <5>1, <5>3
        <5>5. table.next[s[j]] = IF j = Len(s) THEN Empty ELSE s[j + 1]
          BY <2>14, <5>1
        <5>6. i = Len(t) <=> j = Len(s)
          BY <1>4, <2>13, <4>1, <4>3
        <5>7. i # Len(t) => t[i + 1] = s[j + 1]
          <6>1. i # Len(t) => i + 1 \in 1 .. Len(t)
            BY <1>4, <2>13, <4>1
          <6>2. i < p => i + 1 < p
            BY <4>1, <4>3
          <6>3. ~(i < p) => ~(i + 1 < p)
            BY <4>1
          <6> QED BY <2>13, <4>1, <6>1, <6>2, <6>3
        <5> HIDE DEF j
        <5> QED BY <5>4, <5>5, <5>6, <5>7
      <4> QED BY <4>2, <4>3
    <3> QED BY <2>13, <3>1, <3>2 DEF Strung
  <2>16. Chain(new, k) = t
    BY <2>11, <2>15, StrungIsChain
  <2>17. ASSUME NEW m \in Buckets, m # k PROVE Chain(new, m) = Chain(table, m)
    <3>1. PICK u : u = Chain(table, m)
      OBVIOUS
    <3>2. Strung(table, table.head[m], u)
      BY <1>3, <3>1, ChainIsStrung
    <3>3. new.head[m] = table.head[m]
      BY <2>6, <2>9, <2>17
    <3>4. ASSUME NEW i \in 1 .. Len(u) PROVE new.next[u[i]] = table.next[u[i]]
      <4>1. BucketOf(u[i]) = m
        BY <3>1 DEF IndexOK
      <4>2. p # 1 => BucketOf(s[p - 1]) = k
        BY <1>2, <2>4 DEF IndexOK
      <4>3. p # 1 => u[i] # s[p - 1]
        BY <2>17, <4>1, <4>2
      <4>4. u[i] \in Blocks
        BY <3>2 DEF Strung
      <4> QED BY <2>4, <2>6, <2>8, <4>3, <4>4
    <3>5. Strung(new, new.head[m], u)
      BY <3>2, <3>3, <3>4 DEF Strung
    <3> QED BY <2>11, <3>1, <3>5, StrungIsChain
  <2>18. ASSUME NEW m \in Buckets, NEW i \in 1 .. Len(Chain(new, m))
         PROVE  BucketOf(Chain(new, m)[i]) = m
    <3>1. CASE m = k
      <4>1. \A j \in 1 .. Len(s) : BucketOf(s[j]) = k
        BY <1>2 DEF IndexOK
      <4>2. i \in 1 .. Len(t) /\ i \in 1 .. Len(s) /\ i + 1 \in 1 .. Len(s)
        BY <1>4, <2>13, <2>16, <2>18, <3>1
      <4> QED BY <2>13, <2>16, <3>1, <4>1, <4>2
    <3>2. CASE m # k
      BY <2>17, <2>18, <3>2 DEF IndexOK
    <3> QED BY <3>1, <3>2
  <2>19. ASSUME NEW c \in U \ {b}
         PROVE  \E i \in 1 .. Len(Chain(new, BucketOf(c))) : Chain(new, BucketOf(c))[i] = c
    <3>1. PICK i \in 1 .. Len(Chain(table, BucketOf(c))) : Chain(table, BucketOf(c))[i] = c
      BY DEF IndexOK
    <3>2. CASE BucketOf(c) = k
      <4>1. i \in 1 .. Len(s) /\ s[i] = c /\ i # p
        BY <1>2, <2>1, <3>1, <3>2
      <4>2. PICK j \in 1 .. Len(t) : t[j] = s[i]
        BY <2>13, <4>1
      <4> QED BY <2>16, <3>2, <4>1, <4>2
    <3>3. CASE BucketOf(c) \in Buckets /\ BucketOf(c) # k
      BY <2>17, <3>1, <3>3
    <3>4. BucketOf(c) \in Buckets
      BY HashFacts DEF SumsTyped, BucketOf
    <3> QED BY <3>2, <3>3, <3>4
  <2>20. IndexOK(new, U \ {b})
    BY <2>11, <2>18, <2>19 DEF IndexOK
  <2> QED BY <2>20 DEF new
<1> QED BY <1>8, <1>9

Table == [head : [Buckets -> 0 .. NBlocks], next : [Blocks -> 0 .. NBlocks]]

\* What inserting a block changes.
LEMMA InsertTyped ==
    ASSUME SumsTyped, NEW table \in Table, NEW b \in Blocks
    PROVE  /\ Insert(table, b) \in Table
           /\ Insert(table, b).head = [table.head EXCEPT ![BucketOf(b)] = b]
           /\ Insert(table, b).next = [table.next EXCEPT ![b] = table.head[BucketOf(b)]]
<1>1. PICK k \in Buckets : k = BucketOf(b)
  BY HashFacts DEF SumsTyped, BucketOf
<1>2. Insert(table, b) = [head |-> [table.head EXCEPT ![k] = b],
                          next |-> [table.next EXCEPT ![b] = table.head[k]]]
  BY <1>1 DEF Insert, BucketOf
<1>3. b \in 0 .. NBlocks /\ table.head[k] \in 0 .. NBlocks
  BY BlocksType DEF Blocks, Table
<1>4. [table.head EXCEPT ![k] = b] \in [Buckets -> 0 .. NBlocks]
  BY <1>3 DEF Table
<1>5. [table.next EXCEPT ![b] = table.head[k]] \in [Blocks -> 0 .. NBlocks]
  BY <1>3 DEF Table
<1> QED BY <1>1, <1>2, <1>4, <1>5 DEF Table

\* A block below all those in the index goes to the head of its chain.
LEMMA InsertKeeps ==
    ASSUME SumsTyped, NEW table, NEW U \in SUBSET Blocks, IndexOK(table, U),
           NEW b \in Blocks, \A k \in Buckets : b < table.head[k]
    PROVE  /\ IndexOK(Insert(table, b), U \cup {b})
           /\ \A k \in Buckets : b <= Insert(table, b).head[k]
<1> USE BlocksType
<1>1. PICK k \in Buckets : k = BucketOf(b)
  BY HashFacts DEF SumsTyped, BucketOf
<1>2. table \in Table /\ IndexTyped(table)
  BY DEF IndexOK, IndexTyped, Table
<1>3. PICK new \in Table : new = Insert(table, b)
  BY <1>2, InsertTyped
<1>4. /\ new.head = [table.head EXCEPT ![k] = b]
      /\ new.next = [table.next EXCEPT ![b] = table.head[k]]
  BY <1>1, <1>2, <1>3, InsertTyped
<1>5. /\ table.head \in [Buckets -> 0 .. NBlocks] /\ table.next \in [Blocks -> 0 .. NBlocks]
      /\ \A c \in Blocks : c < table.next[c]
  BY <1>2 DEF IndexTyped, Table
<1>6. new.head[k] = b /\ \A m \in Buckets : m # k => new.head[m] = table.head[m]
  BY <1>4, <1>5
<1>7. new.next[b] = table.head[k] /\ \A c \in Blocks : c # b => new.next[c] = table.next[c]
  BY <1>4, <1>5
<1>8. IndexTyped(new)
  <2>1. \A c \in Blocks : c < new.next[c]
    BY <1>5, <1>7
  <2> QED BY <2>1 DEF IndexTyped, Table
<1>9. \A m \in Buckets : b <= new.head[m]
  <2>1. b \in Nat /\ \A m \in Buckets : table.head[m] \in Nat
    BY <1>5 DEF Blocks
  <2> QED BY <1>6, <2>1
<1>10. ASSUME NEW m \in Buckets PROVE \A i \in 1 .. Len(Chain(table, m)) : Chain(table, m)[i] # b
  <2>1. PICK u : u = Chain(table, m)
    OBVIOUS
  <2>2. Strung(table, table.head[m], u)
    BY <1>2, <2>1, ChainIsStrung
  <2>3. u \in Seq(Blocks) /\ Len(u) \in Nat
    BY <2>2 DEF Strung
  <2>4. \A i, j \in 1 .. Len(u) : i < j => u[i] < u[j]
    BY <1>2, <2>2, StrungAscends
  <2>5. ASSUME NEW i \in 1 .. Len(u) PROVE u[i] # b
    <3>1. 1 \in 1 .. Len(u) /\ u # <<>>
      BY <2>3
    <3>2. b < u[1]
      BY <2>2, <3>1 DEF Strung
    <3>3. i = 1 \/ u[1] < u[i]
      BY <2>4, <3>1
    <3>4. b \in Nat /\ u[1] \in Nat /\ u[i] \in Nat
      BY <2>3, <3>1 DEF Blocks
    <3> QED BY <3>2, <3>3, <3>4
  <2> QED BY <2>1, <2>5
<1>11. ASSUME NEW m \in Buckets, m # k PROVE Chain(new, m) = Chain(table, m)
  <2>1. PICK u : u = Chain(table, m)
    OBVIOUS
  <2>2. Strung(table, table.head[m], u)
    BY <1>2, <2>1, ChainIsStrung
  <2>3. \A i \in 1 .. Len(u) : new.next[u[i]] = table.next[u[i]]
    BY <1>7, <1>10, <2>1, <2>2 DEF Strung
  <2>4. Strung(new, new.head[m], u)
    BY <1>6, <1>11, <2>2, <2>3 DEF Strung
  <2> QED BY <1>8, <2>1, <2>4, StrungIsChain
<1>12. PICK s : s = Chain(table, k)
  OBVIOUS
<1>13. Strung(table, table.head[k], s)
  BY <1>2, <1>12, ChainIsStrung
<1>14. s \in Seq(Blocks) /\ Len(s) \in Nat
  BY <1>13 DEF Strung
<1>15. PICK t \in Seq(Blocks) : t = <<b>> \o s
  <2>1. <<b>> \in Seq(Blocks)
    OBVIOUS
  <2>2. <<b>> \o s \in Seq(Blocks)
    BY <1>14, <2>1
  <2> QED BY <2>2
<1>16. /\ Len(t) = Len(s) + 1 /\ t # <<>> /\ t[1] = b
       /\ \A i \in 1 .. Len(s) : t[i + 1] = s[i]
  BY <1>14, <1>15
<1>17. Chain(new, k) = t
  <2>1. new.head[k] = IF t = <<>> THEN Empty ELSE t[1]
    BY <1>6, <1>16
  <2>2. ASSUME NEW i \in 1 .. Len(t)
        PROVE  new.next[t[i]] = IF i = Len(t) THEN Empty ELSE t[i + 1]
    <3>1. CASE i = 1
      <4>1. new.next[t[i]] = table.head[k]
        BY <1>7, <1>16, <3>1
      <4>2. table.head[k] = IF s = <<>> THEN Empty ELSE s[1]
        BY <1>13 DEF Strung
      <4>3. s = <<>> <=> Len(s) = 0
        BY <1>14
      <4>4. s # <<>> => 1 \in 1 .. Len(s) /\ t[i + 1] = s[1]
        BY <1>14, <1>16, <3>1, <4>3
      <4>5. i = Len(t) <=> Len(s) = 0
        BY <1>14, <1>16, <3>1
      <4> QED BY <4>1, <4>2, <4>3, <4>4, <4>5
    <3>2. CASE i # 1
      <4>1. PICK j \in 1 .. Len(s) : i = j + 1
        <5>1. i - 1 \in 1 .. Len(s) /\ i = (i - 1) + 1
          BY <1>14, <1>16, <3>2
        <5> QED BY <5>1
      <4>2. t[i] = s[j] /\ s[j] # b /\ s[j] \in Blocks
        BY <1>10, <1>12, <1>14, <1>16, <4>1
      <4>3. new.next[t[i]] = IF j = Len(s) THEN Empty ELSE s[j + 1]
        BY <1>7, <1>13, <4>2 DEF Strung
      <4>4. j # Len(s) => j + 1 \in 1 .. Len(s) /\ t[i + 1] = s[j + 1]
        <5>1. j # Len(s) => j + 1 \in 1 .. Len(s)
          BY <1>14
        <5> QED BY <1>16, <4>1, <5>1
      <4>5. i = Len(t) <=> j = Len(s)
        BY <1>14, <1>16, <4>1
      <4> QED BY <4>3, <4>4, <4>5
    <3> QED BY <3>1, <3>2
  <2>3. Strung(new, new.head[k], t)
    BY <2>1, <2>2 DEF Strung
  <2> QED BY <1>8, <2>3, StrungIsChain
<1>18. ASSUME NEW m \in Buckets, NEW i \in 1 .. Len(Chain(new, m))
       PROVE  BucketOf(Chain(new, m)[i]) = m
  <2>1. CASE m # k
    BY <1>11, <1>18, <2>1 DEF IndexOK
  <2>2. CASE m = k /\ i = 1
    BY <1>1, <1>16, <1>17, <2>2
  <2>3. CASE m = k /\ i # 1
    <3>1. PICK j \in 1 .. Len(s) : i = j + 1
      <4>1. i - 1 \in 1 .. Len(s) /\ i = (i - 1) + 1
        BY <1>14, <1>16, <1>17, <1>18, <2>3
      <4> QED BY <4>1
    <3>2. BucketOf(s[j]) = k
      BY <1>12 DEF IndexOK
    <3> QED BY <1>16, <1>17, <2>3, <3>1, <3>2
  <2> QED BY <2>1, <2>2, <2>3
<1>19. ASSUME NEW c \in U \cup {b}
       PROVE  \E i \in 1 .. Len(Chain(new, BucketOf(c))) : Chain(new, BucketOf(c))[i] = c
  <2>1. CASE c = b
    <3>1. 1 \in 1 .. Len(t)
      BY <1>14, <1>16
    <3> QED BY <1>1, <1>16, <1>17, <2>1, <3>1
  <2>2. CASE c # b
    <3>1. BucketOf(c) \in Buckets
      BY HashFacts DEF SumsTyped, BucketOf
    <3>2. PICK i \in 1 .. Len(Chain(table, BucketOf(c))) : Chain(table, BucketOf(c))[i] = c
      BY <2>2 DEF IndexOK
    <3>3. CASE BucketOf(c) = k
      <4>1. i \in 1 .. Len(s) /\ s[i] = c
        BY <1>12, <3>2, <3>3
      <4>2. i + 1 \in 1 .. Len(t) /\ t[i + 1] = c
        BY <1>14, <1>16, <4>1
      <4> QED BY <1>17, <3>3, <4>2
    <3>4. CASE BucketOf(c) # k
      BY <1>11, <3>1, <3>2, <3>4
    <3> QED BY <3>3, <3>4
  <2> QED BY <2>1, <2>2
<1>20. IndexOK(new, U \cup {b})
  BY <1>8, <1>18, <1>19 DEF IndexOK
<1> QED BY <1>3, <1>9, <1>20

LEMMA LeastOfRest ==
    ASSUME NEW n \in Nat, NEW i \in 1 .. n
    PROVE  i .. n # {} /\ Min(i .. n) = i /\ (i .. n) \ {i} = i + 1 .. n
<1>1. i \in i .. n /\ \A y \in i .. n : i <= y
  OBVIOUS
<1>2. \A z \in i .. n : (\A y \in i .. n : z <= y) => z = i
  BY <1>1
<1>3. Min(i .. n) = i
  BY <1>1, <1>2 DEF Min
<1> QED BY <1>1, <1>3

LEMMA MinOf ==
    ASSUME NEW T \in SUBSET Nat, T # {}
    PROVE  Min(T) \in T
<1>1. PICK m \in T : \A y \in T : m <= y
  BY LeastOf
<1>2. \E z \in T : \A y \in T : z <= y
  BY <1>1
<1> QED BY <1>2 DEF Min

NoTable == [head |-> [k \in Buckets |-> Empty], next |-> [b \in Blocks |-> Empty]]

\* What the index has come to after each block put in, from the last down.
LEMMA InsertTrace ==
    ASSUME SumsTyped
    PROVE  \E g : /\ g[NBlocks] = NoTable
                  /\ \A b \in Blocks : g[b] = Insert(g[b + 1], b)
                  /\ NewTable = g[0]
<1> USE BlocksType
<1> DEFINE seq == [i \in 1 .. NBlocks |-> i - 1]
           D == 1 .. NBlocks
           Loop(h) == [s \in SUBSET (DOMAIN seq) |->
                          IF s = {} THEN NoTable
                          ELSE Insert(h[s \ {Min(s)}], seq[Min(s)])]
           iter == CHOOSE h : h = Loop(h)
           f == [p \in Table \X D |-> Insert(p[1], seq[p[2]])]
           c == [s \in SUBSET D |-> Min(s)]
           g == [b \in 0 .. NBlocks |-> iter[b + 1 .. NBlocks]]
<1>1. DOMAIN seq = D /\ \A i \in D : seq[i] = i - 1 /\ i - 1 \in Blocks
  BY DEF Blocks
<1>2. NoTable \in Table
  BY DEF NoTable, Table, Empty
<1>3. f \in [Table \X D -> Table]
  <2>1. ASSUME NEW p \in Table \X D PROVE Insert(p[1], seq[p[2]]) \in Table
    <3>1. p[1] \in Table /\ seq[p[2]] \in Blocks
      BY <1>1
    <3> HIDE DEF seq
    <3> QED BY <3>1, InsertTyped
  <2> HIDE DEF seq
  <2> QED BY <2>1
<1>4. \A s \in SUBSET D : s # {} => Min(s) \in s /\ Min(s) \in D
  <2>1. D \in SUBSET Nat
    OBVIOUS
  <2> HIDE DEF D
  <2> QED BY <2>1, MinOf
<1>5. \E h : h = Loop(h)
  <2>1. PICK h \in [SUBSET D -> Table] : SetSolves(h, D, NoTable, f, c)
    <3>1. \A s \in SUBSET D : s # {} => c[s] \in s
      BY <1>4
    <3>2. IsFiniteSet(D)
      BY FS_Interval
    <3> HIDE DEF c, f, D
    <3> QED BY <1>2, <1>3, <3>1, <3>2, SetFoldExists
  <2>2. ASSUME NEW s \in SUBSET D
        PROVE  h[s] = IF s = {} THEN NoTable ELSE Insert(h[s \ {Min(s)}], seq[Min(s)])
    <3>1. c[s] = Min(s)
      OBVIOUS
    <3> HIDE DEF c, seq
    <3>2. h[s] = IF s = {} THEN NoTable ELSE f[<<h[s \ {Min(s)}], Min(s)>>]
      <4> HIDE DEF f
      <4> QED BY <2>1, <3>1 DEF SetSolves
    <3>3. s # {} => <<h[s \ {Min(s)}], Min(s)>> \in Table \X D
      BY <1>4
    <3>4. s # {} => f[<<h[s \ {Min(s)}], Min(s)>>] = Insert(h[s \ {Min(s)}], seq[Min(s)])
      BY <3>3
    <3> QED BY <3>2, <3>4
  <2>3. h = Loop(h)
    <3> HIDE DEF seq
    <3> QED BY <1>1, <2>2
  <2> QED BY <2>3
<1>6. iter = Loop(iter)
  BY <1>5
<1>7. NewTable = iter[DOMAIN seq]
  BY DEF NewTable, FoldRight, MapThenFoldSet, NoTable
<1> HIDE DEF iter
<1>8. iter[{}] = NoTable
  BY <1>6
<1>9. ASSUME NEW b \in Blocks PROVE iter[b + 1 .. NBlocks] = Insert(iter[b + 2 .. NBlocks], b)
  <2>1. b + 1 \in 1 .. NBlocks /\ (b + 1) + 1 = b + 2 /\ (b + 1) - 1 = b
    BY DEF Blocks
  <2>2. /\ b + 1 .. NBlocks # {} /\ Min(b + 1 .. NBlocks) = b + 1
        /\ (b + 1 .. NBlocks) \ {b + 1} = b + 2 .. NBlocks
    BY <2>1, LeastOfRest
  <2>3. b + 1 .. NBlocks \in SUBSET (DOMAIN seq)
    BY <1>1, <2>1
  <2>4. seq[b + 1] = b
    BY <1>1, <2>1
  <2> HIDE DEF seq
  <2> QED BY <1>6, <2>2, <2>3, <2>4
<1>10. g[NBlocks] = NoTable
  <2>1. NBlocks + 1 .. NBlocks = {} /\ NBlocks \in 0 .. NBlocks
    OBVIOUS
  <2> QED BY <1>8, <2>1
<1>11. ASSUME NEW b \in Blocks PROVE g[b] = Insert(g[b + 1], b)
  <2>1. b \in 0 .. NBlocks /\ b + 1 \in 0 .. NBlocks /\ (b + 1) + 1 = b + 2
    BY DEF Blocks
  <2> QED BY <1>9, <2>1
<1>12. NewTable = g[0]
  <2>1. 0 \in 0 .. NBlocks /\ 0 + 1 .. NBlocks = D
    OBVIOUS
  <2> QED BY <1>1, <1>7, <2>1
<1> HIDE DEF g
<1> QED BY <1>10, <1>11, <1>12

\* The index as built holds every block.
LEMMA NewTableOK ==
    ASSUME SumsTyped
    PROVE  IndexOK(NewTable, Blocks)
<1> USE BlocksType
<1>1. PICK g : /\ g[NBlocks] = NoTable
               /\ \A b \in Blocks : g[b] = Insert(g[b + 1], b)
               /\ NewTable = g[0]
  BY InsertTrace
<1> DEFINE Holds(b) == /\ IndexOK(g[b], b .. NBlocks - 1)
                       /\ \A k \in Buckets : b <= g[b].head[k]
           S == {b \in 0 .. NBlocks : Holds(b)}
<1>2. NBlocks \in S
  <2>1. IndexTyped(NoTable) /\ \A k \in Buckets : NoTable.head[k] = NBlocks
    BY DEF IndexTyped, NoTable, Empty, Blocks
  <2>2. ASSUME NEW k \in Buckets PROVE Chain(NoTable, k) = <<>>
    <3>1. Strung(NoTable, NoTable.head[k], <<>>)
      BY <2>1 DEF Strung, Empty
    <3> QED BY <2>1, <3>1, StrungIsChain
  <2>3. NBlocks .. NBlocks - 1 = {}
    OBVIOUS
  <2>4. IndexOK(NoTable, {})
    BY <2>1, <2>2 DEF IndexOK
  <2> QED BY <1>1, <2>1, <2>3, <2>4
<1>3. ASSUME NEW b \in 0 .. NBlocks - 1, \A d \in b + 1 .. NBlocks : d \in S PROVE b \in S
  <2>1. b \in Blocks /\ b + 1 \in b + 1 .. NBlocks
    BY DEF Blocks
  <2>2. IndexOK(g[b + 1], b + 1 .. NBlocks - 1) /\ \A k \in Buckets : b + 1 <= g[b + 1].head[k]
    BY <1>3, <2>1
  <2>3. ASSUME NEW k \in Buckets PROVE b < g[b + 1].head[k]
    <3>1. g[b + 1].head[k] \in Nat /\ b \in Nat
      BY <2>2 DEF IndexOK, IndexTyped
    <3> QED BY <2>2, <3>1
  <2>4. b + 1 .. NBlocks - 1 \in SUBSET Blocks /\ (b + 1 .. NBlocks - 1) \cup {b} = b .. NBlocks - 1
    BY DEF Blocks
  <2>5. /\ IndexOK(Insert(g[b + 1], b), (b + 1 .. NBlocks - 1) \cup {b})
        /\ \A k \in Buckets : b <= Insert(g[b + 1], b).head[k]
    BY <2>1, <2>2, <2>3, <2>4, InsertKeeps
  <2>6. Holds(b)
    BY <1>1, <2>1, <2>4, <2>5
  <2>7. b \in 0 .. NBlocks
    OBVIOUS
  <2> HIDE DEF Holds
  <2> QED BY <2>6, <2>7
<1>4. 0 \in S
  <2> HIDE DEF S
  <2>1. \A b \in 0 .. NBlocks - 1 : (\A d \in b + 1 .. NBlocks : d \in S) => b \in S
    BY <1>3
  <2>2. 0 \in 0 .. NBlocks
    OBVIOUS
  <2> QED BY <1>2, <2>1, <2>2, FromTopDown
<1> QED BY <1>1, <1>4 DEF Blocks

-----------------------------------------------------------------------------
(* The temporary file. *)

Held(data, b) == BytesOf(data, b * BlockSize, BlockSize, Len(data))

\* A byte of a stretch of a file, or a zero behind its end.
LEMMA ByteOf ==
    ASSUME NEW data \in Seq(Nat), NEW i \in Nat, NEW n \in Nat, NEW end \in Nat,
           NEW k \in 1 .. n
    PROVE  /\ BytesOf(data, i, n, end)[k] \in Nat
           /\ i + k <= Len(data) /\ i + k <= end => BytesOf(data, i, n, end)[k] = data[i + k]
           /\ ~(i + k <= Len(data) /\ i + k <= end) => BytesOf(data, i, n, end)[k] = 0
<1>1. Len(data) \in Nat /\ i + k \in Nat /\ i + k >= 1
  OBVIOUS
<1>2. i + k <= Len(data) => data[i + k] \in Nat
  BY <1>1
<1>3. i + k <= Least(Len(data), end) <=> i + k <= Len(data) /\ i + k <= end
  BY <1>1 DEF Least
<1>4. BytesOf(data, i, n, end)[k] =
          IF i + k <= Len(data) /\ i + k <= end THEN data[i + k] ELSE 0
  BY <1>3 DEF BytesOf
<1> QED BY <1>2, <1>4

\* A stretch of a file is made of bytes, as many as asked for.
LEMMA BytesOfType ==
    ASSUME NEW data \in Seq(Nat), NEW i \in Nat, NEW n \in Nat, NEW end \in Nat
    PROVE  /\ BytesOf(data, i, n, end) \in [1 .. n -> Nat]
           /\ BytesOf(data, i, n, end) \in Seq(Nat) /\ Len(BytesOf(data, i, n, end)) = n
<1>1. PICK f : f = BytesOf(data, i, n, end)
  OBVIOUS
<1>2. f = [k \in 1 .. n |-> f[k]]
  BY <1>1 DEF BytesOf
<1>3. \A k \in 1 .. n : f[k] \in Nat
  BY <1>1, ByteOf
<1>4. f \in [1 .. n -> Nat]
  BY <1>2, <1>3
<1> QED BY <1>1, <1>4, IsSequence

LEMMA SameFunction ==
    ASSUME NEW D, NEW S, NEW f \in [D -> S], NEW g \in [D -> S],
           \A e \in D : f[e] = g[e]
    PROVE  f = g
OBVIOUS

\* Where byte k of block b is in the file.
LEMMA PlaceOfByte ==
    ASSUME NEW d \in Nat \ {0}, NEW b \in Nat, NEW k \in 1 .. d
    PROVE  /\ b * d \in Nat
           /\ ((b * d + k) - 1) \div d = b /\ ((b * d + k) - 1) % d = k - 1
<1>1. PICK at_b \in Nat : at_b = b * d
  BY Times
<1>2. PICK n \in Nat : n = (at_b + k) - 1
  OBVIOUS
<1>3. b * d <= n /\ n < b * d + d
  BY <1>1, <1>2
<1>4. n \div d = b
  BY <1>3, Divided
<1>5. n % d = n - (n \div d) * d
  <2>1. n = d * (n \div d) + (n % d)
    OBVIOUS
  <2>2. PICK q \in Nat : q = n \div d
    BY Divided
  <2>3. d * q = q * d
    OBVIOUS
  <2> QED BY <2>1, <2>2, <2>3
<1>6. n % d = k - 1
  <2>1. (n \div d) * d = at_b
    BY <1>1, <1>4
  <2>2. n % d = n - at_b
    BY <1>5, <2>1
  <2> QED BY <1>2, <2>2
<1> QED BY <1>1, <1>2, <1>4, <1>6

\* A block written is held, and so is still every other.
LEMMA WriteHolds ==
    ASSUME case \in Cases, NEW data \in Seq(Nat), NEW b \in Nat,
           NEW block \in [1 .. BlockSize -> Nat]
    PROVE  /\ Write(data, b, block) \in Seq(Nat)
           /\ Held(Write(data, b, block), b) = block
           /\ \A c \in Nat : c # b => Held(Write(data, b, block), c) = Held(data, c)
<1> DEFINE end == (b + 1) * BlockSize
           len == IF Len(data) > end THEN Len(data) ELSE end
           new == Write(data, b, block)
<1>1. PICK d \in Nat \ {0} : d = BlockSize
  BY CaseFacts
<1>2. end \in Nat /\ end = b * d + d /\ b * d \in Nat
  <2>1. (b + 1) * d = b * d + d /\ b * d \in Nat
    OBVIOUS
  <2> QED BY <1>1, <2>1
<1> HIDE DEF end
<1>3. len \in Nat /\ end <= len /\ Len(data) <= len /\ Len(data) \in Nat
  BY <1>2
<1>4. \A i \in Nat \ {0} : ((i - 1) % d) + 1 \in 1 .. d
  <2>1. \A i \in Nat \ {0} : i - 1 \in Nat
    OBVIOUS
  <2>2. \A n \in Nat : n % d \in 0 .. d - 1
    OBVIOUS
  <2>3. \A n \in 0 .. d - 1 : n + 1 \in 1 .. d
    OBVIOUS
  <2> QED BY <2>1, <2>2, <2>3
<1>5. new = [i \in 1 .. len |-> IF (i - 1) \div d = b THEN block[((i - 1) % d) + 1]
                                ELSE IF i <= Len(data) THEN data[i] ELSE 0]
  BY <1>1 DEF Write, end
<1> HIDE DEF len, new
<1>6. ASSUME NEW i \in 1 .. len
      PROVE  (IF (i - 1) \div d = b THEN block[((i - 1) % d) + 1]
              ELSE IF i <= Len(data) THEN data[i] ELSE 0) \in Nat
  <2>1. i \in Nat \ {0}
    BY <1>3
  <2>2. block[((i - 1) % d) + 1] \in Nat
    BY <1>1, <1>4, <2>1
  <2>3. i <= Len(data) => data[i] \in Nat
    BY <1>3, <2>1
  <2> QED BY <2>2, <2>3
<1>7. new \in [1 .. len -> Nat]
  BY <1>5, <1>6
<1>8. new \in Seq(Nat) /\ Len(new) = len
  BY <1>3, <1>7, IsSequence
<1>9. \A c \in Nat : c * d \in Nat
  BY Times
<1>10. ASSUME NEW s \in Seq(Nat), NEW c \in Nat
       PROVE  /\ Held(s, c) \in [1 .. d -> Nat]
              /\ \A k \in 1 .. d :
                     Held(s, c)[k] = IF c * d + k <= Len(s) THEN s[c * d + k] ELSE 0
  <2>1. PICK i \in Nat : i = c * d
    BY <1>9
  <2>2. PICK n \in Nat : n = Len(s)
    OBVIOUS
  <2>3. Held(s, c) = BytesOf(s, i, d, n)
    BY <1>1, <2>1, <2>2 DEF Held
  <2>4. BytesOf(s, i, d, n) \in [1 .. d -> Nat]
    BY BytesOfType
  <2>5. ASSUME NEW k \in 1 .. d
        PROVE  BytesOf(s, i, d, n)[k] = IF i + k <= Len(s) THEN s[i + k] ELSE 0
    <3>1. /\ i + k <= Len(s) /\ i + k <= n => BytesOf(s, i, d, n)[k] = s[i + k]
          /\ ~(i + k <= Len(s) /\ i + k <= n) => BytesOf(s, i, d, n)[k] = 0
      BY ONLY ByteOf, d \in Nat, s \in Seq(Nat), i \in Nat, n \in Nat, k \in 1 .. d,
         SMTT(20)
    <3> QED BY <2>2, <3>1
  <2> QED BY <2>1, <2>3, <2>4, <2>5
<1>13. ASSUME NEW k \in 1 .. d PROVE Held(new, b)[k] = block[k]
  <2>1. PICK i \in Nat : i = b * d + k
    BY <1>9
  <2>2. (i - 1) \div d = b /\ (i - 1) % d = k - 1
    BY <2>1, PlaceOfByte
  <2>3. i \in 1 .. len
    BY <1>2, <1>3, <2>1
  <2>4. new[i] = block[(k - 1) + 1]
    BY <1>5, <2>2, <2>3
  <2>5. (k - 1) + 1 = k
    OBVIOUS
  <2>6. Held(new, b)[k] = new[i]
    <3>1. Held(new, b)[k] = IF b * d + k <= Len(new) THEN new[b * d + k] ELSE 0
      BY <1>8, <1>10
    <3> QED BY <1>3, <1>8, <2>1, <2>3, <3>1
  <2> QED BY <2>4, <2>5, <2>6
<1>14. ASSUME NEW c \in Nat, c # b, NEW k \in 1 .. d PROVE Held(new, c)[k] = Held(data, c)[k]
  <2>1. PICK i \in Nat : i = c * d + k
    BY <1>9
  <2>2. (i - 1) \div d = c
    BY <2>1, PlaceOfByte
  <2>3. i >= 1
    BY <1>9, <2>1
  <2>4. CASE i <= len
    <3>1. i \in 1 .. len
      BY <1>3, <2>3, <2>4
    <3>2. new[i] = IF i <= Len(data) THEN data[i] ELSE 0
      BY <1>5, <1>14, <2>2, <3>1
    <3> QED BY <1>8, <1>10, <2>1, <2>4, <3>2
  <2>5. CASE ~(i <= len)
    <3>1. ~(i <= Len(data))
      BY <1>3, <2>5
    <3> QED BY <1>8, <1>10, <2>1, <2>5, <3>1
  <2> QED BY <2>4, <2>5
<1>15. Held(new, b) = block
  <2>1. block \in [1 .. d -> Nat] /\ Held(new, b) \in [1 .. d -> Nat]
    BY <1>1, <1>8, <1>10
  <2>2. \A k \in 1 .. d : Held(new, b)[k] = block[k]
    BY <1>13
  <2>3. PICK h \in [1 .. d -> Nat] : h = Held(new, b)
    BY <2>1
  <2>4. h = block
    <3>1. PICK v \in [1 .. d -> Nat] : v = block
      BY <2>1
    <3>2. \A k \in 1 .. d : h[k] = v[k]
      BY <2>2, <2>3, <3>1
    <3>3. h = v
      BY ONLY h \in [1 .. d -> Nat], v \in [1 .. d -> Nat], <3>2, SameFunction
    <3> QED BY <3>1, <3>3
  <2> QED BY <2>3, <2>4
<1>16. ASSUME NEW c \in Nat, c # b PROVE Held(new, c) = Held(data, c)
  <2>1. Held(new, c) \in [1 .. d -> Nat] /\ Held(data, c) \in [1 .. d -> Nat]
    BY <1>8, <1>10
  <2>2. \A k \in 1 .. d : Held(new, c)[k] = Held(data, c)[k]
    BY <1>14, <1>16
  <2> QED BY <2>1, <2>2, SameFunction
<1> QED BY <1>8, <1>15, <1>16 DEF new

TargetTyped == case \in Cases /\ target \in [Blocks -> [1 .. BlockSize -> Nat]]

\* The file a scan finds holds the blocks known before it.
Copied(T) == FoldSet(LAMBDA b, data : Write(data, b, target[b]), <<>>, T)

\* The temporary file a scan finds holds the blocks known.
LEMMA FileAtFirst ==
    ASSUME TargetTyped, NEW T \in SUBSET Blocks
    PROVE  Copied(T) \in Seq(Nat) /\ \A b \in T : Held(Copied(T), b) = target[b]
<1> DEFINE c == [s \in SUBSET T |-> CHOOSE e \in s : TRUE]
           f == [p \in Seq(Nat) \X T |-> Write(p[1], p[2], target[p[2]])]
           Loop(h) == [s \in SUBSET T |->
                          IF s = {} THEN <<>>
                          ELSE Write(h[s \ {CHOOSE e \in s : TRUE}], CHOOSE e \in s : TRUE,
                                     target[CHOOSE e \in s : TRUE])]
           iter == CHOOSE h : h = Loop(h)
           G == {s \in SUBSET T : /\ iter[s] \in Seq(Nat)
                                  /\ \A b \in s : Held(iter[s], b) = target[b]}
<1> USE BlocksType
<1>1. ASSUME NEW s \in SUBSET T, s # {} PROVE (CHOOSE e \in s : TRUE) \in s
  BY <1>1
<1>2. IsFiniteSet(T)
  <2>1. IsFiniteSet(Blocks)
    BY FS_Interval DEF Blocks
  <2> QED BY <2>1, FS_Subset
<1>3. \A b \in T : b \in Nat /\ target[b] \in [1 .. BlockSize -> Nat]
  BY DEF TargetTyped, Blocks
<1>4. f \in [Seq(Nat) \X T -> Seq(Nat)]
  <2>1. ASSUME NEW p \in Seq(Nat) \X T PROVE Write(p[1], p[2], target[p[2]]) \in Seq(Nat)
    <3>1. p[1] \in Seq(Nat) /\ p[2] \in T
      OBVIOUS
    <3> QED BY <1>3, <3>1, WriteHolds DEF TargetTyped
  <2> QED BY <2>1
<1>5. \E h : h = Loop(h)
  <2>1. PICK h \in [SUBSET T -> Seq(Nat)] : SetSolves(h, T, <<>>, f, c)
    <3>1. \A s \in SUBSET T : s # {} => c[s] \in s
      BY <1>1
    <3>2. <<>> \in Seq(Nat)
      OBVIOUS
    <3> HIDE DEF c, f
    <3> QED BY <1>2, <1>4, <3>1, <3>2, SetFoldExists
  <2>2. ASSUME NEW s \in SUBSET T, s # {}
        PROVE  f[<<h[s \ {c[s]}], c[s]>>] = Write(h[s \ {c[s]}], c[s], target[c[s]])
    <3>1. c[s] \in T /\ h[s \ {c[s]}] \in Seq(Nat)
      BY <1>1, <2>2
    <3> HIDE DEF c
    <3>2. <<h[s \ {c[s]}], c[s]>> \in Seq(Nat) \X T
      BY <3>1
    <3> QED BY <3>2
  <2>3. \A s \in SUBSET T : c[s] = CHOOSE e \in s : TRUE
    OBVIOUS
  <2>4. \A s \in SUBSET T : h[s] = Loop(h)[s]
    <3> HIDE DEF c, f
    <3> QED BY <2>1, <2>2, <2>3 DEF SetSolves
  <2>5. h = Loop(h)
    BY <2>4
  <2> QED BY <2>5
<1>6. iter = Loop(iter)
  BY <1>5
<1>7. Copied(T) = iter[T]
  BY DEF Copied, FoldSet, MapThenFoldSet
<1> HIDE DEF iter
<1>8. {} \in G
  BY <1>6
<1>9. ASSUME NEW s \in SUBSET T, s # {}, \A e \in s : s \ {e} \in G PROVE s \in G
  <2>1. PICK d \in s : d = CHOOSE e \in s : TRUE
    BY <1>1, <1>9
  <2>2. iter[s] = Write(iter[s \ {d}], d, target[d])
    BY <1>6, <1>9, <2>1
  <2>3. iter[s \ {d}] \in Seq(Nat) /\ \A b \in s \ {d} : Held(iter[s \ {d}], b) = target[b]
    BY <1>9
  <2>4. /\ iter[s] \in Seq(Nat) /\ Held(iter[s], d) = target[d]
        /\ \A b \in Nat : b # d => Held(iter[s], b) = Held(iter[s \ {d}], b)
    <3>1. PICK u \in Seq(Nat) : u = iter[s \ {d}]
      BY <2>3
    <3>2. PICK v \in [1 .. BlockSize -> Nat] : v = target[d]
      BY <1>3
    <3>3. d \in Nat /\ case \in Cases
      BY <1>3 DEF TargetTyped
    <3>4. /\ Write(u, d, v) \in Seq(Nat) /\ Held(Write(u, d, v), d) = v
          /\ \A b \in Nat : b # d => Held(Write(u, d, v), b) = Held(u, b)
      BY <3>3, WriteHolds
    <3> QED BY <2>2, <3>1, <3>2, <3>4
  <2>5. \A b \in s : Held(iter[s], b) = target[b]
    BY <1>3, <2>3, <2>4
  <2> QED BY <2>4, <2>5
<1>10. T \in G
  <2> HIDE DEF G
  <2> QED BY <1>2, <1>8, <1>9, FromEmptyOn
<1> QED BY <1>7, <1>10

-----------------------------------------------------------------------------
(* What is found at a window. *)

\* What each block adds to what is found in a chain.
Finds(matched) == [b \in Blocks |-> IF b # matched /\ Matches(b) THEN Sighting(b) ELSE <<>>]

\* A block of the target at the window, or the one behind it.
IsHere(match) ==
    /\ Window(match[2]) = target[match[1]]
    /\ x <= match[2] /\ match[2] + BlockSize <= x + Context

\* A block adds finds that are here, itself first.
LEMMA FindsTyped ==
    ASSUME case \in Cases, x \in Nat, NEW matched, NEW b \in Blocks
    PROVE  /\ Finds(matched)[b] \in Seq(Blocks \X Nat)
           /\ \A m \in 1 .. Len(Finds(matched)[b]) : IsHere(Finds(matched)[b][m])
           /\ Finds(matched)[b] # <<>> => Finds(matched)[b][1] = <<b, x>>
<1>1. PICK d \in Nat \ {0} : d = BlockSize
  BY CaseFacts
<1>2. BlockSize <= Context /\ Context \in Nat /\ (case.seq > 1 => Context = 2 * BlockSize)
  BY CaseFacts
<1>3. CASE b # matched /\ Matches(b) /\ Paired(b)
  <2>1. Finds(matched)[b] = << <<b, x>>, <<b + 1, x + d>> >>
    BY <1>1, <1>3 DEF Finds, Sighting
  <2>2. b + 1 \in Blocks /\ x + d \in Nat /\ case.seq > 1
    BY <1>3 DEF Paired
  <2>3. IsHere(<<b, x>>) /\ IsHere(<<b + 1, x + d>>)
    <3>1. Window(x) = target[b] /\ Window(x + d) = target[b + 1]
      BY <1>1, <1>3 DEF Matches
    <3>2. x + d <= x + Context /\ (x + d) + d <= x + Context /\ x <= x + d
      BY <1>1, <1>2, <2>2
    <3> QED BY <1>1, <3>1, <3>2 DEF IsHere
  <2>4. <<b, x>> \in Blocks \X Nat /\ <<b + 1, x + d>> \in Blocks \X Nat
    BY <2>2
  <2>5. \A s \in Blocks \X Nat, t \in Blocks \X Nat :
            /\ <<s, t>> \in Seq(Blocks \X Nat) /\ Len(<<s, t>>) = 2
            /\ <<s, t>>[1] = s /\ <<s, t>>[2] = t
    OBVIOUS
  <2>6. /\ << <<b, x>>, <<b + 1, x + d>> >> \in Seq(Blocks \X Nat)
        /\ Len(<< <<b, x>>, <<b + 1, x + d>> >>) = 2
    BY <2>4, <2>5
  <2>7. \A m \in 1 .. 2 : m = 1 \/ m = 2
    OBVIOUS
  <2> QED BY <2>1, <2>3, <2>4, <2>5, <2>6, <2>7
<1>4. CASE b # matched /\ Matches(b) /\ ~Paired(b)
  <2>1. Finds(matched)[b] = << <<b, x>> >>
    BY <1>4 DEF Finds, Sighting
  <2>2. IsHere(<<b, x>>)
    <3>1. Window(x) = target[b]
      BY <1>4 DEF Matches
    <3>2. x + d <= x + Context /\ x <= x
      BY <1>1, <1>2
    <3> QED BY <1>1, <3>1, <3>2 DEF IsHere
  <2>3. \A s \in Blocks \X Nat : <<s>> \in Seq(Blocks \X Nat) /\ Len(<<s>>) = 1 /\ <<s>>[1] = s
    OBVIOUS
  <2>4. <<b, x>> \in Blocks \X Nat
    OBVIOUS
  <2>5. \A m \in 1 .. 1 : m = 1
    OBVIOUS
  <2> QED BY <2>1, <2>2, <2>3, <2>4, <2>5
<1>5. CASE ~(b # matched /\ Matches(b))
  BY <1>5 DEF Finds
<1> QED BY <1>3, <1>4, <1>5

\* What is matched is what a walk of the bucket's chain adds.
LEMMA MatchWalks ==
    ASSUME case \in Cases, x \in Nat, IndexTyped(hash), NEW matched
    PROVE  \E h : /\ Walks(h, hash, Finds(matched))
                  /\ MatchChain(matched) = IF ~InBithash(WindowHash) THEN <<>>
                                           ELSE h[hash.head[Bucket(WindowHash)]]
<1> USE BlocksType
<1> DEFINE Loop(h) == [b \in Blocks \cup {Empty} |->
                          IF b = Empty THEN <<>> ELSE Finds(matched)[b] \o h[hash.next[b]]]
           iter == CHOOSE h : h = Loop(h)
<1>1. Blocks \cup {Empty} = 0 .. NBlocks /\ Empty \notin Blocks
  BY DEF Blocks, Empty
<1>2. \E h : h = Loop(h)
  <2>1. Finds(matched) \in [Blocks -> Seq(Blocks \X Nat)]
    <3>1. \A b \in Blocks : Finds(matched)[b] \in Seq(Blocks \X Nat)
      BY FindsTyped
    <3>2. Finds(matched) = [b \in Blocks |-> Finds(matched)[b]]
      BY DEF Finds
    <3> QED BY <3>1, <3>2
  <2>2. PICK h \in [0 .. NBlocks -> Seq(Blocks \X Nat)] : Walks(h, hash, Finds(matched))
    BY <2>1, WalkExists
  <2>3. \A b \in Blocks \cup {Empty} : h[b] = Loop(h)[b]
    BY <1>1, <2>2 DEF Walks
  <2>4. h \in [Blocks \cup {Empty} -> Seq(Blocks \X Nat)]
    BY <1>1, <2>2
  <2>5. h = Loop(h)
    BY <2>3, <2>4
  <2> QED BY <2>5
<1>3. iter = Loop(iter)
  BY <1>2
<1>4. MatchChain(matched) = IF ~InBithash(WindowHash) THEN <<>>
                            ELSE iter[hash.head[Bucket(WindowHash)]]
  BY DEF MatchChain, Walk, Finds
<1> HIDE DEF iter
<1>5. ASSUME NEW b \in 0 .. NBlocks
      PROVE  iter[b] = IF b = Empty THEN <<>> ELSE Finds(matched)[b] \o iter[hash.next[b]]
  BY <1>1, <1>3
<1>6. Walks(iter, hash, Finds(matched))
  BY <1>5 DEF Walks
<1> QED BY <1>4, <1>6

\* Whatever the chain adds is there, and the first of it at the window itself.
LEMMA ChainFinds ==
    ASSUME case \in Cases, x \in Nat, IndexTyped(hash), Bucket(WindowHash) \in Buckets,
           NEW matched
    PROVE  /\ MatchChain(matched) \in Seq(Blocks \X Nat)
           /\ \A i \in 1 .. Len(MatchChain(matched)) : IsHere(MatchChain(matched)[i])
           /\ MatchChain(matched) # <<>> =>
                 \E b \in Blocks : MatchChain(matched)[1] = <<b, x>>
<1>1. PICK h : /\ Walks(h, hash, Finds(matched))
               /\ MatchChain(matched) = IF ~InBithash(WindowHash) THEN <<>>
                                        ELSE h[hash.head[Bucket(WindowHash)]]
  BY MatchWalks
<1>2. PICK ch : Walks(ch, hash, Single)
  BY ChainWalks
<1>3. PICK b \in 0 .. NBlocks : b = hash.head[Bucket(WindowHash)]
  BY DEF IndexTyped
<1>4. Finds(matched) \in [Blocks -> Seq(Blocks \X Nat)]
  <2>1. \A c \in Blocks : Finds(matched)[c] \in Seq(Blocks \X Nat)
    BY FindsTyped
  <2>2. Finds(matched) = [c \in Blocks |-> Finds(matched)[c]]
    BY DEF Finds
  <2> QED BY <2>1, <2>2
<1>5. PICK adds \in [Blocks -> Seq(Blocks \X Nat)] : adds = Finds(matched)
  BY <1>4
<1>6. /\ ch[b] \in Seq(Blocks) /\ h[b] \in Seq(Blocks \X Nat)
      /\ \A i \in 1 .. Len(h[b]) :
             \E j \in 1 .. Len(ch[b]) : \E m \in 1 .. Len(adds[ch[b][j]]) :
                 h[b][i] = adds[ch[b][j]][m]
      /\ h[b] # <<>> => \E j \in 1 .. Len(ch[b]) :
                           adds[ch[b][j]] # <<>> /\ h[b][1] = adds[ch[b][j]][1]
  <2>1. Walks(ch, hash, [c \in Blocks |-> <<c>>])
    BY <1>2 DEF Single
  <2>2. PICK V : V = Blocks \X Nat
    OBVIOUS
  <2>3. Walks(h, hash, adds) /\ adds \in [Blocks -> Seq(V)]
    BY <1>1, <1>5, <2>2
  <2>4. ch[b] \in Seq(Blocks) /\ h[b] \in Seq(V) /\ Gathers(h, ch, adds, b)
    BY <2>1, <2>3, WalkGathers
  <2> QED BY <2>2, <2>4 DEF Gathers
<1>7. \A j \in 1 .. Len(ch[b]) : ch[b][j] \in Blocks
  BY <1>6
<1>8. \A c \in Blocks : /\ \A m \in 1 .. Len(adds[c]) : IsHere(adds[c][m])
                        /\ adds[c] # <<>> => adds[c][1] = <<c, x>>
  BY <1>5, FindsTyped
<1>9. CASE ~InBithash(WindowHash)
  BY <1>1, <1>9
<1>10. CASE InBithash(WindowHash)
  <2>1. MatchChain(matched) = h[b]
    BY <1>1, <1>3, <1>10
  <2>2. ASSUME NEW i \in 1 .. Len(h[b]) PROVE IsHere(h[b][i])
    <3>1. PICK j \in 1 .. Len(ch[b]) : \E m \in 1 .. Len(adds[ch[b][j]]) :
                                           h[b][i] = adds[ch[b][j]][m]
      BY <1>6
    <3> QED BY <1>7, <1>8, <3>1
  <2>3. h[b] # <<>> => \E c \in Blocks : h[b][1] = <<c, x>>
    BY <1>6, <1>7, <1>8
  <2> QED BY <1>6, <2>1, <2>2, <2>3
<1> QED BY <1>9, <1>10

-----------------------------------------------------------------------------
(* The index a scan finds. *)

LEMMA RemoveTyped ==
    ASSUME SumsTyped, NEW table, NEW U \in SUBSET Blocks, IndexOK(table, U), NEW b \in Blocks
    PROVE  RemoveBlockFromHash(table, b) \in Table
<1>1. IndexOK(RemoveBlockFromHash(table, b), U \ {b})
  BY RemoveKeeps
<1> QED BY <1>1 DEF IndexOK, IndexTyped, Table

\* An index in which the chains hold blocks of their bucket alone.
Sound == {table \in Table : IndexOK(table, {})}

\* Taking a block out of a sound index leaves it sound.
LEMMA SoundRemoved ==
    ASSUME SumsTyped, NEW table \in Sound, NEW b \in Blocks
    PROVE  RemoveBlockFromHash(table, b) \in Sound
<1>1. IndexOK(table, {}) /\ {} \in SUBSET Blocks
  BY DEF Sound
<1>2. IndexOK(RemoveBlockFromHash(table, b), {} \ {b})
  BY <1>1, RemoveKeeps
<1>3. IndexOK(RemoveBlockFromHash(table, b), {})
  BY <1>2 DEF IndexOK
<1> QED BY <1>1, <1>3, RemoveTyped DEF Sound

Unlinked(T) == FoldSet(LAMBDA b, table : RemoveBlockFromHash(table, b), NewTable, T)

\* The blocks known before the scan are out of the index, the others in it.
LEMMA IndexAtFirst ==
    ASSUME SumsTyped, NEW T \in SUBSET Blocks
    PROVE  IndexOK(Unlinked(T), Blocks \ T)
<1> DEFINE c == [s \in SUBSET T |-> CHOOSE e \in s : TRUE]
           f == [p \in Sound \X T |-> RemoveBlockFromHash(p[1], p[2])]
           Loop(h) == [s \in SUBSET T |->
                          IF s = {} THEN NewTable
                          ELSE RemoveBlockFromHash(h[s \ {CHOOSE e \in s : TRUE}],
                                                   CHOOSE e \in s : TRUE)]
           iter == CHOOSE h : h = Loop(h)
           G == {s \in SUBSET T : IndexOK(iter[s], Blocks \ s)}
<1> USE BlocksType
<1>1. ASSUME NEW s \in SUBSET T, s # {} PROVE (CHOOSE e \in s : TRUE) \in s
  BY <1>1
<1>2. IsFiniteSet(T)
  <2>1. IsFiniteSet(Blocks)
    BY FS_Interval DEF Blocks
  <2> QED BY <2>1, FS_Subset
<1>3. IndexOK(NewTable, Blocks) /\ NewTable \in Sound
  <2>1. IndexOK(NewTable, Blocks)
    BY NewTableOK
  <2>2. IndexOK(NewTable, {}) /\ NewTable \in Table
    BY <2>1 DEF IndexOK, IndexTyped, Table
  <2> QED BY <2>1, <2>2 DEF Sound
<1>4. f \in [Sound \X T -> Sound]
  <2>1. ASSUME NEW p \in Sound \X T PROVE RemoveBlockFromHash(p[1], p[2]) \in Sound
    <3>1. p[1] \in Sound /\ p[2] \in Blocks
      OBVIOUS
    <3> QED BY <3>1, SoundRemoved
  <2> QED BY <2>1
<1>5. \E h : h = Loop(h)
  <2>1. PICK h \in [SUBSET T -> Sound] : SetSolves(h, T, NewTable, f, c)
    <3>1. \A s \in SUBSET T : s # {} => c[s] \in s
      BY <1>1
    <3> HIDE DEF c, f
    <3> QED BY <1>2, <1>3, <1>4, <3>1, SetFoldExists
  <2>2. ASSUME NEW s \in SUBSET T, s # {}
        PROVE  f[<<h[s \ {c[s]}], c[s]>>] = RemoveBlockFromHash(h[s \ {c[s]}], c[s])
    <3>1. c[s] \in T /\ h[s \ {c[s]}] \in Sound
      BY <1>1, <2>2
    <3> HIDE DEF c
    <3>2. <<h[s \ {c[s]}], c[s]>> \in Sound \X T
      BY <3>1
    <3> QED BY <3>2
  <2>3. \A s \in SUBSET T : c[s] = CHOOSE e \in s : TRUE
    OBVIOUS
  <2>4. \A s \in SUBSET T : h[s] = Loop(h)[s]
    <3> HIDE DEF c, f
    <3> QED BY <2>1, <2>2, <2>3 DEF SetSolves
  <2>5. h = Loop(h)
    BY <2>4
  <2> QED BY <2>5
<1>6. iter = Loop(iter)
  BY <1>5
<1>7. Unlinked(T) = iter[T]
  BY DEF Unlinked, FoldSet, MapThenFoldSet
<1> HIDE DEF iter
<1>8. {} \in G
  BY <1>3, <1>6
<1>9. ASSUME NEW s \in SUBSET T, s # {}, \A e \in s : s \ {e} \in G PROVE s \in G
  <2>1. PICK d \in s : d = CHOOSE e \in s : TRUE
    BY <1>1, <1>9
  <2>2. iter[s] = RemoveBlockFromHash(iter[s \ {d}], d)
    BY <1>6, <1>9, <2>1
  <2>3. IndexOK(iter[s \ {d}], Blocks \ (s \ {d})) /\ d \in Blocks
    BY <1>9
  <2>4. IndexOK(iter[s], (Blocks \ (s \ {d})) \ {d})
    BY <2>2, <2>3, RemoveKeeps
  <2>5. (Blocks \ (s \ {d})) \ {d} = Blocks \ s
    OBVIOUS
  <2> QED BY <2>4, <2>5
<1>10. T \in G
  <2> HIDE DEF G
  <2> QED BY <1>2, <1>8, <1>9, FromEmptyOn
<1> QED BY <1>7, <1>10

-----------------------------------------------------------------------------
(* The folds over what is found. *)

Takes == [known : SUBSET Blocks, hash : Sound, new : Seq(Blocks \X Nat)]

\* One step of the fold over the finds.
LEMMA TakeTyped ==
    ASSUME SumsTyped, NEW s \in Takes, NEW m \in Blocks \X Nat
    PROVE  TakeFound(s, m) \in Takes
<1>1. /\ m[1] \in Blocks /\ s.known \in SUBSET Blocks /\ s.hash \in Sound
      /\ s.new \in Seq(Blocks \X Nat)
  BY DEF Takes
<1>2. RemoveBlockFromHash(s.hash, m[1]) \in Sound
  BY <1>1, SoundRemoved
<1>3. Append(s.new, m) \in Seq(Blocks \X Nat)
  BY <1>1
<1> QED BY <1>1, <1>2, <1>3 DEF TakeFound, Takes

Start == [known |-> known, hash |-> hash, new |-> <<>>]

\* That fold, step by step.
LEMMA TakeTrace ==
    ASSUME SumsTyped, Start \in Takes, NEW m \in Nat, m = Len(found),
           found \in Seq(Blocks \X Nat)
    PROVE  \E g : /\ g[0] = Start
                  /\ \A i \in 1 .. m : g[i] = TakeFound(g[i - 1], found[i])
                  /\ Taken = g[m]
<1> DEFINE Loop(h) == [s \in SUBSET (DOMAIN found) |->
                          IF s = {} THEN Start ELSE TakeFound(h[s \ {Max(s)}], found[Max(s)])]
           iter == CHOOSE h : h = Loop(h)
           f == [p \in Takes \X (1 .. m) |-> TakeFound(p[1], found[p[2]])]
           g == [i \in 0 .. m |-> iter[1 .. i]]
<1>1. DOMAIN found = 1 .. m /\ \A i \in 1 .. m : found[i] \in Blocks \X Nat
  OBVIOUS
<1>2. f \in [Takes \X (1 .. m) -> Takes]
  <2>1. ASSUME NEW p \in Takes \X (1 .. m) PROVE TakeFound(p[1], found[p[2]]) \in Takes
    <3>1. p[1] \in Takes /\ p[2] \in 1 .. m
      OBVIOUS
    <3>2. found[p[2]] \in Blocks \X Nat
      BY <1>1, <3>1
    <3> QED BY <3>1, <3>2, TakeTyped
  <2> QED BY <2>1
<1>3. \E h : h = Loop(h)
  <2>1. PICK h \in [SUBSET (1 .. m) -> Takes] : Solves(h, m, Start, f)
    <3> HIDE DEF f
    <3> QED BY <1>2, FoldExists
  <2>2. ASSUME NEW s \in SUBSET (1 .. m)
        PROVE  h[s] = IF s = {} THEN Start ELSE TakeFound(h[s \ {Max(s)}], found[Max(s)])
    <3>1. CASE s = {}
      BY <2>1, <3>1 DEF Solves
    <3>2. CASE s # {}
      <4>1. Max(s) \in 1 .. m
        BY <3>2, MaxOf
      <4>2. h[s \ {Max(s)}] \in Takes
        OBVIOUS
      <4>3. <<h[s \ {Max(s)}], Max(s)>> \in Takes \X (1 .. m)
        BY <4>1, <4>2
      <4>4. f[<<h[s \ {Max(s)}], Max(s)>>] = TakeFound(h[s \ {Max(s)}], found[Max(s)])
        BY <4>3
      <4> QED BY <2>1, <3>2, <4>4 DEF Solves
    <3> QED BY <3>1, <3>2
  <2>3. h = Loop(h)
    BY <1>1, <2>2
  <2> QED BY <2>3
<1>4. iter = Loop(iter)
  BY <1>3
<1>5. Taken = iter[DOMAIN found]
  BY DEF Taken, FoldLeft, MapThenFoldSet, Start
<1> HIDE DEF iter
<1>6. iter[{}] = Start
  BY <1>4
<1>7. ASSUME NEW i \in 1 .. m PROVE iter[1 .. i] = TakeFound(iter[1 .. i - 1], found[i])
  <2>1. 1 .. i # {} /\ Max(1 .. i) = i /\ (1 .. i) \ {i} = 1 .. i - 1
    <3>1. i \in Nat \ {0}
      OBVIOUS
    <3> QED BY <3>1, MaxOfInterval
  <2>2. 1 .. i \in SUBSET (DOMAIN found)
    BY <1>1
  <2>3. iter[1 .. i] = TakeFound(iter[(1 .. i) \ {Max(1 .. i)}], found[Max(1 .. i)])
    BY <1>4, <2>1, <2>2
  <2> QED BY <2>1, <2>3
<1>8. g[0] = Start
  <2>1. 1 .. 0 = {}
    OBVIOUS
  <2> QED BY <1>6, <2>1
<1>9. \A i \in 1 .. m : g[i] = TakeFound(g[i - 1], found[i])
  BY <1>7
<1>10. Taken = g[m]
  BY <1>1, <1>5
<1> HIDE DEF g
<1> QED BY <1>8, <1>9, <1>10

WindowsTyped ==
    /\ TargetTyped /\ Source \in Seq(Nat)
    /\ chunk.read \in Nat /\ chunk.first \in Nat
    /\ file \in Seq(Nat)

\* What is copied for a find at an offset the buffer holds is what lies there.
LEMMA DataType ==
    ASSUME WindowsTyped, NEW o \in Nat
    PROVE  /\ BlockData(o) \in [1 .. BlockSize -> Nat]
           /\ chunk.first <= o => BlockData(o) = Window(o)
<1>1. BlockSize \in Nat
  BY CaseFacts DEF WindowsTyped, TargetTyped
<1>2. /\ chunk.first + BufOffset(o) \in Nat
      /\ chunk.first <= o => chunk.first + BufOffset(o) = o
  BY DEF WindowsTyped, BufOffset, Above
<1>3. BlockData(o) \in [1 .. BlockSize -> Nat]
  BY <1>1, <1>2, BytesOfType DEF BlockData, Window, WindowsTyped
<1>4. chunk.first <= o => BlockData(o) = Window(o)
  BY <1>2 DEF BlockData
<1> QED BY <1>3, <1>4

\* One block copied.
LEMMA CopyTyped ==
    ASSUME WindowsTyped, NEW data \in Seq(Nat), NEW m \in Blocks \X Nat
    PROVE  Write(data, m[1], BlockData(m[2])) \in Seq(Nat)
<1>1. BlockSize \in Nat /\ m[1] \in Nat /\ m[2] \in Nat /\ case \in Cases
  BY CaseFacts, BlocksType DEF WindowsTyped, TargetTyped, Blocks
<1> QED BY <1>1, DataType, WriteHolds

\* The copies, step by step.
LEMMA CopyTrace ==
    ASSUME WindowsTyped, NEW new \in Seq(Blocks \X Nat), NEW m \in Nat, m = Len(new)
    PROVE  \E g : /\ g[0] = file
                  /\ \A i \in 1 .. m : g[i] = Write(g[i - 1], new[i][1], BlockData(new[i][2]))
                  /\ Copy(new) = g[m]
<1> DEFINE Loop(h) == [s \in SUBSET (DOMAIN new) |->
                          IF s = {} THEN file
                          ELSE Write(h[s \ {Max(s)}], new[Max(s)][1], BlockData(new[Max(s)][2]))]
           iter == CHOOSE h : h = Loop(h)
           V == Seq(Nat)
           f == [p \in V \X (1 .. m) |-> Write(p[1], new[p[2]][1], BlockData(new[p[2]][2]))]
           g == [i \in 0 .. m |-> iter[1 .. i]]
<1>1. DOMAIN new = 1 .. m /\ \A i \in 1 .. m : new[i] \in Blocks \X Nat
  OBVIOUS
<1>2. f \in [V \X (1 .. m) -> V]
  <2>1. ASSUME NEW p \in V \X (1 .. m)
        PROVE  Write(p[1], new[p[2]][1], BlockData(new[p[2]][2])) \in V
    <3>1. p[1] \in V /\ p[2] \in 1 .. m
      OBVIOUS
    <3>2. new[p[2]] \in Blocks \X Nat
      BY <1>1, <3>1
    <3> QED BY <3>1, <3>2, CopyTyped
  <2> QED BY <2>1
<1>3. \E h : h = Loop(h)
  <2>1. PICK h \in [SUBSET (1 .. m) -> V] : Solves(h, m, file, f)
    <3>1. file \in V
      BY DEF WindowsTyped
    <3> HIDE DEF f, V
    <3> QED BY <1>2, <3>1, FoldExists
  <2>2. ASSUME NEW s \in SUBSET (1 .. m)
        PROVE  h[s] = IF s = {} THEN file
                      ELSE Write(h[s \ {Max(s)}], new[Max(s)][1], BlockData(new[Max(s)][2]))
    <3>1. CASE s = {}
      BY <2>1, <3>1 DEF Solves
    <3>2. CASE s # {}
      <4>1. Max(s) \in 1 .. m
        BY <3>2, MaxOf
      <4>2. h[s \ {Max(s)}] \in V
        OBVIOUS
      <4>3. <<h[s \ {Max(s)}], Max(s)>> \in V \X (1 .. m)
        BY <4>1, <4>2
      <4>4. f[<<h[s \ {Max(s)}], Max(s)>>]
                = Write(h[s \ {Max(s)}], new[Max(s)][1], BlockData(new[Max(s)][2]))
        BY <4>3
      <4> QED BY <2>1, <3>2, <4>4 DEF Solves
    <3> QED BY <3>1, <3>2
  <2>3. h = Loop(h)
    BY <1>1, <2>2
  <2> QED BY <2>3
<1>4. iter = Loop(iter)
  BY <1>3
<1>5. Copy(new) = iter[DOMAIN new]
  BY DEF Copy, FoldLeft, MapThenFoldSet
<1> HIDE DEF iter
<1>6. iter[{}] = file
  BY <1>4
<1>7. ASSUME NEW i \in 1 .. m
      PROVE  iter[1 .. i] = Write(iter[1 .. i - 1], new[i][1], BlockData(new[i][2]))
  <2>1. 1 .. i # {} /\ Max(1 .. i) = i /\ (1 .. i) \ {i} = 1 .. i - 1
    <3>1. i \in Nat \ {0}
      OBVIOUS
    <3> QED BY <3>1, MaxOfInterval
  <2>2. 1 .. i \in SUBSET (DOMAIN new)
    BY <1>1
  <2>3. iter[1 .. i] = Write(iter[(1 .. i) \ {Max(1 .. i)}], new[Max(1 .. i)][1],
                             BlockData(new[Max(1 .. i)][2]))
    BY <1>4, <2>1, <2>2
  <2> QED BY <2>1, <2>3
<1>8. g[0] = file
  <2>1. 1 .. 0 = {}
    OBVIOUS
  <2> QED BY <1>6, <2>1
<1>9. \A i \in 1 .. m : g[i] = Write(g[i - 1], new[i][1], BlockData(new[i][2]))
  BY <1>7
<1>10. Copy(new) = g[m]
  BY <1>1, <1>5
<1> HIDE DEF g
<1> QED BY <1>8, <1>9, <1>10

\* What a state of the fold over the finds has to do with the one it started in.
TakesOK(s) ==
    /\ s \in Takes /\ known \subseteq s.known
    /\ IndexOK(s.hash, Blocks \ s.known)
    /\ \A i \in 1 .. Len(s.new) : \E j \in 1 .. Len(found) : s.new[i] = found[j]
    /\ \A b \in s.known \ known : \E i \in 1 .. Len(s.new) : s.new[i][1] = b

\* Taking one find keeps record, index and list of finds in agreement.
LEMMA TakeKeeps ==
    ASSUME SumsTyped, found \in Seq(Blocks \X Nat), NEW s, TakesOK(s), NEW k \in 1 .. Len(found)
    PROVE  TakesOK(TakeFound(s, found[k]))
<1>1. PICK m \in Blocks \X Nat : m = found[k]
  OBVIOUS
<1>2. s \in Takes /\ s.known \in SUBSET Blocks /\ s.hash \in Sound /\ s.new \in Seq(Blocks \X Nat)
  BY DEF TakesOK, Takes
<1>3. PICK t \in Takes : t = TakeFound(s, m)
  BY <1>2, TakeTyped
<1>4. CASE m[1] \in s.known
  <2>1. t = s
    BY <1>3, <1>4 DEF TakeFound
  <2> QED BY <1>1, <1>3, <2>1
<1>5. CASE m[1] \notin s.known
  <2>1. /\ t.known = s.known \cup {m[1]} /\ t.hash = RemoveBlockFromHash(s.hash, m[1])
        /\ t.new = Append(s.new, m)
    BY <1>3, <1>5 DEF TakeFound
  <2>2. m[1] \in Blocks
    BY <1>1
  <2>3. IndexOK(t.hash, Blocks \ t.known)
    <3>1. IndexOK(s.hash, Blocks \ s.known) /\ Blocks \ s.known \in SUBSET Blocks
      BY DEF TakesOK
    <3>2. IndexOK(t.hash, (Blocks \ s.known) \ {m[1]})
      BY <2>1, <2>2, <3>1, RemoveKeeps
    <3>3. (Blocks \ s.known) \ {m[1]} = Blocks \ t.known
      BY <2>1
    <3> QED BY <3>2, <3>3
  <2>4. /\ Len(t.new) = Len(s.new) + 1 /\ Len(s.new) \in Nat
        /\ \A i \in 1 .. Len(s.new) : t.new[i] = s.new[i]
        /\ t.new[Len(s.new) + 1] = m
    BY <1>2, <2>1, Appended
  <2>5. ASSUME NEW i \in 1 .. Len(t.new) PROVE \E j \in 1 .. Len(found) : t.new[i] = found[j]
    <3>1. CASE i \in 1 .. Len(s.new)
      BY <2>4, <3>1 DEF TakesOK
    <3>2. CASE i = Len(s.new) + 1
      BY <1>1, <2>4, <3>2
    <3>3. i \in 1 .. Len(s.new) \/ i = Len(s.new) + 1
      <4>1. PICK n \in Nat : n = Len(s.new) /\ Len(t.new) = n + 1
        BY <2>4
      <4>2. i \in 1 .. n + 1
        BY <4>1
      <4>3. i \in 1 .. n \/ i = n + 1
        BY ONLY n \in Nat, <4>2
      <4> QED BY <4>1, <4>3
    <3> QED BY <3>1, <3>2, <3>3
  <2>6. ASSUME NEW b \in t.known \ known PROVE \E i \in 1 .. Len(t.new) : t.new[i][1] = b
    <3>1. CASE b \in s.known
      <4>1. PICK i \in 1 .. Len(s.new) : s.new[i][1] = b
        BY <2>6, <3>1 DEF TakesOK
      <4>2. t.new[i] = s.new[i] /\ i \in 1 .. Len(t.new)
        BY <2>4, <4>1
      <4> QED BY <4>1, <4>2
    <3>2. CASE b = m[1]
      <4>1. Len(s.new) + 1 \in 1 .. Len(t.new)
        BY <2>4
      <4> QED BY <2>4, <3>2, <4>1
    <3> QED BY <2>1, <3>1, <3>2
  <2>7. known \subseteq t.known
    BY <2>1 DEF TakesOK
  <2> QED BY <1>1, <1>3, <2>3, <2>5, <2>6, <2>7 DEF TakesOK
<1> QED BY <1>4, <1>5

\* What a chunk leaves: an index of the blocks unknown, and finds to copy.
LEMMA TakenOK ==
    ASSUME SumsTyped, found \in Seq(Blocks \X Nat), known \in SUBSET Blocks,
           IndexOK(hash, Blocks \ known)
    PROVE  TakesOK(Taken)
<1>1. PICK m \in Nat : m = Len(found)
  OBVIOUS
<1>2. Start \in Takes
  <2>1. hash \in Sound
    BY DEF IndexOK, IndexTyped, Sound, Table
  <2>2. <<>> \in Seq(Blocks \X Nat)
    OBVIOUS
  <2> QED BY <2>1, <2>2 DEF Start, Takes
<1>3. PICK g : /\ g[0] = Start
               /\ \A i \in 1 .. m : g[i] = TakeFound(g[i - 1], found[i])
               /\ Taken = g[m]
  BY <1>1, <1>2, TakeTrace
<1> DEFINE G == {i \in Nat : i <= m => TakesOK(g[i])}
<1>4. 0 \in G
  <2>1. Start.known = known /\ Start.hash = hash /\ Start.new = <<>>
    BY DEF Start
  <2>2. TakesOK(Start)
    BY <1>2, <2>1 DEF TakesOK
  <2> QED BY <1>3, <2>2
<1>5. ASSUME NEW i \in Nat, i \in G PROVE i + 1 \in G
  <2>1. SUFFICES ASSUME i + 1 <= m PROVE TakesOK(g[i + 1])
    OBVIOUS
  <2>2. i + 1 \in 1 .. m /\ (i + 1) - 1 = i /\ i <= m
    BY <2>1
  <2>3. g[i + 1] = TakeFound(g[i], found[i + 1]) /\ TakesOK(g[i])
    BY <1>3, <1>5, <2>2
  <2> QED BY <1>1, <2>2, <2>3, TakeKeeps
<1>6. m \in G
  <2> HIDE DEF G
  <2> QED BY <1>4, <1>5, FromZeroOn
<1> QED BY <1>3, <1>6

\* Copying finds that are there leaves every block known in the file.
LEMMA CopyHolds ==
    ASSUME WindowsTyped, known \in SUBSET Blocks,
           \A b \in known : Held(file, b) = target[b],
           NEW new \in Seq(Blocks \X Nat),
           \A i \in 1 .. Len(new) : BlockData(new[i][2]) = target[new[i][1]]
    PROVE  /\ Copy(new) \in Seq(Nat)
           /\ \A b \in known : Held(Copy(new), b) = target[b]
           /\ \A i \in 1 .. Len(new) : Held(Copy(new), new[i][1]) = target[new[i][1]]
<1>1. PICK m \in Nat : m = Len(new)
  OBVIOUS
<1>2. PICK g : /\ g[0] = file
               /\ \A i \in 1 .. m : g[i] = Write(g[i - 1], new[i][1], BlockData(new[i][2]))
               /\ Copy(new) = g[m]
  BY <1>1, CopyTrace
<1> DEFINE Has(i) == known \cup {new[j][1] : j \in 1 .. i}
           Good(i) == g[i] \in Seq(Nat) /\ \A b \in Has(i) : Held(g[i], b) = target[b]
           G == {i \in Nat : i <= m => Good(i)}
<1>3. 0 \in G
  <2>1. Has(0) = known
    OBVIOUS
  <2> QED BY <1>2, <2>1 DEF WindowsTyped
<1>4. ASSUME NEW i \in Nat, i \in G PROVE i + 1 \in G
  <2>1. SUFFICES ASSUME i + 1 <= m PROVE Good(i + 1)
    OBVIOUS
  <2>2. i + 1 \in 1 .. m /\ (i + 1) - 1 = i /\ i <= m
    BY <2>1
  <2>3. PICK c \in Blocks, o \in Nat : new[i + 1] = <<c, o>>
    <3>1. new[i + 1] \in Blocks \X Nat
      BY <1>1, <2>2
    <3> QED BY <3>1
  <2>4. g[i + 1] = Write(g[i], c, target[c])
    <3>1. g[i + 1] = Write(g[i], new[i + 1][1], BlockData(new[i + 1][2]))
      BY <1>2, <2>2
    <3>2. BlockData(new[i + 1][2]) = target[new[i + 1][1]]
      BY <1>1, <2>2
    <3> QED BY <2>3, <3>1, <3>2
  <2>5. PICK u \in Seq(Nat) : u = g[i]
    BY <1>4, <2>2
  <2>6. PICK v \in [1 .. BlockSize -> Nat] : v = target[c]
    BY DEF WindowsTyped, TargetTyped
  <2>7. c \in Nat /\ case \in Cases
    BY BlocksType DEF WindowsTyped, TargetTyped, Blocks
  <2>8. /\ Write(u, c, v) \in Seq(Nat) /\ Held(Write(u, c, v), c) = v
        /\ \A b \in Nat : b # c => Held(Write(u, c, v), b) = Held(u, b)
    BY <2>7, WriteHolds
  <2>9. Has(i + 1) = Has(i) \cup {c}
    <3>1. 1 .. i + 1 = (1 .. i) \cup {i + 1}
      OBVIOUS
    <3> QED BY <2>3, <3>1
  <2>10. \A b \in Has(i) : Held(g[i], b) = target[b]
    BY <1>4, <2>2
  <2>11. Has(i) \subseteq Nat
    <3>1. \A j \in 1 .. i : new[j] \in Blocks \X Nat
      BY <1>1, <2>2
    <3>2. Blocks \subseteq Nat
      BY BlocksType DEF Blocks
    <3> QED BY <3>1, <3>2
  <2> HIDE DEF Has
  <2> QED BY <2>4, <2>5, <2>6, <2>8, <2>9, <2>10, <2>11
<1>5. m \in G
  <2> HIDE DEF G
  <2> QED BY <1>3, <1>4, FromZeroOn
<1>6. Good(m)
  BY <1>5
<1>7. known \subseteq Has(m) /\ \A i \in 1 .. m : new[i][1] \in Has(m)
  OBVIOUS
<1> HIDE DEF Has
<1> QED BY <1>1, <1>2, <1>6, <1>7

-----------------------------------------------------------------------------
(* Rolling checksums. *)

\* The power of a sum is the product of the powers.
LEMMA PowerOfSum ==
    ASSUME NEW j \in Nat, NEW k \in Nat
    PROVE  2 ^ (j + k) = 2 ^ j * 2 ^ k
<1> DEFINE Low == 1 .. j
           High == j + 1 .. j + k
           S == (SUBSET Low) \X (SUBSET High)
           T == SUBSET (1 .. j + k)
           f == [p \in S |-> p[1] \cup p[2]]
<1>1. /\ IsFiniteSet(Low) /\ Cardinality(Low) = j
      /\ IsFiniteSet(High) /\ Cardinality(High) = k
      /\ IsFiniteSet(1 .. j + k) /\ Cardinality(1 .. j + k) = j + k
  <2>1. /\ IsFiniteSet(1 .. j) /\ Cardinality(1 .. j) = j
        /\ IsFiniteSet(1 .. j + k) /\ Cardinality(1 .. j + k) = j + k
    <3>1. \A n \in Nat : IsFiniteSet(1 .. n) /\ Cardinality(1 .. n) = n
      BY FS_Interval
    <3>2. j + k \in Nat
      OBVIOUS
    <3> QED BY <3>1, <3>2
  <2>2. j + 1 \in Int /\ j + k \in Int
    OBVIOUS
  <2>3. /\ IsFiniteSet(j + 1 .. j + k)
        /\ Cardinality(j + 1 .. j + k)
              = IF j + 1 > j + k THEN 0 ELSE (j + k) - (j + 1) + 1
    BY <2>2, FS_Interval
  <2> QED BY <2>1, <2>3
<1>2. /\ IsFiniteSet(SUBSET Low) /\ Cardinality(SUBSET Low) = 2 ^ j
      /\ IsFiniteSet(SUBSET High) /\ Cardinality(SUBSET High) = 2 ^ k
      /\ Cardinality(T) = 2 ^ (j + k)
  BY <1>1, FS_SUBSET
<1>3. IsFiniteSet(S) /\ Cardinality(S) = 2 ^ j * 2 ^ k
  <2> HIDE DEF Low, High
  <2> QED BY <1>2, FS_Product
<1>4. Low \cap High = {} /\ Low \cup High = 1 .. j + k
  OBVIOUS
<1>5. f \in Bijection(S, T)
  <2> HIDE DEF Low, High
  <2>1. f \in [S -> T]
    BY <1>4
  <2>2. ASSUME NEW p \in S, NEW q \in S, f[p] = f[q] PROVE p = q
    <3>1. p[1] = f[p] \cap Low /\ p[2] = f[p] \cap High
      BY <1>4
    <3>2. q[1] = f[q] \cap Low /\ q[2] = f[q] \cap High
      BY <1>4
    <3>3. p = <<p[1], p[2]>> /\ q = <<q[1], q[2]>>
      OBVIOUS
    <3> HIDE DEF f
    <3> QED BY <2>2, <3>1, <3>2, <3>3
  <2>3. ASSUME NEW t \in T PROVE \E p \in S : f[p] = t
    <3>1. <<t \cap Low, t \cap High>> \in S
      OBVIOUS
    <3>2. f[<<t \cap Low, t \cap High>>] = t
      BY <1>4, <3>1
    <3> QED BY <3>1, <3>2
  <2> HIDE DEF f, S, T
  <2> QED BY <2>1, <2>2, <2>3 DEF Bijection, Injection, Surjection, IsInjective
<1>6. Cardinality(T) = Cardinality(S)
  <2> HIDE DEF f, S, T
  <2> QED BY <1>3, <1>5, FS_Bijection DEF ExistsBijection
<1> QED BY <1>2, <1>3, <1>6

LEMMA Modulo ==
    ASSUME NEW n \in Int, NEW m \in Nat \ {0}
    PROVE  n % m \in 0 .. m - 1 /\ \E k \in Int : n = (n % m) + k * m
<1>1. n % m \in 0 .. m - 1 /\ n = m * (n \div m) + (n % m) /\ n \div m \in Int
  OBVIOUS
<1>2. PICK k \in Int : k = n \div m
  BY <1>1
<1>3. n = (n % m) + k * m
  BY <1>1, <1>2
<1> QED BY <1>1, <1>3

Sum == [a : Nat, b : Nat]

Zero == [a |-> 0, b |-> 0]

Added(width, r, byte) ==
    [a |-> Wrap(width, r.a + byte), b |-> Wrap(width, r.b + r.a + byte)]

LEMMA WrapType ==
    ASSUME NEW width \in Nat, NEW n \in Int
    PROVE  Wrap(width, n) \in Nat /\ \E k \in Int : Wrap(width, n) = n + k * 2 ^ width
<1>1. PICK m \in Nat \ {0} : m = 2 ^ width
  BY Power
<1>2. PICK k \in Int : n = (n % m) + k * m /\ n % m \in 0 .. m - 1
  BY Modulo
<1>3. PICK j \in Int : j = -k
  OBVIOUS
<1>4. n % m = n + j * m
  <2>1. j * m = -(k * m)
    BY <1>3
  <2>2. PICK r \in Nat : r = n % m
    BY <1>2
  <2>3. PICK p \in Int : p = k * m
    OBVIOUS
  <2>4. r = n - p
    BY <1>2, <2>2, <2>3
  <2> QED BY <2>1, <2>2, <2>3, <2>4
<1>5. n % m \in Nat
  BY <1>2
<1> QED BY <1>1, <1>4, <1>5 DEF Wrap

LEMMA AddedType ==
    ASSUME NEW width \in Nat, NEW r \in Sum, NEW byte \in Nat
    PROVE  Added(width, r, byte) \in Sum
<1>1. r.a \in Nat /\ r.b \in Nat /\ r.a + byte \in Int /\ r.b + r.a + byte \in Int
  BY DEF Sum
<1>2. Wrap(width, r.a + byte) \in Nat /\ Wrap(width, r.b + r.a + byte) \in Nat
  BY <1>1, WrapType
<1> QED BY <1>2 DEF Added, Sum

\* What the sums have come to after each byte of a window.
LEMMA SumTrace ==
    ASSUME NEW width \in Nat, NEW m \in Nat, NEW w \in [1 .. m -> Nat]
    PROVE  \E g : /\ g[0] = Zero /\ \A i \in 0 .. m : g[i] \in Sum
                  /\ \A i \in 1 .. m : g[i] = Added(width, g[i - 1], w[i])
                  /\ CalcRsum(width, w) = g[m]
<1> DEFINE Loop(h) == [s \in SUBSET (DOMAIN w) |->
                          IF s = {} THEN Zero ELSE Added(width, h[s \ {Max(s)}], w[Max(s)])]
           iter == CHOOSE h : h = Loop(h)
           f == [p \in Sum \X (1 .. m) |-> Added(width, p[1], w[p[2]])]
           g == [i \in 0 .. m |-> iter[1 .. i]]
<1>1. DOMAIN w = 1 .. m /\ \A i \in 1 .. m : w[i] \in Nat
  OBVIOUS
<1>2. f \in [Sum \X (1 .. m) -> Sum]
  <2>1. ASSUME NEW p \in Sum \X (1 .. m) PROVE Added(width, p[1], w[p[2]]) \in Sum
    <3>1. p[1] \in Sum /\ p[2] \in 1 .. m
      OBVIOUS
    <3> QED BY <1>1, <3>1, AddedType
  <2> QED BY <2>1
<1>3. Zero \in Sum
  BY DEF Zero, Sum
<1>4. \E h : h = Loop(h)
  <2>1. PICK h \in [SUBSET (1 .. m) -> Sum] : Solves(h, m, Zero, f)
    <3> HIDE DEF f
    <3> QED BY <1>2, <1>3, FoldExists
  <2>2. ASSUME NEW s \in SUBSET (1 .. m)
        PROVE  h[s] = IF s = {} THEN Zero ELSE Added(width, h[s \ {Max(s)}], w[Max(s)])
    <3>1. CASE s = {}
      BY <2>1, <3>1 DEF Solves
    <3>2. CASE s # {}
      <4>1. Max(s) \in 1 .. m
        BY <3>2, MaxOf
      <4>2. h[s \ {Max(s)}] \in Sum
        OBVIOUS
      <4>3. <<h[s \ {Max(s)}], Max(s)>> \in Sum \X (1 .. m)
        BY <4>1, <4>2
      <4>4. f[<<h[s \ {Max(s)}], Max(s)>>] = Added(width, h[s \ {Max(s)}], w[Max(s)])
        BY <4>3
      <4> QED BY <2>1, <3>2, <4>4 DEF Solves
    <3> QED BY <3>1, <3>2
  <2>3. h = Loop(h)
    BY <1>1, <2>2
  <2> QED BY <2>3
<1>5. iter = Loop(iter)
  BY <1>4
<1>6. CalcRsum(width, w) = iter[DOMAIN w]
  BY DEF CalcRsum, FoldLeft, MapThenFoldSet, Zero, Added
<1> HIDE DEF iter
<1>7. iter[{}] = Zero
  BY <1>5
<1>8. ASSUME NEW i \in 1 .. m PROVE iter[1 .. i] = Added(width, iter[1 .. i - 1], w[i])
  <2>1. 1 .. i # {} /\ Max(1 .. i) = i /\ (1 .. i) \ {i} = 1 .. i - 1
    <3>1. i \in Nat \ {0}
      OBVIOUS
    <3> QED BY <3>1, MaxOfInterval
  <2>2. 1 .. i \in SUBSET (DOMAIN w)
    BY <1>1
  <2>3. iter[1 .. i] = Added(width, iter[(1 .. i) \ {Max(1 .. i)}], w[Max(1 .. i)])
    BY <1>5, <2>1, <2>2
  <2> QED BY <2>1, <2>3
<1>9. g[0] = Zero
  <2>1. 1 .. 0 = {}
    OBVIOUS
  <2> QED BY <1>7, <2>1
<1>10. \A i \in 1 .. m : g[i] = Added(width, g[i - 1], w[i])
  BY <1>8
<1>11. CalcRsum(width, w) = g[m]
  BY <1>1, <1>6
<1> HIDE DEF g
<1>12. ASSUME NEW i \in 0 .. m PROVE g[i] \in Sum
  <2> DEFINE G == {k \in Nat : k <= m => g[k] \in Sum}
  <2>1. 0 \in G
    BY <1>3, <1>9
  <2>2. ASSUME NEW k \in Nat, k \in G PROVE k + 1 \in G
    <3>1. SUFFICES ASSUME k + 1 <= m PROVE g[k + 1] \in Sum
      OBVIOUS
    <3>2. k + 1 \in 1 .. m /\ (k + 1) - 1 = k /\ k <= m
      BY <3>1
    <3>3. g[k + 1] = Added(width, g[k], w[k + 1]) /\ g[k] \in Sum
      BY <1>10, <2>2, <3>2
    <3> QED BY <1>1, <3>2, <3>3, AddedType
  <2>3. i \in G
    <3> HIDE DEF G
    <3>1. i \in Nat
      OBVIOUS
    <3>2. \A k \in Nat : k \in G => k + 1 \in G
      BY <2>2
    <3>3. Nat \subseteq G
      BY <2>1, <3>2, FromZeroOn
    <3> QED BY <3>1, <3>3
  <2> QED BY <2>3
<1> QED BY <1>9, <1>10, <1>11, <1>12

\* The sums of a window are numbers.
LEMMA CalcRsumType ==
    ASSUME NEW width \in Nat, NEW m \in Nat, NEW w \in [1 .. m -> Nat]
    PROVE  CalcRsum(width, w) \in Sum
<1>1. PICK g : /\ \A i \in 0 .. m : g[i] \in Sum
               /\ CalcRsum(width, w) = g[m]
  BY SumTrace
<1> QED BY <1>1

Multiples(width) == {k * 2 ^ width : k \in Int}

\* Multiples of a power of two add up to one.
LEMMA MultiplesAdd ==
    ASSUME NEW width \in Nat
    PROVE  /\ Multiples(width) \subseteq Int /\ 0 \in Multiples(width)
           /\ \A p, q \in Multiples(width) :
                  p + q \in Multiples(width) /\ p - q \in Multiples(width)
<1>1. PICK m \in Nat \ {0} : m = 2 ^ width
  BY Power
<1>2. Multiples(width) = {k * m : k \in Int}
  BY <1>1 DEF Multiples
<1>3. 0 = 0 * m /\ \A k \in Int : k * m \in Int
  OBVIOUS
<1>4. ASSUME NEW p \in Multiples(width), NEW q \in Multiples(width)
      PROVE  p + q \in Multiples(width) /\ p - q \in Multiples(width)
  <2>1. PICK i \in Int : p = i * m
    BY <1>2
  <2>2. PICK j \in Int : q = j * m
    BY <1>2
  <2>3. p + q = (i + j) * m /\ p - q = (i - j) * m /\ i + j \in Int /\ i - j \in Int
    BY <2>1, <2>2
  <2> QED BY <1>2, <2>3
<1>5. 0 \in Multiples(width)
  BY <1>2, <1>3
<1>6. Multiples(width) \subseteq Int
  BY <1>2, <1>3
<1> QED BY <1>4, <1>5, <1>6

\* A sum that wraps around differs from it by a multiple of its range.
LEMMA Wrapped ==
    ASSUME NEW width \in Nat, NEW n \in Int
    PROVE  Wrap(width, n) \in Nat /\ \E p \in Multiples(width) : Wrap(width, n) = n + p
<1>1. PICK k \in Int : Wrap(width, n) = n + k * 2 ^ width
  BY WrapType
<1>2. k * 2 ^ width \in Multiples(width)
  BY DEF Multiples
<1> QED BY <1>1, <1>2, WrapType

\* Two numbers that differ by such a multiple wrap to the same sum.
LEMMA RemainderIs ==
    ASSUME NEW m \in Nat \ {0}, NEW r \in 0 .. m - 1, NEW k \in Int
    PROVE  (r + k * m) % m = r
<1>1. PICK n \in Int : n = r + k * m
  OBVIOUS
<1>2. PICK s \in 0 .. m - 1, i \in Int : s = n % m /\ n = s + i * m
  BY Modulo
<1>3. PICK d \in Int : d = i - k
  OBVIOUS
<1>4. r - s = d * m
  <2>1. PICK u \in Int : u = k * m
    OBVIOUS
  <2>2. PICK v \in Int : v = i * m
    OBVIOUS
  <2>3. (i - k) * m = v - u
    BY <2>1, <2>2
  <2>4. r + u = s + v
    BY <1>1, <1>2, <2>1, <2>2
  <2> QED BY <1>3, <2>3, <2>4
<1>5. CASE d >= 1
  <2>1. PICK e \in Nat : d = e + 1
    <3>1. d - 1 \in Nat /\ d = (d - 1) + 1
      BY <1>5
    <3> QED BY <3>1
  <2>2. d * m = e * m + m /\ e * m \in Nat
    BY <2>1
  <2> QED BY <1>4, <2>2
<1>6. CASE d <= -1
  <2>1. PICK e \in Nat : d = -(e + 1)
    <3>1. -d - 1 \in Nat /\ d = -((-d - 1) + 1)
      BY <1>6
    <3> QED BY <3>1
  <2>2. d * m = -(e * m) - m /\ e * m \in Nat
    BY <2>1
  <2> QED BY <1>4, <2>2
<1>7. CASE d = 0
  <2>1. d * m = 0
    BY <1>7
  <2>2. r = s
    BY <1>4, <2>1
  <2> QED BY <1>1, <1>2, <2>2
<1> QED BY <1>5, <1>6, <1>7

\* A number is wrapped alike, whatever multiple of the modulus is added.
LEMMA WrapsAlike ==
    ASSUME NEW width \in Nat, NEW n \in Int, NEW l \in Int, NEW p \in Multiples(width),
           n = l + p
    PROVE  Wrap(width, n) = Wrap(width, l)
<1>1. PICK m \in Nat \ {0} : m = 2 ^ width
  BY Power
<1>2. PICK k \in Int : p = k * m
  BY <1>1 DEF Multiples
<1>3. PICK s \in 0 .. m - 1, j \in Int : s = l % m /\ l = s + j * m
  BY ONLY l \in Int, m \in Nat \ {0}, Modulo
<1>4. PICK i \in Int : i = j + k
  OBVIOUS
<1>5. n = s + i * m
  <2>1. PICK u \in Int : u = k * m
    OBVIOUS
  <2>2. PICK v \in Int : v = j * m
    OBVIOUS
  <2>3. i * m = v + u
    BY <1>4, <2>1, <2>2
  <2>4. n = l + u
    BY <1>2, <2>1
  <2>5. l = s + v
    BY <1>3, <2>2
  <2>6. n = s + (v + u)
    BY ONLY <2>4, <2>5, s \in 0 .. m - 1, m \in Nat \ {0}, u \in Int, v \in Int
  <2> QED BY ONLY <2>3, <2>6
<1>6. n % m = s
  BY ONLY s \in 0 .. m - 1, i \in Int, m \in Nat \ {0}, <1>5, RemainderIs
<1>7. Wrap(width, n) = s /\ Wrap(width, l) = s
  BY <1>1, <1>3, <1>6 DEF Wrap
<1> QED BY <1>7

\* The sums of v are those of w with its first byte out and the last of v in.
Slid(width, d, w, v) ==
    /\ CalcRsum(width, v).a = Wrap(width, CalcRsum(width, w).a + v[d] - w[1])
    /\ CalcRsum(width, v).b
          = Wrap(width, CalcRsum(width, w).b + CalcRsum(width, v).a - d * w[1])

\* The sums of a window one byte on.
LEMMA SlidSums ==
    ASSUME NEW width \in Nat, NEW d \in Nat \ {0}, NEW w \in [1 .. d -> Nat],
           NEW v \in [1 .. d -> Nat], \A i \in 1 .. d - 1 : v[i] = w[i + 1]
    PROVE  Slid(width, d, w, v)
<1> DEFINE M == Multiples(width)
<1>1. PICK g : /\ g[0] = Zero /\ \A i \in 0 .. d : g[i] \in Sum
               /\ \A i \in 1 .. d : g[i] = Added(width, g[i - 1], w[i])
               /\ CalcRsum(width, w) = g[d]
  BY SumTrace
<1>2. PICK h : /\ h[0] = Zero /\ \A i \in 0 .. d : h[i] \in Sum
               /\ \A i \in 1 .. d : h[i] = Added(width, h[i - 1], v[i])
               /\ CalcRsum(width, v) = h[d]
  BY SumTrace
<1>3. PICK l \in Nat : l = w[1]
  OBVIOUS
<1>4. \A i \in 0 .. d : g[i].a \in Nat /\ g[i].b \in Nat /\ h[i].a \in Nat /\ h[i].b \in Nat
  BY <1>1, <1>2 DEF Sum
<1>5. ASSUME NEW i \in 1 .. d
      PROVE  /\ \E p \in M : g[i].a = g[i - 1].a + w[i] + p
             /\ \E p \in M : g[i].b = g[i - 1].b + g[i - 1].a + w[i] + p
  <2>1. i - 1 \in 0 .. d /\ w[i] \in Nat
    OBVIOUS
  <2>2. /\ g[i].a = Wrap(width, g[i - 1].a + w[i])
        /\ g[i].b = Wrap(width, g[i - 1].b + g[i - 1].a + w[i])
    <3>1. g[i] = Added(width, g[i - 1], w[i])
      BY <1>1
    <3> QED BY <3>1 DEF Added
  <2>3. PICK m \in Int, n \in Int :
            m = g[i - 1].a + w[i] /\ n = g[i - 1].b + g[i - 1].a + w[i]
    <3>1. PICK a \in Nat, b \in Nat, c \in Nat : a = g[i - 1].a /\ b = g[i - 1].b /\ c = w[i]
      BY <1>4, <2>1
    <3>2. a + c \in Int /\ b + a + c \in Int
      OBVIOUS
    <3> QED BY <3>1, <3>2
  <2>4. (\E p \in M : Wrap(width, m) = m + p) /\ (\E p \in M : Wrap(width, n) = n + p)
    BY Wrapped
  <2> HIDE DEF M
  <2> QED BY <2>2, <2>3, <2>4
<1>6. ASSUME NEW i \in 1 .. d
      PROVE  /\ h[i].a = Wrap(width, h[i - 1].a + v[i])
             /\ h[i].b = Wrap(width, h[i - 1].b + h[i - 1].a + v[i])
             /\ \E p \in M : h[i].a = h[i - 1].a + v[i] + p
             /\ \E p \in M : h[i].b = h[i - 1].b + h[i - 1].a + v[i] + p
  <2>1. i - 1 \in 0 .. d /\ v[i] \in Nat
    OBVIOUS
  <2>2. /\ h[i].a = Wrap(width, h[i - 1].a + v[i])
        /\ h[i].b = Wrap(width, h[i - 1].b + h[i - 1].a + v[i])
    <3>1. h[i] = Added(width, h[i - 1], v[i])
      BY <1>2
    <3> QED BY <3>1 DEF Added
  <2>3. PICK m \in Int, n \in Int :
            m = h[i - 1].a + v[i] /\ n = h[i - 1].b + h[i - 1].a + v[i]
    <3>1. PICK a \in Nat, b \in Nat, c \in Nat : a = h[i - 1].a /\ b = h[i - 1].b /\ c = v[i]
      BY <1>4, <2>1
    <3>2. a + c \in Int /\ b + a + c \in Int
      OBVIOUS
    <3> QED BY <3>1, <3>2
  <2>4. (\E p \in M : Wrap(width, m) = m + p) /\ (\E p \in M : Wrap(width, n) = n + p)
    BY Wrapped
  <2> HIDE DEF M
  <2> QED BY <2>2, <2>3, <2>4
<1> DEFINE Behind(i) == /\ \E p \in M : h[i].a = g[i + 1].a - l + p
                        /\ \E q \in M : h[i].b = g[i + 1].b - (i + 1) * l + q
           G == {i \in Nat : i <= d - 1 => Behind(i)}
<1>7. M \subseteq Int /\ 0 \in M /\ \A p, q \in M : p + q \in M /\ p - q \in M
  BY MultiplesAdd
<1> HIDE DEF M
<1>8. 0 \in G
  <2>1. 1 \in 1 .. d /\ 1 - 1 = 0 /\ 0 + 1 = 1 /\ 1 * l = l
    OBVIOUS
  <2>2. h[0].a = 0 /\ h[0].b = 0 /\ g[0].a = 0 /\ g[0].b = 0
    BY <1>1, <1>2 DEF Zero
  <2>3. PICK p \in M : g[1].a = g[0].a + l + p
    BY <1>3, <1>5, <2>1
  <2>4. PICK q \in M : g[1].b = g[0].b + g[0].a + l + q
    BY <1>3, <1>5, <2>1
  <2>5. 0 - p \in M /\ 0 - q \in M /\ p \in Int /\ q \in Int
    BY <1>7
  <2>6. g[1].a \in Nat /\ g[1].b \in Nat
    BY <1>4
  <2>7. h[0].a = g[1].a - l + (0 - p) /\ h[0].b = g[1].b - l + (0 - q)
    <3>1. PICK a \in Nat, b \in Nat : a = g[1].a /\ b = g[1].b /\ a = l + p /\ b = l + q
      BY <2>2, <2>3, <2>4, <2>5, <2>6
    <3>2. 0 = a - l + (0 - p) /\ 0 = b - l + (0 - q)
      BY <2>5, <3>1
    <3> QED BY <2>2, <3>1, <3>2
  <2>8. Behind(0)
    BY <2>1, <2>5, <2>7
  <2> QED BY <2>8
<1>9. ASSUME NEW i \in Nat, i \in G PROVE i + 1 \in G
  <2>1. SUFFICES ASSUME i + 1 <= d - 1 PROVE Behind(i + 1)
    <3> HIDE DEF Behind
    <3> QED OBVIOUS
  <2>2. /\ i + 1 \in 1 .. d /\ (i + 1) - 1 = i /\ (i + 1) + 1 \in 1 .. d
        /\ ((i + 1) + 1) - 1 = i + 1 /\ i <= d - 1 /\ i + 1 \in 1 .. d - 1
        /\ i \in 0 .. d /\ i + 1 \in 0 .. d /\ (i + 1) + 1 \in 0 .. d
    BY <2>1
  <2>3. PICK byte \in Nat : byte = v[i + 1] /\ byte = w[(i + 1) + 1]
    BY <2>2
  <2>4. PICK p \in M : h[i].a = g[i + 1].a - l + p
    BY <1>9, <2>2
  <2>5. PICK q \in M : h[i].b = g[i + 1].b - (i + 1) * l + q
    BY <1>9, <2>2
  <2>6. PICK k1 \in M : h[i + 1].a = h[i].a + byte + k1
    BY <1>6, <2>2, <2>3
  <2>7. PICK k2 \in M : g[(i + 1) + 1].a = g[i + 1].a + byte + k2
    BY <1>5, <2>2, <2>3
  <2>8. PICK k3 \in M : h[i + 1].b = h[i].b + h[i].a + byte + k3
    BY <1>6, <2>2, <2>3
  <2>9. PICK k4 \in M : g[(i + 1) + 1].b = g[i + 1].b + g[i + 1].a + byte + k4
    BY <1>5, <2>2, <2>3
  <2>10. /\ p \in Int /\ q \in Int /\ k1 \in Int /\ k2 \in Int /\ k3 \in Int /\ k4 \in Int
         /\ (p + k1) - k2 \in M /\ ((q + p) + k3) - k4 \in M
    BY <1>7
  <2>11. PICK c \in Nat : c = (i + 1) * l /\ ((i + 1) + 1) * l = c + l
    OBVIOUS
  <2>12. /\ h[i].a \in Nat /\ h[i].b \in Nat /\ h[i + 1].a \in Nat /\ h[i + 1].b \in Nat
         /\ g[i + 1].a \in Nat /\ g[i + 1].b \in Nat
         /\ g[(i + 1) + 1].a \in Nat /\ g[(i + 1) + 1].b \in Nat
    BY <1>4, <2>2
  <2>13. h[i + 1].a = g[(i + 1) + 1].a - l + ((p + k1) - k2)
    <3>1. PICK a0 \in Nat, a1 \in Nat, b0 \in Nat, b1 \in Nat :
              /\ a0 = h[i].a /\ a1 = h[i + 1].a /\ b0 = g[i + 1].a /\ b1 = g[(i + 1) + 1].a
      BY <2>12
    <3>2. a0 = b0 - l + p /\ a1 = a0 + byte + k1 /\ b1 = b0 + byte + k2
      BY <2>4, <2>6, <2>7, <3>1
    <3>3. a1 = b1 - l + ((p + k1) - k2)
      BY <2>10, <3>2
    <3> QED BY <3>1, <3>3
  <2>14. h[i + 1].b = g[(i + 1) + 1].b - ((i + 1) + 1) * l + (((q + p) + k3) - k4)
    <3>1. PICK a0 \in Nat, s0 \in Nat, s1 \in Nat, b0 \in Nat, t0 \in Nat, t1 \in Nat :
              /\ a0 = h[i].a /\ s0 = h[i].b /\ s1 = h[i + 1].b
              /\ b0 = g[i + 1].a /\ t0 = g[i + 1].b /\ t1 = g[(i + 1) + 1].b
      BY <2>12
    <3>2. /\ a0 = b0 - l + p /\ s0 = t0 - c + q
          /\ s1 = s0 + a0 + byte + k3 /\ t1 = t0 + b0 + byte + k4
      BY <2>4, <2>5, <2>8, <2>9, <2>11, <3>1
    <3>3. s1 = t1 - (c + l) + (((q + p) + k3) - k4)
      BY <2>10, <3>2
    <3> QED BY <2>11, <3>1, <3>3
  <2> QED BY <2>10, <2>13, <2>14
<1>10. PICK i \in Nat : i = d - 1 /\ i + 1 = d /\ i \in 0 .. d
  OBVIOUS
<1>11. Behind(i)
  <2>1. i \in G
    <3> HIDE DEF G
    <3> QED BY <1>8, <1>9, FromZeroOn
  <2> QED BY <1>10, <2>1
<1>12. d \in 1 .. d /\ d - 1 = i
  BY <1>10
<1>13. PICK p \in M : h[i].a = g[d].a - l + p
  BY <1>10, <1>11
<1>14. PICK q \in M : h[i].b = g[d].b - d * l + q
  BY <1>10, <1>11
<1>15. PICK k \in M : h[d].a = h[i].a + v[d] + k
  BY <1>6, <1>12
<1>16. PICK ga \in Nat, gb \in Nat, hd \in Nat, ha \in Nat, hb \in Nat, e \in Nat :
          /\ ga = g[d].a /\ gb = g[d].b /\ hd = h[d].a /\ ha = h[i].a /\ hb = h[i].b /\ e = v[d]
  <2>1. d \in 0 .. d
    OBVIOUS
  <2>2. v[d] \in Nat
    OBVIOUS
  <2> QED BY <1>4, <1>10, <2>1, <2>2
<1>17. PICK c \in Nat : c = d * l
  OBVIOUS
<1>18. p \in Int /\ q \in Int /\ k \in Int /\ q - k \in M
  BY <1>7
<1>19. ha = ga - l + p /\ hb = gb - c + q /\ hd = ha + e + k
  BY <1>13, <1>14, <1>15, <1>16, <1>17
<1>20. hd = Wrap(width, ga + e - l)
  <2>1. hd = Wrap(width, ha + e)
    BY <1>6, <1>12, <1>16
  <2>2. ha + e \in Int /\ ga + e - l \in Int
    OBVIOUS
  <2>3. ha + e = (ga + e - l) + p
    BY <1>18, <1>19
  <2> QED BY <2>1, <2>2, <2>3, WrapsAlike DEF M
<1>21. h[d].b = Wrap(width, gb + hd - c)
  <2>1. h[d].b = Wrap(width, hb + ha + e)
    BY <1>6, <1>12, <1>16
  <2>2. hb + ha + e \in Int /\ gb + hd - c \in Int
    OBVIOUS
  <2>3. PICK j \in M : j = q - k
    BY <1>18
  <2>4. hb + ha + e = (gb + hd - c) + j
    BY <1>18, <1>19, <2>3
  <2> QED BY <2>1, <2>2, <2>4, WrapsAlike DEF M
<1> QED BY <1>1, <1>2, <1>3, <1>16, <1>17, <1>20, <1>21 DEF Slid

\* Shifted or not, a byte that leaves counts once for each byte of the window.
LEMMA ShiftCounts ==
    ASSUME case \in Cases, NEW byte \in Nat
    PROVE  /\ ShiftedOut(byte) \in Nat
           /\ \E p \in Multiples(case.width) : ShiftedOut(byte) = BlockSize * byte + p
<1>1. PICK s \in Nat, w \in Nat : s = case.blockshift /\ w = case.width
  BY CaseFacts
<1>2. PICK d \in Nat \ {0} : d = BlockSize /\ d = 2 ^ s
  BY <1>1, CaseFacts DEF BlockSize
<1>3. PICK c \in Nat : c = d * byte
  OBVIOUS
<1>4. CASE s < w
  <2>1. byte * d = c
    BY <1>3
  <2>2. ShiftedOut(byte) = Wrap(w, c)
    BY <1>1, <1>2, <1>4, <2>1 DEF ShiftedOut, Word
  <2>3. Wrap(w, c) \in Nat /\ \E p \in Multiples(w) : Wrap(w, c) = c + p
    BY Wrapped
  <2> QED BY <1>1, <1>2, <1>3, <2>2, <2>3
<1>5. CASE ~(s < w)
  <2>1. PICK j \in Nat : s = w + j
    <3>1. s - w \in Nat /\ s = w + (s - w)
      BY <1>5
    <3> QED BY <3>1
  <2>2. PICK m \in Nat \ {0}, n \in Nat : m = 2 ^ w /\ n = 2 ^ j
    BY Power
  <2>3. d = m * n
    BY <1>2, <2>1, <2>2, PowerOfSum
  <2>4. PICK k \in Int : k = -(n * byte)
    OBVIOUS
  <2>5. k * m = -c
    <3>1. (m * n) * byte = (n * byte) * m
      OBVIOUS
    <3>2. PICK e \in Nat : e = n * byte
      OBVIOUS
    <3>3. k * m = -(e * m)
      BY <2>4, <3>2
    <3> QED BY <1>3, <2>3, <3>1, <3>2, <3>3
  <2>6. -c \in Multiples(w)
    BY <2>2, <2>5 DEF Multiples
  <2>7. ShiftedOut(byte) = 0
    BY <1>1, <1>5 DEF ShiftedOut
  <2>8. PICK p \in Multiples(w) : p = -c
    BY <2>6
  <2>9. 0 = c + p
    BY <2>8
  <2> QED BY <1>1, <1>2, <1>3, <2>7, <2>9
<1> QED BY <1>4, <1>5

\* Rolling the sums of a window gives those of the window one byte on, at any
\* width of the sums.
LEMMA RollSlides ==
    ASSUME case \in Cases,
           NEW w \in [1 .. BlockSize -> Nat], NEW v \in [1 .. BlockSize -> Nat],
           \A i \in 1 .. BlockSize - 1 : v[i] = w[i + 1]
    PROVE  Roll(CalcRsumBlock(w), w[1], v[BlockSize]) = CalcRsumBlock(v)
<1>1. PICK d \in Nat \ {0}, z \in Nat : d = BlockSize /\ z = case.width
  BY CaseFacts
<1>2. PICK r \in Sum, t \in Sum : r = CalcRsum(z, w) /\ t = CalcRsum(z, v)
  BY <1>1, CalcRsumType
<1>3. PICK l \in Nat, e \in Nat : l = w[1] /\ e = v[d]
  BY <1>1
<1>4. PICK ra \in Nat, rb \in Nat, ta \in Nat, tb \in Nat :
          ra = r.a /\ rb = r.b /\ ta = t.a /\ tb = t.b
  BY DEF Sum
<1>5. PICK c \in Nat : c = d * l
  OBVIOUS
<1>6. /\ ta = Wrap(z, ra + e - l)
      /\ tb = Wrap(z, rb + ta - c)
  <2>1. /\ w \in [1 .. d -> Nat] /\ v \in [1 .. d -> Nat]
        /\ \A i \in 1 .. d - 1 : v[i] = w[i + 1]
    BY <1>1
  <2>2. /\ CalcRsum(z, v).a = Wrap(z, CalcRsum(z, w).a + v[d] - w[1])
        /\ CalcRsum(z, v).b = Wrap(z, CalcRsum(z, w).b + CalcRsum(z, v).a - d * w[1])
    <3>1. Slid(z, d, w, v)
      BY <2>1, SlidSums
    <3> QED BY <3>1 DEF Slid
  <2> QED BY <1>2, <1>3, <1>4, <1>5, <2>2
<1>7. PICK s \in Nat, p \in Multiples(z) : s = ShiftedOut(l) /\ s = c + p
  BY <1>1, <1>5, ShiftCounts
<1>8. Wrap(z, rb + ta - s) = Wrap(z, rb + ta - c)
  <2>1. p \in Int
    BY MultiplesAdd
  <2>2. rb + ta - c = (rb + ta - s) + p
    BY <1>7, <2>1
  <2>3. rb + ta - s \in Int /\ rb + ta - c \in Int
    OBVIOUS
  <2> QED BY <2>2, <2>3, WrapsAlike
<1>9. Roll(r, l, e) = [a |-> ta, b |-> tb]
  BY <1>1, <1>4, <1>6, <1>7, <1>8 DEF Roll, Word
<1>10. t = [a |-> ta, b |-> tb]
  BY <1>4 DEF Sum
<1> QED BY <1>1, <1>2, <1>3, <1>9, <1>10 DEF CalcRsumBlock

\* The window one byte on.
LEMMA WindowSlides ==
    ASSUME case \in Cases, Source \in Seq(Nat), chunk.read \in Nat, NEW i \in Nat
    PROVE  /\ Window(i) \in [1 .. BlockSize -> Nat] /\ Window(i + 1) \in [1 .. BlockSize -> Nat]
           /\ \A k \in 1 .. BlockSize - 1 : Window(i + 1)[k] = Window(i)[k + 1]
           /\ Byte(i) = Window(i)[1] /\ Byte(i + BlockSize) = Window(i + 1)[BlockSize]
<1>1. PICK d \in Nat \ {0} : d = BlockSize
  BY CaseFacts
<1>2. PICK s \in Seq(Nat), n \in Nat : s = Source /\ n = chunk.read
  OBVIOUS
<1>3. PICK len \in Nat : len = Len(s)
  OBVIOUS
<1> DEFINE Read(j) == IF j <= len /\ j <= n THEN s[j] ELSE 0
<1>4. ASSUME NEW j \in Nat, NEW m \in Nat, NEW k \in 1 .. m
      PROVE  BytesOf(s, j, m, n)[k] = Read(j + k)
  <2>1. /\ j + k <= Len(s) /\ j + k <= n => BytesOf(s, j, m, n)[k] = s[j + k]
        /\ ~(j + k <= Len(s) /\ j + k <= n) => BytesOf(s, j, m, n)[k] = 0
    BY ONLY s \in Seq(Nat), j \in Nat, m \in Nat, n \in Nat, k \in 1 .. m, ByteOf
  <2> QED BY <1>3, <2>1
<1>5. /\ Window(i) = BytesOf(s, i, d, n) /\ Window(i + 1) = BytesOf(s, i + 1, d, n)
      /\ Byte(i) = BytesOf(s, i, 1, n)[1] /\ Byte(i + d) = BytesOf(s, i + d, 1, n)[1]
  BY <1>1, <1>2 DEF Window, Byte
<1>6. i + 1 \in Nat /\ i + d \in Nat /\ 1 \in 1 .. 1 /\ 1 \in 1 .. d /\ d \in 1 .. d
  OBVIOUS
<1>7. Byte(i) = Window(i)[1]
  BY <1>4, <1>5, <1>6
<1>8. Byte(i + d) = Window(i + 1)[d]
  <2>1. (i + d) + 1 = (i + 1) + d
    OBVIOUS
  <2> HIDE DEF Read
  <2> QED BY <1>4, <1>5, <1>6, <2>1
<1>9. ASSUME NEW k \in 1 .. d - 1 PROVE Window(i + 1)[k] = Window(i)[k + 1]
  <2>1. k \in 1 .. d /\ k + 1 \in 1 .. d /\ (i + 1) + k = i + (k + 1)
    OBVIOUS
  <2> HIDE DEF Read
  <2> QED BY <1>4, <1>5, <1>6, <2>1
<1>10. Window(i) \in [1 .. d -> Nat] /\ Window(i + 1) \in [1 .. d -> Nat]
  <2>1. \A j \in Nat : BytesOf(s, j, d, n) \in [1 .. d -> Nat]
    BY BytesOfType
  <2> QED BY <1>5, <1>6, <2>1
<1> QED BY <1>1, <1>7, <1>8, <1>9, <1>10

\* And so the sums of the window are kept up to date.
LEMMA SumsSlide ==
    ASSUME case \in Cases, Source \in Seq(Nat), chunk.read \in Nat, NEW i \in Nat
    PROVE  Roll(CalcRsumBlock(Window(i)), Byte(i), Byte(i + BlockSize))
               = CalcRsumBlock(Window(i + 1))
BY WindowSlides, RollSlides

-----------------------------------------------------------------------------
(* The invariant. *)

FixedInv ==
    /\ case \in Cases
    /\ target \in [Blocks -> [1 .. BlockSize -> Nat]]
    /\ sums \in [Blocks -> Sum]
    /\ input \in Seq(Nat)

\* The record of known blocks, the index and the temporary file agree.
KnownInv ==
    /\ file \in Seq(Nat)
    /\ known \in SUBSET Blocks
    /\ IndexOK(hash, Blocks \ known)
    /\ \A b \in known : Held(file, b) = target[b]

ScanTyped ==
    /\ at \in {"idle", "read", "segment", "scan", "done"}
    /\ size \in Nat /\ offset \in Nat /\ report \in Nat \X Nat
    /\ chunk \in [first : Nat, read : Nat, end : Nat]
    /\ segments \in Seq(Nat \X Nat)
    /\ x \in Nat /\ limit \in Int
    /\ r0 \in Sum /\ r1 \in Sum
    /\ hint \in Blocks \cup {NoHint}
    /\ found \in Seq(Blocks \X Nat)

\* What was reported last is what was scanned.
ReportInv ==
    /\ report[1] = offset /\ (offset > 0 => report = <<offset, size>>)
    /\ at = "idle" => offset = 0 /\ size = 0
    /\ at # "idle" /\ ~case.self => size = Len(input) /\ offset <= size
    /\ at \in {"segment", "scan"} => BytesRead > 0
    /\ at = "done" /\ ~case.self /\ size >= Context => offset = size

\* The parts of the chunk left to scan, and the window, lie within the chunk.
WithinChunk ==
    /\ at \notin {"segment", "scan"} => found = <<>>
    /\ at \in {"segment", "scan"} =>
          \A i \in 1 .. Len(segments) : chunk.first + segments[i][2] <= chunk.end
    /\ at = "scan" => chunk.first <= x /\ limit + Context <= chunk.end

MatcherInv ==
    /\ FixedInv /\ KnownInv /\ ScanTyped /\ ReportInv /\ WithinChunk
    /\ FoundIsThere /\ RollingIsFresh

\* The checksum stored for a block is a pair of numbers.
LEMMA StoredType ==
    ASSUME case \in Cases, NEW block \in [1 .. BlockSize -> Nat]
    PROVE  Stored(block) \in Sum
<1>1. PICK d \in Nat \ {0}, z \in Nat, i \in Nat, j \in Nat :
          d = BlockSize /\ z = case.width /\ i = case.abits /\ j = case.bbits
  BY CaseFacts
<1>2. PICK r \in Sum : r = CalcRsumBlock(block)
  BY <1>1, CalcRsumType DEF CalcRsumBlock
<1>3. PICK m \in Nat \ {0}, n \in Nat \ {0} : m = 2 ^ i /\ n = 2 ^ j
  BY Power
<1>4. PICK p \in Nat, q \in Nat : p = r.a /\ q = r.b
  BY DEF Sum
<1>5. p % m \in Nat /\ q % n \in Nat
  OBVIOUS
<1>6. Stored(block) = [a |-> p % m, b |-> q % n]
  BY <1>1, <1>2, <1>3, <1>4 DEF Stored, Masked
<1> QED BY <1>5, <1>6 DEF Sum

\* The invariant holds at first.
LEMMA InvAtFirst == Init => MatcherInv
<1> SUFFICES ASSUME Init PROVE MatcherInv
  OBVIOUS
<1> USE BlocksType
<1>1. case \in Cases
  BY DEF Init
<1>2. TargetTyped
  <2>1. target \in [Blocks -> [1 .. case.blocksize -> case.bytes]]
    BY DEF Init
  <2>2. case.bytes \subseteq Nat
    BY <1>1, CaseFacts
  <2> QED BY <1>1, <2>1, <2>2 DEF TargetTyped, BlockSize
<1>3. sums \in [Blocks -> Sum]
  <2>1. sums = [b \in Blocks |-> Stored(target[b])]
    BY DEF Init
  <2>2. \A b \in Blocks : Stored(target[b]) \in Sum
    BY <1>1, <1>2, StoredType DEF TargetTyped
  <2> QED BY <2>1, <2>2
<1>4. input \in Seq(Nat)
  <2>1. input \in [1 .. case.length -> case.bytes]
    BY DEF Init
  <2>2. case.bytes \subseteq Nat /\ case.length \in Nat
    BY <1>1, CaseFacts
  <2>3. input \in [1 .. case.length -> Nat]
    BY <2>1, <2>2
  <2> QED BY <2>2, <2>3, IsSequence
<1>5. FixedInv
  BY <1>1, <1>2, <1>3, <1>4 DEF FixedInv, TargetTyped
<1>6. had \in SUBSET Blocks /\ known = had
  BY DEF Init
<1>7. KnownInv
  <2>1. file = Copied(had) /\ hash = Unlinked(had)
    BY DEF Init, Copied, Unlinked
  <2>2. SumsTyped
    BY <1>1, <1>3 DEF SumsTyped, Sum
  <2>3. IndexOK(hash, Blocks \ known)
    BY <1>6, <2>1, <2>2, IndexAtFirst
  <2>4. file \in Seq(Nat) /\ \A b \in known : Held(file, b) = target[b]
    BY <1>2, <1>6, <2>1, FileAtFirst
  <2> QED BY <1>6, <2>3, <2>4 DEF KnownInv
<1>8. /\ at = "idle" /\ size = 0 /\ offset = 0 /\ report = <<0, 0>>
      /\ chunk = [first |-> 0, read |-> 0, end |-> 0]
      /\ segments = <<>> /\ x = 0 /\ limit = 0
      /\ r0 = [a |-> 0, b |-> 0] /\ r1 = [a |-> 0, b |-> 0] /\ hint = NoHint
      /\ found = <<>>
  BY DEF Init
<1>9. ScanTyped
  <2>1. r0 \in Sum /\ r1 \in Sum
    BY <1>8 DEF Sum
  <2>2. \A S : <<>> \in Seq(S)
    OBVIOUS
  <2>3. segments \in Seq(Nat \X Nat) /\ found \in Seq(Blocks \X Nat)
    BY <1>8, <2>2
  <2>4. hint \in Blocks \cup {NoHint}
    BY <1>8
  <2>5. report \in Nat \X Nat /\ chunk \in [first : Nat, read : Nat, end : Nat]
    BY <1>8
  <2> QED BY <1>8, <2>1, <2>3, <2>4, <2>5 DEF ScanTyped
<1>10. ReportInv
  BY <1>8 DEF ReportInv
<1>11. WithinChunk /\ FoundIsThere /\ RollingIsFresh
  BY <1>8 DEF WithinChunk, FoundIsThere, RollingIsFresh
<1> QED BY <1>5, <1>7, <1>9, <1>10, <1>11 DEF MatcherInv

\* What a case fixes stays.
LEMMA FixedStays ==
    ASSUME FixedInv, UNCHANGED fixed
    PROVE  FixedInv' /\ BlockSize' = BlockSize /\ Context' = Context
BY DEF FixedInv, fixed, BlockSize, Context

\* Whether an index is right depends on the stored checksums alone.
LEMMA IndexFrame ==
    ASSUME case' = case, sums' = sums
    PROVE  IndexOK(hash, Blocks \ known)' <=> IndexOK(hash', Blocks \ known')
BY DEF Combine, Xor, Bit, HashShift, TotalBits, AvailBits, Least, Above, HashBits, BlockHash,
       IndexOK, IndexTyped, BucketOf, Bucket, Buckets, Chain, Walk

\* What is to be shown of the record, the index and the file after a step.
LEMMA KnownFrame ==
    ASSUME UNCHANGED fixed
    PROVE  KnownInv' <=> /\ file' \in Seq(Nat) /\ known' \in SUBSET Blocks
                         /\ IndexOK(hash', Blocks \ known')
                         /\ \A b \in known' : Held(file', b) = target[b]
<1>1. (\A b \in known : Held(file, b) = target[b])'
          <=> \A b \in known' : Held(file', b) = target[b]
  BY DEF fixed, Held, BytesOf, BlockSize, Least
<1> QED BY <1>1, IndexFrame DEF KnownInv, fixed

LEMMA KnownStays ==
    ASSUME KnownInv, UNCHANGED <<fixed, file, known, hash>>
    PROVE  KnownInv'
BY KnownFrame DEF KnownInv

There(match) ==
    /\ Window(match[2]) = target[match[1]]
    /\ chunk.first <= match[2] /\ match[2] + BlockSize <= chunk.end

\* What is to be shown of the finds after a step.
LEMMA FoundFrame ==
    ASSUME UNCHANGED fixed, UNCHANGED <<file, chunk>>, found' \in Seq(Blocks \X Nat)
    PROVE  FoundIsThere' <=> \A i \in 1 .. Len(found') : There(found'[i])
<1>1. DOMAIN found' = 1 .. Len(found')
  OBVIOUS
<1> QED BY <1>1 DEF FoundIsThere, There, fixed, Window, Source, BytesOf, BlockSize, Least

LEMMA FoundNow ==
    ASSUME found \in Seq(Blocks \X Nat)
    PROVE  FoundIsThere <=> \A i \in 1 .. Len(found) : There(found[i])
<1>1. DOMAIN found = 1 .. Len(found)
  OBVIOUS
<1> QED BY <1>1 DEF FoundIsThere, There

LEMMA NothingFound ==
    ASSUME found' = <<>>
    PROVE  FoundIsThere'
BY DEF FoundIsThere

\* What is to be shown of the checksums after a step.
LEMMA RollingFrame ==
    ASSUME UNCHANGED fixed, UNCHANGED <<file, chunk>>
    PROVE  RollingIsFresh' <=> (at' = "scan" /\ x' < limit' =>
                                   /\ r0' = CalcRsumBlock(Window(x'))
                                   /\ r1' = Following(x'))
BY DEF RollingIsFresh, fixed, Window, Source, BytesOf, BlockSize, Least, Following,
       CalcRsumBlock, NoSum

\* What a read returns, and when it came short.
LEMMA ReadsFacts ==
    ASSUME FixedInv, KnownInv, ScanTyped
    PROVE  /\ Source \in Seq(Nat) /\ Len(Source) \in Nat
           /\ BytesRead \in Nat /\ (BytesRead = 0 <=> Len(Source) <= offset)
           /\ offset <= Len(Source) => offset + BytesRead <= Len(Source)
           /\ BytesRead < ReadLen => Len(Source) <= offset + BytesRead
<1>1. Source \in Seq(Nat)
  BY DEF FixedInv, KnownInv, Source
<1>2. PICK d \in Nat \ {0} : d = Context
  <2>1. BlockSize \in Nat \ {0} /\ Context \in Nat /\ BlockSize <= Context
    BY CaseFacts DEF FixedInv
  <2>2. Context \in Nat \ {0}
    BY <2>1
  <2> QED BY <2>2
<1>3. PICK r \in Nat \ {0} : r = ReadLen
  <2>1. ChunkSize \in Nat
    BY MatcherAssumption DEF MatcherAssumption
  <2>2. ReadLen = IF ChunkSize > 2 * d THEN ChunkSize ELSE 2 * d
    BY <1>2 DEF ReadLen
  <2>3. (IF ChunkSize > 2 * d THEN ChunkSize ELSE 2 * d) \in Nat \ {0}
    BY <2>1
  <2> QED BY <2>2, <2>3
<1>4. PICK len \in Nat, o \in Nat : len = Len(Source) /\ o = offset
  BY <1>1 DEF ScanTyped
<1>5. PICK n : n = BytesRead
  OBVIOUS
<1>6. n = IF r < (IF len > o THEN len - o ELSE 0) THEN r ELSE (IF len > o THEN len - o ELSE 0)
  BY <1>3, <1>4, <1>5 DEF BytesRead, Least, Above
<1>7. /\ n \in Nat /\ (n = 0 <=> len <= o) /\ (o <= len => o + n <= len)
      /\ (n < r => len <= o + n)
  BY <1>6
<1> QED BY <1>1, <1>3, <1>4, <1>5, <1>7

\* The checksums of a window are numbers.
LEMMA SumsNow ==
    ASSUME FixedInv, KnownInv, ScanTyped, NEW i \in Nat
    PROVE  /\ Window(i) \in [1 .. BlockSize -> Nat]
           /\ CalcRsumBlock(Window(i)) \in Sum /\ Following(i) \in Sum
<1>1. /\ case \in Cases /\ Source \in Seq(Nat) /\ chunk.read \in Nat
      /\ BlockSize \in Nat /\ case.width \in Nat
  BY CaseFacts DEF FixedInv, KnownInv, ScanTyped, Source
<1>2. \A j \in Nat : Window(j) \in [1 .. BlockSize -> Nat]
  BY <1>1, BytesOfType DEF Window
<1>3. \A j \in Nat : CalcRsumBlock(Window(j)) \in Sum
  BY <1>1, <1>2, CalcRsumType DEF CalcRsumBlock
<1>4. i + BlockSize \in Nat
  BY <1>1
<1>5. NoSum \in Sum
  BY DEF NoSum, Sum
<1> QED BY <1>2, <1>3, <1>4, <1>5 DEF Following

\* The hash of the window has a bucket.
LEMMA BucketNow ==
    ASSUME FixedInv, ScanTyped
    PROVE  Bucket(WindowHash) \in Buckets
<1>1. PICK a \in Nat, b \in Nat, c \in Nat : a = r0.a /\ b = r0.b /\ c = r1.b
  BY DEF ScanTyped, Sum
<1>2. case \in Cases /\ sums \in [Blocks -> [a : Nat, b : Nat]]
  BY DEF FixedInv, Sum
<1>3. Masked(a) \in Nat
  <2>1. PICK i \in Nat : i = case.abits
    BY <1>2, CaseFacts
  <2>2. PICK m \in Nat \ {0} : m = 2 ^ i
    BY Power
  <2>3. a % m \in Nat
    OBVIOUS
  <2> QED BY <2>1, <2>2, <2>3 DEF Masked
<1>4. PICK n \in Nat : n = IF case.seq = 1 THEN Masked(a) ELSE c
  BY <1>3
<1>5. WindowHash = Combine(b, n)
  BY <1>1, <1>4 DEF WindowHash
<1>6. WindowHash \in Nat
  BY <1>2, <1>5, HashType
<1> QED BY <1>2, <1>6, HashFacts

\* The part of each thread ends within the chunk.
LEMMA PartsWithin ==
    ASSUME case \in Cases, NEW len \in Nat, Context <= len, NEW n \in Nat \ {0}
    PROVE  /\ Parts(n, len) \in Seq(Nat \X Nat)
           /\ \A i \in 1 .. Len(Parts(n, len)) : Parts(n, len)[i][2] <= len
<1>1. PICK d \in Nat : d = Context
  BY CaseFacts
<1>2. PICK room \in Nat : room = len - d
  BY <1>1
<1>3. PICK part \in Nat : part = room \div n /\ part * n <= room
  BY Divided
<1> DEFINE f == [i \in 1 .. n |-> <<(i - 1) * part, IF i = n THEN len ELSE i * part + d>>]
<1>4. Parts(n, len) = f
  BY <1>1, <1>2, <1>3 DEF Parts
<1>5. ASSUME NEW i \in 1 .. n
      PROVE  /\ (i - 1) * part \in Nat
             /\ (IF i = n THEN len ELSE i * part + d) \in Nat
             /\ (IF i = n THEN len ELSE i * part + d) <= len
  <2>1. i \in Nat /\ i - 1 \in Nat /\ i <= n
    OBVIOUS
  <2>2. (i - 1) * part \in Nat
    BY <2>1, Times
  <2>3. i * part \in Nat /\ i * part <= n * part
    BY <2>1, Times
  <2>4. n * part = part * n
    OBVIOUS
  <2>5. PICK e \in Nat : e = i * part /\ e <= room
    BY <1>3, <2>3, <2>4
  <2>6. e + d <= len /\ e + d \in Nat
    BY <1>1, <1>2, <2>5
  <2> QED BY <2>2, <2>5, <2>6
<1>6. f \in [1 .. n -> Nat \X Nat]
  BY <1>5
<1>7. f \in Seq(Nat \X Nat) /\ Len(f) = n
  BY <1>6, IsSequence
<1>8. \A i \in 1 .. n : f[i][2] <= len
  BY <1>5
<1> QED BY <1>4, <1>7, <1>8

\* At least one thread scans a chunk.
LEMMA SomeThreads ==
    ASSUME case \in Cases, NEW len \in Nat, Context <= len, NEW n \in Threads(len)
    PROVE  n \in Nat \ {0}
<1>1. PICK m \in Nat \ {0}, most \in Nat \ {0} : m = MinPerThread /\ most = MaxThreads
  BY MatcherAssumption DEF MatcherAssumption
<1>2. PICK room \in Nat : room = len - Context
  <2>1. Context \in Nat
    BY CaseFacts
  <2> QED BY <2>1
<1>3. PICK k \in 1 .. most :
          n = IF k > 1 /\ room >= 2 * m THEN Least(k, room \div m) ELSE 1
  BY <1>1, <1>2 DEF Threads
<1>4. room >= 2 * m => room \div m \in Nat \ {0}
  <2>1. PICK q \in Nat : q = room \div m /\ room < q * m + m
    BY Divided
  <2>2. q = 0 => q * m = 0
    OBVIOUS
  <2> QED BY <2>1, <2>2
<1>5. k \in Nat \ {0}
  OBVIOUS
<1> QED BY <1>3, <1>4, <1>5 DEF Least

\* Within a chunk the report stays what it was.
LEMMA ReportStays ==
    ASSUME ReportInv, UNCHANGED <<fixed, file, size, offset, report>>,
           at \in {"segment", "scan"}, at' \in {"segment", "scan"}
    PROVE  ReportInv'
BY DEF ReportInv, fixed, BytesRead, ReadLen, Least, Above, Source, Context

-----------------------------------------------------------------------------
(* Each action keeps it. *)

LEMMA KeptBySubmitBlocks == MatcherInv /\ SubmitBlocks => MatcherInv'
<1> SUFFICES ASSUME MatcherInv, SubmitBlocks PROVE MatcherInv'
  OBVIOUS
<1>1. FixedInv /\ KnownInv /\ ScanTyped /\ ReportInv /\ WithinChunk
  BY DEF MatcherInv
<1>2. /\ at = "idle" /\ known = {}
      /\ UNCHANGED <<fixed, hash, at, readVars, scanVars, found, jumps>>
  BY DEF SubmitBlocks
<1>3. PICK b \in Blocks : known' = {b} /\ file' = Write(file, b, target[b])
  BY DEF SubmitBlocks
<1>4. FixedInv'
  BY <1>1, <1>2, FixedStays
<1>5. KnownInv'
  <2>1. PICK v \in [1 .. BlockSize -> Nat] : v = target[b]
    BY <1>1 DEF FixedInv
  <2>2. b \in Nat /\ case \in Cases /\ file \in Seq(Nat)
    BY <1>1, BlocksType DEF Blocks, FixedInv, KnownInv
  <2>3. Write(file, b, v) \in Seq(Nat) /\ Held(Write(file, b, v), b) = v
    BY <2>2, WriteHolds
  <2>4. IndexOK(hash', Blocks \ known')
    BY <1>1, <1>2, <1>3 DEF KnownInv, IndexOK
  <2> QED BY <1>2, <1>3, <2>1, <2>3, <2>4, KnownFrame
<1>6. ScanTyped'
  BY <1>1, <1>2 DEF ScanTyped, readVars, scanVars
<1>7. found = <<>> /\ found' = <<>> /\ at' = "idle"
  BY <1>1, <1>2 DEF WithinChunk
<1>8. ReportInv'
  BY <1>1, <1>2, <1>7 DEF ReportInv, readVars
<1>9. WithinChunk' /\ FoundIsThere' /\ RollingIsFresh'
  BY <1>7 DEF WithinChunk, FoundIsThere, RollingIsFresh
<1> QED BY <1>4, <1>5, <1>6, <1>8, <1>9 DEF MatcherInv

LEMMA KeptByBeginScan == MatcherInv /\ BeginScan => MatcherInv'
<1> SUFFICES ASSUME MatcherInv, BeginScan PROVE MatcherInv'
  OBVIOUS
<1>1. FixedInv /\ KnownInv /\ ScanTyped /\ ReportInv /\ WithinChunk
  BY DEF MatcherInv
<1>2. /\ at = "idle" /\ size' = Len(Source)
      /\ at' = IF Len(Source) < Context THEN "done" ELSE "read"
      /\ UNCHANGED <<fixed, file, known, hash, offset, chunk, report, scanVars, found, jumps>>
  BY DEF BeginScan
<1>3. FixedInv' /\ KnownInv' /\ Context' = Context
  BY <1>1, <1>2, FixedStays, KnownStays
<1>4. Len(Source) \in Nat /\ Context \in Nat
  BY <1>1, ReadsFacts, CaseFacts DEF FixedInv
<1>5. ScanTyped'
  BY <1>1, <1>2, <1>4 DEF ScanTyped, scanVars
<1>6. found = <<>> /\ found' = <<>> /\ at' \notin {"segment", "scan", "idle"}
  BY <1>1, <1>2 DEF WithinChunk
<1>7. ReportInv'
  <2>1. offset' = 0 /\ report'[1] = 0
    BY <1>1, <1>2 DEF ReportInv
  <2>2. ~case'.self => size' = Len(input')
    BY <1>2 DEF fixed, Source
  <2>3. at' = "done" => ~(size' >= Context')
    BY <1>2, <1>3, <1>4
  <2>4. offset' <= size'
    BY <1>2, <1>4, <2>1
  <2> QED BY <1>6, <2>1, <2>2, <2>3, <2>4 DEF ReportInv
<1>8. WithinChunk' /\ FoundIsThere' /\ RollingIsFresh'
  BY <1>6 DEF WithinChunk, FoundIsThere, RollingIsFresh
<1> QED BY <1>3, <1>5, <1>7, <1>8 DEF MatcherInv

LEMMA KeptByReadChunk == MatcherInv /\ ReadChunk => MatcherInv'
<1> SUFFICES ASSUME MatcherInv, ReadChunk PROVE MatcherInv'
  OBVIOUS
<1>1. FixedInv /\ KnownInv /\ ScanTyped /\ ReportInv /\ WithinChunk
  BY DEF MatcherInv
<1>2. PICK first, data, end, read, n :
          /\ first = Above(offset, Context) /\ data = offset + BytesRead
          /\ end = data + Context
          /\ read = IF data < size THEN Least(size, end) ELSE data
          /\ chunk' = [first |-> first, read |-> read, end |-> end]
          /\ n \in Threads(end - first) /\ segments' = Parts(n, end - first)
  BY DEF ReadChunk
<1>3. /\ at = "read" /\ BytesRead > 0 /\ at' = "segment"
      /\ UNCHANGED <<fixed, file, known, hash, size, offset, report, x, limit, r0, r1, hint,
                     found, jumps>>
  BY DEF ReadChunk
<1>4. FixedInv' /\ KnownInv'
  BY <1>1, <1>3, FixedStays, KnownStays
<1>5. PICK c \in Nat, o \in Nat, k \in Nat, s \in Nat :
          c = Context /\ o = offset /\ k = BytesRead /\ s = size
  BY <1>1, ReadsFacts, CaseFacts DEF FixedInv, ScanTyped
<1>6. /\ first \in Nat /\ data \in Nat /\ end \in Nat /\ read \in Nat
      /\ first <= end /\ c <= end - first /\ end - first \in Nat
  <2>1. first = IF o > c THEN o - c ELSE 0
    BY <1>2, <1>5 DEF Above
  <2>2. data = o + k /\ end = (o + k) + c
    BY <1>2, <1>5
  <2>3. read = IF data < s THEN (IF s < end THEN s ELSE end) ELSE data
    BY <1>2, <1>5 DEF Least
  <2> QED BY <2>1, <2>2, <2>3
<1>7. /\ segments' \in Seq(Nat \X Nat)
      /\ \A i \in 1 .. Len(segments') : segments'[i][2] <= end - first
  <2>1. case \in Cases /\ Context <= end - first
    BY <1>1, <1>5, <1>6 DEF FixedInv
  <2>2. n \in Nat \ {0}
    BY <1>2, <1>6, <2>1, SomeThreads
  <2> QED BY <1>2, <1>6, <2>1, <2>2, PartsWithin
<1>8. ScanTyped'
  BY <1>1, <1>2, <1>3, <1>6, <1>7 DEF ScanTyped
<1>9. found = <<>> /\ found' = <<>>
  BY <1>1, <1>3 DEF WithinChunk
<1>10. ReportInv'
  <2>1. BytesRead' = BytesRead
    BY <1>3 DEF fixed, BytesRead, ReadLen, Least, Above, Source, Context
  <2> QED BY <1>1, <1>3, <2>1 DEF ReportInv, fixed
<1>11. WithinChunk'
  <2>1. chunk'.first = first /\ chunk'.end = end
    BY <1>2
  <2>2. ASSUME NEW i \in 1 .. Len(segments') PROVE first + segments'[i][2] <= end
    <3>1. segments'[i] \in Nat \X Nat
      BY <1>7
    <3>2. segments'[i][2] \in Nat /\ segments'[i][2] <= end - first
      BY <1>7, <3>1
    <3> QED BY <1>6, <3>2
  <2> QED BY <1>3, <2>1, <2>2 DEF WithinChunk
<1>12. FoundIsThere' /\ RollingIsFresh'
  BY <1>3, <1>9 DEF FoundIsThere, RollingIsFresh
<1> QED BY <1>4, <1>8, <1>10, <1>11, <1>12 DEF MatcherInv

LEMMA KeptByReadNothing == MatcherInv /\ ReadNothing => MatcherInv'
<1> SUFFICES ASSUME MatcherInv, ReadNothing PROVE MatcherInv'
  OBVIOUS
<1>1. FixedInv /\ KnownInv /\ ScanTyped /\ ReportInv /\ WithinChunk
  BY DEF MatcherInv
<1>2. /\ at = "read" /\ BytesRead = 0 /\ at' = "done"
      /\ UNCHANGED <<fixed, file, known, hash, readVars, scanVars, found, jumps>>
  BY DEF ReadNothing
<1>3. FixedInv' /\ KnownInv'
  BY <1>1, <1>2, FixedStays, KnownStays
<1>4. ScanTyped'
  BY <1>1, <1>2 DEF ScanTyped, readVars, scanVars
<1>5. found = <<>> /\ found' = <<>>
  BY <1>1, <1>2 DEF WithinChunk
<1>6. ReportInv'
  <2>1. ~case.self => offset = size
    <3>1. Len(Source) <= offset
      BY <1>1, <1>2, ReadsFacts
    <3>2. ~case.self => size = Len(Source) /\ offset <= size
      BY <1>1, <1>2 DEF ReportInv, Source
    <3>3. offset \in Nat /\ size \in Nat
      BY <1>1 DEF ScanTyped
    <3> QED BY <3>1, <3>2, <3>3
  <2> QED BY <1>1, <1>2, <2>1 DEF ReportInv, fixed, readVars
<1>7. WithinChunk' /\ FoundIsThere' /\ RollingIsFresh'
  BY <1>2, <1>5 DEF WithinChunk, FoundIsThere, RollingIsFresh
<1> QED BY <1>3, <1>4, <1>6, <1>7 DEF MatcherInv

LEMMA KeptByBeginSegment == MatcherInv /\ BeginSegment => MatcherInv'
<1> SUFFICES ASSUME MatcherInv, BeginSegment PROVE MatcherInv'
  OBVIOUS
<1>1. FixedInv /\ KnownInv /\ ScanTyped /\ ReportInv /\ WithinChunk
  BY DEF MatcherInv
<1>2. /\ at = "segment" /\ segments # <<>>
      /\ x' = chunk.first + Head(segments)[1]
      /\ limit' = chunk.first + Head(segments)[2] - Context
      /\ r0' = CalcRsumBlock(Window(x')) /\ r1' = Following(x')
      /\ hint' = NoHint /\ segments' = Tail(segments) /\ at' = "scan"
      /\ UNCHANGED <<fixed, file, known, hash, readVars, found, jumps>>
  BY DEF BeginSegment
<1>3. FixedInv' /\ KnownInv' /\ Context' = Context
  BY <1>1, <1>2, FixedStays, KnownStays
<1>4. PICK p \in Nat, q \in Nat : Head(segments) = <<p, q>> /\ segments[1] = <<p, q>>
  <2>1. segments \in Seq(Nat \X Nat) /\ segments # <<>>
    BY <1>1, <1>2 DEF ScanTyped
  <2>2. Head(segments) \in Nat \X Nat /\ Head(segments) = segments[1]
    BY <2>1
  <2> QED BY <2>2
<1>5. PICK f \in Nat, e \in Nat, c \in Nat : f = chunk.first /\ e = chunk.end /\ c = Context
  BY <1>1, CaseFacts DEF ScanTyped, FixedInv
<1>6. /\ segments \in Seq(Nat \X Nat) /\ segments' \in Seq(Nat \X Nat)
      /\ Len(segments) >= 1 /\ Len(segments') = Len(segments) - 1
      /\ \A i \in 1 .. Len(segments') : segments'[i] = segments[i + 1]
  <2>1. segments \in Seq(Nat \X Nat) /\ segments # <<>>
    BY <1>1, <1>2 DEF ScanTyped
  <2> QED BY <1>2, <2>1
<1>7. x' = f + p /\ x' \in Nat /\ limit' = f + q - c /\ limit' \in Int
  <2>1. Head(segments)[1] = p /\ Head(segments)[2] = q
    BY <1>4
  <2>2. x' = f + p /\ limit' = f + q - c
    BY <1>2, <1>5, <2>1
  <2> QED BY <2>2
<1>8. r0' \in Sum /\ r1' \in Sum
  BY <1>1, <1>2, <1>7, SumsNow
<1>9. ScanTyped'
  BY <1>1, <1>2, <1>6, <1>7, <1>8 DEF ScanTyped, readVars
<1>10. ReportInv'
  BY <1>1, <1>2, ReportStays DEF readVars
<1>11. WithinChunk'
  <2>1. \A i \in 1 .. Len(segments) : f + segments[i][2] <= e
    BY <1>1, <1>2, <1>5 DEF WithinChunk
  <2>2. f + q <= e
    BY <1>4, <1>6, <2>1
  <2>3. ASSUME NEW i \in 1 .. Len(segments') PROVE f + segments'[i][2] <= e
    <3>1. i + 1 \in 1 .. Len(segments)
      BY <1>6
    <3> QED BY <1>6, <2>1, <3>1
  <2>4. chunk'.first = f /\ chunk'.end = e
    BY <1>2, <1>5 DEF readVars
  <2>5. f <= x' /\ limit' + c <= e
    BY <1>7, <2>2
  <2> QED BY <1>2, <1>3, <1>5, <2>3, <2>4, <2>5 DEF WithinChunk
<1>12. FoundIsThere'
  <2>1. found \in Seq(Blocks \X Nat) /\ FoundIsThere
    BY <1>1 DEF ScanTyped, MatcherInv
  <2> QED BY <1>2, <2>1, FoundFrame, FoundNow DEF readVars
<1>13. RollingIsFresh'
  BY <1>2, RollingFrame DEF readVars
<1> QED BY <1>3, <1>9, <1>10, <1>11, <1>12, <1>13 DEF MatcherInv

\* The windows after a jump.
LEMMA JumpKeeps ==
    ASSUME MatcherInv, at = "scan", x < limit, NEW n \in {1, 2}, Jump(n),
           UNCHANGED <<fixed, file, known, hash, at, readVars, segments, limit>>
    PROVE  /\ x' \in Nat /\ x <= x' /\ r0' \in Sum /\ r1' \in Sum
           /\ RollingIsFresh'
<1>1. FixedInv /\ KnownInv /\ ScanTyped /\ RollingIsFresh
  BY DEF MatcherInv
<1>2. /\ x' = x + n * BlockSize
      /\ IF x' >= limit THEN UNCHANGED <<r0, r1>>
         ELSE /\ r0' = IF case.seq > 1 /\ n = 1 THEN r1 ELSE CalcRsumBlock(Window(x'))
              /\ r1' = Following(x')
  BY DEF Jump
<1>3. PICK d \in Nat, y \in Nat : d = BlockSize /\ y = x
  BY <1>1, CaseFacts DEF FixedInv, ScanTyped
<1>4. x' = y + n * d /\ x' \in Nat /\ y <= x'
  <2>1. n = 1 \/ n = 2
    OBVIOUS
  <2>2. CASE n = 1
    BY <1>2, <1>3, <2>2
  <2>3. CASE n = 2
    BY <1>2, <1>3, <2>3
  <2> QED BY <2>1, <2>2, <2>3
<1>5. CASE x' >= limit
  <2>1. r0' = r0 /\ r1' = r1
    BY <1>2, <1>5
  <2>2. limit' = limit /\ limit \in Int
    BY <1>1 DEF ScanTyped
  <2>3. ~(x' < limit')
    BY <1>4, <1>5, <2>2
  <2>4. RollingIsFresh'
    BY <2>3 DEF RollingIsFresh
  <2> QED BY <1>1, <1>3, <1>4, <2>1, <2>4 DEF ScanTyped
<1>6. CASE ~(x' >= limit)
  <2>1. r0' = CalcRsumBlock(Window(x'))
    <3>1. CASE case.seq > 1 /\ n = 1
      <4>1. r0' = r1
        BY <1>2, <1>6, <3>1
      <4>2. r1 = Following(x)
        BY <1>1 DEF RollingIsFresh
      <4>3. x' = x + BlockSize
        BY <1>3, <1>4, <3>1
      <4> QED BY <3>1, <4>1, <4>2, <4>3 DEF Following
    <3>2. CASE ~(case.seq > 1 /\ n = 1)
      BY <1>2, <1>6, <3>2
    <3> QED BY <3>1, <3>2
  <2>2. r1' = Following(x')
    BY <1>2, <1>6
  <2>3. r0' \in Sum /\ r1' \in Sum
    BY <1>1, <1>4, <2>1, <2>2, SumsNow
  <2>4. RollingIsFresh'
    BY <2>1, <2>2, RollingFrame DEF readVars
  <2> QED BY <1>3, <1>4, <2>3, <2>4
<1> QED BY <1>5, <1>6

\* What is at a window that is tested is within the chunk.
LEMMA HereIsThere ==
    ASSUME MatcherInv, at = "scan", x < limit, NEW match \in Blocks \X Nat, IsHere(match)
    PROVE  There(match)
<1>1. ScanTyped /\ FixedInv /\ WithinChunk
  BY DEF MatcherInv
<1>2. PICK y \in Nat, l \in Int, f \in Nat, e \in Nat, c \in Nat, d \in Nat, o \in Nat :
          /\ y = x /\ l = limit /\ f = chunk.first /\ e = chunk.end
          /\ c = Context /\ d = BlockSize /\ o = match[2]
  BY <1>1, CaseFacts DEF ScanTyped, FixedInv
<1>3. f <= y /\ l + c <= e /\ y < l
  BY <1>1, <1>2 DEF WithinChunk
<1>4. y <= o /\ o + d <= y + c /\ Window(match[2]) = target[match[1]]
  BY <1>2 DEF IsHere
<1>5. f <= o /\ o + d <= e
  BY <1>2, <1>3, <1>4
<1> QED BY <1>2, <1>4, <1>5 DEF There

\* What the chain adds to what is found is there too.
LEMMA ChainIsThere ==
    ASSUME MatcherInv, at = "scan", x < limit, NEW matched
    PROVE  /\ MatchChain(matched) \in Seq(Blocks \X Nat)
           /\ \A i \in 1 .. Len(MatchChain(matched)) : There(MatchChain(matched)[i])
           /\ MatchChain(matched) # <<>> =>
                 \E b \in Blocks : MatchChain(matched)[1] = <<b, x>>
<1>1. /\ case \in Cases /\ x \in Nat /\ IndexTyped(hash)
      /\ Bucket(WindowHash) \in Buckets
  BY BucketNow DEF MatcherInv, FixedInv, ScanTyped, KnownInv, IndexOK
<1>2. /\ MatchChain(matched) \in Seq(Blocks \X Nat)
      /\ \A i \in 1 .. Len(MatchChain(matched)) : IsHere(MatchChain(matched)[i])
      /\ MatchChain(matched) # <<>> =>
            \E b \in Blocks : MatchChain(matched)[1] = <<b, x>>
  BY <1>1, ChainFinds
<1>3. ASSUME NEW i \in 1 .. Len(MatchChain(matched)) PROVE There(MatchChain(matched)[i])
  <2>1. MatchChain(matched)[i] \in Blocks \X Nat /\ IsHere(MatchChain(matched)[i])
    BY <1>2
  <2> QED BY <2>1, HereIsThere
<1> QED BY <1>2, <1>3

\* Finds added to finds.
LEMMA JoinedThere ==
    ASSUME NEW s \in Seq(Blocks \X Nat), \A i \in 1 .. Len(s) : There(s[i]),
           NEW t \in Seq(Blocks \X Nat), \A i \in 1 .. Len(t) : There(t[i])
    PROVE  s \o t \in Seq(Blocks \X Nat) /\ \A i \in 1 .. Len(s \o t) : There((s \o t)[i])
<1>1. /\ s \o t \in Seq(Blocks \X Nat) /\ Len(s) \in Nat /\ Len(t) \in Nat
      /\ Len(s \o t) = Len(s) + Len(t)
      /\ \A i \in 1 .. Len(s) : (s \o t)[i] = s[i]
      /\ \A i \in Len(s) + 1 .. Len(s) + Len(t) : (s \o t)[i] = t[i - Len(s)]
  OBVIOUS
<1>2. ASSUME NEW i \in 1 .. Len(s \o t) PROVE There((s \o t)[i])
  <2>1. CASE i \in 1 .. Len(s)
    BY <1>1, <2>1
  <2>2. CASE i \in Len(s) + 1 .. Len(s) + Len(t)
    <3>1. i - Len(s) \in 1 .. Len(t)
      BY <1>1, <2>2
    <3> QED BY <1>1, <2>2, <3>1
  <2> QED BY <1>1, <2>1, <2>2
<1> QED BY <1>1, <1>2

\* What a step within a segment leaves alone, and what is left to show.
LEMMA ScanStep ==
    ASSUME MatcherInv, at = "scan", x < limit,
           UNCHANGED <<fixed, file, known, hash, at, readVars, segments, limit>>,
           x' \in Nat, x <= x', r0' \in Sum, r1' \in Sum, hint' \in Blocks \cup {NoHint},
           found' \in Seq(Blocks \X Nat), \A i \in 1 .. Len(found') : There(found'[i]),
           RollingIsFresh'
    PROVE  MatcherInv'
<1>1. FixedInv /\ KnownInv /\ ScanTyped /\ ReportInv /\ WithinChunk
  BY DEF MatcherInv
<1>2. FixedInv' /\ KnownInv' /\ Context' = Context
  BY <1>1, FixedStays, KnownStays
<1>3. ScanTyped'
  BY <1>1 DEF ScanTyped, readVars
<1>4. ReportInv'
  BY <1>1, ReportStays DEF readVars
<1>5. WithinChunk'
  <2>1. chunk.first \in Nat /\ x \in Nat /\ chunk' = chunk
    BY <1>1 DEF ScanTyped, readVars
  <2>2. chunk.first <= x
    BY <1>1 DEF WithinChunk
  <2>3. chunk.first <= x'
    BY <2>1, <2>2
  <2> QED BY <1>1, <1>2, <2>1, <2>3 DEF WithinChunk
<1>6. FoundIsThere'
  BY FoundFrame DEF readVars
<1> QED BY <1>2, <1>3, <1>4, <1>5, <1>6 DEF MatcherInv

LEMMA NextBlockType == ASSUME NEW b PROVE NextBlock(b) \in Blocks \cup {NoHint}
BY DEF NextBlock

LEMMA KeptByContinueMatch == MatcherInv /\ ContinueMatch => MatcherInv'
<1> SUFFICES ASSUME MatcherInv, ContinueMatch PROVE MatcherInv'
  OBVIOUS
<1>1. /\ at = "scan" /\ x < limit /\ HintHolds
      /\ found' = Append(found, <<hint, x>>) \o MatchChain(hint)
      /\ hint' = NextBlock(hint + 1) /\ Jump(1)
      /\ UNCHANGED <<fixed, file, known, hash, at, readVars, segments, limit>>
  BY DEF ContinueMatch
<1>2. /\ x' \in Nat /\ x <= x' /\ r0' \in Sum /\ r1' \in Sum /\ RollingIsFresh'
      /\ hint' \in Blocks \cup {NoHint}
  <2>1. 1 \in {1, 2}
    OBVIOUS
  <2> QED BY <1>1, <2>1, JumpKeeps, NextBlockType
<1>3. PICK m \in Blocks \X Nat : m = <<hint, x>> /\ There(m)
  <2>1. ScanTyped /\ FixedInv
    BY DEF MatcherInv
  <2>2. <<hint, x>> \in Blocks \X Nat
    BY <1>1, <2>1 DEF ScanTyped, HintHolds
  <2>3. IsHere(<<hint, x>>)
    <3>1. PICK d \in Nat, c \in Nat, y \in Nat : d = BlockSize /\ c = Context /\ y = x /\ d <= c
      BY <2>1, CaseFacts DEF FixedInv, ScanTyped
    <3>2. y <= y /\ y + d <= y + c
      BY <3>1
    <3>3. Window(x) = target[hint]
      BY <1>1 DEF HintHolds
    <3> QED BY <3>1, <3>2, <3>3 DEF IsHere
  <2> QED BY <1>1, <2>2, <2>3, HereIsThere
<1>4. PICK s \in Seq(Blocks \X Nat) : s = found /\ \A i \in 1 .. Len(s) : There(s[i])
  <2>1. found \in Seq(Blocks \X Nat) /\ FoundIsThere
    BY DEF MatcherInv, ScanTyped
  <2> QED BY <2>1, FoundNow
<1>5. PICK u \in Seq(Blocks \X Nat) : u = Append(s, m) /\ \A i \in 1 .. Len(u) : There(u[i])
  <2>1. /\ Append(s, m) \in Seq(Blocks \X Nat) /\ Len(Append(s, m)) = Len(s) + 1 /\ Len(s) \in Nat
        /\ \A i \in 1 .. Len(s) : Append(s, m)[i] = s[i]
        /\ Append(s, m)[Len(s) + 1] = m
    BY Appended
  <2>2. ASSUME NEW i \in 1 .. Len(Append(s, m)) PROVE There(Append(s, m)[i])
    <3>1. i \in 1 .. Len(s) \/ i = Len(s) + 1
      BY <2>1
    <3> QED BY <1>3, <1>4, <2>1, <3>1
  <2> QED BY <2>1, <2>2
<1>6. PICK t \in Seq(Blocks \X Nat) : t = MatchChain(hint) /\ \A i \in 1 .. Len(t) : There(t[i])
  BY <1>1, ChainIsThere
<1>7. found' = u \o t
  BY <1>1, <1>3, <1>4, <1>5, <1>6
<1>8. found' \in Seq(Blocks \X Nat) /\ \A i \in 1 .. Len(found') : There(found'[i])
  BY <1>5, <1>6, <1>7, JoinedThere
<1> QED BY <1>1, <1>2, <1>8, ScanStep

LEMMA KeptByMatchHere == MatcherInv /\ MatchHere => MatcherInv'
<1> SUFFICES ASSUME MatcherInv, MatchHere PROVE MatcherInv'
  OBVIOUS
<1>1. /\ at = "scan" /\ x < limit
      /\ UNCHANGED <<fixed, file, known, hash, at, readVars, segments, limit>>
  BY DEF MatchHere
<1>2. PICK t \in Seq(Blocks \X Nat) : t = MatchChain(Empty) /\ \A i \in 1 .. Len(t) : There(t[i])
  BY <1>1, ChainIsThere
<1>3. /\ found' = found \o t
      /\ IF Paired(t[1][1]) THEN Jump(2) /\ hint' = NextBlock(t[1][1] + 2)
                            ELSE Jump(1) /\ hint' = NoHint
  BY <1>2 DEF MatchHere
<1>4. /\ x' \in Nat /\ x <= x' /\ r0' \in Sum /\ r1' \in Sum /\ RollingIsFresh'
      /\ hint' \in Blocks \cup {NoHint}
  <2>1. 1 \in {1, 2} /\ 2 \in {1, 2}
    OBVIOUS
  <2>2. hint' \in Blocks \cup {NoHint}
    BY <1>3, NextBlockType
  <2>3. Jump(1) \/ Jump(2)
    BY <1>3
  <2> QED BY <1>1, <2>1, <2>2, <2>3, JumpKeeps
<1>5. PICK s \in Seq(Blocks \X Nat) : s = found /\ \A i \in 1 .. Len(s) : There(s[i])
  <2>1. found \in Seq(Blocks \X Nat) /\ FoundIsThere
    BY DEF MatcherInv, ScanTyped
  <2> QED BY <2>1, FoundNow
<1>6. found' \in Seq(Blocks \X Nat) /\ \A i \in 1 .. Len(found') : There(found'[i])
  BY <1>2, <1>3, <1>5, JoinedThere
<1> QED BY <1>1, <1>4, <1>6, ScanStep

LEMMA KeptBySlide == MatcherInv /\ Slide => MatcherInv'
<1> SUFFICES ASSUME MatcherInv, Slide PROVE MatcherInv'
  OBVIOUS
<1>1. /\ at = "scan" /\ x < limit /\ hint' = NoHint /\ x' = x + 1
      /\ r0' = Roll(r0, Byte(x), Byte(x + BlockSize))
      /\ r1' = IF case.seq > 1
               THEN Roll(r1, Byte(x + BlockSize), Byte(x + 2 * BlockSize)) ELSE r1
      /\ UNCHANGED <<fixed, file, known, hash, at, readVars, segments, limit, found, jumps>>
  BY DEF Slide
<1>2. FixedInv /\ KnownInv /\ ScanTyped /\ RollingIsFresh
  BY DEF MatcherInv
<1>3. PICK d \in Nat, y \in Nat : d = BlockSize /\ y = x
  BY <1>2, CaseFacts DEF FixedInv, ScanTyped
<1>4. case \in Cases /\ Source \in Seq(Nat) /\ chunk.read \in Nat
  BY <1>2, ReadsFacts DEF FixedInv, ScanTyped
<1>5. r0 = CalcRsumBlock(Window(x)) /\ r1 = Following(x)
  BY <1>1, <1>2 DEF RollingIsFresh
<1>6. x' = y + 1 /\ x' \in Nat /\ x <= x'
  BY <1>1, <1>3
<1>7. r0' = CalcRsumBlock(Window(x'))
  <2>1. Roll(CalcRsumBlock(Window(y)), Byte(y), Byte(y + BlockSize)) = CalcRsumBlock(Window(y + 1))
    BY <1>4, SumsSlide
  <2> QED BY <1>1, <1>3, <1>5, <1>6, <2>1
<1>8. r1' = Following(x')
  <2>1. CASE case.seq > 1
    <3>1. y + d \in Nat /\ (y + d) + d = y + 2 * d /\ (y + d) + 1 = (y + 1) + d
      OBVIOUS
    <3>2. Roll(CalcRsumBlock(Window(y + d)), Byte(y + d), Byte((y + d) + BlockSize))
              = CalcRsumBlock(Window((y + d) + 1))
      BY <1>4, <3>1, SumsSlide
    <3>3. r1 = CalcRsumBlock(Window(y + d))
      BY <1>3, <1>5, <2>1 DEF Following
    <3>4. r1' = Roll(CalcRsumBlock(Window(y + d)), Byte(y + d), Byte(y + 2 * d))
      BY <1>1, <1>3, <2>1, <3>3
    <3>5. Following(x') = CalcRsumBlock(Window((y + 1) + d))
      BY <1>3, <1>6, <2>1 DEF Following
    <3> QED BY <1>3, <3>1, <3>2, <3>4, <3>5
  <2>2. CASE ~(case.seq > 1)
    BY <1>1, <1>5, <2>2 DEF Following
  <2> QED BY <2>1, <2>2
<1>9. r0' \in Sum /\ r1' \in Sum
  BY <1>2, <1>6, <1>7, <1>8, SumsNow
<1>10. RollingIsFresh'
  BY <1>1, <1>7, <1>8, RollingFrame DEF readVars
<1>11. found' \in Seq(Blocks \X Nat) /\ \A i \in 1 .. Len(found') : There(found'[i])
  <2>1. found \in Seq(Blocks \X Nat) /\ FoundIsThere
    BY DEF MatcherInv, ScanTyped
  <2> QED BY <1>1, <2>1, FoundNow
<1>12. hint' \in Blocks \cup {NoHint}
  BY <1>1
<1>13. UNCHANGED <<fixed, file, known, hash, at, readVars, segments, limit>>
  BY <1>1
<1> QED BY <1>1, <1>6, <1>9, <1>10, <1>11, <1>12, <1>13, ScanStep

LEMMA KeptBySegmentDone == MatcherInv /\ SegmentDone => MatcherInv'
<1> SUFFICES ASSUME MatcherInv, SegmentDone PROVE MatcherInv'
  OBVIOUS
<1>1. FixedInv /\ KnownInv /\ ScanTyped /\ ReportInv /\ WithinChunk /\ FoundIsThere
  BY DEF MatcherInv
<1>2. /\ at = "scan" /\ at' = "segment"
      /\ UNCHANGED <<fixed, file, known, hash, readVars, scanVars, found, jumps>>
  BY DEF SegmentDone
<1>3. FixedInv' /\ KnownInv' /\ Context' = Context
  BY <1>1, <1>2, FixedStays, KnownStays
<1>4. ScanTyped'
  BY <1>1, <1>2 DEF ScanTyped, readVars, scanVars
<1>5. ReportInv'
  BY <1>1, <1>2, ReportStays DEF readVars
<1>6. WithinChunk' /\ RollingIsFresh'
  BY <1>1, <1>2 DEF WithinChunk, RollingIsFresh, readVars, scanVars
<1>7. FoundIsThere'
  BY <1>1, <1>2, FoundFrame, FoundNow DEF ScanTyped, readVars
<1> QED BY <1>3, <1>4, <1>5, <1>6, <1>7 DEF MatcherInv

LEMMA KeptByChunkDone == MatcherInv /\ ChunkDone => MatcherInv'
<1> SUFFICES ASSUME MatcherInv, ChunkDone PROVE MatcherInv'
  OBVIOUS
<1>1. FixedInv /\ KnownInv /\ ScanTyped /\ ReportInv /\ WithinChunk /\ FoundIsThere
  BY DEF MatcherInv
<1>2. /\ at = "segment" /\ segments = <<>>
      /\ known' = Taken.known /\ hash' = Taken.hash /\ file' = Copy(Taken.new)
      /\ offset' = offset + BytesRead /\ report' = <<offset + BytesRead, size>>
      /\ at' = IF BytesRead < ReadLen THEN "done" ELSE "read"
      /\ found' = <<>>
      /\ UNCHANGED <<fixed, size, chunk, scanVars, jumps>>
  BY DEF ChunkDone, Report
<1>3. FixedInv' /\ Context' = Context
  BY <1>1, <1>2, FixedStays
<1>4. SumsTyped
  BY <1>1 DEF SumsTyped, FixedInv, Sum
<1>5. /\ found \in Seq(Blocks \X Nat) /\ known \in SUBSET Blocks
      /\ IndexOK(hash, Blocks \ known) /\ \A b \in known : Held(file, b) = target[b]
  BY <1>1 DEF ScanTyped, KnownInv
<1>6. PICK t : t = Taken /\ TakesOK(t)
  BY <1>4, <1>5, TakenOK
<1>7. /\ t.known \in SUBSET Blocks /\ known \subseteq t.known
      /\ t.new \in Seq(Blocks \X Nat) /\ IndexOK(t.hash, Blocks \ t.known)
      /\ \A i \in 1 .. Len(t.new) : \E j \in 1 .. Len(found) : t.new[i] = found[j]
      /\ \A b \in t.known \ known : \E i \in 1 .. Len(t.new) : t.new[i][1] = b
  BY <1>6 DEF TakesOK, Takes
<1>8. WindowsTyped
  BY <1>1, ReadsFacts DEF WindowsTyped, TargetTyped, FixedInv, KnownInv, ScanTyped
<1>9. \A i \in 1 .. Len(t.new) : BlockData(t.new[i][2]) = target[t.new[i][1]]
  <2>1. \A j \in 1 .. Len(found) : There(found[j])
    BY <1>1, <1>5, FoundNow
  <2>2. ASSUME NEW i \in 1 .. Len(t.new) PROVE BlockData(t.new[i][2]) = target[t.new[i][1]]
    <3>1. PICK j \in 1 .. Len(found) : t.new[i] = found[j]
      BY <1>7
    <3>2. Window(found[j][2]) = target[found[j][1]] /\ chunk.first <= found[j][2]
      BY <2>1 DEF There
    <3>3. found[j][2] \in Nat
      BY <1>5
    <3>4. BlockData(found[j][2]) = Window(found[j][2])
      BY <1>8, <3>2, <3>3, DataType
    <3> QED BY <3>1, <3>2, <3>4
  <2> QED BY <2>2
<1>10. /\ Copy(t.new) \in Seq(Nat)
       /\ \A b \in known : Held(Copy(t.new), b) = target[b]
       /\ \A i \in 1 .. Len(t.new) : Held(Copy(t.new), t.new[i][1]) = target[t.new[i][1]]
  BY <1>5, <1>7, <1>8, <1>9, CopyHolds
<1>11. KnownInv'
  <2>1. \A b \in t.known : Held(Copy(t.new), b) = target[b]
    BY <1>7, <1>10
  <2> QED BY <1>2, <1>6, <1>7, <1>10, <2>1, KnownFrame
<1>12. PICK o \in Nat, k \in Nat, s \in Nat : o = offset /\ k = BytesRead /\ s = size /\ k > 0
  BY <1>1, <1>2, ReadsFacts DEF ScanTyped, ReportInv
<1>13. offset' = o + k /\ report' = <<o + k, s>> /\ size' = s /\ offset' \in Nat
  BY <1>2, <1>12
<1>14. ScanTyped'
  <2>1. found' \in Seq(Blocks \X Nat)
    BY <1>2
  <2>2. at' \in {"read", "done"}
    BY <1>2
  <2>3. report' \in Nat \X Nat
    BY <1>13
  <2> QED BY <1>1, <1>2, <1>13, <2>1, <2>2, <2>3 DEF ScanTyped, scanVars
<1>15. ReportInv'
  <2>1. at' \in {"read", "done"} /\ (at' = "done" => BytesRead < ReadLen)
    BY <1>2
  <2>2. ~case.self => /\ size = Len(Source) /\ size = Len(input) /\ offset <= size
    BY <1>1, <1>2 DEF ReportInv, Source
  <2>3. ~case.self => offset' <= size' /\ (at' = "done" => offset' = size')
    BY <1>1, <1>12, <1>13, <2>1, <2>2, ReadsFacts
  <2>4. report'[1] = offset' /\ report' = <<offset', size'>>
    BY <1>13
  <2> QED BY <1>2, <2>1, <2>2, <2>3, <2>4 DEF ReportInv, fixed
<1>16. WithinChunk' /\ FoundIsThere' /\ RollingIsFresh'
  BY <1>2 DEF WithinChunk, FoundIsThere, RollingIsFresh
<1> QED BY <1>3, <1>11, <1>14, <1>15, <1>16 DEF MatcherInv

LEMMA KeptByStutter == MatcherInv /\ UNCHANGED vars => MatcherInv'
<1> SUFFICES ASSUME MatcherInv, UNCHANGED vars PROVE MatcherInv'
  OBVIOUS
<1>1. FixedInv /\ KnownInv /\ ScanTyped /\ ReportInv /\ WithinChunk /\ FoundIsThere
      /\ RollingIsFresh
  BY DEF MatcherInv
<1>2. UNCHANGED <<fixed, file, known, hash, at, readVars, scanVars, found>>
  BY DEF vars
<1>3. FixedInv' /\ KnownInv' /\ Context' = Context
  BY <1>1, <1>2, FixedStays, KnownStays
<1>4. ScanTyped'
  BY <1>1, <1>2 DEF ScanTyped, readVars, scanVars
<1>5. ReportInv'
  BY <1>1, <1>2 DEF ReportInv, fixed, readVars, BytesRead, ReadLen, Least, Above, Source, Context
<1>6. WithinChunk'
  BY <1>1, <1>2, <1>3 DEF WithinChunk, readVars, scanVars
<1>7. FoundIsThere'
  BY <1>1, <1>2, FoundFrame, FoundNow DEF ScanTyped, readVars
<1>8. RollingIsFresh'
  BY <1>1, <1>2, RollingFrame DEF RollingIsFresh, readVars, scanVars
<1> QED BY <1>3, <1>4, <1>5, <1>6, <1>7, <1>8 DEF MatcherInv

\* Every step keeps the invariant.
LEMMA InvKept == MatcherInv /\ [Next]_vars => MatcherInv'
<1> SUFFICES ASSUME MatcherInv, [Next]_vars PROVE MatcherInv'
  OBVIOUS
<1>1. CASE SubmitBlocks   BY <1>1, KeptBySubmitBlocks
<1>2. CASE BeginScan      BY <1>2, KeptByBeginScan
<1>3. CASE ReadChunk      BY <1>3, KeptByReadChunk
<1>4. CASE ReadNothing    BY <1>4, KeptByReadNothing
<1>5. CASE BeginSegment   BY <1>5, KeptByBeginSegment
<1>6. CASE ContinueMatch  BY <1>6, KeptByContinueMatch
<1>7. CASE MatchHere      BY <1>7, KeptByMatchHere
<1>8. CASE Slide          BY <1>8, KeptBySlide
<1>9. CASE SegmentDone    BY <1>9, KeptBySegmentDone
<1>10. CASE ChunkDone     BY <1>10, KeptByChunkDone
<1>11. CASE UNCHANGED vars BY <1>11, KeptByStutter
<1> QED BY <1>1, <1>2, <1>3, <1>4, <1>5, <1>6, <1>7, <1>8, <1>9, <1>10, <1>11 DEF Next

\* A block unknown is in the chain of its bucket, once.
LEMMA OncePerChain ==
    ASSUME MatcherInv, NEW b \in Blocks \ known
    PROVE  Cardinality({i \in DOMAIN Chain(hash, Bucket(BlockHash(b))) :
                        Chain(hash, Bucket(BlockHash(b)))[i] = b}) = 1
<1>1. PICK s : s = Chain(hash, BucketOf(b))
  OBVIOUS
<1>2. SumsTyped /\ IndexOK(hash, Blocks \ known) /\ IndexTyped(hash)
  BY DEF MatcherInv, FixedInv, KnownInv, SumsTyped, Sum, IndexOK
<1>3. BucketOf(b) \in Buckets
  BY <1>2, HashFacts DEF SumsTyped, BucketOf
<1>4. Strung(hash, hash.head[BucketOf(b)], s)
  BY <1>1, <1>2, <1>3, ChainIsStrung
<1>5. s \in Seq(Blocks) /\ DOMAIN s = 1 .. Len(s) /\ Len(s) \in Nat
  BY <1>4 DEF Strung
<1>6. \A i, j \in 1 .. Len(s) : i < j => s[i] < s[j]
  BY <1>2, <1>4, StrungAscends
<1>7. PICK p \in 1 .. Len(s) : s[p] = b
  BY <1>1, <1>2 DEF IndexOK
<1>8. ASSUME NEW i \in 1 .. Len(s), s[i] = b PROVE i = p
  <2>1. b \in Nat
    BY BlocksType DEF Blocks
  <2>2. ~(i < p) /\ ~(p < i)
    BY <1>6, <1>7, <1>8, <2>1
  <2> QED BY <1>5, <2>2
<1>9. {i \in DOMAIN s : s[i] = b} = {p}
  BY <1>5, <1>7, <1>8
<1>10. Cardinality({p}) = 1
  BY FS_Singleton
<1> QED BY <1>1, <1>9, <1>10 DEF BucketOf

\* Only a chunk that is done reports, and it has read something.
LEMMA ReportedOnce ==
    MatcherInv /\ [Next]_vars => [report' # report => report'[1] > report[1]]_vars
<1> SUFFICES ASSUME MatcherInv, Next, report' # report PROVE report'[1] > report[1]
  OBVIOUS
<1>1. ChunkDone
  BY DEF Next, SubmitBlocks, BeginScan, ReadChunk, ReadNothing, BeginSegment, ContinueMatch,
         MatchHere, Slide, SegmentDone, readVars
<1>2. /\ at = "segment" /\ report' = <<offset + BytesRead, size>>
  BY <1>1 DEF ChunkDone, Report
<1>3. FixedInv /\ KnownInv /\ ScanTyped /\ ReportInv
  BY DEF MatcherInv
<1>4. PICK o \in Nat, k \in Nat : o = offset /\ k = BytesRead /\ k > 0 /\ report[1] = o
  BY <1>2, <1>3, ReadsFacts DEF ScanTyped, ReportInv
<1>5. report'[1] = o + k
  BY <1>2, <1>4
<1> QED BY <1>4, <1>5

-----------------------------------------------------------------------------
(* What always holds. *)

\* The invariant: the record of known blocks, the index and the temporary file
\* agree, windows lie within the chunk read and their rolling checksums are
\* those of a fresh computation, and reports follow what was scanned
\* (BlockMatcher::submit_source_data and ZsyncAssembly's scans).
THEOREM MatcherInvariant == Spec => []MatcherInv
<1>1. Init => MatcherInv
  BY InvAtFirst
<1>2. MatcherInv /\ [Next]_vars => MatcherInv'
  BY InvKept
<1> QED BY <1>1, <1>2, PTL DEF Spec

\* What is recorded as found is there, inside the buffer it is copied from,
\* whatever the sizes of blocks and chunks and the number of threads.
THEOREM FoundIsAlwaysThere == Spec => []FoundIsThere
<1>1. MatcherInv => FoundIsThere
  BY DEF MatcherInv
<1> QED BY <1>1, MatcherInvariant, PTL

\* The rolling checksums are those of a fresh computation at every window, at
\* any width of the sums and for any size of a block.
THEOREM RollingIsAlwaysFresh == Spec => []RollingIsFresh
<1>1. MatcherInv => RollingIsFresh
  BY DEF MatcherInv
<1> QED BY <1>1, MatcherInvariant, PTL

\* The temporary file holds the data of every known block, the scan that
\* copies within that file included.
THEOREM KnownIsAlwaysInFile == Spec => []KnownIsInFile
<1>1. MatcherInv => KnownIsInFile
  BY DEF MatcherInv, KnownInv, KnownIsInFile, Held
<1> QED BY <1>1, MatcherInvariant, PTL

\* Taking blocks out of their chains loses none of those still unknown.
THEOREM IndexAlwaysHoldsUnknown == Spec => []IndexHoldsUnknown
<1>1. MatcherInv => IndexHoldsUnknown
  BY OncePerChain DEF IndexHoldsUnknown
<1> QED BY <1>1, MatcherInvariant, PTL

\* The scan of an input ends with the report that all of it was scanned.
THEOREM InputIsAlwaysReportedWhole == Spec => []InputIsReportedWhole
<1>1. MatcherInv => InputIsReportedWhole
  <2> SUFFICES ASSUME MatcherInv, at = "done", ~case.self, size >= Context
               PROVE  report = <<size, size>>
    BY DEF InputIsReportedWhole
  <2>1. FixedInv /\ ScanTyped /\ ReportInv
    BY DEF MatcherInv
  <2>2. Context > 0 /\ size > 0
    <3>1. PICK d \in Nat \ {0}, c \in Nat, s \in Nat :
              d = BlockSize /\ c = Context /\ d <= c /\ s = size
      BY <2>1, CaseFacts DEF FixedInv, ScanTyped
    <3> QED BY <3>1
  <2>3. offset = size
    BY <2>1 DEF ReportInv
  <2> QED BY <2>1, <2>2, <2>3 DEF ReportInv
<1> QED BY <1>1, MatcherInvariant, PTL

\* A scan never reports less than it has, nor the same again.
THEOREM ReportsAlwaysAscend == Spec => ReportsAscend
<1>1. MatcherInv /\ [Next]_vars => [report' # report => report'[1] > report[1]]_vars
  BY ReportedOnce
<1> QED BY <1>1, MatcherInvariant, PTL DEF Spec, ReportsAscend

-----------------------------------------------------------------------------
(* A block at a window is found there. *)

\* A sum fits its width.
LEMMA SumFits ==
    ASSUME NEW width \in Nat, NEW m \in Nat \ {0}, NEW w \in [1 .. m -> Nat]
    PROVE  CalcRsum(width, w).b % 2 ^ width = CalcRsum(width, w).b
<1>1. PICK g : /\ g[0] = Zero /\ \A i \in 0 .. m : g[i] \in Sum
               /\ \A i \in 1 .. m : g[i] = Added(width, g[i - 1], w[i])
               /\ CalcRsum(width, w) = g[m]
  BY SumTrace
<1>2. PICK r \in Sum : r = g[m - 1]
  BY <1>1
<1>3. PICK n \in Nat : n = r.b + r.a + w[m]
  BY DEF Sum
<1>4. CalcRsum(width, w).b = Wrap(width, n)
  <2>1. m \in 1 .. m
    OBVIOUS
  <2>2. CalcRsum(width, w) = Added(width, r, w[m])
    BY <1>1, <1>2, <2>1
  <2> QED BY <1>3, <2>2 DEF Added
<1>5. PICK p \in Nat \ {0} : p = 2 ^ width
  BY Power
<1>6. (n % p) % p = n % p
  <2>1. PICK s \in 0 .. p - 1 : s = n % p
    <3>1. n \in Int
      OBVIOUS
    <3>2. n % p \in 0 .. p - 1
      BY <3>1, Modulo
    <3> QED BY <3>2
  <2>2. s % p = s
    OBVIOUS
  <2> QED BY <2>1, <2>2
<1> QED BY <1>4, <1>5, <1>6 DEF Wrap

\* The sums of zeros are zero.
LEMMA ZeroSums ==
    ASSUME NEW width \in Nat, NEW m \in Nat
    PROVE  CalcRsum(width, [k \in 1 .. m |-> 0]) = Zero
<1> DEFINE w == [k \in 1 .. m |-> 0]
<1>1. w \in [1 .. m -> Nat] /\ \A i \in 1 .. m : w[i] = 0
  OBVIOUS
<1> HIDE DEF w
<1>2. PICK g : /\ g[0] = Zero /\ \A i \in 0 .. m : g[i] \in Sum
               /\ \A i \in 1 .. m : g[i] = Added(width, g[i - 1], w[i])
               /\ CalcRsum(width, w) = g[m]
  BY <1>1, SumTrace
<1>3. Added(width, Zero, 0) = Zero
  <2>1. PICK p \in Nat \ {0} : p = 2 ^ width
    BY Power
  <2>2. 0 % p = 0
    OBVIOUS
  <2>3. Wrap(width, 0) = 0
    BY <2>1, <2>2 DEF Wrap
  <2> QED BY <2>3 DEF Added, Zero
<1> DEFINE G == {i \in Nat : i <= m => g[i] = Zero}
<1>4. 0 \in G
  BY <1>2
<1>5. ASSUME NEW i \in Nat, i \in G PROVE i + 1 \in G
  <2>1. SUFFICES ASSUME i + 1 <= m PROVE g[i + 1] = Zero
    OBVIOUS
  <2>2. i + 1 \in 1 .. m /\ (i + 1) - 1 = i /\ i <= m
    BY <2>1
  <2> QED BY <1>1, <1>2, <1>3, <1>5, <2>2
<1>6. m \in G
  <2> HIDE DEF G
  <2> QED BY <1>4, <1>5, FromZeroOn
<1> QED BY <1>2, <1>6 DEF w

\* Whole b sums are stored.
WholeSums == \A c \in Cases : c.bbits = c.width

SumsStored == sums = [b \in Blocks |-> Stored(target[b])]

\* Block b lies at the window, and its neighbour, or zeros, behind it.
AtWindow(b) ==
    /\ Window(x) = target[b]
    /\ case.seq > 1 =>
        Window(x + BlockSize) = IF b + 1 \in Blocks THEN target[b + 1]
                                ELSE [k \in 1 .. BlockSize |-> 0]

\* What is stored of a block, when the whole b sum is.
LEMMA StoredIs ==
    ASSUME WholeSums, SumsStored, FixedInv, NEW b \in Blocks
    PROVE  /\ sums[b].a = Masked(CalcRsumBlock(target[b]).a)
           /\ sums[b].b = CalcRsumBlock(target[b]).b
<1>1. PICK d \in Nat \ {0}, z \in Nat : d = BlockSize /\ z = case.width /\ case.bbits = z
  BY CaseFacts DEF FixedInv, WholeSums
<1>2. PICK t \in [1 .. d -> Nat] : t = target[b]
  BY <1>1 DEF FixedInv
<1>3. CalcRsum(z, t).b % 2 ^ z = CalcRsum(z, t).b
  BY SumFits
<1>4. sums[b] = Stored(t)
  BY <1>2 DEF SumsStored
<1> QED BY <1>1, <1>2, <1>3, <1>4 DEF Stored, CalcRsumBlock

\* A block at the window matches, and its hash is that of the window.
LEMMA MatchesHere ==
    ASSUME MatcherInv, WholeSums, SumsStored, at = "scan", x < limit,
           NEW b \in Blocks, AtWindow(b)
    PROVE  Matches(b) /\ WindowHash = BlockHash(b)
<1>1. FixedInv /\ case \in Cases
  BY DEF MatcherInv, FixedInv
<1>2. r0 = CalcRsumBlock(Window(x)) /\ r1 = Following(x)
  BY DEF MatcherInv, RollingIsFresh
<1>3. r0 = CalcRsumBlock(target[b])
  BY <1>2 DEF AtWindow
<1>4. sums[b].a = Masked(r0.a) /\ sums[b].b = r0.b
  BY <1>1, <1>3, StoredIs
<1>5. case.seq > 1 => r1 = CalcRsumBlock(Window(x + BlockSize))
  BY <1>2 DEF Following
<1>6. Paired(b) => /\ case.seq > 1 /\ b + 1 \in Blocks
                   /\ Window(x + BlockSize) = target[b + 1]
                   /\ sums[b + 1].a = Masked(r1.a) /\ sums[b + 1].b = r1.b
  BY <1>1, <1>5, StoredIs DEF AtWindow, Paired
<1>7. Matches(b)
  BY <1>4, <1>6 DEF Matches, RsumMatch, AtWindow
<1>8. CASE case.seq = 1
  <2>1. WindowHash = Combine(r0.b, Masked(r0.a))
    BY <1>8 DEF WindowHash
  <2>2. BlockHash(b) = Combine(sums[b].b, sums[b].a)
    BY <1>8 DEF BlockHash
  <2> QED BY <1>4, <1>7, <2>1, <2>2
<1>9. CASE case.seq # 1
  <2>1. case.seq > 1
    BY <1>1, <1>9, CaseFacts
  <2>2. r1.b = IF b + 1 \in Blocks THEN sums[b + 1].b ELSE 0
    <3>1. CASE b + 1 \in Blocks
      BY <1>6, <2>1, <3>1 DEF Paired
    <3>2. CASE b + 1 \notin Blocks
      <4>1. r1 = CalcRsumBlock([k \in 1 .. BlockSize |-> 0])
        BY <1>5, <2>1, <3>2 DEF AtWindow
      <4>2. case.width \in Nat /\ BlockSize \in Nat
        BY <1>1, CaseFacts
      <4>3. r1 = Zero
        BY <4>1, <4>2, ZeroSums DEF CalcRsumBlock
      <4> QED BY <3>2, <4>3 DEF Zero
    <3> QED BY <3>1, <3>2
  <2>3. WindowHash = Combine(r0.b, r1.b)
    BY <1>9 DEF WindowHash
  <2>4. BlockHash(b) = Combine(sums[b].b, IF b + 1 \in Blocks THEN sums[b + 1].b ELSE 0)
    BY <1>9 DEF BlockHash
  <2> QED BY <1>4, <1>7, <2>2, <2>3, <2>4
<1> QED BY <1>7, <1>8, <1>9

\* A walk of the chain finds a block that it has and that matches.
LEMMA ChainFindsIt ==
    ASSUME MatcherInv, NEW matched, NEW b \in Blocks \ known, b # matched, Matches(b),
           WindowHash = BlockHash(b)
    PROVE  \E i \in 1 .. Len(MatchChain(matched)) : MatchChain(matched)[i] = <<b, x>>
<1>1. /\ case \in Cases /\ x \in Nat /\ IndexTyped(hash) /\ SumsTyped
      /\ IndexOK(hash, Blocks \ known)
  BY DEF MatcherInv, FixedInv, ScanTyped, KnownInv, IndexOK, SumsTyped, Sum
<1>2. BucketOf(b) \in Buckets /\ Bucket(WindowHash) = BucketOf(b)
  BY <1>1, HashFacts DEF SumsTyped, BucketOf
<1>3. InBithash(WindowHash)
  BY DEF InBithash
<1>4. PICK h : /\ Walks(h, hash, Finds(matched))
               /\ MatchChain(matched) = h[hash.head[BucketOf(b)]]
  BY <1>1, <1>2, <1>3, MatchWalks
<1>5. PICK ch : Walks(ch, hash, Single) /\ Chain(hash, BucketOf(b)) = ch[hash.head[BucketOf(b)]]
  BY <1>1, <1>2, ChainWalks
<1>6. PICK c \in 0 .. NBlocks : c = hash.head[BucketOf(b)]
  BY <1>1, <1>2 DEF IndexTyped
<1>7. PICK adds \in [Blocks -> Seq(Blocks \X Nat)] : adds = Finds(matched)
  <2>1. \A e \in Blocks : Finds(matched)[e] \in Seq(Blocks \X Nat)
    BY <1>1, FindsTyped
  <2>2. Finds(matched) = [e \in Blocks |-> Finds(matched)[e]]
    BY DEF Finds
  <2>3. Finds(matched) \in [Blocks -> Seq(Blocks \X Nat)]
    BY <2>1, <2>2
  <2> QED BY <2>3
<1>8. \A j \in 1 .. Len(ch[c]) : \A m \in 1 .. Len(adds[ch[c][j]]) :
          \E i \in 1 .. Len(h[c]) : h[c][i] = adds[ch[c][j]][m]
  <2>1. Walks(ch, hash, [e \in Blocks |-> <<e>>])
    BY <1>5 DEF Single
  <2>2. PICK V : V = Blocks \X Nat
    OBVIOUS
  <2>3. Walks(h, hash, adds) /\ adds \in [Blocks -> Seq(V)]
    BY <1>4, <1>7, <2>2
  <2>4. Gathers(h, ch, adds, c)
    BY <1>1, <2>1, <2>3, WalkGathers
  <2> QED BY <2>4 DEF Gathers
<1>9. PICK j \in 1 .. Len(ch[c]) : ch[c][j] = b
  BY <1>1, <1>5, <1>6 DEF IndexOK
<1>10. adds[b] \in Seq(Blocks \X Nat) /\ adds[b] # <<>> /\ adds[b][1] = <<b, x>>
  <2>1. Finds(matched)[b] = Sighting(b)
    BY DEF Finds
  <2>2. Sighting(b) # <<>>
    BY DEF Sighting
  <2> QED BY <1>1, <1>7, <2>1, <2>2, FindsTyped
<1>11. 1 \in 1 .. Len(adds[b])
  BY <1>10
<1>12. PICK i \in 1 .. Len(h[c]) : h[c][i] = adds[b][1]
  BY <1>8, <1>9, <1>11
<1> QED BY <1>4, <1>6, <1>10, <1>12

-----------------------------------------------------------------------------
(* The windows tested so far. *)

DataEnd == offset + BytesRead

\* The windows before this one have been tested.
Tested == IF at = "scan" THEN x
          ELSE IF at # "segment" THEN offset
          ELSE IF segments = <<>> THEN DataEnd ELSE chunk.first + segments[1][1]

\* What lies at offset o was found, is known or is inside what was passed over.
Seen(o) ==
    \A b \in Blocks \ known :
        Occurs(b, o) /\ Untouched(o) =>
            \/ \E j \in jumps : j[1] < o /\ o < j[2]
            \/ \E i \in 1 .. Len(found) : found[i][1] = b

\* The checksums are those of the target, and the file has what was measured.
SourceInv ==
    /\ SumsStored
    /\ had \subseteq known
    /\ case.self => had # {}
    /\ at # "idle" => size <= Len(Source)
    /\ at = "done" => size < Context \/ size <= offset

\* The parts of a chunk leave no gap between them.
CutsInv ==
    at \in {"segment", "scan"} =>
        /\ chunk.end = DataEnd + Context
        /\ chunk.read = IF DataEnd < size THEN Least(size, chunk.end) ELSE DataEnd
        /\ \A i \in 1 .. Len(segments) :
               chunk.first + segments[i][2] - Context
                   = IF i = Len(segments) THEN DataEnd ELSE chunk.first + segments[i + 1][1]
        /\ at = "scan" =>
               limit = IF segments = <<>> THEN DataEnd ELSE chunk.first + segments[1][1]

SeenInv == \A o \in 0 .. Tested - 1 : Seen(o)

CompleteInv == MatcherInv /\ SourceInv /\ CutsInv /\ SeenInv

\* What the buffer has at a window is what the file has there.
LEMMA WindowIsSource ==
    ASSUME CompleteInv, at = "scan", x < limit, case.self => x + Context <= size,
           NEW i \in Nat, i + BlockSize <= x + Context
    PROVE  Window(i) = InSource(i)
<1>1. FixedInv /\ KnownInv /\ ScanTyped /\ ReportInv /\ WithinChunk /\ SourceInv /\ CutsInv
  BY DEF CompleteInv, MatcherInv
<1>2. PICK d \in Nat, c \in Nat, y \in Nat, l \in Int, s \in Nat, len \in Nat, o \in Nat,
           read \in Nat, end \in Nat :
          /\ d = BlockSize /\ c = Context /\ y = x /\ l = limit /\ s = size
          /\ len = Len(Source) /\ o = DataEnd /\ read = chunk.read /\ end = chunk.end
  <2>1. DataEnd \in Nat
    <3>1. offset \in Nat /\ BytesRead \in Nat
      BY <1>1, ReadsFacts DEF ScanTyped
    <3> QED BY <3>1 DEF DataEnd
  <2> QED BY <1>1, <2>1, ReadsFacts, CaseFacts DEF ScanTyped, FixedInv
<1>3. /\ end = o + c /\ read = IF o < s THEN (IF s < end THEN s ELSE end) ELSE o
      /\ l + c <= end /\ y < l /\ s <= len
  BY <1>1, <1>2 DEF CutsInv, SourceInv, WithinChunk, Least
<1>4. ~case.self => s = len
  BY <1>1, <1>2 DEF ReportInv, Source
<1>5. i + d <= y + c /\ (case.self => y + c <= s)
  BY <1>2
<1>6. ASSUME NEW k \in 1 .. d
      PROVE  i + k <= Least(len, read) <=> i + k <= Least(len, len)
  <2>1. PICK p \in Nat : p = i + k
    OBVIOUS
  <2>2. p <= y + c
    BY <1>5, <2>1
  <2>3. p <= len => p <= s
    <3>1. CASE case.self
      BY <1>5, <2>2, <3>1
    <3>2. CASE ~case.self
      BY <1>4, <3>2
    <3> QED BY <3>1, <3>2
  <2>4. p <= len => p <= read
    BY <1>3, <2>2, <2>3
  <2> QED BY <2>1, <2>4 DEF Least
<1>7. \A k \in 1 .. BlockSize :
          i + k <= Least(Len(Source), chunk.read) <=> i + k <= Least(Len(Source), Len(Source))
  BY <1>2, <1>6
<1> QED BY <1>7 DEF Window, InSource, BytesOf

\* What lies in the file at the window lies in the buffer too.
LEMMA OccursAtWindow ==
    ASSUME CompleteInv, at = "scan", x < limit, NEW b \in Blocks, Occurs(b, x), Untouched(x)
    PROVE  AtWindow(b)
<1>1. PICK d \in Nat, c \in Nat, y \in Nat : d = BlockSize /\ c = Context /\ y = x
  BY CaseFacts DEF CompleteInv, MatcherInv, ScanTyped, FixedInv
<1>2. d <= c /\ (case.seq > 1 => c = 2 * d)
  BY <1>1, CaseFacts DEF CompleteInv, MatcherInv, FixedInv
<1>3. case.self => x + Context <= size
  BY DEF Untouched
<1>4. Window(x) = InSource(x)
  <2>1. y + d <= y + c
    BY <1>2
  <2> QED BY <1>1, <1>3, <2>1, WindowIsSource
<1>5. case.seq > 1 => Window(x + BlockSize) = InSource(x + BlockSize)
  <2>1. SUFFICES ASSUME case.seq > 1 PROVE Window(y + d) = InSource(y + d)
    BY <1>1
  <2>2. y + d \in Nat /\ (y + d) + d <= y + c
    BY <1>2, <2>1
  <2> QED BY <1>1, <1>3, <2>2, WindowIsSource
<1> QED BY <1>4, <1>5 DEF Occurs, AtWindow

\* A window at which nothing is found has no unknown block.
LEMMA WindowIsSeen ==
    ASSUME CompleteInv, WholeSums, at = "scan", x < limit, NEW matched,
           NEW b \in Blocks \ known, b # matched, Occurs(b, x), Untouched(x)
    PROVE  \E i \in 1 .. Len(MatchChain(matched)) : MatchChain(matched)[i] = <<b, x>>
<1>1. MatcherInv /\ SumsStored
  BY DEF CompleteInv, SourceInv
<1>2. AtWindow(b)
  BY OccursAtWindow
<1>3. Matches(b) /\ WindowHash = BlockHash(b)
  BY <1>1, <1>2, MatchesHere
<1> QED BY <1>1, <1>3, ChainFindsIt

-----------------------------------------------------------------------------
(* What a step leaves of it. *)

LEMMA SeenFrame ==
    ASSUME UNCHANGED fixed, UNCHANGED <<file, known, size>>, NEW o
    PROVE  Seen(o)' <=> \A b \in Blocks \ known :
                            Occurs(b, o) /\ Untouched(o) =>
                                \/ \E j \in jumps' : j[1] < o /\ o < j[2]
                                \/ \E i \in 1 .. Len(found') : found'[i][1] = b
<1>1. Untouched(o)' <=> Untouched(o)
  BY DEF fixed, Untouched, Context, BlockSize
<1>2. \A b : Occurs(b, o)' <=> Occurs(b, o)
  BY DEF fixed, Occurs, InSource, Source, BytesOf, BlockSize, Least
<1> QED BY <1>1, <1>2 DEF Seen

\* What was seen stays so while more is found and passed over.
LEMMA SeenStays ==
    ASSUME UNCHANGED fixed, UNCHANGED <<file, known, size>>, jumps \subseteq jumps',
           \A i \in 1 .. Len(found) : \E k \in 1 .. Len(found') : found'[k] = found[i],
           NEW o, Seen(o)
    PROVE  Seen(o)'
BY SeenFrame DEF Seen

\* What a step that writes nothing leaves of the checksums and the file.
LEMMA SourceFrame ==
    ASSUME SourceInv, UNCHANGED <<fixed, file, known, size>>, at # "idle"
    PROVE  /\ SumsStored' /\ (had \subseteq known)' /\ (case.self => had # {})'
           /\ (size <= Len(Source))'
BY DEF SourceInv, fixed, Source, SumsStored, Stored, CalcRsumBlock, Masked

\* Within a chunk the data and where the parts of it end stay what they are.
LEMMA CutsFrame ==
    ASSUME UNCHANGED <<fixed, file, readVars, at, segments, limit>>, CutsInv
    PROVE  CutsInv'
BY DEF CutsInv, DataEnd, BytesRead, ReadLen, Least, Above, Source, Context, fixed, readVars

\* Windows tested are counted.
LEMMA TestedType == MatcherInv => Tested \in Nat /\ DataEnd \in Nat
<1> SUFFICES ASSUME MatcherInv PROVE Tested \in Nat /\ DataEnd \in Nat
  OBVIOUS
<1>1. FixedInv /\ KnownInv /\ ScanTyped
  BY DEF MatcherInv
<1>2. /\ x \in Nat /\ offset \in Nat /\ BytesRead \in Nat /\ chunk.first \in Nat
      /\ segments \in Seq(Nat \X Nat)
  BY <1>1, ReadsFacts DEF ScanTyped
<1>3. DataEnd \in Nat
  BY <1>2 DEF DataEnd
<1>4. segments # <<>> => chunk.first + segments[1][1] \in Nat
  <2>1. SUFFICES ASSUME segments # <<>> PROVE chunk.first + segments[1][1] \in Nat
    OBVIOUS
  <2>2. segments[1] \in Nat \X Nat
    BY <1>2, <2>1
  <2>3. segments[1][1] \in Nat
    BY <2>2
  <2> QED BY <1>2, <2>3
<1> QED BY <1>2, <1>3, <1>4 DEF Tested

\* Also after a step.
LEMMA TestedNext == MatcherInv' => (Tested \in Nat /\ DataEnd \in Nat)'
BY TestedType, PTL

\* The data of a chunk ends where it did.
LEMMA DataEndFrame ==
    ASSUME UNCHANGED <<fixed, file, offset>>
    PROVE  DataEnd' = DataEnd
BY DEF fixed, DataEnd, BytesRead, ReadLen, Least, Above, Source, Context

\* Nothing is tested before the scan begins.
LEMMA SeenByNone ==
    ASSUME Tested' = 0
    PROVE  SeenInv'
BY DEF SeenInv

\* A step that tests no more loses sight of nothing.
LEMMA SeenInvStays ==
    ASSUME MatcherInv, MatcherInv', SeenInv,
           UNCHANGED fixed, UNCHANGED <<file, known, size>>, jumps \subseteq jumps',
           \A i \in 1 .. Len(found) : \E k \in 1 .. Len(found') : found'[k] = found[i],
           Tested' <= Tested
    PROVE  SeenInv'
<1>1. PICK t \in Nat, u \in Nat : t = Tested /\ u = Tested' /\ u <= t
  BY TestedType, TestedNext
<1>2. \A o \in 0 .. u - 1 : o \in 0 .. t - 1
  <2>1. u <= t
    BY <1>1
  <2> QED BY ONLY <2>1, t \in Nat, u \in Nat
<1>3. ASSUME NEW o \in 0 .. Tested' - 1 PROVE Seen(o)'
  <2>1. o \in 0 .. Tested - 1
    BY <1>1, <1>2
  <2>2. Seen(o)
    BY <2>1 DEF SeenInv
  <2> QED BY <2>2, SeenStays
<1> QED BY <1>3 DEF SeenInv

\* No window is tested at first.
LEMMA CompleteAtFirst == Init => CompleteInv
<1> SUFFICES ASSUME Init PROVE CompleteInv
  OBVIOUS
<1>1. MatcherInv
  BY InvAtFirst
<1>2. at = "idle" /\ offset = 0 /\ known = had
  BY DEF Init
<1>3. case.self => had # {}
  <2>1. SUFFICES ASSUME case.self PROVE had # {}
    OBVIOUS
  <2>2. had \in (SUBSET Blocks) \ {{}}
    BY <2>1 DEF Init
  <2>3. had \notin {{}}
    BY <2>2
  <2> QED BY <2>3
<1>4. sums = [b \in Blocks |-> Stored(target[b])]
  BY DEF Init
<1>5. SourceInv
  BY <1>2, <1>3, <1>4 DEF SourceInv, SumsStored
<1>6. CutsInv
  BY <1>2 DEF CutsInv
<1>7. Tested = 0
  BY <1>2 DEF Tested
<1>8. SeenInv
  BY <1>7 DEF SeenInv
<1> QED BY <1>1, <1>5, <1>6, <1>8 DEF CompleteInv

LEMMA CompleteAfterSubmitBlocks == CompleteInv /\ SubmitBlocks => CompleteInv'
<1> SUFFICES ASSUME CompleteInv, SubmitBlocks PROVE CompleteInv'
  OBVIOUS
<1>1. /\ at = "idle" /\ known = {}
      /\ UNCHANGED <<fixed, hash, at, readVars, scanVars, found, jumps>>
  BY DEF SubmitBlocks
<1>2. MatcherInv /\ MatcherInv' /\ SourceInv
  BY KeptBySubmitBlocks DEF CompleteInv
<1>3. had = {} /\ ~case.self
  BY <1>1, <1>2 DEF SourceInv
<1>4. SumsStored'
  BY <1>1, <1>2 DEF SourceInv, fixed, SumsStored, Stored, CalcRsumBlock, Masked
<1>5. at' = "idle" /\ had' = {} /\ ~case'.self
  BY <1>1, <1>3 DEF fixed
<1>6. SourceInv' /\ CutsInv'
  BY <1>4, <1>5 DEF SourceInv, CutsInv
<1>7. Tested' = 0
  BY <1>2, <1>5 DEF Tested, MatcherInv, ReportInv
<1>8. SeenInv'
  BY <1>7, SeenByNone
<1> QED BY <1>2, <1>6, <1>8 DEF CompleteInv

LEMMA CompleteAfterBeginScan == CompleteInv /\ BeginScan => CompleteInv'
<1> SUFFICES ASSUME CompleteInv, BeginScan PROVE CompleteInv'
  OBVIOUS
<1>1. /\ at = "idle" /\ size' = Len(Source)
      /\ at' = IF Len(Source) < Context THEN "done" ELSE "read"
      /\ UNCHANGED <<fixed, file, known, hash, offset, chunk, report, scanVars, found, jumps>>
  BY DEF BeginScan
<1>2. MatcherInv /\ MatcherInv' /\ SourceInv
  BY KeptByBeginScan DEF CompleteInv
<1>3. Source' = Source /\ Context' = Context
  BY <1>1 DEF Source, fixed, Context
<1>4. SumsStored' /\ (had \subseteq known)' /\ (case.self => had # {})'
  BY <1>1, <1>2 DEF SourceInv, fixed, SumsStored, Stored, CalcRsumBlock, Masked
<1>5. Len(Source) \in Nat
  BY <1>2, ReadsFacts DEF MatcherInv
<1>6. SourceInv'
  BY <1>1, <1>3, <1>4, <1>5 DEF SourceInv
<1>7. at' \notin {"segment", "scan"} /\ offset' = 0
  BY <1>1, <1>2 DEF MatcherInv, ReportInv
<1>8. CutsInv' /\ Tested' = 0
  BY <1>7 DEF CutsInv, Tested
<1>9. SeenInv'
  BY <1>8, SeenByNone
<1> QED BY <1>2, <1>6, <1>8, <1>9 DEF CompleteInv

LEMMA CompleteAfterReadNothing == CompleteInv /\ ReadNothing => CompleteInv'
<1> SUFFICES ASSUME CompleteInv, ReadNothing PROVE CompleteInv'
  OBVIOUS
<1>1. /\ at = "read" /\ BytesRead = 0 /\ at' = "done"
      /\ UNCHANGED <<fixed, file, known, hash, readVars, scanVars, found, jumps>>
  BY DEF ReadNothing
<1>2. MatcherInv /\ MatcherInv' /\ SourceInv /\ SeenInv
  BY KeptByReadNothing DEF CompleteInv
<1>3. SumsStored' /\ (had \subseteq known)' /\ (case.self => had # {})' /\ (size <= Len(Source))'
  BY <1>1, <1>2, SourceFrame DEF readVars
<1>4. size <= offset
  <2>1. PICK l \in Nat, o \in Nat, s \in Nat : l = Len(Source) /\ o = offset /\ s = size
    BY <1>2, ReadsFacts DEF MatcherInv, ScanTyped
  <2>2. l <= o /\ s <= l
    BY <1>1, <1>2, <2>1, ReadsFacts DEF MatcherInv, SourceInv
  <2>3. s <= o
    BY <2>2
  <2> QED BY <2>1, <2>3
<1>5. SourceInv'
  BY <1>1, <1>3, <1>4 DEF SourceInv, readVars
<1>6. CutsInv'
  BY <1>1 DEF CutsInv
<1>7. Tested' = Tested /\ Tested' \in Nat
  <2>1. Tested \in Nat
    BY <1>2, TestedType
  <2> QED BY <1>1, <2>1 DEF Tested, readVars
<1>8. SeenInv'
  <2>1. Tested' <= Tested
    BY <1>7
  <2> QED BY <1>1, <1>2, <2>1, SeenInvStays DEF readVars
<1> QED BY <1>2, <1>5, <1>6, <1>8 DEF CompleteInv

\* The windows of each part end where those of the next begin.
LEMMA PartsMeet ==
    ASSUME case \in Cases, NEW len \in Nat, Context <= len, NEW n \in Nat \ {0}
    PROVE  /\ Len(Parts(n, len)) = n /\ Parts(n, len)[1][1] = 0
           /\ \A i \in 1 .. n :
                 Parts(n, len)[i][2] - Context = IF i = n THEN len - Context
                                                 ELSE Parts(n, len)[i + 1][1]
<1>1. PICK d \in Nat : d = Context
  BY CaseFacts
<1>2. PICK room \in Nat : room = len - d
  BY <1>1
<1>3. PICK part \in Nat : part = room \div n
  BY Divided
<1> DEFINE f == [i \in 1 .. n |-> <<(i - 1) * part, IF i = n THEN len ELSE i * part + d>>]
<1>4. Parts(n, len) = f
  BY <1>1, <1>2, <1>3 DEF Parts
<1>5. f \in Seq(Nat \X Nat) /\ Len(f) = n
  <2>1. Parts(n, len) \in Seq(Nat \X Nat)
    BY PartsWithin
  <2>2. DOMAIN f = 1 .. n
    OBVIOUS
  <2> QED BY <1>4, <2>1, <2>2
<1>6. f[1][1] = 0
  <2>1. 1 \in 1 .. n /\ (1 - 1) * part = 0
    OBVIOUS
  <2> QED BY <2>1
<1>7. ASSUME NEW i \in 1 .. n
      PROVE  f[i][2] - d = IF i = n THEN len - d ELSE f[i + 1][1]
  <2>1. CASE i = n
    BY <2>1
  <2>2. CASE i # n
    <3>1. i + 1 \in 1 .. n /\ (i + 1) - 1 = i /\ i \in Nat
      BY <2>2
    <3>2. f[i + 1][1] = i * part
      BY <3>1
    <3>3. f[i][2] = i * part + d
      BY <2>2
    <3>4. PICK e \in Nat : e = i * part
      BY <3>1, Times
    <3>5. (e + d) - d = e
      BY <1>1
    <3> QED BY <2>2, <3>2, <3>3, <3>4, <3>5
  <2> QED BY <2>1, <2>2
<1> HIDE DEF f
<1> QED BY <1>1, <1>4, <1>5, <1>6, <1>7

LEMMA CompleteAfterReadChunk == CompleteInv /\ ReadChunk => CompleteInv'
<1> SUFFICES ASSUME CompleteInv, ReadChunk PROVE CompleteInv'
  OBVIOUS
<1>1. MatcherInv /\ MatcherInv' /\ SourceInv /\ SeenInv
  BY KeptByReadChunk DEF CompleteInv
<1>2. PICK first, data, end, read, n :
          /\ first = Above(offset, Context) /\ data = offset + BytesRead
          /\ end = data + Context
          /\ read = IF data < size THEN Least(size, end) ELSE data
          /\ chunk' = [first |-> first, read |-> read, end |-> end]
          /\ n \in Threads(end - first) /\ segments' = Parts(n, end - first)
  BY DEF ReadChunk
<1>3. /\ at = "read" /\ at' = "segment"
      /\ UNCHANGED <<fixed, file, known, hash, size, offset, report, x, limit, r0, r1, hint,
                     found, jumps>>
  BY DEF ReadChunk
<1>4. PICK c \in Nat, o \in Nat, k \in Nat :
          c = Context /\ o = offset /\ k = BytesRead /\ case \in Cases
  BY <1>1, ReadsFacts, CaseFacts DEF FixedInv, ScanTyped, MatcherInv
<1>5. /\ first \in Nat /\ first <= o /\ data = o + k /\ end = data + c
      /\ data \in Nat /\ end \in Nat /\ end - first \in Nat /\ c <= end - first
  <2>1. first = IF o > c THEN o - c ELSE 0
    BY <1>2, <1>4 DEF Above
  <2>2. data = o + k /\ end = (o + k) + c
    BY <1>2, <1>4
  <2> QED BY <2>1, <2>2
<1>6. PICK len \in Nat : len = end - first /\ c <= len
  BY <1>5
<1>7. n \in Nat \ {0}
  BY <1>2, <1>4, <1>6, SomeThreads
<1>8. /\ segments' \in Seq(Nat \X Nat) /\ Len(segments') = n /\ segments'[1][1] = 0
      /\ \A i \in 1 .. n : segments'[i][2] - c = IF i = n THEN len - c ELSE segments'[i + 1][1]
  <2>1. segments' = Parts(n, len) /\ Context <= len
    BY <1>2, <1>4, <1>6
  <2>2. Parts(n, len) \in Seq(Nat \X Nat)
    BY <1>4, <1>6, <1>7, <2>1, PartsWithin
  <2>3. /\ Len(Parts(n, len)) = n /\ Parts(n, len)[1][1] = 0
        /\ \A i \in 1 .. n :
              Parts(n, len)[i][2] - Context = IF i = n THEN len - Context
                                              ELSE Parts(n, len)[i + 1][1]
    BY <1>4, <1>6, <1>7, <2>1, PartsMeet
  <2> QED BY <1>4, <2>1, <2>2, <2>3
<1>9. /\ chunk'.first = first /\ chunk'.end = end /\ chunk'.read = read
  BY <1>2
<1>10. Context' = c /\ DataEnd' = data
  <2>1. Context' = c
    BY <1>3, <1>4 DEF fixed, Context
  <2>2. DataEnd = data
    BY <1>2 DEF DataEnd
  <2> QED BY <1>3, <2>1, <2>2, DataEndFrame
<1>11. ASSUME NEW i \in 1 .. n
       PROVE  first + segments'[i][2] - c = IF i = n THEN data ELSE first + segments'[i + 1][1]
  <2>1. PICK q \in Nat : q = segments'[i][2]
    <3>1. segments'[i] \in Nat \X Nat
      BY <1>8
    <3> QED BY <3>1
  <2>2. CASE i = n
    <3>1. q - c = len - c
      BY <1>8, <2>1, <2>2
    <3>2. first + q - c = data
      BY <1>5, <1>6, <3>1
    <3> QED BY <2>1, <2>2, <3>2
  <2>3. CASE i # n
    <3>1. segments'[i + 1][1] = q - c
      BY <1>8, <2>1, <2>3
    <3>2. first + q - c = first + (q - c)
      BY <1>5
    <3> QED BY <2>1, <2>3, <3>1, <3>2
  <2> QED BY <2>2, <2>3
<1>12. CutsInv'
  <2>1. read = IF data < size THEN Least(size, end) ELSE data
    BY <1>2
  <2>2. size' = size
    BY <1>3
  <2>3. (IF DataEnd < size THEN Least(size, chunk.end) ELSE DataEnd)' = read
    BY <1>9, <1>10, <2>1, <2>2 DEF Least
  <2>4. at' = "segment"
    BY <1>3
  <2>5. chunk'.end = DataEnd' + Context'
    BY <1>5, <1>9, <1>10
  <2>6. \A i \in 1 .. Len(segments') :
            chunk'.first + segments'[i][2] - Context'
                = IF i = Len(segments') THEN DataEnd' ELSE chunk'.first + segments'[i + 1][1]
    BY <1>8, <1>9, <1>10, <1>11
  <2> QED BY <1>9, <2>3, <2>4, <2>5, <2>6 DEF CutsInv
<1>13. SourceInv'
  <2>1. SumsStored' /\ (had \subseteq known)' /\ (case.self => had # {})' /\ (size <= Len(Source))'
    BY <1>1, <1>3, SourceFrame
  <2> QED BY <1>3, <2>1 DEF SourceInv
<1>14. Tested' = first
  <2>1. segments' # <<>>
    BY <1>7, <1>8
  <2>2. Tested' = chunk'.first + segments'[1][1]
    BY <1>3, <2>1 DEF Tested
  <2> QED BY <1>5, <1>8, <1>9, <2>2
<1>15. SeenInv'
  <2>1. Tested = offset
    BY <1>3 DEF Tested
  <2>2. Tested' <= Tested
    BY <1>4, <1>5, <1>14, <2>1
  <2> QED BY <1>1, <1>3, <2>2, SeenInvStays
<1> QED BY <1>1, <1>12, <1>13, <1>15 DEF CompleteInv

LEMMA CompleteAfterBeginSegment == CompleteInv /\ BeginSegment => CompleteInv'
<1> SUFFICES ASSUME CompleteInv, BeginSegment PROVE CompleteInv'
  OBVIOUS
<1>1. MatcherInv /\ MatcherInv' /\ SourceInv /\ SeenInv /\ CutsInv
  BY KeptByBeginSegment DEF CompleteInv
<1>2. /\ at = "segment" /\ segments # <<>>
      /\ x' = chunk.first + Head(segments)[1]
      /\ limit' = chunk.first + Head(segments)[2] - Context
      /\ segments' = Tail(segments) /\ at' = "scan"
      /\ UNCHANGED <<fixed, file, known, hash, readVars, found, jumps>>
  BY DEF BeginSegment
<1>3. /\ segments \in Seq(Nat \X Nat) /\ Head(segments) = segments[1]
      /\ Len(segments) \in Nat /\ Len(segments) >= 1 /\ Len(segments') = Len(segments) - 1
      /\ \A i \in 1 .. Len(segments') : segments'[i] = segments[i + 1]
      /\ (segments' = <<>> <=> Len(segments') = 0)
  <2>1. segments \in Seq(Nat \X Nat) /\ segments # <<>>
    BY <1>1, <1>2 DEF ScanTyped, MatcherInv
  <2>2. segments' \in Seq(Nat \X Nat) /\ segments' = Tail(segments)
    BY <1>2, <2>1
  <2>3. segments' = <<>> <=> Len(segments') = 0
    <3>1. \A t \in Seq(Nat \X Nat) : t = <<>> <=> Len(t) = 0
      OBVIOUS
    <3> QED BY <2>2, <3>1
  <2>4. /\ Head(segments) = segments[1] /\ Len(segments) \in Nat /\ Len(segments) >= 1
        /\ Len(Tail(segments)) = Len(segments) - 1
        /\ \A i \in 1 .. Len(Tail(segments)) : Tail(segments)[i] = segments[i + 1]
    BY <2>1
  <2> QED BY <2>1, <2>2, <2>3, <2>4
<1>4. PICK m \in Nat : m = Len(segments) /\ m >= 1 /\ Len(segments') = m - 1
  BY <1>3
<1>5. DataEnd' = DataEnd /\ chunk' = chunk /\ Context' = Context /\ size' = size
  BY <1>2, DataEndFrame DEF readVars, fixed, Context
<1>6. \A i \in 1 .. m :
          chunk.first + segments[i][2] - Context
              = IF i = m THEN DataEnd ELSE chunk.first + segments[i + 1][1]
  BY <1>1, <1>2, <1>4 DEF CutsInv
<1>7. ASSUME NEW i \in 1 .. Len(segments')
      PROVE  chunk.first + segments'[i][2] - Context
                 = IF i = Len(segments') THEN DataEnd ELSE chunk.first + segments'[i + 1][1]
  <2>1. i + 1 \in 1 .. m /\ (i = m - 1 <=> i + 1 = m) /\ (i # m - 1 => i + 1 \in 1 .. m - 1)
    BY <1>4
  <2>2. segments'[i] = segments[i + 1]
    BY <1>3
  <2>3. i # m - 1 => segments'[i + 1] = segments[(i + 1) + 1]
    BY <1>3, <1>4, <2>1
  <2> QED BY <1>4, <1>6, <2>1, <2>2, <2>3
<1>8. limit' = IF segments' = <<>> THEN DataEnd ELSE chunk.first + segments'[1][1]
  <2>1. 1 \in 1 .. m /\ (1 = m <=> m - 1 = 0) /\ (m # 1 => 1 \in 1 .. m - 1)
    BY <1>4
  <2>2. limit' = IF 1 = m THEN DataEnd ELSE chunk.first + segments[1 + 1][1]
    BY <1>2, <1>3, <1>6, <2>1
  <2>3. m # 1 => segments'[1] = segments[1 + 1]
    BY <1>3, <1>4, <2>1
  <2> QED BY <1>3, <1>4, <2>1, <2>2, <2>3
<1>9. CutsInv'
  <2>1. /\ chunk.end = DataEnd + Context
        /\ chunk.read = IF DataEnd < size THEN Least(size, chunk.end) ELSE DataEnd
    BY <1>1, <1>2 DEF CutsInv
  <2> QED BY <1>2, <1>5, <1>7, <1>8, <2>1 DEF CutsInv, Least
<1>10. SourceInv'
  <2>1. SumsStored' /\ (had \subseteq known)' /\ (case.self => had # {})' /\ (size <= Len(Source))'
    BY <1>1, <1>2, SourceFrame DEF readVars
  <2> QED BY <1>2, <2>1 DEF SourceInv
<1>11. SeenInv'
  <2>1. Tested' = Tested
    BY <1>2, <1>3 DEF Tested
  <2>2. Tested' <= Tested
    BY <1>1, <2>1, TestedType
  <2> QED BY <1>1, <1>2, <2>2, SeenInvStays DEF readVars
<1> QED BY <1>1, <1>9, <1>10, <1>11 DEF CompleteInv

LEMMA CompleteAfterSegmentDone == CompleteInv /\ SegmentDone => CompleteInv'
<1> SUFFICES ASSUME CompleteInv, SegmentDone PROVE CompleteInv'
  OBVIOUS
<1>1. MatcherInv /\ MatcherInv' /\ SourceInv /\ SeenInv /\ CutsInv
  BY KeptBySegmentDone DEF CompleteInv
<1>2. /\ at = "scan" /\ x >= limit /\ at' = "segment"
      /\ UNCHANGED <<fixed, file, known, hash, readVars, scanVars, found, jumps>>
  BY DEF SegmentDone
<1>3. DataEnd' = DataEnd /\ Context' = Context
  BY <1>2, DataEndFrame DEF readVars, fixed, Context
<1>4. CutsInv'
  BY <1>1, <1>2, <1>3 DEF CutsInv, readVars, scanVars, Least
<1>5. SourceInv'
  <2>1. SumsStored' /\ (had \subseteq known)' /\ (case.self => had # {})' /\ (size <= Len(Source))'
    BY <1>1, <1>2, SourceFrame DEF readVars
  <2> QED BY <1>2, <2>1 DEF SourceInv
<1>6. Tested' = limit
  BY <1>1, <1>2, <1>3 DEF CutsInv, Tested, readVars, scanVars
<1>7. SeenInv'
  <2>1. Tested = x /\ x \in Nat /\ limit \in Int
    BY <1>1, <1>2 DEF Tested, MatcherInv, ScanTyped
  <2>2. Tested' <= Tested
    BY <1>2, <1>6, <2>1
  <2> QED BY <1>1, <1>2, <2>2, SeenInvStays DEF readVars
<1> QED BY <1>1, <1>4, <1>5, <1>7 DEF CompleteInv

\* A step within a segment sees the window it leaves and jumps over the rest.
LEMMA ScanSees ==
    ASSUME CompleteInv, MatcherInv', at = "scan", x < limit,
           UNCHANGED <<fixed, file, known, hash, at, readVars, segments, limit>>,
           jumps \subseteq jumps',
           \A i \in 1 .. Len(found) : \E k \in 1 .. Len(found') : found'[k] = found[i],
           NEW y \in Nat, y = x, Seen(y)',
           \A o \in x + 1 .. x' - 1 : \E j \in jumps' : j[1] < o /\ o < j[2]
    PROVE  CompleteInv'
<1>1. MatcherInv /\ SourceInv /\ SeenInv /\ CutsInv
  BY DEF CompleteInv
<1>2. CutsInv'
  BY <1>1, CutsFrame
<1>3. SourceInv'
  <2>1. SumsStored' /\ (had \subseteq known)' /\ (case.self => had # {})' /\ (size <= Len(Source))'
    BY <1>1, SourceFrame DEF readVars
  <2> QED BY <2>1 DEF SourceInv
<1>4. PICK z \in Nat : z = x'
  <2>1. Tested' = x'
    BY DEF Tested
  <2> QED BY <1>1, <2>1, TestedType, TestedNext
<1>5. Tested = y /\ Tested' = z
  BY <1>4 DEF Tested
<1>6. ASSUME NEW o \in 0 .. z - 1 PROVE Seen(o)'
  <2>1. CASE o < y
    <3>1. o \in 0 .. y - 1
      BY <2>1
    <3>2. Seen(o)
      BY <1>1, <1>5, <3>1 DEF SeenInv
    <3> QED BY <3>2, SeenStays DEF readVars
  <2>2. CASE o = y
    BY <1>4, <2>2
  <2>3. CASE o > y
    <3>1. o \in y + 1 .. z - 1
      BY <2>3
    <3>2. \E j \in jumps' : j[1] < o /\ o < j[2]
      BY <1>4, <3>1
    <3> QED BY <3>2, SeenFrame DEF readVars
  <2>4. o < y \/ o = y \/ o > y
    OBVIOUS
  <2> QED BY <2>1, <2>2, <2>3, <2>4
<1>7. SeenInv'
  BY <1>5, <1>6 DEF SeenInv
<1> QED BY <1>1, <1>2, <1>3, <1>7 DEF CompleteInv

\* The windows jumped over are in a stretch that was matched.
LEMMA JumpCovers ==
    ASSUME x \in Nat, x' \in Nat, NEW n, Jump(n)
    PROVE  /\ jumps \subseteq jumps'
           /\ \A o \in x + 1 .. x' - 1 : \E j \in jumps' : j[1] < o /\ o < j[2]
<1>1. jumps' = jumps \cup {<<x, x'>>}
  BY DEF Jump
<1>2. <<x, x'>> \in jumps' /\ <<x, x'>>[1] = x /\ <<x, x'>>[2] = x'
  BY <1>1
<1>3. ASSUME NEW o \in x + 1 .. x' - 1 PROVE x < o /\ o < x'
  <2>1. PICK y \in Nat, z \in Nat : y = x /\ z = x'
    OBVIOUS
  <2>2. o \in y + 1 .. z - 1
    BY <2>1
  <2>3. y < o /\ o < z
    BY <2>2
  <2> QED BY <2>1, <2>3
<1> QED BY <1>1, <1>2, <1>3

\* What is joined to a sequence leaves its elements in it.
LEMMA Joined ==
    ASSUME NEW s \in Seq(Blocks \X Nat), NEW t \in Seq(Blocks \X Nat)
    PROVE  /\ \A i \in 1 .. Len(s) : \E k \in 1 .. Len(s \o t) : (s \o t)[k] = s[i]
           /\ \A i \in 1 .. Len(t) : \E k \in 1 .. Len(s \o t) : (s \o t)[k] = t[i]
<1>1. PICK m \in Nat, n \in Nat :
          /\ m = Len(s) /\ n = Len(t) /\ Len(s \o t) = m + n
          /\ \A i \in 1 .. m : (s \o t)[i] = s[i]
          /\ \A i \in m + 1 .. m + n : (s \o t)[i] = t[i - m]
  <2>1. PICK S : S = Blocks \X Nat
    OBVIOUS
  <2>2. s \in Seq(S) /\ t \in Seq(S)
    BY <2>1
  <2>3. /\ Len(s) \in Nat /\ Len(t) \in Nat /\ Len(s \o t) = Len(s) + Len(t)
        /\ \A i \in 1 .. Len(s) : (s \o t)[i] = s[i]
        /\ \A i \in Len(s) + 1 .. Len(s) + Len(t) : (s \o t)[i] = t[i - Len(s)]
    BY ONLY <2>2
  <2> QED BY <2>3
<1>2. ASSUME NEW i \in 1 .. m PROVE \E k \in 1 .. m + n : (s \o t)[k] = s[i]
  <2>1. i \in 1 .. m + n
    OBVIOUS
  <2> QED BY <1>1, <2>1
<1>3. ASSUME NEW i \in 1 .. n PROVE \E k \in 1 .. m + n : (s \o t)[k] = t[i]
  <2>1. i + m \in m + 1 .. m + n /\ i + m \in 1 .. m + n /\ (i + m) - m = i
    OBVIOUS
  <2> QED BY <1>1, <2>1
<1> QED BY <1>1, <1>2, <1>3

LEMMA CompleteAfterContinueMatch == WholeSums /\ CompleteInv /\ ContinueMatch => CompleteInv'
<1> SUFFICES ASSUME WholeSums, CompleteInv, ContinueMatch PROVE CompleteInv'
  OBVIOUS
<1>1. MatcherInv /\ MatcherInv'
  BY KeptByContinueMatch DEF CompleteInv
<1>2. /\ at = "scan" /\ x < limit /\ hint \in Blocks
      /\ found' = Append(found, <<hint, x>>) \o MatchChain(hint) /\ Jump(1)
      /\ UNCHANGED <<fixed, file, known, hash, at, readVars, segments, limit>>
  BY DEF ContinueMatch, HintHolds
<1>3. x \in Nat /\ found \in Seq(Blocks \X Nat)
  BY <1>1 DEF MatcherInv, ScanTyped
<1>4. x' \in Nat
  BY <1>1 DEF MatcherInv, ScanTyped
<1>5. PICK m \in Blocks \X Nat : m = <<hint, x>> /\ m[1] = hint
  BY <1>2, <1>3
<1>6. PICK u \in Seq(Blocks \X Nat) :
          /\ u = Append(found, m) /\ Len(u) = Len(found) + 1 /\ Len(found) \in Nat
          /\ \A i \in 1 .. Len(found) : u[i] = found[i]
          /\ u[Len(found) + 1] = m
  <2>1. /\ Append(found, m) \in Seq(Blocks \X Nat)
        /\ Len(Append(found, m)) = Len(found) + 1 /\ Len(found) \in Nat
        /\ \A i \in 1 .. Len(found) : Append(found, m)[i] = found[i]
        /\ Append(found, m)[Len(found) + 1] = m
    BY <1>3, Appended
  <2> QED BY <2>1
<1>7. PICK t \in Seq(Blocks \X Nat) : t = MatchChain(hint)
  BY <1>1, <1>2, ChainIsThere
<1>8. found' = u \o t
  BY <1>2, <1>5, <1>6, <1>7
<1>9. /\ \A i \in 1 .. Len(u) : \E k \in 1 .. Len(found') : found'[k] = u[i]
      /\ \A i \in 1 .. Len(t) : \E k \in 1 .. Len(found') : found'[k] = t[i]
  <2>1. /\ \A i \in 1 .. Len(u) : \E k \in 1 .. Len(u \o t) : (u \o t)[k] = u[i]
        /\ \A i \in 1 .. Len(t) : \E k \in 1 .. Len(u \o t) : (u \o t)[k] = t[i]
    BY Joined
  <2> QED BY <1>8, <2>1
<1>10. \A i \in 1 .. Len(found) : \E k \in 1 .. Len(found') : found'[k] = found[i]
  <2>1. ASSUME NEW i \in 1 .. Len(found)
        PROVE  \E k \in 1 .. Len(found') : found'[k] = found[i]
    <3>1. i \in 1 .. Len(u) /\ u[i] = found[i]
      BY <1>6
    <3> QED BY <1>9, <3>1
  <2> QED BY <2>1
<1>11. PICK y \in Nat : y = x
  BY <1>3
<1>12. Seen(y)'
  <2>1. ASSUME NEW b \in Blocks \ known, Occurs(b, y), Untouched(y)
        PROVE  \E i \in 1 .. Len(found') : found'[i][1] = b
    <3>1. CASE b = hint
      <4>1. Len(found) + 1 \in 1 .. Len(u)
        BY <1>6
      <4>2. PICK k \in 1 .. Len(found') : found'[k] = u[Len(found) + 1]
        BY <1>9, <4>1
      <4> QED BY <1>5, <1>6, <3>1, <4>2
    <3>2. CASE b # hint
      <4>1. PICK i \in 1 .. Len(t) : t[i] = <<b, x>>
        BY <1>2, <1>7, <1>11, <2>1, <3>2, WindowIsSeen
      <4>2. PICK k \in 1 .. Len(found') : found'[k] = t[i]
        BY <1>9
      <4> QED BY <4>1, <4>2
    <3> QED BY <3>1, <3>2
  <2>2. /\ UNCHANGED fixed /\ UNCHANGED <<file, known, size>>
    BY <1>2 DEF readVars
  <2> QED BY <2>1, <2>2, SeenFrame
<1>13. /\ jumps \subseteq jumps'
       /\ \A o \in x + 1 .. x' - 1 : \E j \in jumps' : j[1] < o /\ o < j[2]
  BY <1>2, <1>3, <1>4, JumpCovers
<1> QED BY <1>1, <1>2, <1>10, <1>11, <1>12, <1>13, ScanSees

LEMMA CompleteAfterMatchHere == WholeSums /\ CompleteInv /\ MatchHere => CompleteInv'
<1> SUFFICES ASSUME WholeSums, CompleteInv, MatchHere PROVE CompleteInv'
  OBVIOUS
<1>1. MatcherInv /\ MatcherInv'
  BY KeptByMatchHere DEF CompleteInv
<1>2. /\ at = "scan" /\ x < limit
      /\ UNCHANGED <<fixed, file, known, hash, at, readVars, segments, limit>>
  BY DEF MatchHere
<1>3. x \in Nat /\ found \in Seq(Blocks \X Nat) /\ x' \in Nat
  BY <1>1 DEF MatcherInv, ScanTyped
<1>4. PICK t \in Seq(Blocks \X Nat) : t = MatchChain(Empty)
  BY <1>1, <1>2, ChainIsThere
<1>5. found' = found \o t /\ (Jump(1) \/ Jump(2))
  BY <1>4 DEF MatchHere
<1>6. /\ \A i \in 1 .. Len(found) : \E k \in 1 .. Len(found') : found'[k] = found[i]
      /\ \A i \in 1 .. Len(t) : \E k \in 1 .. Len(found') : found'[k] = t[i]
  <2>1. PICK s \in Seq(Blocks \X Nat) : s = found
    BY <1>3
  <2>2. found' = s \o t
    BY <1>5, <2>1
  <2>3. /\ \A i \in 1 .. Len(s) : \E k \in 1 .. Len(s \o t) : (s \o t)[k] = s[i]
        /\ \A i \in 1 .. Len(t) : \E k \in 1 .. Len(s \o t) : (s \o t)[k] = t[i]
    BY Joined
  <2> QED BY <2>1, <2>2, <2>3
<1>7. PICK y \in Nat : y = x
  BY <1>3
<1>8. Seen(y)'
  <2>1. ASSUME NEW b \in Blocks \ known, Occurs(b, y), Untouched(y)
        PROVE  \E i \in 1 .. Len(found') : found'[i][1] = b
    <3>1. b # Empty
      BY BlocksType DEF Blocks, Empty
    <3>2. PICK i \in 1 .. Len(t) : t[i] = <<b, x>>
      BY <1>2, <1>4, <1>7, <2>1, <3>1, WindowIsSeen
    <3>3. PICK k \in 1 .. Len(found') : found'[k] = t[i]
      BY <1>6
    <3> QED BY <3>2, <3>3
  <2>2. /\ UNCHANGED fixed /\ UNCHANGED <<file, known, size>>
    BY <1>2 DEF readVars
  <2> QED BY <2>1, <2>2, SeenFrame
<1>9. /\ jumps \subseteq jumps'
      /\ \A o \in x + 1 .. x' - 1 : \E j \in jumps' : j[1] < o /\ o < j[2]
  BY <1>3, <1>5, JumpCovers
<1> QED BY <1>1, <1>2, <1>6, <1>7, <1>8, <1>9, ScanSees

LEMMA CompleteAfterSlide == WholeSums /\ CompleteInv /\ Slide => CompleteInv'
<1> SUFFICES ASSUME WholeSums, CompleteInv, Slide PROVE CompleteInv'
  OBVIOUS
<1>1. MatcherInv /\ MatcherInv'
  BY KeptBySlide DEF CompleteInv
<1>2. /\ at = "scan" /\ x < limit /\ MatchChain(Empty) = <<>> /\ x' = x + 1
      /\ found' = found /\ jumps' = jumps
      /\ UNCHANGED <<fixed, file, known, hash, at, readVars, segments, limit>>
  BY DEF Slide
<1>3. PICK y \in Nat : y = x
  BY <1>1 DEF MatcherInv, ScanTyped
<1>4. Seen(y)'
  <2>1. ASSUME NEW b \in Blocks \ known, Occurs(b, y), Untouched(y) PROVE FALSE
    <3>1. b # Empty
      BY BlocksType DEF Blocks, Empty
    <3>2. PICK i \in 1 .. Len(MatchChain(Empty)) : MatchChain(Empty)[i] = <<b, x>>
      BY <1>2, <1>3, <2>1, <3>1, WindowIsSeen
    <3>3. 1 .. Len(<<>>) = {}
      OBVIOUS
    <3> QED BY <1>2, <3>2, <3>3
  <2>2. /\ UNCHANGED fixed /\ UNCHANGED <<file, known, size>>
    BY <1>2 DEF readVars
  <2> QED BY <2>1, <2>2, SeenFrame
<1>5. ASSUME NEW o \in x + 1 .. x' - 1 PROVE FALSE
  <2>1. x' = y + 1
    BY <1>2, <1>3
  <2>2. o \in y + 1 .. (y + 1) - 1
    BY <1>3, <2>1
  <2> QED BY <2>2
<1>6. \A i \in 1 .. Len(found) : \E k \in 1 .. Len(found') : found'[k] = found[i]
  BY <1>2
<1> QED BY <1>1, <1>2, <1>3, <1>4, <1>5, <1>6, ScanSees

LEMMA CompleteAfterStutter == CompleteInv /\ UNCHANGED vars => CompleteInv'
<1> SUFFICES ASSUME CompleteInv, UNCHANGED vars PROVE CompleteInv'
  OBVIOUS
<1>1. MatcherInv /\ MatcherInv' /\ SourceInv /\ SeenInv /\ CutsInv
  BY KeptByStutter DEF CompleteInv
<1>2. UNCHANGED <<fixed, file, known, hash, at, readVars, scanVars, found, jumps>>
  BY DEF vars
<1>3. CutsInv'
  BY <1>1, <1>2, CutsFrame DEF scanVars
<1>4. SourceInv'
  BY <1>1, <1>2 DEF SourceInv, fixed, readVars, Source, SumsStored, Stored, CalcRsumBlock,
                    Masked, Context
<1>5. Tested' = Tested
  BY <1>2, DataEndFrame DEF Tested, readVars, scanVars
<1>6. SeenInv'
  <2>1. Tested' <= Tested
    BY <1>1, <1>5, TestedType
  <2> QED BY <1>1, <1>2, <2>1, SeenInvStays DEF readVars
<1> QED BY <1>1, <1>3, <1>4, <1>6 DEF CompleteInv

-----------------------------------------------------------------------------
(* What a chunk leaves. *)

\* A block written leaves the bytes of the others, and the file no shorter.
LEMMA WriteLeaves ==
    ASSUME case \in Cases, NEW data \in Seq(Nat), NEW b \in Nat,
           NEW block \in [1 .. BlockSize -> Nat]
    PROVE  /\ Len(data) <= Len(Write(data, b, block))
           /\ \A p \in 1 .. Len(data) :
                 (p - 1) \div BlockSize # b => Write(data, b, block)[p] = data[p]
<1>1. PICK d \in Nat \ {0}, end \in Nat : d = BlockSize /\ end = (b + 1) * BlockSize
  <2>1. BlockSize \in Nat \ {0}
    BY CaseFacts
  <2>2. \A d \in Nat : (b + 1) * d \in Nat
    OBVIOUS
  <2> QED BY <2>1, <2>2
<1>2. PICK l \in Nat : l = Len(data)
  OBVIOUS
<1>3. PICK len \in Nat : len = IF l > end THEN l ELSE end
  OBVIOUS
<1>4. Write(data, b, block)
          = [i \in 1 .. len |-> IF (i - 1) \div d = b THEN block[((i - 1) % d) + 1]
                                ELSE IF i <= l THEN data[i] ELSE 0]
  BY <1>1, <1>2, <1>3 DEF Write
<1>5. PICK w \in Seq(Nat) : w = Write(data, b, block)
  BY WriteHolds
<1>6. Len(w) = len
  <2>1. DOMAIN w = 1 .. len
    BY <1>4, <1>5
  <2> QED BY <2>1
<1>7. l <= len
  BY <1>3
<1>8. ASSUME NEW p \in 1 .. l, (p - 1) \div d # b PROVE w[p] = data[p]
  <2>1. p \in 1 .. len /\ p <= l
    BY <1>7
  <2> QED BY <1>4, <1>5, <1>8, <2>1
<1> QED BY <1>1, <1>2, <1>5, <1>6, <1>7, <1>8

\* Bytes of blocks not copied stay.
LEMMA CopyLeaves ==
    ASSUME WindowsTyped, NEW new \in Seq(Blocks \X Nat)
    PROVE  /\ Copy(new) \in Seq(Nat) /\ Len(file) <= Len(Copy(new))
           /\ \A p \in 1 .. Len(file) :
                 (\A i \in 1 .. Len(new) : (p - 1) \div BlockSize # new[i][1])
                     => Copy(new)[p] = file[p]
<1>1. PICK m \in Nat : m = Len(new)
  OBVIOUS
<1>2. PICK g : /\ g[0] = file
               /\ \A i \in 1 .. m : g[i] = Write(g[i - 1], new[i][1], BlockData(new[i][2]))
               /\ Copy(new) = g[m]
  BY <1>1, CopyTrace
<1>3. PICK l \in Nat : l = Len(file)
  BY DEF WindowsTyped
<1> DEFINE Good(i) ==
        /\ g[i] \in Seq(Nat) /\ l <= Len(g[i])
        /\ \A p \in 1 .. l :
              (\A j \in 1 .. i : (p - 1) \div BlockSize # new[j][1]) => g[i][p] = file[p]
           G == {i \in Nat : i <= m => Good(i)}
<1>4. 0 \in G
  BY <1>2, <1>3 DEF WindowsTyped
<1> HIDE DEF Good
<1>5. ASSUME NEW i \in Nat, i \in G PROVE i + 1 \in G
  <2>1. SUFFICES ASSUME i + 1 <= m PROVE Good(i + 1)
    OBVIOUS
  <2> USE DEF Good
  <2>2. i + 1 \in 1 .. m /\ (i + 1) - 1 = i /\ i <= m
    BY <2>1
  <2>3. PICK c \in Blocks, o \in Nat : new[i + 1] = <<c, o>>
    <3>1. new[i + 1] \in Blocks \X Nat
      BY <1>1, <2>2
    <3>2. \A f \in Blocks \X Nat : \E c \in Blocks, o \in Nat : f = <<c, o>>
      OBVIOUS
    <3> QED BY <3>1, <3>2
  <2>4. c \in Nat /\ case \in Cases /\ BlockSize \in Nat
    BY BlocksType, CaseFacts DEF WindowsTyped, TargetTyped, Blocks
  <2>5. PICK v \in [1 .. BlockSize -> Nat] : v = BlockData(o)
    BY DataType
  <2>6. PICK u \in Seq(Nat) : u = g[i]
    BY <1>5, <2>2
  <2>7. g[i + 1] = Write(u, c, v)
    BY <1>2, <2>2, <2>3, <2>5, <2>6
  <2>8. PICK w \in Seq(Nat) : w = Write(u, c, v)
    BY <2>4, WriteHolds
  <2>9. /\ Len(u) <= Len(w)
        /\ \A p \in 1 .. Len(u) : (p - 1) \div BlockSize # c => w[p] = u[p]
    BY <2>4, <2>8, WriteLeaves
  <2>10. PICK lu \in Nat, lw \in Nat : lu = Len(u) /\ lw = Len(w) /\ l <= lu /\ lu <= lw
    <3>1. l <= Len(u)
      BY <1>5, <2>2, <2>6
    <3> QED BY <2>9, <3>1
  <2>11. ASSUME NEW p \in 1 .. l,
                \A j \in 1 .. i + 1 : (p - 1) \div BlockSize # new[j][1]
         PROVE  w[p] = file[p]
    <3>1. \A j \in 1 .. i : j \in 1 .. i + 1
      OBVIOUS
    <3>2. u[p] = file[p]
      BY <1>5, <2>2, <2>6, <2>11, <3>1
    <3>3. p \in 1 .. lu /\ i + 1 \in 1 .. i + 1
      BY <2>10
    <3>4. (p - 1) \div BlockSize # c
      BY <2>3, <2>11, <3>3
    <3> QED BY <2>9, <2>10, <3>2, <3>3, <3>4
  <2>12. l <= lw
    BY <2>10
  <2> QED BY <2>7, <2>8, <2>10, <2>11, <2>12
<1>6. m \in G
  <2> HIDE DEF G
  <2> QED BY <1>4, <1>5, FromZeroOn
<1>7. Good(m)
  BY <1>6
<1> QED BY <1>1, <1>2, <1>3, <1>7 DEF Good

\* Every block found becomes known, and only blocks that become known are copied.
LEMMA TakenAll ==
    ASSUME SumsTyped, found \in Seq(Blocks \X Nat), known \in SUBSET Blocks,
           IndexOK(hash, Blocks \ known)
    PROVE  /\ \A j \in 1 .. Len(found) : found[j][1] \in Taken.known
           /\ \A i \in 1 .. Len(Taken.new) : Taken.new[i][1] \in Taken.known \ known
<1>1. PICK m \in Nat : m = Len(found)
  OBVIOUS
<1>2. Start \in Takes
  <2>1. hash \in Sound
    BY DEF IndexOK, IndexTyped, Sound, Table
  <2>2. <<>> \in Seq(Blocks \X Nat)
    OBVIOUS
  <2> QED BY <2>1, <2>2 DEF Start, Takes
<1>3. PICK g : /\ g[0] = Start
               /\ \A i \in 1 .. m : g[i] = TakeFound(g[i - 1], found[i])
               /\ Taken = g[m]
  BY <1>1, <1>2, TakeTrace
<1> DEFINE Good(i) ==
        /\ g[i] \in Takes /\ known \subseteq g[i].known
        /\ \A j \in 1 .. i : found[j][1] \in g[i].known
        /\ \A k \in 1 .. Len(g[i].new) : g[i].new[k][1] \in g[i].known \ known
           G == {i \in Nat : i <= m => Good(i)}
<1>4. 0 \in G
  <2>1. Start.known = known /\ Start.new = <<>> /\ 1 .. 0 = {} /\ 1 .. Len(<<>>) = {}
    BY DEF Start
  <2>2. Good(0)
    BY <1>2, <1>3, <2>1
  <2> QED BY <2>2
<1>5. ASSUME NEW i \in Nat, i \in G PROVE i + 1 \in G
  <2>1. SUFFICES ASSUME i + 1 <= m PROVE Good(i + 1)
    OBVIOUS
  <2>2. i + 1 \in 1 .. m /\ (i + 1) - 1 = i /\ i <= m
    BY <2>1
  <2>3. PICK f \in Blocks \X Nat : f = found[i + 1]
    BY <1>1, <2>2
  <2>4. PICK s \in Takes : s = g[i]
    BY <1>5, <2>2
  <2>5. /\ known \subseteq s.known
        /\ \A j \in 1 .. i : found[j][1] \in s.known
        /\ \A k \in 1 .. Len(s.new) : s.new[k][1] \in s.known \ known
    BY <1>5, <2>2, <2>4
  <2>6. PICK t \in Takes : t = TakeFound(s, f)
    BY TakeTyped
  <2>7. g[i + 1] = t
    BY <1>3, <2>2, <2>3, <2>4, <2>6
  <2>8. /\ s.known \subseteq t.known /\ f[1] \in t.known
        /\ \A k \in 1 .. Len(t.new) : t.new[k][1] \in t.known \ known
    <3>1. CASE f[1] \in s.known
      <4>1. t = s
        BY <2>6, <3>1 DEF TakeFound
      <4> QED BY <2>5, <3>1, <4>1
    <3>2. CASE f[1] \notin s.known
      <4>1. t.known = s.known \cup {f[1]} /\ t.new = Append(s.new, f)
        BY <2>6, <3>2 DEF TakeFound
      <4>2. s.new \in Seq(Blocks \X Nat)
        BY DEF Takes
      <4>3. /\ Len(t.new) = Len(s.new) + 1 /\ Len(s.new) \in Nat
            /\ \A k \in 1 .. Len(s.new) : t.new[k] = s.new[k]
            /\ t.new[Len(s.new) + 1] = f
        BY <4>1, <4>2, Appended
      <4>4. PICK n \in Nat : n = Len(s.new) /\ Len(t.new) = n + 1
        BY <4>3
      <4>5. \A k \in 1 .. n + 1 : k \in 1 .. n \/ k = n + 1
        OBVIOUS
      <4>6. f[1] \notin known
        BY <2>5, <3>2
      <4> QED BY <2>5, <4>1, <4>3, <4>4, <4>5, <4>6
    <3> QED BY <3>1, <3>2
  <2>9. \A j \in 1 .. i + 1 : found[j][1] \in t.known
    <3>1. \A j \in 1 .. i + 1 : j \in 1 .. i \/ j = i + 1
      OBVIOUS
    <3> QED BY <2>3, <2>5, <2>8, <3>1
  <2> QED BY <2>5, <2>7, <2>8, <2>9
<1>6. m \in G
  <2> HIDE DEF G
  <2> QED BY <1>4, <1>5, FromZeroOn
<1>7. Good(m)
  BY <1>6
<1> QED BY <1>1, <1>3, <1>7

\* A chunk leaves its finds known, and the other bytes of the file as they were.
LEMMA ChunkLeaves ==
    ASSUME MatcherInv, ChunkDone
    PROVE  /\ known \subseteq known' /\ \A j \in 1 .. Len(found) : found[j][1] \in known'
           /\ file' \in Seq(Nat) /\ Len(file) <= Len(file')
           /\ \A p \in 1 .. Len(file) :
                 (p - 1) \div BlockSize \notin known' \ known => file'[p] = file[p]
<1>1. FixedInv /\ KnownInv /\ ScanTyped
  BY DEF MatcherInv
<1>2. known' = Taken.known /\ file' = Copy(Taken.new)
  BY DEF ChunkDone
<1>3. /\ SumsTyped /\ found \in Seq(Blocks \X Nat) /\ known \in SUBSET Blocks
      /\ IndexOK(hash, Blocks \ known)
  BY <1>1 DEF SumsTyped, FixedInv, Sum, ScanTyped, KnownInv
<1>4. PICK t : t = Taken /\ TakesOK(t)
  BY <1>3, TakenOK
<1>5. known \subseteq t.known /\ t.new \in Seq(Blocks \X Nat)
  BY <1>4 DEF TakesOK, Takes
<1>6. /\ \A j \in 1 .. Len(found) : found[j][1] \in t.known
      /\ \A i \in 1 .. Len(t.new) : t.new[i][1] \in t.known \ known
  BY <1>3, <1>4, TakenAll
<1>7. WindowsTyped
  BY <1>1, ReadsFacts DEF WindowsTyped, TargetTyped, FixedInv, KnownInv, ScanTyped
<1>8. /\ Copy(t.new) \in Seq(Nat) /\ Len(file) <= Len(Copy(t.new))
      /\ \A p \in 1 .. Len(file) :
            (\A i \in 1 .. Len(t.new) : (p - 1) \div BlockSize # t.new[i][1])
                => Copy(t.new)[p] = file[p]
  BY <1>5, <1>7, CopyLeaves
<1>9. ASSUME NEW p \in 1 .. Len(file), (p - 1) \div BlockSize \notin t.known \ known
      PROVE  Copy(t.new)[p] = file[p]
  BY <1>6, <1>8, <1>9
<1> QED BY <1>2, <1>4, <1>5, <1>6, <1>8, <1>9

\* What nothing was written to is still what the file has there.
LEMMA SourceLeft ==
    ASSUME CompleteInv, ChunkDone, NEW o \in Nat, Untouched(o)',
           NEW i \in Nat, o <= i, i + BlockSize <= o + Context
    PROVE  InSource(i)' = InSource(i)
<1>1. MatcherInv /\ FixedInv /\ KnownInv /\ ScanTyped /\ SourceInv
  BY DEF CompleteInv, MatcherInv
<1>2. UNCHANGED fixed /\ size' = size /\ at = "segment"
  BY DEF ChunkDone
<1>3. BlockSize' = BlockSize /\ Context' = Context
  BY <1>1, <1>2, FixedStays
<1>4. CASE ~case.self
  BY <1>2, <1>4 DEF fixed, InSource, Source, BytesOf, BlockSize, Least
<1>5. CASE case.self
  <2>1. PICK d \in Nat \ {0}, c \in Nat, s \in Nat, l \in Nat, m \in Nat :
            d = BlockSize /\ c = Context /\ s = size /\ l = Len(file) /\ m = Len(file')
    <3>1. BlockSize \in Nat \ {0} /\ Context \in Nat
      BY <1>1, CaseFacts DEF FixedInv
    <3>2. file \in Seq(Nat) /\ file' \in Seq(Nat) /\ size \in Nat
      BY <1>1, ChunkLeaves DEF ScanTyped, KnownInv
    <3>3. Len(file) \in Nat /\ Len(file') \in Nat
      BY <3>2
    <3> QED BY <3>1, <3>2, <3>3
  <2>2. s <= l
    BY <1>1, <1>2, <1>5, <2>1 DEF SourceInv, Source
  <2>3. l <= m
    BY <1>1, <2>1, ChunkLeaves
  <2>4. /\ o + c <= s
        /\ \A n \in o .. o + c - 1 : n \div d \notin known' \ had
    <3>1. case'.self /\ had' = had
      BY <1>2, <1>5 DEF fixed
    <3>2. /\ o + Context' <= size'
          /\ \A n \in o .. o + Context' - 1 : n \div BlockSize' \notin known' \ had'
      BY <3>1 DEF Untouched
    <3> QED BY <1>2, <1>3, <2>1, <3>1, <3>2
  <2>5. o <= i /\ i + d <= o + c
    BY <2>1
  <2>6. ASSUME NEW k \in 1 .. d
        PROVE  i + k <= Least(m, m) /\ i + k <= Least(l, l) /\ file'[i + k] = file[i + k]
    <3>1. PICK p \in Nat : p = i + k /\ 1 <= p /\ p <= o + c /\ o <= p - 1
      BY <2>5
    <3>2. p <= l /\ p <= m /\ p - 1 \in o .. o + c - 1
      BY <2>2, <2>3, <2>4, <3>1
    <3>3. (p - 1) \div d \notin known' \ had
      BY <2>4, <3>2
    <3>4. had \subseteq known
      BY <1>1 DEF SourceInv
    <3>5. (p - 1) \div BlockSize \notin known' \ known
      BY <2>1, <3>3, <3>4
    <3>6. p \in 1 .. l
      BY <3>1, <3>2
    <3>7. file'[p] = file[p]
      BY <1>1, <2>1, <3>5, <3>6, ChunkLeaves
    <3> QED BY <3>1, <3>2, <3>7 DEF Least
  <2>7. InSource(i) = [k \in 1 .. d |-> IF i + k <= Least(l, l) THEN file[i + k] ELSE 0]
    BY <1>5, <2>1 DEF InSource, Source, BytesOf
  <2>8. InSource(i)' = [k \in 1 .. d |-> IF i + k <= Least(m, m) THEN file'[i + k] ELSE 0]
    <3>1. case'.self
      BY <1>2, <1>5 DEF fixed
    <3> QED BY <1>3, <2>1, <3>1 DEF InSource, Source, BytesOf, Least
  <2> QED BY <2>6, <2>7, <2>8
<1> QED BY <1>4, <1>5

LEMMA CompleteAfterChunkDone == CompleteInv /\ ChunkDone => CompleteInv'
<1> SUFFICES ASSUME CompleteInv, ChunkDone PROVE CompleteInv'
  OBVIOUS
<1>1. MatcherInv /\ MatcherInv' /\ SourceInv /\ SeenInv
  BY KeptByChunkDone DEF CompleteInv
<1>2. /\ at = "segment" /\ segments = <<>>
      /\ offset' = offset + BytesRead
      /\ at' = IF BytesRead < ReadLen THEN "done" ELSE "read"
      /\ UNCHANGED <<fixed, size, chunk, scanVars, jumps>>
  BY DEF ChunkDone
<1>3. FixedInv /\ KnownInv /\ ScanTyped
  BY <1>1 DEF MatcherInv
<1>4. BlockSize' = BlockSize /\ Context' = Context
  BY <1>2, <1>3, FixedStays
<1>5. Tested = DataEnd /\ Tested' = DataEnd
  BY <1>2 DEF Tested, DataEnd
<1>6. CutsInv'
  BY <1>2 DEF CutsInv
<1>7. SourceInv'
  <2>1. SumsStored'
    BY <1>1, <1>2 DEF SourceInv, fixed, SumsStored, Stored, CalcRsumBlock, Masked
  <2>2. had' = had /\ had \subseteq known /\ known \subseteq known'
    BY <1>1, <1>2, ChunkLeaves DEF fixed, SourceInv
  <2>3. case.self => had # {}
    BY <1>1 DEF SourceInv
  <2>4. PICK s \in Nat, l \in Nat, e \in Nat :
            s = size /\ l = Len(Source) /\ e = offset + BytesRead /\ s <= l
    <3>1. DataEnd \in Nat /\ Len(Source) \in Nat /\ size \in Nat
      BY <1>1, <1>3, TestedType, ReadsFacts DEF ScanTyped
    <3> QED BY <1>1, <1>2, <3>1 DEF DataEnd, SourceInv
  <2>5. size' <= Len(Source')
    <3>1. CASE case.self
      <4>1. Source' = file' /\ Source = file
        BY <1>2, <3>1 DEF fixed, Source
      <4>2. PICK m \in Nat : m = Len(file') /\ l <= m
        BY <1>1, <2>4, <4>1, ChunkLeaves
      <4> QED BY <1>2, <2>4, <4>1, <4>2
    <3>2. CASE ~case.self
      BY <1>2, <2>4, <3>2 DEF fixed, Source
    <3> QED BY <3>1, <3>2
  <2>6. at' = "done" => size' <= offset'
    <3>1. BytesRead < ReadLen => l <= e
      BY <1>3, <2>4, ReadsFacts
    <3> QED BY <1>2, <2>4, <3>1
  <2> QED BY <1>2, <2>1, <2>2, <2>3, <2>5, <2>6 DEF SourceInv, fixed
<1>8. ASSUME NEW o \in 0 .. DataEnd - 1 PROVE Seen(o)'
  <2>1. Seen(o) /\ o \in Nat
    BY <1>1, <1>5 DEF SeenInv
  <2>2. SUFFICES ASSUME NEW b \in Blocks \ known', Occurs(b, o)', Untouched(o)'
                 PROVE  \E j \in jumps' : j[1] < o /\ o < j[2]
    BY DEF Seen
  <2>3. b \in Blocks \ known /\ \A i \in 1 .. Len(found) : found[i][1] # b
    BY <1>1, ChunkLeaves
  <2>4. PICK d \in Nat, c \in Nat :
            d = BlockSize /\ c = Context /\ d <= c /\ (case.seq > 1 => c = 2 * d)
    BY <1>3, CaseFacts DEF FixedInv
  <2>5. Untouched(o)
    <3>1. known \ had \subseteq known' \ had
      BY <1>1, ChunkLeaves
    <3> QED BY <1>2, <1>4, <2>2, <3>1 DEF Untouched, fixed
  <2>6. Occurs(b, o)
    <3>1. o <= o /\ o + d <= o + c
      BY <2>1, <2>4
    <3>2. InSource(o)' = InSource(o)
      BY <2>1, <2>2, <2>4, <3>1, SourceLeft
    <3>3. case.seq > 1 => InSource(o + d)' = InSource(o + d)
      <4>1. SUFFICES ASSUME case.seq > 1 PROVE InSource(o + d)' = InSource(o + d)
        OBVIOUS
      <4>2. o + d \in Nat /\ o <= o + d /\ (o + d) + d <= o + c
        BY <2>1, <2>4, <4>1
      <4> QED BY <2>1, <2>2, <2>4, <4>2, SourceLeft
    <3>4. /\ InSource(o)' = target'[b]
          /\ case'.seq > 1 =>
                InSource(o + BlockSize)' = IF b + 1 \in Blocks THEN target'[b + 1]
                                           ELSE [k \in 1 .. BlockSize' |-> 0]
      BY <2>2 DEF Occurs
    <3>5. InSource(o + BlockSize)' = InSource(o + d)'
      BY <1>4, <2>4 DEF InSource
    <3> QED BY <1>2, <1>4, <2>4, <3>2, <3>3, <3>4, <3>5 DEF Occurs, fixed
  <2>7. \E j \in jumps : j[1] < o /\ o < j[2]
    BY <2>1, <2>3, <2>5, <2>6 DEF Seen
  <2> QED BY <1>2, <2>7
<1>9. SeenInv'
  BY <1>5, <1>8 DEF SeenInv
<1> QED BY <1>1, <1>6, <1>7, <1>9 DEF CompleteInv

\* Every step keeps the invariant of the windows tested.
LEMMA CompleteKept == WholeSums /\ CompleteInv /\ [Next]_vars => CompleteInv'
<1> SUFFICES ASSUME WholeSums, CompleteInv, [Next]_vars PROVE CompleteInv'
  OBVIOUS
<1>1. CASE SubmitBlocks   BY <1>1, CompleteAfterSubmitBlocks
<1>2. CASE BeginScan      BY <1>2, CompleteAfterBeginScan
<1>3. CASE ReadChunk      BY <1>3, CompleteAfterReadChunk
<1>4. CASE ReadNothing    BY <1>4, CompleteAfterReadNothing
<1>5. CASE BeginSegment   BY <1>5, CompleteAfterBeginSegment
<1>6. CASE ContinueMatch  BY <1>6, CompleteAfterContinueMatch
<1>7. CASE MatchHere      BY <1>7, CompleteAfterMatchHere
<1>8. CASE Slide          BY <1>8, CompleteAfterSlide
<1>9. CASE SegmentDone    BY <1>9, CompleteAfterSegmentDone
<1>10. CASE ChunkDone     BY <1>10, CompleteAfterChunkDone
<1>11. CASE UNCHANGED vars BY <1>11, CompleteAfterStutter
<1> QED BY <1>1, <1>2, <1>3, <1>4, <1>5, <1>6, <1>7, <1>8, <1>9, <1>10, <1>11 DEF Next

\* At the end every window of the file has been tested.
LEMMA NothingLeft == CompleteInv => NothingMissed
<1> SUFFICES ASSUME CompleteInv, at = "done", size >= Context, NEW b \in Blocks \ known,
                    NEW o \in 0 .. size - 1, Occurs(b, o), Untouched(o)
             PROVE  \E j \in jumps : j[1] < o /\ o < j[2]
  BY DEF NothingMissed
<1>1. FixedInv /\ ScanTyped /\ WithinChunk /\ SourceInv /\ SeenInv
  BY DEF CompleteInv, MatcherInv
<1>2. PICK s \in Nat, c \in Nat, e \in Nat : s = size /\ c = Context /\ e = offset
  BY <1>1, CaseFacts DEF FixedInv, ScanTyped
<1>3. s <= e
  BY <1>1, <1>2 DEF SourceInv
<1>4. Tested = e
  BY <1>2 DEF Tested
<1>5. o \in 0 .. e - 1
  BY <1>2, <1>3
<1>6. Seen(o)
  BY <1>1, <1>4, <1>5 DEF SeenInv
<1>7. found = <<>>
  BY <1>1 DEF WithinChunk
<1>8. 1 .. Len(<<>>) = {}
  OBVIOUS
<1> QED BY <1>6, <1>7, <1>8 DEF Seen

\* When whole b sums are stored, a scan misses nothing: every block still
\* unknown when it ends occurs nowhere in the file but inside a stretch that
\* matched others, whatever the sizes of blocks, parts and chunks, and whatever
\* the scan of the temporary file wrote to what it had yet to read
\* (BlockMatcher::scan_chunk and the chunks of ZsyncAssembly's scans).
THEOREM NothingIsMissed ==
    ASSUME WholeSums
    PROVE  Spec => []NothingMissed
<1>1. Init => CompleteInv
  BY CompleteAtFirst
<1>2. CompleteInv /\ [Next]_vars => CompleteInv'
  BY CompleteKept
<1>3. CompleteInv => NothingMissed
  BY NothingLeft
<1> QED BY <1>1, <1>2, <1>3, PTL DEF Spec
================================================================================
