--------------------------------- MODULE Lemmas ---------------------------------
(***************************************************************************)
(* Facts that several proofs rest on: about numbers, sequences and folds,  *)
(* and what the plan of a pass guarantees for every set of missing blocks  *)
(* and every gap: all of them are asked for, and none twice.               *)
(***************************************************************************)
EXTENDS Integers, Sequences, FiniteSetsExt, RequestPlan, FiniteSetTheorems,
        WellFoundedInduction, TLAPS

-----------------------------------------------------------------------------
(* Numbers. *)

LEMMA LeastOf ==
    ASSUME NEW T \in SUBSET Nat, T # {}
    PROVE  \E x \in T : \A y \in T : x <= y
<1>1. IsWellFoundedOn(OpToRel(<, Nat), Nat)
  BY NatLessThanWellFounded
<1>2. PICK x \in T : \A y \in T : ~ (<<y, x>> \in OpToRel(<, Nat))
  BY <1>1, WFMin
<1>3. \A y \in T : ~ (y < x)
  BY <1>2 DEF OpToRel
<1> QED BY <1>3

LEMMA GreatestOf ==
    ASSUME NEW n \in Nat, NEW T \in SUBSET (0 .. n - 1), T # {}
    PROVE  \E x \in T : \A y \in T : y <= x
<1> DEFINE Mirror == {n - 1 - t : t \in T}
<1>1. Mirror \in SUBSET Nat /\ Mirror # {}
  OBVIOUS
<1>2. PICK m \in Mirror : \A k \in Mirror : m <= k
  BY <1>1, LeastOf
<1>3. PICK x \in T : m = n - 1 - x
  OBVIOUS
<1>4. \A y \in T : n - 1 - x <= n - 1 - y
  BY <1>2, <1>3
<1> QED BY <1>4

\* Induction over the naturals, for the set of those a statement holds of.
LEMMA FromZeroOn ==
    ASSUME NEW S, 0 \in S, \A n \in Nat : n \in S => n + 1 \in S
    PROVE  Nat \subseteq S
<1> SUFFICES ASSUME NEW k \in Nat, k \notin S PROVE FALSE
  OBVIOUS
<1> DEFINE Out == Nat \ S
<1>1. PICK m \in Out : \A y \in Out : m <= y
  BY LeastOf
<1>2. m # 0 /\ m - 1 \in Nat /\ (m - 1) + 1 = m /\ ~(m <= m - 1)
  OBVIOUS
<1>3. m - 1 \in S
  BY <1>1, <1>2
<1> QED BY <1>2, <1>3

LEMMA Power ==
    ASSUME NEW k \in Nat
    PROVE  2 ^ k \in Nat \ {0} /\ k <= 2 ^ k
<1>1. IsFiniteSet(1 .. k) /\ Cardinality(1 .. k) = k
  BY FS_Interval
<1>2. IsFiniteSet(SUBSET (1 .. k)) /\ Cardinality(SUBSET (1 .. k)) = 2 ^ k
  BY <1>1, FS_SUBSET
<1>3. 2 ^ k \in Nat /\ 2 ^ k # 0
  BY <1>2, FS_CardinalityType, FS_EmptySet
<1> DEFINE single == [i \in 1 .. k |-> {i}]
<1>4. single \in Injection(1 .. k, SUBSET (1 .. k))
  BY DEF Injection, IsInjective
<1>5. Cardinality(1 .. k) <= Cardinality(SUBSET (1 .. k))
  BY <1>2, <1>4, FS_Injection
<1> QED BY <1>1, <1>2, <1>3, <1>5

LEMMA Times ==
    ASSUME NEW a \in Nat, NEW b \in Nat, NEW d \in Nat
    PROVE  /\ a * d \in Nat
           /\ a <= b => a * d <= b * d
           /\ a < b => a * d + d <= b * d
<1>1. a * d \in Nat
  OBVIOUS
<1>2. ASSUME a <= b PROVE a * d <= b * d
  <2>1. PICK c \in Nat : b = a + c
    <3>1. b - a \in Nat /\ b = a + (b - a)
      BY <1>2
    <3> QED BY <3>1
  <2>2. b * d = a * d + c * d /\ c * d \in Nat
    BY <2>1
  <2> QED BY <1>1, <2>2
<1>3. ASSUME a < b PROVE a * d + d <= b * d
  <2>1. PICK c \in Nat : b = a + 1 + c
    <3>1. b - a - 1 \in Nat /\ b = a + 1 + (b - a - 1)
      BY <1>3
    <3> QED BY <3>1
  <2>2. b * d = a * d + d + c * d /\ c * d \in Nat
    BY <2>1
  <2> QED BY <1>1, <2>2
<1> QED BY <1>1, <1>2, <1>3

LEMMA Divided ==
    ASSUME NEW n \in Nat, NEW d \in Nat \ {0}
    PROVE  /\ n \div d \in Nat
           /\ (n \div d) * d <= n /\ n < (n \div d) * d + d
           /\ \A b \in Nat : b * d <= n /\ n < b * d + d => n \div d = b
<1>1. n \div d \in Nat /\ (n \div d) * d <= n /\ n < (n \div d) * d + d
  OBVIOUS
<1>2. ASSUME NEW b \in Nat, b * d <= n, n < b * d + d PROVE n \div d = b
  <2>1. PICK q \in Nat : q = n \div d
    BY <1>1
  <2>2. PICK low \in Nat : low = q * d
    BY Times
  <2>3. PICK at_b \in Nat : at_b = b * d
    BY Times
  <2>4. low <= n /\ n < low + d /\ at_b <= n /\ n < at_b + d
    BY <1>1, <1>2, <2>1, <2>2, <2>3
  <2>5. q < b => low + d <= at_b
    BY <2>2, <2>3, Times
  <2>6. b < q => at_b + d <= low
    BY <2>2, <2>3, Times
  <2> QED BY <2>1, <2>4, <2>5, <2>6
<1> QED BY <1>1, <1>2

-----------------------------------------------------------------------------
(* Sequences. *)

LEMMA Element ==
    ASSUME NEW S, NEW s \in Seq(S)
    PROVE  \A i \in 1 .. Len(s) : s[i] \in S
OBVIOUS

LEMMA Prefix ==
    ASSUME NEW S, NEW s \in Seq(S), NEW k \in 1 .. Len(s)
    PROVE  /\ SubSeq(s, 1, k - 1) \in Seq(S) /\ Len(SubSeq(s, 1, k - 1)) = k - 1
           /\ \A i \in 1 .. k - 1 : SubSeq(s, 1, k - 1)[i] = s[i]
OBVIOUS

LEMMA Rest ==
    ASSUME NEW S, NEW s \in Seq(S), s # <<>>
    PROVE  /\ Tail(s) \in Seq(S) /\ Len(s) >= 1 /\ Len(Tail(s)) = Len(s) - 1
           /\ Head(s) = s[1] /\ s[1] \in S
           /\ \A i \in 1 .. Len(Tail(s)) : Tail(s)[i] = s[i + 1]
OBVIOUS

LEMMA Appended ==
    ASSUME NEW S, NEW rs \in Seq(S), NEW r \in S
    PROVE  /\ Append(rs, r) \in Seq(S) /\ Len(Append(rs, r)) = Len(rs) + 1 /\ Len(rs) \in Nat
           /\ \A i \in 1 .. Len(rs) : Append(rs, r)[i] = rs[i]
           /\ Append(rs, r)[Len(rs) + 1] = r
OBVIOUS

LEMMA Replaced ==
    ASSUME NEW S, NEW s \in Seq(S), NEW i \in 1 .. Len(s), NEW x \in S
    PROVE  /\ [s EXCEPT ![i] = x] \in Seq(S) /\ Len([s EXCEPT ![i] = x]) = Len(s)
           /\ [s EXCEPT ![i] = x][i] = x
           /\ \A j \in 1 .. Len(s) : j # i => [s EXCEPT ![i] = x][j] = s[j]
OBVIOUS

LEMMA SameSequence ==
    ASSUME NEW S, NEW s \in Seq(S), NEW t \in Seq(S), Len(s) = Len(t),
           \A i \in 1 .. Len(s) : s[i] = t[i]
    PROVE  s = t
OBVIOUS

LEMMA IsSequence ==
    ASSUME NEW S, NEW n \in Nat, NEW f \in [1 .. n -> S]
    PROVE  f \in Seq(S) /\ Len(f) = n
OBVIOUS

-----------------------------------------------------------------------------
(* Folds over a finite set, and over a sequence. *)

\* Induction over the subsets of a finite set, one element at a time.
LEMMA FromEmptyOn ==
    ASSUME NEW S, IsFiniteSet(S), NEW G, {} \in G,
           \A s \in SUBSET S : s # {} /\ (\A e \in s : s \ {e} \in G) => s \in G
    PROVE  SUBSET S \subseteq G
<1> SUFFICES ASSUME NEW t \in SUBSET S, t \notin G PROVE FALSE
  OBVIOUS
<1> DEFINE Out == {s \in SUBSET S : s \notin G}
           Sizes == {Cardinality(s) : s \in Out}
<1>1. \A s \in SUBSET S : IsFiniteSet(s) /\ Cardinality(s) \in Nat
  BY FS_Subset, FS_CardinalityType
<1>2. Sizes \in SUBSET Nat /\ Sizes # {}
  BY <1>1
<1>3. PICK k \in Sizes : \A m \in Sizes : k <= m
  BY <1>2, LeastOf
<1>4. PICK s \in Out : k = Cardinality(s)
  OBVIOUS
<1>5. ASSUME NEW e \in s PROVE s \ {e} \in G
  <2>1. Cardinality(s \ {e}) = k - 1
    BY <1>1, <1>4, FS_RemoveElement
  <2>2. k \in Nat /\ ~(k <= k - 1)
    BY <1>1, <1>4
  <2>3. s \ {e} \notin Out
    BY <1>3, <2>1, <2>2
  <2> QED BY <2>3
<1> QED BY <1>5

\* h folds f over each subset of S, the element that c names last.
SetSolves(h, S, base, f, c) ==
    \A s \in SUBSET S : h[s] = IF s = {} THEN base ELSE f[<<h[s \ {c[s]}], c[s]>>]

\* The recursion behind a fold over a finite set has a solution, whatever the
\* element c that it takes out of each.
LEMMA SetFoldExists ==
    ASSUME NEW S, IsFiniteSet(S), NEW V, NEW base \in V, NEW f \in [V \X S -> V],
           NEW c, \A s \in SUBSET S : s # {} => c[s] \in s
    PROVE  \E h \in [SUBSET S -> V] : SetSolves(h, S, base, f, c)
<1> DEFINE
    Upto(k) == {s \in SUBSET S : Cardinality(s) <= k}
    Fits(h, k) == \A s \in Upto(k) :
                      h[s] = IF s = {} THEN base ELSE f[<<h[s \ {c[s]}], c[s]>>]
    Exists(k) == \E h \in [Upto(k) -> V] : Fits(h, k)
    G == {k \in Nat : Exists(k)}
<1>1. \A s \in SUBSET S : IsFiniteSet(s) /\ Cardinality(s) \in Nat
  BY FS_Subset, FS_CardinalityType
<1>2. ASSUME NEW s \in SUBSET S, s # {}
      PROVE  s \ {c[s]} \in SUBSET S /\ Cardinality(s \ {c[s]}) = Cardinality(s) - 1
  BY <1>1, <1>2, FS_RemoveElement
<1>3. Cardinality({}) = 0 /\ \A s \in SUBSET S : Cardinality(s) = 0 => s = {}
  BY <1>1, FS_EmptySet
<1>4. Exists(0)
  <2> DEFINE h == [s \in Upto(0) |-> base]
  <2>1. h \in [Upto(0) -> V]
    OBVIOUS
  <2>2. \A s \in Upto(0) : s = {}
    BY <1>1, <1>3
  <2>3. Fits(h, 0)
    BY <2>2
  <2> QED BY <2>1, <2>3
<1>5. ASSUME NEW k \in Nat, Exists(k) PROVE Exists(k + 1)
  <2>1. PICK g \in [Upto(k) -> V] : Fits(g, k)
    BY <1>5
  <2> DEFINE h == [s \in Upto(k + 1) |->
                     IF s \in Upto(k) THEN g[s] ELSE f[<<g[s \ {c[s]}], c[s]>>]]
  <2>2. Upto(k) \subseteq Upto(k + 1)
    BY <1>1
  <2>3. ASSUME NEW s \in Upto(k + 1), s # {}
        PROVE  s \ {c[s]} \in Upto(k) /\ c[s] \in S
    BY <1>1, <1>2, <2>3
  <2>4. \A s \in Upto(k + 1) : s \notin Upto(k) => s # {}
    <3>1. {} \in Upto(k)
      BY <1>3
    <3> QED BY <3>1
  <2>5. h \in [Upto(k + 1) -> V]
    <3>1. ASSUME NEW s \in Upto(k + 1), s \notin Upto(k)
          PROVE  f[<<g[s \ {c[s]}], c[s]>>] \in V
      <4>1. s \ {c[s]} \in Upto(k) /\ c[s] \in S
        BY <2>3, <2>4, <3>1
      <4>2. g[s \ {c[s]}] \in V
        BY <4>1
      <4> QED BY <4>1, <4>2
    <3> HIDE DEF Upto
    <3> QED BY <3>1
  <2>6. ASSUME NEW s \in Upto(k + 1)
        PROVE  h[s] = IF s = {} THEN base ELSE f[<<h[s \ {c[s]}], c[s]>>]
    <3>1. s # {} => h[s \ {c[s]}] = g[s \ {c[s]}]
      <4> HIDE DEF Upto
      <4> QED BY <2>2, <2>3
    <3>2. h[s] = IF s \in Upto(k) THEN g[s] ELSE f[<<g[s \ {c[s]}], c[s]>>]
      OBVIOUS
    <3>3. CASE s \in Upto(k)
      <4> HIDE DEF Upto, h
      <4> QED BY <2>1, <3>1, <3>2, <3>3
    <3>4. CASE s \notin Upto(k)
      <4> HIDE DEF Upto, h
      <4> QED BY <2>4, <3>1, <3>2, <3>4
    <3> QED BY <3>3, <3>4
  <2> QED BY <2>5, <2>6
<1>6. 0 \in G /\ \A k \in Nat : k \in G => k + 1 \in G
  <2> HIDE DEF Exists
  <2> QED BY <1>4, <1>5
<1>7. Cardinality(S) \in G
  <2> HIDE DEF G
  <2> QED BY <1>1, <1>6, FromZeroOn
<1>8. Upto(Cardinality(S)) = SUBSET S
  BY <1>1, FS_Subset
<1> HIDE DEF Upto
<1>9. Exists(Cardinality(S))
  BY <1>7
<1>10. PICK h \in [SUBSET S -> V] : Fits(h, Cardinality(S))
  BY <1>8, <1>9
<1> QED BY <1>8, <1>10 DEF SetSolves

LEMMA MaxOf ==
    ASSUME NEW n \in Nat, NEW s \in SUBSET (1 .. n), s # {}
    PROVE  Max(s) \in s /\ \A y \in s : y <= Max(s)
<1>1. s \in SUBSET (0 .. (n + 1) - 1) /\ n + 1 \in Nat
  OBVIOUS
<1>2. PICK x \in s : \A y \in s : y <= x
  BY <1>1, GreatestOf
<1>3. x \in s /\ \A y \in s : x >= y
  BY <1>2
<1>4. Max(s) \in s /\ \A y \in s : Max(s) >= y
  BY <1>3 DEF Max
<1> QED BY <1>4

LEMMA MaxOfInterval ==
    ASSUME NEW n \in Nat \ {0}
    PROVE  1 .. n # {} /\ Max(1 .. n) = n /\ (1 .. n) \ {n} = 1 .. n - 1
<1>1. n \in 1 .. n
  OBVIOUS
<1>2. Max(1 .. n) \in 1 .. n /\ n <= Max(1 .. n)
  BY <1>1, MaxOf
<1> QED BY <1>1, <1>2

\* h folds f over the numbers in each set of them, the largest last.
Solves(h, n, base, f) ==
    \A s \in SUBSET (1 .. n) :
        h[s] = IF s = {} THEN base ELSE f[<<h[s \ {Max(s)}], Max(s)>>]

\* The recursion behind FoldLeft has a solution, for an operator on the values
\* V written as a function.
LEMMA FoldExists ==
    ASSUME NEW V, NEW n \in Nat, NEW base \in V, NEW f \in [V \X (1 .. n) -> V]
    PROVE  \E h \in [SUBSET (1 .. n) -> V] : Solves(h, n, base, f)
<1> DEFINE c == [s \in SUBSET (1 .. n) |-> Max(s)]
<1>1. \A s \in SUBSET (1 .. n) : s # {} => c[s] \in s
  BY MaxOf
<1>2. IsFiniteSet(1 .. n)
  BY FS_Interval
<1>3. PICK h \in [SUBSET (1 .. n) -> V] : SetSolves(h, 1 .. n, base, f, c)
  <2> HIDE DEF c
  <2> QED BY <1>1, <1>2, SetFoldExists
<1>4. \A s \in SUBSET (1 .. n) : c[s] = Max(s)
  OBVIOUS
<1> HIDE DEF c
<1>5. \A s \in SUBSET (1 .. n) :
          h[s] = IF s = {} THEN base ELSE f[<<h[s \ {Max(s)}], Max(s)>>]
  BY <1>3, <1>4 DEF SetSolves
<1> QED BY <1>5 DEF Solves

\* What such a fold has come to after each of the numbers, in order.
LEMMA FoldTrace ==
    ASSUME NEW n \in Nat, NEW base, NEW f, NEW h, Solves(h, n, base, f)
    PROVE  /\ h[1 .. 0] = base
           /\ \A i \in 1 .. n : h[1 .. i] = f[<<h[1 .. i - 1], i>>]
<1>1. 1 .. 0 = {} /\ {} \in SUBSET (1 .. n)
  OBVIOUS
<1>2. ASSUME NEW i \in 1 .. n PROVE h[1 .. i] = f[<<h[1 .. i - 1], i>>]
  <2>1. i \in Nat \ {0} /\ 1 .. i \in SUBSET (1 .. n)
    OBVIOUS
  <2>2. 1 .. i # {} /\ Max(1 .. i) = i /\ (1 .. i) \ {i} = 1 .. i - 1
    BY <2>1, MaxOfInterval
  <2> QED BY <2>1, <2>2 DEF Solves
<1> QED BY <1>1, <1>2 DEF Solves

-----------------------------------------------------------------------------
(* The plan of a pass. *)

\* Between a missing block and the next run's opening block some run closes.
LEMMA ClosesBeforeOpening ==
    ASSUME NEW n \in Nat, NEW gap \in Nat, NEW missing \in SUBSET (0 .. n - 1),
           NEW b \in missing, NEW x \in missing, b < x, Opens(missing, gap, x)
    PROVE  \E p \in missing : b <= p /\ p < x /\ Closes(missing, gap, p)
<1> DEFINE Below == {m \in missing : m < x}
<1>1. PICK p \in Below : \A y \in Below : y <= p
  <2>1. Below \in SUBSET (0 .. n - 1) /\ Below # {}
    OBVIOUS
  <2> QED BY <2>1, GreatestOf
<1>2. x - p - 1 > gap
  BY <1>1 DEF Opens
<1>3. \A m \in missing : p < m => x <= m
  BY <1>1
<1>4. Closes(missing, gap, p)
  BY <1>1, <1>2, <1>3 DEF Closes
<1> QED BY <1>1, <1>4

\* And after a closing block, the next missing block opens a run.
LEMMA OpensAfterClosing ==
    ASSUME NEW n \in Nat, NEW gap \in Nat, NEW missing \in SUBSET (0 .. n - 1),
           NEW c \in missing, NEW z \in missing, c < z, Closes(missing, gap, c)
    PROVE  \E x \in missing : c < x /\ x <= z /\ Opens(missing, gap, x)
<1> DEFINE Above == {m \in missing : c < m}
<1>1. PICK x \in Above : \A y \in Above : x <= y
  <2>1. missing \subseteq Nat
    OBVIOUS
  <2>2. Above \in SUBSET Nat /\ z \in Above
    BY <2>1
  <2> QED BY <2>2, LeastOf
<1>2. x - c - 1 > gap
  BY <1>1 DEF Closes
<1>3. \A m \in missing : m < x => m <= c
  BY <1>1
<1>4. Opens(missing, gap, x)
  BY <1>1, <1>2, <1>3 DEF Opens
<1> QED BY <1>1, <1>4

\* Every missing block is in a request: the merged ranges download_missing_blocks
\* works through leave none out.
THEOREM PlanCovers ==
    ASSUME NEW n \in Nat, NEW gap \in Nat, NEW missing \in SUBSET (0 .. n - 1),
           NEW b \in missing
    PROVE  \E r \in Requests(n, missing, gap) : r[1] <= b /\ b < r[2]
<1> DEFINE Openers == {m \in missing : m <= b /\ Opens(missing, gap, m)}
           Closers == {m \in missing : b <= m /\ Closes(missing, gap, m)}
<1>1. PICK o \in Openers : \A y \in Openers : y <= o
  <2>1. PICK first \in missing : \A y \in missing : first <= y
    BY LeastOf
  <2>2. first \in Openers
    BY <2>1 DEF Opens
  <2>3. Openers \in SUBSET (0 .. n - 1)
    OBVIOUS
  <2> QED BY <2>2, <2>3, GreatestOf
<1>2. PICK c \in Closers : \A y \in Closers : c <= y
  <2>1. PICK last \in missing : \A y \in missing : y <= last
    BY GreatestOf
  <2>2. last \in Closers
    BY <2>1 DEF Closes
  <2>3. missing \subseteq Nat
    OBVIOUS
  <2>4. Closers \in SUBSET Nat
    BY <2>3
  <2> QED BY <2>2, <2>4, LeastOf
<1>3. ASSUME NEW x \in missing, o < x, x < c + 1, Opens(missing, gap, x) PROVE FALSE
  <2>1. b < x
    BY <1>1, <1>3
  <2>2. PICK p \in missing : b <= p /\ p < x /\ Closes(missing, gap, p)
    BY <1>3, <2>1, ClosesBeforeOpening
  <2> QED BY <1>2, <1>3, <2>2
<1>4. <<o, c + 1>> \in Requests(n, missing, gap)
  <2>1. o \in 0 .. n - 1 /\ c + 1 \in 1 .. n /\ (c + 1) - 1 = c /\ o < c + 1
    BY <1>1, <1>2
  <2> QED BY <1>1, <1>2, <1>3, <2>1 DEF Requests
<1> QED BY <1>1, <1>2, <1>4

\* No block is in two requests: of two, one ends before the other begins.
THEOREM PlanIsDisjoint ==
    ASSUME NEW n \in Nat, NEW gap \in Nat, NEW missing \in SUBSET (0 .. n - 1),
           NEW r \in Requests(n, missing, gap), NEW q \in Requests(n, missing, gap),
           r # q
    PROVE  r[2] <= q[1] \/ q[2] <= r[1]
<1>1. /\ r[1] \in missing /\ r[2] - 1 \in missing /\ r[1] \in Nat /\ r[2] \in Nat
      /\ q[1] \in missing /\ q[2] - 1 \in missing /\ q[1] \in Nat /\ q[2] \in Nat
      /\ r = <<r[1], r[2]>> /\ q = <<q[1], q[2]>>
      /\ r[1] < r[2] /\ q[1] < q[2]
  BY DEF Requests, Opens, Closes
<1>2. /\ Opens(missing, gap, r[1]) /\ Closes(missing, gap, r[2] - 1)
      /\ Opens(missing, gap, q[1]) /\ Closes(missing, gap, q[2] - 1)
      /\ \A b \in missing : r[1] < b /\ b < r[2] => ~Opens(missing, gap, b)
      /\ \A b \in missing : q[1] < b /\ b < q[2] => ~Opens(missing, gap, b)
  BY DEF Requests
<1>3. CASE r[1] # q[1]
  BY <1>1, <1>2, <1>3
<1>4. CASE r[1] = q[1]
  <2>1. r[2] # q[2]
    BY <1>1, <1>4
  <2>2. ASSUME r[2] < q[2] PROVE FALSE
    <3>0. /\ r[2] - 1 \in missing /\ q[2] - 1 \in missing /\ r[2] - 1 < q[2] - 1
          /\ Closes(missing, gap, r[2] - 1)
      BY <1>1, <1>2, <2>2
    <3>1. PICK x \in missing : r[2] - 1 < x /\ x <= q[2] - 1 /\ Opens(missing, gap, x)
      <4>1. ASSUME NEW c \in missing, NEW z \in missing, c < z, Closes(missing, gap, c)
            PROVE  \E x \in missing : c < x /\ x <= z /\ Opens(missing, gap, x)
        BY <4>1, OpensAfterClosing
      <4> QED BY <3>0, <4>1
    <3>2. x \in Nat
      OBVIOUS
    <3>3. q[1] < x /\ x < q[2]
      BY <1>1, <1>4, <3>1, <3>2
    <3> QED BY <1>2, <3>1, <3>3
  <2>3. ASSUME q[2] < r[2] PROVE FALSE
    <3>0. /\ q[2] - 1 \in missing /\ r[2] - 1 \in missing /\ q[2] - 1 < r[2] - 1
          /\ Closes(missing, gap, q[2] - 1)
      BY <1>1, <1>2, <2>3
    <3>1. PICK x \in missing : q[2] - 1 < x /\ x <= r[2] - 1 /\ Opens(missing, gap, x)
      <4>1. ASSUME NEW c \in missing, NEW z \in missing, c < z, Closes(missing, gap, c)
            PROVE  \E x \in missing : c < x /\ x <= z /\ Opens(missing, gap, x)
        BY <4>1, OpensAfterClosing
      <4> QED BY <3>0, <4>1
    <3>2. x \in Nat
      OBVIOUS
    <3>3. r[1] < x /\ x < r[2]
      BY <1>1, <1>4, <3>1, <3>2
    <3> QED BY <1>2, <3>1, <3>3
  <2> QED BY <1>1, <2>1, <2>2, <2>3
<1> QED BY <1>3, <1>4
=================================================================================
