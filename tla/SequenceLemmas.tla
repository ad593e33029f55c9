--------------------------- MODULE SequenceLemmas ---------------------------
(***************************************************************************)
(* Lemmas about sequences and sets of numbers: what Sifted returns, for    *)
(* every sequence and every set; that a finite set can be numbered in the  *)
(* order of keys, and has a greatest element; that an increasing sequence  *)
(* is determined by its elements; that a loop can be run to its end; how a *)
(* concatenation ends; what the first elements of a sequence are; and what *)
(* numbers add up to.                                                      *)
(***************************************************************************)
EXTENDS Sifting, Integers, SequencesExt, SequenceTheorems,
        FiniteSetTheorems, TLAPS

\* A set of numbers that is not empty has a least one: induction over the
\* numbers, as the search of the least counterexample.
LEMMA LeastOf ==
  ASSUME NEW T \in SUBSET Nat, T # {}
  PROVE  \E n \in T : \A m \in T : n <= m
  <1>1. PICK n \in T : \A m \in T : <<m, n>> \notin OpToRel(<, Nat)
    BY NatLessThanWellFounded, WFMin
  <1>2. \A m \in T : ~(m < n)
    BY <1>1 DEF OpToRel
  <1> QED
    BY <1>2

\* One turn of the loop.
SiftTurn(f, s, S, i) ==
    IF i = 0 THEN <<>>
    ELSE IF s[i] \in S THEN Append(f[i - 1], s[i]) ELSE f[i - 1]

\* The loop can be run to its end.
LEMMA SiftExists ==
  ASSUME NEW X, NEW s \in Seq(X), NEW S
  PROVE  \E f : f = [i \in 0..Len(s) |-> SiftTurn(f, s, S, i)]
  <1> DEFINE Runs(n) == \E f : f = [i \in 0..n |-> SiftTurn(f, s, S, i)]
             Bad == {n \in Nat : ~Runs(n)}
  <1>1. Runs(0)
    <2> DEFINE f == [i \in 0..0 |-> <<>>]
    <2>1. f = [i \in 0..0 |-> SiftTurn(f, s, S, i)]
      BY DEF SiftTurn
    <2> QED
      BY <2>1
  <1>2. ASSUME NEW n \in Nat, Runs(n) PROVE Runs(n + 1)
    <2>1. PICK f : f = [i \in 0..n |-> SiftTurn(f, s, S, i)]
      BY <1>2
    <2> DEFINE g == [i \in 0..n + 1 |-> IF i = n + 1 THEN SiftTurn(f, s, S, n + 1) ELSE f[i]]
    <2>2. ASSUME NEW i \in 0..n + 1 PROVE g[i] = SiftTurn(g, s, S, i)
      <3>1. CASE i = 0
        <4>1. f[0] = <<>>
          BY <2>1 DEF SiftTurn
        <4> QED
          BY <3>1, <4>1 DEF SiftTurn
      <3>2. CASE i # 0
        <4>1. i - 1 \in 0..n /\ i - 1 \in 0..n + 1 /\ i - 1 # n + 1
          BY <3>2
        <4>2. g[i - 1] = f[i - 1]
          BY <4>1
        <4>3. SiftTurn(g, s, S, i) = SiftTurn(f, s, S, i)
          BY <4>2, <3>2 DEF SiftTurn
        <4>4. CASE i = n + 1
          BY <4>3, <4>4
        <4>5. CASE i # n + 1
          <5>1. i \in 0..n
            BY <4>5
          <5>2. f[i] = SiftTurn(f, s, S, i)
            BY <2>1, <5>1
          <5> QED
            BY <4>3, <4>5, <5>2
        <4> QED
          BY <4>4, <4>5
      <3> QED
        BY <3>1, <3>2
    <2>3. g = [i \in 0..n + 1 |-> SiftTurn(g, s, S, i)]
      <3>1. g = [i \in 0..n + 1 |-> g[i]]
        OBVIOUS
      <3> HIDE DEF g
      <3> QED
        BY <2>2, <3>1
    <2> QED
      BY <2>3
  <1>3. Bad = {}
    <2> SUFFICES ASSUME Bad # {} PROVE FALSE
      OBVIOUS
    <2> HIDE DEF Runs
    <2>1. PICK n \in Bad : \A m \in Bad : n <= m
      BY LeastOf
    <2>2. n \in Nat /\ n # 0
      BY <2>1, <1>1
    <2>3. n - 1 \in Nat /\ n - 1 \notin Bad
      BY <2>1, <2>2
    <2>4. Runs((n - 1) + 1)
      BY <2>3, <1>2
    <2> QED
      BY <2>1, <2>2, <2>4
  <1>4. Len(s) \in Nat
    OBVIOUS
  <1> HIDE DEF Runs
  <1>5. Runs(Len(s))
    BY <1>3, <1>4
  <1> QED
    BY <1>5 DEF Runs

\* Whatever the loop has kept after i turns: r is made of elements of the
\* first i that are in S, at the places that at names, and of all of them.
Keeps(r, s, S, i) ==
    /\ r \in Seq(S)
    /\ \E at \in [DOMAIN r -> 1..i] :
        /\ \A j \in DOMAIN r : r[j] = s[at[j]]
        /\ \A j, k \in DOMAIN r : j < k => at[j] < at[k]
        /\ \A h \in 1..i : s[h] \in S => \E j \in DOMAIN r : at[j] = h

LEMMA TurnStillKeeps ==
  ASSUME NEW X, NEW s \in Seq(X), NEW S, NEW i \in 1..Len(s),
         NEW r, Keeps(r, s, S, i - 1)
  PROVE  Keeps(IF s[i] \in S THEN Append(r, s[i]) ELSE r, s, S, i)
  <1>0. i \in Nat /\ i - 1 \in Nat /\ r \in Seq(S)
    BY DEF Keeps
  <1>1. PICK at \in [DOMAIN r -> 1..i - 1] :
          /\ \A j \in DOMAIN r : r[j] = s[at[j]]
          /\ \A j, k \in DOMAIN r : j < k => at[j] < at[k]
          /\ \A h \in 1..i - 1 : s[h] \in S => \E j \in DOMAIN r : at[j] = h
    BY DEF Keeps
  <1>2. CASE s[i] \notin S
    <2>1. at \in [DOMAIN r -> 1..i]
      BY <1>0
    <2>2. \A h \in 1..i : s[h] \in S => h \in 1..i - 1
      BY <1>0, <1>2
    <2>3. Keeps(r, s, S, i)
      <3>1. /\ \A j \in DOMAIN r : r[j] = s[at[j]]
            /\ \A j, k \in DOMAIN r : j < k => at[j] < at[k]
        BY <1>1
      <3>2. \A h \in 1..i : s[h] \in S => \E j \in DOMAIN r : at[j] = h
        BY <1>1, <2>2
      <3> QED
        BY <1>0, <2>1, <3>1, <3>2 DEF Keeps
    <2> QED
      BY <2>3, <1>2
  <1>3. CASE s[i] \in S
    <2> DEFINE q == Append(r, s[i])
               to == [j \in DOMAIN q |-> IF j \in DOMAIN r THEN at[j] ELSE i]
    <2>1. /\ q \in Seq(S) /\ DOMAIN q = 1..Len(r) + 1 /\ DOMAIN r = 1..Len(r)
          /\ Len(r) \in Nat
          /\ q[Len(r) + 1] = s[i] /\ \A j \in DOMAIN r : q[j] = r[j]
      BY <1>0, <1>3
    <2> HIDE DEF q
    <2>2. \A j \in DOMAIN r : j \in DOMAIN q /\ to[j] = at[j] /\ at[j] \in 1..i - 1
      BY <2>1
    <2>3. Len(r) + 1 \in DOMAIN q /\ to[Len(r) + 1] = i
      BY <2>1
    <2>4. \A j \in DOMAIN q : j \in DOMAIN r \/ j = Len(r) + 1
      BY <2>1
    <2>5. to \in [DOMAIN q -> 1..i]
      BY <2>2, <2>4, <1>0
    <2> HIDE DEF to
    <2>6. \A j \in DOMAIN q : q[j] = s[to[j]]
      BY <2>1, <2>2, <2>3, <2>4, <1>1
    <2>7. ASSUME NEW j \in DOMAIN q, NEW k \in DOMAIN q, j < k PROVE to[j] < to[k]
      <3>1. j \in DOMAIN r
        BY <2>7, <2>1
      <3>2. CASE k \in DOMAIN r
        BY <3>1, <3>2, <2>2, <1>1, <2>7
      <3>3. CASE k = Len(r) + 1
        BY <3>1, <3>3, <2>2, <2>3, <1>0
      <3> QED
        BY <3>2, <3>3, <2>4
    <2>8. ASSUME NEW h \in 1..i, s[h] \in S PROVE \E j \in DOMAIN q : to[j] = h
      <3>1. CASE h = i
        BY <3>1, <2>3
      <3>2. CASE h # i
        <4>1. h \in 1..i - 1
          BY <3>2, <1>0
        <4> QED
          BY <4>1, <2>8, <1>1, <2>2
      <3> QED
        BY <3>1, <3>2
    <2>9. Keeps(q, s, S, i)
      BY <2>1, <2>5, <2>6, <2>7, <2>8 DEF Keeps
    <2> QED
      BY <2>9, <1>3 DEF q
  <1> QED
    BY <1>2, <1>3

LEMMA SiftedIsRun ==
  ASSUME NEW X, NEW s \in Seq(X), NEW S
  PROVE  \E f : /\ f = [i \in 0..Len(s) |-> SiftTurn(f, s, S, i)]
                /\ Sifted(s, S) = f[Len(s)]
  <1> DEFINE f == CHOOSE f : f = [i \in 0..Len(s) |-> SiftTurn(f, s, S, i)]
  <1>1. f = [i \in 0..Len(s) |-> SiftTurn(f, s, S, i)]
    BY SiftExists
  <1>2. Sifted(s, S) = f[Len(s)]
    BY DEF Sifted, SiftTurn
  <1> QED
    BY <1>1, <1>2

\* What is kept of a sequence is what is in the set, in the order of the
\* sequence.
LEMMA SiftedKeeps ==
  ASSUME NEW X, NEW s \in Seq(X), NEW S
  PROVE  Keeps(Sifted(s, S), s, S, Len(s))
  <1>1. PICK f : f = [i \in 0..Len(s) |-> SiftTurn(f, s, S, i)] /\ Sifted(s, S) = f[Len(s)]
    BY SiftedIsRun
  <1> DEFINE Bad == {i \in 0..Len(s) : ~Keeps(f[i], s, S, i)}
  <1>2. Len(s) \in Nat
    OBVIOUS
  <1>3. Keeps(f[0], s, S, 0)
    <2>1. f[0] = <<>>
      BY <1>1, <1>2 DEF SiftTurn
    <2>2. <<>> \in Seq(S) /\ DOMAIN <<>> = {} /\ 1..0 = {}
      OBVIOUS
    <2>3. <<>> \in [{} -> {}]
      OBVIOUS
    <2> QED
      BY <2>1, <2>2, <2>3 DEF Keeps
  <1>4. ASSUME Bad # {} PROVE FALSE
    <2>1. Bad \in SUBSET Nat
      OBVIOUS
    <2>2. PICK n \in Bad : \A m \in Bad : n <= m
      BY <2>1, <1>4, LeastOf
    <2>3. n \in 1..Len(s) /\ ~Keeps(f[n], s, S, n)
      BY <2>2, <1>3, <1>2
    <2>4. n - 1 \in 0..Len(s) /\ n - 1 \notin Bad
      BY <2>2, <2>3
    <2>5. Keeps(f[n - 1], s, S, n - 1)
      BY <2>4
    <2>6. f[n] = IF s[n] \in S THEN Append(f[n - 1], s[n]) ELSE f[n - 1]
      <3>1. n \in 0..Len(s) /\ n # 0
        BY <2>3, <1>2
      <3>2. f[n] = SiftTurn(f, s, S, n)
        BY <1>1, <3>1
      <3> QED
        BY <3>1, <3>2 DEF SiftTurn
    <2>7. Keeps(f[n], s, S, n)
      BY <2>3, <2>5, <2>6, TurnStillKeeps
    <2> QED
      BY <2>3, <2>7
  <1> QED
    BY <1>1, <1>2, <1>4
---------------------------------------------------------------------------

\* Every pair of s that is in this order is in the relation R.
OrderedBy(s, R) == \A i, j \in DOMAIN s : i < j => <<s[i], s[j]>> \in R

\* A filter returns elements of the sequence that are in the set.
LEMMA SiftedTyped ==
  ASSUME NEW X, NEW s \in Seq(X), NEW S
  PROVE  /\ Sifted(s, S) \in Seq(X)
         /\ \A j \in DOMAIN Sifted(s, S) :
                /\ Sifted(s, S)[j] \in S
                /\ \E i \in DOMAIN s : Sifted(s, S)[j] = s[i]
  <1> DEFINE r == Sifted(s, S)
  <1>1. Keeps(r, s, S, Len(s))
    BY SiftedKeeps
  <1> HIDE DEF r
  <1>2. r \in Seq(S) /\ DOMAIN r = 1..Len(r) /\ Len(r) \in Nat
    BY <1>1 DEF Keeps
  <1>3. PICK at \in [DOMAIN r -> 1..Len(s)] : \A j \in DOMAIN r : r[j] = s[at[j]]
    BY <1>1 DEF Keeps
  <1>4. \A j \in DOMAIN r : at[j] \in DOMAIN s /\ r[j] = s[at[j]] /\ r[j] \in X
    BY <1>3
  <1>5. r \in Seq(X)
    BY <1>2, <1>4
  <1>6. \A j \in DOMAIN r : r[j] \in S
    BY <1>2
  <1> QED
    BY <1>4, <1>5, <1>6 DEF r

\* It leaves nothing out that is in the set.
LEMMA SiftedComplete ==
  ASSUME NEW X, NEW s \in Seq(X), NEW S, NEW i \in DOMAIN s, s[i] \in S
  PROVE  \E j \in DOMAIN Sifted(s, S) : Sifted(s, S)[j] = s[i]
  <1> DEFINE r == Sifted(s, S)
  <1>1. Keeps(r, s, S, Len(s)) /\ i \in 1..Len(s)
    BY SiftedKeeps
  <1> HIDE DEF r
  <1>2. PICK at \in [DOMAIN r -> 1..Len(s)] :
          /\ \A j \in DOMAIN r : r[j] = s[at[j]]
          /\ \A h \in 1..Len(s) : s[h] \in S => \E j \in DOMAIN r : at[j] = h
    BY <1>1 DEF Keeps
  <1>3. PICK j \in DOMAIN r : at[j] = i
    BY <1>1, <1>2
  <1> QED
    BY <1>2, <1>3 DEF r

\* It leaves a sequence as it is whose elements are all in the set.
LEMMA SiftedWhole ==
  ASSUME NEW X, NEW s \in Seq(X), NEW S, \A i \in DOMAIN s : s[i] \in S
  PROVE  Sifted(s, S) = s
  <1>1. PICK f : f = [i \in 0..Len(s) |-> SiftTurn(f, s, S, i)] /\ Sifted(s, S) = f[Len(s)]
    BY SiftedIsRun
  <1> DEFINE Whole(r, i) == r \in Seq(X) /\ Len(r) = i /\ \A j \in 1..i : r[j] = s[j]
             Bad == {i \in 0..Len(s) : ~Whole(f[i], i)}
  <1>2. Len(s) \in Nat /\ DOMAIN s = 1..Len(s)
    OBVIOUS
  <1>3. Whole(f[0], 0)
    <2>1. f[0] = <<>>
      BY <1>1, <1>2 DEF SiftTurn
    <2> QED
      BY <2>1
  <1>4. ASSUME Bad # {} PROVE FALSE
    <2> HIDE DEF Whole
    <2>1. Bad \in SUBSET Nat
      OBVIOUS
    <2>2. PICK n \in Bad : \A m \in Bad : n <= m
      BY <2>1, <1>4, LeastOf
    <2>3. n \in 1..Len(s) /\ ~Whole(f[n], n) /\ n - 1 \in 0..Len(s)
      BY <2>2, <1>2, <1>3
    <2>4. Whole(f[n - 1], n - 1)
      BY <2>2, <2>3
    <2>5. f[n] = Append(f[n - 1], s[n])
      <3>1. f[n] = SiftTurn(f, s, S, n) /\ n # 0 /\ s[n] \in S
        BY <1>1, <1>2, <2>3
      <3> QED
        BY <3>1 DEF SiftTurn
    <2>6. s[n] \in X /\ n \in Nat /\ n # 0
      BY <1>2, <2>3
    <2>7. Whole(f[n], n)
      BY <2>4, <2>5, <2>6 DEF Whole
    <2> QED
      BY <2>3, <2>7
  <1>5. Whole(f[Len(s)], Len(s))
    BY <1>2, <1>4
  <1> QED
    BY <1>1, <1>5

\* It leaves the order as it is.
LEMMA SiftedOrdered ==
  ASSUME NEW X, NEW s \in Seq(X), NEW S, NEW R, OrderedBy(s, R)
  PROVE  OrderedBy(Sifted(s, S), R)
  <1> DEFINE r == Sifted(s, S)
  <1>1. Keeps(r, s, S, Len(s))
    BY SiftedKeeps
  <1> HIDE DEF r
  <1>2. PICK at \in [DOMAIN r -> 1..Len(s)] :
          /\ \A j \in DOMAIN r : r[j] = s[at[j]]
          /\ \A j, k \in DOMAIN r : j < k => at[j] < at[k]
    BY <1>1 DEF Keeps
  <1>3. \A j \in DOMAIN r : at[j] \in DOMAIN s
    BY <1>2
  <1>4. OrderedBy(r, R)
    BY <1>2, <1>3 DEF OrderedBy
  <1> QED
    BY <1>4 DEF r

\* A part of a sequence has the elements of it from a to b.
LEMMA PartTyped ==
  ASSUME NEW X, NEW s \in Seq(X), NEW a \in Nat \ {0}, NEW b \in 0..Len(s)
  PROVE  /\ SubSeq(s, a, b) \in Seq(X)
         /\ Len(SubSeq(s, a, b)) = IF a <= b THEN b - a + 1 ELSE 0
         /\ DOMAIN SubSeq(s, a, b) = 1..Len(SubSeq(s, a, b))
         /\ \A i \in DOMAIN SubSeq(s, a, b) :
                i + a - 1 \in DOMAIN s /\ SubSeq(s, a, b)[i] = s[i + a - 1]
  OBVIOUS

\* A part of a sequence is ordered as the sequence is.
LEMMA PartOrdered ==
  ASSUME NEW X, NEW s \in Seq(X), NEW R, OrderedBy(s, R),
         NEW a \in Nat \ {0}, NEW b \in 0..Len(s)
  PROVE  /\ SubSeq(s, a, b) \in Seq(X)
         /\ OrderedBy(SubSeq(s, a, b), R)
         /\ \A i \in DOMAIN SubSeq(s, a, b) : \E h \in DOMAIN s : SubSeq(s, a, b)[i] = s[h]
  <1> DEFINE r == SubSeq(s, a, b)
  <1>1. /\ r \in Seq(X) /\ DOMAIN s = 1..Len(s) /\ Len(s) \in Nat
        /\ DOMAIN r = 1..(IF a <= b THEN b - a + 1 ELSE 0)
        /\ \A i \in DOMAIN r : r[i] = s[i + a - 1]
    OBVIOUS
  <1> HIDE DEF r
  <1>2. \A i \in DOMAIN r : i \in Int /\ i + a - 1 \in DOMAIN s /\ r[i] = s[i + a - 1]
    BY <1>1
  <1>3. OrderedBy(r, R)
    BY <1>2 DEF OrderedBy
  <1> QED
    BY <1>1, <1>2, <1>3 DEF r

---------------------------------------------------------------------------

\* A finite set that is not empty has an element with the greatest key.
LEMMA GreatestOf ==
  ASSUME NEW S, IsFiniteSet(S), S # {}, NEW key \in [S -> Int]
  PROVE  \E x \in S : \A y \in S : key[y] <= key[x]
  <1> DEFINE Has(T) == \E x \in T : \A y \in T : key[y] <= key[x]
             Bad == {n \in Nat : \E T \in SUBSET S : T # {} /\ Cardinality(T) = n /\ ~Has(T)}
  <1>1. ASSUME Bad # {} PROVE FALSE
    <2>1. PICK n \in Bad : \A m \in Bad : n <= m
      BY <1>1, LeastOf
    <2>2. PICK T \in SUBSET S : T # {} /\ Cardinality(T) = n /\ ~Has(T)
      OBVIOUS
    <2>3. PICK x \in T : TRUE
      BY <2>2
    <2>4. IsFiniteSet(T) /\ IsFiniteSet(T \ {x}) /\ Cardinality(T \ {x}) = n - 1
      BY <2>2, <2>3, FS_Subset, FS_RemoveElement
    <2>5. CASE T \ {x} = {}
      <3>1. \A y \in T : y = x
        BY <2>5
      <3>2. key[x] \in Int
        BY <2>2
      <3> QED BY <2>2, <2>3, <3>1, <3>2
    <2>6. CASE T \ {x} # {}
      <3>1. n - 1 \in Nat
        BY <2>4, FS_CardinalityType
      <3>2. Has(T \ {x})
        <4>1. n \in Nat /\ n - 1 \notin Bad
          BY <2>1, <3>1
        <4> QED BY <2>4, <2>6, <3>1, <4>1
      <3>3. PICK z \in T \ {x} : \A y \in T \ {x} : key[y] <= key[z]
        BY <3>2
      <3>4. \A y \in T : key[y] \in Int
        OBVIOUS
      <3>5. CASE key[z] <= key[x]
        <4>1. \A y \in T : key[y] <= key[x]
          BY <2>3, <3>3, <3>4, <3>5
        <4> QED BY <2>2, <4>1
      <3>6. CASE ~(key[z] <= key[x])
        <4>1. \A y \in T : key[y] <= key[z]
          BY <2>3, <3>3, <3>4, <3>6
        <4> QED BY <2>2, <4>1
      <3> QED BY <3>5, <3>6
    <2> QED BY <2>5, <2>6
  <1>2. Cardinality(S) \in Nat
    BY FS_CardinalityType
  <1> QED BY <1>1, <1>2

\* A finite set can be numbered in the order of keys of its elements.
SortedBy(s, key) == \A i, j \in DOMAIN s : i < j => key[s[i]] <= key[s[j]]

LEMMA SortedNumbering ==
  ASSUME NEW S, IsFiniteSet(S), NEW key \in [S -> Int]
  PROVE  \E s \in Bijection(1..Cardinality(S), S) : SortedBy(s, key)
  <1> DEFINE Has(T) == \E s \in Bijection(1..Cardinality(T), T) : SortedBy(s, key)
             Bad == {n \in Nat : \E T \in SUBSET S : Cardinality(T) = n /\ ~Has(T)}
  <1>1. ASSUME Bad # {} PROVE FALSE
    <2>1. PICK n \in Bad : \A m \in Bad : n <= m
      BY <1>1, LeastOf
    <2>2. PICK T \in SUBSET S : Cardinality(T) = n /\ ~Has(T)
      OBVIOUS
    <2>3. IsFiniteSet(T) /\ n \in Nat
      BY <2>2, FS_Subset
    <2>4. CASE T = {}
      <3>1. 1..Cardinality(T) = {}
        BY <2>4, FS_EmptySet
      <3> DEFINE s == [i \in {} |-> i]
      <3>2. s \in Bijection({}, {}) /\ SortedBy(s, key)
        BY DEF Bijection, Injection, Surjection, IsInjective, SortedBy
      <3> QED BY <2>2, <2>4, <3>1, <3>2
    <2>5. CASE T # {}
      <3>1. PICK x \in T : \A y \in T : key[y] <= key[x]
        <4>1. [y \in T |-> key[y]] \in [T -> Int]
          OBVIOUS
        <4> QED BY <2>3, <2>5, <4>1, GreatestOf
      <3>2. IsFiniteSet(T \ {x}) /\ Cardinality(T \ {x}) = n - 1 /\ n - 1 \in Nat
        <4>1. IsFiniteSet(T \ {x}) /\ Cardinality(T \ {x}) = Cardinality(T) - 1
          BY <2>3, <3>1, FS_RemoveElement
        <4> QED BY <2>2, <4>1, FS_CardinalityType
      <3>3. Has(T \ {x})
        <4>1. n - 1 \notin Bad
          BY <2>1, <2>3, <3>2
        <4> QED BY <3>2, <4>1
      <3>4. PICK s \in Bijection(1..n - 1, T \ {x}) : SortedBy(s, key)
        BY <3>2, <3>3
      <3>5. /\ s \in [1..n - 1 -> T \ {x}]
            /\ \A i, j \in 1..n - 1 : s[i] = s[j] => i = j
            /\ \A y \in T \ {x} : \E i \in 1..n - 1 : s[i] = y
            /\ \A i, j \in 1..n - 1 : i < j => key[s[i]] <= key[s[j]]
        BY <3>4 DEF Bijection, Injection, Surjection, IsInjective, SortedBy
      <3> DEFINE r == [i \in 1..n |-> IF i = n THEN x ELSE s[i]]
      <3>6. r[n] = x /\ \A i \in 1..n - 1 : r[i] = s[i]
        BY <2>3, <3>2
      <3>7. \A i \in 1..n : i = n \/ i \in 1..n - 1
        BY <2>3
      <3>8. r \in [1..n -> T]
        BY <3>1, <3>5, <3>7
      <3> HIDE DEF r
      <3>9. r \in Injection(1..n, T)
        BY <3>5, <3>6, <3>7, <3>8 DEF Injection, IsInjective
      <3>10. r \in Surjection(1..n, T)
        <4>1. n \in 1..n /\ 1..n - 1 \subseteq 1..n
          BY <2>3, <3>2
        <4> QED BY <3>5, <3>6, <3>8, <4>1 DEF Surjection
      <3>11. ASSUME NEW i \in 1..n, NEW j \in 1..n, i < j PROVE key[r[i]] <= key[r[j]]
        <4>1. i \in 1..n - 1
          BY <2>3, <3>11
        <4>2. CASE j = n
          BY <3>1, <3>6, <3>8, <4>2
        <4>3. CASE j # n
          BY <3>5, <3>6, <3>7, <3>11, <4>1, <4>3
        <4> QED BY <4>2, <4>3
      <3>12. SortedBy(r, key)
        BY <3>8, <3>11 DEF SortedBy
      <3> QED BY <2>2, <3>9, <3>10, <3>12 DEF Bijection
    <2> QED BY <2>4, <2>5
  <1>2. Cardinality(S) \in Nat
    BY FS_CardinalityType
  <1> QED BY <1>1, <1>2

\* Two increasing sequences of the same integers are the same, as far as the
\* shorter goes.
LEMMA SameIncreasing ==
  ASSUME NEW n \in Nat, NEW k \in Nat, NEW f \in [1..n -> Int], NEW g \in [1..k -> Int],
         \A i, j \in 1..n : i < j => f[i] < f[j],
         \A i, j \in 1..k : i < j => g[i] < g[j],
         \A i \in 1..n : \E j \in 1..k : g[j] = f[i],
         \A j \in 1..k : \E i \in 1..n : f[i] = g[j],
         NEW i \in 1..n, i \in 1..k
  PROVE  f[i] = g[i]
  <1> DEFINE Bad == {h \in Nat : h \in 1..n /\ h \in 1..k /\ f[h] # g[h]}
  <1>1. ASSUME Bad # {} PROVE FALSE
    <2>1. PICK h \in Bad : \A m \in Bad : h <= m
      BY <1>1, LeastOf
    <2>2. h \in 1..n /\ h \in 1..k /\ f[h] # g[h] /\ h \in Nat
      OBVIOUS
    <2>3. \A m \in 1..h - 1 : m \in 1..n /\ m \in 1..k /\ f[m] = g[m]
      BY <2>1, <2>2
    <2>4. CASE f[h] < g[h]
      <3>1. PICK j \in 1..k : g[j] = f[h]
        BY <2>2
      <3>2. j < h
        <4>1. /\ j \in Nat /\ h \in Nat /\ f[h] \in Int /\ g[h] \in Int
              /\ h < j => g[h] < g[j]
          BY <2>2, <3>1
        <4>2. g[j] = f[h] /\ f[h] < g[h]
          BY <2>4, <3>1
        <4>3. ~(h < j)
          BY <4>1, <4>2
        <4>4. ASSUME h = j PROVE FALSE
          <5>1. g[h] = f[h]
            BY <4>2, <4>4
          <5> QED BY <2>2, <5>1
        <4> QED BY <4>1, <4>3, <4>4
      <3>3. f[j] = f[h] /\ f[j] < f[h]
        BY <2>2, <2>3, <3>1, <3>2
      <3> QED BY <2>2, <3>3
    <2>5. CASE g[h] < f[h]
      <3>1. PICK j \in 1..n : f[j] = g[h]
        BY <2>2
      <3>2. j < h
        <4>1. /\ j \in Nat /\ h \in Nat /\ g[h] \in Int /\ f[h] \in Int
              /\ h < j => f[h] < f[j]
          BY <2>2, <3>1
        <4>2. f[j] = g[h] /\ g[h] < f[h]
          BY <2>5, <3>1
        <4>3. ~(h < j)
          BY <4>1, <4>2
        <4>4. ASSUME h = j PROVE FALSE
          <5>1. f[h] = g[h]
            BY <4>2, <4>4
          <5> QED BY <2>2, <5>1
        <4> QED BY <4>1, <4>3, <4>4
      <3>3. g[j] = g[h] /\ g[j] < g[h]
        BY <2>2, <2>3, <3>1, <3>2
      <3> QED BY <2>2, <3>3
    <2> QED BY <2>2, <2>4, <2>5
  <1>2. i \in Nat
    OBVIOUS
  <1>3. i \notin Bad
    BY <1>1
  <1> QED BY <1>2, <1>3

\* What is made of n elements of a set is a sequence.
LEMMA MadeSeq ==
  ASSUME NEW X, NEW n \in Nat, NEW s \in [1..n -> X]
  PROVE  s \in Seq(X) /\ Len(s) = n
  OBVIOUS

\* A set of indices of a sequence has a greatest.
LEMMA LastOf ==
  ASSUME NEW n \in Nat, NEW T \in SUBSET (1..n), T # {}
  PROVE  Max(T) \in T /\ \A i \in T : i <= Max(T)
<1>1. IsFiniteSet(T)
  <2>1. IsFiniteSet(1..n)
    BY FS_Interval
  <2> QED BY <2>1, FS_Subset
<1>2. [i \in T |-> i] \in [T -> Int]
  OBVIOUS
<1>3. PICK x \in T : \A i \in T : [h \in T |-> h][i] <= [h \in T |-> h][x]
  BY <1>1, <1>2, GreatestOf
<1>4. \A i \in T : x >= i
  BY <1>3
<1> QED BY <1>4 DEF Max

\* f has what is computed after each of the n turns of a loop.
IsLoop(f, X, base, n, turn) ==
    /\ f \in [0..n -> X]
    /\ f[0] = base /\ \A i \in 1..n : f[i] = turn[<<f[i - 1], i>>]

\* A loop over n turns can be run to its end, and stays among the values that
\* its turns stay among.
LEMMA LoopExists ==
  ASSUME NEW X, NEW base \in X, NEW n \in Nat, NEW turn \in [X \X (1..n) -> X]
  PROVE  \E f : IsLoop(f, X, base, n, turn)
  <1> DEFINE Runs(k) == \E f \in [0..k -> X] :
                            f[0] = base /\ \A i \in 1..k : f[i] = turn[<<f[i - 1], i>>]
             Bad == {k \in Nat : k <= n /\ ~Runs(k)}
  <1>1. Runs(0)
    <2> DEFINE f == [i \in 0..0 |-> base]
    <2>1. f \in [0..0 -> X] /\ f[0] = base /\ \A i \in 1..0 : f[i] = turn[<<f[i - 1], i>>]
      OBVIOUS
    <2> QED
      BY <2>1
  <1>2. ASSUME NEW k \in Nat, k + 1 <= n, Runs(k) PROVE Runs(k + 1)
    <2>1. PICK f \in [0..k -> X] :
              f[0] = base /\ \A i \in 1..k : f[i] = turn[<<f[i - 1], i>>]
      BY <1>2
    <2> DEFINE next == turn[<<f[k], k + 1>>]
               g == [i \in 0..k + 1 |-> IF i = k + 1 THEN next ELSE f[i]]
    <2>2. next \in X
      <3>1. f[k] \in X /\ k + 1 \in 1..n
        BY <1>2, <2>1
      <3> QED
        BY <3>1
    <2>3. /\ g \in [0..k + 1 -> X] /\ g[k + 1] = next
          /\ \A i \in 0..k : g[i] = f[i]
      <3> HIDE DEF next
      <3> QED
        BY <2>1, <2>2
    <2> HIDE DEF g
    <2>4. g[0] = base
      BY <2>1, <2>3
    <2>5. ASSUME NEW i \in 1..k + 1 PROVE g[i] = turn[<<g[i - 1], i>>]
      <3>1. i - 1 \in 0..k /\ g[i - 1] = f[i - 1]
        BY <2>3
      <3>2. CASE i = k + 1
        BY <2>3, <3>1, <3>2
      <3>3. CASE i # k + 1
        <4>1. i \in 1..k /\ i \in 0..k
          BY <3>3
        <4> QED
          BY <2>1, <2>3, <3>1, <4>1
      <3> QED
        BY <3>2, <3>3
    <2> QED
      BY <2>3, <2>4, <2>5
  <1>3. Bad = {}
    <2> SUFFICES ASSUME Bad # {} PROVE FALSE
      OBVIOUS
    <2> HIDE DEF Runs
    <2>1. PICK k \in Bad : \A m \in Bad : k <= m
      BY LeastOf
    <2>2. k \in Nat /\ k # 0 /\ k <= n
      BY <2>1, <1>1
    <2>3. k - 1 \in Nat /\ k - 1 <= n /\ k - 1 \notin Bad
      BY <2>1, <2>2
    <2>4. Runs((k - 1) + 1)
      BY <2>2, <2>3, <1>2
    <2> QED
      BY <2>1, <2>2, <2>4
  <1> HIDE DEF Runs
  <1>4. Runs(n)
    BY <1>3
  <1> QED
    BY <1>4 DEF Runs, IsLoop

\* The concatenation of sequences ends in the last of them.
LEMMA FlattenedEnds ==
  ASSUME NEW X, NEW ss \in Seq(Seq(X)), ss # <<>>
  PROVE  \E front \in Seq(X) : FlattenSeq(ss) = front \o ss[Len(ss)]
  <1> DEFINE n == Len(ss)
             turn == [p \in Seq(X) \X (1..n) |-> p[1] \o ss[p[2]]]
             Flat(f) == f = [i \in 1..n |-> IF i = 1 THEN ss[i] ELSE f[i - 1] \o ss[i]]
  <1>1. n \in Nat /\ n # 0 /\ \A i \in 1..n : ss[i] \in Seq(X)
    OBVIOUS
  <1>2. turn \in [Seq(X) \X (1..n) -> Seq(X)]
    BY <1>1
  <1>3. PICK f \in [0..n -> Seq(X)] :
            f[0] = <<>> /\ \A i \in 1..n : f[i] = turn[<<f[i - 1], i>>]
    <2> DEFINE S == Seq(X)
               base == <<>>
    <2>1. base \in S
      OBVIOUS
    <2>2. turn \in [S \X (1..n) -> S]
      BY <1>2
    <2>3. n \in Nat
      BY <1>1
    <2> HIDE DEF turn, n, S, base
    <2>4. \E f : IsLoop(f, S, base, n, turn)
      BY <2>1, <2>2, <2>3, LoopExists
    <2> QED
      BY <2>4 DEF S, base, IsLoop
  <1>4. ASSUME NEW i \in 1..n PROVE f[i - 1] \in Seq(X) /\ f[i] = f[i - 1] \o ss[i]
    <2>1. i - 1 \in 0..n
      BY <1>1
    <2>2. f[i - 1] \in Seq(X)
      BY <1>3, <2>1
    <2> QED
      BY <1>3, <2>2
  <1>a. ASSUME 1 \in 1..n PROVE f[1] = ss[1]
    <2>1. f[1] = f[1 - 1] \o ss[1] /\ ss[1] \in Seq(X)
      BY <1>a, <1>1, <1>4
    <2>2. f[1 - 1] = <<>>
      BY <1>3
    <2> QED
      BY <2>1, <2>2
  <1> DEFINE g == [i \in 1..n |-> f[i]]
  <1> HIDE DEF n
  <1>5. Flat(g)
    <2>1. ASSUME NEW i \in 1..n PROVE g[i] = IF i = 1 THEN ss[i] ELSE g[i - 1] \o ss[i]
      <3>1. CASE i = 1
        BY <1>a, <3>1
      <3>2. CASE i # 1
        <4>1. i - 1 \in 1..n
          BY <1>1, <3>2
        <4> QED
          BY <1>4, <3>2, <4>1
      <3> QED
        BY <3>1, <3>2
    <2>2. g = [i \in 1..n |-> g[i]]
      OBVIOUS
    <2> HIDE DEF g
    <2> QED
      BY <2>1, <2>2
  <1> DEFINE h == CHOOSE h : Flat(h)
  <1>6. Flat(h)
    <2> HIDE DEF Flat
    <2> QED
      BY <1>5
  <1>7. FlattenSeq(ss) = h[n]
    BY <1>1 DEF FlattenSeq, n
  <1>8. \A i \in 1..n : h[i] = f[i]
    <2> DEFINE Bad == {i \in Nat : i \in 1..n /\ h[i] # f[i]}
    <2>1. ASSUME Bad # {} PROVE FALSE
      <3>1. PICK i \in Bad : \A m \in Bad : i <= m
        BY <2>1, LeastOf
      <3>2. i \in 1..n /\ i \in Nat /\ h[i] # f[i]
        BY <3>1
      <3> HIDE DEF h
      <3>3. h[i] = IF i = 1 THEN ss[i] ELSE h[i - 1] \o ss[i]
        BY <1>6, <3>2
      <3>4. CASE i = 1
        BY <1>a, <3>2, <3>3, <3>4
      <3>5. CASE i # 1
        <4>1. i - 1 \in 1..n /\ i - 1 \in Nat /\ i - 1 \notin Bad
          BY <3>1, <3>2, <3>5, <1>1
        <4>2. h[i - 1] = f[i - 1]
          BY <4>1
        <4> QED
          BY <1>4, <3>2, <3>3, <3>5, <4>2
      <3> QED
        BY <3>4, <3>5
    <2> HIDE DEF h
    <2>2. 1..n \subseteq Nat
      BY <1>1
    <2> QED
      BY <2>1, <2>2
  <1>9. n \in 1..n
    BY <1>1
  <1> HIDE DEF h
  <1>10. FlattenSeq(ss) = f[n - 1] \o ss[n] /\ f[n - 1] \in Seq(X)
    BY <1>4, <1>7, <1>8, <1>9
  <1> QED
    BY <1>10 DEF n

\* The first k elements of s.
First(s, k) == [i \in 1..k |-> s[i]]

LEMMA FirstIs ==
  ASSUME NEW X, NEW s \in Seq(X), NEW k \in 0..Len(s)
  PROVE  /\ First(s, k) \in Seq(X) /\ Len(First(s, k)) = k
         /\ DOMAIN First(s, k) = 1..k /\ k \in Nat /\ Len(s) \in Nat
         /\ \A i \in 1..k : First(s, k)[i] = s[i] /\ s[i] \in X
         /\ \A j \in 0..k : First(First(s, k), j) = First(s, j)
<1>1. Len(s) \in Nat /\ k \in Nat /\ \A i \in 1..k : s[i] \in X
  OBVIOUS
<1>2. First(s, k) \in [1..k -> X]
  BY <1>1 DEF First
<1>3. First(s, k) \in Seq(X) /\ Len(First(s, k)) = k
  BY <1>1, <1>2, MadeSeq
<1>4. ASSUME NEW j \in 0..k PROVE First(First(s, k), j) = First(s, j)
  BY <1>1 DEF First
<1> QED BY <1>1, <1>3, <1>4 DEF First

\* Where s has elements of T.
Having(s, T) == {i \in DOMAIN s : s[i] \in T}

\* A filter of a sequence leaves as many elements of a set as there are.
LEMMA SiftedCounts ==
  ASSUME NEW X, NEW s \in Seq(X), NEW S, NEW T \in SUBSET S
  PROVE  /\ ExistsBijection(Having(Sifted(s, S), T), Having(s, T))
         /\ IsFiniteSet(Having(Sifted(s, S), T))
<1> DEFINE r == Sifted(s, S)
           left == {j \in DOMAIN r : r[j] \in T}
           all  == {i \in DOMAIN s : s[i] \in T}
<1>0. left = Having(Sifted(s, S), T) /\ all = Having(s, T)
  BY DEF Having
<1>1. Keeps(r, s, S, Len(s)) /\ r \in Seq(X)
  BY SiftedKeeps, SiftedTyped
<1> HIDE DEF r
<1>2. Len(s) \in Nat /\ DOMAIN s = 1..Len(s) /\ Len(r) \in Nat /\ DOMAIN r = 1..Len(r)
  BY <1>1
<1>3. PICK at \in [DOMAIN r -> 1..Len(s)] :
        /\ \A j \in DOMAIN r : r[j] = s[at[j]]
        /\ \A j, k \in DOMAIN r : j < k => at[j] < at[k]
        /\ \A h \in 1..Len(s) : s[h] \in S => \E j \in DOMAIN r : at[j] = h
  BY <1>1 DEF Keeps
<1> DEFINE f == [j \in left |-> at[j]]
<1>4. f \in [left -> all]
  BY <1>2, <1>3
<1>5. ASSUME NEW j \in left, NEW k \in left, f[j] = f[k] PROVE j = k
  <2>1. j \in DOMAIN r /\ k \in DOMAIN r /\ at[j] = at[k] /\ at[j] \in Int
    BY <1>3, <1>5
  <2>2. ~(j < k) /\ ~(k < j)
    BY <1>3, <2>1
  <2> QED BY <1>2, <2>1, <2>2
<1>6. ASSUME NEW h \in all PROVE \E j \in left : f[j] = h
  <2>1. h \in 1..Len(s) /\ s[h] \in S
    BY <1>2
  <2>2. PICK j \in DOMAIN r : at[j] = h
    BY <1>3, <2>1
  <2>3. j \in left
    BY <1>3, <2>2
  <2> QED BY <2>2, <2>3
<1>7. f \in Bijection(left, all)
  <2> HIDE DEF f, left, all
  <2> QED BY <1>4, <1>5, <1>6 DEF Bijection, Injection, Surjection, IsInjective
<1>8. IsFiniteSet(left)
  <2>1. IsFiniteSet(DOMAIN r)
    BY <1>2, FS_Interval
  <2>2. left \in SUBSET DOMAIN r
    OBVIOUS
  <2> QED BY <2>1, <2>2, FS_Subset
<1>9. ExistsBijection(left, all)
  BY <1>7 DEF ExistsBijection
<1> QED BY <1>0, <1>8, <1>9

---------------------------------------------------------------------------

\* f has the sums of the first elements of s.
Sums(f, s) ==
    /\ f \in [0..Len(s) -> Int] /\ f[0] = 0
    /\ \A i \in 1..Len(s) : f[i] = f[i - 1] + s[i]

LEMMA TotalIs ==
  ASSUME NEW s \in Seq(Int)
  PROVE  \E f : Sums(f, s) /\ Total(s) = f[Len(s)]
<1> DEFINE n == Len(s)
           Sum(f) == f = [i \in 0..n |-> IF i = 0 THEN 0 ELSE f[i - 1] + s[i]]
           g == CHOOSE g : Sum(g)
<1>1. n \in Nat /\ \A i \in 1..n : s[i] \in Int
  OBVIOUS
<1>2. PICK f \in [0..n -> Int] : f[0] = 0 /\ \A i \in 1..n : f[i] = f[i - 1] + s[i]
  <2> DEFINE turn == [xi \in Int \X (1..n) |-> xi[1] + s[xi[2]]]
  <2>1. turn \in [Int \X (1..n) -> Int]
    BY <1>1
  <2>2. PICK f : IsLoop(f, Int, 0, n, turn)
    <3> HIDE DEF turn, n
    <3>1. 0 \in Int
      OBVIOUS
    <3> QED BY <1>1, <2>1, <3>1, LoopExists
  <2>3. f \in [0..n -> Int] /\ f[0] = 0 /\ \A i \in 1..n : f[i] = turn[<<f[i - 1], i>>]
    BY <2>2 DEF IsLoop
  <2>4. ASSUME NEW i \in 1..n PROVE f[i] = f[i - 1] + s[i]
    <3>1. f[i - 1] \in Int
      BY <1>1, <2>3
    <3>2. <<f[i - 1], i>> \in Int \X (1..n)
      BY <3>1
    <3> QED BY <2>3, <3>2
  <2> QED BY <2>3, <2>4
<1> HIDE DEF n
<1>3. Sum(f)
  <2>1. \A i \in 0..n : f[i] = IF i = 0 THEN 0 ELSE f[i - 1] + s[i]
    BY <1>1, <1>2
  <2>2. f = [i \in 0..n |-> f[i]]
    BY <1>2
  <2> QED BY <2>1, <2>2
<1>4. Sum(g)
  <2> HIDE DEF Sum
  <2> QED BY <1>3
<1> HIDE DEF g
<1>5. Total(s) = g[n]
  BY DEF Total, g, n
<1>6. \A i \in 0..n : g[i] = IF i = 0 THEN 0 ELSE g[i - 1] + s[i]
  BY <1>4
<1> HIDE DEF Sum
<1>7. \A i \in 0..n : g[i] = f[i]
  <2> DEFINE Bad == {i \in Nat : i <= n /\ g[i] # f[i]}
  <2> SUFFICES ASSUME Bad # {} PROVE FALSE
    BY <1>1
  <2>1. PICK i \in Bad : \A h \in Bad : i <= h
    BY LeastOf
  <2>2. i \in 0..n /\ g[i] # f[i] /\ i # 0
    BY <1>1, <1>2, <1>6, <2>1
  <2>3. i - 1 \in Nat /\ i - 1 <= n /\ i - 1 \notin Bad /\ i \in 1..n
    BY <1>1, <2>1, <2>2
  <2>4. g[i - 1] = f[i - 1]
    BY <2>3
  <2> QED BY <1>2, <1>6, <2>2, <2>3, <2>4
<1>8. n \in 0..n
  BY <1>1
<1> QED BY <1>2, <1>5, <1>7, <1>8 DEF Sums, n

\* The same sums are those of the same elements.
LEMMA SameSums ==
  ASSUME NEW s, NEW t, NEW f, NEW g, Sums(f, s), Sums(g, t), NEW n \in Nat,
         n <= Len(s), n <= Len(t), Len(s) \in Nat, Len(t) \in Nat, \A i \in 1..n : s[i] = t[i]
  PROVE  f[n] = g[n]
<1> DEFINE Bad == {i \in Nat : i <= n /\ g[i] # f[i]}
<1> SUFFICES ASSUME Bad # {} PROVE FALSE
  OBVIOUS
<1>1. PICK i \in Bad : \A h \in Bad : i <= h
  BY LeastOf
<1>2. i \in Nat /\ i <= n /\ g[i] # f[i] /\ i # 0
  BY <1>1 DEF Sums
<1>3. i - 1 \in Nat /\ i - 1 \notin Bad /\ i \in 1..n /\ i \in 1..Len(s) /\ i \in 1..Len(t)
  BY <1>1, <1>2
<1>4. g[i - 1] = f[i - 1] /\ s[i] = t[i]
  BY <1>2, <1>3
<1>5. f[i] = f[i - 1] + s[i] /\ g[i] = g[i - 1] + t[i]
  BY <1>3 DEF Sums
<1> QED BY <1>2, <1>4, <1>5

LEMMA TotalOfNone == Total(<<>>) = 0
<1>1. <<>> \in Seq(Int) /\ Len(<<>>) = 0
  OBVIOUS
<1>2. PICK f : Sums(f, <<>>) /\ Total(<<>>) = f[Len(<<>>)]
  BY <1>1, TotalIs
<1> QED BY <1>1, <1>2 DEF Sums

LEMMA TotalAppended ==
  ASSUME NEW s \in Seq(Int), NEW x \in Int
  PROVE  Total(Append(s, x)) = Total(s) + x /\ Total(s) \in Int
<1> DEFINE t == Append(s, x)
           n == Len(s)
<1>1. /\ t \in Seq(Int) /\ Len(t) = n + 1 /\ n \in Nat /\ Len(t) \in Nat
      /\ t[n + 1] = x /\ \A i \in 1..n : s[i] = t[i]
  OBVIOUS
<1>2. PICK f : Sums(f, s) /\ Total(s) = f[n]
  BY TotalIs
<1> HIDE DEF t, n
<1>3. PICK g : Sums(g, t) /\ Total(t) = g[n + 1]
  BY <1>1, TotalIs
<1>4. f[n] = g[n]
  <2>1. Len(s) = n /\ Len(s) \in Nat /\ n <= Len(s) /\ n <= Len(t)
    BY <1>1 DEF n
  <2> QED BY <1>1, <1>2, <1>3, <2>1, SameSums
<1>5. n + 1 \in 1..Len(t) /\ (n + 1) - 1 = n
  BY <1>1
<1>6. g[n + 1] = g[n] + x
  BY <1>1, <1>3, <1>5 DEF Sums
<1>7. f[n] \in Int
  BY <1>1, <1>2 DEF Sums, n
<1> QED BY <1>2, <1>3, <1>4, <1>6, <1>7 DEF t
===========================================================================
