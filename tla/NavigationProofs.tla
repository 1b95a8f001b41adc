-------------------------- MODULE NavigationProofs --------------------------
(***************************************************************************)
(* The tree on the screen for all snapshots: what it shows, that it can be *)
(* folded, sorted and descended, that no key and no snapshot leaves the    *)
(* cursor in the air or moves the selection, and that both layouts add up. *)
(***************************************************************************)
EXTENDS Navigation, FiniteSetTheorems, WellFoundedInduction, TLAPS

(***************************************************************************)
(* Induction, as the existence of a least counterexample: the induction    *)
(* theorems of the library take an operator as a parameter, WFMin does     *)
(* not.                                                                    *)
(***************************************************************************)

\* A set of natural numbers has a least element ...
LEMMA LeastNat ==
  ASSUME NEW T, T \subseteq Nat, T # {}
  PROVE  \E x \in T : \A y \in T : x <= y
<1> DEFINE R == OpToRel(<, Nat)
<1>1. \A x, y \in Nat : x < y => <<x, y>> \in R
  BY DEF OpToRel
<1>2. IsWellFoundedOn(R, Nat)
  BY NatLessThanWellFounded
<1> HIDE DEF R
<1>3. PICK x \in T : \A y \in T : ~ (<<y, x>> \in R)
  BY <1>2, WFMin
<1>4. \A y \in T : y \in Nat /\ x \in Nat /\ ~ (y < x)
  BY <1>1, <1>3
<1> QED
  BY <1>4

\* ... so what passes from each number to the next holds up to the last.
LEMMA UpTo ==
  ASSUME NEW n \in Nat, NEW C, 0 \in C, \A i \in 1..n : i - 1 \in C => i \in C
  PROVE  0..n \subseteq C
<1> DEFINE Bad == (0..n) \ C
<1> SUFFICES ASSUME Bad # {} PROVE FALSE
  OBVIOUS
<1>1. Bad \subseteq Nat /\ \A i \in Bad : i \in 0..n /\ i \notin C
  OBVIOUS
<1>2. \A i \in 0..n : i \notin Bad => i \in C
  OBVIOUS
<1> HIDE DEF Bad
<1>3. PICK i \in Bad : \A j \in Bad : i <= j
  BY <1>1, LeastNat
<1>4. i \in 1..n /\ i - 1 \in 0..n /\ ~ (i <= i - 1)
  BY <1>1
<1> QED
  BY <1>1, <1>2, <1>3, <1>4

\* A set of subsets of a finite set has one that contains no other.
LEMMA LeastSet ==
  ASSUME NEW S, IsFiniteSet(S), NEW T, T \subseteq SUBSET S, T # {}
  PROVE  \E x \in T : \A y \in T : y \subseteq x => y = x
<1> DEFINE R == StrictSubsetOrdering(S)
<1>1. IsWellFoundedOn(R, SUBSET S)
  BY FS_StrictSubsetOrderingWellFounded, FS_FiniteSubsetsOfFinite
<1> HIDE DEF R
<1>2. \E x \in T : \A y \in T : ~ (<<y, x>> \in R)
  BY <1>1, WFMin
<1> QED
  BY <1>2 DEF R, StrictSubsetOrdering

\* Min and Max are what they are called.
LEMMA MinIsLeast ==
  ASSUME NEW T, T \subseteq Nat, T # {}
  PROVE  Min(T) \in T /\ \A y \in T : Min(T) <= y
BY LeastNat DEF Min

LEMMA MaxIsGreatest ==
  ASSUME NEW n \in Nat, NEW T, T \subseteq 0..n, T # {}
  PROVE  Max(T) \in T /\ \A y \in T : y <= Max(T)
<1> DEFINE D == {d \in 0..n : n - d \in T}
<1>1. D \subseteq Nat
  OBVIOUS
<1>2. D # {}
  <2>1. PICK y \in T : y \in 0..n
    OBVIOUS
  <2>2. n - y \in 0..n /\ n - (n - y) = y
    BY <2>1
  <2> QED
    BY <2>1, <2>2
<1>3. PICK d \in D : \A e \in D : d <= e
  <2> HIDE DEF D
  <2> QED
    BY <1>1, <1>2, LeastNat
<1>4. \A y \in T : y \in 0..n /\ n - y \in D
  OBVIOUS
<1>5. n - d \in T /\ \A y \in T : n - d >= y
  BY <1>3, <1>4
<1>6. \E x \in T : \A y \in T : x >= y
  BY <1>5
<1>7. Max(T) \in T /\ \A y \in T : Max(T) >= y
  BY <1>6 DEF Max
<1> QED
  BY <1>4, <1>7

(***************************************************************************)
(* The fold of a sequence from the left is defined on all sets of its      *)
(* positions, the greatest taken off last.  Such a function exists ...     *)
(***************************************************************************)
Walks(h, n, base, f) ==
  \A s \in SUBSET (1..n) : h[s] = IF s = {} THEN base ELSE f[<<h[s \ {Max(s)}], Max(s)>>]

LEMMA FoldExists ==
  ASSUME NEW n \in Nat, NEW T, NEW base \in T, NEW f \in [T \X (1..n) -> T]
  PROVE  \E h \in [SUBSET (1..n) -> T] : Walks(h, n, base, f)
<1> DEFINE Fold(h, S) == \A s \in SUBSET S :
                           h[s] = IF s = {} THEN base ELSE f[<<h[s \ {Max(s)}], Max(s)>>]
           Bad == {S \in SUBSET (1..n) : ~ \E h \in [SUBSET S -> T] : Fold(h, S)}
<1> SUFFICES ASSUME Bad # {} PROVE FALSE
  BY DEF Walks
<1>0. Bad \subseteq SUBSET (1..n)
  OBVIOUS
<1>1. PICK S \in Bad : \A t \in Bad : t \subseteq S => t = S
  <2> DEFINE D == 1..n
  <2>1. IsFiniteSet(D)
    BY FS_Interval
  <2>2. Bad # {} /\ Bad \subseteq SUBSET D
    BY <1>0
  <2> HIDE DEF Bad, Fold, D
  <2> QED
    BY <2>1, <2>2, LeastSet
<1>2. S # {}
  <2> SUFFICES ASSUME S = {} PROVE FALSE
    OBVIOUS
  <2>1. [s \in SUBSET S |-> base] \in [SUBSET S -> T] /\ Fold([s \in SUBSET S |-> base], S)
    OBVIOUS
  <2> QED
    BY <1>1, <2>1
<1> DEFINE m == Max(S)
<1>3. ASSUME NEW s \in SUBSET (1..n), s # {}
      PROVE  Max(s) \in s /\ \A y \in s : y <= Max(s)
  <2>1. s \subseteq 0..n
    OBVIOUS
  <2> QED
    BY <1>3, <2>1, MaxIsGreatest
<1>4. m \in S /\ \A y \in S : y <= m
  BY <1>2, <1>3
<1>5. S \ {m} \notin Bad
  <2>1. S \ {m} # S /\ S \ {m} \subseteq S
    BY <1>4
  <2> HIDE DEF Bad, m, Fold
  <2> QED
    BY <1>1, <2>1
<1>6. PICK h \in [SUBSET (S \ {m}) -> T] : Fold(h, S \ {m})
  BY <1>5
<1> DEFINE g == [s \in SUBSET S |-> IF m \in s THEN f[<<h[s \ {m}], m>>] ELSE h[s]]
<1>7. g \in [SUBSET S -> T]
  <2> SUFFICES ASSUME NEW s \in SUBSET S
               PROVE  (IF m \in s THEN f[<<h[s \ {m}], m>>] ELSE h[s]) \in T
    OBVIOUS
  <2>1. s \ {m} \in SUBSET (S \ {m}) /\ m \in 1..n
    BY <1>4
  <2> HIDE DEF m
  <2>2. h[s \ {m}] \in T
    BY <1>6, <2>1
  <2>3. f[<<h[s \ {m}], m>>] \in T
    BY <2>1, <2>2
  <2>4. m \notin s => h[s] \in T
    BY <1>6
  <2> QED
    BY <2>3, <2>4
<1>8. ASSUME NEW s \in SUBSET S, m \in s PROVE Max(s) = m
  <2>1. Max(s) \in s /\ m <= Max(s)
    BY <1>3, <1>8
  <2>2. Max(s) <= m
    BY <1>4, <2>1
  <2>3. m \in Nat /\ Max(s) \in Nat
    <3>1. S \subseteq Nat
      OBVIOUS
    <3> HIDE DEF Bad
    <3> QED
      BY <1>4, <2>1, <3>1
  <2> HIDE DEF m
  <2> QED
    BY <2>1, <2>2, <2>3
<1> HIDE DEF m
<1>9. Fold(g, S)
  <2> SUFFICES ASSUME NEW s \in SUBSET S
               PROVE  g[s] = IF s = {} THEN base ELSE f[<<g[s \ {Max(s)}], Max(s)>>]
    OBVIOUS
  <2>1. CASE m \in s
    BY <1>8, <2>1
  <2>2. CASE m \notin s
    <3>1. g[s] = h[s] /\ g[s \ {Max(s)}] = h[s \ {Max(s)}] /\ s \in SUBSET (S \ {m})
      BY <2>2
    <3> QED
      BY <1>6, <3>1
  <2> QED
    BY <2>1, <2>2
<1> QED
  BY <1>1, <1>7, <1>9

\* ... and on the first positions it takes one step after the other.
LEMMA FoldSteps ==
  ASSUME NEW n \in Nat, NEW i \in 1..n
  PROVE  /\ 1..i \in SUBSET (1..n) /\ 1..i # {}
         /\ Max(1..i) = i /\ (1..i) \ {i} = 1..(i - 1)
<1>1. 1..i \subseteq 0..n /\ i \in 1..i
  OBVIOUS
<1>2. Max(1..i) \in 1..i /\ i <= Max(1..i)
  BY <1>1, MaxIsGreatest
<1> QED
  BY <1>1, <1>2

(***************************************************************************)
(* Sorting by counting who is ahead rearranges, if everyone can be         *)
(* compared.                                                               *)
(***************************************************************************)
LEMMA Ranking ==
  ASSUME NEW N \in Nat, NEW count \in [1..N -> 0..(N - 1)],
         \A a, b \in 1..N : count[a] = count[b] => a = b
  PROVE  [r \in 1..N |-> CHOOSE k \in 1..N : count[k] = r - 1] \in Bijection(1..N, 1..N)
<1> DEFINE place == [k \in 1..N |-> count[k] + 1]
           p == [r \in 1..N |-> CHOOSE k \in 1..N : count[k] = r - 1]
<1>1. \A k \in 1..N : count[k] + 1 \in 1..N /\ (count[k] + 1) - 1 = count[k]
  OBVIOUS
<1>2. place \in [1..N -> 1..N]
  BY <1>1
<1>3. \A a, b \in 1..N : place[a] = place[b] => a = b
  <2> SUFFICES ASSUME NEW a \in 1..N, NEW b \in 1..N, place[a] = place[b] PROVE a = b
    OBVIOUS
  <2>1. count[a] + 1 = count[b] + 1 /\ count[a] \in Int /\ count[b] \in Int
    OBVIOUS
  <2> QED
    BY <2>1
<1> HIDE DEF place
<1>4. place \in Surjection(1..N, 1..N)
  <2>1. place \in Injection(1..N, 1..N)
    BY <1>2, <1>3 DEF Injection, IsInjective
  <2> DEFINE D == 1..N
  <2>2. IsFiniteSet(D)
    BY FS_Interval
  <2>3. place \in Injection(D, D)
    BY <2>1
  <2> HIDE DEF D
  <2>4. place \in Surjection(D, D)
    BY <2>2, <2>3, FS_Injection
  <2> QED
    BY <2>4 DEF D
<1>5. \A r \in 1..N : \E k \in 1..N : count[k] = r - 1
  <2> SUFFICES ASSUME NEW r \in 1..N PROVE \E k \in 1..N : count[k] = r - 1
    OBVIOUS
  <2>1. PICK k \in 1..N : place[k] = r
    BY <1>4 DEF Surjection
  <2> QED
    BY <1>1, <2>1 DEF place
<1>6. p \in [1..N -> 1..N]
  BY <1>5
<1>7. \A r \in 1..N : count[p[r]] = r - 1
  BY <1>5
<1> HIDE DEF p
<1>8. \A a, b \in 1..N : p[a] = p[b] => a = b
  <2> SUFFICES ASSUME NEW a \in 1..N, NEW b \in 1..N, p[a] = p[b] PROVE a = b
    OBVIOUS
  <2>1. a - 1 = b - 1
    BY <1>7
  <2> QED
    BY <2>1
<1>9. \A k \in 1..N : p[count[k] + 1] = k
  <2> SUFFICES ASSUME NEW k \in 1..N PROVE p[count[k] + 1] = k
    OBVIOUS
  <2>1. count[p[count[k] + 1]] = count[k] /\ p[count[k] + 1] \in 1..N
    BY <1>1, <1>6, <1>7
  <2> QED
    BY <2>1
<1>10. p \in Injection(1..N, 1..N)
  BY <1>6, <1>8 DEF Injection, IsInjective
<1>11. p \in Surjection(1..N, 1..N)
  BY <1>1, <1>6, <1>9 DEF Surjection
<1> QED
  BY <1>10, <1>11 DEF p, Bijection

\* The permutation that sorts: in place r stands the one with r - 1 ahead of it.
Order(N, R) ==
  [r \in 1..N |-> CHOOSE k \in 1..N : Cardinality({j \in 1..N : <<j, k>> \in R}) = r - 1]

\* It is one, for every strict total order.
LEMMA CountingSorts ==
  ASSUME NEW N \in Nat, NEW R,
         \A a, b \in 1..N : a # b => <<a, b>> \in R \/ <<b, a>> \in R,
         \A a \in 1..N : <<a, a>> \notin R,
         \A a, b, c \in 1..N : <<a, b>> \in R /\ <<b, c>> \in R => <<a, c>> \in R
  PROVE  Order(N, R) \in Bijection(1..N, 1..N)
<1> DEFINE D == 1..N
           ahead == [k \in D |-> {j \in D : <<j, k>> \in R}]
           count == [k \in D |-> Cardinality(ahead[k])]
<1>1. IsFiniteSet(D) /\ Cardinality(D) = N
  BY FS_Interval
<1>2. \A k \in D : ahead[k] \in SUBSET D /\ ahead[k] # D
  OBVIOUS
<1>3. \A a, b \in D : a # b =>
         \/ ahead[a] \in SUBSET ahead[b] /\ ahead[a] # ahead[b]
         \/ ahead[b] \in SUBSET ahead[a] /\ ahead[a] # ahead[b]
  <2> SUFFICES ASSUME NEW a \in D, NEW b \in D, <<a, b>> \in R
               PROVE  ahead[a] \in SUBSET ahead[b] /\ ahead[a] # ahead[b]
    OBVIOUS
  <2> QED
    OBVIOUS
<1>4. \A k \in D : count[k] = Cardinality(ahead[k])
  OBVIOUS
<1> HIDE DEF D, ahead
<1>5. \A k \in D : IsFiniteSet(ahead[k]) /\ Cardinality(ahead[k]) <= N /\ Cardinality(ahead[k]) # N
  BY <1>1, <1>2, FS_Subset
<1>6. \A k \in D : Cardinality(ahead[k]) \in Nat
  BY <1>5, FS_CardinalityType
<1>7. count \in [D -> 0..(N - 1)]
  <2>1. \A k \in D : Cardinality(ahead[k]) \in 0..(N - 1)
    BY <1>5, <1>6
  <2> QED
    BY <2>1
<1>8. \A a, b \in D : count[a] = count[b] => a = b
  <2> SUFFICES ASSUME NEW a \in D, NEW b \in D, count[a] = count[b], a # b PROVE FALSE
    OBVIOUS
  <2>1. Cardinality(ahead[a]) # Cardinality(ahead[b])
    BY <1>3, <1>5, FS_Subset
  <2> QED
    BY <1>4, <2>1
<1> HIDE DEF count
<1>9. [r \in 1..N |-> CHOOSE k \in 1..N : count[k] = r - 1] \in Bijection(1..N, 1..N)
  BY <1>7, <1>8, Ranking DEF D
<1>10. \A k \in 1..N : count[k] = Cardinality({j \in 1..N : <<j, k>> \in R})
  BY DEF count, ahead, D
<1> DEFINE P(r) == CHOOSE k \in 1..N : count[k] = r - 1
           Q(r) == CHOOSE k \in 1..N : Cardinality({j \in 1..N : <<j, k>> \in R}) = r - 1
<1>11. \A r \in 1..N : P(r) = Q(r)
  BY <1>10
<1>12. [r \in 1..N |-> P(r)] \in Bijection(1..N, 1..N)
  BY <1>9
<1> HIDE DEF P, Q
<1>13. [r \in 1..N |-> Q(r)] \in Bijection(1..N, 1..N)
  <2>1. [r \in 1..N |-> P(r)] = [r \in 1..N |-> Q(r)]
    BY <1>11
  <2> QED
    BY <1>12, <2>1
<1> QED
  BY <1>13 DEF Q, Order

(***************************************************************************)
(* The lists a tree is made of: each is built in one pass over the         *)
(* objects, and keeps every object once.                                   *)
(***************************************************************************)

\* The objects of a list that are asked for.
Some(list, marks) ==
  FoldLeft(LAMBDA some, m : IF m \in marks THEN Append(some, m) ELSE some, <<>>, list)

\* The list after each of the objects.
Lists(r, list, marks) ==
  /\ r[0] = <<>> /\ r[Len(list)] = Some(list, marks)
  /\ \A i \in 1..Len(list) :
       r[i] = IF list[i] \in marks THEN Append(r[i - 1], list[i]) ELSE r[i - 1]

\* The fold behind a list is such a walk.
LEMMA ListedWalk ==
  ASSUME NEW S, NEW list \in Seq(S), NEW marks
  PROVE  \E r \in [0..Len(list) -> Seq(S)] : Lists(r, list, marks)
<1> DEFINE n == Len(list)
           f == [p \in Seq(S) \X (1..n) |->
                   IF list[p[2]] \in marks THEN Append(p[1], list[p[2]]) ELSE p[1]]
           Fold(g) == g = [u \in SUBSET (DOMAIN list) |->
                             IF u = {} THEN <<>>
                             ELSE IF list[Max(u)] \in marks
                                    THEN Append(g[u \ {Max(u)}], list[Max(u)])
                                    ELSE g[u \ {Max(u)}]]
           h == CHOOSE g : Fold(g)
<1>1. n \in Nat /\ DOMAIN list = 1..n /\ <<>> \in Seq(S) /\ \A i \in 1..n : list[i] \in S
  OBVIOUS
<1>2. Some(list, marks) = h[1..n]
  BY <1>1 DEF Some, FoldLeft, MapThenFoldSet
<1>3. f \in [Seq(S) \X (1..n) -> Seq(S)]
  <2> SUFFICES ASSUME NEW q \in Seq(S), NEW i \in 1..n
               PROVE  (IF list[i] \in marks THEN Append(q, list[i]) ELSE q) \in Seq(S)
    OBVIOUS
  <2> QED
    BY <1>1
<1>4. PICK g \in [SUBSET (1..n) -> Seq(S)] :
        \A u \in SUBSET (1..n) :
          g[u] = IF u = {} THEN <<>> ELSE f[<<g[u \ {Max(u)}], Max(u)>>]
  <2> DEFINE T == Seq(S)
             base == <<>>
  <2>1. n \in Nat /\ base \in T /\ f \in [T \X (1..n) -> T]
    BY <1>1, <1>3
  <2> HIDE DEF f, n, T, base
  <2>2. \E g \in [SUBSET (1..n) -> T] : Walks(g, n, base, f)
    BY <2>1, FoldExists
  <2> QED
    BY <2>2 DEF T, base, Walks
<1>5. Fold(g)
  <2>1. ASSUME NEW u \in SUBSET (1..n), u # {}
        PROVE  g[u] = IF list[Max(u)] \in marks
                                    THEN Append(g[u \ {Max(u)}], list[Max(u)])
                                    ELSE g[u \ {Max(u)}]
    <3>1. Max(u) \in 1..n
      <4>1. u \subseteq 0..n
        OBVIOUS
      <4> HIDE DEF n
      <4>2. Max(u) \in u
        BY <1>1, <2>1, <4>1, MaxIsGreatest
      <4> QED
        BY <4>2
    <3>2. g[u \ {Max(u)}] \in Seq(S)
      BY <1>4
    <3>3. g[u] = f[<<g[u \ {Max(u)}], Max(u)>>]
      BY <1>4, <2>1
    <3> QED
      BY <3>1, <3>2, <3>3
  <2>2. \A u \in SUBSET (1..n) :
          g[u] = IF u = {} THEN <<>>
                             ELSE IF list[Max(u)] \in marks
                                    THEN Append(g[u \ {Max(u)}], list[Max(u)])
                                    ELSE g[u \ {Max(u)}]
    BY <1>4, <2>1
  <2> QED
    BY <1>1, <1>4, <2>2
<1>6. Fold(h)
  <2> HIDE DEF Fold
  <2> QED
    BY <1>5
<1> HIDE DEF h, n
<1>7. \A u \in SUBSET (1..n) :
        h[u] = IF u = {} THEN <<>>
                             ELSE IF list[Max(u)] \in marks
                                    THEN Append(h[u \ {Max(u)}], list[Max(u)])
                                    ELSE h[u \ {Max(u)}]
  BY <1>1, <1>6
<1> DEFINE r == [i \in 0..n |-> h[1..i]]
<1>8. r[0] = <<>>
  <2>1. 1..0 = {} /\ 0 \in 0..n
    BY <1>1
  <2> QED
    BY <1>7, <2>1
<1>9. ASSUME NEW i \in 1..n
      PROVE  r[i] = IF list[i] \in marks THEN Append(r[i - 1], list[i]) ELSE r[i - 1]
  <2>1. 1..i \in SUBSET (1..n) /\ 1..i # {} /\ Max(1..i) = i /\ (1..i) \ {i} = 1..(i - 1)
    BY <1>1, FoldSteps
  <2>2. r[i] = h[1..i] /\ r[i - 1] = h[1..(i - 1)]
    BY <1>1
  <2> HIDE DEF r
  <2> QED
    BY <1>7, <2>1, <2>2
<1>10. r \in [0..n -> Seq(S)]
  <2> DEFINE C == {i \in 0..n : r[i] \in Seq(S)}
  <2>1. 0 \in C
    <3> HIDE DEF r
    <3>1. 0 \in 0..n /\ r[0] \in Seq(S)
      BY <1>1, <1>8
    <3> QED
      BY <3>1
  <2>2. ASSUME NEW i \in 1..n, i - 1 \in C PROVE i \in C
    <3> DEFINE q == r[i - 1]
               x == list[i]
    <3>1. r[i] = q \/ r[i] = Append(q, x)
      BY <1>9
    <3>2. q \in Seq(S) /\ x \in S /\ i \in 0..n
      BY <1>1, <2>2
    <3> HIDE DEF q, x, r
    <3>3. Append(q, x) \in Seq(S)
      BY <3>2
    <3> QED
      BY <3>1, <3>2, <3>3
  <2> HIDE DEF C
  <2>3. 0..n \subseteq C
    BY <1>1, <2>1, <2>2, UpTo
  <2> QED
    BY <2>3 DEF C
<1>11. r[n] = Some(list, marks)
  BY <1>1, <1>2
<1> QED
  BY <1>8, <1>9, <1>10, <1>11 DEF n, Lists

\* No element appears twice.
OnceEach(q) == \A j, k \in DOMAIN q : q[j] = q[k] => j = k

\* One more at the end.
LEMMA Appended ==
  ASSUME NEW S, NEW q \in Seq(S), NEW x \in S
  PROVE  /\ Append(q, x) \in Seq(S)
         /\ ToSet(Append(q, x)) = ToSet(q) \cup {x}
         /\ OnceEach(q) /\ x \notin ToSet(q) => OnceEach(Append(q, x))
<1> DEFINE a == Append(q, x)
<1>1. a \in Seq(S) /\ Len(q) \in Nat /\ DOMAIN q = 1..Len(q) /\ DOMAIN a = 1..(Len(q) + 1)
  OBVIOUS
<1>2. a[Len(q) + 1] = x /\ \A k \in 1..Len(q) : a[k] = q[k]
  OBVIOUS
<1> HIDE DEF a
<1>3. DOMAIN a = DOMAIN q \cup {Len(q) + 1}
  BY <1>1
<1>4. ToSet(a) = ToSet(q) \cup {x}
  BY <1>1, <1>2, <1>3 DEF ToSet
<1>5. ASSUME OnceEach(q), x \notin ToSet(q) PROVE OnceEach(a)
  BY <1>1, <1>2, <1>3, <1>5 DEF OnceEach, ToSet
<1> QED
  BY <1>1, <1>4, <1>5 DEF a

\* It has the objects that are asked for, each once if the list has.
LEMMA SomeFacts ==
  ASSUME NEW S, NEW list \in Seq(S), NEW marks
  PROVE  /\ Some(list, marks) \in Seq(S)
         /\ ToSet(Some(list, marks)) = ToSet(list) \cap marks
         /\ OnceEach(list) => OnceEach(Some(list, marks))
<1> DEFINE n == Len(list)
           first(i) == {list[k] : k \in 1..i}
<1>1. n \in Nat /\ DOMAIN list = 1..n /\ \A i \in 1..n : list[i] \in S
  OBVIOUS
<1>0. PICK r \in [0..n -> Seq(S)] : Lists(r, list, marks)
  BY ListedWalk
<1>2. /\ r[0] = <<>> /\ r[n] = Some(list, marks)
      /\ \A i \in 1..n :
           r[i] = IF list[i] \in marks THEN Append(r[i - 1], list[i]) ELSE r[i - 1]
  BY <1>0 DEF Lists
<1> DEFINE C == {i \in 0..n : /\ ToSet(r[i]) = first(i) \cap marks
                              /\ OnceEach(list) => OnceEach(r[i])}
<1>3. 0 \in C
  BY <1>1, <1>2 DEF ToSet, OnceEach
<1>4. ASSUME NEW i \in 1..n, i - 1 \in C PROVE i \in C
  <2> DEFINE q == r[i - 1]
             x == list[i]
  <2>0. i - 1 \in 0..n /\ i \in 0..n /\ q \in Seq(S) /\ x \in S
    BY <1>1
  <2>1. ToSet(q) = first(i - 1) \cap marks /\ (OnceEach(list) => OnceEach(q))
    <3> HIDE DEF first, n
    <3> QED
      BY <1>4
  <2>2. r[i] = IF x \in marks THEN Append(q, x) ELSE q
    BY <1>2
  <2>3. first(i) = first(i - 1) \cup {x}
    <3>1. 1..i = 1..(i - 1) \cup {i}
      OBVIOUS
    <3> QED
      BY <3>1
  <2>4. ASSUME OnceEach(list) PROVE x \notin first(i - 1)
    <3>1. \A k \in 1..(i - 1) : k \in DOMAIN list /\ i \in DOMAIN list /\ k # i
      BY <1>1
    <3> HIDE DEF C
    <3> QED
      BY <2>4, <3>1 DEF OnceEach
  <2> HIDE DEF first, q, x
  <2>5. /\ ToSet(Append(q, x)) = ToSet(q) \cup {x}
        /\ OnceEach(q) /\ x \notin ToSet(q) => OnceEach(Append(q, x))
    BY <2>0, Appended
  <2>6. ToSet(r[i]) = first(i) \cap marks
    BY <2>1, <2>2, <2>3, <2>5
  <2>7. ASSUME OnceEach(list) PROVE OnceEach(r[i])
    BY <2>1, <2>2, <2>4, <2>5, <2>7
  <2> QED
    BY <2>0, <2>6, <2>7
<1>5. n \in C
  <2> HIDE DEF C
  <2>1. 0..n \subseteq C
    BY <1>1, <1>3, <1>4, UpTo
  <2> QED
    BY <1>1, <2>1
<1>6. first(n) = ToSet(list)
  BY <1>1 DEF ToSet
<1> QED
  BY <1>2, <1>5, <1>6

\* Listed lists the objects asked for, each once.
LEMMA ListedFacts ==
  ASSUME NEW S, NEW s, s.list \in Seq(S), NEW marks
  PROVE  /\ Listed(s, marks) \in Seq(S)
         /\ ToSet(Listed(s, marks)) = Objects(s) \cap marks
         /\ OnceEach(s.list) => OnceEach(Listed(s, marks))
<1> DEFINE list == s.list
<1>1. Listed(s, marks) = Some(list, marks) /\ Objects(s) = ToSet(list) /\ list \in Seq(S)
  BY DEF Listed, Some, Objects
<1> HIDE DEF list
<1> QED
  BY <1>1, SomeFacts DEF list

\* The children of a project: the service or the leaf of each object, once.
Placed(s, list) == FoldLeft(LAMBDA kids, m : Added(kids, Place(s, m)), <<>>, list)

\* The children after each of the objects.
PlacesInTurn(r, list, s) ==
  /\ r[0] = <<>> /\ r[Len(list)] = Placed(s, list)
  /\ \A i \in 1..Len(list) : r[i] = Added(r[i - 1], Place(s, list[i]))

\* The fold behind them is such a walk.
LEMMA PlacedWalk ==
  ASSUME NEW S, NEW list \in Seq(S), NEW s, NEW P, \A m \in S : Place(s, m) \in P
  PROVE  \E r \in [0..Len(list) -> Seq(P)] : PlacesInTurn(r, list, s)
<1> DEFINE n == Len(list)
           f == [p \in Seq(P) \X (1..n) |->
                   Added(p[1], Place(s, list[p[2]]))]
           Fold(g) == g = [u \in SUBSET (DOMAIN list) |->
                             IF u = {} THEN <<>>
                             ELSE Added(g[u \ {Max(u)}], Place(s, list[Max(u)]))]
           h == CHOOSE g : Fold(g)
<1>1. n \in Nat /\ DOMAIN list = 1..n /\ <<>> \in Seq(P) /\ \A i \in 1..n : list[i] \in S
  OBVIOUS
<1>2. Placed(s, list) = h[1..n]
  BY <1>1 DEF Placed, FoldLeft, MapThenFoldSet
<1>3. f \in [Seq(P) \X (1..n) -> Seq(P)]
  <2> SUFFICES ASSUME NEW q \in Seq(P), NEW i \in 1..n
               PROVE  Added(q, Place(s, list[i])) \in Seq(P)
    OBVIOUS
  <2>1. Place(s, list[i]) \in P
    BY <1>1
  <2> QED
    BY <2>1 DEF Added
<1>4. PICK g \in [SUBSET (1..n) -> Seq(P)] :
        \A u \in SUBSET (1..n) :
          g[u] = IF u = {} THEN <<>> ELSE f[<<g[u \ {Max(u)}], Max(u)>>]
  <2> DEFINE T == Seq(P)
             base == <<>>
  <2>1. n \in Nat /\ base \in T /\ f \in [T \X (1..n) -> T]
    BY <1>1, <1>3
  <2> HIDE DEF f, n, T, base
  <2>2. \E g \in [SUBSET (1..n) -> T] : Walks(g, n, base, f)
    BY <2>1, FoldExists
  <2> QED
    BY <2>2 DEF T, base, Walks
<1>5. Fold(g)
  <2>1. ASSUME NEW u \in SUBSET (1..n), u # {}
        PROVE  g[u] = Added(g[u \ {Max(u)}], Place(s, list[Max(u)]))
    <3>1. Max(u) \in 1..n
      <4>1. u \subseteq 0..n
        OBVIOUS
      <4> HIDE DEF n
      <4>2. Max(u) \in u
        BY <1>1, <2>1, <4>1, MaxIsGreatest
      <4> QED
        BY <4>2
    <3>2. g[u \ {Max(u)}] \in Seq(P)
      BY <1>4
    <3>3. g[u] = f[<<g[u \ {Max(u)}], Max(u)>>]
      BY <1>4, <2>1
    <3> QED
      BY <3>1, <3>2, <3>3
  <2>2. \A u \in SUBSET (1..n) :
          g[u] = IF u = {} THEN <<>>
                             ELSE Added(g[u \ {Max(u)}], Place(s, list[Max(u)]))
    BY <1>4, <2>1
  <2> QED
    BY <1>1, <1>4, <2>2
<1>6. Fold(h)
  <2> HIDE DEF Fold
  <2> QED
    BY <1>5
<1> HIDE DEF h, n
<1>7. \A u \in SUBSET (1..n) :
        h[u] = IF u = {} THEN <<>>
                             ELSE Added(h[u \ {Max(u)}], Place(s, list[Max(u)]))
  BY <1>1, <1>6
<1> DEFINE r == [i \in 0..n |-> h[1..i]]
<1>8. r[0] = <<>>
  <2>1. 1..0 = {} /\ 0 \in 0..n
    BY <1>1
  <2> QED
    BY <1>7, <2>1
<1>9. ASSUME NEW i \in 1..n
      PROVE  r[i] = Added(r[i - 1], Place(s, list[i]))
  <2>1. 1..i \in SUBSET (1..n) /\ 1..i # {} /\ Max(1..i) = i /\ (1..i) \ {i} = 1..(i - 1)
    BY <1>1, FoldSteps
  <2>2. r[i] = h[1..i] /\ r[i - 1] = h[1..(i - 1)]
    BY <1>1
  <2> HIDE DEF r
  <2> QED
    BY <1>7, <2>1, <2>2
<1>10. r \in [0..n -> Seq(P)]
  <2> DEFINE C == {i \in 0..n : r[i] \in Seq(P)}
  <2>1. 0 \in C
    <3> HIDE DEF r
    <3>1. 0 \in 0..n /\ r[0] \in Seq(P)
      BY <1>1, <1>8
    <3> QED
      BY <3>1
  <2>2. ASSUME NEW i \in 1..n, i - 1 \in C PROVE i \in C
    <3> DEFINE q == r[i - 1]
               x == Place(s, list[i])
    <3>1. r[i] = q \/ r[i] = Append(q, x)
      BY <1>9 DEF Added
    <3>2. q \in Seq(P) /\ x \in P /\ i \in 0..n
      BY <1>1, <2>2
    <3> HIDE DEF q, x, r
    <3>3. Append(q, x) \in Seq(P)
      BY <3>2
    <3> QED
      BY <3>1, <3>2, <3>3
  <2> HIDE DEF C
  <2>3. 0..n \subseteq C
    BY <1>1, <2>1, <2>2, UpTo
  <2> QED
    BY <2>3 DEF C
<1>11. r[n] = Placed(s, list)
  BY <1>1, <1>2
<1> QED
  BY <1>8, <1>9, <1>10, <1>11 DEF n, PlacesInTurn

\* They are the places of all the objects, each once.
LEMMA PlacedFacts ==
  ASSUME NEW S, NEW list \in Seq(S), NEW s, NEW P, \A m \in S : Place(s, m) \in P
  PROVE  /\ Placed(s, list) \in Seq(P)
         /\ ToSet(Placed(s, list)) = {Place(s, m) : m \in ToSet(list)}
         /\ OnceEach(Placed(s, list))
<1> DEFINE n == Len(list)
           first(i) == {Place(s, list[k]) : k \in 1..i}
<1>1. n \in Nat /\ DOMAIN list = 1..n /\ \A i \in 1..n : list[i] \in S
  OBVIOUS
<1>0. PICK r \in [0..n -> Seq(P)] : PlacesInTurn(r, list, s)
  BY PlacedWalk
<1>2. /\ r[0] = <<>> /\ r[n] = Placed(s, list)
      /\ \A i \in 1..n : r[i] = Added(r[i - 1], Place(s, list[i]))
  BY <1>0 DEF PlacesInTurn
<1> DEFINE C == {i \in 0..n : ToSet(r[i]) = first(i) /\ OnceEach(r[i])}
<1>3. 0 \in C
  BY <1>1, <1>2 DEF ToSet, OnceEach
<1>4. ASSUME NEW i \in 1..n, i - 1 \in C PROVE i \in C
  <2> DEFINE q == r[i - 1]
             x == Place(s, list[i])
  <2>0. i - 1 \in 0..n /\ i \in 0..n /\ q \in Seq(P) /\ x \in P
    <3> HIDE DEF n, first, C
    <3>1. i - 1 \in 0..n /\ i \in 0..n
      BY <1>1
    <3>2. list[i] \in S
      BY <1>1
    <3> QED
      BY <3>1, <3>2
  <2>1. ToSet(q) = first(i - 1) /\ OnceEach(q)
    <3> HIDE DEF first, n
    <3> QED
      BY <1>4
  <2>2. r[i] = Added(q, x)
    BY <1>2
  <2>3. first(i) = first(i - 1) \cup {x}
    <3>1. 1..i = 1..(i - 1) \cup {i}
      OBVIOUS
    <3> QED
      BY <3>1
  <2> HIDE DEF first, q, x
  <2>4. /\ ToSet(Append(q, x)) = ToSet(q) \cup {x}
        /\ OnceEach(q) /\ x \notin ToSet(q) => OnceEach(Append(q, x))
    BY <2>0, Appended
  <2>5. Contains(q, x) <=> x \in ToSet(q)
    BY <2>0 DEF Contains, ToSet
  <2>6. ToSet(r[i]) = first(i) /\ OnceEach(r[i])
    BY <2>1, <2>2, <2>3, <2>4, <2>5 DEF Added
  <2> QED
    BY <2>0, <2>6
<1>5. n \in C
  <2> HIDE DEF C
  <2>1. 0..n \subseteq C
    BY <1>1, <1>3, <1>4, UpTo
  <2> QED
    BY <1>1, <2>1
<1>6. first(n) = {Place(s, m) : m \in ToSet(list)}
  BY <1>1 DEF ToSet
<1> QED
  BY <1>2, <1>5, <1>6

(***************************************************************************)
(* What buildTree makes of a snapshot, whatever order the projects come    *)
(* in: every inner node, and under each the children that the snapshot     *)
(* asks for, once.                                                         *)
(***************************************************************************)

\* What the layout by type has a bucket for.
Buckets == Kinds \cup {"log_file"}

\* The nodes that may have children.
Inner(s, view) ==
  IF view = "type" THEN {Root("type")} \cup {Bucket(k) : k \in Buckets}
  ELSE {Root("project")} \cup {ProjectNode(p) : p \in Projects(s)} \cup Services(s)

\* The containers whose log takes space, and the nodes of the logs.
Logs(s) == {m \in Objects(s) : m.kind = "container" /\ s.container[m.id].log > 0}
Logged(m) == Node("log_file", m.id)

\* The children of a node, in no order.
Under(s, view, n) ==
  IF view = "type"
    THEN CASE n = Root("type") -> {Bucket(k) : k \in Buckets}
           [] n = Bucket("log_file") -> {Logged(m) : m \in Logs(s)}
           [] OTHER -> {Leaf(m) : m \in {o \in Objects(s) : o.kind = n.id}}
    ELSE CASE n.kind = "root" -> {ProjectNode(p) : p \in Projects(s)}
                \cup (IF s.layers > ImagesExclusive(s) THEN {SharedLayers} ELSE {})
           [] n.kind = "project" ->
                {Place(s, m) : m \in {o \in Objects(s) : ProjectOf(s, o) = n.id}}
           [] OTHER -> {Leaf(m) : m \in {o \in Objects(s) : InService(s, o) /\ Place(s, o) = n}}

\* A tree shows the snapshot in a layout, in some order.
Shows(s, view, t) ==
  /\ DOMAIN t = Inner(s, view)
  /\ \A n \in DOMAIN t : /\ t[n] \in Seq(Under(s, view, n))
                         /\ ToSet(t[n]) = Under(s, view, n)
                         /\ OnceEach(t[n])

\* The objects that a snapshot knows by an ID.
AllMarks(s) == UNION {{Mark(kind, id) : id \in DOMAIN s[kind]} : kind \in Kinds}

\* The list of a snapshot names them all, each once.
LEMMA SnapshotFacts ==
  ASSUME NEW s \in ToSet(Snapshots)
  PROVE  /\ s.list \in Seq(AllMarks(s)) /\ OnceEach(s.list)
         /\ Objects(s) = AllMarks(s) /\ IsFiniteSet(Objects(s))
<1>1. s.list \in Seq(AllMarks(s)) /\ OnceEach(s.list)
  BY SnapshotsAssumption DEF AllMarks, OnceEach
<1>2. Objects(s) \subseteq AllMarks(s)
  BY <1>1 DEF Objects, ToSet
<1>3. AllMarks(s) \subseteq Objects(s)
  <2> SUFFICES ASSUME NEW kind \in Kinds, NEW id \in DOMAIN s[kind]
               PROVE  Mark(kind, id) \in Objects(s)
    BY DEF AllMarks
  <2>1. \E k \in DOMAIN s.list : s.list[k] = Mark(kind, id)
    BY SnapshotsAssumption
  <2> QED
    BY <2>1 DEF Objects, ToSet
<1>4. IsFiniteSet(Objects(s))
  <2> DEFINE D == DOMAIN s.list
             f == [k \in D |-> s.list[k]]
  <2>1. IsFiniteSet(D)
    <3>1. D = 1..Len(s.list) /\ Len(s.list) \in Nat
      BY <1>1
    <3> QED
      BY <3>1, FS_Interval
  <2>2. f \in Surjection(D, Objects(s))
    BY DEF Surjection, Objects, ToSet
  <2> HIDE DEF D, f
  <2> QED
    BY <2>1, <2>2, FS_Surjection
<1> QED
  BY <1>1, <1>2, <1>3, <1>4

\* As many leaves as there are marks.
LEMMA LeavesFacts ==
  ASSUME NEW S, NEW marks \in Seq(S), OnceEach(marks), \A m \in S : m = Mark(m.kind, m.id)
  PROVE  /\ Leaves(marks) \in Seq({Leaf(m) : m \in ToSet(marks)})
         /\ ToSet(Leaves(marks)) = {Leaf(m) : m \in ToSet(marks)}
         /\ OnceEach(Leaves(marks))
<1>1. /\ DOMAIN marks = 1..Len(marks) /\ Len(marks) \in Nat
      /\ \A k \in DOMAIN marks : marks[k] \in S /\ marks[k] \in ToSet(marks)
  BY DEF ToSet
<1>2. Leaves(marks) = [k \in 1..Len(marks) |-> Leaf(marks[k])]
  BY <1>1 DEF Leaves
<1>3. Leaves(marks) \in Seq({Leaf(m) : m \in ToSet(marks)})
  BY <1>1, <1>2
<1>4. ToSet(Leaves(marks)) = {Leaf(m) : m \in ToSet(marks)}
  BY <1>1, <1>2 DEF ToSet
<1>5. OnceEach(Leaves(marks))
  <2>1. \A a, b \in S : Leaf(a) = Leaf(b) => a = b
    BY DEF Leaf, Node, Mark
  <2> QED
    BY <1>1, <1>2, <2>1 DEF OnceEach
<1> QED
  BY <1>3, <1>4, <1>5

\* A list of some objects of a snapshot.
LEMMA ListsOf ==
  ASSUME NEW s \in ToSet(Snapshots), NEW marks
  PROVE  /\ Listed(s, marks) \in Seq(AllMarks(s))
         /\ ToSet(Listed(s, marks)) = Objects(s) \cap marks
         /\ OnceEach(Listed(s, marks))
<1> DEFINE S == AllMarks(s)
<1>1. s.list \in Seq(S) /\ OnceEach(s.list)
  BY SnapshotFacts
<1> HIDE DEF S
<1> QED
  BY <1>1, ListedFacts DEF S

\* An object is known by its kind and its ID.
LEMMA MarksAre ==
  ASSUME NEW s \in ToSet(Snapshots)
  PROVE  \A m \in Objects(s) : m.kind \in Kinds /\ m.id \in DOMAIN s[m.kind] /\ m = Mark(m.kind, m.id)
<1>1. \A m \in AllMarks(s) : m.kind \in Kinds /\ m.id \in DOMAIN s[m.kind] /\ m = Mark(m.kind, m.id)
  BY DEF AllMarks, Mark
<1> QED
  BY <1>1, SnapshotFacts

\* The leaves of some objects of a snapshot.
LEMMA LeavesListed ==
  ASSUME NEW s \in ToSet(Snapshots), NEW marks
  PROVE  LET leaves == {Leaf(m) : m \in Objects(s) \cap marks}
         IN /\ Leaves(Listed(s, marks)) \in Seq(leaves)
            /\ ToSet(Leaves(Listed(s, marks))) = leaves
            /\ OnceEach(Leaves(Listed(s, marks)))
<1> DEFINE S == AllMarks(s)
           some == Listed(s, marks)
<1>1. some \in Seq(S) /\ ToSet(some) = Objects(s) \cap marks /\ OnceEach(some)
  BY ListsOf
<1>2. \A m \in S : m = Mark(m.kind, m.id)
  BY DEF AllMarks, Mark
<1> HIDE DEF S, some
<1>3. /\ Leaves(some) \in Seq({Leaf(m) : m \in ToSet(some)})
      /\ ToSet(Leaves(some)) = {Leaf(m) : m \in ToSet(some)}
      /\ OnceEach(Leaves(some))
  BY <1>1, <1>2, LeavesFacts
<1> QED
  BY <1>1, <1>3 DEF some

\* The tree by type shows the snapshot.
LEMMA TypeShows ==
  ASSUME NEW s \in ToSet(Snapshots)
  PROVE  Shows(s, "type", ByType(s))
<1> DEFINE t == ByType(s)
           buckets == <<"image", "container", "volume", "build_cache", "log_file">>
           logs == Listed(s, Logs(s))
<1>1. ToSet(buckets) = Buckets
  BY DEF ToSet, Buckets, Kinds
<1>2. t = [n \in Inner(s, "type") |->
             CASE n = Root("type") -> [b \in DOMAIN buckets |-> Bucket(buckets[b])]
               [] n = Bucket("log_file") -> [k \in DOMAIN logs |-> Node("log_file", logs[k].id)]
               [] OTHER -> Leaves(Listed(s, {m \in Objects(s) : m.kind = n.id}))]
  BY <1>1 DEF ByType, Inner, Logs
<1>4. ASSUME NEW n \in Inner(s, "type"), n = Root("type")
      PROVE  /\ t[n] \in Seq(Under(s, "type", n)) /\ ToSet(t[n]) = Under(s, "type", n)
             /\ OnceEach(t[n])
  <2>0. Bucket("log_file") # Root("type")
    BY DEF Bucket, Root, Node
  <2>1. t[n] = [b \in 1..5 |-> Bucket(buckets[b])]
    BY <1>2, <1>4, <2>0
  <2>2. Under(s, "type", n) = {Bucket(k) : k \in Buckets}
    BY <1>4, <2>0 DEF Under
  <2>3. \A b \in 1..5 : buckets[b] \in Buckets
    BY DEF Buckets, Kinds
  <2>4. \A k \in Buckets : \E b \in 1..5 : buckets[b] = k
    BY DEF Buckets, Kinds
  <2>5. \A a, b \in 1..5 : buckets[a] = buckets[b] => a = b
    OBVIOUS
  <2>6. \A j, k : Bucket(j) = Bucket(k) => j = k
    BY DEF Bucket, Node
  <2> HIDE DEF buckets, t
  <2>7. t[n] \in Seq(Under(s, "type", n))
    BY <2>1, <2>2, <2>3
  <2>8. ToSet(t[n]) = Under(s, "type", n)
    BY <2>1, <2>2, <2>3, <2>4 DEF ToSet
  <2>9. OnceEach(t[n])
    BY <2>1, <2>3, <2>5, <2>6 DEF OnceEach
  <2> QED
    BY <2>7, <2>8, <2>9
<1>5. ASSUME NEW n \in Inner(s, "type"), n = Bucket("log_file")
      PROVE  /\ t[n] \in Seq(Under(s, "type", n)) /\ ToSet(t[n]) = Under(s, "type", n)
             /\ OnceEach(t[n])
  <2>0. Bucket("log_file") # Root("type")
    BY DEF Bucket, Root, Node
  <2>1. t[n] = [k \in DOMAIN logs |-> Logged(logs[k])]
    BY <1>2, <1>5, <2>0 DEF Logged
  <2>2. Under(s, "type", n) = {Logged(m) : m \in Logs(s)}
    BY <1>5, <2>0 DEF Under
  <2>3. logs \in Seq(AllMarks(s)) /\ ToSet(logs) = Logs(s) /\ OnceEach(logs)
    <3>1. Objects(s) \cap Logs(s) = Logs(s)
      BY DEF Logs
    <3> QED
      BY <3>1, ListsOf
  <2>4. \A a, b \in Logs(s) : Logged(a) = Logged(b) => a = b
    <3>1. \A m \in Objects(s) : m = Mark(m.kind, m.id)
      BY MarksAre
    <3> QED
      BY <3>1 DEF Logs, Logged, Node, Mark
  <2> HIDE DEF logs, t
  <2>5. DOMAIN logs = 1..Len(logs) /\ Len(logs) \in Nat /\ \A k \in DOMAIN logs : logs[k] \in Logs(s)
    BY <2>3 DEF ToSet
  <2>6. t[n] \in Seq(Under(s, "type", n))
    BY <2>1, <2>2, <2>5
  <2>7. ToSet(t[n]) = Under(s, "type", n)
    BY <2>1, <2>2, <2>3, <2>5 DEF ToSet
  <2>8. OnceEach(t[n])
    BY <2>1, <2>3, <2>4, <2>5 DEF OnceEach
  <2> QED
    BY <2>6, <2>7, <2>8
<1>6. ASSUME NEW n \in Inner(s, "type"), n # Root("type"), n # Bucket("log_file")
      PROVE  /\ t[n] \in Seq(Under(s, "type", n)) /\ ToSet(t[n]) = Under(s, "type", n)
             /\ OnceEach(t[n])
  <2> DEFINE marks == {m \in Objects(s) : m.kind = n.id}
  <2>1. t[n] = Leaves(Listed(s, marks))
    BY <1>2, <1>6
  <2>2. Objects(s) \cap marks = marks
    OBVIOUS
  <2>3. Under(s, "type", n) = {Leaf(m) : m \in marks}
    BY <1>6 DEF Under
  <2> HIDE DEF marks, t
  <2> QED
    BY <2>1, <2>2, <2>3, LeavesListed
<1>7. DOMAIN t = Inner(s, "type")
  BY <1>2
<1> HIDE DEF t
<1> QED
  BY <1>4, <1>5, <1>6, <1>7 DEF Shows, t

\* What SetToSeqs enumerates are orders of the set.
LEMMA ProjectOrder ==
  ASSUME NEW S, IsFiniteSet(S), NEW order \in SetToSeqs(S)
  PROVE  order \in Seq(S) /\ ToSet(order) = S /\ OnceEach(order)
<1> DEFINE N == Cardinality(S)
           D == 1..N
<1>1. N \in Nat /\ IsFiniteSet(D) /\ Cardinality(D) = N
  BY FS_CardinalityType, FS_Interval
<1>2. order \in [D -> S] /\ \A i, j \in D : i # j => order[i] # order[j]
  BY DEF SetToSeqs
<1>3. order \in Injection(D, S)
  BY <1>2 DEF Injection, IsInjective
<1>4. order \in Surjection(D, S)
  <2> HIDE DEF D
  <2> QED
    BY <1>1, <1>3, FS_Injection
<1>5. order \in Seq(S) /\ DOMAIN order = D
  BY <1>1, <1>2
<1>6. ToSet(order) = S
  BY <1>2, <1>4, <1>5 DEF Surjection, ToSet
<1>7. OnceEach(order)
  BY <1>2, <1>5 DEF OnceEach
<1> QED
  BY <1>5, <1>6, <1>7

\* There are finitely many projects.
LEMMA ProjectsFinite ==
  ASSUME NEW s \in ToSet(Snapshots)
  PROVE  IsFiniteSet(Projects(s))
<1> DEFINE O == Objects(s)
           P == {ProjectOf(s, m) : m \in O}
           f == [m \in O |-> ProjectOf(s, m)]
<1>1. IsFiniteSet(O)
  BY SnapshotFacts
<1>2. f \in Surjection(O, P)
  BY DEF Surjection
<1> HIDE DEF O, P, f
<1>3. IsFiniteSet(P)
  BY <1>1, <1>2, FS_Surjection
<1>4. IsFiniteSet(P \cup {"<orphan>"})
  BY <1>3, FS_AddElement
<1> QED
  BY <1>4 DEF Projects, P, O

\* One more in front.
LEMMA InFront ==
  ASSUME NEW S, NEW q \in Seq(S), OnceEach(q), NEW x, x \notin ToSet(q)
  PROVE  /\ <<x>> \o q \in Seq(ToSet(q) \cup {x})
         /\ ToSet(<<x>> \o q) = ToSet(q) \cup {x}
         /\ OnceEach(<<x>> \o q)
<1> DEFINE a == <<x>> \o q
<1>1. DOMAIN q = 1..Len(q) /\ Len(q) \in Nat /\ \A k \in 1..Len(q) : q[k] \in S /\ q[k] \in ToSet(q)
  BY DEF ToSet
<1>2. /\ a \in Seq(S \cup {x}) /\ Len(a) = 1 + Len(q) /\ DOMAIN a = 1..(1 + Len(q)) /\ a[1] = x
      /\ \A k \in 2..(1 + Len(q)) : a[k] = q[k - 1]
  OBVIOUS
<1> HIDE DEF a
<1>3. \A k \in DOMAIN a : \/ a[k] = x /\ k = 1
                          \/ k # 1 /\ k - 1 \in 1..Len(q) /\ a[k] = q[k - 1]
  BY <1>1, <1>2
<1>4. a \in Seq(ToSet(q) \cup {x})
  <2>1. \A k \in 1..Len(a) : a[k] \in ToSet(q) \cup {x}
    BY <1>1, <1>2, <1>3
  <2> QED
    BY <1>2, <2>1
<1>5. ToSet(a) = ToSet(q) \cup {x}
  <2>1. \A k \in 1..Len(q) : k + 1 \in DOMAIN a /\ a[k + 1] = q[k]
    BY <1>1, <1>2
  <2>2. 1 \in DOMAIN a
    BY <1>1, <1>2
  <2>3. ToSet(a) \subseteq ToSet(q) \cup {x}
    BY <1>1, <1>3 DEF ToSet
  <2>4. ToSet(q) \subseteq ToSet(a)
    BY <1>1, <2>1 DEF ToSet
  <2>5. x \in ToSet(a)
    BY <1>2, <2>2 DEF ToSet
  <2> QED
    BY <2>3, <2>4, <2>5
<1>6. OnceEach(a)
  <2> SUFFICES ASSUME NEW j \in DOMAIN a, NEW k \in DOMAIN a, a[j] = a[k] PROVE j = k
    BY DEF OnceEach
  <2>1. j \in Int /\ k \in Int
    BY <1>1, <1>2
  <2> QED
    BY <1>1, <1>3, <2>1 DEF OnceEach
<1> QED
  BY <1>4, <1>5, <1>6 DEF a

\* The tree by project shows the snapshot, in whatever order the map of the
\* projects is walked.
LEMMA ProjectShows ==
  ASSUME NEW s \in ToSet(Snapshots), NEW order \in SetToSeqs(Projects(s))
  PROVE  Shows(s, "project", ByProject(s, order))
<1> DEFINE t == ByProject(s, order)
           Fits(n) == /\ t[n] \in Seq(Under(s, "project", n))
                      /\ ToSet(t[n]) = Under(s, "project", n) /\ OnceEach(t[n])
           first == IF s.layers > ImagesExclusive(s) THEN <<SharedLayers>> ELSE <<>>
           rest == [k \in DOMAIN order |-> ProjectNode(order[k])]
<1>1. t = [n \in Inner(s, "project") |->
     CASE n = Root("project") -> first \o rest
       [] n.kind = "project" ->
            ProjectKids(s, CHOOSE p \in Projects(s) : n = ProjectNode(p))
       [] n.kind = "service" ->
            Leaves(Listed(s, {m \in Objects(s) : InService(s, m) /\ Place(s, m) = n}))]
  BY DEF ByProject, Inner
<1>2. DOMAIN t = Inner(s, "project")
  BY <1>1
<1>3. \A n \in Inner(s, "project") :
        \/ n = Root("project") /\ n.kind = "root"
        \/ n # Root("project") /\ n.kind = "project" /\ n.id \in Projects(s) /\ n = ProjectNode(n.id)
        \/ n # Root("project") /\ n.kind = "service" /\ n \in Services(s)
  <2> SUFFICES ASSUME NEW n \in Inner(s, "project")
               PROVE  \/ n = Root("project") /\ n.kind = "root"
                      \/ n # Root("project") /\ n.kind = "project" /\ n.id \in Projects(s)
                           /\ n = ProjectNode(n.id)
                      \/ n # Root("project") /\ n.kind = "service" /\ n \in Services(s)
    OBVIOUS
  <2>1. Root("project").kind = "root"
    BY DEF Root, Node
  <2>2. CASE n \in {ProjectNode(p) : p \in Projects(s)}
    BY <2>1, <2>2 DEF ProjectNode
  <2>3. CASE n \in Services(s)
    <3>1. n.kind = "service"
      BY <2>3 DEF Services, Place, ServiceNode
    <3> QED
      BY <2>1, <2>3, <3>1
  <2> QED
    BY <2>1, <2>2, <2>3 DEF Inner
<1>4. ASSUME NEW n \in Inner(s, "project"), n = Root("project") PROVE Fits(n)
  <2>0. n.kind = "root"
    BY <1>4 DEF Root, Node
  <2>1. t[n] = first \o rest
    BY <1>1, <1>4, <2>0
  <2>2. order \in Seq(Projects(s)) /\ ToSet(order) = Projects(s) /\ OnceEach(order)
    BY ProjectsFinite, ProjectOrder
  <2>3. /\ DOMAIN order = 1..Len(order) /\ Len(order) \in Nat
        /\ \A k \in DOMAIN order : order[k] \in Projects(s)
    BY <2>2
  <2> DEFINE nodes == {ProjectNode(p) : p \in Projects(s)}
  <2>4. rest \in Seq(nodes) /\ DOMAIN rest = DOMAIN order
    BY <2>3
  <2>5. ToSet(rest) = nodes
    BY <2>2, <2>3 DEF ToSet
  <2>6. OnceEach(rest)
    <3>1. \A p, q : ProjectNode(p) = ProjectNode(q) => p = q
      BY DEF ProjectNode
    <3> QED
      BY <2>2, <3>1 DEF OnceEach
  <2>7. n.kind = "root"
    BY <1>4 DEF Root, Node
  <2>8. CASE s.layers > ImagesExclusive(s)
    <3>1. SharedLayers \notin nodes
      <4>1. \A p \in Projects(s) : p # ""
        BY DEF Projects, ProjectOf
      <4> QED
        BY <4>1 DEF SharedLayers, Node, ProjectNode
    <3>2. t[n] = <<SharedLayers>> \o rest
      BY <2>1, <2>8
    <3>3. Under(s, "project", n) = nodes \cup {SharedLayers}
      BY <2>7, <2>8 DEF Under
    <3> HIDE DEF rest, nodes, t
    <3>4. /\ <<SharedLayers>> \o rest \in Seq(ToSet(rest) \cup {SharedLayers})
          /\ ToSet(<<SharedLayers>> \o rest) = ToSet(rest) \cup {SharedLayers}
          /\ OnceEach(<<SharedLayers>> \o rest)
      BY <2>4, <2>5, <2>6, <3>1, InFront
    <3> QED
      BY <2>5, <3>2, <3>3, <3>4
  <2>9. CASE ~ (s.layers > ImagesExclusive(s))
    <3>1. t[n] = <<>> \o rest
      BY <2>1, <2>9
    <3>2. Under(s, "project", n) = nodes
      BY <2>7, <2>9 DEF Under
    <3> HIDE DEF rest, nodes, t
    <3>3. <<>> \o rest = rest
      BY <2>4
    <3> QED
      BY <2>4, <2>5, <2>6, <3>1, <3>2, <3>3
  <2> QED
    BY <2>8, <2>9
<1>5. ASSUME NEW n \in Inner(s, "project"), n # Root("project"), n.kind = "project",
             n.id \in Projects(s), n = ProjectNode(n.id)
      PROVE  Fits(n)
  <2> DEFINE marks == {m \in Objects(s) : ProjectOf(s, m) = n.id}
             list == Listed(s, marks)
             P == {Place(s, m) : m \in marks}
  <2>1. (CHOOSE p \in Projects(s) : n = ProjectNode(p)) = n.id
    BY <1>5 DEF ProjectNode
  <2>2. t[n] = Placed(s, list)
    BY <1>1, <1>5, <2>1 DEF ProjectKids, Placed
  <2>3. Under(s, "project", n) = P
    BY <1>5 DEF Under
  <2>4. list \in Seq(marks) /\ ToSet(list) = marks
    <3>1. Objects(s) \cap marks = marks
      OBVIOUS
    <3> HIDE DEF marks
    <3>2. list \in Seq(AllMarks(s)) /\ ToSet(list) = marks
      BY <3>1, ListsOf
    <3> HIDE DEF list
    <3>3. \A k \in 1..Len(list) : list[k] \in marks
      BY <3>2 DEF ToSet
    <3> QED
      BY <3>2, <3>3
  <2>5. \A m \in marks : Place(s, m) \in P
    OBVIOUS
  <2>6. P = {Place(s, m) : m \in marks}
    OBVIOUS
  <2> HIDE DEF list, marks, P, t
  <2>7. /\ Placed(s, list) \in Seq(P)
        /\ ToSet(Placed(s, list)) = {Place(s, m) : m \in ToSet(list)}
        /\ OnceEach(Placed(s, list))
    BY <2>4, <2>5, PlacedFacts
  <2> QED
    BY <2>2, <2>3, <2>4, <2>6, <2>7
<1>6. ASSUME NEW n \in Inner(s, "project"), n # Root("project"), n.kind = "service"
      PROVE  Fits(n)
  <2> DEFINE marks == {m \in Objects(s) : InService(s, m) /\ Place(s, m) = n}
  <2>1. t[n] = Leaves(Listed(s, marks))
    BY <1>1, <1>6
  <2>2. Objects(s) \cap marks = marks
    OBVIOUS
  <2>3. Under(s, "project", n) = {Leaf(m) : m \in marks}
    BY <1>6 DEF Under
  <2> HIDE DEF marks, t
  <2> QED
    BY <2>1, <2>2, <2>3, LeavesListed
<1> HIDE DEF t
<1> QED
  BY <1>2, <1>3, <1>4, <1>5, <1>6 DEF Shows, t

(***************************************************************************)
(* Sums.  SumFunction folds over a set in an order nobody knows; what it   *)
(* amounts to is the number of units in the terms, and units can be        *)
(* counted in any order.                                                   *)
(***************************************************************************)

\* A sum of natural numbers counts units: as many for each x as its number.
Units(w, S) == {u \in S \X Nat : 1 <= u[2] /\ u[2] <= w[u[1]]}

\* As many units as the number ...
LEMMA UnitsOfOne ==
  ASSUME NEW w, NEW x, w[x] \in Nat
  PROVE  IsFiniteSet(Units(w, {x})) /\ Cardinality(Units(w, {x})) = w[x]
<1> DEFINE f == [k \in 1..w[x] |-> <<x, k>>]
<1>1. f \in Bijection(1..w[x], Units(w, {x}))
  BY DEF Bijection, Injection, Surjection, IsInjective, Units
<1>2. ExistsBijection(1..w[x], Units(w, {x}))
  BY <1>1 DEF ExistsBijection
<1>3. IsFiniteSet(1..w[x]) /\ Cardinality(1..w[x]) = w[x]
  BY FS_Interval
<1> QED
  BY <1>2, <1>3, FS_Bijection

\* ... finitely many ...
LEMMA UnitsFinite ==
  ASSUME NEW S, IsFiniteSet(S), NEW w, \A x \in S : w[x] \in Nat
  PROVE  IsFiniteSet(Units(w, S))
<1> DEFINE T == {s \in SUBSET S : ~IsFiniteSet(Units(w, s))}
<1> SUFFICES ASSUME T # {} PROVE FALSE
  OBVIOUS
<1>0. T \subseteq SUBSET S
  OBVIOUS
<1> HIDE DEF T
<1>1. PICK s \in T : \A t \in T : t \subseteq s => t = s
  BY <1>0, LeastSet
<1> USE DEF T
<1>2. s # {}
  <2>1. Units(w, {}) = {}
    BY DEF Units
  <2> QED
    BY <2>1, FS_EmptySet
<1>3. PICK x \in s : TRUE
  BY <1>2
<1>4. IsFiniteSet(Units(w, s \ {x}))
  BY <1>1, <1>3
<1>5. Units(w, s) = Units(w, s \ {x}) \cup Units(w, {x})
  BY <1>3 DEF Units
<1> QED
  BY <1>3, <1>4, <1>5, UnitsOfOne, FS_Union

\* ... and those of one element apart from the others.
LEMMA UnitsSplit ==
  ASSUME NEW S, IsFiniteSet(S), NEW w, \A x \in S : w[x] \in Nat, NEW x \in S
  PROVE  Cardinality(Units(w, S)) = w[x] + Cardinality(Units(w, S \ {x}))
<1>1. Units(w, S) = Units(w, {x}) \cup Units(w, S \ {x})
  BY DEF Units
<1>2. Units(w, {x}) \cap Units(w, S \ {x}) = {}
  BY DEF Units
<1>3. IsFiniteSet(Units(w, {x})) /\ IsFiniteSet(Units(w, S \ {x}))
      /\ Cardinality(Units(w, {x})) = w[x]
  BY UnitsOfOne, UnitsFinite, FS_RemoveElement
<1>4. Cardinality(Units(w, S)) = Cardinality(Units(w, {x})) + Cardinality(Units(w, S \ {x}))
        - Cardinality(Units(w, {x}) \cap Units(w, S \ {x}))
  BY <1>1, <1>3, FS_Union
<1>5. /\ Cardinality(Units(w, {x}) \cap Units(w, S \ {x})) = 0
      /\ Cardinality(Units(w, S \ {x})) \in Nat /\ w[x] \in Nat
  BY <1>2, <1>3, FS_EmptySet, FS_CardinalityType
<1> QED
  BY <1>3, <1>4, <1>5

\* The fold behind SumFunction takes the elements in the order in which CHOOSE names
\* them: its recursion has a solution, the count of the units, and no other.
LEMMA SumCountsUnits ==
  ASSUME NEW w, IsFiniteSet(DOMAIN w), \A x \in DOMAIN w : w[x] \in Nat
  PROVE  /\ SumFunction(w) = Cardinality(Units(w, DOMAIN w))
         /\ IsFiniteSet(Units(w, DOMAIN w))
<1> DEFINE S == DOMAIN w
           x(s) == CHOOSE y \in s : TRUE
           Step(h) == [s \in SUBSET S |-> IF s = {} THEN 0 ELSE w[x(s)] + h[s \ {x(s)}]]
           g == CHOOSE h : h = Step(h)
           count == [s \in SUBSET S |-> Cardinality(Units(w, s))]
<1>1. SumFunction(w) = g[S]
  BY DEF SumFunction, SumFunctionOnSet, FoldFunctionOnSet, MapThenFoldSet
<1>2. ASSUME NEW s \in SUBSET S, s # {}
      PROVE  x(s) \in s /\ Cardinality(Units(w, s)) = w[x(s)] + Cardinality(Units(w, s \ {x(s)}))
  <2>1. x(s) \in s
    BY <1>2
  <2>2. IsFiniteSet(s) /\ \A y \in s : w[y] \in Nat
    BY FS_Subset
  <2> HIDE DEF x
  <2> QED
    BY <2>1, <2>2, UnitsSplit
<1>3. Cardinality(Units(w, {})) = 0
  <2>1. Units(w, {}) = {}
    BY DEF Units
  <2> QED
    BY <2>1, FS_EmptySet
<1> HIDE DEF x
<1>4. count = Step(count)
  BY <1>2, <1>3
<1>5. g = Step(g)
  <2> HIDE DEF Step, count
  <2> QED
    BY <1>4
<1> HIDE DEF g
<1>6. \A s \in SUBSET S : g[s] = IF s = {} THEN 0 ELSE w[x(s)] + g[s \ {x(s)}]
  BY <1>5
<1> DEFINE T == {s \in SUBSET S : g[s] # count[s]}
<1>7. T = {}
  <2> SUFFICES ASSUME T # {} PROVE FALSE
    OBVIOUS
  <2>0. T \subseteq SUBSET S
    OBVIOUS
  <2> HIDE DEF T
  <2>1. PICK s \in T : \A t \in T : t \subseteq s => t = s
    BY <2>0, LeastSet
  <2> USE DEF T
  <2>2. s # {}
    BY <1>3, <1>6
  <2>3. x(s) \in s /\ s \ {x(s)} \notin T
    BY <1>2, <2>1, <2>2
  <2> QED
    BY <1>2, <1>6, <2>2, <2>3
<1> QED
  BY <1>1, <1>7, UnitsFinite

(***************************************************************************)
(* Definitions and proofs over a tree.  No node lies deeper than the third *)
(* level below the root, so that a recursion over it has a solution after  *)
(* four rounds.                                                            *)
(***************************************************************************)

\* What is defined level by level exists ...
LevelByLevel(N, level, T, F) ==
  /\ level \in [N -> 0..3] /\ T # {} /\ F \in [[N -> T] \X N -> T]
  /\ \A g, h \in [N -> T], n \in N :
       (\A m \in N : level[m] < level[n] => g[m] = h[m]) => F[<<g, n>>] = F[<<h, n>>]
Solved(N, T, F) == \E h \in [N -> T] : \A n \in N : h[n] = F[<<h, n>>]

LEMMA LevelsDefine ==
  ASSUME NEW N, NEW level, NEW T, NEW F, LevelByLevel(N, level, T, F)
  PROVE  Solved(N, T, F)
<1>0. /\ level \in [N -> 0..3] /\ T # {} /\ F \in [[N -> T] \X N -> T]
      /\ \A g, h \in [N -> T], n \in N :
           (\A m \in N : level[m] < level[n] => g[m] = h[m]) => F[<<g, n>>] = F[<<h, n>>]
  BY DEF LevelByLevel
<1>1. PICK t0 \in T : TRUE
  BY <1>0
<1> DEFINE h0 == [n \in N |-> t0]
           h1 == [n \in N |-> F[<<h0, n>>]]
           h2 == [n \in N |-> F[<<h1, n>>]]
           h3 == [n \in N |-> F[<<h2, n>>]]
           h4 == [n \in N |-> F[<<h3, n>>]]
<1>2. h0 \in [N -> T]
  OBVIOUS
<1> HIDE DEF h0
<1>3. h1 \in [N -> T] /\ \A n \in N : h1[n] = F[<<h0, n>>]
  BY <1>0, <1>2
<1> HIDE DEF h1
<1>4. h2 \in [N -> T] /\ \A n \in N : h2[n] = F[<<h1, n>>]
  BY <1>0, <1>3
<1> HIDE DEF h2
<1>5. h3 \in [N -> T] /\ \A n \in N : h3[n] = F[<<h2, n>>]
  BY <1>0, <1>4
<1> HIDE DEF h3
<1>6. h4 \in [N -> T] /\ \A n \in N : h4[n] = F[<<h3, n>>]
  BY <1>0, <1>5
<1> HIDE DEF h4
<1>7. \A n \in N : level[n] \in 0..3
  BY <1>0
<1>8. \A n \in N : level[n] < 1 => h1[n] = h2[n]
  <2> SUFFICES ASSUME NEW n \in N, level[n] < 1 PROVE h1[n] = h2[n]
    OBVIOUS
  <2>1. \A m \in N : level[m] < level[n] => h0[m] = h1[m]
    BY <1>7
  <2>2. F[<<h0, n>>] = F[<<h1, n>>]
    BY <1>0, <1>2, <1>3, <2>1
  <2> QED
    BY <1>3, <1>4, <2>2
<1>9. \A n \in N : level[n] < 2 => h2[n] = h3[n]
  <2> SUFFICES ASSUME NEW n \in N, level[n] < 2 PROVE h2[n] = h3[n]
    OBVIOUS
  <2>1. \A m \in N : level[m] < level[n] => h1[m] = h2[m]
    BY <1>7, <1>8
  <2>2. F[<<h1, n>>] = F[<<h2, n>>]
    BY <1>0, <1>3, <1>4, <2>1
  <2> QED
    BY <1>4, <1>5, <2>2
<1>10. \A n \in N : level[n] < 3 => h3[n] = h4[n]
  <2> SUFFICES ASSUME NEW n \in N, level[n] < 3 PROVE h3[n] = h4[n]
    OBVIOUS
  <2>1. \A m \in N : level[m] < level[n] => h2[m] = h3[m]
    BY <1>7, <1>9
  <2>2. F[<<h2, n>>] = F[<<h3, n>>]
    BY <1>0, <1>4, <1>5, <2>1
  <2> QED
    BY <1>5, <1>6, <2>2
<1>11. \A n \in N : h4[n] = F[<<h4, n>>]
  <2> SUFFICES ASSUME NEW n \in N PROVE h4[n] = F[<<h4, n>>]
    OBVIOUS
  <2>1. \A m \in N : level[m] < level[n] => h3[m] = h4[m]
    BY <1>7, <1>10
  <2>2. F[<<h3, n>>] = F[<<h4, n>>]
    BY <1>0, <1>5, <1>6, <2>1
  <2> QED
    BY <1>6, <2>2
<1> QED
  BY <1>6, <1>11 DEF Solved

\* ... and what passes from the levels before to a level holds on all.
LEMMA LevelsInduce ==
  ASSUME NEW N, NEW level \in [N -> 0..3], NEW C,
         \A n \in N : (\A m \in N : level[m] < level[n] => m \in C) => n \in C
  PROVE  N \subseteq C
<1>0. \A n \in N : level[n] \in 0..3
  OBVIOUS
<1>1. \A n \in N : level[n] < 1 => n \in C
  BY <1>0
<1>2. \A n \in N : level[n] < 2 => n \in C
  <2> SUFFICES ASSUME NEW n \in N, level[n] < 2 PROVE n \in C
    OBVIOUS
  <2>1. \A m \in N : level[m] < level[n] => m \in C
    BY <1>0, <1>1
  <2> QED
    BY <2>1
<1>3. \A n \in N : level[n] < 3 => n \in C
  <2> SUFFICES ASSUME NEW n \in N, level[n] < 3 PROVE n \in C
    OBVIOUS
  <2>1. \A m \in N : level[m] < level[n] => m \in C
    BY <1>0, <1>2
  <2> QED
    BY <2>1
<1>4. \A n \in N : n \in C
  <2> SUFFICES ASSUME NEW n \in N PROVE n \in C
    OBVIOUS
  <2>1. \A m \in N : level[m] < level[n] => m \in C
    BY <1>0, <1>3
  <2> QED
    BY <2>1
<1> QED
  BY <1>4

\* Whom a key puts ahead, in the order of the list if it does not decide.
LEMMA KeySorts ==
  ASSUME NEW N \in Nat, NEW key \in [1..N -> Int]
  PROVE  [r \in 1..N |-> CHOOSE k \in 1..N :
            Cardinality({j \in 1..N :
              \/ key[j] < key[k]
              \/ ~(key[k] < key[j]) /\ j < k}) = r - 1] \in Bijection(1..N, 1..N)
<1> DEFINE D == 1..N
           Ahead(j, k) == key[j] < key[k] \/ (~(key[k] < key[j]) /\ j < k)
           R == {p \in D \X D : Ahead(p[1], p[2])}
<1>1. \A a \in D : key[a] \in Int /\ a \in Int
  OBVIOUS
<1>2. \A a, b \in D : <<a, b>> \in R <=> Ahead(a, b)
  OBVIOUS
<1> HIDE DEF R, D
<1>3. \A a, b \in D : a # b => Ahead(a, b) \/ Ahead(b, a)
  BY <1>1
<1>4. \A a \in D : ~Ahead(a, a)
  BY <1>1
<1>5. \A a, b, c \in D : Ahead(a, b) /\ Ahead(b, c) => Ahead(a, c)
  BY <1>1
<1> HIDE DEF Ahead
<1>6. Order(N, R) \in Bijection(1..N, 1..N)
  <2>1. \A a, b \in 1..N : a # b => <<a, b>> \in R \/ <<b, a>> \in R
    BY <1>2, <1>3 DEF D
  <2>2. \A a \in 1..N : <<a, a>> \notin R
    BY <1>2, <1>4 DEF D
  <2>3. \A a, b, c \in 1..N : <<a, b>> \in R /\ <<b, c>> \in R => <<a, c>> \in R
    BY <1>2, <1>5 DEF D
  <2> QED
    BY <2>1, <2>2, <2>3, CountingSorts
<1> DEFINE P(r) == CHOOSE k \in D : Cardinality({j \in D : <<j, k>> \in R}) = r - 1
           Q(r) == CHOOSE k \in D : Cardinality({j \in D : Ahead(j, k)}) = r - 1
<1>7. \A r : P(r) = Q(r)
  <2>1. \A k \in D : {j \in D : <<j, k>> \in R} = {j \in D : Ahead(j, k)}
    BY <1>2
  <2> QED
    BY <2>1
<1>8. [r \in D |-> P(r)] \in Bijection(D, D)
  BY <1>6 DEF D, Order
<1> HIDE DEF P, Q
<1>9. [r \in D |-> Q(r)] \in Bijection(D, D)
  <2>1. [r \in D |-> P(r)] = [r \in D |-> Q(r)]
    BY <1>7
  <2> QED
    BY <1>8, <2>1
<1> QED
  BY <1>9 DEF Q, D, Ahead

\* A list in another order.
Through(q, N, p) == [r \in 1..N |-> q[p[r]]]

\* Another order changes nothing else.
LEMMA Rearranged ==
  ASSUME NEW q, NEW N \in Nat, DOMAIN q = 1..N, NEW p \in Bijection(1..N, 1..N)
  PROVE  LET sorted == Through(q, N, p)
         IN /\ sorted \in Seq(ToSet(q))
            /\ ToSet(sorted) = ToSet(q)
            /\ OnceEach(q) => OnceEach(sorted)
<1>1. /\ p \in [1..N -> 1..N]
      /\ \A a, b \in 1..N : p[a] = p[b] => a = b
      /\ \A k \in 1..N : \E r \in 1..N : p[r] = k
  BY DEF Bijection, Injection, Surjection, IsInjective
<1> DEFINE sorted == [r \in 1..N |-> q[p[r]]]
<1>2. sorted \in Seq({q[k] : k \in DOMAIN q})
  BY <1>1
<1>3. {sorted[r] : r \in DOMAIN sorted} = {q[k] : k \in DOMAIN q}
  <2>1. DOMAIN sorted = 1..N /\ \A r \in 1..N : sorted[r] = q[p[r]] /\ p[r] \in 1..N
    BY <1>1
  <2>2. \A k \in 1..N : \E r \in 1..N : q[k] = sorted[r]
    BY <1>1, <2>1
  <2> HIDE DEF sorted
  <2>3. \A r \in DOMAIN sorted : \E k \in DOMAIN q : sorted[r] = q[k]
    BY <2>1
  <2>4. \A k \in DOMAIN q : \E r \in DOMAIN sorted : q[k] = sorted[r]
    BY <2>1, <2>2
  <2> QED
    BY <2>3, <2>4
<1>4. ASSUME \A j, k \in DOMAIN q : q[j] = q[k] => j = k
      PROVE  \A j, k \in DOMAIN sorted : sorted[j] = sorted[k] => j = k
  BY <1>1, <1>4
<1> QED
  BY <1>2, <1>3, <1>4 DEF Through, ToSet, OnceEach

(***************************************************************************)
(* Where a node lies: its level, its parent, and that it has one.          *)
(***************************************************************************)

\* Every tree that buildTree may return shows the snapshot.
LEMMA TreesShow ==
  ASSUME NEW s \in ToSet(Snapshots), NEW view \in Layouts, NEW t \in Trees(s, view)
  PROVE  Shows(s, view, t)
<1>1. CASE view = "type"
  BY <1>1, TypeShows DEF Trees
<1>2. CASE view = "project"
  <2>1. PICK order \in SetToSeqs(Projects(s)) : t = ByProject(s, order)
    BY <1>2 DEF Trees
  <2> QED
    BY <1>2, <2>1, ProjectShows
<1> QED
  BY <1>1, <1>2 DEF Layouts

\* How far down a node lies.
Level(n) == CASE n.kind = "root" -> 0
              [] n.kind \in {"type_bucket", "project"} -> 1
              [] n.kind = "service" -> 2
              [] OTHER -> 3

\* Kinds, IDs and levels of the nodes.
LEMMA NodeShapes ==
  /\ \A view : Root(view).kind = "root" /\ Level(Root(view)) = 0
  /\ \A k : Bucket(k).kind = "type_bucket" /\ Bucket(k).id = k /\ Level(Bucket(k)) = 1
  /\ \A p : ProjectNode(p).kind = "project" /\ ProjectNode(p).id = p /\ Level(ProjectNode(p)) = 1
  /\ SharedLayers.kind = "project" /\ Level(SharedLayers) = 1
  /\ \A m : /\ m.kind \in Kinds =>
                 Leaf(m).kind = m.kind /\ Leaf(m).id = m.id /\ Level(Leaf(m)) = 3
            /\ Logged(m).kind = "log_file" /\ Logged(m).id = m.id /\ Level(Logged(m)) = 3
<1>1. \A view : Root(view).kind = "root" /\ Level(Root(view)) = 0
  BY DEF Root, Node, Level
<1>2. \A k : Bucket(k).kind = "type_bucket" /\ Bucket(k).id = k /\ Level(Bucket(k)) = 1
  BY DEF Bucket, Node, Level
<1>3. \A p : ProjectNode(p).kind = "project" /\ ProjectNode(p).id = p /\ Level(ProjectNode(p)) = 1
  BY DEF ProjectNode, Level
<1>4. SharedLayers.kind = "project" /\ Level(SharedLayers) = 1
  BY DEF SharedLayers, Node, Level
<1>5. ASSUME NEW m
      PROVE  /\ m.kind \in Kinds =>
                  Leaf(m).kind = m.kind /\ Leaf(m).id = m.id /\ Level(Leaf(m)) = 3
             /\ Logged(m).kind = "log_file" /\ Logged(m).id = m.id /\ Level(Logged(m)) = 3
  BY DEF Leaf, Logged, Node, Kinds, Level
<1> QED
  BY <1>1, <1>2, <1>3, <1>4, <1>5

\* An object of a project lies in a service or on its own.
LEMMA PlacesAre ==
  ASSUME NEW s \in ToSet(Snapshots), NEW m \in Objects(s)
  PROVE  \/ /\ InService(s, m) /\ Place(s, m) \in Services(s) /\ Place(s, m).kind = "service"
            /\ Level(Place(s, m)) = 2 /\ Place(s, m).project = ProjectOf(s, m)
         \/ /\ ~InService(s, m) /\ Place(s, m) = Leaf(m) /\ Place(s, m).kind \in Kinds
            /\ Level(Place(s, m)) = 3
<1>1. CASE InService(s, m)
  BY <1>1 DEF Place, Services, ServiceNode, Level
<1>2. CASE ~InService(s, m)
  BY <1>2, MarksAre, NodeShapes DEF Place
<1> QED
  BY <1>1, <1>2

\* The kinds of inner nodes and of their children.
LEMMA InnerAre ==
  ASSUME NEW s \in ToSet(Snapshots), NEW view \in Layouts, NEW n \in Inner(s, view)
  PROVE  \/ n = Root(view) /\ n.kind = "root"
         \/ /\ view = "type" /\ n.kind = "type_bucket" /\ n.id \in Buckets /\ n = Bucket(n.id)
         \/ /\ view = "project" /\ n.kind = "project" /\ n.id \in Projects(s) /\ n = ProjectNode(n.id)
         \/ view = "project" /\ n.kind = "service" /\ n \in Services(s)
<1>1. CASE view = "type"
  BY <1>1, NodeShapes DEF Inner
<1>2. CASE view = "project"
  <2>1. \A c \in Services(s) : c.kind = "service"
    BY PlacesAre DEF Services, InService
  <2> QED
    BY <1>2, <2>1, NodeShapes DEF Inner
<1> QED
  BY <1>1, <1>2 DEF Layouts

\* A node and a child of it.
LEMMA UnderAre ==
  ASSUME NEW s \in ToSet(Snapshots), NEW view \in Layouts, NEW n \in Inner(s, view),
         NEW c \in Under(s, view, n)
  PROVE  \/ /\ view = "type" /\ n = Root(view) /\ c.kind = "type_bucket"
            /\ c.id \in Buckets /\ c = Bucket(c.id)
         \/ /\ view = "type" /\ n = Bucket("log_file") /\ \E m \in Logs(s) : c = Logged(m)
         \/ /\ view = "type" /\ \E m \in Objects(s) : c = Leaf(m) /\ n = Bucket(m.kind)
         \/ /\ view = "project" /\ n = Root(view) /\ s.layers > ImagesExclusive(s)
            /\ c = SharedLayers
         \/ /\ view = "project" /\ n = Root(view) /\ \E p \in Projects(s) : c = ProjectNode(p)
         \/ /\ view = "project"
            /\ \E m \in Objects(s) : c = Place(s, m) /\ n = ProjectNode(ProjectOf(s, m))
         \/ /\ view = "project"
            /\ \E m \in Objects(s) : InService(s, m) /\ c = Leaf(m) /\ n = Place(s, m)
<1>1. CASE view = "type"
  <2>1. CASE n = Root(view)
    BY <1>1, <2>1, NodeShapes DEF Under
  <2>2. CASE n = Bucket("log_file")
    <3>1. n # Root("type")
      BY <2>2, NodeShapes
    <3> QED
      BY <1>1, <2>2, <3>1 DEF Under
  <2>3. CASE n # Root(view) /\ n # Bucket("log_file")
    BY <1>1, <2>3, InnerAre DEF Under
  <2> QED
    BY <2>1, <2>2, <2>3
<1>2. CASE view = "project"
  <2>1. CASE n = Root(view)
    BY <1>2, <2>1, NodeShapes DEF Under
  <2>2. CASE n.kind = "project" /\ n = ProjectNode(n.id)
    BY <1>2, <2>2 DEF Under
  <2>3. CASE n.kind = "service"
    BY <1>2, <2>3 DEF Under
  <2> QED
    BY <1>2, <2>1, <2>2, <2>3, InnerAre
<1> QED
  BY <1>1, <1>2 DEF Layouts

\* A child lies deeper than its parent.
LEMMA LevelsGrow ==
  ASSUME NEW s \in ToSet(Snapshots), NEW view \in Layouts, NEW n \in Inner(s, view),
         NEW c \in Under(s, view, n)
  PROVE  Level(n) \in 0..2 /\ Level(c) \in 0..3 /\ Level(n) < Level(c)
<1>1. ASSUME NEW m \in Objects(s)
      PROVE  /\ Level(Leaf(m)) = 3 /\ Level(Place(s, m)) \in 2..3
             /\ InService(s, m) => Level(Place(s, m)) = 2
  BY MarksAre, PlacesAre, NodeShapes
<1> QED
  BY <1>1, UnderAre, NodeShapes

\* No node has two parents ...
LEMMA OneParent ==
  ASSUME NEW s \in ToSet(Snapshots), NEW view \in Layouts, NEW p \in Inner(s, view),
         NEW q \in Inner(s, view), NEW c \in Under(s, view, p), c \in Under(s, view, q)
  PROVE  p = q
<1>1. \A a, b \in Objects(s) : Leaf(a) = Leaf(b) => a = b
  <2> SUFFICES ASSUME NEW a \in Objects(s), NEW b \in Objects(s), Leaf(a) = Leaf(b) PROVE a = b
    OBVIOUS
  <2>1. a.kind = b.kind /\ a.id = b.id
    BY MarksAre, NodeShapes
  <2> QED
    BY <2>1, MarksAre
<1>2. CASE view = "type"
  <2>1. \/ p = Root(view) /\ c.kind = "type_bucket"
        \/ p = Bucket("log_file") /\ c.kind = "log_file"
        \/ \E m \in Objects(s) : c = Leaf(m) /\ p = Bucket(m.kind) /\ c.kind \in Kinds
    BY <1>2, UnderAre, MarksAre, NodeShapes
  <2>2. \/ q = Root(view) /\ c.kind = "type_bucket"
        \/ q = Bucket("log_file") /\ c.kind = "log_file"
        \/ \E m \in Objects(s) : c = Leaf(m) /\ q = Bucket(m.kind) /\ c.kind \in Kinds
    BY <1>2, UnderAre, MarksAre, NodeShapes
  <2>3. "type_bucket" \notin Kinds /\ "log_file" \notin Kinds
    BY DEF Kinds
  <2> QED
    BY <1>1, <2>1, <2>2, <2>3
<1>3. CASE view = "project"
  <2> DEFINE Below(n) ==
        \/ n = Root(view) /\ c.kind = "project"
        \/ \E m \in Objects(s) : /\ c = Place(s, m) /\ InService(s, m)
                                 /\ n = ProjectNode(ProjectOf(s, m))
                                 /\ c.kind = "service" /\ c.project = ProjectOf(s, m)
        \/ \E m \in Objects(s) : /\ c = Leaf(m) /\ ~InService(s, m) /\ c.kind \in Kinds
                                 /\ n = ProjectNode(ProjectOf(s, m))
        \/ \E m \in Objects(s) : /\ c = Leaf(m) /\ InService(s, m) /\ c.kind \in Kinds
                                 /\ n = Place(s, m)
  <2>1. ASSUME NEW n \in Inner(s, view), c \in Under(s, view, n) PROVE Below(n)
    <3>1. CASE n = Root(view) /\ c = SharedLayers
      BY <3>1, NodeShapes
    <3>2. CASE n = Root(view) /\ \E r \in Projects(s) : c = ProjectNode(r)
      BY <3>2, NodeShapes
    <3>3. ASSUME NEW m \in Objects(s), c = Place(s, m), n = ProjectNode(ProjectOf(s, m))
          PROVE  Below(n)
      BY <3>3, PlacesAre
    <3>4. ASSUME NEW m \in Objects(s), InService(s, m), c = Leaf(m), n = Place(s, m)
          PROVE  Below(n)
      BY <3>4, MarksAre, NodeShapes
    <3> QED
      BY <1>3, <2>1, <3>1, <3>2, <3>3, <3>4, UnderAre
  <2>2. Below(p) /\ Below(q)
    BY <2>1
  <2>3. "project" \notin Kinds /\ "service" \notin Kinds
    BY DEF Kinds
  <2> QED
    BY <1>1, <2>2, <2>3
<1> QED
  BY <1>2, <1>3 DEF Layouts

\* ... none but the root is without ...
LEMMA HasParent ==
  ASSUME NEW s \in ToSet(Snapshots), NEW view \in Layouts, NEW n \in Inner(s, view),
         n # Root(view)
  PROVE  \E p \in Inner(s, view) : n \in Under(s, view, p)
<1>1. Root(view) \in Inner(s, view)
  BY DEF Inner, Layouts
<1>2. CASE view = "type"
  <2>1. n \in {Bucket(k) : k \in Buckets}
    BY <1>2 DEF Inner
  <2>2. n \in Under(s, view, Root(view))
    <3>1. Root("type") # Bucket("log_file")
      BY NodeShapes
    <3> QED
      BY <1>2, <2>1, <3>1 DEF Under
  <2> QED
    BY <1>1, <2>2
<1>3. CASE view = "project"
  <2>1. CASE n \in {ProjectNode(p) : p \in Projects(s)}
    <3>1. n \in Under(s, view, Root(view))
      BY <1>3, <2>1, NodeShapes DEF Under
    <3> QED
      BY <1>1, <3>1
  <2>2. CASE n \in Services(s)
    <3>1. PICK m \in Objects(s) : n = Place(s, m)
      BY <2>2 DEF Services
    <3> DEFINE p == ProjectNode(ProjectOf(s, m))
    <3>2. p \in Inner(s, view)
      BY <1>3 DEF Inner, Projects
    <3>3. n \in Under(s, view, p)
      BY <1>3, <3>1, NodeShapes DEF Under
    <3> QED
      BY <3>2, <3>3
  <2> QED
    BY <1>3, <2>1, <2>2 DEF Inner
<1> QED
  BY <1>2, <1>3 DEF Layouts

\* ... and every object has a leaf.
LEMMA HasLeaf ==
  ASSUME NEW s \in ToSet(Snapshots), NEW view \in Layouts, NEW m \in Objects(s)
  PROVE  \E p \in Inner(s, view) : Leaf(m) \in Under(s, view, p)
<1>1. CASE view = "type"
  <2> DEFINE p == Bucket(m.kind)
  <2>1. m.kind \in Buckets /\ m.kind # "log_file"
    BY MarksAre DEF Buckets, Kinds
  <2>2. p \in Inner(s, view) /\ p # Root("type") /\ p # Bucket("log_file") /\ p.id = m.kind
    BY <1>1, <2>1, NodeShapes DEF Inner
  <2>3. Leaf(m) \in Under(s, view, p)
    BY <1>1, <2>2 DEF Under
  <2> QED
    BY <2>2, <2>3
<1>2. CASE view = "project" /\ InService(s, m)
  <2> DEFINE p == Place(s, m)
  <2>1. p \in Inner(s, view) /\ p.kind = "service"
    BY <1>2, PlacesAre DEF Inner
  <2>2. Leaf(m) \in Under(s, view, p)
    BY <1>2, <2>1 DEF Under
  <2> QED
    BY <2>1, <2>2
<1>3. CASE view = "project" /\ ~InService(s, m)
  <2> DEFINE p == ProjectNode(ProjectOf(s, m))
  <2>1. p \in Inner(s, view)
    BY <1>3 DEF Inner, Projects
  <2>2. Leaf(m) = Place(s, m)
    BY <1>3 DEF Place
  <2>3. Leaf(m) \in Under(s, view, p)
    BY <1>3, <2>2, NodeShapes DEF Under
  <2> QED
    BY <2>1, <2>3
<1> QED
  BY <1>1, <1>2, <1>3 DEF Layouts

(***************************************************************************)
(* The sizes: the recursion over the tree has a solution, one value for    *)
(* every node.                                                             *)
(***************************************************************************)

\* All nodes of a tree that shows a snapshot.
Everything(s, view) == Inner(s, view) \cup UNION {Under(s, view, n) : n \in Inner(s, view)}

\* They are those of any tree that shows the snapshot.
LEMMA ShownNodes ==
  ASSUME NEW s, NEW view, NEW t, Shows(s, view, t)
  PROVE  /\ Nodes(t) = Everything(s, view)
         /\ \A p \in DOMAIN t : \A k \in DOMAIN t[p] :
              t[p][k] \in Under(s, view, p) /\ t[p][k] \in Nodes(t)
<1>1. DOMAIN t = Inner(s, view) /\ \A n \in DOMAIN t : ToSet(t[n]) = Under(s, view, n)
  BY DEF Shows
<1>2. Nodes(t) = Everything(s, view)
  BY <1>1 DEF Nodes, Everything
<1>3. \A p \in DOMAIN t : \A k \in DOMAIN t[p] : t[p][k] \in ToSet(t[p])
  BY DEF ToSet
<1> QED
  BY <1>1, <1>2, <1>3 DEF Nodes

\* What a node stands for.
LEMMA NodesAre ==
  ASSUME NEW s \in ToSet(Snapshots), NEW view \in Layouts, NEW n \in Everything(s, view)
  PROVE  \/ n.kind \in {"root", "type_bucket", "service"}
         \/ \E p \in Projects(s) : n = ProjectNode(p)
         \/ n = SharedLayers /\ s.layers > ImagesExclusive(s)
         \/ \E m \in Objects(s) : n = Leaf(m)
         \/ \E m \in Logs(s) : n = Logged(m)
<1>1. CASE n \in Inner(s, view)
  BY <1>1, InnerAre
<1>2. ASSUME NEW p \in Inner(s, view), n \in Under(s, view, p)
      PROVE  \/ n.kind \in {"root", "type_bucket", "service"}
             \/ \E q \in Projects(s) : n = ProjectNode(q)
             \/ n = SharedLayers /\ s.layers > ImagesExclusive(s)
             \/ \E m \in Objects(s) : n = Leaf(m)
             \/ \E m \in Logs(s) : n = Logged(m)
  BY <1>2, UnderAre, PlacesAre
<1> QED
  BY <1>1, <1>2 DEF Everything

\* The values of the recursion.
Size == [total : Nat, exclusive : Nat]

\* A sum of natural numbers is one.
LEMMA SumTyped ==
  ASSUME NEW w, IsFiniteSet(DOMAIN w), \A x \in DOMAIN w : w[x] \in Nat
  PROVE  SumFunction(w) \in Nat
BY SumCountsUnits, FS_CardinalityType

\* The sizes of the objects, the unknown ones counted as none.
LEMMA SnapshotSizes ==
  ASSUME NEW s \in ToSet(Snapshots)
  PROVE  /\ \A i \in DOMAIN s.image : s.image[i].size \in Nat /\ Exclusive(s.image[i]) \in Nat
         /\ \A c \in DOMAIN s.container :
              NonNeg(s.container[c].rw) \in Nat /\ s.container[c].log \in Nat
         /\ \A v \in DOMAIN s.volume : NonNeg(s.volume[v].usage) \in Nat
         /\ \A b \in DOMAIN s.build_cache : s.build_cache[b].size \in Nat
         /\ s.layers \in Int
         /\ \A kind \in Kinds : IsFiniteSet(DOMAIN s[kind])
<1>1. \A i \in DOMAIN s.image : s.image[i].size \in Nat /\ s.image[i].shared \in Int
  BY SnapshotsAssumption
<1>2. \A i \in DOMAIN s.image : Exclusive(s.image[i]) \in Nat
  BY <1>1 DEF Exclusive, NonNeg
<1>3. \A c \in DOMAIN s.container : s.container[c].rw \in Int /\ s.container[c].log \in Nat
  BY SnapshotsAssumption
<1>4. \A v \in DOMAIN s.volume : s.volume[v].usage \in Int
  BY SnapshotsAssumption
<1>5. (\A b \in DOMAIN s.build_cache : s.build_cache[b].size \in Nat) /\ s.layers \in Int
  BY SnapshotsAssumption
<1>6. \A x \in Int : NonNeg(x) \in Nat
  BY DEF NonNeg
<1>7. ASSUME NEW kind \in Kinds PROVE IsFiniteSet(DOMAIN s[kind])
  <2> DEFINE D == DOMAIN s[kind]
             f == [id \in D |-> Mark(kind, id)]
  <2>1. ASSUME NEW id \in D PROVE Mark(kind, id) \in Objects(s)
    <3>1. Mark(kind, id) \in AllMarks(s)
      BY DEF AllMarks
    <3> QED
      BY <3>1, SnapshotFacts
  <2>2. \A a, b \in D : Mark(kind, a) = Mark(kind, b) => a = b
    BY DEF Mark
  <2>3. f \in Injection(D, Objects(s))
    BY <2>1, <2>2 DEF Injection, IsInjective
  <2> HIDE DEF D, f
  <2>4. IsFiniteSet(D)
    BY <2>3, SnapshotFacts, FS_Injection
  <2> QED
    BY <2>4 DEF D
<1> QED
  BY <1>1, <1>2, <1>3, <1>4, <1>5, <1>6, <1>7

\* The exclusive sizes of the images add up to a natural number ...
LEMMA ImagesExclusiveTyped ==
  ASSUME NEW s \in ToSet(Snapshots)
  PROVE  ImagesExclusive(s) \in Nat
<1> DEFINE w == [i \in DOMAIN s.image |-> Exclusive(s.image[i])]
<1>1. IsFiniteSet(DOMAIN s.image)
  BY SnapshotSizes DEF Kinds
<1>2. DOMAIN w = DOMAIN s.image /\ \A i \in DOMAIN w : w[i] \in Nat
  BY SnapshotSizes
<1> HIDE DEF w
<1>3. SumFunction(w) \in Nat
  BY <1>1, <1>2, SumTyped
<1> QED
  BY <1>3 DEF w, ImagesExclusive

\* ... and nodeSize of what has no children is a size.
LEMMA OwnSizeTyped ==
  ASSUME NEW s \in ToSet(Snapshots), NEW view \in Layouts, NEW n \in Everything(s, view)
  PROVE  OwnSize(s, view, n) \in Size
<1>0. SharedLayers.kind = "project"
  BY NodeShapes
<1>1. ASSUME n.kind \in {"root", "type_bucket", "service", "project"}, n # SharedLayers
      PROVE  OwnSize(s, view, n) \in Size
  <2>1. OwnSize(s, view, n) = [total |-> 0, exclusive |-> 0]
    BY <1>1 DEF OwnSize
  <2> QED
    BY <2>1 DEF Size
<1>2. CASE n = SharedLayers /\ s.layers > ImagesExclusive(s)
  <2>1. n.kind = "project"
    BY <1>2, NodeShapes
  <2>2. OwnSize(s, view, n) = [total |-> s.layers - ImagesExclusive(s), exclusive |-> 0]
    BY <1>2, <2>1 DEF OwnSize
  <2>3. s.layers - ImagesExclusive(s) \in Nat
    BY <1>2, ImagesExclusiveTyped, SnapshotSizes
  <2> QED
    BY <2>2, <2>3 DEF Size
<1>3. ASSUME NEW m \in Logs(s), n = Logged(m) PROVE OwnSize(s, view, n) \in Size
  <2>1. n.kind = "log_file" /\ n.id = m.id /\ m.id \in DOMAIN s.container
    BY <1>3, MarksAre, NodeShapes DEF Logs
  <2>2. s.container[m.id].log \in Nat
    BY <2>1, SnapshotSizes
  <2>3. OwnSize(s, view, n) = [total |-> s.container[m.id].log, exclusive |-> s.container[m.id].log]
    BY <1>0, <2>1 DEF OwnSize
  <2> QED
    BY <2>2, <2>3 DEF Size
<1>4. ASSUME NEW m \in Objects(s), n = Leaf(m) PROVE OwnSize(s, view, n) \in Size
  <2>1. n.kind = m.kind /\ n.id = m.id /\ m.id \in DOMAIN s[m.kind] /\ m.kind \in Kinds
    BY <1>4, MarksAre, NodeShapes
  <2>2. CASE m.kind = "image"
    <3>1. OwnSize(s, view, n) = [total |-> s.image[n.id].size, exclusive |-> Exclusive(s.image[n.id])]
      BY <1>0, <2>1, <2>2 DEF OwnSize
    <3> QED
      BY <2>1, <2>2, <3>1, SnapshotSizes DEF Size
  <2>3. CASE m.kind = "container"
    <3> DEFINE x == NonNeg(s.container[n.id].rw)
                      + (IF view = "project" THEN s.container[n.id].log ELSE 0)
    <3>1. OwnSize(s, view, n) = [total |-> x, exclusive |-> x]
      BY <1>0, <2>1, <2>3 DEF OwnSize
    <3>2. x \in Nat
      BY <2>1, <2>3, SnapshotSizes
    <3> QED
      BY <3>1, <3>2 DEF Size
  <2>4. CASE m.kind = "volume"
    <3> DEFINE x == NonNeg(s.volume[n.id].usage)
    <3>1. OwnSize(s, view, n) = [total |-> x, exclusive |-> x]
      BY <1>0, <2>1, <2>4 DEF OwnSize
    <3>2. x \in Nat
      BY <2>1, <2>4, SnapshotSizes
    <3> QED
      BY <3>1, <3>2 DEF Size
  <2>5. CASE m.kind = "build_cache"
    <3> DEFINE x == s.build_cache[n.id].size
    <3>1. OwnSize(s, view, n) = [total |-> x, exclusive |-> x]
      BY <1>0, <2>1, <2>5 DEF OwnSize
    <3>2. x \in Nat
      BY <2>1, <2>5, SnapshotSizes
    <3> QED
      BY <3>1, <3>2 DEF Size
  <2> QED
    BY <2>1, <2>2, <2>3, <2>4, <2>5 DEF Kinds
<1>5. ASSUME NEW p \in Projects(s), n = ProjectNode(p), n # SharedLayers
      PROVE  OwnSize(s, view, n) \in Size
  BY <1>1, <1>5, NodeShapes
<1>6. \A p \in Projects(s) : ProjectNode(p) # SharedLayers
  BY DEF ProjectNode, SharedLayers, Node
<1>7. CASE n.kind \in {"root", "type_bucket", "service"}
  BY <1>1, <1>7, NodeShapes
<1> QED
  BY <1>2, <1>3, <1>4, <1>5, <1>6, <1>7, NodesAre

\* What the size of a node is made of, given those of the others.
SizeFrom(s, view, t, size, n) ==
  LET kids == Kids(t, n)
      own == IF kids = <<>> THEN OwnSize(s, view, n)
             ELSE [total |-> SumFunction([k \in DOMAIN kids |-> Charged(kids[k], size[kids[k]])]),
                   exclusive |-> SumFunction([k \in DOMAIN kids |-> size[kids[k]].exclusive])]
  IN IF n = Bucket("image") /\ s.layers >= 0
       THEN [own EXCEPT !.total = s.layers] ELSE own

\* The step from the children to a node keeps to them.
LEMMA SizeFromTyped ==
  ASSUME NEW s \in ToSet(Snapshots), NEW view \in Layouts, NEW t, Shows(s, view, t),
         NEW size, NEW n \in Nodes(t),
         \A k \in DOMAIN Kids(t, n) : size[Kids(t, n)[k]] \in Size
  PROVE  SizeFrom(s, view, t, size, n) \in Size
<1> DEFINE kids == Kids(t, n)
           totals == [k \in DOMAIN kids |-> Charged(kids[k], size[kids[k]])]
           exclusives == [k \in DOMAIN kids |-> size[kids[k]].exclusive]
           sums == [total |-> SumFunction(totals), exclusive |-> SumFunction(exclusives)]
           own == IF kids = <<>> THEN OwnSize(s, view, n) ELSE sums
<1>0. SizeFrom(s, view, t, size, n) =
        IF n = Bucket("image") /\ s.layers >= 0 THEN [own EXCEPT !.total = s.layers] ELSE own
  BY DEF SizeFrom
<1>1. IsFiniteSet(DOMAIN kids)
  <2>1. kids = <<>> \/ kids \in Seq(Under(s, view, n))
    BY DEF Kids, Shows
  <2>2. DOMAIN kids = 1..Len(kids) /\ Len(kids) \in Nat
    BY <2>1
  <2> QED
    BY <2>2, FS_Interval
<1>2. \A k \in DOMAIN kids : Charged(kids[k], size[kids[k]]) \in Nat /\ size[kids[k]].exclusive \in Nat
  BY DEF Size, Charged
<1>3. SumFunction(totals) \in Nat /\ SumFunction(exclusives) \in Nat
  <2>1. /\ DOMAIN totals = DOMAIN kids /\ DOMAIN exclusives = DOMAIN kids
        /\ \A k \in DOMAIN kids : totals[k] \in Nat /\ exclusives[k] \in Nat
    BY <1>2
  <2> HIDE DEF totals, exclusives, kids
  <2> QED
    BY <1>1, <2>1, SumTyped
<1>4. OwnSize(s, view, n) \in Size
  BY OwnSizeTyped, ShownNodes
<1>5. sums \in Size
  <2> HIDE DEF totals, exclusives
  <2> QED
    BY <1>3 DEF Size
<1> HIDE DEF sums
<1>6. own \in Size
  BY <1>4, <1>5
<1>7. s.layers \in Int
  BY SnapshotSizes
<1> HIDE DEF own
<1> QED
  BY <1>0, <1>6, <1>7 DEF Size

\* There are four levels.
LEMMA LevelTyped == \A n : Level(n) \in 0..3
  BY DEF Level

\* The children of a node of a tree lie below it.
LEMMA KidsBelow ==
  ASSUME NEW s \in ToSet(Snapshots), NEW view \in Layouts, NEW t, Shows(s, view, t),
         NEW n \in Nodes(t), NEW k \in DOMAIN Kids(t, n)
  PROVE  Kids(t, n)[k] \in Nodes(t) /\ Level(n) < Level(Kids(t, n)[k])
<1>1. n \in DOMAIN t /\ Kids(t, n) = t[n]
  BY DEF Kids
<1>2. n \in Inner(s, view)
  BY <1>1 DEF Shows
<1>3. t[n][k] \in Under(s, view, n) /\ t[n][k] \in Nodes(t)
  BY <1>1, ShownNodes
<1> QED
  BY <1>1, <1>2, <1>3, LevelsGrow

\* The recursion of Sizes has a solution: computeSizes gives every node a size, and
\* it is the one its children make.
LEMMA SizesDefined ==
  ASSUME NEW s \in ToSet(Snapshots), NEW view \in Layouts, NEW t, Shows(s, view, t)
  PROVE  \A n \in Nodes(t) : /\ Sizes(s, view, t)[n] = SizeFrom(s, view, t, Sizes(s, view, t), n)
                             /\ Sizes(s, view, t)[n] \in Size
<1> DEFINE N == Nodes(t)
           height == [n \in N |-> 3 - Level(n)]
           F == [p \in [N -> Size] \X N |-> SizeFrom(s, view, t, p[1], p[2])]
           size == Sizes(s, view, t)
           Of(h) == [n \in N |-> SizeFrom(s, view, t, h, n)]
<1>1. height \in [N -> 0..3]
  BY LevelTyped
<1>2. \A n \in N : \A k \in DOMAIN Kids(t, n) : Kids(t, n)[k] \in N /\ height[Kids(t, n)[k]] < height[n]
  BY KidsBelow, LevelTyped
<1>3. F \in [[N -> Size] \X N -> Size]
  <2>1. ASSUME NEW h \in [N -> Size], NEW n \in N PROVE SizeFrom(s, view, t, h, n) \in Size
    <3>1. \A k \in DOMAIN Kids(t, n) : h[Kids(t, n)[k]] \in Size
      BY <1>2
    <3> HIDE DEF N
    <3> QED
      BY <3>1, SizeFromTyped DEF N
  <2> HIDE DEF N
  <2> QED
    BY <2>1
<1>4. ASSUME NEW g \in [N -> Size], NEW h \in [N -> Size], NEW n \in N,
             \A m \in N : height[m] < height[n] => g[m] = h[m]
      PROVE  F[<<g, n>>] = F[<<h, n>>]
  <2>1. \A k \in DOMAIN Kids(t, n) : g[Kids(t, n)[k]] = h[Kids(t, n)[k]]
    BY <1>2, <1>4
  <2>2. SizeFrom(s, view, t, g, n) = SizeFrom(s, view, t, h, n)
    <3> DEFINE kids == Kids(t, n)
    <3>1. /\ [k \in DOMAIN kids |-> Charged(kids[k], g[kids[k]])]
               = [k \in DOMAIN kids |-> Charged(kids[k], h[kids[k]])]
          /\ [k \in DOMAIN kids |-> g[kids[k]].exclusive]
               = [k \in DOMAIN kids |-> h[kids[k]].exclusive]
      BY <2>1
    <3> HIDE DEF kids
    <3> QED
      BY <3>1 DEF SizeFrom, kids
  <2> HIDE DEF N
  <2> QED
    BY <2>2
<1>5. Size # {}
  <2>1. [total |-> 0, exclusive |-> 0] \in Size
    BY DEF Size
  <2> QED
    BY <2>1
<1>6. size = CHOOSE h : h = Of(h)
  BY DEF Sizes, SizeFrom
<1> HIDE DEF size, Of, F, height, N
<1>7. PICK h \in [N -> Size] : \A n \in N : h[n] = F[<<h, n>>]
  <2>1. \A g, h \in [N -> Size], n \in N :
          (\A m \in N : height[m] < height[n] => g[m] = h[m]) => F[<<g, n>>] = F[<<h, n>>]
    BY <1>4
  <2>2. LevelByLevel(N, height, Size, F)
    BY <1>1, <1>3, <1>5, <2>1 DEF LevelByLevel
  <2>3. Solved(N, Size, F)
    BY <2>2, LevelsDefine
  <2> QED
    BY <2>3 DEF Solved
<1>8. h = Of(h)
  BY <1>7 DEF Of, F
<1>9. size = Of(size)
  BY <1>6, <1>8
<1>10. \A n \in N : size[n] = SizeFrom(s, view, t, size, n)
  BY <1>9 DEF Of
<1> DEFINE C == {n \in N : size[n] \in Size}
<1>11. ASSUME NEW n \in N, \A m \in N : height[m] < height[n] => m \in C
       PROVE  n \in C
  <2>1. \A k \in DOMAIN Kids(t, n) : size[Kids(t, n)[k]] \in Size
    BY <1>2, <1>11
  <2>2. SizeFrom(s, view, t, size, n) \in Size
    BY <2>1, SizeFromTyped DEF N
  <2> QED
    BY <1>10, <2>2
<1>12. N \subseteq C
  <2> HIDE DEF C
  <2> QED
    BY <1>1, <1>11, LevelsInduce
<1> QED
  BY <1>10, <1>12 DEF N, size

\* What Sort goes by.
Key(s, view, t, by, n) ==
  CASE by = "size" -> - Sizes(s, view, t)[n].exclusive
    [] by = "count" -> - Len(Kids(t, n))
    [] by = "name" -> Rank[n.id]

\* The orders that s goes through.
Orders == {"size", "count", "name"}

\* Every node but the root can be compared.
LEMMA KeyTyped ==
  ASSUME NEW s \in ToSet(Snapshots), NEW view \in Layouts, NEW t, Shows(s, view, t),
         Trees(s, view) # {}, NEW by \in Orders, NEW n \in Nodes(t) \ {Root(view)}
  PROVE  Key(s, view, t, by, n) \in Int
<1>1. Sizes(s, view, t)[n].exclusive \in Nat
  BY SizesDefined DEF Size
<1>2. Len(Kids(t, n)) \in Nat
  <2>1. Kids(t, n) = <<>> \/ Kids(t, n) \in Seq(Under(s, view, n))
    BY DEF Kids, Shows
  <2> QED
    BY <2>1
<1>3. Rank[n.id] \in Int
  <2>1. PICK b \in Trees(s, view) : TRUE
    OBVIOUS
  <2>2. Nodes(b) = Nodes(t)
    BY <2>1, TreesShow, ShownNodes
  <2> QED
    BY <2>2, RankAssumption
<1> QED
  BY <1>1, <1>2, <1>3 DEF Key, Orders

\* Sort keeps the children of every node and changes their order.
LEMMA SortShows ==
  ASSUME NEW s \in ToSet(Snapshots), NEW view \in Layouts, NEW t, Shows(s, view, t),
         Trees(s, view) # {}, NEW by \in Orders
  PROVE  /\ Shows(s, view, Sort(s, view, t, by))
         /\ \A n \in DOMAIN t : DOMAIN Sort(s, view, t, by)[n] = DOMAIN t[n]
<1> DEFINE sorted == Sort(s, view, t, by)
<1>1. ASSUME NEW n \in DOMAIN t
      PROVE  /\ sorted[n] \in Seq(Under(s, view, n))
             /\ ToSet(sorted[n]) = Under(s, view, n)
             /\ OnceEach(sorted[n])
  <2> DEFINE q == t[n]
             N == Len(q)
             key == [k \in 1..N |-> Key(s, view, t, by, q[k])]
             p == [r \in 1..N |-> CHOOSE k \in 1..N :
                     Cardinality({j \in 1..N : \/ key[j] < key[k]
                                               \/ ~(key[k] < key[j]) /\ j < k}) = r - 1]
  <2>1. /\ q \in Seq(Under(s, view, n)) /\ ToSet(q) = Under(s, view, n) /\ OnceEach(q)
        /\ n \in Inner(s, view)
    BY DEF Shows
  <2>2. DOMAIN q = 1..N /\ N \in Nat
    BY <2>1
  <2>3. \A k \in 1..N : q[k] \in Nodes(t) \ {Root(view)}
    <3>1. \A k \in 1..N : q[k] \in Under(s, view, n) /\ q[k] \in Nodes(t)
      BY <2>2, ShownNodes
    <3>2. \A c \in Under(s, view, n) : Level(n) < Level(c) /\ Level(n) \in 0..2
      BY <2>1, LevelsGrow
    <3> QED
      BY <3>1, <3>2, NodeShapes
  <2>4. key \in [1..N -> Int]
    <3> HIDE DEF q, N
    <3> QED
      BY <2>3, KeyTyped
  <2>5. \A k \in 1..N : /\ Sizes(s, view, t)[q[k]].exclusive \in Nat
                        /\ Len(Kids(t, q[k])) \in Nat
    <3>1. \A m \in Nodes(t) : Sizes(s, view, t)[m].exclusive \in Nat
      BY SizesDefined DEF Size
    <3>2. \A m \in Nodes(t) : Len(Kids(t, m)) \in Nat
      <4> SUFFICES ASSUME NEW m \in Nodes(t) PROVE Len(Kids(t, m)) \in Nat
        OBVIOUS
      <4>1. Kids(t, m) = <<>> \/ Kids(t, m) \in Seq(Under(s, view, m))
        BY DEF Kids, Shows
      <4> QED
        BY <4>1
    <3> HIDE DEF q, N
    <3> QED
      BY <2>3, <3>1, <3>2
  <2> DEFINE size == Sizes(s, view, t)
             before(a, b) ==
               CASE by = "size" -> size[a].exclusive > size[b].exclusive
                 [] by = "count" -> Len(Kids(t, a)) > Len(Kids(t, b))
                 [] by = "name" -> Rank[a.id] < Rank[b.id]
  <2>6. \A j, k \in 1..N : before(q[j], q[k]) <=> key[j] < key[k]
    <3> HIDE DEF q, N, size
    <3>1. CASE by = "size"
      <4>1. \A j \in 1..N : key[j] = - size[q[j]].exclusive
        BY <3>1 DEF Key, size
      <4>2. \A j \in 1..N : size[q[j]].exclusive \in Nat
        BY <2>5 DEF size
      <4>3. \A j, k \in 1..N : before(q[j], q[k]) <=> size[q[j]].exclusive > size[q[k]].exclusive
        BY <3>1
      <4> HIDE DEF before, key
      <4> QED
        BY <4>1, <4>2, <4>3
    <3>2. CASE by = "count"
      <4>1. \A j \in 1..N : key[j] = - Len(Kids(t, q[j]))
        BY <3>2 DEF Key
      <4>2. \A j \in 1..N : Len(Kids(t, q[j])) \in Nat
        BY <2>5
      <4>3. \A j, k \in 1..N : before(q[j], q[k]) <=> Len(Kids(t, q[j])) > Len(Kids(t, q[k]))
        BY <3>2
      <4> HIDE DEF before, key
      <4> QED
        BY <4>1, <4>2, <4>3
    <3>3. CASE by = "name"
      BY <3>3 DEF Key
    <3> QED
      BY <3>1, <3>2, <3>3 DEF Orders
  <2> DEFINE ahead(kids, a, b) ==
               before(kids[a], kids[b]) \/ (~before(kids[b], kids[a]) /\ a < b)
  <2>7. sorted[n] = [r \in DOMAIN q |->
                       q[CHOOSE k \in DOMAIN q : Cardinality({j \in DOMAIN q : ahead(q, j, k)}) = r - 1]]
    BY DEF Sort
  <2> HIDE DEF sorted
  <2>8. sorted[n] = Through(q, N, p)
    <3> HIDE DEF before, key, N, q
    <3>1. \A k \in 1..N : {j \in 1..N : ahead(q, j, k)}
                            = {j \in 1..N : key[j] < key[k] \/ (~(key[k] < key[j]) /\ j < k)}
      BY <2>6
    <3> DEFINE A(k) == {j \in 1..N : ahead(q, j, k)}
               B(k) == {j \in 1..N : key[j] < key[k] \/ (~(key[k] < key[j]) /\ j < k)}
               P(r) == CHOOSE k \in 1..N : Cardinality(A(k)) = r - 1
               Q(r) == CHOOSE k \in 1..N : Cardinality(B(k)) = r - 1
    <3>2. sorted[n] = [r \in 1..N |-> q[P(r)]]
      BY <2>2, <2>7
    <3>3. \A r \in 1..N : p[r] = Q(r)
      OBVIOUS
    <3>4. \A k \in 1..N : A(k) = B(k)
      BY <3>1
    <3>5. \A r : P(r) = Q(r)
      <4> HIDE DEF A, B
      <4> QED
        BY <3>4
    <3> HIDE DEF p, P, ahead
    <3> HIDE DEF Q
    <3> QED
      BY <3>2, <3>3, <3>5 DEF Through
  <2>9. p \in Bijection(1..N, 1..N)
    <3> HIDE DEF key, N
    <3> QED
      BY <2>2, <2>4, KeySorts
  <2> HIDE DEF p, q, N
  <2>10. /\ Through(q, N, p) \in Seq(ToSet(q))
         /\ ToSet(Through(q, N, p)) = ToSet(q)
         /\ OnceEach(q) => OnceEach(Through(q, N, p))
    BY <2>2, <2>9, Rearranged
  <2> QED
    BY <2>1, <2>8, <2>10
<1>2. DOMAIN sorted = DOMAIN t
  BY DEF Sort
<1>3. \A n \in DOMAIN t : DOMAIN sorted[n] = DOMAIN t[n]
  BY DEF Sort
<1> HIDE DEF sorted
<1> QED
  BY <1>1, <1>2, <1>3 DEF Shows, sorted

(***************************************************************************)
(* Frames.  The path to a node is a recursion towards the root.            *)
(***************************************************************************)

\* The frames that point at a child, or at the first line of a node without any.
Positions(q) == 1..(IF Len(q) = 0 THEN 1 ELSE Len(q))
Frames(t) == UNION {{Frame(n, k) : k \in Positions(t[n])} : n \in DOMAIN t}

\* Where in a list of children a node stands.
PlaceIn(q, c) == SelectInSeq(q, LAMBDA k : k = c)

\* It stands there.
LEMMA PlaceIsThere ==
  ASSUME NEW S, NEW q \in Seq(S), NEW c, Contains(q, c)
  PROVE  PlaceIn(q, c) \in DOMAIN q /\ q[PlaceIn(q, c)] = c /\ PlaceIn(q, c) \in Positions(q)
<1> DEFINE I == {i \in 1..Len(q) : q[i] = c}
<1>1. PlaceIn(q, c) = IF I # {} THEN Min(I) ELSE 0
  BY DEF PlaceIn, SelectInSeq
<1>2. I # {}
  BY DEF Contains
<1>3. I \subseteq Nat
  OBVIOUS
<1> HIDE DEF I
<1>4. PlaceIn(q, c) \in I
  BY <1>1, <1>2, <1>3, MinIsLeast
<1>5. PlaceIn(q, c) \in 1..Len(q) /\ q[PlaceIn(q, c)] = c /\ Len(q) \in Nat /\ DOMAIN q = 1..Len(q)
  BY <1>4 DEF I
<1> QED
  BY <1>5 DEF Positions

\* The nodes that a node is a child of.
Parents(t, n) == {p \in DOMAIN t : Contains(t[p], n)}

\* They lie above it.
LEMMA ParentsAre ==
  ASSUME NEW s \in ToSet(Snapshots), NEW view \in Layouts, NEW t, Shows(s, view, t),
         NEW n \in Nodes(t)
  PROVE  /\ \A p \in Parents(t, n) : /\ Level(p) < Level(n) /\ p \in Nodes(t)
                                     /\ n \in Under(s, view, p)
         /\ n # Root(view) => Parents(t, n) # {}
<1>1. \A p \in DOMAIN t : /\ t[p] \in Seq(Under(s, view, p)) /\ ToSet(t[p]) = Under(s, view, p)
                          /\ p \in Inner(s, view)
  BY DEF Shows
<1>2. \A p \in DOMAIN t : Contains(t[p], n) <=> n \in Under(s, view, p)
  <2> SUFFICES ASSUME NEW p \in DOMAIN t PROVE Contains(t[p], n) <=> n \in ToSet(t[p])
    BY <1>1
  <2>1. DOMAIN t[p] = 1..Len(t[p])
    BY <1>1
  <2> QED
    BY <2>1 DEF Contains, ToSet
<1>3. \A p \in Parents(t, n) : /\ Level(p) < Level(n) /\ p \in Nodes(t) /\ n \in Under(s, view, p)
  BY <1>1, <1>2, LevelsGrow DEF Parents, Nodes
<1>4. ASSUME n # Root(view) PROVE Parents(t, n) # {}
  <2>1. PICK p \in Inner(s, view) : n \in Under(s, view, p)
    BY <1>4, ShownNodes, HasParent DEF Everything
  <2>2. p \in DOMAIN t
    BY DEF Shows
  <2> QED
    BY <1>2, <2>1, <2>2 DEF Parents
<1> QED
  BY <1>3, <1>4

\* One step of the recursion of PathTo.
PathFrom(t, path, n) ==
  IF Parents(t, n) = {} THEN <<>>
  ELSE LET p == CHOOSE q \in Parents(t, n) : TRUE
       IN Append(path[p], Frame(p, PlaceIn(t[p], n)))

\* The frame it adds is in range and points at the node.
LEMMA StepInRange ==
  ASSUME NEW s \in ToSet(Snapshots), NEW view \in Layouts, NEW t, Shows(s, view, t),
         NEW n \in Nodes(t), NEW p \in Parents(t, n)
  PROVE  /\ PlaceIn(t[p], n) \in DOMAIN t[p] /\ t[p][PlaceIn(t[p], n)] = n
         /\ Frame(p, PlaceIn(t[p], n)) \in Frames(t)
<1>1. p \in DOMAIN t /\ Contains(t[p], n) /\ t[p] \in Seq(Under(s, view, p))
  BY DEF Parents, Shows
<1>2. /\ PlaceIn(t[p], n) \in DOMAIN t[p] /\ t[p][PlaceIn(t[p], n)] = n
      /\ PlaceIn(t[p], n) \in Positions(t[p])
  BY <1>1, PlaceIsThere
<1> QED
  BY <1>1, <1>2 DEF Frames

\* Whether the frames are in range and the last selects the node.
LeadsTo(t, q, n) ==
  /\ q # <<>> /\ Last(q).node \in DOMAIN t
  /\ Last(q).selected \in DOMAIN t[Last(q).node]
  /\ t[Last(q).node][Last(q).selected] = n

\* restoreSelection's path is in range from the root on and ends on the node.
LEMMA PathLeads ==
  ASSUME NEW s \in ToSet(Snapshots), NEW view \in Layouts, NEW t, Shows(s, view, t),
         NEW node \in Nodes(t)
  PROVE  /\ PathTo(t, node) \in Seq(Frames(t))
         /\ node # Root(view) => LeadsTo(t, PathTo(t, node), node)
<1> DEFINE N == Nodes(t)
           T == Seq(Frames(t))
           level == [n \in N |-> Level(n)]
           F == [p \in [N -> T] \X N |-> PathFrom(t, p[1], p[2])]
           Of(h) == [n \in N |-> PathFrom(t, h, n)]
           path == CHOOSE h : h = Of(h)
           p(n) == CHOOSE q \in Parents(t, n) : TRUE
<1>1. \A h, n : PathFrom(t, h, n) = IF Parents(t, n) = {} THEN <<>>
                                    ELSE Append(h[p(n)], Frame(p(n), PlaceIn(t[p(n)], n)))
  BY DEF PathFrom
<1>2. ASSUME NEW n \in N, Parents(t, n) # {}
      PROVE  /\ p(n) \in Parents(t, n) /\ p(n) \in N /\ level[p(n)] < level[n]
             /\ Frame(p(n), PlaceIn(t[p(n)], n)) \in Frames(t)
  <2>1. p(n) \in Parents(t, n)
    BY <1>2
  <2> HIDE DEF p
  <2>2. p(n) \in N /\ Level(p(n)) < Level(n)
    BY <2>1, ParentsAre
  <2> QED
    BY <2>1, <2>2, StepInRange
<1>3. level \in [N -> 0..3]
  BY LevelTyped
<1>4. PathTo(t, node) = path[node]
  BY DEF PathTo, PathFrom, Parents, PlaceIn
<1> HIDE DEF p, level, N
<1>5. ASSUME NEW h, NEW n \in N, Parents(t, n) # {} => h[p(n)] \in T
      PROVE  PathFrom(t, h, n) \in T
  <2> DEFINE R == Frames(t)
             f == Frame(p(n), PlaceIn(t[p(n)], n))
  <2>1. Parents(t, n) # {} => h[p(n)] \in Seq(R) /\ f \in R
    BY <1>2, <1>5
  <2>2. PathFrom(t, h, n) = IF Parents(t, n) = {} THEN <<>> ELSE Append(h[p(n)], f)
    BY <1>1
  <2> HIDE DEF R, f
  <2>3. PathFrom(t, h, n) \in Seq(R)
    BY <2>1, <2>2
  <2> QED
    BY <2>3 DEF R
<1>6. T # {}
  <2>1. <<>> \in T
    OBVIOUS
  <2> QED
    BY <2>1
<1> HIDE DEF T
<1>7. F \in [[N -> T] \X N -> T]
  <2>1. \A h \in [N -> T], n \in N : PathFrom(t, h, n) \in T
    BY <1>2, <1>5
  <2> QED
    BY <2>1
<1>8. ASSUME NEW g \in [N -> T], NEW h \in [N -> T], NEW n \in N,
             \A m \in N : level[m] < level[n] => g[m] = h[m]
      PROVE  F[<<g, n>>] = F[<<h, n>>]
  <2>1. Parents(t, n) # {} => g[p(n)] = h[p(n)]
    BY <1>2, <1>8
  <2>2. PathFrom(t, g, n) = PathFrom(t, h, n)
    BY <1>1, <2>1
  <2> QED
    BY <2>2
<1> HIDE DEF F
<1>9. Solved(N, T, F)
  <2>1. \A g, h \in [N -> T], n \in N :
          (\A m \in N : level[m] < level[n] => g[m] = h[m]) => F[<<g, n>>] = F[<<h, n>>]
    BY <1>8
  <2>2. LevelByLevel(N, level, T, F)
    BY <1>3, <1>6, <1>7, <2>1 DEF LevelByLevel
  <2> QED
    BY <2>2, LevelsDefine
<1>10. PICK h \in [N -> T] : \A n \in N : h[n] = F[<<h, n>>]
  BY <1>9 DEF Solved
<1>11. h = Of(h)
  BY <1>10 DEF F
<1>12. path = Of(path)
  <2> HIDE DEF Of
  <2> QED
    BY <1>11
<1> HIDE DEF path
<1>13. \A n \in N : path[n] = PathFrom(t, path, n)
  BY <1>12
<1> DEFINE C == {n \in N : path[n] \in T}
<1>14. ASSUME NEW n \in N, \A m \in N : level[m] < level[n] => m \in C
       PROVE  n \in C
  <2>1. Parents(t, n) # {} => path[p(n)] \in T
    BY <1>2, <1>14
  <2>2. PathFrom(t, path, n) \in T
    BY <2>1, <1>5
  <2> QED
    BY <1>13, <2>2
<1>15. N \subseteq C
  <2> HIDE DEF C
  <2> QED
    BY <1>3, <1>14, LevelsInduce
<1>16. node \in N
  BY DEF N
<1>17. ASSUME node # Root(view) PROVE LeadsTo(t, path[node], node)
  <2> DEFINE R == Frames(t)
             q == p(node)
             f == Frame(q, PlaceIn(t[q], node))
  <2>1. Parents(t, node) # {}
    BY <1>17, ParentsAre
  <2>2. q \in Parents(t, node) /\ q \in N /\ f \in R
    BY <1>2, <1>16, <2>1
  <2>3. path[node] = Append(path[q], f)
    BY <1>1, <1>13, <1>16, <2>1
  <2>4. path[q] \in Seq(R)
    BY <1>15, <2>2 DEF T
  <2>5. PlaceIn(t[q], node) \in DOMAIN t[q] /\ t[q][PlaceIn(t[q], node)] = node /\ q \in DOMAIN t
    BY <2>2, StepInRange DEF Parents
  <2>6. f.node = q /\ f.selected = PlaceIn(t[q], node)
    BY DEF Frame
  <2> HIDE DEF R, q, f
  <2>7. path[node] # <<>> /\ Last(path[node]) = f
    BY <2>2, <2>3, <2>4 DEF Last
  <2> QED
    BY <2>5, <2>6, <2>7 DEF LeadsTo
<1> QED
  BY <1>4, <1>15, <1>16, <1>17 DEF T

(***************************************************************************)
(* The inductive invariant: the tree on the screen shows the last snapshot *)
(* in the layout chosen, in some order, and every frame points into it.    *)
(* The shape of the tree has to be part of it, since every key builds on   *)
(* the tree that is there.                                                 *)
(***************************************************************************)

\* The inductive invariant.
AtlasInv ==
  /\ snap \in {0} \cup DOMAIN Snapshots /\ layout \in Layouts /\ sortBy \in Orders
  /\ snap = 0 => tree = NoTree /\ stack = <<>>
  /\ snap # 0 => /\ Trees(Snapshots[snap], layout) # {}
                 /\ Shows(Snapshots[snap], layout, tree)
                 /\ stack \in Seq(Frames(tree)) /\ stack # <<>>

\* Snapshots are numbered from 1, so that 0 stands for none.
LEMMA IndexOfSnapshot == \A k \in DOMAIN Snapshots : k # 0 /\ Snapshots[k] \in ToSet(Snapshots)
<1>1. DOMAIN Snapshots = 1..Len(Snapshots) /\ Len(Snapshots) \in Nat
  BY SnapshotsAssumption
<1> QED
  BY <1>1 DEF ToSet

\* A node has one mark or none.
LEMMA MarksOfOne ==
  ASSUME NEW view
  PROVE  /\ \A n : MarksOf({n}, view) # {} => n.kind # "root" /\ \E x : MarksOf({n}, view) = {x}
         /\ MarksOf({}, view) = {}
BY DEF MarksOf

\* What is marked of some nodes is marked of one of them.
LEMMA MarksOfSome ==
  ASSUME NEW view, NEW S, NEW x
  PROVE  x \in MarksOf(S, view) <=> \E n \in S : MarksOf({n}, view) = {x}
BY DEF MarksOf

\* What a frame in range consists of.
LEMMA FramesAre ==
  ASSUME NEW t
  PROVE  \A f \in Frames(t) : /\ f.node \in DOMAIN t /\ f.selected \in Positions(t[f.node])
                              /\ f = Frame(f.node, f.selected)
BY DEF Frames, Frame

\* The frame on the root is in range.
LEMMA TopOfRoot ==
  ASSUME NEW s, NEW view \in Layouts, NEW t, Shows(s, view, t)
  PROVE  <<Frame(Root(view), 1)>> \in Seq(Frames(t))
<1>1. Root(view) \in DOMAIN t
  BY DEF Shows, Inner, Layouts
<1>2. 1 \in Positions(t[Root(view)])
  <2>1. Len(t[Root(view)]) \in Nat
    BY <1>1 DEF Shows
  <2> QED
    BY <2>1 DEF Positions
<1>3. Frame(Root(view), 1) \in Frames(t)
  BY <1>1, <1>2 DEF Frames
<1> QED
  BY <1>3

\* restoreSelection leaves frames in range ...
LEMMA RestoredInRange ==
  ASSUME NEW s \in ToSet(Snapshots), NEW view \in Layouts, NEW t, Shows(s, view, t),
         NEW marks, NEW otherwise \in Seq(Frames(t)), otherwise # <<>>
  PROVE  /\ Restored(t, view, marks, otherwise) \in Seq(Frames(t))
         /\ Restored(t, view, marks, otherwise) # <<>>
<1> DEFINE found == {n \in Nodes(t) : MarksOf({n}, view) # {} /\ MarksOf({n}, view) \subseteq marks}
           c == CHOOSE n \in found : TRUE
<1>1. Restored(t, view, marks, otherwise) = IF found = {} THEN otherwise ELSE PathTo(t, c)
  BY DEF Restored
<1>2. ASSUME found # {}
      PROVE  PathTo(t, c) \in Seq(Frames(t)) /\ PathTo(t, c) # <<>>
  <2>1. c \in found
    BY <1>2
  <2> HIDE DEF c
  <2>2. c \in Nodes(t) /\ c.kind # "root"
    BY <2>1, MarksOfOne
  <2>3. c # Root(view)
    BY <2>2, NodeShapes
  <2> QED
    BY <2>2, <2>3, PathLeads DEF LeadsTo
<1> HIDE DEF found, c
<1> QED
  BY <1>1, <1>2

\* ... and the last of them on a node with the mark it was asked for, if there is
\* one.
LEMMA RestoredFinds ==
  ASSUME NEW s \in ToSet(Snapshots), NEW view \in Layouts, NEW t, Shows(s, view, t),
         NEW x, x \in MarksOf(Nodes(t), view), NEW otherwise
  PROVE  \E c : LeadsTo(t, Restored(t, view, {x}, otherwise), c) /\ MarksOf({c}, view) = {x}
<1> DEFINE found == {n \in Nodes(t) : MarksOf({n}, view) # {} /\ MarksOf({n}, view) \subseteq {x}}
           c == CHOOSE n \in found : TRUE
<1>1. Restored(t, view, {x}, otherwise) = IF found = {} THEN otherwise ELSE PathTo(t, c)
  BY DEF Restored
<1>2. found # {}
  <2>1. PICK n \in Nodes(t) : MarksOf({n}, view) = {x}
    <3> DEFINE N == Nodes(t)
    <3>1. x \in MarksOf(N, view)
      OBVIOUS
    <3> HIDE DEF N
    <3>2. \E n \in N : MarksOf({n}, view) = {x}
      BY <3>1, MarksOfSome
    <3> QED
      BY <3>2 DEF N
  <2> QED
    BY <2>1
<1>3. c \in found
  BY <1>2
<1> HIDE DEF c
<1>4. c \in Nodes(t) /\ c.kind # "root" /\ MarksOf({c}, view) = {x}
  <2>1. c \in Nodes(t) /\ MarksOf({c}, view) # {} /\ MarksOf({c}, view) \subseteq {x}
    BY <1>3
  <2>2. c.kind # "root" /\ \E y : MarksOf({c}, view) = {y}
    BY <2>1, MarksOfOne
  <2> QED
    BY <2>1, <2>2
<1>5. c # Root(view)
  BY <1>4, NodeShapes
<1> HIDE DEF found
<1>6. LeadsTo(t, PathTo(t, c), c)
  BY <1>4, <1>5, PathLeads
<1> QED
  BY <1>1, <1>2, <1>4, <1>6

\* What rebuildTree leaves.
LEMMA RebuildShows ==
  ASSUME AtlasInv, NEW s \in DOMAIN Snapshots, NEW view \in Layouts, Rebuild(s, view)
  PROVE  /\ Trees(Snapshots[s], view) # {} /\ Shows(Snapshots[s], view, tree')
         /\ stack' \in Seq(Frames(tree')) /\ stack' # <<>>
<1>1. Snapshots[s] \in ToSet(Snapshots)
  BY IndexOfSnapshot
<1>2. PICK t \in Trees(Snapshots[s], view) : tree' = Sort(Snapshots[s], view, t, sortBy)
  BY DEF Rebuild
<1>3. Shows(Snapshots[s], view, tree')
  BY <1>1, <1>2, TreesShow, SortShows DEF AtlasInv
<1>4. <<Frame(Root(view), 1)>> \in Seq(Frames(tree')) /\ <<Frame(Root(view), 1)>> # <<>>
  BY <1>1, <1>3, TopOfRoot
<1>5. stack' = Restored(tree', view, MarksOf(Selected, layout), <<Frame(Root(view), 1)>>)
  BY DEF Rebuild
<1> QED
  BY <1>1, <1>2, <1>3, <1>4, <1>5, RestoredInRange

\* Another order leaves the frames in range.
LEMMA ResortShows ==
  ASSUME AtlasInv, CycleSort, snap # 0
  PROVE  /\ Shows(Snapshots[snap], layout, tree')
         /\ stack' \in Seq(Frames(tree')) /\ stack' # <<>>
<1> DEFINE s == Snapshots[snap]
<1>1. s \in ToSet(Snapshots) /\ Trees(s, layout) # {} /\ Shows(s, layout, tree) /\ layout \in Layouts
  BY IndexOfSnapshot DEF AtlasInv
<1>2. sortBy' \in Orders
  BY DEF AtlasInv, CycleSort, NextSort, Orders
<1>3. tree' = Sort(s, layout, tree, sortBy')
  BY DEF CycleSort
<1> HIDE DEF s
<1>4. Shows(s, layout, tree') /\ \A n \in DOMAIN tree : DOMAIN tree'[n] = DOMAIN tree[n]
  BY <1>1, <1>2, <1>3, SortShows
<1>5. Frames(tree') = Frames(tree)
  <2>1. DOMAIN tree = Inner(s, layout) /\ DOMAIN tree' = Inner(s, layout)
    BY <1>1, <1>4 DEF Shows
  <2>2. \A n \in DOMAIN tree : Len(tree'[n]) = Len(tree[n])
    <3> SUFFICES ASSUME NEW n \in DOMAIN tree PROVE Len(tree'[n]) = Len(tree[n])
      OBVIOUS
    <3>1. tree[n] \in Seq(Under(s, layout, n)) /\ tree'[n] \in Seq(Under(s, layout, n))
      BY <1>1, <1>4, <2>1 DEF Shows
    <3>2. DOMAIN tree[n] = 1..Len(tree[n]) /\ DOMAIN tree'[n] = 1..Len(tree'[n])
          /\ Len(tree[n]) \in Nat /\ Len(tree'[n]) \in Nat
      BY <3>1
    <3> QED
      BY <1>4, <3>2
  <2> QED
    BY <2>1, <2>2 DEF Frames, Positions
<1>6. stack \in Seq(Frames(tree')) /\ stack # <<>>
  BY <1>5 DEF AtlasInv
<1>7. stack' = Restored(tree', layout, MarksOf(Selected, layout), stack)
  BY DEF CycleSort
<1>8. stack' \in Seq(Frames(tree')) /\ stack' # <<>>
  BY <1>1, <1>4, <1>6, <1>7, RestoredInRange
<1> QED
  BY <1>4, <1>8 DEF s

\* An action that changes only the frames keeps the invariant if they stay in range.
LEMMA StackKept ==
  ASSUME AtlasInv, UNCHANGED <<snap, layout, sortBy, tree>>,
         stack # <<>>, stack' \in Seq(Frames(tree)), stack' # <<>>
  PROVE  AtlasInv'
<1>1. snap # 0
  BY DEF AtlasInv
<1> QED
  BY <1>1 DEF AtlasInv

\* The children of the node of the top frame.
LEMMA TopAre ==
  ASSUME AtlasInv, stack # <<>>
  PROVE  /\ snap # 0 /\ stack \in Seq(Frames(tree)) /\ Len(stack) \in Nat \ {0}
         /\ Top \in Frames(tree) /\ Top = stack[Len(stack)]
         /\ Top.node \in DOMAIN tree /\ TopKids = tree[Top.node]
         /\ TopKids \in Seq(Under(Snapshots[snap], layout, Top.node))
         /\ Top.selected \in Positions(TopKids)
<1> DEFINE R == Frames(tree)
<1>1. snap # 0 /\ stack \in Seq(R) /\ Shows(Snapshots[snap], layout, tree)
  BY DEF AtlasInv
<1>2. Len(stack) \in Nat \ {0} /\ Top = stack[Len(stack)] /\ Top \in R
  <2> HIDE DEF R
  <2> QED
    BY <1>1 DEF Top, Last
<1>3. Top.node \in DOMAIN tree /\ Top.selected \in Positions(tree[Top.node])
  BY <1>2, FramesAre
<1>4. TopKids = tree[Top.node]
  BY <1>3 DEF TopKids, Kids
<1>5. tree[Top.node] \in Seq(Under(Snapshots[snap], layout, Top.node))
  BY <1>1, <1>3 DEF Shows
<1> QED
  BY <1>1, <1>2, <1>3, <1>4, <1>5

\* The cursor keys move within the children.
LEMMA CursorKept ==
  ASSUME AtlasInv, NEW position, SetCursor(position), position \in Positions(TopKids)
  PROVE  AtlasInv'
<1> DEFINE R == Frames(tree)
           moved == Frame(Top.node, position)
<1>1. stack # <<>>
  BY DEF SetCursor
<1>2. /\ stack \in Seq(R) /\ Len(stack) \in Nat \ {0} /\ Top = stack[Len(stack)]
      /\ Top.node \in DOMAIN tree /\ TopKids = tree[Top.node] /\ Top \in R
  BY <1>1, TopAre
<1>3. moved \in R
  BY <1>2 DEF Frames
<1>4. stack' = [stack EXCEPT ![Len(stack)] = moved]
  <2>1. stack' = [stack EXCEPT ![Len(stack)].selected = position]
    BY DEF SetCursor
  <2>2. [Top EXCEPT !.selected = position] = moved
    <3>1. Top = Frame(Top.node, Top.selected)
      BY <1>2, FramesAre
    <3> QED
      BY <3>1 DEF Frame
  <2> QED
    BY <1>2, <2>1, <2>2
<1> HIDE DEF R, moved
<1>5. stack' \in Seq(R) /\ stack' # <<>>
  BY <1>2, <1>3, <1>4
<1> QED
  BY <1>1, <1>5, StackKept DEF R, SetCursor

\* One further or one back, but never beyond the ends.
LEMMA CursorBounds ==
  ASSUME NEW n \in Nat \ {0}, NEW k \in 1..n
  PROVE  Min({k + 1, n}) \in 1..n /\ Max({k - 1, 1}) \in 1..n
<1>1. {k + 1, n} \subseteq Nat /\ {k + 1, n} # {}
  OBVIOUS
<1>2. Min({k + 1, n}) \in {k + 1, n} /\ Min({k + 1, n}) <= n
  BY <1>1, MinIsLeast
<1>3. {k - 1, 1} \subseteq 0..n /\ {k - 1, 1} # {}
  OBVIOUS
<1>4. Max({k - 1, 1}) \in {k - 1, 1} /\ 1 <= Max({k - 1, 1})
  BY <1>3, MaxIsGreatest
<1> QED
  BY <1>2, <1>4

\* It holds before the first snapshot ...
LEMMA AtlasInvInit == Init => AtlasInv
BY DEF Init, AtlasInv, Layouts, Orders

\* ... and every key and every snapshot keeps it.
LEMMA AtlasInvNext == AtlasInv /\ [Next]_vars => AtlasInv'
<1> SUFFICES ASSUME AtlasInv, [Next]_vars PROVE AtlasInv'
  OBVIOUS
<1>1. ASSUME NEW s \in DOMAIN Snapshots, ShowSnapshot(s) PROVE AtlasInv'
  <2>1. Rebuild(s, layout) /\ layout \in Layouts
    BY <1>1 DEF ShowSnapshot, AtlasInv
  <2>2. /\ Trees(Snapshots[s], layout) # {} /\ Shows(Snapshots[s], layout, tree')
        /\ stack' \in Seq(Frames(tree')) /\ stack' # <<>>
    BY <2>1, RebuildShows
  <2>3. snap' = s /\ layout' = layout /\ sortBy' = sortBy /\ s # 0
    BY <1>1, IndexOfSnapshot DEF ShowSnapshot
  <2> QED
    BY <2>2, <2>3 DEF AtlasInv
<1>2. CASE ToggleLayout
  <2>1. layout' \in Layouts /\ snap' = snap /\ sortBy' = sortBy
    BY <1>2 DEF ToggleLayout, Layouts
  <2>2. CASE snap = 0
    BY <1>2, <2>1, <2>2 DEF ToggleLayout, AtlasInv
  <2>3. CASE snap # 0
    <3>1. Rebuild(snap, layout') /\ snap \in DOMAIN Snapshots
      BY <1>2, <2>3 DEF ToggleLayout, AtlasInv
    <3>2. /\ Trees(Snapshots[snap], layout') # {} /\ Shows(Snapshots[snap], layout', tree')
          /\ stack' \in Seq(Frames(tree')) /\ stack' # <<>>
      BY <2>1, <3>1, RebuildShows
    <3> QED
      BY <2>1, <2>3, <3>1, <3>2 DEF AtlasInv
  <2> QED
    BY <2>2, <2>3
<1>3. CASE CycleSort
  <2>1. snap' = snap /\ layout' = layout /\ sortBy' \in Orders
    BY <1>3 DEF CycleSort, NextSort, AtlasInv, Orders
  <2>2. CASE snap = 0
    <3>1. tree' = NoTree /\ stack = <<>>
      BY <1>3, <2>2 DEF CycleSort, AtlasInv
    <3>2. Nodes(NoTree) = {}
      BY DEF Nodes, NoTree
    <3>3. stack' = <<>>
      BY <1>3, <3>1, <3>2 DEF CycleSort, Restored
    <3> QED
      BY <2>1, <2>2, <3>1, <3>3 DEF AtlasInv
  <2>3. CASE snap # 0
    BY <1>3, <2>1, <2>3, ResortShows DEF AtlasInv
  <2> QED
    BY <2>2, <2>3
<1>4. CASE Down \/ Up \/ Home
  <2> DEFINE n == Len(TopKids)
  <2>1. stack # <<>> /\ TopKids # <<>>
    BY <1>4 DEF Down, Up, Home, SetCursor
  <2>2. /\ TopKids \in Seq(Under(Snapshots[snap], layout, Top.node))
        /\ Top.selected \in Positions(TopKids)
    BY <2>1, TopAre
  <2>3. n \in Nat \ {0} /\ Positions(TopKids) = 1..n
    BY <2>1, <2>2 DEF Positions
  <2> HIDE DEF n
  <2>4. Min({Top.selected + 1, n}) \in 1..n /\ Max({Top.selected - 1, 1}) \in 1..n /\ 1 \in 1..n
    <3> DEFINE k == Top.selected
    <3>1. k \in 1..n
      BY <2>2, <2>3
    <3> HIDE DEF k
    <3>2. Min({k + 1, n}) \in 1..n /\ Max({k - 1, 1}) \in 1..n
      BY <2>3, <3>1, CursorBounds
    <3> QED
      BY <2>3, <3>2 DEF k
  <2>5. \E position \in 1..n : SetCursor(position)
    BY <1>4, <2>4 DEF Down, Up, Home, n
  <2> QED
    BY <2>3, <2>5, CursorKept
<1>5. CASE Descend
  <2> DEFINE R == Frames(tree)
  <2>1. stack # <<>>
    BY <1>5 DEF Descend
  <2>2. PICK child \in Selected : Kids(tree, child) # <<>> /\ stack' = Append(stack, Frame(child, 1))
    BY <1>5 DEF Descend
  <2>3. child \in DOMAIN tree /\ Kids(tree, child) = tree[child]
    BY <2>2 DEF Kids
  <2>4. 1 \in Positions(tree[child])
    <3>1. tree[child] \in Seq(Under(Snapshots[snap], layout, child))
      BY <2>1, <2>3 DEF AtlasInv, Shows
    <3>2. Len(tree[child]) \in Nat
      BY <3>1
    <3> QED
      BY <3>2 DEF Positions
  <2>5. Frame(child, 1) \in R /\ stack \in Seq(R)
    BY <2>1, <2>3, <2>4, TopAre DEF Frames
  <2> HIDE DEF R
  <2>6. stack' \in Seq(R) /\ stack' # <<>>
    BY <2>2, <2>5
  <2> QED
    BY <1>5, <2>1, <2>6, StackKept DEF R, Descend
<1>6. CASE Ascend
  <2> DEFINE R == Frames(tree)
  <2>1. Len(stack) > 1 /\ stack' = SubSeq(stack, 1, Len(stack) - 1)
    BY <1>6 DEF Ascend, Front
  <2>2. stack # <<>>
    BY <2>1
  <2>3. stack \in Seq(R) /\ Len(stack) \in Nat
    BY <2>2, TopAre
  <2> HIDE DEF R
  <2>4. stack' \in Seq(R) /\ Len(stack') = Len(stack) - 1
    BY <2>1, <2>3
  <2>5. stack' # <<>>
    <3>1. Len(<<>>) = 0 /\ Len(stack') # 0
      BY <2>1, <2>3, <2>4
    <3> QED
      BY <3>1
  <2> QED
    BY <1>6, <2>2, <2>4, <2>5, StackKept DEF R, Ascend
<1>7. CASE UNCHANGED vars
  BY <1>7 DEF vars, AtlasInv
<1> QED
  BY <1>1, <1>2, <1>3, <1>4, <1>5, <1>6, <1>7 DEF Next

\* At all times m.root has the groups and objects of the snapshot on the screen in
\* the layout chosen, each under its parent and once, and every frame of m.stack
\* points into it: what rebuildTree and sortNode leave is all that restoreSelection,
\* descend, ascend and the cursor keys rely on.
THEOREM AtlasInvariant == Spec => []AtlasInv
BY AtlasInvInit, AtlasInvNext, PTL DEF Spec

\* The bound of the cursor as CursorsInRange has it.
LEMMA FrameLimit ==
  ASSUME NEW q, Len(q) \in Nat
  PROVE  Positions(q) = 1..Max({Len(q), 1})
<1> DEFINE n == Len(q)
           T == {n, 1}
<1>1. T \subseteq 0..(n + 1) /\ T # {} /\ n + 1 \in Nat
  OBVIOUS
<1>2. Max(T) \in T /\ n <= Max(T) /\ 1 <= Max(T)
  <2> HIDE DEF n
  <2>1. Max(T) \in T /\ \A y \in T : y <= Max(T)
    <3> HIDE DEF T
    <3> QED
      BY <1>1, MaxIsGreatest
  <2> QED
    BY <2>1
<1> HIDE DEF n
<1>3. Max(T) = IF n = 0 THEN 1 ELSE n
  BY <1>2 DEF n
<1> QED
  BY <1>3 DEF n, Positions

\* descend and selectedNode may index the children of the node of a frame without a
\* check of their own, after any keys and any snapshots, however many there are.
THEOREM CursorsStayInRange == Spec => []CursorsInRange
<1>1. AtlasInv => CursorsInRange
  <2> SUFFICES ASSUME AtlasInv, NEW k \in DOMAIN stack
               PROVE  /\ stack[k].node \in DOMAIN tree
                      /\ stack[k].selected \in 1..Max({Len(tree[stack[k].node]), 1})
    BY DEF CursorsInRange
  <2> DEFINE R == Frames(tree)
             f == stack[k]
  <2>1. stack # <<>>
    OBVIOUS
  <2>2. stack \in Seq(R) /\ snap # 0
    BY <2>1, TopAre
  <2>3. f \in R
    <3> HIDE DEF R
    <3> QED
      BY <2>2
  <2>4. f.node \in DOMAIN tree /\ f.selected \in Positions(tree[f.node])
    BY <2>3, FramesAre
  <2>5. Len(tree[f.node]) \in Nat
    <3>1. tree[f.node] \in Seq(Under(Snapshots[snap], layout, f.node))
      BY <2>2, <2>4 DEF AtlasInv, Shows
    <3> QED
      BY <3>1
  <2>6. Positions(tree[f.node]) = 1..Max({Len(tree[f.node]), 1})
    BY <2>5, FrameLimit
  <2> QED
    BY <2>4, <2>6
<1> QED
  BY <1>1, AtlasInvariant, PTL

\* buildTree and sortNode put every object of every snapshot in the tree, and no
\* node in two places, whatever projects and services the containers name.
THEOREM ObjectsHaveOnePlace == Spec => []EveryObjectOnce
<1>1. AtlasInv => EveryObjectOnce
  <2> SUFFICES ASSUME AtlasInv, snap # 0
               PROVE  /\ \A m \in Objects(Snapshots[snap]) : Leaf(m) \in Nodes(tree)
                      /\ \A n \in Nodes(tree) \ {Root(layout)} :
                           \E place \in Places(n) : Places(n) = {place}
    BY DEF EveryObjectOnce
  <2> DEFINE s == Snapshots[snap]
  <2>1. s \in ToSet(Snapshots) /\ layout \in Layouts /\ Shows(s, layout, tree)
    BY IndexOfSnapshot DEF AtlasInv
  <2> HIDE DEF s
  <2>2. /\ Nodes(tree) = Everything(s, layout) /\ DOMAIN tree = Inner(s, layout)
        /\ \A p \in DOMAIN tree : /\ tree[p] \in Seq(Under(s, layout, p))
                                  /\ ToSet(tree[p]) = Under(s, layout, p)
                                  /\ OnceEach(tree[p])
    BY <2>1, ShownNodes DEF Shows
  <2>3. ASSUME NEW m \in Objects(s) PROVE Leaf(m) \in Nodes(tree)
    BY <2>1, <2>2, HasLeaf DEF Everything
  <2>4. ASSUME NEW n \in Nodes(tree), n # Root(layout)
        PROVE  \E place \in Places(n) : Places(n) = {place}
    <3>1. PICK p \in Inner(s, layout) : n \in Under(s, layout, p)
      BY <2>1, <2>2, <2>4, HasParent DEF Everything
    <3>2. PICK k \in DOMAIN tree[p] : tree[p][k] = n
      <4>1. n \in ToSet(tree[p])
        BY <2>2, <3>1
      <4> QED
        BY <4>1 DEF ToSet
    <3>3. <<p, k>> \in Places(n)
      BY <2>2, <3>1, <3>2 DEF Places
    <3>4. ASSUME NEW place \in Places(n) PROVE place = <<p, k>>
      <4>1. PICK q \in DOMAIN tree : place \in {q} \X {j \in DOMAIN tree[q] : tree[q][j] = n}
        BY DEF Places
      <4>2. PICK j \in DOMAIN tree[q] : place = <<q, j>> /\ tree[q][j] = n
        BY <4>1
      <4>3. n \in Under(s, layout, q) /\ q \in Inner(s, layout)
        <5>1. n \in ToSet(tree[q])
          BY <4>2 DEF ToSet
        <5> QED
          BY <2>2, <5>1
      <4>4. q = p
        BY <2>1, <3>1, <4>3, OneParent
      <4>5. j = k
        BY <2>2, <3>1, <3>2, <4>2, <4>4 DEF OnceEach
      <4> QED
        BY <4>2, <4>4, <4>5
    <3> QED
      BY <3>3, <3>4
  <2> QED
    BY <2>3, <2>4 DEF s
<1> QED
  BY <1>1, AtlasInvariant, PTL

\* There is at most one selected node.
LEMMA OneSelected == Selected = {} \/ \E c : Selected = {c}
BY DEF Selected

\* What restoreSelection was asked for is what is selected then.
LEMMA RestoredSelects ==
  ASSUME AtlasInv, NEW s \in ToSet(Snapshots), NEW view \in Layouts, Shows(s, view, tree'),
         NEW otherwise, stack' = Restored(tree', view, MarksOf(Selected, layout), otherwise),
         NEW x, x \in MarksOf(Selected, layout), x \in MarksOf(Nodes(tree'), view)
  PROVE  x \in MarksOf(Selected', view)
<1>1. MarksOf(Selected, layout) = {x}
  <2>1. PICK c : Selected = {c}
    BY OneSelected, MarksOfOne
  <2>2. MarksOf({c}, layout) # {} /\ x \in MarksOf({c}, layout)
    BY <2>1
  <2>3. \E y : MarksOf({c}, layout) = {y}
    BY <2>2, MarksOfOne
  <2> QED
    BY <2>1, <2>2, <2>3
<1>2. PICK c : LeadsTo(tree', stack', c) /\ MarksOf({c}, view) = {x}
  <2>1. stack' = Restored(tree', view, {x}, otherwise)
    BY <1>1
  <2> QED
    BY <2>1, RestoredFinds
<1>3. Selected' = {c}
  BY <1>2 DEF LeadsTo, Selected, Top, TopKids, Kids
<1> QED
  BY <1>2, <1>3

\* What d would mark is the same object before and after g, s or a snapshot that
\* arrives, wherever rebuildTree and sortNode have moved it, unless it is gone.
THEOREM SelectionIsKept == Spec => SelectionSurvives
<1>1. AtlasInv /\ [Next]_vars
        => [snap' # snap \/ layout' # layout \/ sortBy' # sortBy =>
              MarksOf(Selected, layout) \cap MarksOf(Nodes(tree)', layout')
                \subseteq MarksOf(Selected', layout')]_vars
  <2> SUFFICES ASSUME AtlasInv, [Next]_vars,
                      snap' # snap \/ layout' # layout \/ sortBy' # sortBy,
                      NEW x, x \in MarksOf(Selected, layout), x \in MarksOf(Nodes(tree'), layout')
               PROVE  x \in MarksOf(Selected', layout')
    BY DEF Nodes
  <2>0. AtlasInv'
    BY AtlasInvNext
  <2>1. snap # 0 \/ stack = <<>>
    BY DEF AtlasInv
  <2>2. stack # <<>> /\ snap # 0
    <3>1. Selected # {}
      BY MarksOfOne
    <3>2. stack # <<>>
      BY <3>1 DEF Selected
    <3> QED
      BY <2>1, <3>2
  <2>3. ASSUME NEW s \in DOMAIN Snapshots, ShowSnapshot(s)
        PROVE  x \in MarksOf(Selected', layout')
    <3>1. layout' = layout /\ layout \in Layouts /\ Rebuild(s, layout)
          /\ Snapshots[s] \in ToSet(Snapshots)
      BY <2>3, IndexOfSnapshot DEF ShowSnapshot, AtlasInv
    <3>2. Shows(Snapshots[s], layout, tree')
      BY <3>1, RebuildShows
    <3>3. stack' = Restored(tree', layout, MarksOf(Selected, layout), <<Frame(Root(layout), 1)>>)
      BY <3>1 DEF Rebuild
    <3> QED
      BY <3>1, <3>2, <3>3, RestoredSelects
  <2>4. CASE ToggleLayout
    <3>1. layout' \in Layouts /\ snap \in DOMAIN Snapshots /\ Rebuild(snap, layout')
          /\ Snapshots[snap] \in ToSet(Snapshots)
      BY <2>2, <2>4, IndexOfSnapshot DEF ToggleLayout, Layouts, AtlasInv
    <3>2. Shows(Snapshots[snap], layout', tree')
      BY <3>1, RebuildShows
    <3>3. stack' = Restored(tree', layout', MarksOf(Selected, layout), <<Frame(Root(layout'), 1)>>)
      BY <3>1 DEF Rebuild
    <3> QED
      BY <3>1, <3>2, <3>3, RestoredSelects
  <2>5. CASE CycleSort
    <3>1. layout' = layout /\ layout \in Layouts /\ Snapshots[snap] \in ToSet(Snapshots)
      BY <2>2, <2>5, IndexOfSnapshot DEF CycleSort, AtlasInv
    <3>2. Shows(Snapshots[snap], layout, tree')
      BY <2>2, <2>5, ResortShows
    <3>3. stack' = Restored(tree', layout, MarksOf(Selected, layout), stack)
      BY <2>5, <3>1 DEF CycleSort
    <3> QED
      BY <3>1, <3>2, <3>3, RestoredSelects
  <2>6. CASE Down \/ Up \/ Home \/ Descend \/ Ascend \/ UNCHANGED vars
    BY <2>6 DEF Down, Up, Home, SetCursor, Descend, Ascend, vars
  <2> QED
    BY <2>3, <2>4, <2>5, <2>6 DEF Next
<1> QED
  BY <1>1, AtlasInvariant, PTL DEF Spec, SelectionSurvives

(***************************************************************************)
(* The totals.  Units are counted object by object, project by project and *)
(* bucket by bucket; both layouts come to those of ComputeTotals.          *)
(***************************************************************************)

\* As many units as Units has.
Count(w, S) == Cardinality(Units(w, S))

\* The number of units is a natural number.
LEMMA CountTyped ==
  ASSUME NEW S, IsFiniteSet(S), NEW w, \A x \in S : w[x] \in Nat
  PROVE  Count(w, S) \in Nat /\ IsFiniteSet(Units(w, S))
BY UnitsFinite, FS_CardinalityType DEF Count

\* Nothing counts nothing.
LEMMA CountNone == \A w : Count(w, {}) = 0
<1>1. \A w : Units(w, {}) = {}
  BY DEF Units
<1> QED
  BY <1>1, FS_EmptySet DEF Count

\* One element counts its number.
LEMMA CountOne ==
  ASSUME NEW w, NEW x, w[x] \in Nat
  PROVE  Count(w, {x}) = w[x]
BY UnitsOfOne DEF Count

\* A sum is a count.
LEMMA CountSum ==
  ASSUME NEW w, IsFiniteSet(DOMAIN w), \A x \in DOMAIN w : w[x] \in Nat
  PROVE  SumFunction(w) = Count(w, DOMAIN w)
BY SumCountsUnits DEF Count

\* One element and the others.
LEMMA CountSplit ==
  ASSUME NEW S, IsFiniteSet(S), NEW w, \A x \in S : w[x] \in Nat, NEW x \in S
  PROVE  Count(w, S) = w[x] + Count(w, S \ {x})
BY UnitsSplit DEF Count

\* Two sets that have nothing in common.
LEMMA CountBoth ==
  ASSUME NEW A, NEW B, IsFiniteSet(A), IsFiniteSet(B), A \cap B = {},
         NEW w, \A x \in A \cup B : w[x] \in Nat
  PROVE  Count(w, A \cup B) = Count(w, A) + Count(w, B)
<1>1. /\ IsFiniteSet(Units(w, A)) /\ IsFiniteSet(Units(w, B))
      /\ Count(w, A) \in Nat /\ Count(w, B) \in Nat
  BY CountTyped
<1>2. Units(w, A \cup B) = Units(w, A) \cup Units(w, B)
  BY DEF Units
<1>3. Units(w, A) \cap Units(w, B) = {}
  BY DEF Units
<1> DEFINE P == Units(w, A)
           Q == Units(w, B)
<1>4. /\ Count(w, A) = Cardinality(P) /\ Count(w, B) = Cardinality(Q)
      /\ Count(w, A \cup B) = Cardinality(P \cup Q)
  BY <1>2 DEF Count
<1>5. IsFiniteSet(P) /\ IsFiniteSet(Q) /\ P \cap Q = {}
  BY <1>1, <1>3
<1> HIDE DEF P, Q
<1>6. Cardinality(P \cup Q) = Cardinality(P) + Cardinality(Q) - Cardinality(P \cap Q)
  BY <1>5, FS_Union
<1>7. Cardinality(P \cap Q) = 0
  BY <1>5, FS_EmptySet
<1> QED
  BY <1>1, <1>4, <1>6, <1>7

\* The same numbers count the same.
LEMMA CountSame ==
  ASSUME NEW S, NEW v, NEW w, \A x \in S : v[x] = w[x]
  PROVE  Count(v, S) = Count(w, S)
<1>1. Units(v, S) = Units(w, S)
  BY DEF Units
<1> QED
  BY <1>1 DEF Count

\* A sum may be taken group by group.
Fiber(M, g, E) == {m \in M : g[m] \in E}

\* ... make up v, for each d of D ...
Grouped(D, M, g, w, v) ==
  /\ IsFiniteSet(D) /\ IsFiniteSet(M) /\ \A m \in M : g[m] \in D /\ w[m] \in Nat
  /\ \A d \in D : v[d] = Count(w, Fiber(M, g, {d}))

\* ... and v adds up to what they do.
LEMMA CountByGroup ==
  ASSUME NEW D, NEW M, NEW g, NEW w, NEW v, Grouped(D, M, g, w, v)
  PROVE  Count(v, D) = Count(w, M)
<1>0. /\ IsFiniteSet(D) /\ IsFiniteSet(M) /\ \A m \in M : g[m] \in D /\ w[m] \in Nat
      /\ \A d \in D : v[d] = Count(w, Fiber(M, g, {d}))
  BY DEF Grouped
<1>1. ASSUME NEW E PROVE IsFiniteSet(Fiber(M, g, E)) /\ Fiber(M, g, E) \subseteq M
  <2>1. Fiber(M, g, E) \subseteq M
    BY DEF Fiber
  <2> QED
    BY <1>0, <2>1, FS_Subset
<1>2. \A E : Count(w, Fiber(M, g, E)) \in Nat
  <2> SUFFICES ASSUME NEW E PROVE Count(w, Fiber(M, g, E)) \in Nat
    OBVIOUS
  <2>1. \A x \in Fiber(M, g, E) : w[x] \in Nat
    BY <1>0, <1>1
  <2> QED
    BY <1>1, <2>1, CountTyped
<1>3. \A d \in D : v[d] \in Nat
  BY <1>0, <1>2
<1> DEFINE Bad == {E \in SUBSET D : Count(v, E) # Count(w, Fiber(M, g, E))}
<1>4. Bad = {}
  <2> SUFFICES ASSUME Bad # {} PROVE FALSE
    OBVIOUS
  <2>1. Bad \subseteq SUBSET D
    OBVIOUS
  <2> HIDE DEF Bad
  <2>2. PICK E \in Bad : \A e \in Bad : e \subseteq E => e = E
    BY <1>0, <2>1, LeastSet
  <2> USE DEF Bad
  <2>3. E # {}
    <3>1. Fiber(M, g, {}) = {}
      BY DEF Fiber
    <3> QED
      BY <3>1, CountNone
  <2>4. PICK d \in E : TRUE
    BY <2>3
  <2>5. Count(v, E \ {d}) = Count(w, Fiber(M, g, E \ {d}))
    BY <2>2, <2>4
  <2>6. Count(v, E) = v[d] + Count(v, E \ {d})
    <3>1. IsFiniteSet(E) /\ \A x \in E : v[x] \in Nat
      BY <1>0, <1>3, FS_Subset
    <3> QED
      BY <2>4, <3>1, CountSplit
  <2>7. Count(w, Fiber(M, g, E)) = Count(w, Fiber(M, g, {d})) + Count(w, Fiber(M, g, E \ {d}))
    <3> DEFINE A == Fiber(M, g, {d})
               B == Fiber(M, g, E \ {d})
    <3>1. Fiber(M, g, E) = A \cup B /\ A \cap B = {}
      BY <2>4 DEF Fiber
    <3>2. IsFiniteSet(A) /\ IsFiniteSet(B) /\ A \cup B \subseteq M
      BY <1>1
    <3> HIDE DEF A, B
    <3>3. \A x \in A \cup B : w[x] \in Nat
      BY <1>0, <3>2
    <3>4. Count(w, A \cup B) = Count(w, A) + Count(w, B)
      BY <3>1, <3>2, <3>3, CountBoth
    <3> QED
      BY <3>1, <3>4 DEF A, B
  <2> QED
    BY <1>0, <2>4, <2>5, <2>6, <2>7
<1>5. Fiber(M, g, D) = M
  BY <1>0 DEF Fiber
<1> QED
  BY <1>4, <1>5

\* The sum of two numbers for each counts both.
LEMMA CountAdds ==
  ASSUME NEW S, IsFiniteSet(S), NEW u, NEW v, NEW w,
         \A x \in S : u[x] \in Nat /\ v[x] \in Nat /\ w[x] = u[x] + v[x]
  PROVE  Count(w, S) = Count(u, S) + Count(v, S)
<1> DEFINE Bad == {E \in SUBSET S : Count(w, E) # Count(u, E) + Count(v, E)}
<1>1. Bad = {}
  <2> SUFFICES ASSUME Bad # {} PROVE FALSE
    OBVIOUS
  <2>1. Bad \subseteq SUBSET S
    OBVIOUS
  <2> HIDE DEF Bad
  <2>2. PICK E \in Bad : \A e \in Bad : e \subseteq E => e = E
    BY <2>1, LeastSet
  <2> USE DEF Bad
  <2>3. E # {}
    BY CountNone
  <2>4. PICK d \in E : TRUE
    BY <2>3
  <2>5. Count(w, E \ {d}) = Count(u, E \ {d}) + Count(v, E \ {d})
    BY <2>2, <2>4
  <2>6. IsFiniteSet(E) /\ IsFiniteSet(E \ {d})
    BY FS_Subset
  <2>7. \A x \in E : u[x] \in Nat /\ v[x] \in Nat /\ w[x] \in Nat
    OBVIOUS
  <2>8. /\ Count(w, E) = w[d] + Count(w, E \ {d})
        /\ Count(u, E) = u[d] + Count(u, E \ {d})
        /\ Count(v, E) = v[d] + Count(v, E \ {d})
    BY <2>4, <2>6, <2>7, CountSplit
  <2>9. Count(u, E \ {d}) \in Nat /\ Count(v, E \ {d}) \in Nat
    BY <2>6, <2>7, CountTyped
  <2>10. Count(w, E) # Count(u, E) + Count(v, E)
    BY <2>2
  <2> HIDE DEF Bad
  <2>11. u[d] \in Nat /\ v[d] \in Nat /\ w[d] = u[d] + v[d]
    BY <2>1, <2>2, <2>4
  <2> QED
    BY <2>5, <2>8, <2>9, <2>10, <2>11
<1> QED
  BY <1>1

\* What each node adds to the total of its parent, and what an object is worth there.
Charge(s, view, t) == [n \in Nodes(t) |-> Charged(n, Sizes(s, view, t)[n])]
Worth(s, view) == [m \in Objects(s) |-> Charged(Leaf(m), OwnSize(s, view, Leaf(m)))]

\* The objects of one kind.
OfKind(s, kind) == {m \in Objects(s) : m.kind = kind}

\* A charge is a natural number, and the total of what is no image.
LEMMA ChargeTyped ==
  ASSUME NEW s \in ToSet(Snapshots), NEW view \in Layouts, NEW t, Shows(s, view, t),
         NEW n \in Nodes(t)
  PROVE  /\ Charge(s, view, t)[n] \in Nat
         /\ Charge(s, view, t)[n] = Charged(n, SizeFrom(s, view, t, Sizes(s, view, t), n))
         /\ n.kind # "image" => Charge(s, view, t)[n] = Sizes(s, view, t)[n].total
<1>1. Sizes(s, view, t)[n] \in Size /\ Sizes(s, view, t)[n] = SizeFrom(s, view, t, Sizes(s, view, t), n)
  BY SizesDefined
<1>2. Charge(s, view, t)[n] = Charged(n, Sizes(s, view, t)[n])
  BY DEF Charge
<1>3. \A z \in Size : Charged(n, z) \in Nat /\ (n.kind # "image" => Charged(n, z) = z.total)
  BY DEF Charged, Size
<1> QED
  BY <1>1, <1>2, <1>3

\* Inner nodes lie above the leaves.
LEMMA InnerLevel ==
  ASSUME NEW s \in ToSet(Snapshots), NEW view \in Layouts, NEW n \in Inner(s, view)
  PROVE  /\ Level(n) \in 0..2 /\ n.kind \in {"root", "type_bucket", "project", "service"}
         /\ n # SharedLayers
<1>1. \A p : ProjectNode(p) # SharedLayers
  BY DEF ProjectNode, SharedLayers, Node
<1>2. n.kind = "service" => Level(n) = 2
  BY DEF Level
<1> QED
  BY <1>1, <1>2, InnerAre, NodeShapes

\* What has no children is charged for itself.
LEMMA ChildlessCharge ==
  ASSUME NEW s \in ToSet(Snapshots), NEW view \in Layouts, NEW t, Shows(s, view, t),
         NEW n \in Nodes(t), Kids(t, n) = <<>>, n # Bucket("image")
  PROVE  Charge(s, view, t)[n] = Charged(n, OwnSize(s, view, n))
<1>1. SizeFrom(s, view, t, Sizes(s, view, t), n) = OwnSize(s, view, n)
  BY DEF SizeFrom
<1> QED
  BY <1>1, ChargeTyped

\* A leaf is charged for what its object is worth.
LEMMA LeafCharge ==
  ASSUME NEW s \in ToSet(Snapshots), NEW view \in Layouts, NEW t, Shows(s, view, t),
         NEW m \in Objects(s)
  PROVE  /\ Leaf(m) \in Nodes(t) /\ Charge(s, view, t)[Leaf(m)] = Worth(s, view)[m]
         /\ Worth(s, view)[m] \in Nat
<1>1. Leaf(m) \in Nodes(t)
  BY HasLeaf, ShownNodes DEF Everything
<1>2. Level(Leaf(m)) = 3
  BY MarksAre, NodeShapes
<1>3. Kids(t, Leaf(m)) = <<>> /\ Leaf(m) # Bucket("image")
  <2>1. Leaf(m) \notin Inner(s, view)
    BY <1>2, InnerLevel
  <2> QED
    BY <1>2, <2>1, NodeShapes DEF Kids, Shows
<1>4. Charge(s, view, t)[Leaf(m)] = Charged(Leaf(m), OwnSize(s, view, Leaf(m)))
  BY <1>1, <1>3, ChildlessCharge
<1>5. Charge(s, view, t)[Leaf(m)] = Worth(s, view)[m]
  BY <1>4 DEF Worth
<1> QED
  BY <1>1, <1>5, ChargeTyped

\* An inner node is charged for what is under it, but for the bucket of the images
\* when the size of all layers is known.
LEMMA InnerCharge ==
  ASSUME NEW s \in ToSet(Snapshots), NEW view \in Layouts, NEW t, Shows(s, view, t),
         NEW n \in Inner(s, view), n = Bucket("image") => ~(s.layers >= 0)
  PROVE  /\ n \in Nodes(t) /\ Charge(s, view, t)[n] = Count(Charge(s, view, t), Under(s, view, n))
         /\ IsFiniteSet(Under(s, view, n))
         /\ \A c \in Under(s, view, n) : c \in Nodes(t) /\ Charge(s, view, t)[c] \in Nat
<1> DEFINE charge == Charge(s, view, t)
           size == Sizes(s, view, t)
           kids == t[n]
           under == Under(s, view, n)
           v == [k \in DOMAIN kids |-> Charged(kids[k], size[kids[k]])]
<1>1. /\ n \in DOMAIN t /\ n \in Nodes(t)
      /\ kids \in Seq(under) /\ ToSet(kids) = under /\ OnceEach(kids)
  BY DEF Shows, Nodes
<1>2. /\ DOMAIN kids = 1..Len(kids) /\ Len(kids) \in Nat /\ IsFiniteSet(DOMAIN kids)
  <2>1. DOMAIN kids = 1..Len(kids) /\ Len(kids) \in Nat
    BY <1>1
  <2> QED
    BY <2>1, FS_Interval
<1>3. \A k \in DOMAIN kids : kids[k] \in under /\ kids[k] \in Nodes(t)
  BY <1>1, ShownNodes
<1>4. \A c \in under : c \in Nodes(t) /\ charge[c] \in Nat
  <2> SUFFICES ASSUME NEW c \in under PROVE c \in Nodes(t) /\ charge[c] \in Nat
    OBVIOUS
  <2>1. c \in ToSet(kids)
    BY <1>1
  <2>2. c \in Nodes(t)
    BY <1>3, <2>1 DEF ToSet
  <2> QED
    BY <2>2, ChargeTyped
<1>5. IsFiniteSet(under)
  <2>1. kids \in Surjection(DOMAIN kids, under)
    <3> HIDE DEF under, kids
    <3> QED
      BY <1>1, <1>2 DEF Surjection, ToSet
  <2> HIDE DEF under, kids
  <2> QED
    BY <1>2, <2>1, FS_Surjection
<1>6. n.kind # "image" /\ SizeFrom(s, view, t, size, n) =
        IF kids = <<>> THEN OwnSize(s, view, n)
        ELSE [total |-> SumFunction(v),
              exclusive |-> SumFunction([k \in DOMAIN kids |-> size[kids[k]].exclusive])]
  <2>1. n.kind # "image"
    BY InnerLevel
  <2>2. Kids(t, n) = kids
    BY <1>1 DEF Kids
  <2> QED
    BY <2>1, <2>2 DEF SizeFrom
<1>7. charge[n] = Charged(n, SizeFrom(s, view, t, size, n))
  BY <1>1, ChargeTyped
<1>8. CASE kids = <<>>
  <2>1. under = {}
    BY <1>1, <1>8 DEF ToSet
  <2>2. OwnSize(s, view, n).total = 0
    <3>1. OwnSize(s, view, n) = [total |-> 0, exclusive |-> 0]
      BY InnerLevel DEF OwnSize
    <3> QED
      BY <3>1
  <2>3. charge[n] = 0
    BY <1>6, <1>7, <1>8, <2>2 DEF Charged
  <2>4. Count(charge, under) = 0
    BY <2>1, CountNone
  <2> QED
    BY <1>1, <1>4, <1>5, <2>3, <2>4
<1>9. CASE kids # <<>>
  <2>1. charge[n] = SumFunction(v)
    BY <1>6, <1>7, <1>9 DEF Charged
  <2>2. DOMAIN v = DOMAIN kids /\ \A k \in DOMAIN kids : v[k] = charge[kids[k]]
    BY <1>3 DEF Charge
  <2> HIDE DEF v, charge, under, kids
  <2>3. \A k \in DOMAIN kids : v[k] \in Nat
    BY <1>3, <1>4, <2>2
  <2>4. SumFunction(v) = Count(v, DOMAIN kids)
    BY <1>2, <2>2, <2>3, CountSum
  <2>5. \A d \in under : charge[d] = Count(v, Fiber(DOMAIN kids, kids, {d}))
    <3> SUFFICES ASSUME NEW d \in under PROVE charge[d] = Count(v, Fiber(DOMAIN kids, kids, {d}))
      OBVIOUS
    <3>1. PICK k \in DOMAIN kids : kids[k] = d
      BY <1>1 DEF ToSet
    <3>2. Fiber(DOMAIN kids, kids, {d}) = {k}
      BY <1>1, <3>1 DEF Fiber, OnceEach
    <3> QED
      BY <2>2, <2>3, <3>1, <3>2, CountOne
  <2>6. Count(charge, under) = Count(v, DOMAIN kids)
    <3>1. Grouped(under, DOMAIN kids, kids, v, charge)
      BY <1>2, <1>3, <1>5, <2>3, <2>5 DEF Grouped
    <3> QED
      BY <3>1, CountByGroup
  <2> QED
    BY <1>1, <1>4, <1>5, <2>1, <2>4, <2>6 DEF charge, under
<1> QED
  BY <1>8, <1>9

\* Five different things ...
Apart(a, b, c, d, e) == a \notin {b, c, d, e} /\ b \notin {c, d, e} /\ c \notin {d, e} /\ d # e

\* ... count what each of them does.
LEMMA CountFive ==
  ASSUME NEW w, NEW a, NEW b, NEW c, NEW d, NEW e, Apart(a, b, c, d, e),
         w[a] \in Nat, w[b] \in Nat, w[c] \in Nat, w[d] \in Nat, w[e] \in Nat
  PROVE  /\ Count(w, {a, b, c, d, e}) = w[a] + w[b] + w[c] + w[d] + w[e]
         /\ IsFiniteSet({a, b, c, d, e})
<1>1. /\ IsFiniteSet({e}) /\ IsFiniteSet({d, e}) /\ IsFiniteSet({c, d, e})
      /\ IsFiniteSet({b, c, d, e}) /\ IsFiniteSet({a, b, c, d, e})
  <2>1. /\ {d, e} = {e} \cup {d} /\ {c, d, e} = {d, e} \cup {c}
        /\ {b, c, d, e} = {c, d, e} \cup {b} /\ {a, b, c, d, e} = {b, c, d, e} \cup {a}
    OBVIOUS
  <2>2. IsFiniteSet({e})
    BY FS_Singleton
  <2>3. IsFiniteSet({d, e})
    BY <2>1, <2>2, FS_AddElement
  <2>4. IsFiniteSet({c, d, e})
    BY <2>1, <2>3, FS_AddElement
  <2>5. IsFiniteSet({b, c, d, e})
    BY <2>1, <2>4, FS_AddElement
  <2>6. IsFiniteSet({a, b, c, d, e})
    BY <2>1, <2>5, FS_AddElement
  <2> QED
    BY <2>2, <2>3, <2>4, <2>5, <2>6
<1>2. /\ {a, b, c, d, e} \ {a} = {b, c, d, e} /\ {b, c, d, e} \ {b} = {c, d, e}
      /\ {c, d, e} \ {c} = {d, e} /\ {d, e} \ {d} = {e}
  BY DEF Apart
<1>3. Count(w, {a, b, c, d, e}) = w[a] + Count(w, {b, c, d, e})
  <2>1. \A x \in {a, b, c, d, e} : w[x] \in Nat
    OBVIOUS
  <2> QED
    BY <1>1, <1>2, <2>1, CountSplit
<1>4. Count(w, {b, c, d, e}) = w[b] + Count(w, {c, d, e})
  <2>1. \A x \in {b, c, d, e} : w[x] \in Nat
    OBVIOUS
  <2> QED
    BY <1>1, <1>2, <2>1, CountSplit
<1>5. Count(w, {c, d, e}) = w[c] + Count(w, {d, e})
  <2>1. \A x \in {c, d, e} : w[x] \in Nat
    OBVIOUS
  <2> QED
    BY <1>1, <1>2, <2>1, CountSplit
<1>6. Count(w, {d, e}) = w[d] + Count(w, {e})
  <2>1. \A x \in {d, e} : w[x] \in Nat
    OBVIOUS
  <2> QED
    BY <1>1, <1>2, <2>1, CountSplit
<1>7. Count(w, {e}) = w[e]
  BY CountOne
<1>8. Count(w, {a, b, c, d, e}) = w[a] + (w[b] + (w[c] + (w[d] + w[e])))
  BY <1>3, <1>4, <1>5, <1>6, <1>7
<1> QED
  BY <1>1, <1>8

-----------------------------------------------------------------------------
\* What the objects of one kind count.
LEMMA CountOfKind ==
  ASSUME NEW s \in ToSet(Snapshots), NEW kind \in Kinds,
         NEW val, DOMAIN val = DOMAIN s[kind], \A id \in DOMAIN s[kind] : val[id] \in Nat,
         NEW w, \A m \in OfKind(s, kind) : w[m] = val[m.id]
  PROVE  Count(w, OfKind(s, kind)) = SumFunction(val)
<1> DEFINE D == DOMAIN s[kind]
           M == OfKind(s, kind)
           g == [m \in M |-> m.id]
<1>1. IsFiniteSet(D) /\ IsFiniteSet(M)
  <2>1. M \subseteq Objects(s)
    BY DEF OfKind
  <2> QED
    BY <2>1, SnapshotSizes, SnapshotFacts, FS_Subset
<1>2. \A m \in M : g[m] = m.id /\ m.id \in D /\ m = Mark(kind, m.id) /\ w[m] = val[m.id]
  BY MarksAre DEF OfKind
<1>3. \A id \in D : Mark(kind, id) \in M /\ Mark(kind, id).id = id
  <2> SUFFICES ASSUME NEW id \in D PROVE Mark(kind, id) \in M /\ Mark(kind, id).id = id
    OBVIOUS
  <2>1. Mark(kind, id) \in AllMarks(s) /\ Mark(kind, id).kind = kind /\ Mark(kind, id).id = id
    BY DEF AllMarks, Mark
  <2> QED
    BY <2>1, SnapshotFacts DEF OfKind
<1> HIDE DEF D, M, g
<1>4. \A id \in D : val[id] \in Nat
  BY DEF D
<1>5. \A id \in D : val[id] = Count(w, Fiber(M, g, {id}))
  <2> SUFFICES ASSUME NEW id \in D PROVE val[id] = Count(w, Fiber(M, g, {id}))
    OBVIOUS
  <2>1. Fiber(M, g, {id}) = {Mark(kind, id)}
    BY <1>2, <1>3 DEF Fiber
  <2>2. w[Mark(kind, id)] = val[id]
    BY <1>2, <1>3
  <2> QED
    BY <1>4, <2>1, <2>2, CountOne
<1>6. Grouped(D, M, g, w, val)
  BY <1>1, <1>2, <1>4, <1>5 DEF Grouped
<1>7. Count(val, D) = Count(w, M)
  BY <1>6, CountByGroup
<1>8. SumFunction(val) = Count(val, D)
  BY <1>1, <1>4, CountSum DEF D
<1> QED
  BY <1>7, <1>8 DEF M

\* The objects count what those of the four kinds do.
LEMMA CountOfKinds ==
  ASSUME NEW s \in ToSet(Snapshots), NEW w, \A m \in Objects(s) : w[m] \in Nat
  PROVE  /\ Count(w, Objects(s)) = Count(w, OfKind(s, "image")) + Count(w, OfKind(s, "container"))
              + Count(w, OfKind(s, "volume")) + Count(w, OfKind(s, "build_cache"))
<1> DEFINE A == OfKind(s, "image")
           B == OfKind(s, "container")
           C == OfKind(s, "volume")
           D == OfKind(s, "build_cache")
<1>1. Objects(s) = A \cup (B \cup (C \cup D))
  BY MarksAre DEF OfKind, Kinds
<1>2. A \cap (B \cup (C \cup D)) = {} /\ B \cap (C \cup D) = {} /\ C \cap D = {}
  BY DEF OfKind
<1>3. IsFiniteSet(Objects(s))
  BY SnapshotFacts
<1>4. /\ IsFiniteSet(A) /\ IsFiniteSet(B) /\ IsFiniteSet(C) /\ IsFiniteSet(D)
      /\ IsFiniteSet(C \cup D) /\ IsFiniteSet(B \cup (C \cup D))
  BY <1>1, <1>3, FS_Subset
<1>5. \A m \in A \cup (B \cup (C \cup D)) : w[m] \in Nat
  BY <1>1
<1> HIDE DEF A, B, C, D
<1>6. Count(w, C \cup D) = Count(w, C) + Count(w, D)
  BY <1>2, <1>4, <1>5, CountBoth
<1>7. Count(w, B \cup (C \cup D)) = Count(w, B) + Count(w, C \cup D)
  BY <1>2, <1>4, <1>5, CountBoth
<1>8. Count(w, A \cup (B \cup (C \cup D))) = Count(w, A) + Count(w, B \cup (C \cup D))
  BY <1>2, <1>4, <1>5, CountBoth
<1>9. Count(w, A) \in Nat /\ Count(w, B) \in Nat /\ Count(w, C) \in Nat /\ Count(w, D) \in Nat
  BY <1>4, <1>5, CountTyped
<1>10. Count(w, Objects(s)) = Count(w, A) + Count(w, B) + Count(w, C) + Count(w, D)
  BY <1>1, <1>6, <1>7, <1>8, <1>9
<1> QED
  BY <1>10 DEF A, B, C, D

\* What the objects are worth in the two layouts.
LEMMA WorthOfKinds ==
  ASSUME NEW s \in ToSet(Snapshots), NEW view \in Layouts
  PROVE  /\ Count(Worth(s, view), OfKind(s, "image")) = ImagesExclusive(s)
         /\ Count(Worth(s, view), OfKind(s, "container")) =
              Totals(s).containers + (IF view = "project" THEN Totals(s).logs ELSE 0)
         /\ Count(Worth(s, view), OfKind(s, "volume")) = Totals(s).volumes
         /\ Count(Worth(s, view), OfKind(s, "build_cache")) = Totals(s).build_cache
         /\ Totals(s).containers \in Nat /\ Totals(s).logs \in Nat
         /\ Totals(s).volumes \in Nat /\ Totals(s).build_cache \in Nat
<1> DEFINE worth == Worth(s, view)
           ex == [i \in DOMAIN s.image |-> Exclusive(s.image[i])]
           rw == [c \in DOMAIN s.container |-> NonNeg(s.container[c].rw)]
           log == [c \in DOMAIN s.container |-> s.container[c].log]
           usage == [v \in DOMAIN s.volume |-> NonNeg(s.volume[v].usage)]
           cache == [b \in DOMAIN s.build_cache |-> s.build_cache[b].size]
           both == [c \in DOMAIN s.container |-> rw[c] + (IF view = "project" THEN log[c] ELSE 0)]
<1>1. /\ ImagesExclusive(s) = SumFunction(ex) /\ Totals(s).containers = SumFunction(rw)
      /\ Totals(s).logs = SumFunction(log) /\ Totals(s).volumes = SumFunction(usage)
      /\ Totals(s).build_cache = SumFunction(cache)
  BY DEF ImagesExclusive, Totals
<1>2. \A m \in Objects(s) : /\ worth[m] = Charged(Leaf(m), OwnSize(s, view, Leaf(m)))
                             /\ Leaf(m).kind = m.kind /\ Leaf(m).id = m.id
                             /\ Leaf(m) # SharedLayers /\ m.id \in DOMAIN s[m.kind]
  <2>1. SharedLayers.kind = "project" /\ "project" \notin Kinds
    BY NodeShapes DEF Kinds
  <2> QED
    BY <2>1, MarksAre, NodeShapes DEF Worth
<1>3. \A m \in OfKind(s, "image") : worth[m] = ex[m.id]
  <2> SUFFICES ASSUME NEW m \in OfKind(s, "image") PROVE worth[m] = ex[m.id]
    OBVIOUS
  <2>1. m \in Objects(s) /\ m.kind = "image"
    BY DEF OfKind
  <2>2. OwnSize(s, view, Leaf(m)).exclusive = Exclusive(s.image[m.id])
    BY <1>2, <2>1 DEF OwnSize
  <2> QED
    BY <1>2, <2>1, <2>2 DEF Charged
<1>4. \A m \in OfKind(s, "container") : worth[m] = both[m.id]
  <2> SUFFICES ASSUME NEW m \in OfKind(s, "container") PROVE worth[m] = both[m.id]
    OBVIOUS
  <2>1. m \in Objects(s) /\ m.kind = "container"
    BY DEF OfKind
  <2>2. OwnSize(s, view, Leaf(m)).total =
          NonNeg(s.container[m.id].rw) + (IF view = "project" THEN s.container[m.id].log ELSE 0)
    BY <1>2, <2>1 DEF OwnSize
  <2> QED
    BY <1>2, <2>1, <2>2 DEF Charged
<1>5. \A m \in OfKind(s, "volume") : worth[m] = usage[m.id]
  <2> SUFFICES ASSUME NEW m \in OfKind(s, "volume") PROVE worth[m] = usage[m.id]
    OBVIOUS
  <2>1. m \in Objects(s) /\ m.kind = "volume"
    BY DEF OfKind
  <2>2. OwnSize(s, view, Leaf(m)).total = NonNeg(s.volume[m.id].usage)
    BY <1>2, <2>1 DEF OwnSize
  <2> QED
    BY <1>2, <2>1, <2>2 DEF Charged
<1>6. \A m \in OfKind(s, "build_cache") : worth[m] = cache[m.id]
  <2> SUFFICES ASSUME NEW m \in OfKind(s, "build_cache") PROVE worth[m] = cache[m.id]
    OBVIOUS
  <2>1. m \in Objects(s) /\ m.kind = "build_cache"
    BY DEF OfKind
  <2>2. OwnSize(s, view, Leaf(m)).total = s.build_cache[m.id].size
    BY <1>2, <2>1 DEF OwnSize
  <2> QED
    BY <1>2, <2>1, <2>2 DEF Charged
<1>7. /\ DOMAIN ex = DOMAIN s["image"] /\ DOMAIN both = DOMAIN s["container"]
      /\ DOMAIN rw = DOMAIN s["container"] /\ DOMAIN log = DOMAIN s["container"]
      /\ DOMAIN usage = DOMAIN s["volume"] /\ DOMAIN cache = DOMAIN s["build_cache"]
      /\ \A i \in DOMAIN s["image"] : ex[i] \in Nat
      /\ \A c \in DOMAIN s["container"] : rw[c] \in Nat /\ log[c] \in Nat
      /\ \A v \in DOMAIN s["volume"] : usage[v] \in Nat
      /\ \A b \in DOMAIN s["build_cache"] : cache[b] \in Nat
  BY SnapshotSizes
<1>8. \A c \in DOMAIN s["container"] :
        /\ both[c] = rw[c] + (IF view = "project" THEN log[c] ELSE 0)
        /\ both[c] \in Nat
  <2>1. \A c \in DOMAIN s["container"] : rw[c] \in Nat /\ log[c] \in Nat
    BY <1>7
  <2> HIDE DEF rw, log
  <2>2. \A c \in DOMAIN s["container"] :
          both[c] = rw[c] + (IF view = "project" THEN log[c] ELSE 0)
    OBVIOUS
  <2> QED
    BY <2>1, <2>2
<1>9. \A kind \in {"image", "container", "volume", "build_cache"} :
        kind \in Kinds /\ IsFiniteSet(DOMAIN s[kind])
  BY SnapshotSizes DEF Kinds
<1> HIDE DEF worth, ex, rw, log, usage, cache, both
<1>10. Count(worth, OfKind(s, "image")) = SumFunction(ex)
  BY <1>3, <1>7, <1>9, CountOfKind
<1>11. Count(worth, OfKind(s, "volume")) = SumFunction(usage)
  BY <1>5, <1>7, <1>9, CountOfKind
<1>12. Count(worth, OfKind(s, "build_cache")) = SumFunction(cache)
  BY <1>6, <1>7, <1>9, CountOfKind
<1>13. Count(worth, OfKind(s, "container")) = SumFunction(both)
  BY <1>4, <1>7, <1>8, <1>9, CountOfKind
<1>14. /\ SumFunction(rw) \in Nat /\ SumFunction(log) \in Nat
       /\ SumFunction(usage) \in Nat /\ SumFunction(cache) \in Nat
  BY <1>7, <1>9, SumTyped
<1>15. SumFunction(both) = SumFunction(rw) + (IF view = "project" THEN SumFunction(log) ELSE 0)
  <2> DEFINE S == DOMAIN s["container"]
  <2>1. /\ IsFiniteSet(S) /\ DOMAIN both = S /\ DOMAIN rw = S /\ DOMAIN log = S
        /\ \A c \in S : rw[c] \in Nat /\ log[c] \in Nat /\ both[c] \in Nat
        /\ \A c \in S : both[c] = rw[c] + (IF view = "project" THEN log[c] ELSE 0)
    BY <1>7, <1>8, <1>9
  <2> HIDE DEF S
  <2>2. /\ SumFunction(both) = Count(both, S) /\ SumFunction(rw) = Count(rw, S)
        /\ SumFunction(log) = Count(log, S)
    BY <2>1, CountSum
  <2>3. CASE view = "project"
    <3>1. Count(both, S) = Count(rw, S) + Count(log, S)
      BY <2>1, <2>3, CountAdds
    <3> QED
      BY <2>2, <2>3, <3>1
  <2>4. CASE view # "project"
    <3>1. \A c \in S : both[c] = rw[c]
      BY <2>1, <2>4
    <3>2. Count(both, S) = Count(rw, S)
      BY <3>1, CountSame
    <3> QED
      BY <1>14, <2>2, <2>4, <3>2
  <2> QED
    BY <2>3, <2>4
<1> QED
  BY <1>1, <1>10, <1>11, <1>12, <1>13, <1>14, <1>15 DEF worth

\* ComputeTotals has five parts.
LEMMA TotalsAdded ==
  ASSUME NEW s \in ToSet(Snapshots)
  PROVE  /\ SumFunction(Totals(s)) = Totals(s).images + Totals(s).containers + Totals(s).logs
              + Totals(s).volumes + Totals(s).build_cache
         /\ Totals(s).images = (IF s.layers >= 0 THEN s.layers ELSE ImagesExclusive(s))
         /\ Totals(s).images \in Nat
<1> DEFINE w == Totals(s)
           fields == {"images", "containers", "logs", "volumes", "build_cache"}
<1>1. DOMAIN w = fields
  BY DEF Totals
<1>2. Totals(s).images = (IF s.layers >= 0 THEN s.layers ELSE ImagesExclusive(s))
  BY DEF Totals
<1>3. w["images"] \in Nat
  BY <1>2, SnapshotSizes, ImagesExclusiveTyped
<1>4. /\ w["containers"] \in Nat /\ w["logs"] \in Nat /\ w["volumes"] \in Nat
      /\ w["build_cache"] \in Nat
  BY WorthOfKinds DEF Layouts
<1> HIDE DEF w
<1>5. /\ Count(w, fields) = w["images"] + w["containers"] + w["logs"] + w["volumes"] + w["build_cache"]
      /\ IsFiniteSet(fields)
  <2>1. Apart("images", "containers", "logs", "volumes", "build_cache")
    BY DEF Apart
  <2> QED
    BY <1>3, <1>4, <2>1, CountFive
<1>6. SumFunction(w) = Count(w, fields)
  <2>1. \A x \in fields : w[x] \in Nat
    BY <1>3, <1>4
  <2> QED
    BY <1>1, <1>5, <2>1, CountSum
<1> QED
  BY <1>2, <1>3, <1>5, <1>6 DEF w

-----------------------------------------------------------------------------
\* By type: the objects, a bucket for each kind, and the logs.
LEMMA TypeTotal ==
  ASSUME NEW s \in ToSet(Snapshots), NEW t, Shows(s, "type", t),
         s.layers = -1 \/ s.layers >= ImagesExclusive(s)
  PROVE  Sizes(s, "type", t)[Root("type")].total = SumFunction(Totals(s))
<1> DEFINE charge == Charge(s, "type", t)
           worth == Worth(s, "type")
           T == Totals(s)
<1>0. "type" \in Layouts /\ Root("type") \in Inner(s, "type")
  BY DEF Layouts, Inner
<1>1. \A kind \in Buckets : /\ Bucket(kind) \in Inner(s, "type") /\ Bucket(kind) \in Nodes(t)
                             /\ Bucket(kind).kind = "type_bucket" /\ Bucket(kind).id = kind
                             /\ Bucket(kind) # Root("type")
                             /\ charge[Bucket(kind)] = Sizes(s, "type", t)[Bucket(kind)].total
                             /\ charge[Bucket(kind)] \in Nat
  <2> SUFFICES ASSUME NEW kind \in Buckets
               PROVE  /\ Bucket(kind) \in Inner(s, "type") /\ Bucket(kind) \in Nodes(t)
                      /\ Bucket(kind).kind = "type_bucket" /\ Bucket(kind).id = kind
                      /\ Bucket(kind) # Root("type")
                      /\ charge[Bucket(kind)] = Sizes(s, "type", t)[Bucket(kind)].total
                      /\ charge[Bucket(kind)] \in Nat
    OBVIOUS
  <2>1. Bucket(kind) \in Inner(s, "type") /\ Bucket(kind) \in Nodes(t)
    BY DEF Inner, Shows, Nodes
  <2>2. Bucket(kind).kind = "type_bucket" /\ Bucket(kind).id = kind /\ Bucket(kind) # Root("type")
    BY NodeShapes
  <2>3. Bucket(kind).kind # "image"
    BY <2>2
  <2> QED
    BY <1>0, <2>1, <2>2, <2>3, ChargeTyped
<1>2. ASSUME NEW kind \in Kinds, kind = "image" => ~(s.layers >= 0)
      PROVE  charge[Bucket(kind)] = Count(worth, OfKind(s, kind))
  <2> DEFINE b == Bucket(kind)
             D == Under(s, "type", b)
             M == OfKind(s, kind)
             g == [m \in M |-> Leaf(m)]
  <2>1. kind \in Buckets /\ kind # "log_file"
    BY DEF Kinds, Buckets
  <2>2. b \in Inner(s, "type") /\ b # Root("type") /\ b # Bucket("log_file") /\ b.id = kind
    BY <1>1, <2>1, NodeShapes
  <2>3. b = Bucket("image") => ~(s.layers >= 0)
    BY <1>2, <2>2, NodeShapes
  <2>4. D = {Leaf(m) : m \in M}
    BY <2>2 DEF Under, OfKind
  <2>5. /\ charge[b] = Count(charge, D) /\ IsFiniteSet(D)
        /\ \A c \in D : charge[c] \in Nat
    BY <1>0, <2>2, <2>3, InnerCharge
  <2>6. \A m \in M : /\ m \in Objects(s) /\ charge[Leaf(m)] = worth[m] /\ worth[m] \in Nat
                      /\ g[m] = Leaf(m) /\ m = Mark(m.kind, m.id)
                      /\ Leaf(m).kind = m.kind /\ Leaf(m).id = m.id
    <3> SUFFICES ASSUME NEW m \in M
                 PROVE  /\ m \in Objects(s) /\ charge[Leaf(m)] = worth[m] /\ worth[m] \in Nat
                        /\ g[m] = Leaf(m) /\ m = Mark(m.kind, m.id)
                        /\ Leaf(m).kind = m.kind /\ Leaf(m).id = m.id
      OBVIOUS
    <3>1. m \in Objects(s)
      BY DEF OfKind
    <3> QED
      BY <1>0, <3>1, LeafCharge, MarksAre, NodeShapes
  <2>7. IsFiniteSet(M)
    <3>1. M \subseteq Objects(s)
      BY DEF OfKind
    <3> QED
      BY <3>1, SnapshotFacts, FS_Subset
  <2> HIDE DEF charge, worth, D, M, g, b
  <2>8. \A d \in D : charge[d] = Count(worth, Fiber(M, g, {d}))
    <3> SUFFICES ASSUME NEW d \in D PROVE charge[d] = Count(worth, Fiber(M, g, {d}))
      OBVIOUS
    <3>1. PICK m \in M : d = Leaf(m)
      BY <2>4
    <3>2. Fiber(M, g, {d}) = {m}
      BY <2>6, <3>1 DEF Fiber
    <3> QED
      BY <2>6, <3>1, <3>2, CountOne
  <2>9. Grouped(D, M, g, worth, charge)
    BY <2>4, <2>5, <2>6, <2>7, <2>8 DEF Grouped
  <2> QED
    BY <2>5, <2>9, CountByGroup DEF M, b
<1>3. charge[Bucket("log_file")] = T.logs
  <2> DEFINE b == Bucket("log_file")
             D == Under(s, "type", b)
             S == DOMAIN s.container
             log == [c \in S |-> s.container[c].log]
             M == {c \in S : log[c] > 0}
             g == [c \in M |-> Logged(Mark("container", c))]
  <2>1. "log_file" \in Buckets
    BY DEF Buckets
  <2>2. b \in Inner(s, "type") /\ b # Root("type") /\ b # Bucket("image")
    BY <1>1, <2>1, NodeShapes
  <2>3. D = {Logged(m) : m \in Logs(s)}
    BY <2>2 DEF Under
  <2>4. /\ charge[b] = Count(charge, D) /\ IsFiniteSet(D)
        /\ \A c \in D : c \in Nodes(t) /\ charge[c] \in Nat
    BY <1>0, <2>2, InnerCharge
  <2>5. IsFiniteSet(S) /\ \A c \in S : log[c] \in Nat
    BY SnapshotSizes DEF Kinds
  <2>6. /\ \A c \in M : Mark("container", c) \in Logs(s)
        /\ \A m \in Logs(s) : m.id \in M /\ m = Mark("container", m.id)
    <3>1. \A c \in S : Mark("container", c) \in Objects(s)
      <4> SUFFICES ASSUME NEW c \in S PROVE Mark("container", c) \in Objects(s)
        OBVIOUS
      <4>1. Mark("container", c) \in AllMarks(s)
        BY DEF AllMarks, Kinds
      <4> QED
        BY <4>1, SnapshotFacts
    <3>2. \A c : Mark("container", c).kind = "container" /\ Mark("container", c).id = c
      BY DEF Mark
    <3>3. \A m \in Logs(s) : m.id \in S /\ m = Mark("container", m.id) /\ s.container[m.id].log > 0
      BY MarksAre DEF Logs
    <3>4. \A c \in M : c \in S /\ s.container[c].log > 0
      OBVIOUS
    <3>5. \A m \in Logs(s) : m.id \in M
      BY <3>3
    <3>6. \A c \in M : Mark("container", c) \in Logs(s)
      <4> HIDE DEF M
      <4> QED
        BY <3>1, <3>2, <3>4 DEF Logs
    <3> QED
      BY <3>3, <3>5, <3>6
  <2>7. \A c \in M : /\ Logged(Mark("container", c)) \in D
                      /\ Logged(Mark("container", c)).id = c
                      /\ charge[Logged(Mark("container", c))] = log[c]
    <3> SUFFICES ASSUME NEW c \in M
                 PROVE  /\ Logged(Mark("container", c)) \in D
                        /\ Logged(Mark("container", c)).id = c
                        /\ charge[Logged(Mark("container", c))] = log[c]
      OBVIOUS
    <3> DEFINE n == Logged(Mark("container", c))
    <3>1. n \in D
      BY <2>3, <2>6
    <3>2. n.kind = "log_file" /\ n.id = c /\ Level(n) = 3
      <4>1. Mark("container", c).id = c
        BY DEF Mark
      <4> QED
        BY <4>1, NodeShapes
    <3> HIDE DEF n
    <3>3. n \in Nodes(t)
      BY <2>4, <3>1
    <3>4. Kids(t, n) = <<>> /\ n # Bucket("image")
      <4>1. n \notin Inner(s, "type")
        BY <1>0, <3>2, InnerLevel
      <4> QED
        BY <3>2, <4>1, NodeShapes DEF Kids, Shows
    <3>5. charge[n] = Charged(n, OwnSize(s, "type", n))
      BY <1>0, <3>3, <3>4, ChildlessCharge
    <3>6. OwnSize(s, "type", n).total = s.container[c].log
      <4>1. n # SharedLayers
        BY <3>2, NodeShapes
      <4> QED
        BY <3>2, <4>1 DEF OwnSize
    <3>7. charge[n] = log[c]
      BY <3>2, <3>5, <3>6 DEF Charged
    <3> QED
      BY <3>1, <3>2, <3>7 DEF n
  <2>8. IsFiniteSet(M)
    BY <2>5, FS_Subset
  <2>9. \A c \in M : g[c] = Logged(Mark("container", c)) /\ log[c] \in Nat /\ c \in S
    BY <2>5
  <2>10. T.logs = SumFunction(log)
    BY DEF Totals
  <2>11. Units(log, S) = Units(log, M)
    <3>1. M \subseteq S /\ \A c \in S : log[c] \in Nat /\ (c \notin M => log[c] = 0)
      BY <2>5
    <3> HIDE DEF log, S, M
    <3> QED
      BY <3>1 DEF Units
  <2>12. DOMAIN log = S
    OBVIOUS
  <2> HIDE DEF charge, D, S, log, M, g, b, T
  <2>13. \A d \in D : charge[d] = Count(log, Fiber(M, g, {d}))
    <3> SUFFICES ASSUME NEW d \in D PROVE charge[d] = Count(log, Fiber(M, g, {d}))
      OBVIOUS
    <3>1. PICK c \in M : d = Logged(Mark("container", c))
      BY <2>3, <2>6
    <3>2. Fiber(M, g, {d}) = {c}
      BY <2>7, <2>9, <3>1 DEF Fiber
    <3>3. charge[d] = log[c] /\ log[c] \in Nat
      BY <2>7, <2>9, <3>1
    <3>4. Count(log, {c}) = log[c]
      BY <3>3, CountOne
    <3> QED
      BY <3>2, <3>3, <3>4
  <2>14. Grouped(D, M, g, log, charge)
    BY <2>4, <2>7, <2>8, <2>9, <2>13 DEF Grouped
  <2>15. Count(charge, D) = Count(log, M)
    BY <2>14, CountByGroup
  <2>16. SumFunction(log) = Count(log, S)
    BY <2>5, <2>12, CountSum
  <2> QED
    BY <2>4, <2>10, <2>11, <2>15, <2>16 DEF Count, b
<1>4. charge[Bucket("image")] = T.images
  <2>1. CASE s.layers >= 0
    <3>1. Bucket("image") \in Nodes(t) /\ charge[Bucket("image")] = Sizes(s, "type", t)[Bucket("image")].total
      BY <1>1 DEF Buckets, Kinds
    <3>2. Sizes(s, "type", t)[Bucket("image")] = SizeFrom(s, "type", t, Sizes(s, "type", t), Bucket("image"))
      BY <1>0, <3>1, SizesDefined
    <3>3. SizeFrom(s, "type", t, Sizes(s, "type", t), Bucket("image")) \in Size
      BY <1>0, <3>1, <3>2, SizesDefined
    <3>4. SizeFrom(s, "type", t, Sizes(s, "type", t), Bucket("image")).total = s.layers
      <4> DEFINE z == Sizes(s, "type", t)
                 kids == Kids(t, Bucket("image"))
                 own == IF kids = <<>> THEN OwnSize(s, "type", Bucket("image"))
                        ELSE [total |-> SumFunction([k \in DOMAIN kids |-> Charged(kids[k], z[kids[k]])]),
                              exclusive |-> SumFunction([k \in DOMAIN kids |-> z[kids[k]].exclusive])]
      <4>1. SizeFrom(s, "type", t, z, Bucket("image")) = [own EXCEPT !.total = s.layers]
        BY <2>1 DEF SizeFrom
      <4>2. "total" \in DOMAIN own
        <5>1. OwnSize(s, "type", Bucket("image")) \in Size
          BY <1>0, <3>1, OwnSizeTyped, ShownNodes
        <5>2. "total" \in DOMAIN OwnSize(s, "type", Bucket("image"))
          BY <5>1 DEF Size
        <5> QED
          BY <5>2
      <4> HIDE DEF own
      <4> QED
        BY <4>1, <4>2
    <3> QED
      BY <2>1, <3>1, <3>2, <3>4, TotalsAdded
  <2>2. CASE ~(s.layers >= 0)
    BY <1>0, <1>2, <2>2, WorthOfKinds, TotalsAdded DEF Kinds
  <2> QED
    BY <2>1, <2>2
<1>5. /\ charge[Bucket("container")] = T.containers /\ charge[Bucket("volume")] = T.volumes
      /\ charge[Bucket("build_cache")] = T.build_cache
  <2>1. "container" \in Kinds /\ "volume" \in Kinds /\ "build_cache" \in Kinds
    BY DEF Kinds
  <2>2. /\ charge[Bucket("container")] = Count(worth, OfKind(s, "container"))
        /\ charge[Bucket("volume")] = Count(worth, OfKind(s, "volume"))
        /\ charge[Bucket("build_cache")] = Count(worth, OfKind(s, "build_cache"))
    BY <1>2, <2>1
  <2>3. T.containers \in Nat
    BY <1>0, WorthOfKinds
  <2> QED
    BY <1>0, <2>2, <2>3, WorthOfKinds
<1>6. Sizes(s, "type", t)[Root("type")].total = Count(charge, Under(s, "type", Root("type")))
  <2>1. Root("type") # Bucket("image") /\ Root("type").kind # "image"
    BY NodeShapes
  <2>2. Root("type") \in Nodes(t) /\ charge[Root("type")] = Count(charge, Under(s, "type", Root("type")))
    BY <1>0, <2>1, InnerCharge
  <2> QED
    BY <1>0, <2>1, <2>2, ChargeTyped
<1>7. Under(s, "type", Root("type")) =
        {Bucket("image"), Bucket("container"), Bucket("log_file"), Bucket("volume"),
         Bucket("build_cache")}
  <2>1. Under(s, "type", Root("type")) = {Bucket(k) : k \in Buckets}
    <3>1. Root("type") # Bucket("log_file")
      BY NodeShapes
    <3> QED
      BY <3>1 DEF Under
  <2>2. Buckets = {"image", "container", "log_file", "volume", "build_cache"}
    BY DEF Buckets, Kinds
  <2> QED
    BY <2>1, <2>2
<1>8. \A j, k : Bucket(j) = Bucket(k) => j = k
  BY DEF Bucket, Node
<1>9. /\ charge[Bucket("image")] \in Nat /\ charge[Bucket("container")] \in Nat
      /\ charge[Bucket("log_file")] \in Nat /\ charge[Bucket("volume")] \in Nat
      /\ charge[Bucket("build_cache")] \in Nat
  BY <1>1 DEF Buckets, Kinds
<1> DEFINE a == Bucket("image")
           b == Bucket("container")
           c == Bucket("log_file")
           d == Bucket("volume")
           e == Bucket("build_cache")
<1>10. Apart(a, b, c, d, e)
  BY <1>8 DEF Apart
<1>11. /\ charge[a] \in Nat /\ charge[b] \in Nat /\ charge[c] \in Nat /\ charge[d] \in Nat
       /\ charge[e] \in Nat
  BY <1>9
<1>12. /\ charge[a] = T.images /\ charge[b] = T.containers /\ charge[c] = T.logs
       /\ charge[d] = T.volumes /\ charge[e] = T.build_cache
       /\ Sizes(s, "type", t)[Root("type")].total = Count(charge, {a, b, c, d, e})
  BY <1>3, <1>4, <1>5, <1>6, <1>7
<1>13. SumFunction(T) = T.images + T.containers + T.logs + T.volumes + T.build_cache
  BY TotalsAdded
<1> HIDE DEF charge, worth, T, a, b, c, d, e
<1>14. Count(charge, {a, b, c, d, e}) = charge[a] + charge[b] + charge[c] + charge[d] + charge[e]
  <2>1. ASSUME NEW w, w = charge
        PROVE  Count(w, {a, b, c, d, e}) = w[a] + w[b] + w[c] + w[d] + w[e]
    <3>1. /\ w[a] \in Nat /\ w[b] \in Nat /\ w[c] \in Nat /\ w[d] \in Nat /\ w[e] \in Nat
      BY <1>11, <2>1
    <3> QED
      BY <1>10, <3>1, CountFive
  <2> QED
    BY <2>1
<1> QED
  BY <1>12, <1>13, <1>14 DEF T

\* By project: the objects, and the layers that images share.
LEMMA ProjectTotal ==
  ASSUME NEW s \in ToSet(Snapshots), NEW t, Shows(s, "project", t),
         s.layers = -1 \/ s.layers >= ImagesExclusive(s)
  PROVE  Sizes(s, "project", t)[Root("project")].total = SumFunction(Totals(s))
<1> DEFINE charge == Charge(s, "project", t)
           worth == Worth(s, "project")
           T == Totals(s)
           O == Objects(s)
<1>0. "project" \in Layouts /\ Root("project") \in Inner(s, "project")
  BY DEF Layouts, Inner
<1>1. /\ IsFiniteSet(O)
      /\ \A m \in O : /\ Leaf(m) \in Nodes(t) /\ charge[Leaf(m)] = worth[m] /\ worth[m] \in Nat
                      /\ Leaf(m).kind = m.kind /\ Leaf(m).id = m.id /\ m = Mark(m.kind, m.id)
  <2>1. \A m \in O : /\ Leaf(m) \in Nodes(t) /\ charge[Leaf(m)] = worth[m] /\ worth[m] \in Nat
    BY <1>0, LeafCharge
  <2> QED
    BY <2>1, SnapshotFacts, MarksAre, NodeShapes
<1>2. \A a, b \in O : Leaf(a) = Leaf(b) => a = b
  <2> HIDE DEF O
  <2> SUFFICES ASSUME NEW a \in O, NEW b \in O, Leaf(a) = Leaf(b) PROVE a = b
    OBVIOUS
  <2>1. a.kind = b.kind /\ a.id = b.id
    BY <1>1
  <2>2. a = Mark(a.kind, a.id) /\ b = Mark(b.kind, b.id)
    BY <1>1
  <2> QED
    BY <2>1, <2>2
\* A service is worth its containers.
<1>3. ASSUME NEW c \in Services(s)
      PROVE  charge[c] = Count(worth, {m \in O : InService(s, m) /\ Place(s, m) = c})
  <2> DEFINE D == Under(s, "project", c)
             M == {m \in O : InService(s, m) /\ Place(s, m) = c}
             g == [m \in M |-> Leaf(m)]
  <2>1. c \in Inner(s, "project") /\ c.kind = "service" /\ c # Bucket("image")
    <3>1. c \in Inner(s, "project") /\ c.kind = "service"
      BY PlacesAre DEF Inner, Services
    <3> QED
      BY <3>1, NodeShapes
  <2>2. D = {Leaf(m) : m \in M}
    BY <2>1 DEF Under
  <2>3. charge[c] = Count(charge, D) /\ IsFiniteSet(D)
    BY <1>0, <2>1, InnerCharge
  <2>4. M \subseteq O /\ \A m \in M : g[m] = Leaf(m)
    OBVIOUS
  <2>5. IsFiniteSet(M)
    BY <1>1, <2>4, FS_Subset
  <2> HIDE DEF charge, worth, D, M, g, O
  <2>6. \A d \in D : charge[d] = Count(worth, Fiber(M, g, {d}))
    <3> SUFFICES ASSUME NEW d \in D PROVE charge[d] = Count(worth, Fiber(M, g, {d}))
      OBVIOUS
    <3>1. PICK m \in M : d = Leaf(m)
      BY <2>2
    <3>2. Fiber(M, g, {d}) = {m}
      BY <1>2, <2>4, <3>1 DEF Fiber
    <3>3. charge[d] = worth[m] /\ worth[m] \in Nat
      BY <1>1, <2>4, <3>1
    <3>4. Count(worth, {m}) = worth[m]
      BY <3>3, CountOne
    <3> QED
      BY <3>2, <3>3, <3>4
  <2>7. Grouped(D, M, g, worth, charge)
    BY <1>1, <2>2, <2>3, <2>4, <2>5, <2>6 DEF Grouped
  <2> QED
    BY <2>3, <2>7, CountByGroup DEF M
\* A project is worth its objects.
<1>4. ASSUME NEW p \in Projects(s)
      PROVE  /\ charge[ProjectNode(p)] = Count(worth, {m \in O : ProjectOf(s, m) = p})
             /\ ProjectNode(p) \in Nodes(t)
  <2> DEFINE n == ProjectNode(p)
             D == Under(s, "project", n)
             M == {m \in O : ProjectOf(s, m) = p}
             g == [m \in M |-> Place(s, m)]
  <2>1. /\ n \in Inner(s, "project") /\ n.kind = "project" /\ n.id = p /\ n # Bucket("image")
    <3>1. n \in Inner(s, "project") /\ n.kind = "project" /\ n.id = p
      BY NodeShapes DEF Inner
    <3> QED
      BY <3>1, NodeShapes
  <2>2. D = {Place(s, m) : m \in M}
    <3>1. n.kind # "root"
      BY <2>1
    <3> QED
      BY <2>1, <3>1 DEF Under
  <2>3. charge[n] = Count(charge, D) /\ IsFiniteSet(D) /\ n \in Nodes(t)
    BY <1>0, <2>1, InnerCharge
  <2>4. M \subseteq O /\ \A m \in M : g[m] = Place(s, m)
    OBVIOUS
  <2>5. IsFiniteSet(M)
    BY <1>1, <2>4, FS_Subset
  <2>6. \A m \in O : m \in M <=> ProjectOf(s, m) = p
    OBVIOUS
  <2>7. \A m \in O : \/ /\ InService(s, m) /\ Place(s, m) \in Services(s)
                         /\ Place(s, m).kind = "service" /\ Place(s, m).project = ProjectOf(s, m)
                      \/ /\ ~InService(s, m) /\ Place(s, m) = Leaf(m) /\ Place(s, m).kind \in Kinds
    BY PlacesAre
  <2>8. "service" \notin Kinds
    BY DEF Kinds
  <2> HIDE DEF charge, worth, D, M, g, O, n
  <2>9. \A d \in D : charge[d] = Count(worth, Fiber(M, g, {d}))
    <3> SUFFICES ASSUME NEW d \in D PROVE charge[d] = Count(worth, Fiber(M, g, {d}))
      OBVIOUS
    <3>1. PICK m \in M : d = Place(s, m)
      BY <2>2
    <3>2. m \in O
      BY <2>4
    <3>3. CASE InService(s, m)
      <4>1. d \in Services(s) /\ d.kind = "service" /\ d.project = p
        BY <2>6, <2>7, <2>8, <3>1, <3>2, <3>3
      <4>2. Fiber(M, g, {d}) = {o \in O : InService(s, o) /\ Place(s, o) = d}
        <5>1. \A o \in O : Place(s, o) = d => InService(s, o) /\ o \in M
          BY <2>6, <2>7, <2>8, <4>1
        <5>2. \A o \in Fiber(M, g, {d}) : o \in O /\ InService(s, o) /\ Place(s, o) = d
          BY <2>4, <5>1 DEF Fiber
        <5>3. \A o \in O : InService(s, o) /\ Place(s, o) = d => o \in Fiber(M, g, {d})
          BY <2>4, <5>1 DEF Fiber
        <5> QED
          BY <5>2, <5>3
      <4> QED
        BY <1>3, <4>1, <4>2
    <3>4. CASE ~InService(s, m)
      <4>1. d = Leaf(m) /\ d.kind \in Kinds
        BY <2>7, <3>1, <3>2, <3>4
      <4>2. \A o \in O : Place(s, o) = d => o = m
        BY <1>2, <2>7, <2>8, <3>2, <4>1
      <4>3. Fiber(M, g, {d}) = {m}
        BY <2>4, <3>1, <4>2 DEF Fiber
      <4>4. charge[d] = worth[m] /\ worth[m] \in Nat
        BY <1>1, <3>2, <4>1
      <4>5. Count(worth, {m}) = worth[m]
        BY <4>4, CountOne
      <4> QED
        BY <4>3, <4>4, <4>5
    <3> QED
      BY <3>3, <3>4
  <2>10. Grouped(D, M, g, worth, charge)
    BY <1>1, <2>2, <2>3, <2>4, <2>5, <2>9 DEF Grouped
  <2> QED
    BY <2>3, <2>10, CountByGroup DEF M, n
<1> DEFINE nodes == {ProjectNode(p) : p \in Projects(s)}
           extra == IF s.layers > ImagesExclusive(s) THEN {SharedLayers} ELSE {}
           root == Root("project")
\* Every object is in one project.
<1>5. IsFiniteSet(nodes) /\ Count(charge, nodes) = Count(worth, O) /\ \A d \in nodes : charge[d] \in Nat
  <2> DEFINE g == [m \in O |-> ProjectNode(ProjectOf(s, m))]
  <2>1. IsFiniteSet(nodes)
    <3> DEFINE f == [p \in Projects(s) |-> ProjectNode(p)]
    <3>1. f \in Surjection(Projects(s), nodes)
      BY DEF Surjection
    <3> HIDE DEF f, nodes
    <3> QED
      BY <3>1, ProjectsFinite, FS_Surjection
  <2>2. \A m \in O : g[m] = ProjectNode(ProjectOf(s, m)) /\ ProjectOf(s, m) \in Projects(s)
    BY DEF Projects
  <2>3. \A m \in O : g[m] \in nodes
    <3> HIDE DEF g
    <3> QED
      BY <2>2
  <2>4. \A d \in nodes : \E p \in Projects(s) : d = ProjectNode(p)
    OBVIOUS
  <2>5. \A p, q : ProjectNode(p) = ProjectNode(q) => p = q
    BY DEF ProjectNode
  <2>6. \A d \in nodes : charge[d] \in Nat
    <3> SUFFICES ASSUME NEW d \in nodes PROVE charge[d] \in Nat
      OBVIOUS
    <3>1. d \in Nodes(t)
      BY <1>4, <2>4
    <3> QED
      BY <1>0, <3>1, ChargeTyped
  <2> HIDE DEF g, nodes, charge, worth, O
  <2>7. \A d \in nodes : charge[d] = Count(worth, Fiber(O, g, {d}))
    <3> SUFFICES ASSUME NEW d \in nodes PROVE charge[d] = Count(worth, Fiber(O, g, {d}))
      OBVIOUS
    <3>1. PICK p \in Projects(s) : d = ProjectNode(p)
      BY <2>4
    <3>2. Fiber(O, g, {d}) = {m \in O : ProjectOf(s, m) = p}
      BY <2>2, <2>5, <3>1 DEF Fiber
    <3> QED
      BY <1>4, <3>1, <3>2
  <2>8. Grouped(nodes, O, g, worth, charge)
    BY <1>1, <2>1, <2>3, <2>7 DEF Grouped
  <2> QED
    BY <2>1, <2>6, <2>8, CountByGroup
<1>6. /\ Sizes(s, "project", t)[root].total = Count(charge, nodes \cup extra)
      /\ \A c \in nodes \cup extra : c \in Nodes(t)
  <2>1. root # Bucket("image") /\ root.kind = "root"
    BY NodeShapes
  <2>2. Under(s, "project", root) = nodes \cup extra
    BY <2>1 DEF Under
  <2>3. root \in Nodes(t) /\ charge[root] = Count(charge, Under(s, "project", root))
        /\ \A c \in Under(s, "project", root) : c \in Nodes(t)
    BY <1>0, <2>1, InnerCharge
  <2>4. charge[root] = Sizes(s, "project", t)[root].total
    BY <1>0, <2>1, <2>3, ChargeTyped
  <2> QED
    BY <2>2, <2>3, <2>4
<1>7. /\ IsFiniteSet(extra) /\ nodes \cap extra = {} /\ \A c \in extra : charge[c] \in Nat
      /\ Count(charge, extra) = T.images - ImagesExclusive(s)
  <2>1. \A p : ProjectNode(p) # SharedLayers
    BY DEF ProjectNode, SharedLayers, Node
  <2>2. T.images = (IF s.layers >= 0 THEN s.layers ELSE ImagesExclusive(s))
        /\ ImagesExclusive(s) \in Nat /\ s.layers \in Int
    BY TotalsAdded, ImagesExclusiveTyped, SnapshotSizes
  <2>3. CASE s.layers > ImagesExclusive(s)
    <3>1. extra = {SharedLayers}
      BY <2>3
    <3>2. SharedLayers \in Nodes(t)
      BY <1>6, <3>1
    <3>3. SharedLayers.kind = "project" /\ SharedLayers # Bucket("image")
      BY NodeShapes
    <3>4. Kids(t, SharedLayers) = <<>>
      <4>1. SharedLayers \notin Inner(s, "project")
        BY <1>0, InnerLevel
      <4> QED
        BY <4>1 DEF Kids, Shows
    <3>5. charge[SharedLayers] = Charged(SharedLayers, OwnSize(s, "project", SharedLayers))
          /\ charge[SharedLayers] \in Nat
      BY <1>0, <3>2, <3>3, <3>4, ChildlessCharge, ChargeTyped
    <3>6. OwnSize(s, "project", SharedLayers) = [total |-> s.layers - ImagesExclusive(s), exclusive |-> 0]
      BY <3>3 DEF OwnSize
    <3>7. charge[SharedLayers] = s.layers - ImagesExclusive(s)
      BY <3>3, <3>5, <3>6 DEF Charged
    <3>8. Count(charge, {SharedLayers}) = charge[SharedLayers]
      BY <3>5, CountOne
    <3>9. IsFiniteSet({SharedLayers})
      BY FS_Singleton
    <3>10. nodes \cap {SharedLayers} = {}
      BY <2>1
    <3> HIDE DEF extra, nodes, charge, T
    <3> QED
      BY <2>2, <2>3, <3>1, <3>5, <3>7, <3>8, <3>9, <3>10
  <2>4. CASE ~(s.layers > ImagesExclusive(s))
    <3>1. extra = {}
      BY <2>4
    <3>2. IsFiniteSet({}) /\ Count(charge, {}) = 0
      BY CountNone, FS_EmptySet
    <3>3. T.images = ImagesExclusive(s)
      BY <2>2, <2>4
    <3> HIDE DEF extra, nodes, charge, T
    <3> QED
      BY <2>2, <3>1, <3>2, <3>3
  <2> QED
    BY <2>3, <2>4
<1> HIDE DEF nodes, extra, charge, worth, T, O, root
<1>8. Count(charge, nodes \cup extra) = Count(charge, nodes) + Count(charge, extra)
  <2>1. \A c \in nodes \cup extra : charge[c] \in Nat
    BY <1>5, <1>7
  <2> QED
    BY <1>5, <1>7, <2>1, CountBoth
<1>9. Count(worth, O) = ImagesExclusive(s) + (T.containers + T.logs) + T.volumes + T.build_cache
  <2>1. /\ Count(worth, OfKind(s, "image")) = ImagesExclusive(s)
        /\ Count(worth, OfKind(s, "container")) = T.containers + T.logs
        /\ Count(worth, OfKind(s, "volume")) = T.volumes
        /\ Count(worth, OfKind(s, "build_cache")) = T.build_cache
    BY <1>0, WorthOfKinds DEF worth, T
  <2>2. \A m \in Objects(s) : worth[m] \in Nat
    BY <1>1 DEF O
  <2>3. Count(worth, Objects(s)) = Count(worth, OfKind(s, "image")) + Count(worth, OfKind(s, "container"))
              + Count(worth, OfKind(s, "volume")) + Count(worth, OfKind(s, "build_cache"))
    BY <2>2, CountOfKinds
  <2> QED
    BY <2>1, <2>3 DEF O
<1>10. /\ SumFunction(T) = T.images + T.containers + T.logs + T.volumes + T.build_cache
       /\ T.images \in Nat /\ ImagesExclusive(s) \in Nat
       /\ T.containers \in Nat /\ T.logs \in Nat /\ T.volumes \in Nat /\ T.build_cache \in Nat
  BY <1>0, TotalsAdded, WorthOfKinds, ImagesExclusiveTyped DEF T
<1>11. Count(charge, nodes \cup extra) = SumFunction(T)
  BY <1>5, <1>7, <1>8, <1>9, <1>10
<1> QED
  BY <1>6, <1>11 DEF root, T

\* computeSizes ends with the same total at the root in both layouts, that of
\* ComputeTotals, for every snapshot: logs and shared layers once, nothing left out.
THEOREM BothLayoutsAddUp == Spec => []TotalsAgree
<1>1. AtlasInv => TotalsAgree
  <2> SUFFICES ASSUME AtlasInv, snap # 0
               PROVE  Sizes(Snapshots[snap], layout, tree)[Root(layout)].total
                        = SumFunction(Totals(Snapshots[snap]))
    BY DEF TotalsAgree
  <2> DEFINE s == Snapshots[snap]
  <2>1. s \in ToSet(Snapshots) /\ layout \in Layouts /\ Shows(s, layout, tree)
    BY IndexOfSnapshot DEF AtlasInv
  <2>2. s.layers = -1 \/ s.layers >= ImagesExclusive(s)
    BY LayersAssumption DEF AtlasInv
  <2> HIDE DEF s
  <2>3. Sizes(s, layout, tree)[Root(layout)].total = SumFunction(Totals(s))
    BY <2>1, <2>2, TypeTotal, ProjectTotal DEF Layouts
  <2> QED
    BY <2>3 DEF s
<1> QED
  BY <1>1, AtlasInvariant, PTL
=============================================================================
