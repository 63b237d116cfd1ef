--------------------------- MODULE ConfigureProofs ---------------------------
(***************************************************************************)
(* Proofs about Configure, for command lines of any length: the table is   *)
(* at every step what the arguments before idx say, read as a whole.       *)
(***************************************************************************)
EXTENDS Configure, FiniteSetTheorems, SequenceTheorems, WellFoundedInduction, TLAPS

(* Induction over the numbers, for a set of them. *)
LEMMA SetInduction ==
  ASSUME NEW S, 0 \in S, \A n \in Nat : n \in S => n + 1 \in S
  PROVE  \A n \in Nat : n \in S
<1> SUFFICES ASSUME NEW k \in Nat, k \notin S PROVE FALSE
  OBVIOUS
<1> DEFINE R == OpToRel(<, Nat)
           T == {n \in Nat : n \notin S}
<1>1. IsWellFoundedOn(R, Nat)
  BY NatLessThanWellFounded
<1>2. R = {ss \in Nat \X Nat : ss[1] < ss[2]}
  BY DEF OpToRel
<1> HIDE DEF R
<1>3. T \subseteq Nat /\ T # {}
  OBVIOUS
<1> HIDE DEF T
<1>4. PICK x \in T : \A y \in T : ~ (<<y, x>> \in R)
  BY <1>1, <1>3, WFMin
<1>5. x \in Nat /\ x \notin S /\ x # 0
  BY <1>4 DEF T
<1>6. x - 1 \in T => <<x - 1, x>> \in R
  BY <1>5, <1>2
<1>7. x - 1 \in S
  BY <1>4, <1>5, <1>6 DEF T
<1> QED  BY <1>5, <1>7

(* A function may be defined by its first value and each by the one before.*)
Follows(f, first, step) ==
  f[0] = first /\ \A n \in Nat : f[n + 1] = step[n][f[n]]

LEMMA RecursiveFunctionExists ==
  ASSUME NEW V, NEW first \in V, NEW step \in [Nat -> [V -> V]]
  PROVE  \E f \in [Nat -> V] : Follows(f, first, step)
<1> DEFINE Good(f, n) == f[0] = first /\ \A k \in 0 .. n - 1 : f[k + 1] = step[k][f[k]]
           S == {n \in Nat : \E f \in [0 .. n -> V] : Good(f, n)}
           pick == [n \in Nat |-> CHOOSE f \in [0 .. n -> V] : Good(f, n)]
           whole == [n \in Nat |-> pick[n][n]]
<1>1. 0 \in S
  <2>1. [k \in 0 .. 0 |-> first] \in [0 .. 0 -> V] /\ Good([k \in 0 .. 0 |-> first], 0)
    OBVIOUS
  <2> QED  BY <2>1
<1>2. ASSUME NEW n \in Nat, n \in S PROVE n + 1 \in S
  <2>1. PICK f \in [0 .. n -> V] : Good(f, n)
    BY <1>2
  <2> DEFINE g == [k \in 0 .. n + 1 |-> IF k \in 0 .. n THEN f[k] ELSE step[n][f[n]]]
  <2>2. f[n] \in V /\ step[n][f[n]] \in V
    OBVIOUS
  <2>3. g \in [0 .. n + 1 -> V]
    BY <2>2
  <2>4. g[0] = first
    BY <2>1
  <2>5. ASSUME NEW k \in 0 .. n PROVE g[k + 1] = step[k][g[k]]
    <3>1. CASE k = n
      BY <3>1
    <3>2. CASE k \in 0 .. n - 1
      BY <2>1, <3>2
    <3> QED  BY <3>1, <3>2
  <2>6. Good(g, n + 1)
    <3>1. (n + 1) - 1 = n
      OBVIOUS
    <3> HIDE DEF g
    <3> QED  BY <2>4, <2>5, <3>1
  <2> HIDE DEF g, Good
  <2> QED  BY <2>3, <2>6
<1>3. \A n \in Nat : n \in S
  <2> HIDE DEF S
  <2> QED  BY <1>1, <1>2, SetInduction
<1>4. ASSUME NEW n \in Nat PROVE pick[n] \in [0 .. n -> V] /\ Good(pick[n], n)
  <2> HIDE DEF Good
  <2> QED  BY <1>3
(* They agree where they are both defined. *)
<1>5. ASSUME NEW n \in Nat PROVE pick[n + 1][n] = pick[n][n]
  <2> HIDE DEF pick
  <2> DEFINE A == {k \in Nat : k <= n => pick[n + 1][k] = pick[n][k]}
  <2>1. 0 \in A
    BY <1>4
  <2>2. ASSUME NEW k \in Nat, k \in A, k + 1 <= n
        PROVE  pick[n + 1][k + 1] = pick[n][k + 1]
    <3>1. pick[n + 1][k] = pick[n][k]
      BY <2>2
    <3>2. pick[n + 1][k + 1] = step[k][pick[n + 1][k]]
      BY <1>4, <2>2
    <3>3. pick[n][k + 1] = step[k][pick[n][k]]
      BY <1>4, <2>2
    <3> QED  BY <3>1, <3>2, <3>3
  <2>3. \A k \in Nat : k \in A => k + 1 \in A
    BY <2>2
  <2> HIDE DEF A
  <2>4. n \in A
    BY <2>1, <2>3, SetInduction
  <2> QED  BY <2>4 DEF A
<1>6. whole \in [Nat -> V]
  <2> HIDE DEF pick
  <2> QED  BY <1>4
<1>7. whole[0] = first
  <2> HIDE DEF pick
  <2> QED  BY <1>4
<1>8. ASSUME NEW n \in Nat PROVE whole[n + 1] = step[n][whole[n]]
  <2> HIDE DEF pick
  <2>1. pick[n + 1][n + 1] = step[n][pick[n + 1][n]]
    BY <1>4
  <2> QED  BY <1>5, <2>1
<1> HIDE DEF whole
<1> QED  BY <1>6, <1>7, <1>8 DEF Follows

-----------------------------------------------------------------------------
(* The equation of IsValue. *)
LEMMA IsValueFacts ==
  /\ DOMAIN IsValue = Nat
  /\ \A i \in Nat : IsValue[i] = (/\ i > 1 /\ i - 1 \in DOMAIN argv /\ ~IsValue[i - 1]
                                  /\ TakesValue(argv[i - 1]) /\ argv[i - 1].rest = EMPTY)
<1> DEFINE May(i) == /\ i > 1 /\ i - 1 \in DOMAIN argv
                     /\ TakesValue(argv[i - 1]) /\ argv[i - 1].rest = EMPTY
           step == [i \in Nat |-> [b \in BOOLEAN |-> IF May(i + 1) /\ ~b THEN TRUE ELSE FALSE]]
<1>1. step \in [Nat -> [BOOLEAN -> BOOLEAN]]
  OBVIOUS
<1>2. PICK f \in [Nat -> BOOLEAN] : Follows(f, FALSE, step)
  <2> DEFINE first == FALSE
  <2>1. first \in BOOLEAN
    OBVIOUS
  <2> HIDE DEF step, first
  <2>2. \E f \in [Nat -> BOOLEAN] : Follows(f, first, step)
    BY <1>1, <2>1, RecursiveFunctionExists
  <2> QED  BY <2>2 DEF first
<1>3. ASSUME NEW n \in Nat PROVE f[n + 1] = (May(n + 1) /\ ~f[n])
  <2> HIDE DEF May
  <2> QED  BY <1>2 DEF Follows
<1>4. ASSUME NEW i \in Nat PROVE f[i] = (May(i) /\ ~f[i - 1])
  <2>1. CASE i = 0
    BY <1>2, <2>1 DEF Follows
  <2>2. CASE i # 0
    <3>1. i - 1 \in Nat /\ i = (i - 1) + 1
      BY <2>2
    <3> HIDE DEF May
    <3> QED  BY <1>3, <3>1
  <2> QED  BY <2>1, <2>2
<1>5. f = [i \in Nat |-> /\ i > 1 /\ i - 1 \in DOMAIN argv /\ ~f[i - 1]
                         /\ TakesValue(argv[i - 1]) /\ argv[i - 1].rest = EMPTY]
  BY <1>4
<1>6. IsValue = [i \in Nat |-> /\ i > 1 /\ i - 1 \in DOMAIN argv /\ ~IsValue[i - 1]
                               /\ TakesValue(argv[i - 1]) /\ argv[i - 1].rest = EMPTY]
  BY <1>5 DEF IsValue
<1> QED  BY <1>6

-----------------------------------------------------------------------------
(* What ItemsAt gathers, place by place. *)
Piece(items, n) == IF n \in DOMAIN items THEN items[n] ELSE << >>

Gathers(f, items) ==
  f[0] = << >> /\ \A n \in Nat : f[n + 1] = f[n] \o Piece(items, n + 1)

Gathered(f, items, n) == IF n = 0 THEN << >> ELSE f[n - 1] \o Piece(items, n)

LEMMA ItemsAtIsGathered ==
  ASSUME NEW X, NEW items, \A n \in DOMAIN items : items[n] \in Seq(X), Len(argv) \in Nat
  PROVE  \E f \in [Nat -> Seq(X)] : Gathers(f, items) /\ ItemsAt(items) = f[Len(argv)]
<1> DEFINE step == [n \in Nat |-> [s \in Seq(X) |-> s \o Piece(items, n + 1)]]
           size == Len(argv)
<1>1. \A n \in Nat : Piece(items, n) \in Seq(X)
  BY DEF Piece
<1>2. step \in [Nat -> [Seq(X) -> Seq(X)]]
  BY <1>1
<1>3. PICK f \in [Nat -> Seq(X)] : Follows(f, << >>, step)
  <2> DEFINE first == << >>
             V == Seq(X)
  <2>1. first \in V /\ step \in [Nat -> [V -> V]]
    BY <1>2
  <2> HIDE DEF step, first, V
  <2>2. \E f \in [Nat -> V] : Follows(f, first, step)
    BY <2>1, RecursiveFunctionExists
  <2> QED  BY <2>2 DEF first, V
<1>4. Gathers(f, items)
  BY <1>3 DEF Follows, Gathers
<1> HIDE DEF step
<1> DEFINE upto == CHOOSE g : g = [n \in 0 .. size |-> Gathered(g, items, n)]
           part == [n \in 0 .. size |-> f[n]]
<1>5. ItemsAt(items) = upto[size]
  BY DEF ItemsAt, Piece, Gathered
<1>6. part = [n \in 0 .. size |-> Gathered(part, items, n)]
  <2>1. ASSUME NEW n \in 0 .. size PROVE f[n] = Gathered(part, items, n)
    <3>1. CASE n = 0
      BY <1>4, <3>1 DEF Gathers, Gathered
    <3>2. CASE n # 0
      <4>1. n - 1 \in Nat /\ n = (n - 1) + 1 /\ n - 1 \in 0 .. size
        BY <3>2
      <4>2. f[n] = f[n - 1] \o Piece(items, n)
        BY <1>4, <4>1 DEF Gathers
      <4> QED  BY <3>2, <4>1, <4>2 DEF Gathered
    <3> QED  BY <3>1, <3>2
  <2> QED  BY <2>1
<1>7. upto = [n \in 0 .. size |-> Gathered(upto, items, n)]
  <2> HIDE DEF part
  <2> QED  BY <1>6
<1> HIDE DEF upto, part
<1>8. \A n \in Nat : n <= size => upto[n] = f[n]
  <2> DEFINE S == {n \in Nat : n <= size => upto[n] = f[n]}
  <2>1. 0 \in S
    <3>1. upto[0] = << >>
      BY <1>7 DEF Gathered
    <3> QED  BY <1>4, <3>1 DEF Gathers
  <2>2. ASSUME NEW n \in Nat, n \in S, n + 1 <= size PROVE upto[n + 1] = f[n + 1]
    <3>1. n + 1 \in 0 .. size /\ n + 1 # 0 /\ (n + 1) - 1 = n
      BY <2>2
    <3>2. upto[n + 1] = Gathered(upto, items, n + 1)
      BY <1>7, <3>1
    <3>3. upto[n + 1] = upto[n] \o Piece(items, n + 1)
      <4>1. Gathered(upto, items, n + 1) = upto[(n + 1) - 1] \o Piece(items, n + 1)
        BY <3>1 DEF Gathered
      <4> QED  BY <3>1, <3>2, <4>1
    <3>4. f[n + 1] = f[n] \o Piece(items, n + 1)
      BY <1>4 DEF Gathers
    <3>5. upto[n] = f[n]
      BY <2>2
    <3> QED  BY <3>3, <3>4, <3>5
  <2>3. \A n \in Nat : n \in S => n + 1 \in S
    BY <2>2
  <2> HIDE DEF S
  <2>4. \A n \in Nat : n \in S
    BY <2>1, <2>3, SetInduction
  <2> QED  BY <2>4 DEF S
<1>9. ItemsAt(items) = f[size]
  BY <1>5, <1>8
<1> QED  BY <1>4, <1>9

-----------------------------------------------------------------------------
(* The occurrences of an option before a place of the command line. *)
Before(o, k) == {i \in Occurrences(o) : i < k}

(* What a command line says depends on nothing else. *)
LEMMA ReadingsUnchanged ==
  ASSUME argv' = argv
  PROVE  /\ IsValue' = IsValue
         /\ \A o : Occurrences(o)' = Occurrences(o)
         /\ \A o, k : Before(o, k)' = Before(o, k)
         /\ \A i : ValueAt(i)' = ValueAt(i)
         /\ \A e, S : GivenAt(e, S)' = GivenAt(e, S)
<1>1. IsValue' = IsValue
  BY DEF IsValue
<1>2. \A o : Occurrences(o)' = Occurrences(o)
  BY <1>1 DEF Occurrences
<1>3. \A o, k : Before(o, k)' = Before(o, k)
  BY <1>2 DEF Before
<1>4. \A i : ValueAt(i)' = ValueAt(i)
  BY DEF ValueAt
<1>5. \A items : ItemsAt(items)' = ItemsAt(items)
  BY DEF ItemsAt
<1>6. \A S : ItemsAt([n \in S |-> <<argv[n]>>])' = ItemsAt([n \in S |-> <<argv[n]>>])
  BY DEF ItemsAt
<1>7. \A S : ItemsAt([n \in S |-> ItemsIn(ValueAt(n))])' = ItemsAt([n \in S |-> ItemsIn(ValueAt(n))])
  BY DEF ItemsAt, ValueAt
<1>8. \A e, S : GivenAt(e, S)' = GivenAt(e, S)
  BY <1>4, <1>6, <1>7 DEF GivenAt
<1> QED  BY <1>1, <1>2, <1>3, <1>4, <1>8

(* Where the next option, or file, is after the one at a place. *)
After(k) == IF TakesValue(argv[k]) /\ argv[k].rest = EMPTY THEN k + 2 ELSE k + 1

LEMMA Consumed ==
  ASSUME argv \in Seq(Text), NEW k \in 1 .. Len(argv), ~IsValue[k]
  PROVE  /\ ~IsValue[After(k)]
         /\ \A o : Before(o, After(k)) = IF argv[k].option = o THEN Before(o, k) \cup {k}
                                                              ELSE Before(o, k)
<1>1. k \in Nat /\ k \in DOMAIN argv /\ DOMAIN argv = 1 .. Len(argv)
  OBVIOUS
<1>2. IsValue[k + 1] = (TakesValue(argv[k]) /\ argv[k].rest = EMPTY)
  <2>1. k + 1 \in Nat /\ k + 1 > 1 /\ (k + 1) - 1 = k
    BY <1>1
  <2>2. IsValue[k + 1] = (/\ k + 1 > 1 /\ (k + 1) - 1 \in DOMAIN argv /\ ~IsValue[(k + 1) - 1]
                          /\ TakesValue(argv[(k + 1) - 1]) /\ argv[(k + 1) - 1].rest = EMPTY)
    BY <2>1, IsValueFacts
  <2> QED  BY <1>1, <2>1, <2>2
<1>3. IsValue[k + 1] => ~IsValue[k + 2]
  <2>1. k + 2 \in Nat /\ (k + 2) - 1 = k + 1
    BY <1>1
  <2>2. IsValue[k + 2] => ~IsValue[(k + 2) - 1]
    BY <2>1, IsValueFacts
  <2> QED  BY <2>1, <2>2
<1>4. ~IsValue[After(k)]
  BY <1>2, <1>3 DEF After
<1>5. ASSUME NEW i \in DOMAIN argv, ~IsValue[i] PROVE i < After(k) <=> i < k \/ i = k
  <2>1. i \in Nat
    BY <1>1
  <2>2. CASE IsValue[k + 1]
    <3>1. After(k) = k + 2 /\ i # k + 1
      BY <1>2, <1>5, <2>2 DEF After
    <3> QED  BY <1>1, <2>1, <3>1
  <2>3. CASE ~IsValue[k + 1]
    <3>1. After(k) = k + 1
      BY <1>2, <2>3 DEF After
    <3> QED  BY <1>1, <2>1, <3>1
  <2> QED  BY <2>2, <2>3
<1>6. ASSUME NEW o PROVE Before(o, After(k)) = {i \in Before(o, k) \cup {k} : argv[i].option = o}
  BY <1>1, <1>5 DEF Before, Occurrences
<1>7. \A o : \A i \in Before(o, k) : argv[i].option = o
  BY DEF Before, Occurrences
<1> QED  BY <1>4, <1>6, <1>7

LEMMA BeforeFacts ==
  ASSUME argv \in Seq(Text), NEW o, NEW k \in Nat
  PROVE  /\ Before(o, k) \subseteq 1 .. Len(argv) /\ IsFiniteSet(Before(o, k))
         /\ \A i \in Before(o, k) : i < k
         /\ k \notin Before(o, k)
         /\ k = Len(argv) + 1 => Before(o, k) = Occurrences(o)
         /\ k = 1 => Before(o, k) = {}
<1>1. Before(o, k) \subseteq 1 .. Len(argv)
  BY DEF Before, Occurrences
<1>2. IsFiniteSet(Before(o, k))
  BY <1>1, FS_Interval, FS_Subset
<1> QED  BY <1>1, <1>2 DEF Before, Occurrences

-----------------------------------------------------------------------------
(* How what is given changes with one more place. *)
LEMMA OddFlips ==
  ASSUME NEW S, IsFiniteSet(S), NEW k, k \notin S
  PROVE  Odd(S \cup {k}) <=> ~Odd(S)
<1>1. Cardinality(S) \in Nat /\ Cardinality(S \cup {k}) = Cardinality(S) + 1
  BY FS_AddElement, FS_CardinalityType
<1> QED  BY <1>1 DEF Odd

LEMMA LastOfMore ==
  ASSUME NEW S \in SUBSET Int, NEW k \in Int, \A i \in S : i < k
  PROVE  LastOf(S \cup {k}) = k
<1>1. k \in S \cup {k} /\ \A j \in S \cup {k} : j <= k
  OBVIOUS
<1>2. \A i \in S \cup {k} : (\A j \in S \cup {k} : j <= i) => i = k
  OBVIOUS
<1> QED  BY <1>1, <1>2 DEF LastOf

LEMMA NothingAtNoPlace ==
  ASSUME NEW items, DOMAIN items = {}, Len(argv) \in Nat
  PROVE  ItemsAt(items) = << >>
<1> DEFINE X == {}
<1>1. PICK f \in [Nat -> Seq(X)] : Gathers(f, items) /\ ItemsAt(items) = f[Len(argv)]
  BY ItemsAtIsGathered
<1> QED  BY <1>1

HaveOneMore(items, more, k, X) ==
  /\ DOMAIN items \in SUBSET Int /\ \A n \in DOMAIN items : n < k
  /\ DOMAIN more = DOMAIN items \cup {k}
  /\ \A n \in DOMAIN items : items[n] \in Seq(X) /\ more[n] = items[n]
  /\ more[k] \in Seq(X)

LEMMA ItemsAtMore ==
  ASSUME NEW X, NEW items, NEW more, NEW k \in 1 .. Len(argv), Len(argv) \in Nat,
         HaveOneMore(items, more, k, X)
  PROVE  ItemsAt(more) = ItemsAt(items) \o more[k]
<1> USE DEF HaveOneMore
<1> DEFINE size == Len(argv)
<1>1. PICK f \in [Nat -> Seq(X)] : Gathers(f, items) /\ ItemsAt(items) = f[size]
  BY ItemsAtIsGathered
<1>2. PICK g \in [Nat -> Seq(X)] : Gathers(g, more) /\ ItemsAt(more) = g[size]
  BY ItemsAtIsGathered
<1>3. ASSUME NEW n \in Nat, n + 1 < k PROVE Piece(more, n + 1) = Piece(items, n + 1)
  <2>1. n + 1 # k
    BY <1>3
  <2>2. n + 1 \in DOMAIN more <=> n + 1 \in DOMAIN items
    BY <2>1
  <2> QED  BY <2>2 DEF Piece
<1>4. ASSUME NEW n \in Nat, n + 1 > k
      PROVE  Piece(more, n + 1) = << >> /\ Piece(items, n + 1) = << >>
  <2>1. n + 1 \notin DOMAIN items /\ n + 1 \notin DOMAIN more
    BY <1>4
  <2> QED  BY <2>1 DEF Piece
<1>5. Piece(more, k) = more[k] /\ Piece(items, k) = << >>
  BY DEF Piece
<1> DEFINE both == [n \in Nat |-> f[n] \o more[k]]
           A == {n \in Nat : n < k => g[n] = f[n]}
           B == {n \in Nat : n >= k => g[n] = both[n]}
<1>b. \A n \in Nat : both[n] = f[n] \o more[k]
  OBVIOUS
<1> HIDE DEF both
<1>f. ASSUME NEW n \in Nat, Piece(items, n + 1) = << >> PROVE f[n + 1] = f[n]
  <2>1. f[n + 1] = f[n] \o << >>
    BY <1>1, <1>f DEF Gathers
  <2> QED  BY <2>1
<1>g. ASSUME NEW n \in Nat, Piece(more, n + 1) = << >> PROVE g[n + 1] = g[n]
  <2>1. g[n + 1] = g[n] \o << >>
    BY <1>2, <1>g DEF Gathers
  <2> QED  BY <2>1
<1>6. \A n \in Nat : n \in A
  <2>1. 0 \in A
    BY <1>1, <1>2 DEF Gathers
  <2>2. ASSUME NEW n \in Nat, n \in A PROVE n + 1 \in A
    <3> SUFFICES ASSUME n + 1 < k PROVE g[n + 1] = f[n + 1]
      OBVIOUS
    <3>1. g[n + 1] = g[n] \o Piece(more, n + 1)
      BY <1>2 DEF Gathers
    <3>2. f[n + 1] = f[n] \o Piece(items, n + 1)
      BY <1>1 DEF Gathers
    <3>3. g[n] = f[n]
      BY <2>2
    <3> QED  BY <1>3, <3>1, <3>2, <3>3
  <2> HIDE DEF A
  <2> QED  BY <2>1, <2>2, SetInduction
<1>7. \A n \in Nat : n \in B
  <2>1. 0 \in B
    OBVIOUS
  <2>2. ASSUME NEW n \in Nat, n \in B PROVE n + 1 \in B
    <3>0. n + 1 \in Nat
      OBVIOUS
    <3> SUFFICES ASSUME n + 1 >= k PROVE g[n + 1] = both[n + 1]
      BY <3>0, Zenon
    <3>1. CASE n + 1 = k
      <4>1. g[k] = g[n] \o more[k]
        BY <1>2, <1>5, <3>1 DEF Gathers
      <4>2. f[k] = f[n]
        BY <1>5, <1>f, <3>1
      <4>3. g[n] = f[n]
        BY <1>6, <3>1
      <4>4. both[k] = f[k] \o more[k]
        <5>1. k \in Nat
          OBVIOUS
        <5> QED  BY <1>b, <5>1, Zenon
      <4> QED  BY <3>1, <4>1, <4>2, <4>3, <4>4
    <3>2. CASE n + 1 > k
      <4>1. n >= k
        BY <3>2
      <4>2. g[n] = both[n]
        BY <2>2, <4>1
      <4>3. f[n + 1] = f[n] /\ g[n + 1] = g[n]
        BY <1>4, <1>f, <1>g, <3>2
      <4>4. both[n + 1] = f[n + 1] \o more[k] /\ both[n] = f[n] \o more[k]
        <5>1. n + 1 \in Nat
          OBVIOUS
        <5> QED  BY <1>b, <5>1, Zenon
      <4> QED  BY <4>2, <4>3, <4>4
    <3> QED  BY <3>1, <3>2
  <2> HIDE DEF B
  <2> QED  BY <2>1, <2>2, SetInduction
<1>8. g[size] = both[size]
  BY <1>7
<1> QED  BY <1>1, <1>2, <1>8, <1>b

-----------------------------------------------------------------------------
(* The table of the program. *)
LEMMA EntryFacts ==
  /\ Entry = {"HELP_FLAG", "VERBOSE", "OUTFILE", "FPATH", "DFILE_ONLY", "DUMP_FILE", "INFILES"}
  /\ List = {"FPATH", "INFILES"}
  /\ Option = {"HELP_FLAG", "VERBOSE", "OUTFILE", "FPATH", "DFILE_ONLY", "DUMP_FILE"}
  /\ Type["HELP_FLAG"] = "HELP" /\ Type["VERBOSE"] = "NUM" /\ Type["OUTFILE"] = "STR"
  /\ Type["FPATH"] = "LIST" /\ Type["DFILE_ONLY"] = "BOOL" /\ Type["DUMP_FILE"] = "STR"
  /\ Type["INFILES"] = "LIST"
<1>1. Entry = {"HELP_FLAG", "VERBOSE", "OUTFILE", "FPATH", "DFILE_ONLY", "DUMP_FILE", "INFILES"}
  BY DEF Entry, Type
<1>2. /\ Type["HELP_FLAG"] = "HELP" /\ Type["VERBOSE"] = "NUM" /\ Type["OUTFILE"] = "STR"
      /\ Type["FPATH"] = "LIST" /\ Type["DFILE_ONLY"] = "BOOL" /\ Type["DUMP_FILE"] = "STR"
      /\ Type["INFILES"] = "LIST"
  BY DEF Type
<1>3. List = {"FPATH", "INFILES"}
  BY <1>1, <1>2 DEF List
<1> QED  BY <1>1, <1>2, <1>3 DEF Option

LEMMA DefaultFacts ==
  /\ DOMAIN Default = Entry
  /\ Default["HELP_FLAG"] = 0 /\ Default["VERBOSE"] = 0 /\ Default["DFILE_ONLY"] = 0
  /\ Default["OUTFILE"] \in Text /\ Default["DUMP_FILE"] \in Text
  /\ Default["FPATH"] \in Seq(Text) /\ Default["INFILES"] = << >>
BY ConfigureAssumption, EntryFacts DEF Default

LEMMA TextFacts ==
  ASSUME NEW t \in Text
  PROVE  /\ t.rest \in Word /\ t.option \in Option \cup {"-?", "none"}
         /\ Plain(t.rest) \in Text
         /\ Number[t] \in Int /\ ItemsIn(t) \in Seq(Text)
<1>1. t.rest \in Word /\ t.option \in Option \cup {"-?", "none"}
  BY DEF Text
<1>2. \A w \in Word : Plain(w) \in Text
  BY DEF Plain, Text
<1>3. Number[t] \in Int
  BY ConfigureAssumption
<1>4. ItemsIn(t) \in Seq(Text)
  <2> DEFINE p == Pieces[t.rest]
  <2>1. p \in Seq(Word)
    BY <1>1, ConfigureAssumption
  <2> HIDE DEF p
  <2>2. [i \in DOMAIN p |-> Plain(p[i])] \in Seq(Text)
    <3>1. DOMAIN p = 1 .. Len(p) /\ Len(p) \in Nat /\ \A i \in DOMAIN p : p[i] \in Word
      BY <2>1
    <3>2. [i \in 1 .. Len(p) |-> Plain(p[i])] \in [1 .. Len(p) -> Text]
      BY <1>2, <3>1
    <3> QED  BY <3>1, <3>2
  <2> DEFINE plain == [i \in DOMAIN p |-> Plain(p[i])]
  <2> HIDE DEF plain
  <2>3. plain \in Seq(Text)
    BY <2>2 DEF plain
  <2>4. [t EXCEPT !.rest = EMPTY] \in Text
    BY ConfigureAssumption DEF Text
  <2>5. <<[t EXCEPT !.rest = EMPTY]>> \o plain \in Seq(Text)
    BY <2>3, <2>4
  <2>6. t.rest \notin LeadingColon => [plain EXCEPT ![1].option = t.option] \in Seq(Text)
    <3>1. t.rest \notin LeadingColon => 1 \in DOMAIN plain
      <4>1. t.rest \notin LeadingColon => p # << >>
        BY <1>1, ConfigureAssumption DEF p
      <4> QED  BY <2>1, <4>1 DEF plain
    <3>2. ASSUME NEW u \in Text PROVE [u EXCEPT !.option = t.option] \in Text
      BY <1>1 DEF Text
    <3>3. ASSUME 1 \in DOMAIN plain PROVE [plain EXCEPT ![1].option = t.option] \in Seq(Text)
      <4>1. plain[1] \in Text
        BY <2>3, <3>3
      <4>2. [plain[1] EXCEPT !.option = t.option] \in Text
        BY <3>2, <4>1
      <4> DEFINE u == [plain[1] EXCEPT !.option = t.option]
      <4>3. [plain EXCEPT ![1].option = t.option] = [plain EXCEPT ![1] = u]
        OBVIOUS
      <4> HIDE DEF u
      <4>4. u \in Text
        BY <4>2 DEF u
      <4>5. [plain EXCEPT ![1] = u] \in Seq(Text)
        <5>1. plain \in [1 .. Len(plain) -> Text] /\ Len(plain) \in Nat
          BY <2>3
        <5>2. [plain EXCEPT ![1] = u] \in [1 .. Len(plain) -> Text]
          BY <4>4, <5>1
        <5> QED  BY <5>1, <5>2
      <4> QED  BY <4>3, <4>5
    <3> QED  BY <3>1, <3>3
  <2>7. ItemsIn(t) = IF t.option = "none" THEN plain
                     ELSE IF t.rest \in LeadingColon THEN <<[t EXCEPT !.rest = EMPTY]>> \o plain
                     ELSE [plain EXCEPT ![1].option = t.option]
    BY DEF ItemsIn, plain, p
  <2> QED  BY <2>3, <2>5, <2>6, <2>7
<1> QED  BY <1>1, <1>2, <1>3, <1>4

LEMMA ItemsAtType ==
  ASSUME NEW X, NEW items, \A n \in DOMAIN items : items[n] \in Seq(X), Len(argv) \in Nat
  PROVE  ItemsAt(items) \in Seq(X)
<1>1. PICK f \in [Nat -> Seq(X)] : Gathers(f, items) /\ ItemsAt(items) = f[Len(argv)]
  BY ItemsAtIsGathered
<1> QED  BY <1>1

-----------------------------------------------------------------------------
(* GivenAt, entry by entry. *)
LEMMA GivenAtIs ==
  ASSUME NEW S
  PROVE  /\ GivenAt("INFILES", S) = ItemsAt([n \in S |-> <<argv[n]>>])
         /\ GivenAt("FPATH", S) = Default["FPATH"] \o ItemsAt([n \in S |-> ItemsIn(ValueAt(n))])
         /\ \A e \in {"HELP_FLAG", "DFILE_ONLY"} : GivenAt(e, S) = IF Odd(S) THEN 1 ELSE 0
         /\ GivenAt("VERBOSE", S)
              = IF S = {} THEN Default["VERBOSE"] ELSE Number[ValueAt(LastOf(S))]
         /\ \A e \in {"OUTFILE", "DUMP_FILE"} :
              GivenAt(e, S) = IF S = {} THEN Default[e] ELSE ValueAt(LastOf(S))
<1>1. GivenAt("INFILES", S) = ItemsAt([n \in S |-> <<argv[n]>>])
  BY EntryFacts DEF GivenAt
<1>2. GivenAt("FPATH", S) = Default["FPATH"] \o ItemsAt([n \in S |-> ItemsIn(ValueAt(n))])
  BY EntryFacts DEF GivenAt
<1>3. \A e \in {"HELP_FLAG", "DFILE_ONLY"} : GivenAt(e, S) = IF Odd(S) THEN 1 ELSE 0
  BY EntryFacts DEF GivenAt
<1>4. GivenAt("VERBOSE", S) = IF S = {} THEN Default["VERBOSE"] ELSE Number[ValueAt(LastOf(S))]
  BY EntryFacts DEF GivenAt
<1>5. \A e \in {"OUTFILE", "DUMP_FILE"} :
        GivenAt(e, S) = IF S = {} THEN Default[e] ELSE ValueAt(LastOf(S))
  BY EntryFacts DEF GivenAt
<1> QED  BY <1>1, <1>2, <1>3, <1>4, <1>5

(* What an entry is at first. *)
LEMMA GivenNowhere ==
  ASSUME Len(argv) \in Nat, NEW e \in Entry
  PROVE  GivenAt(e, {}) = Default[e]
<1>1. ItemsAt([n \in {} |-> <<argv[n]>>]) = << >>
  BY NothingAtNoPlace
<1>2. ItemsAt([n \in {} |-> ItemsIn(ValueAt(n))]) = << >>
  BY NothingAtNoPlace
<1>3. ~Odd({})
  BY FS_EmptySet DEF Odd
<1>4. CASE e = "INFILES"
  BY <1>1, <1>4, GivenAtIs, DefaultFacts
<1>5. CASE e = "FPATH"
  <2>1. Default["FPATH"] \o << >> = Default["FPATH"]
    BY DefaultFacts
  <2> QED  BY <1>2, <1>5, <2>1, GivenAtIs
<1>6. CASE e \in {"HELP_FLAG", "DFILE_ONLY"}
  BY <1>3, <1>6, GivenAtIs, DefaultFacts
<1>7. CASE e \in {"VERBOSE", "OUTFILE", "DUMP_FILE"}
  BY <1>7, GivenAtIs
<1> QED  BY <1>4, <1>5, <1>6, <1>7, EntryFacts

(* What one more place adds to it. *)
LEMMA FilesMore ==
  ASSUME argv \in Seq(Text), NEW k \in 1 .. Len(argv),
         NEW S \in SUBSET (1 .. Len(argv)), \A n \in S : n < k
  PROVE  GivenAt("INFILES", S \cup {k}) = Append(GivenAt("INFILES", S), argv[k])
<1> DEFINE items == [n \in S |-> <<argv[n]>>]
           more == [n \in S \cup {k} |-> <<argv[n]>>]
<1>1. /\ Len(argv) \in Nat /\ DOMAIN items = S /\ DOMAIN more = S \cup {k}
      /\ DOMAIN items \in SUBSET Int /\ \A n \in DOMAIN items : n < k
  OBVIOUS
<1>2. /\ \A n \in S : items[n] \in Seq(Text) /\ more[n] = items[n]
      /\ more[k] \in Seq(Text) /\ more[k] = <<argv[k]>>
  OBVIOUS
<1>3. ItemsAt(items) \in Seq(Text)
  <2> HIDE DEF items
  <2> QED  BY <1>1, <1>2, ItemsAtType
<1>4. ItemsAt(more) = ItemsAt(items) \o more[k]
  <2>1. HaveOneMore(items, more, k, Text)
    BY <1>1, <1>2 DEF HaveOneMore
  <2> HIDE DEF items, more
  <2> QED  BY <1>1, <2>1, ItemsAtMore
<1>5. GivenAt("INFILES", S) = ItemsAt(items) /\ GivenAt("INFILES", S \cup {k}) = ItemsAt(more)
  BY GivenAtIs
<1> HIDE DEF items, more
<1>6. ItemsAt(items) \o <<argv[k]>> = Append(ItemsAt(items), argv[k])
  BY <1>3
<1> QED  BY <1>2, <1>4, <1>5, <1>6

LEMMA TextsAssociate ==
  \A a, b, c \in Seq(Text) : (a \o b) \o c = a \o (b \o c)
<1> SUFFICES ASSUME NEW a \in Seq(Text), NEW b \in Seq(Text), NEW c \in Seq(Text)
             PROVE  (a \o b) \o c = a \o (b \o c)
  OBVIOUS
<1> QED  BY ConcatAssociative

LEMMA PathMore ==
  ASSUME argv \in Seq(Text), NEW k \in 1 .. Len(argv),
         NEW S \in SUBSET (1 .. Len(argv)), \A n \in S : n < k,
         \A n \in S \cup {k} : ValueAt(n) \in Text
  PROVE  GivenAt("FPATH", S \cup {k}) = GivenAt("FPATH", S) \o ItemsIn(ValueAt(k))
<1> DEFINE items == [n \in S |-> ItemsIn(ValueAt(n))]
           more == [n \in S \cup {k} |-> ItemsIn(ValueAt(n))]
<1>1. /\ Len(argv) \in Nat /\ DOMAIN items = S /\ DOMAIN more = S \cup {k}
      /\ DOMAIN items \in SUBSET Int /\ \A n \in DOMAIN items : n < k
  OBVIOUS
<1>2. \A n \in S \cup {k} : ItemsIn(ValueAt(n)) \in Seq(Text)
  BY TextFacts
<1>3. /\ \A n \in S : items[n] \in Seq(Text) /\ more[n] = items[n]
      /\ more[k] \in Seq(Text) /\ more[k] = ItemsIn(ValueAt(k))
  BY <1>2
<1>4. ItemsAt(items) \in Seq(Text)
  <2> HIDE DEF items
  <2> QED  BY <1>1, <1>3, ItemsAtType
<1>5. ItemsAt(more) = ItemsAt(items) \o more[k]
  <2>1. HaveOneMore(items, more, k, Text)
    BY <1>1, <1>3 DEF HaveOneMore
  <2> HIDE DEF items, more
  <2> QED  BY <1>1, <2>1, ItemsAtMore
<1>6. /\ GivenAt("FPATH", S) = Default["FPATH"] \o ItemsAt(items)
      /\ GivenAt("FPATH", S \cup {k}) = Default["FPATH"] \o ItemsAt(more)
  BY GivenAtIs
<1> HIDE DEF items, more
<1>7. Default["FPATH"] \o (ItemsAt(items) \o more[k]) = (Default["FPATH"] \o ItemsAt(items)) \o more[k]
  <2> DEFINE a == Default["FPATH"]
             b == ItemsAt(items)
             c == more[k]
  <2>1. a \in Seq(Text) /\ b \in Seq(Text) /\ c \in Seq(Text)
    BY <1>3, <1>4, DefaultFacts
  <2> HIDE DEF a, b, c
  <2>2. (a \o b) \o c = a \o (b \o c)
    BY <2>1, TextsAssociate, Zenon
  <2> QED  BY <2>2 DEF a, b, c
<1> QED  BY <1>3, <1>5, <1>6, <1>7

LEMMA SwitchMore ==
  ASSUME NEW k, NEW S, IsFiniteSet(S), k \notin S, NEW e \in {"HELP_FLAG", "DFILE_ONLY"}
  PROVE  GivenAt(e, S \cup {k}) = 1 - GivenAt(e, S)
<1>1. Odd(S \cup {k}) <=> ~Odd(S)
  BY OddFlips
<1>2. GivenAt(e, S) = IF Odd(S) THEN 1 ELSE 0
  BY GivenAtIs
<1>3. GivenAt(e, S \cup {k}) = IF Odd(S \cup {k}) THEN 1 ELSE 0
  BY GivenAtIs
<1> QED  BY <1>1, <1>2, <1>3

LEMMA ValueMore ==
  ASSUME NEW k \in Int, NEW S \in SUBSET Int, \A n \in S : n < k
  PROVE  /\ GivenAt("VERBOSE", S \cup {k}) = Number[ValueAt(k)]
         /\ \A e \in {"OUTFILE", "DUMP_FILE"} : GivenAt(e, S \cup {k}) = ValueAt(k)
<1>1. LastOf(S \cup {k}) = k /\ S \cup {k} # {}
  BY LastOfMore
<1> QED  BY <1>1, GivenAtIs

-----------------------------------------------------------------------------
(* The table is what the arguments before a place say. *)
TableAt(k) ==
  /\ ~IsValue[k]
  /\ Before("-?", k) = {}
  /\ \A e \in Entry : \A S : S = Before(OptionOf(e), k) => value[e] = GivenAt(e, S)
  /\ \A e \in Once : Cardinality(Before(e, k)) <= 127 => touched[e] = Cardinality(Before(e, k))

(* The parts of RefusedMeansMisuse. *)
Missing == Len(argv) > 0 /\ IsValue[Len(argv) + 1]
Zero    == \E i \in Occurrences("VERBOSE") :
             (i < Len(argv) \/ ~Missing) /\ Number[ValueAt(i)] = 0
Asked   == Occurrences("-?") # {} \/ Odd(Occurrences("HELP_FLAG"))
Twice   == \E e \in Once : Cardinality(Occurrences(e)) > 1

ReadInv ==
  /\ ConfigTypeOK
  /\ value \in [Entry -> Int \cup Text \cup Seq(Text)] /\ cursor \in [List -> Nat]
  /\ status \in {"configuring", "configured", "destroyed"} => TableAt(idx)
  /\ status \in {"configured", "destroyed"} => idx = Len(argv) + 1 /\ ~Misused
  /\ status = "usage" => Asked \/ Zero \/ Twice
  /\ status = "no_argument" => Missing

(* The types of the values, entry by entry. *)
LEMMA ValueTypes ==
  ASSUME NEW f
  PROVE  (\A e \in Entry : CASE Type[e] = "LIST" -> f[e] \in Seq(Text)
                             [] Type[e] = "STR"  -> f[e] \in Text
                             [] OTHER            -> f[e] \in Int)
         <=> /\ \A e \in {"FPATH", "INFILES"} : f[e] \in Seq(Text)
             /\ \A e \in {"OUTFILE", "DUMP_FILE"} : f[e] \in Text
             /\ \A e \in {"HELP_FLAG", "VERBOSE", "DFILE_ONLY"} : f[e] \in Int
<1> DEFINE Fits(e) == CASE Type[e] = "LIST" -> f[e] \in Seq(Text)
                        [] Type[e] = "STR"  -> f[e] \in Text
                        [] OTHER            -> f[e] \in Int
<1>1. \A e \in {"FPATH", "INFILES"} : e \in Entry /\ (Fits(e) <=> f[e] \in Seq(Text))
  BY EntryFacts
<1>2. \A e \in {"OUTFILE", "DUMP_FILE"} : e \in Entry /\ (Fits(e) <=> f[e] \in Text)
  BY EntryFacts
<1>3. \A e \in {"HELP_FLAG", "VERBOSE", "DFILE_ONLY"} : e \in Entry /\ (Fits(e) <=> f[e] \in Int)
  BY EntryFacts
<1>4. Entry = {"FPATH", "INFILES"} \cup {"OUTFILE", "DUMP_FILE"}
                \cup {"HELP_FLAG", "VERBOSE", "DFILE_ONLY"}
  BY EntryFacts
<1> HIDE DEF Fits
<1>5. (\A e \in Entry : Fits(e))
        <=> /\ \A e \in {"FPATH", "INFILES"} : f[e] \in Seq(Text)
            /\ \A e \in {"OUTFILE", "DUMP_FILE"} : f[e] \in Text
            /\ \A e \in {"HELP_FLAG", "VERBOSE", "DFILE_ONLY"} : f[e] \in Int
  BY <1>1, <1>2, <1>3, <1>4
<1> QED  BY <1>5 DEF Fits

LEMMA InitReadInv == ConfigInit => ReadInv
<1> SUFFICES ASSUME ConfigInit PROVE ReadInv
  OBVIOUS
<1>1. argv \in Seq(Text) /\ Len(argv) \in Nat /\ idx = 1 /\ status = "configuring"
  BY ConfigureAssumption DEF ConfigInit
<1>2. value = Default
  BY DEF ConfigInit
<1>3. value \in [Entry -> Int \cup Text \cup Seq(Text)]
  <2>1. ASSUME NEW e \in Entry PROVE Default[e] \in Int \cup Text \cup Seq(Text)
    <3>1. CASE e \in {"HELP_FLAG", "VERBOSE", "DFILE_ONLY"}
      BY <3>1, DefaultFacts
    <3>2. CASE e \in {"OUTFILE", "DUMP_FILE"}
      BY <3>2, DefaultFacts
    <3>3. CASE e \in {"FPATH", "INFILES"}
      <4>1. << >> \in Seq(Text)
        OBVIOUS
      <4> QED  BY <3>3, <4>1, DefaultFacts
    <3> QED  BY <3>1, <3>2, <3>3, EntryFacts
  <2>2. Default = [e \in Entry |-> Default[e]]
    BY EntryFacts DEF Default
  <2> QED  BY <1>2, <2>1, <2>2
<1>4. \A e \in Entry : CASE Type[e] = "LIST" -> value[e] \in Seq(Text)
                         [] Type[e] = "STR"  -> value[e] \in Text
                         [] OTHER            -> value[e] \in Int
  <2>1. value["INFILES"] \in Seq(Text)
    BY <1>2, DefaultFacts
  <2>2. /\ \A e \in {"FPATH", "INFILES"} : value[e] \in Seq(Text)
        /\ \A e \in {"OUTFILE", "DUMP_FILE"} : value[e] \in Text
        /\ \A e \in {"HELP_FLAG", "VERBOSE", "DFILE_ONLY"} : value[e] \in Int
    <3>1. \A e \in {"FPATH", "INFILES"} : value[e] \in Seq(Text)
      BY <1>2, <2>1, DefaultFacts
    <3>2. \A e \in {"OUTFILE", "DUMP_FILE"} : value[e] \in Text
      BY <1>2, DefaultFacts
    <3>3. \A e \in {"HELP_FLAG", "VERBOSE", "DFILE_ONLY"} : value[e] \in Int
      BY <1>2, DefaultFacts
    <3> QED  BY <3>1, <3>2, <3>3
  <2> QED  BY <2>2, ValueTypes
<1>5. ConfigTypeOK
  <2>1. \A e \in List : cursor[e] \in 0 .. Len(value[e])
    <3>1. \A e \in List : Len(value[e]) \in Nat
      BY <1>4, ValueTypes, EntryFacts
    <3> QED  BY <3>1 DEF ConfigInit
  <2> QED  BY <1>1, <1>4, <2>1 DEF ConfigInit, ConfigTypeOK
<1>6. TableAt(1)
  <2>1. ~IsValue[1]
    <3>1. 1 \in Nat /\ ~(1 > 1)
      OBVIOUS
    <3> QED  BY <3>1, IsValueFacts, Zenon
  <2>2. \A o : Before(o, 1) = {}
    BY <1>1, BeforeFacts
  <2>3. \A e \in Entry : value[e] = GivenAt(e, {})
    BY <1>1, <1>2, GivenNowhere
  <2>4. Cardinality({}) = 0
    BY FS_EmptySet
  <2>5. \A e \in Once : touched[e] = 0
    BY EntryFacts DEF ConfigInit, Once
  <2> QED  BY <2>1, <2>2, <2>3, <2>4, <2>5 DEF TableAt
<1>7. cursor \in [List -> Nat]
  BY DEF ConfigInit
<1> QED  BY <1>1, <1>3, <1>5, <1>6, <1>7 DEF ReadInv

(* The value of an option stands before idx. *)
LEMMA ValuesBefore ==
  ASSUME argv \in Seq(Text), NEW k \in 1 .. Len(argv) + 1, ~IsValue[k],
         NEW o \in Option, Type[o] \in {"NUM", "STR", "LIST"}, NEW i \in Before(o, k)
  PROVE  ValueAt(i) \in Text
<1>1. i \in 1 .. Len(argv) /\ i < k /\ argv[i] \in Text /\ argv[i].option = o /\ ~IsValue[i]
  BY DEF Before, Occurrences
<1>2. CASE argv[i].rest # EMPTY
  BY <1>1, <1>2, TextFacts DEF ValueAt
<1>3. CASE argv[i].rest = EMPTY
  <2>1. i + 1 \in Nat /\ (i + 1) - 1 = i /\ i + 1 > 1 /\ i \in DOMAIN argv
    BY <1>1
  <2>2. TakesValue(argv[i])
    BY <1>1 DEF TakesValue
  <2>3. IsValue[i + 1] = (/\ i + 1 > 1 /\ (i + 1) - 1 \in DOMAIN argv /\ ~IsValue[(i + 1) - 1]
                          /\ TakesValue(argv[(i + 1) - 1]) /\ argv[(i + 1) - 1].rest = EMPTY)
    BY <2>1, IsValueFacts
  <2>4. IsValue[i + 1]
    BY <1>1, <1>3, <2>1, <2>2, <2>3
  <2>5. i + 1 # k
    BY <2>4
  <2>6. i + 1 \in 1 .. Len(argv)
    BY <1>1, <2>5
  <2> QED  BY <1>3, <2>6 DEF ValueAt
<1> QED  BY <1>2, <1>3

-----------------------------------------------------------------------------
(* One more option, or file, is read into its entry. *)
Fits(e, v) ==
  /\ e \in {"FPATH", "INFILES"} => v \in Seq(Text) /\ Len(v) >= Len(value[e])
  /\ e \in {"OUTFILE", "DUMP_FILE"} => v \in Text
  /\ e \in {"HELP_FLAG", "VERBOSE", "DFILE_ONLY"} => v \in Int

Reads(e, v) ==
  /\ argv[idx].option = OptionOf(e)
  /\ v = GivenAt(e, Before(OptionOf(e), idx) \cup {idx})
  /\ Set(e, v) /\ Touch(e)
  /\ idx' = After(idx) /\ idx' <= Len(argv) + 1
  /\ errno' \in BOOLEAN
  /\ UNCHANGED <<argv, status, walkVars>>

LEMMA OptionOfFacts ==
  /\ \A e, f \in Entry : OptionOf(e) = OptionOf(f) => e = f
  /\ \A e \in Entry : OptionOf(e) # "-?"
  /\ \A e \in Once : e \in Entry /\ OptionOf(e) = e
BY EntryFacts DEF OptionOf, Once

LEMMA ReadKeepsTable ==
  ASSUME ReadInv, Reading, NEW e \in Entry, NEW v, Reads(e, v)
  PROVE  TableAt(idx)'
<1>1. argv \in Seq(Text) /\ idx \in 1 .. Len(argv) /\ idx \in Nat /\ status = "configuring"
  BY DEF Reading, ReadInv, ConfigTypeOK
<1>2. TableAt(idx) /\ ~IsValue[idx] /\ argv' = argv
  BY <1>1 DEF ReadInv, TableAt, Reads
<1>3. idx' = After(idx) /\ ~IsValue[idx']
  BY <1>1, <1>2, Consumed DEF Reads
<1>4. \A o : Before(o, idx') = IF argv[idx].option = o THEN Before(o, idx) \cup {idx}
                                                       ELSE Before(o, idx)
  BY <1>1, <1>2, <1>3, Consumed
<1>5. ~IsValue'[idx']
  BY <1>2, <1>3, ReadingsUnchanged
<1>6. \A o : Before(o, idx)' = Before(o, idx')
  <2>1. \A o, k : Before(o, k)' = Before(o, k)
    BY <1>2, ReadingsUnchanged
  <2>2. ASSUME NEW o PROVE Before(o, idx)' = Before(o, idx')
    <3>1. \A j : {i \in Occurrences(o)' : i < j} = {i \in Occurrences(o) : i < j}
      BY <1>2, ReadingsUnchanged
    <3> QED  BY <3>1 DEF Before
  <2> QED  BY <2>2
<1>7. Before("-?", idx)' = {}
  <2>1. argv[idx].option # "-?"
    BY OptionOfFacts DEF Reads
  <2> QED  BY <1>2, <1>4, <1>6, <2>1 DEF TableAt
<1>8. ASSUME NEW f \in Entry PROVE value'[f] = GivenAt(f, Before(OptionOf(f), idx'))
  <2>1. CASE f = e
    <3>1. value'[e] = v
      BY <1>1 DEF Reads, Set, ReadInv
    <3> QED  BY <1>4, <2>1, <3>1 DEF Reads
  <2>2. CASE f # e
    <3>1. OptionOf(f) # argv[idx].option
      BY <2>2, OptionOfFacts DEF Reads
    <3>2. value'[f] = value[f]
      BY <2>2 DEF Reads, Set, ReadInv
    <3>3. value[f] = GivenAt(f, Before(OptionOf(f), idx))
      BY <1>2 DEF TableAt
    <3>4. Before(OptionOf(f), idx') = Before(OptionOf(f), idx)
      BY <1>4, <3>1
    <3> QED  BY <3>2, <3>3, <3>4
  <2> QED  BY <2>1, <2>2
<1>9. ASSUME NEW f \in Entry, NEW S, S = Before(OptionOf(f), idx)'
      PROVE  value'[f] = GivenAt(f, S)'
  <2>1. Before(OptionOf(f), idx)' = Before(OptionOf(f), idx')
    BY <1>6 DEF OptionOf
  <2>2. GivenAt(f, S)' = GivenAt(f, S)
    BY <1>2, ReadingsUnchanged
  <2> QED  BY <1>8, <1>9, <2>1, <2>2
<1>10. ASSUME NEW f \in Once, Cardinality(Before(f, idx')) <= 127
       PROVE  touched'[f] = Cardinality(Before(f, idx'))
  <2>1. f \in Entry /\ OptionOf(f) = f
    BY OptionOfFacts
  <2>2. IsFiniteSet(Before(f, idx)) /\ idx \notin Before(f, idx) /\ Cardinality(Before(f, idx)) \in Nat
    BY <1>1, BeforeFacts, FS_CardinalityType
  <2>3. Cardinality(Before(f, idx)) <= 127 => touched[f] = Cardinality(Before(f, idx))
    BY <1>2 DEF TableAt
  <2>4. touched \in [Entry -> -128 .. 127]
    BY DEF ReadInv, ConfigTypeOK
  <2>5. CASE f = e
    <3>1. Before(f, idx') = Before(f, idx) \cup {idx}
      BY <1>4, <2>1, <2>5 DEF Reads
    <3>2. Cardinality(Before(f, idx')) = Cardinality(Before(f, idx)) + 1
      BY <2>2, <3>1, FS_AddElement
    <3>3. touched[f] = Cardinality(Before(f, idx)) /\ touched[f] # 127
      BY <1>10, <2>2, <2>3, <3>2
    <3>4. touched'[f] = touched[f] + 1
      BY <2>1, <2>4, <2>5, <3>3 DEF Reads, Touch
    <3> QED  BY <3>2, <3>3, <3>4
  <2>6. CASE f # e
    <3>1. OptionOf(f) # argv[idx].option
      BY <2>1, <2>6, OptionOfFacts DEF Reads
    <3>2. Before(f, idx') = Before(f, idx)
      BY <1>4, <2>1, <3>1
    <3>3. touched'[f] = touched[f]
      BY <2>1, <2>4, <2>6 DEF Reads, Touch
    <3> QED  BY <1>10, <2>3, <3>2, <3>3
  <2> QED  BY <2>5, <2>6
<1>11. \A f \in Once : Cardinality(Before(f, idx))' <= 127
         => touched'[f] = Cardinality(Before(f, idx))'
  BY <1>6, <1>10
<1> QED  BY <1>5, <1>7, <1>9, <1>11 DEF TableAt

LEMMA ReadKeeps ==
  ASSUME ReadInv, Reading, NEW e \in Entry, NEW v, Reads(e, v), Fits(e, v)
  PROVE  ReadInv'
<1>1. /\ argv \in Seq(Text) /\ argv' = argv /\ status' = status /\ status = "configuring"
      /\ idx \in 1 .. Len(argv) + 1
      /\ touched \in [Entry -> -128 .. 127]
      /\ \A f \in List : cursor[f] \in 0 .. Len(value[f])
      /\ UNCHANGED <<iter_buf, cursor>>
  BY DEF Reads, Reading, ReadInv, ConfigTypeOK, walkVars
<1>2. idx' \in 1 .. Len(argv') + 1
  BY <1>1 DEF Reads, After
<1>3. /\ \A f \in {"FPATH", "INFILES"} : value[f] \in Seq(Text)
      /\ \A f \in {"OUTFILE", "DUMP_FILE"} : value[f] \in Text
      /\ \A f \in {"HELP_FLAG", "VERBOSE", "DFILE_ONLY"} : value[f] \in Int
  BY ValueTypes DEF ReadInv, ConfigTypeOK
<1>4. /\ value' = [value EXCEPT ![e] = v]
      /\ value \in [Entry -> Int \cup Text \cup Seq(Text)]
  BY DEF Reads, Set, ReadInv
<1>5. /\ \A f \in {"FPATH", "INFILES"} : value'[f] \in Seq(Text) /\ Len(value'[f]) >= Len(value[f])
      /\ \A f \in {"OUTFILE", "DUMP_FILE"} : value'[f] \in Text
      /\ \A f \in {"HELP_FLAG", "VERBOSE", "DFILE_ONLY"} : value'[f] \in Int
  <2>1. \A f \in Entry : value'[f] = IF f = e THEN v ELSE value[f]
    BY <1>4
  <2>2. ASSUME NEW f \in {"FPATH", "INFILES"}
        PROVE  value'[f] \in Seq(Text) /\ Len(value'[f]) >= Len(value[f])
    <3>1. value[f] \in Seq(Text) /\ Len(value[f]) \in Nat /\ f \in Entry
      BY <1>3, EntryFacts
    <3> QED  BY <2>1, <3>1 DEF Fits
  <2>3. \A f \in {"OUTFILE", "DUMP_FILE"} : value'[f] \in Text
    BY <1>3, <2>1, EntryFacts DEF Fits
  <2>4. \A f \in {"HELP_FLAG", "VERBOSE", "DFILE_ONLY"} : value'[f] \in Int
    BY <1>3, <2>1, EntryFacts DEF Fits
  <2> QED  BY <2>2, <2>3, <2>4
<1>6. value' \in [Entry -> Int \cup Text \cup Seq(Text)]
  <2>1. v \in Int \cup Text \cup Seq(Text)
    BY EntryFacts DEF Fits
  <2> QED  BY <1>4, <2>1
<1>7. \A f \in List : cursor'[f] \in 0 .. Len(value'[f])
  <2> SUFFICES ASSUME NEW f \in List PROVE cursor'[f] \in 0 .. Len(value'[f])
    OBVIOUS
  <2>1. f \in {"FPATH", "INFILES"}
    BY EntryFacts
  <2>2. /\ value[f] \in Seq(Text) /\ value'[f] \in Seq(Text)
        /\ Len(value'[f]) >= Len(value[f])
    BY <1>3, <1>5, <2>1
  <2>3. cursor'[f] \in 0 .. Len(value[f])
    BY <1>1
  <2>4. Len(value[f]) \in Nat /\ Len(value'[f]) \in Nat
    BY <2>2
  <2> QED  BY <2>2, <2>3, <2>4
<1>8. touched' \in [Entry -> -128 .. 127]
  <2>1. touched' = [touched EXCEPT ![e] = IF @ = 127 THEN -128 ELSE @ + 1]
    BY DEF Reads, Touch
  <2>2. touched[e] \in -128 .. 127
    BY <1>1
  <2>3. (IF touched[e] = 127 THEN -128 ELSE touched[e] + 1) \in -128 .. 127
    BY <2>2
  <2> QED  BY <1>1, <2>1, <2>3
<1>9. ConfigTypeOK'
  <2>1. \A f \in Entry : CASE Type[f] = "LIST" -> value'[f] \in Seq(Text)
                           [] Type[f] = "STR"  -> value'[f] \in Text
                           [] OTHER            -> value'[f] \in Int
    BY <1>5, ValueTypes
  <2>2. errno' \in BOOLEAN
    BY DEF Reads
  <2> QED  BY <1>1, <1>2, <1>7, <1>8, <2>1, <2>2 DEF ConfigTypeOK, ReadInv
<1>10. TableAt(idx)'
  BY ReadKeepsTable
<1> QED  BY <1>1, <1>6, <1>9, <1>10 DEF ReadInv

-----------------------------------------------------------------------------
(* Each way to read one. *)
LEMMA ReadingFacts ==
  ASSUME ReadInv, Reading
  PROVE  /\ argv \in Seq(Text) /\ idx \in 1 .. Len(argv) /\ argv[idx] \in Text
         /\ ~IsValue[idx] /\ status = "configuring"
         /\ \A e \in Entry : value[e] = GivenAt(e, Before(OptionOf(e), idx))
         /\ \A o : /\ Before(o, idx) \in SUBSET (1 .. Len(argv)) /\ IsFiniteSet(Before(o, idx))
                   /\ \A i \in Before(o, idx) : i < idx
                   /\ idx \notin Before(o, idx)
         /\ argv[idx].option \in {o : o \in Entry \cup {"-?", "none"}}
<1>1. argv \in Seq(Text) /\ idx \in 1 .. Len(argv) /\ argv[idx] \in Text /\ status = "configuring"
  BY DEF Reading, ReadInv, ConfigTypeOK
<1>2. TableAt(idx)
  BY <1>1 DEF ReadInv
<1>3. argv[idx].option \in Option \cup {"-?", "none"}
  BY <1>1, TextFacts
<1> QED  BY <1>1, <1>2, <1>3, BeforeFacts DEF TableAt, Option

LEMMA InputFileKeeps == ASSUME ReadInv, InputFile PROVE ReadInv'
<1> DEFINE v == Append(value["INFILES"], argv[idx])
<1>1. Reading /\ argv[idx].option = "none" /\ "INFILES" \in Entry /\ OptionOf("INFILES") = "none"
  BY EntryFacts DEF InputFile, OptionOf
<1>2. value["INFILES"] \in Seq(Text)
  BY ValueTypes DEF ReadInv, ConfigTypeOK
<1>3. Fits("INFILES", v)
  BY <1>1, <1>2, ReadingFacts DEF Fits
<1>4. v = GivenAt("INFILES", Before("none", idx) \cup {idx})
  BY <1>1, ReadingFacts, FilesMore
<1>5. idx' = After(idx) /\ idx' <= Len(argv) + 1
  <2>1. ~TakesValue(argv[idx])
    BY <1>1, EntryFacts DEF TakesValue
  <2> QED  BY <1>1, <2>1, ReadingFacts DEF After, InputFile
<1>6. Reads("INFILES", v)
  BY <1>1, <1>4, <1>5 DEF Reads, InputFile, ReadInv, ConfigTypeOK
<1> QED  BY <1>1, <1>3, <1>6, ReadKeeps

LEMMA SwitchKeeps == ASSUME ReadInv, Switch PROVE ReadInv'
<1> DEFINE e == argv[idx].option
           v == 1 - value[e]
<1>1. Reading /\ e \in {"HELP_FLAG", "DFILE_ONLY"} /\ e \in Entry /\ OptionOf(e) = e
  BY EntryFacts DEF Switch, OptionOf
<1>2. value[e] \in Int
  BY <1>1, ValueTypes DEF ReadInv, ConfigTypeOK
<1>3. Fits(e, v)
  BY <1>1, <1>2 DEF Fits
<1>4. v = GivenAt(e, Before(e, idx) \cup {idx})
  BY <1>1, ReadingFacts, SwitchMore
<1>5. idx' = After(idx) /\ idx' <= Len(argv) + 1
  <2>1. ~TakesValue(argv[idx])
    BY <1>1, EntryFacts DEF TakesValue
  <2> QED  BY <1>1, <2>1, ReadingFacts DEF After, Switch
<1>6. Reads(e, v)
  BY <1>1, <1>4, <1>5 DEF Reads, Switch, ReadInv, ConfigTypeOK
<1> QED  BY <1>1, <1>3, <1>6, ReadKeeps

LEMMA ComplaintsUnchanged ==
  ASSUME argv' = argv
  PROVE  Asked' = Asked /\ Zero' = Zero /\ Twice' = Twice /\ Missing' = Missing
<1>1. IsValue' = IsValue
  BY ReadingsUnchanged
<1>2. /\ Occurrences("-?")' = Occurrences("-?")
      /\ Occurrences("HELP_FLAG")' = Occurrences("HELP_FLAG")
      /\ Occurrences("VERBOSE")' = Occurrences("VERBOSE")
      /\ \A o : Occurrences(o)' = Occurrences(o)
      /\ \A i : ValueAt(i)' = ValueAt(i)
  BY ReadingsUnchanged
<1>3. Asked' = Asked /\ Twice' = Twice /\ Missing' = Missing
  BY <1>1, <1>2 DEF Asked, Twice, Missing
<1>4. Zero' = Zero
  BY <1>2, <1>3 DEF Zero
<1> QED  BY <1>3, <1>4

(* The program gives up. *)
LEMMA UsageKeeps ==
  ASSUME ReadInv, Usage, Asked \/ Zero \/ Twice
  PROVE  ReadInv'
<1>1. UNCHANGED <<argv, idx, value, touched, errno, iter_buf, cursor>> /\ status' = "usage"
  BY DEF Usage, walkVars
<1>2. ConfigTypeOK'
  BY <1>1 DEF ReadInv, ConfigTypeOK
<1>3. Asked' \/ Zero' \/ Twice'
  BY <1>1, ComplaintsUnchanged
<1> QED  BY <1>1, <1>2, <1>3 DEF ReadInv

LEMMA UnknownKeeps == ASSUME ReadInv, UnknownParameter PROVE ReadInv'
<1>1. Reading /\ Usage /\ argv[idx].option = "-?"
  BY DEF UnknownParameter
<1>2. idx \in Occurrences("-?")
  BY <1>1, ReadingFacts DEF Occurrences
<1> QED  BY <1>1, <1>2, UsageKeeps DEF Asked

LEMMA ParameterKeeps ==
  ASSUME ReadInv, Reading, TakesValue(argv[idx]),
         NEW v \in Text, v = ValueAt(idx),
         NEW at, at + 1 = After(idx), After(idx) <= Len(argv) + 1,
         idx < Len(argv) \/ argv[idx].rest # EMPTY,
         Parameter(v, at)
  PROVE  ReadInv'
<1> DEFINE e == argv[idx].option
           S == Before(e, idx)
<1>1. e \in Option /\ e \in Entry /\ OptionOf(e) = e /\ Type[e] \in {"NUM", "STR", "LIST"}
  BY EntryFacts DEF TakesValue, OptionOf
<1>2. /\ e \in {"VERBOSE", "OUTFILE", "DUMP_FILE", "FPATH"}
      /\ Type[e] = "NUM" <=> e = "VERBOSE"
      /\ Type[e] = "STR" <=> e \in {"OUTFILE", "DUMP_FILE"}
      /\ Type[e] = "LIST" <=> e = "FPATH"
  BY <1>1, EntryFacts
<1>3. /\ argv \in Seq(Text) /\ idx \in 1 .. Len(argv) /\ ~IsValue[idx]
      /\ S \in SUBSET (1 .. Len(argv)) /\ \A i \in S : i < idx
      /\ value[e] = GivenAt(e, S)
  BY <1>1, ReadingFacts
<1>4. /\ \A f \in {"FPATH", "INFILES"} : value[f] \in Seq(Text)
  BY ValueTypes DEF ReadInv, ConfigTypeOK
<1> DEFINE w == IF Type[e] = "STR" THEN v ELSE value[e] \o ItemsIn(v)
<1>5. CASE /\ Type[e] \in {"STR", "LIST"}
           /\ Set(e, w) /\ Touch(e) /\ idx' = at + 1
           /\ UNCHANGED <<argv, errno, status, walkVars>>
  <2>1. Fits(e, w)
    <3>1. ItemsIn(v) \in Seq(Text)
      BY TextFacts
    <3>2. e = "FPATH" => value[e] \o ItemsIn(v) \in Seq(Text)
                         /\ Len(value[e] \o ItemsIn(v)) >= Len(value[e])
      BY <1>4, <3>1
    <3> QED  BY <1>2, <1>5, <3>2 DEF Fits
  <2>2. w = GivenAt(e, S \cup {idx})
    <3>1. CASE e = "FPATH"
      <4>1. \A i \in S \cup {idx} : ValueAt(i) \in Text
        BY <1>1, <1>3, ValuesBefore
      <4>2. GivenAt("FPATH", S \cup {idx}) = GivenAt("FPATH", S) \o ItemsIn(ValueAt(idx))
        BY <1>3, <4>1, PathMore
      <4> QED  BY <1>2, <1>3, <3>1, <4>2
    <3>2. CASE e \in {"OUTFILE", "DUMP_FILE"}
      <4>1. idx \in Int /\ S \in SUBSET Int
        BY <1>3
      <4>2. GivenAt(e, S \cup {idx}) = ValueAt(idx)
        BY <1>3, <3>2, <4>1, ValueMore
      <4> QED  BY <1>2, <3>2, <4>2
    <3> QED  BY <1>2, <1>5, <3>1, <3>2
  <2>3. Reads(e, w)
    BY <1>1, <1>5, <2>2 DEF Reads, ReadInv, ConfigTypeOK
  <2> QED  BY <1>1, <2>1, <2>3, ReadKeeps
<1>6. CASE /\ Type[e] = "NUM"
           /\ errno' = (errno \/ v \in OutOfRange)
           /\ Set(e, Number[v]) /\ Touch(e) /\ idx' = at + 1
           /\ UNCHANGED <<argv, status, walkVars>>
  <2>1. Fits(e, Number[v])
    BY <1>2, <1>6, TextFacts DEF Fits
  <2>2. Number[v] = GivenAt(e, S \cup {idx})
    <3>1. idx \in Int /\ S \in SUBSET Int
      BY <1>3
    <3> QED  BY <1>2, <1>3, <1>6, <3>1, ValueMore
  <2>3. errno' \in BOOLEAN
    BY <1>6 DEF ReadInv, ConfigTypeOK
  <2>4. Reads(e, Number[v])
    BY <1>1, <1>6, <2>2, <2>3 DEF Reads
  <2> QED  BY <1>1, <2>1, <2>4, ReadKeeps
<1>7. CASE Type[e] = "NUM" /\ Number[v] = 0 /\ Usage
  <2>1. idx \in Occurrences("VERBOSE")
    BY <1>2, <1>3, <1>7 DEF Occurrences
  <2>2. idx < Len(argv) \/ ~Missing
    <3>1. CASE argv[idx].rest # EMPTY /\ idx = Len(argv)
      <4>1. ~IsValue[idx + 1]
        <5>1. idx + 1 \in Nat /\ (idx + 1) - 1 = idx
          BY <1>3
        <5>2. IsValue[idx + 1] => argv[(idx + 1) - 1].rest = EMPTY
          BY <5>1, IsValueFacts
        <5> QED  BY <3>1, <5>1, <5>2
      <4> QED  BY <3>1, <4>1 DEF Missing
    <3> QED  BY <1>3, <3>1
  <2> QED  BY <1>7, <2>1, <2>2, UsageKeeps DEF Zero
<1> QED  BY <1>5, <1>6, <1>7 DEF Parameter

LEMMA AttachedKeeps == ASSUME ReadInv, AttachedParameter PROVE ReadInv'
<1>1. Reading /\ TakesValue(argv[idx]) /\ argv[idx].rest # EMPTY
      /\ Parameter(Plain(argv[idx].rest), idx)
  BY DEF AttachedParameter
<1>2. argv[idx] \in Text /\ idx \in 1 .. Len(argv) /\ argv \in Seq(Text)
  BY <1>1, ReadingFacts
<1>3. Plain(argv[idx].rest) \in Text /\ Plain(argv[idx].rest) = ValueAt(idx)
  BY <1>1, <1>2, TextFacts DEF ValueAt
<1>4. idx + 1 = After(idx) /\ After(idx) <= Len(argv) + 1
  BY <1>1, <1>2 DEF After
<1> QED  BY <1>1, <1>3, <1>4, ParameterKeeps

LEMMA SeparateKeeps == ASSUME ReadInv, SeparateParameter PROVE ReadInv'
<1>1. Reading /\ TakesValue(argv[idx]) /\ argv[idx].rest = EMPTY
  BY DEF SeparateParameter
<1>2. idx \in 1 .. Len(argv) /\ argv \in Seq(Text) /\ ~IsValue[idx]
  BY <1>1, ReadingFacts
<1>3. CASE idx < Len(argv) /\ Parameter(argv[idx + 1], idx + 1)
  <2>1. argv[idx + 1] \in Text /\ argv[idx + 1] = ValueAt(idx)
    BY <1>1, <1>2, <1>3 DEF ValueAt
  <2>2. (idx + 1) + 1 = After(idx) /\ After(idx) <= Len(argv) + 1
    BY <1>1, <1>2, <1>3 DEF After
  <2> QED  BY <1>1, <1>3, <2>1, <2>2, ParameterKeeps
<1>4. CASE /\ idx = Len(argv) /\ status' = "no_argument"
           /\ UNCHANGED <<argv, idx, value, touched, errno, walkVars>>
  <2>1. IsValue[idx + 1]
    <3>1. idx + 1 \in Nat /\ (idx + 1) - 1 = idx /\ idx + 1 > 1 /\ idx \in DOMAIN argv
      BY <1>2
    <3>2. IsValue[idx + 1] = (/\ idx + 1 > 1 /\ (idx + 1) - 1 \in DOMAIN argv /\ ~IsValue[(idx + 1) - 1]
                              /\ TakesValue(argv[(idx + 1) - 1]) /\ argv[(idx + 1) - 1].rest = EMPTY)
      BY <3>1, IsValueFacts
    <3> QED  BY <1>1, <1>2, <3>1, <3>2
  <2>2. Missing
    BY <1>2, <1>4, <2>1 DEF Missing
  <2>3. Missing'
    BY <1>4, <2>2, ReadingsUnchanged DEF Missing
  <2> QED  BY <1>4, <2>3 DEF ReadInv, ConfigTypeOK, walkVars
<1> QED  BY <1>1, <1>3, <1>4 DEF SeparateParameter

-----------------------------------------------------------------------------
(* The table, once it is read. *)
LEMMA TableUnchanged ==
  ASSUME TableAt(idx), UNCHANGED <<argv, idx, value, touched>>
  PROVE  TableAt(idx)'
<1>1. IsValue' = IsValue
  BY ReadingsUnchanged
<1>2. \A o : Before(o, idx)' = Before(o, idx)
  <2>1. \A o : Occurrences(o)' = Occurrences(o)
    BY ReadingsUnchanged
  <2> QED  BY <2>1 DEF Before
<1>3. \A e, S : GivenAt(e, S)' = GivenAt(e, S)
  BY ReadingsUnchanged
<1>4. \A e : Before(OptionOf(e), idx)' = Before(OptionOf(e), idx)
  BY <1>2 DEF OptionOf
<1> QED  BY <1>1, <1>2, <1>3, <1>4 DEF TableAt

LEMMA CheckKeeps == ASSUME ReadInv, CheckRequired PROVE ReadInv'
<1>1. /\ argv \in Seq(Text) /\ idx = Len(argv) + 1 /\ TableAt(idx) /\ status = "configuring"
      /\ UNCHANGED <<argv, idx, value, touched, errno, walkVars>>
      /\ status' = IF Misused THEN "usage" ELSE "configured"
  BY DEF CheckRequired, ReadInv, ConfigTypeOK
<1>2. CASE ~Misused
  <2>1. TableAt(idx)'
    BY <1>1, TableUnchanged
  <2>2. ~Misused'
    BY <1>1, <1>2 DEF Misused
  <2> QED  BY <1>1, <1>2, <2>1, <2>2 DEF ReadInv, ConfigTypeOK, walkVars
<1>3. CASE Misused
  <2>1. \A o : Before(o, idx) = Occurrences(o) /\ IsFiniteSet(Before(o, idx))
    BY <1>1, BeforeFacts
  <2>2. CASE \E e \in Once : touched[e] > 1
    <3>1. PICK e \in Once : touched[e] > 1
      BY <2>2
    <3>2. Cardinality(Occurrences(e)) \in Nat
      BY <2>1, FS_CardinalityType
    <3>3. Cardinality(Occurrences(e)) <= 127 => touched[e] = Cardinality(Occurrences(e))
      BY <1>1, <2>1 DEF TableAt
    <3>4. Cardinality(Occurrences(e)) > 1
      BY <3>1, <3>2, <3>3
    <3> QED  BY <1>1, <1>3, <3>4, UsageKeeps DEF Twice, Usage
  <2>3. CASE value["HELP_FLAG"] # 0
    <3>1. value["HELP_FLAG"] = GivenAt("HELP_FLAG", Occurrences("HELP_FLAG"))
      BY <1>1, <2>1, EntryFacts DEF TableAt, OptionOf
    <3>2. Odd(Occurrences("HELP_FLAG"))
      BY <2>3, <3>1, GivenAtIs
    <3> QED  BY <1>1, <1>3, <3>2, UsageKeeps DEF Asked, Usage
  <2> QED  BY <1>3, <2>2, <2>3 DEF Misused, Required
<1> QED  BY <1>2, <1>3

(* A step that changes nothing of what was read. *)
LEMMA WalkingKeeps ==
  ASSUME ReadInv, UNCHANGED <<argv, idx, value, touched, errno>>,
         status \in {"configured", "destroyed"}, status' \in {"configured", "destroyed"},
         iter_buf' \in [Entry -> BOOLEAN],
         cursor' \in [List -> Nat], \A e \in List : cursor'[e] \in 0 .. Len(value[e])
  PROVE  ReadInv'
<1>1. ConfigTypeOK'
  BY DEF ReadInv, ConfigTypeOK
<1>2. TableAt(idx)'
  BY TableUnchanged DEF ReadInv
<1>3. (idx = Len(argv) + 1)' /\ ~Misused'
  BY DEF ReadInv, Misused
<1> QED  BY <1>1, <1>2, <1>3 DEF ReadInv

(* What is stored for a list. *)
LEMMA ListValues ==
  ASSUME ReadInv
  PROVE  \A f \in List : value[f] \in Seq(Text) /\ Len(value[f]) \in Nat
<1>1. \A f \in {"FPATH", "INFILES"} : value[f] \in Seq(Text)
  BY ValueTypes DEF ReadInv, ConfigTypeOK
<1>2. \A f \in List : value[f] \in Seq(Text)
  BY <1>1, EntryFacts
<1> QED  BY <1>2

(* The cursor of a list that is walked over. *)
LEMMA IndexStays ==
  ASSUME ConfigTypeOK, cursor \in [List -> Nat], NEW e \in List, IterateList(e), NEW f \in List
  PROVE  cursor' \in [List -> Nat] /\ cursor'[f] \in 0 .. Len(value[f])
<1>1. value[e] \in Seq(Text) /\ value[f] \in Seq(Text)
  BY ValueTypes, EntryFacts DEF ConfigTypeOK
<1>2. Len(value[e]) \in Nat /\ Len(value[f]) \in Nat
  BY <1>1
<1>3. cursor[e] \in 0 .. Len(value[e]) /\ cursor[f] \in 0 .. Len(value[f])
  BY DEF ConfigTypeOK
<1> DEFINE i == IF iter_buf[e] THEN cursor[e] ELSE 0
           j == IF i < Len(value[e]) THEN i + 1 ELSE i
<1>4. i \in 0 .. Len(value[e]) /\ j \in 0 .. Len(value[e])
  BY <1>2, <1>3
<1>5. cursor' = [cursor EXCEPT ![e] = j]
  BY DEF IterateList
<1> HIDE DEF j
<1>6. cursor' \in [List -> Nat] /\ cursor'[f] = IF f = e THEN j ELSE cursor[f]
  BY <1>2, <1>4, <1>5
<1> QED  BY <1>3, <1>4, <1>6

LEMMA IterateKeeps ==
  ASSUME ReadInv, NEW e \in Entry, IterateConfig(e)
  PROVE  ReadInv'
<1>1. /\ UNCHANGED <<argv, idx, value, touched, errno, status>> /\ status = "configured"
      /\ iter_buf' = [iter_buf EXCEPT ![e] = answer' # << >>]
  BY DEF IterateConfig, parseVars
<1>2. ConfigTypeOK /\ cursor \in [List -> Nat] /\ iter_buf \in [Entry -> BOOLEAN]
  BY DEF ReadInv, ConfigTypeOK
<1>3. iter_buf' \in [Entry -> BOOLEAN]
  BY <1>1, <1>2
<1>4. cursor' \in [List -> Nat] /\ \A f \in List : cursor'[f] \in 0 .. Len(value[f])
  <2>1. CASE Type[e] = "LIST" /\ IterateList(e)
    <3>1. e \in List
      BY <2>1 DEF List
    <3> QED  BY <1>2, <2>1, <3>1, IndexStays, EntryFacts
  <2>2. CASE UNCHANGED cursor
    BY <1>2, <2>2 DEF ConfigTypeOK
  <2> QED  BY <2>1, <2>2 DEF IterateConfig
<1> QED  BY <1>1, <1>3, <1>4, WalkingKeeps

LEMMA ResetKeeps ==
  ASSUME ReadInv, NEW e \in Entry, ResetConfigList(e)
  PROVE  ReadInv'
<1>1. /\ UNCHANGED <<argv, idx, value, touched, errno, status, iter_buf>> /\ status = "configured"
      /\ cursor' = [cursor EXCEPT ![e] = 0] \/ UNCHANGED cursor
  BY DEF ResetConfigList, parseVars
<1>2. /\ cursor \in [List -> Nat] /\ iter_buf \in [Entry -> BOOLEAN]
      /\ \A f \in List : cursor[f] \in 0 .. Len(value[f])
  BY DEF ReadInv, ConfigTypeOK
<1>3. \A f \in List : Len(value[f]) \in Nat
  BY ListValues
<1>4. cursor' \in [List -> Nat] /\ \A f \in List : cursor'[f] \in 0 .. Len(value[f])
  BY <1>1, <1>2, <1>3
<1> QED  BY <1>1, <1>2, <1>4, WalkingKeeps

LEMMA DestroyKeeps == ASSUME ReadInv, DestroyConfig PROVE ReadInv'
<1>1. /\ UNCHANGED <<argv, idx, value, touched, errno, iter_buf>>
      /\ status = "configured" /\ status' = "destroyed"
      /\ cursor' = [f \in List |-> Len(value[f])]
  BY DEF DestroyConfig
<1>2. \A f \in List : Len(value[f]) \in Nat
  BY ListValues
<1>3. cursor' \in [List -> Nat] /\ \A f \in List : cursor'[f] \in 0 .. Len(value[f])
  BY <1>1, <1>2
<1>4. iter_buf' \in [Entry -> BOOLEAN]
  BY <1>1 DEF ReadInv, ConfigTypeOK
<1> QED  BY <1>1, <1>3, <1>4, WalkingKeeps

LEMMA NextReadInv == ReadInv /\ [ConfigNext]_configureVars => ReadInv'
<1> SUFFICES ASSUME ReadInv, [ConfigNext]_configureVars PROVE ReadInv'
  OBVIOUS
<1>1. CASE UNCHANGED configureVars
  <2>1. UNCHANGED <<argv, idx, value, touched, errno, status, iter_buf, cursor>>
    BY <1>1 DEF configureVars, parseVars, walkVars
  <2>2. ConfigTypeOK'
    BY <2>1 DEF ReadInv, ConfigTypeOK
  <2>3. status = "usage" => Asked' \/ Zero' \/ Twice'
    BY <2>1, ComplaintsUnchanged DEF ReadInv
  <2>4. status = "no_argument" => Missing'
    BY <2>1, ComplaintsUnchanged DEF ReadInv
  <2>5. status \in {"configuring", "configured", "destroyed"} => TableAt(idx)'
    BY <2>1, TableUnchanged DEF ReadInv
  <2>6. Misused' <=> Misused
    BY <2>1 DEF Misused
  <2> QED  BY <2>1, <2>2, <2>3, <2>4, <2>5, <2>6 DEF ReadInv
<1> QED
  BY <1>1, UnknownKeeps, InputFileKeeps, SwitchKeeps, AttachedKeeps, SeparateKeeps, CheckKeeps,
     DestroyKeeps, IterateKeeps, ResetKeeps DEF ConfigNext, ParseStep

LEMMA ReadInvariance == ConfigSpec => []ReadInv
BY InitReadInv, NextReadInv, PTL DEF ConfigSpec

-----------------------------------------------------------------------------
(* No command line makes an entry hold what is not of its type, or takes   *)
(* the place of reading or the cursor of a list out of bounds.              *)
THEOREM ConfigurationTypeCorrect == ConfigSpec => []ConfigTypeOK
<1>1. ReadInv => ConfigTypeOK
  BY DEF ReadInv
<1> QED  BY <1>1, ReadInvariance, PTL

(* The table holds what the command line says, for command lines of any    *)
(* length.                                                                 *)
THEOREM TableSaysCommandLine == ConfigSpec => []TableIsCommandLine
<1>1. ReadInv => TableIsCommandLine
  <2> SUFFICES ASSUME ReadInv, status = "configured", NEW e \in Entry
               PROVE  value[e] = Given(e)
    BY DEF TableIsCommandLine
  <2>1. argv \in Seq(Text) /\ idx = Len(argv) + 1 /\ idx \in Nat /\ TableAt(idx)
    BY DEF ReadInv, ConfigTypeOK
  <2>2. Before(OptionOf(e), idx) = Occurrences(OptionOf(e))
    BY <2>1, BeforeFacts
  <2> QED  BY <2>1, <2>2 DEF TableAt, Given
<1> QED  BY <1>1, ReadInvariance, PTL

(* Nothing is refused without a reason, and what may be given once is not  *)
(* accepted twice, up to the limit of the count.                           *)
THEOREM RefusalsAreRight == ConfigSpec => []RefusedMeansMisuse
<1>1. ReadInv => RefusedMeansMisuse
  <2> SUFFICES ASSUME ReadInv PROVE RefusedMeansMisuse
    OBVIOUS
  <2>1. argv \in Seq(Text)
    BY DEF ReadInv, ConfigTypeOK
  <2>2. CASE status = "configured"
    <3>1. idx = Len(argv) + 1 /\ idx \in Nat /\ TableAt(idx) /\ ~Misused
      BY <2>1, <2>2 DEF ReadInv
    <3>2. \A o : Before(o, idx) = Occurrences(o) /\ IsFiniteSet(Occurrences(o))
      BY <2>1, <3>1, BeforeFacts
    <3>3. Occurrences("-?") = {} /\ ~Missing
      BY <3>1, <3>2 DEF TableAt, Missing
    <3>4. ~Odd(Occurrences("HELP_FLAG"))
      <4>1. value["HELP_FLAG"] = 0
        BY <3>1 DEF Misused
      <4>2. value["HELP_FLAG"] = GivenAt("HELP_FLAG", Occurrences("HELP_FLAG"))
        BY <3>1, <3>2, EntryFacts DEF TableAt, OptionOf
      <4>3. GivenAt("HELP_FLAG", Occurrences("HELP_FLAG"))
              = IF Odd(Occurrences("HELP_FLAG")) THEN 1 ELSE 0
        BY GivenAtIs
      <4> QED  BY <4>1, <4>2, <4>3
    <3>5. ASSUME NEW e \in Once PROVE Cardinality(Occurrences(e)) \notin 2 .. 127
      <4>1. ~(touched[e] > 1)
        BY <3>1 DEF Misused
      <4>2. Cardinality(Occurrences(e)) <= 127 => touched[e] = Cardinality(Occurrences(e))
        BY <3>1, <3>2 DEF TableAt
      <4> QED  BY <4>1, <4>2
    <3> QED  BY <2>2, <3>3, <3>4, <3>5 DEF RefusedMeansMisuse, Missing
  <2>3. CASE status = "usage"
    BY <2>3 DEF ReadInv, RefusedMeansMisuse, Asked, Zero, Twice, Missing
  <2>4. CASE status = "no_argument"
    BY <2>4 DEF ReadInv, RefusedMeansMisuse, Missing
  <2> QED  BY <2>2, <2>3, <2>4 DEF RefusedMeansMisuse
<1> QED  BY <1>1, ReadInvariance, PTL

-----------------------------------------------------------------------------
(* Where each walk is: what it returned so far is what the list holds      *)
(* before its cursor, unless no walk has begun.                             *)
WalkInv ==
  /\ walked = [e \in Entry |-> walked[e]]
  /\ status = "configuring" => iter_buf = [e \in Entry |-> FALSE]
  /\ status \in {"configuring", "configured"} =>
       \A e \in Entry :
         walked[e] = IF ~iter_buf[e] THEN << >>
                     ELSE IF e \in List THEN SubSeq(value[e], 1, cursor[e])
                     ELSE ValuesIn(e)

LEMMA OneMoreOfList ==
  ASSUME NEW X, NEW v \in Seq(X), NEW i \in 0 .. Len(v)
  PROVE  /\ Len(SubSeq(v, 1, i)) = i
         /\ i = Len(v) => SubSeq(v, 1, i) = v
         /\ i < Len(v) => SubSeq(v, 1, i) \o <<v[i + 1]>> = SubSeq(v, 1, i + 1)
<1>1. Len(v) \in Nat /\ v \in [1 .. Len(v) -> X]
  OBVIOUS
<1>2. SubSeq(v, 1, i) \in Seq(X) /\ Len(SubSeq(v, 1, i)) = i
      /\ \A j \in 1 .. i : SubSeq(v, 1, i)[j] = v[j]
  BY <1>1
<1>3. i = Len(v) => SubSeq(v, 1, i) = v
  BY <1>1, <1>2
<1>4. ASSUME i < Len(v) PROVE SubSeq(v, 1, i) \o <<v[i + 1]>> = SubSeq(v, 1, i + 1)
  <2> DEFINE a == SubSeq(v, 1, i)
             b == a \o <<v[i + 1]>>
             c == SubSeq(v, 1, i + 1)
  <2>1. v[i + 1] \in X
    BY <1>1, <1>4
  <2>2. c \in Seq(X) /\ Len(c) = i + 1 /\ \A j \in 1 .. i + 1 : c[j] = v[j]
    BY <1>1, <1>4
  <2>3. b \in Seq(X) /\ Len(b) = i + 1
    BY <1>2, <2>1
  <2>4. b[i + 1] = v[i + 1] /\ \A j \in 1 .. i : b[j] = v[j]
    BY <1>2, <2>1
  <2> HIDE DEF b, c
  <2>5. \A j \in 1 .. i + 1 : b[j] = c[j]
    BY <2>2, <2>4
  <2> QED  BY <2>2, <2>3, <2>5 DEF b, c
<1> QED  BY <1>2, <1>3, <1>4

LEMMA WholeOfOne == ASSUME NEW x PROVE SubSeq(<<x>>, 1, 1) = <<x>>
<1> DEFINE v == <<x>>
           X == {x}
<1>1. v \in Seq(X) /\ Len(v) = 1 /\ 1 \in 0 .. Len(v)
  OBVIOUS
<1> HIDE DEF v, X
<1>2. SubSeq(v, 1, 1) = v
  BY <1>1, OneMoreOfList
<1> QED  BY <1>2 DEF v

LEMMA InitWalkInv == ConfigInit => WalkInv
BY DEF ConfigInit, WalkInv

(* One call of iterate_config(), for the entry that it walks over. *)
LEMMA IterateWalks ==
  ASSUME ReadInv, WalkInv, NEW e \in Entry, IterateConfig(e)
  PROVE  /\ answer' = << >> => walked[e] = ValuesIn(e)
         /\ answer' # << >> => walked'[e] = SubSeq(ValuesIn(e), 1, Len(walked[e]) + 1)
         /\ walked'[e] = IF ~iter_buf'[e] THEN << >>
                         ELSE IF e \in List THEN SubSeq(value[e], 1, cursor'[e])
                         ELSE ValuesIn(e)
<1>1. /\ status = "configured" /\ Type[e] # "HELP"
      /\ iter_buf' = [iter_buf EXCEPT ![e] = answer' # << >>]
      /\ walked' = [walked EXCEPT ![e] = IF answer' = << >> THEN << >> ELSE @ \o answer']
  BY DEF IterateConfig
<1>2. /\ iter_buf \in [Entry -> BOOLEAN] /\ cursor \in [List -> Nat]
      /\ walked = [f \in Entry |-> walked[f]]
      /\ \A f \in List : cursor[f] \in 0 .. Len(value[f])
  BY DEF ReadInv, ConfigTypeOK, WalkInv
<1>3. /\ iter_buf'[e] = (answer' # << >>)
      /\ walked'[e] = IF answer' = << >> THEN << >> ELSE walked[e] \o answer'
  BY <1>1, <1>2
<1>4. walked[e] = IF ~iter_buf[e] THEN << >>
                  ELSE IF e \in List THEN SubSeq(value[e], 1, cursor[e])
                  ELSE ValuesIn(e)
  BY <1>1 DEF WalkInv
<1>5. CASE e \in List
  <2> DEFINE v == value[e]
             i == IF iter_buf[e] THEN cursor[e] ELSE 0
  <2>1. v \in Seq(Text) /\ ValuesIn(e) = v /\ Len(v) \in Nat
    <3>1. v \in Seq(Text) /\ Len(v) \in Nat
      BY <1>5, ListValues
    <3>2. ValuesIn(e) = v
      BY <1>5, EntryFacts DEF ValuesIn
    <3> QED  BY <3>1, <3>2
  <2>2. i \in 0 .. Len(v)
    BY <1>2, <1>5, <2>1
  <2>3. /\ answer' = IF i < Len(v) THEN <<v[i + 1]>> ELSE << >>
        /\ cursor'[e] = IF i < Len(v) THEN i + 1 ELSE i
    <3>1. IterateList(e)
      BY <1>5 DEF IterateConfig, List
    <3> QED  BY <1>2, <1>5, <3>1 DEF IterateList, ItemFrom
  <2> HIDE DEF v
  <2>4. walked[e] = SubSeq(v, 1, i)
    <3>1. SubSeq(v, 1, 0) = << >>
      BY <2>1
    <3> QED  BY <1>4, <1>5, <3>1 DEF v
  <2> HIDE DEF i
  <2>5. CASE i < Len(v)
    <3>1. answer' = <<v[i + 1]>> /\ answer' # << >> /\ cursor'[e] = i + 1
      BY <2>3, <2>5
    <3>2. walked'[e] = SubSeq(v, 1, i + 1) /\ Len(walked[e]) = i
      <4>1. Len(SubSeq(v, 1, i)) = i /\ SubSeq(v, 1, i) \o <<v[i + 1]>> = SubSeq(v, 1, i + 1)
        BY <2>1, <2>2, <2>5, OneMoreOfList
      <4>2. walked'[e] = walked[e] \o <<v[i + 1]>>
        BY <1>3, <3>1
      <4> QED  BY <2>4, <4>1, <4>2
    <3> QED  BY <1>3, <1>5, <2>1, <3>1, <3>2 DEF v
  <2>6. CASE i = Len(v)
    <3>1. answer' = << >>
      BY <2>1, <2>3, <2>6
    <3>2. walked[e] = v
      BY <2>1, <2>2, <2>4, <2>6, OneMoreOfList
    <3> QED  BY <1>3, <2>1, <3>1, <3>2
  <2> QED  BY <2>1, <2>2, <2>5, <2>6
<1>6. CASE e \notin List
  <2>1. PICK x : ValuesIn(e) = <<x>>
    <3>1. CASE Type[e] = "STR"
      BY <3>1 DEF ValuesIn
    <3>2. CASE Type[e] # "STR" /\ Type[e] # "LIST"
      BY <3>2 DEF ValuesIn
    <3> QED  BY <1>6, <3>1, <3>2 DEF List
  <2>2. answer' = IF iter_buf[e] THEN << >> ELSE ValuesIn(e)
    BY <1>6 DEF IterateConfig, List
  <2>3. CASE iter_buf[e]
    BY <1>3, <1>4, <1>6, <2>2, <2>3
  <2>4. CASE ~iter_buf[e]
    <3>1. walked[e] = << >> /\ answer' = <<x>> /\ answer' # << >>
      BY <1>4, <2>1, <2>2, <2>4
    <3>2. walked'[e] = <<x>>
      BY <1>3, <3>1
    <3>3. SubSeq(<<x>>, 1, Len(walked[e]) + 1) = <<x>>
      <4>1. Len(walked[e]) + 1 = 1
        BY <3>1
      <4> QED  BY <4>1, WholeOfOne
    <3> QED  BY <1>3, <1>6, <2>1, <3>1, <3>2, <3>3
  <2> QED  BY <2>3, <2>4
<1> QED  BY <1>5, <1>6

LEMMA NextWalkInv ==
  ReadInv /\ WalkInv /\ [ConfigNext]_configureVars => WalkInv'
<1> SUFFICES ASSUME ReadInv, WalkInv, [ConfigNext]_configureVars PROVE WalkInv'
  OBVIOUS
<1>1. CASE UNCHANGED configureVars
  BY <1>1 DEF configureVars, parseVars, walkVars, WalkInv, ValuesIn
<1>2. CASE ParseStep
  <2>1. status = "configuring" /\ UNCHANGED <<iter_buf, walked>>
        /\ status' \in {"configuring", "configured", "usage", "no_argument"}
    BY <1>2 DEF ParseStep, UnknownParameter, InputFile, Switch, AttachedParameter, SeparateParameter,
                CheckRequired, Reading, Parameter, Usage, walkVars
  <2>2. iter_buf = [e \in Entry |-> FALSE] /\ \A e \in Entry : walked[e] = << >>
    BY <2>1 DEF WalkInv
  <2> QED  BY <2>1, <2>2 DEF WalkInv
<1>3. CASE DestroyConfig
  BY <1>3 DEF DestroyConfig, WalkInv
<1>4. ASSUME NEW e \in Entry, IterateConfig(e) PROVE WalkInv'
  <2>1. /\ status = "configured" /\ status' = status /\ value' = value
        /\ iter_buf' = [iter_buf EXCEPT ![e] = answer' # << >>]
        /\ walked' = [walked EXCEPT ![e] = IF answer' = << >> THEN << >> ELSE @ \o answer']
        /\ iter_buf \in [Entry -> BOOLEAN] /\ cursor \in [List -> Nat]
        /\ walked = [f \in Entry |-> walked[f]]
    BY <1>4 DEF IterateConfig, parseVars, ReadInv, ConfigTypeOK, WalkInv
  <2>2. walked' = [f \in Entry |-> walked'[f]]
    BY <2>1
  <2>3. \A f \in List : f # e => cursor'[f] = cursor[f]
    BY <1>4, <2>1 DEF IterateConfig, IterateList
  <2>4. ASSUME NEW f \in Entry
        PROVE  walked'[f] = IF ~iter_buf'[f] THEN << >>
                            ELSE IF f \in List THEN SubSeq(value[f], 1, cursor'[f])
                            ELSE ValuesIn(f)
    <3>1. CASE f = e
      BY <1>4, <3>1, IterateWalks
    <3>2. CASE f # e
      <4>1. walked'[f] = walked[f] /\ iter_buf'[f] = iter_buf[f]
        BY <2>1, <3>2
      <4>2. walked[f] = IF ~iter_buf[f] THEN << >>
                        ELSE IF f \in List THEN SubSeq(value[f], 1, cursor[f])
                        ELSE ValuesIn(f)
        BY <2>1 DEF WalkInv
      <4> QED  BY <2>3, <3>2, <4>1, <4>2
    <3> QED  BY <3>1, <3>2
  <2>5. \A f \in Entry : ValuesIn(f)' = ValuesIn(f)
    BY <2>1 DEF ValuesIn
  <2> QED  BY <2>1, <2>2, <2>4, <2>5 DEF WalkInv
<1>5. ASSUME NEW e \in Entry, ResetConfigList(e) PROVE WalkInv'
  <2>1. /\ status = "configured" /\ status' = status /\ value' = value /\ iter_buf' = iter_buf
        /\ \/ e \in List /\ cursor' = [cursor EXCEPT ![e] = 0]
              /\ walked' = [walked EXCEPT ![e] = << >>]
           \/ UNCHANGED <<cursor, walked>>
        /\ cursor \in [List -> Nat] /\ walked = [f \in Entry |-> walked[f]]
    BY <1>5 DEF ResetConfigList, parseVars, ReadInv, WalkInv, List
  <2>2. \A f \in Entry : ValuesIn(f)' = ValuesIn(f)
    BY <2>1 DEF ValuesIn
  <2>3. CASE UNCHANGED <<cursor, walked>>
    BY <2>1, <2>2, <2>3 DEF WalkInv
  <2>4. CASE e \in List /\ cursor' = [cursor EXCEPT ![e] = 0] /\ walked' = [walked EXCEPT ![e] = << >>]
    <3>1. walked' = [f \in Entry |-> walked'[f]]
      BY <2>1, <2>4
    <3>2. ASSUME NEW f \in Entry
          PROVE  walked'[f] = IF ~iter_buf[f] THEN << >>
                              ELSE IF f \in List THEN SubSeq(value[f], 1, cursor'[f])
                              ELSE ValuesIn(f)
      <4>1. CASE f = e
        <5>1. walked'[f] = << >> /\ cursor'[f] = 0 /\ f \in List
          BY <2>1, <2>4, <4>1
        <5>2. value[f] \in Seq(Text)
          BY <5>1, ValueTypes, EntryFacts DEF ReadInv, ConfigTypeOK
        <5>3. SubSeq(value[f], 1, 0) = << >>
          BY <5>2
        <5> QED  BY <5>1, <5>3
      <4>2. CASE f # e
        <5>1. walked'[f] = walked[f] /\ (f \in List => cursor'[f] = cursor[f])
          BY <2>1, <2>4, <4>2
        <5>2. walked[f] = IF ~iter_buf[f] THEN << >>
                          ELSE IF f \in List THEN SubSeq(value[f], 1, cursor[f])
                          ELSE ValuesIn(f)
          BY <2>1 DEF WalkInv
        <5> QED  BY <5>1, <5>2
      <4> QED  BY <4>1, <4>2
    <3> QED  BY <2>1, <2>2, <3>1, <3>2 DEF WalkInv
  <2> QED  BY <2>1, <2>3, <2>4
<1> QED  BY <1>1, <1>2, <1>3, <1>4, <1>5 DEF ConfigNext

(* Every walk returns all the values of its entry in their order, wherever *)
(* a list was reset and whatever was walked over in between.               *)
THEOREM WalksReturnEverything == ConfigSpec => WalksAreComplete
<1> DEFINE Complete ==
      \A e \in Entry : IterateConfig(e) =>
        IF answer' = << >> THEN walked[e] = ValuesIn(e)
        ELSE walked'[e] = SubSeq(ValuesIn(e), 1, Len(walked[e]) + 1)
<1>1. ConfigSpec => []WalkInv
  <2>1. ReadInv /\ WalkInv /\ [ConfigNext]_configureVars => WalkInv'
    BY NextWalkInv
  <2> QED  BY <2>1, InitWalkInv, ReadInvariance, PTL DEF ConfigSpec
<1>2. ReadInv /\ WalkInv /\ [ConfigNext]_configureVars => [Complete]_configureVars
  BY IterateWalks
<1> QED  BY <1>1, <1>2, ReadInvariance, PTL DEF ConfigSpec, WalksAreComplete
=============================================================================
