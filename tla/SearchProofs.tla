---------------------------- MODULE SearchProofs ----------------------------
(***************************************************************************)
(* Proofs about Search, for packets of any size, lists of any length and   *)
(* any number of searches.                                                 *)
(***************************************************************************)
EXTENDS Search, FiniteSetTheorems, WellFoundedInduction, SequenceTheorems, TLAPS

\* The last users of the first pages of an answer.
Ends(e) ==
    /\ e \in Seq(Nat) /\ e # <<>> /\ e[1] = FirstAmount
    /\ \A i \in 1..(Len(e) - 1) : e[i] < Size /\ e[i + 1] = NextAmount(e[i])

\* The client takes the i-th page for the last one, and it is not.
ExitsAt(e, i) ==
    /\ e[i] < Size
    /\ \/ e[i] - (i - 1) + e[1] = Size
       \/ i > 1 /\ e[i] - (i - 1) + 1 = Size
Early == \E e \in Seq(Nat) : Ends(e) /\ ExitsAt(e, Len(e))

\* A page is the first of an answer, or goes on after some page.
IsPage(p) ==
    /\ IF p.total = -1
       THEN p.from \in 2..Size /\ p.to = NextAmount(p.from - 1)
       ELSE p.total = Size /\ p.from = 1 /\ p.to = FirstAmount
    /\ p.used < MAX_DATA_SIZE \/ p.to = Size

\* The stream of pages is a part of a sequence of answers, and the server goes
\* on where it ends.
Stream ==
    /\ \A i \in DOMAIN pages : IsPage(pages[i])
    /\ \A i \in DOMAIN pages : i + 1 \in DOMAIN pages =>
          IF pages[i + 1].total = -1
          THEN pages[i + 1].from = pages[i].to + 1
          ELSE pages[i].to = Size
    /\ srv = "pages" => amount \in 1..(Size - 1)
    /\ pages # <<>> =>
          pages[Len(pages)].to = IF srv = "pages" THEN amount ELSE Size

\* A client that read the number of users as it was sent, and waits for more,
\* has printed some pages of an answer and took none of them for the last one.
Printed(e) ==
    /\ Ends(e) /\ Len(printed) = e[Len(e)]
    /\ usrs_read = e[Len(e)] - (Len(e) - 1) \/ Len(printed) = Size
    /\ \A i \in 1..Len(e) : ~ExitsAt(e, i)

\* A client that waits for more finds the rest of the answer in the connection,
\* and behind it no page but the first of another.
Reading ==
    cli = "more" =>
        /\ Len(printed) \in 1..Size /\ usrs_read <= Len(printed)
        /\ IF Len(printed) < Size
           THEN IF pages = <<>>
                THEN srv = "pages" /\ amount = Len(printed)
                ELSE /\ Head(pages).total = -1
                     /\ Head(pages).from = Len(printed) + 1
           ELSE IF pages = <<>> THEN srv # "pages" ELSE Head(pages).total # -1
        /\ instep => /\ total_usrs = Size /\ before_usrs_read = FirstAmount
                     /\ \E e \in Seq(Nat) : Printed(e)

\* A search in step has nothing in the connection but its own answer, and where
\* no page is mistaken for the last, it leaves nothing of it.
Quiet == asked = 0 /\ srv = "idle" /\ pages = <<>>
OneAnswer ==
    \/ asked = 1 /\ srv = "idle" /\ pages = <<>>
    \/ /\ asked = 0 /\ pages # <<>>
       /\ Head(pages).total # -1
       /\ \A i \in DOMAIN pages : i > 1 => pages[i].total = -1
RestOfAnswer ==
    /\ asked = 0
    /\ \A i \in DOMAIN pages : pages[i].total = -1
    /\ Len(printed) = Size => Quiet
NothingLeft ==
    instep =>
        /\ cli = "idle" /\ ~Early =>
              Quiet /\ (searches > 0 => Len(printed) = Size)
        /\ cli = "first" => OneAnswer
        /\ cli = "more" => RestOfAnswer

SearchIInv ==
    /\ TypeOK /\ asked <= searches
    /\ Stream /\ Reading /\ NothingLeft /\ PrintedInOrder

----------------------------------------------------------------------------
(* Recursive definitions.                                                  *)

\* Some numbers have a least one.
LEMMA LeastExists ==
    ASSUME NEW S, S \subseteq Nat, S # {}
    PROVE  \E m \in S : \A n \in S : m <= n
<1>1. PICK m \in S : \A n \in S : <<n, m>> \notin OpToRel(<, Nat)
  BY NatLessThanWellFounded, WFMin
<1>2. \A n \in S : m <= n
  <2> TAKE n \in S
  <2>1. m \in Nat /\ n \in Nat
    OBVIOUS
  <2>2. ~(n < m)
    BY <1>1, <2>1 DEF OpToRel
  <2> QED BY <2>1, <2>2
<1> QED BY <1>2

\* Numbers up to some bound have a greatest one.
LEMMA MaxIsGreatest ==
    ASSUME NEW N \in Nat, NEW S, S \subseteq 0..N, S # {}
    PROVE  Max(S) \in S /\ \A n \in S : n <= Max(S)
<1> DEFINE T == {N - n : n \in S}
<1>1. T \subseteq Nat /\ T # {}
  <2>1. PICK x \in S : TRUE
    OBVIOUS
  <2>2. N - x \in T
    BY <2>1
  <2> QED BY <2>2
<1>2. PICK m \in T : \A n \in T : m <= n
  BY <1>1, LeastExists
<1>3. PICK x \in S : m = N - x
  BY <1>2
<1>4. \A n \in S : n <= x
  <2> TAKE n \in S
  <2>1. N - n \in T
    OBVIOUS
  <2>2. m <= N - n
    BY <1>2, <2>1
  <2> QED BY <1>3, <2>2
<1> QED BY <1>4 DEF Max

\* What a value of a recursive function is, and how it is computed to a depth.
Step(g, x, B, c, w, next) == IF x \in B THEN c ELSE w[x] + g[next[x]]
Upto(g, n, S, rank, B, c, w, next) ==
    \A x \in S : rank[x] <= n => g[x] = Step(g, x, B, c, w, next)

Solves(f, S, B, c, w, next) ==
    f = [x \in S |-> IF x \in B THEN c ELSE w[x] + f[next[x]]]

\* A sum along a chain of arguments that ends is well defined.
LEMMA RecursionExists ==
    ASSUME NEW S, NEW B, NEW c \in Nat, NEW w \in [S -> Nat],
           NEW next \in [S -> S], NEW rank \in [S -> Nat],
           \A x \in S \ B : rank[next[x]] < rank[x]
    PROVE  \E f \in [S -> Nat] : Solves(f, S, B, c, w, next)
<1> DEFINE F(g, x) == Step(g, x, B, c, w, next)
           Ok(g, n) == Upto(g, n, S, rank, B, c, w, next)
<1>1. \A g \in [S -> Nat] : \A x \in S : F(g, x) \in Nat
  BY DEF Step
<1>2. \A n \in Nat : \E g \in [S -> Nat] : Ok(g, n)
  <2> DEFINE Bad == {n \in Nat : ~\E g \in [S -> Nat] : Ok(g, n)}
  <2> SUFFICES ASSUME Bad # {} PROVE FALSE
    OBVIOUS
  <2>1. PICK n \in Bad : \A m \in Bad : n <= m
    BY LeastExists
  <2>2. PICK g \in [S -> Nat] : \A x \in S : rank[x] < n => g[x] = F(g, x)
    <3>1. CASE n = 0
      <4>1. [x \in S |-> 0] \in [S -> Nat]
        OBVIOUS
      <4>2. \A x \in S : ~(rank[x] < n)
        BY <3>1
      <4> QED BY <4>1, <4>2
    <3>2. CASE n # 0
      <4>1. n - 1 \in Nat /\ n - 1 \notin Bad
        BY <2>1, <3>2
      <4>2. PICK g \in [S -> Nat] : Ok(g, n - 1)
        BY <4>1
      <4>3. \A x \in S : rank[x] < n => rank[x] <= n - 1
        BY <2>1
      <4> QED BY <4>2, <4>3 DEF Upto
    <3> QED BY <3>1, <3>2
  <2> DEFINE h == [x \in S |-> F(g, x)]
  <2>3. h \in [S -> Nat]
    BY <1>1
  <2>4. ASSUME NEW x \in S, rank[x] <= n PROVE h[x] = F(h, x)
    <3>1. CASE x \in B
      BY <3>1 DEF Step
    <3>2. CASE x \notin B
      <4>1. next[x] \in S /\ rank[next[x]] < n
        BY <2>1, <2>4, <3>2
      <4>2. h[next[x]] = g[next[x]]
        BY <2>2, <4>1
      <4> QED BY <3>2, <4>2 DEF Step
    <3> QED BY <3>1, <3>2
  <2>5. Ok(h, n)
    BY <2>4 DEF Upto
  <2> QED BY <2>1, <2>3, <2>5
<1>3. ASSUME NEW g \in [S -> Nat], NEW h \in [S -> Nat], NEW n \in Nat,
             NEW m \in Nat, Ok(g, n), Ok(h, m)
      PROVE  \A x \in S : rank[x] <= n /\ rank[x] <= m => g[x] = h[x]
  <2> DEFINE D == {x \in S : rank[x] <= n /\ rank[x] <= m /\ g[x] # h[x]}
             R == {rank[x] : x \in D}
  <2> SUFFICES ASSUME D # {} PROVE FALSE
    OBVIOUS
  <2>1. R \subseteq Nat /\ R # {}
    OBVIOUS
  <2>2. PICK r \in R : \A q \in R : r <= q
    BY <2>1, LeastExists
  <2>3. PICK x \in D : r = rank[x]
    OBVIOUS
  <2>4. g[x] = F(g, x) /\ h[x] = F(h, x)
    BY <1>3 DEF Upto
  <2>5. x \notin B
    BY <2>4 DEF Step
  <2>6. next[x] \in S /\ rank[next[x]] < rank[x]
    BY <2>5
  <2>7. rank[next[x]] <= n /\ rank[next[x]] <= m
    BY <2>6
  <2>8. next[x] \notin D
    <3>1. CASE next[x] \in D
      <4>1. rank[next[x]] \in R
        BY <3>1
      <4>2. rank[x] <= rank[next[x]]
        BY <2>2, <2>3, <4>1
      <4> HIDE DEF D, R
      <4> QED BY <2>3, <2>6, <4>2
    <3> QED BY <3>1
  <2>9. g[next[x]] = h[next[x]]
    BY <2>6, <2>7, <2>8
  <2> QED BY <2>4, <2>5, <2>9 DEF Step
<1> DEFINE G(n) == CHOOSE g \in [S -> Nat] : Ok(g, n)
           f == [x \in S |-> G(rank[x])[x]]
<1>4. \A n \in Nat : G(n) \in [S -> Nat] /\ Ok(G(n), n)
  BY <1>2
<1> HIDE DEF G
<1>5. f \in [S -> Nat]
  BY <1>4
<1>6. ASSUME NEW x \in S PROVE f[x] = F(f, x)
  <2>1. f[x] = F(G(rank[x]), x)
    BY <1>4 DEF Upto
  <2>2. CASE x \in B
    BY <2>1, <2>2 DEF Step
  <2>3. CASE x \notin B
    <3>1. next[x] \in S /\ rank[next[x]] \in Nat /\ rank[x] \in Nat
          /\ rank[next[x]] <= rank[x] /\ rank[next[x]] <= rank[next[x]]
      BY <2>3
    <3>2. G(rank[x])[next[x]] = G(rank[next[x]])[next[x]]
      <4> DEFINE g == G(rank[x])
                 h == G(rank[next[x]])
      <4>1. /\ g \in [S -> Nat] /\ Ok(g, rank[x])
            /\ h \in [S -> Nat] /\ Ok(h, rank[next[x]])
        BY <1>4, <3>1
      <4> HIDE DEF g, h, Ok
      <4>2. \A y \in S : rank[y] <= rank[x] /\ rank[y] <= rank[next[x]]
                             => g[y] = h[y]
        BY <1>3, <3>1, <4>1
      <4>3. g[next[x]] = h[next[x]]
        BY <3>1, <4>2
      <4> QED BY <4>3 DEF g, h
    <3>3. G(rank[x])[next[x]] = f[next[x]]
      BY <3>1, <3>2
    <3> QED BY <2>1, <2>3, <3>3 DEF Step
  <2> QED BY <2>2, <2>3
<1>7. Solves(f, S, B, c, w, next)
  BY <1>6 DEF Step, Solves
<1> QED BY <1>5, <1>7

\* The digits of a number are those of a tenth of it, and one.
LEMMA DigitsRecursion ==
    /\ digits \in [Nat -> Nat]
    /\ \A n \in Nat :
          digits[n] = IF n < 10 THEN 1 ELSE 1 + digits[n \div 10]
<1> DEFINE id == [n \in Nat |-> n]
           tenth == [n \in Nat |-> n \div 10]
           one == [n \in Nat |-> 1]
           B == 0..9
<1>1. \A n \in Nat : n \div 10 \in Nat /\ (n >= 10 => n \div 10 < n)
  OBVIOUS
<1>2. /\ id \in [Nat -> Nat] /\ tenth \in [Nat -> Nat] /\ one \in [Nat -> Nat]
      /\ \A n \in Nat \ B : id[tenth[n]] < id[n]
  BY <1>1
<1> HIDE DEF B, id
<1>3. PICK f \in [Nat -> Nat] : Solves(f, Nat, B, 1, one, tenth)
  <2> HIDE DEF one, tenth
  <2> QED BY <1>2, RecursionExists
<1>4. f = [n \in Nat |-> IF n \in B THEN 1 ELSE one[n] + f[tenth[n]]]
  BY <1>3 DEF Solves
<1>5. \A n \in Nat : n \in B <=> n < 10
  BY DEF B
<1>6. \A n \in Nat : f[n] = IF n < 10 THEN 1 ELSE 1 + f[n \div 10]
  BY <1>4, <1>5
<1>7. f = [n \in Nat |-> IF n < 10 THEN 1 ELSE 1 + f[n \div 10]]
  BY <1>6
<1>8. digits = [n \in Nat |-> IF n < 10 THEN 1 ELSE 1 + digits[n \div 10]]
  BY <1>7 DEF digits
<1>9. \A n \in Nat : digits[n] = IF n < 10 THEN 1 ELSE 1 + digits[n \div 10]
  BY <1>8
<1>10. \A n \in Nat : digits[n] = f[n]
  <2> DEFINE D == {n \in Nat : digits[n] # f[n]}
  <2> SUFFICES ASSUME D # {} PROVE FALSE
    OBVIOUS
  <2>1. PICK n \in D : \A m \in D : n <= m
    BY LeastExists
  <2>2. n >= 10 => n \div 10 \notin D
    BY <1>1, <2>1
  <2> QED BY <1>1, <1>6, <1>9, <2>1, <2>2
<1> QED BY <1>4, <1>9, <1>10, <1>8

\* A larger number has as many digits at least.
LEMMA DigitsGrow ==
    ASSUME NEW m \in Nat, NEW n \in Nat, m <= n
    PROVE  digits[m] <= digits[n]
<1> DEFINE D == {k \in Nat : \E j \in 0..k : ~(digits[j] <= digits[k])}
<1> SUFFICES ASSUME D # {} PROVE FALSE
  OBVIOUS
<1>1. PICK k \in D : \A i \in D : k <= i
  BY LeastExists
<1>2. PICK j \in 0..k : ~(digits[j] <= digits[k])
  BY <1>1
<1>3. k >= 10
  BY <1>2, DigitsRecursion
<1>4. j >= 10
  BY <1>2, <1>3, DigitsRecursion
<1>5. k \div 10 \in Nat /\ k \div 10 < k /\ j \div 10 \in 0..(k \div 10)
  BY <1>2, <1>3, <1>4
<1>6. digits[j \div 10] <= digits[k \div 10]
  BY <1>1, <1>5
<1> QED BY <1>2, <1>3, <1>4, <1>5, <1>6, DigitsRecursion

\* What some users weigh.
LEMMA SumIsNat ==
    ASSUME NEW from \in Nat, NEW to \in Int, usr_sizes \in Lists,
           from..to \subseteq 1..Size
    PROVE  /\ Sum(from, to) \in Nat
           /\ to < from => Sum(from, to) = 0
           /\ to = from => Sum(from, to) = usr_sizes[from]
<1> DEFINE I == from..to
           S == SUBSET I
           pick(s) == CHOOSE x \in s : TRUE
           rank == [s \in S |-> Cardinality(s)]
           next == [s \in S |-> IF s = {} THEN {} ELSE s \ {pick(s)}]
           w == [s \in S |-> IF s = {} THEN 0 ELSE usr_sizes[pick(s)]]
           B == {{}}
<1>1. IsFiniteSet(I)
  <2>1. from \in Int
    OBVIOUS
  <2> QED BY <2>1, FS_Interval
<1>2. \A s \in S : IsFiniteSet(s) /\ Cardinality(s) \in Nat
  BY <1>1, FS_Subset, FS_CardinalityType
<1>3. \A s \in S : s # {} =>
         /\ pick(s) \in s /\ s \ {pick(s)} \in S
         /\ Cardinality(s \ {pick(s)}) = Cardinality(s) - 1
  BY <1>2, FS_RemoveElement
<1>4. \A i \in I : usr_sizes[i] \in Nat
  <2>1. \A i \in 1..Size : usr_sizes[i] \in Sizes
    BY DEF Lists, Size
  <2> QED BY <2>1, SizesAssumption
<1>5. /\ rank \in [S -> Nat] /\ w \in [S -> Nat] /\ next \in [S -> S]
      /\ \A s \in S \ B : rank[next[s]] < rank[s]
  <2>1. rank \in [S -> Nat]
    BY <1>2
  <2>2. w \in [S -> Nat]
    BY <1>3, <1>4
  <2>3. next \in [S -> S]
    BY <1>3
  <2>4. \A s \in S \ B : rank[next[s]] < rank[s]
    BY <1>2, <1>3
  <2> QED BY <2>1, <2>2, <2>3, <2>4
<1> HIDE DEF S, B, rank
<1>6. PICK f \in [S -> Nat] : Solves(f, S, B, 0, w, next)
  <2> HIDE DEF w, next
  <2> QED BY <1>5, RecursionExists
<1>7. f = [s \in S |-> IF s = {} THEN 0
                        ELSE usr_sizes[pick(s)] + f[s \ {pick(s)}]]
  <2>1. \A s \in S : f[s] = IF s = {} THEN 0
                            ELSE usr_sizes[pick(s)] + f[s \ {pick(s)}]
    BY <1>6 DEF B, Solves
  <2> QED BY <2>1
<1> DEFINE iter == CHOOSE it : it = [s \in S |-> IF s = {} THEN 0
                        ELSE usr_sizes[pick(s)] + it[s \ {pick(s)}]]
<1>8. iter = [s \in S |-> IF s = {} THEN 0
                          ELSE usr_sizes[pick(s)] + iter[s \ {pick(s)}]]
  BY <1>7
<1>9. Sum(from, to) = iter[I]
  BY DEF Sum, MapThenSumSet, MapThenFoldSet, S
<1> HIDE DEF iter
<1>10. \A s \in S : iter[s] = IF s = {} THEN 0
                              ELSE usr_sizes[pick(s)] + iter[s \ {pick(s)}]
  BY <1>8
<1>11. \A s \in S : iter[s] \in Nat
  <2> DEFINE D == {s \in S : iter[s] \notin Nat}
             R == {Cardinality(s) : s \in D}
  <2> SUFFICES ASSUME D # {} PROVE FALSE
    OBVIOUS
  <2>1. R \subseteq Nat /\ R # {}
    BY <1>2
  <2>2. PICK r \in R : \A q \in R : r <= q
    BY <2>1, LeastExists
  <2>3. PICK s \in D : r = Cardinality(s)
    OBVIOUS
  <2>4. s # {}
    BY <1>10
  <2>5. s \ {pick(s)} \in S /\ Cardinality(s \ {pick(s)}) = Cardinality(s) - 1
        /\ Cardinality(s) \in Nat /\ pick(s) \in I
    BY <1>2, <1>3, <2>4 DEF S
  <2>6. s \ {pick(s)} \notin D
    <3>1. CASE s \ {pick(s)} \in D
      <4>1. Cardinality(s \ {pick(s)}) \in R
        BY <3>1
      <4>2. Cardinality(s) <= Cardinality(s \ {pick(s)})
        BY <2>2, <2>3, <4>1
      <4> QED BY <2>5, <4>2
    <3> QED BY <3>1
  <2>7. iter[s] = usr_sizes[pick(s)] + iter[s \ {pick(s)}]
    BY <1>10, <2>4
  <2> QED BY <1>4, <2>5, <2>6, <2>7
<1>12. I \in S /\ {} \in S
  BY DEF S
<1>13. CASE to < from
  <2>1. I = {}
    BY <1>13
  <2>2. iter[I] = 0
    BY <1>10, <1>12, <2>1
  <2>3. ~(to = from)
    BY <1>13
  <2> QED BY <1>9, <2>2, <2>3
<1>14. CASE to = from
  <2>1. I = {from} /\ pick(I) = from /\ I \ {pick(I)} = {}
    BY <1>14
  <2>2. iter[I] = usr_sizes[from] + iter[{}] /\ iter[{}] = 0
    BY <1>10, <1>12, <2>1
  <2>3. usr_sizes[from] \in Nat
    BY <1>4, <2>1
  <2> QED BY <1>9, <1>14, <2>2, <2>3
<1> QED BY <1>9, <1>11, <1>12, <1>13, <1>14

----------------------------------------------------------------------------
(* The pages of an answer.                                                 *)

LEMMA ListsAreSeqs ==
    ASSUME usr_sizes \in Lists
    PROVE  /\ Size \in 0..MaxUsers
           /\ \A i \in 1..Size : usr_sizes[i] \in Sizes /\ usr_sizes[i] \in Nat
           /\ CountSize \in Nat /\ CountSize < MAX_DATA_SIZE
           /\ \A i \in 1..Size : CountSize + usr_sizes[i] < MAX_DATA_SIZE
<1>1. PICK n \in 0..MaxUsers : usr_sizes \in [1..n -> Sizes]
  BY DEF Lists
<1>2. Size = n
  BY <1>1, SizesAssumption DEF Size
<1>3. \A i \in 1..Size : usr_sizes[i] \in Sizes /\ usr_sizes[i] \in Nat
  BY <1>1, <1>2, SizesAssumption
<1>4. digits[Size] \in Nat /\ digits[Size] <= digits[MaxUsers]
      /\ digits[MaxUsers] \in Nat
  BY <1>2, SizesAssumption, DigitsRecursion, DigitsGrow
<1> QED BY <1>2, <1>3, <1>4, SizesAssumption DEF CountSize

\* The first page of an answer has all the users, or one at least and not all.
LEMMA FirstIsPage ==
    ASSUME usr_sizes \in Lists
    PROVE  /\ FirstAmount \in 0..Size /\ (Size > 0 => FirstAmount > 0)
           /\ CountSize + Sum(1, FirstAmount) \in Nat
           /\ CountSize + Sum(1, FirstAmount) < MAX_DATA_SIZE
           /\ total_size_needed \in Nat
           /\ total_size_needed < MAX_DATA_SIZE <=> FirstAmount = Size
<1> DEFINE S == {n \in 0..Size : CountSize + Sum(1, n) < MAX_DATA_SIZE}
<1>1. Size \in Nat /\ CountSize \in Nat /\ MAX_DATA_SIZE \in Nat
  BY ListsAreSeqs, SizesAssumption
<1>2. \A n \in 0..Size : Sum(1, n) \in Nat
  BY <1>1, SumIsNat
<1>3. 0 \in S
  <2>1. Sum(1, 0) = 0
    BY <1>1, SumIsNat
  <2> QED BY <1>1, <2>1, ListsAreSeqs
<1>4. FirstAmount \in S /\ \A n \in S : n <= FirstAmount
  BY <1>1, <1>3, MaxIsGreatest DEF FirstAmount
<1>5. Size > 0 => 1 \in S
  <2> SUFFICES ASSUME Size > 0 PROVE 1 \in S
    OBVIOUS
  <2>1. Sum(1, 1) = usr_sizes[1]
    BY <1>1, SumIsNat
  <2> QED BY <1>1, <2>1, ListsAreSeqs
<1>6. total_size_needed \in Nat
      /\ (total_size_needed < MAX_DATA_SIZE <=> Size \in S)
  BY <1>1, <1>2 DEF total_size_needed
<1>7. Size \in S <=> FirstAmount = Size
  BY <1>1, <1>4
<1> QED BY <1>1, <1>2, <1>4, <1>5, <1>6, <1>7

\* Each of the pages that follow has a user at least, and only the last may
\* overflow.
LEMMA NextIsPage ==
    ASSUME usr_sizes \in Lists, NEW a \in 0..(Size - 1)
    PROVE  /\ NextAmount(a) \in (a + 1)..Size
           /\ Sum(a + 1, NextAmount(a)) \in Nat
           /\ Sum(a + 1, NextAmount(a)) < MAX_DATA_SIZE \/ NextAmount(a) = Size
<1> DEFINE S == {n \in a..Size : Sum(a + 1, n) < MAX_DATA_SIZE}
<1>1. Size \in Nat /\ CountSize \in Nat /\ MAX_DATA_SIZE \in Nat
  BY ListsAreSeqs, SizesAssumption
<1>2. \A n \in a..Size : Sum(a + 1, n) \in Nat
  BY <1>1, SumIsNat
<1>3. a + 1 \in S
  <2>1. Sum(a + 1, a + 1) = usr_sizes[a + 1]
    BY <1>1, SumIsNat
  <2> QED BY <1>1, <2>1, ListsAreSeqs
<1>4. Max(S) \in S /\ \A n \in S : n <= Max(S)
  <2>1. S \subseteq 0..Size
    BY <1>1
  <2> QED BY <1>1, <1>3, <2>1, MaxIsGreatest
<1>5. NextAmount(a) = Size \/ NextAmount(a) = Max(S)
  BY DEF NextAmount
<1> HIDE DEF NextAmount
<1>6. CASE NextAmount(a) = Size
  BY <1>1, <1>2, <1>6
<1>7. CASE NextAmount(a) = Max(S)
  BY <1>1, <1>2, <1>3, <1>4, <1>7
<1> QED BY <1>5, <1>6, <1>7

\* What has been sent of an answer is a number of users.
LEMMA EndsGrow ==
    ASSUME usr_sizes \in Lists, NEW e \in Seq(Nat), Ends(e)
    PROVE  \A i \in 1..Len(e) : e[i] \in 0..Size /\ e[i] >= i - 1
                                /\ (Size > 0 => e[i] >= i)
<1> DEFINE D == {i \in 1..Len(e) : ~ (/\ e[i] \in 0..Size /\ e[i] >= i - 1
                                      /\ (Size > 0 => e[i] >= i))}
<1> SUFFICES ASSUME D # {} PROVE FALSE
  OBVIOUS
<1>1. D \subseteq Nat
  OBVIOUS
<1>2. PICK i \in D : \A j \in D : i <= j
  BY <1>1, LeastExists
<1>3. Size \in Nat /\ Len(e) \in Nat
  BY ListsAreSeqs
<1>4. i # 1
  BY <1>2, <1>3, FirstIsPage DEF Ends
<1>5. i - 1 \in 1..(Len(e) - 1)
  BY <1>3, <1>4
<1>6. i - 1 \notin D
  BY <1>2, <1>5
<1>7. e[i - 1] < Size /\ e[i] = NextAmount(e[i - 1])
  BY <1>5 DEF Ends
<1>8. e[i - 1] \in 0..(Size - 1) /\ e[i - 1] >= i - 1
  BY <1>3, <1>5, <1>6, <1>7
<1>9. e[i] \in (e[i - 1] + 1)..Size
  BY <1>7, <1>8, NextIsPage
<1> QED BY <1>3, <1>8, <1>9

\* An answer goes on.
LEMMA EndsExtend ==
    ASSUME usr_sizes \in Lists, NEW e \in Seq(Nat), Ends(e), e[Len(e)] < Size,
           NEW d, d = Append(e, NextAmount(e[Len(e)]))
    PROVE  /\ d \in Seq(Nat) /\ Ends(d) /\ Len(d) = Len(e) + 1
           /\ d[Len(d)] = NextAmount(e[Len(e)])
           /\ \A i \in 1..Len(e) : d[i] = e[i]
<1>1. Len(e) \in Nat \ {0} /\ Size \in Nat
  BY ListsAreSeqs DEF Ends
<1>2. e[Len(e)] \in 0..(Size - 1)
  BY <1>1, EndsGrow
<1>3. NextAmount(e[Len(e)]) \in Nat
  BY <1>1, <1>2, NextIsPage
<1> DEFINE n == NextAmount(e[Len(e)])
<1> HIDE DEF n
<1>4. /\ d \in Seq(Nat) /\ Len(d) = Len(e) + 1 /\ d[Len(d)] = n
      /\ \A i \in 1..Len(e) : d[i] = e[i]
  <2>1. d = Append(e, n) /\ n \in Nat
    BY <1>3 DEF n
  <2> QED BY <1>1, <2>1
<1>5. Ends(d)
  <2>1. d # <<>> /\ d[1] = FirstAmount
    BY <1>1, <1>4 DEF Ends
  <2>2. ASSUME NEW i \in 1..(Len(d) - 1)
        PROVE  d[i] < Size /\ d[i + 1] = NextAmount(d[i])
    <3>1. CASE i = Len(e)
      BY <1>1, <1>4, <3>1 DEF n
    <3>2. CASE i < Len(e)
      BY <1>1, <1>4, <3>2 DEF Ends
    <3> QED BY <1>1, <1>4, <3>1, <3>2
  <2> QED BY <1>4, <2>1, <2>2 DEF Ends
<1> QED BY <1>4, <1>5 DEF n

\* The pages that are left of an answer, counted: none at its end, and one at
\* least before it.
LEMMA PagesAreCounted ==
    ASSUME usr_sizes \in Lists
    PROVE  \A a \in 0..Size :
              /\ pageCount[a] \in Nat
              /\ pageCount[a] = IF a = Size THEN 0
                                ELSE 1 + pageCount[NextAmount(a)]
<1> DEFINE S == 0..Size
           rank == [a \in S |-> Size - a]
           next == [a \in S |-> IF a = Size THEN a ELSE NextAmount(a)]
           one == [a \in S |-> 1]
           B == {Size}
           Counts(f) == f = [a \in 0..Size |-> IF a = Size THEN 0
                                         ELSE 1 + f[NextAmount(a)]]
<1>1. Size \in Nat
  BY ListsAreSeqs
<1>2. \A a \in S : a # Size => NextAmount(a) \in S /\ a < NextAmount(a)
  <2> TAKE a \in S
  <2>1. a # Size => a \in 0..(Size - 1)
    BY <1>1
  <2> QED BY <1>1, <2>1, NextIsPage
<1>3. /\ rank \in [S -> Nat] /\ next \in [S -> S] /\ one \in [S -> Nat]
      /\ \A a \in S \ B : rank[next[a]] < rank[a]
  BY <1>1, <1>2
<1> HIDE DEF B, rank
<1>4. PICK f \in [S -> Nat] : Solves(f, S, B, 0, one, next)
  <2> HIDE DEF S, one, next
  <2> QED BY <1>3, RecursionExists
<1>5. \A a \in S : f[a] = IF a = Size THEN 0 ELSE 1 + f[NextAmount(a)]
  <2>1. f = [a \in S |-> IF a \in B THEN 0 ELSE one[a] + f[next[a]]]
    BY <1>4 DEF Solves
  <2> QED BY <2>1 DEF B
<1>6. Counts(f)
  BY <1>5
<1>7. pageCount = CHOOSE g : Counts(g)
  BY DEF pageCount
<1>8. Counts(pageCount)
  BY <1>6, <1>7
<1>9. \A a \in S :
         pageCount[a] = IF a = Size THEN 0 ELSE 1 + pageCount[NextAmount(a)]
  BY <1>8
<1>10. \A a \in S : pageCount[a] = f[a]
  <2> DEFINE D == {a \in S : pageCount[a] # f[a]}
  <2> SUFFICES ASSUME D # {} PROVE FALSE
    OBVIOUS
  <2>1. PICK a \in D : \A b \in D : b <= a
    BY <1>1, MaxIsGreatest
  <2>2. a # Size
    BY <1>5, <1>9
  <2>3. NextAmount(a) \in S /\ NextAmount(a) \notin D
    BY <1>2, <2>1, <2>2
  <2> QED BY <1>5, <1>9, <2>2, <2>3
<1> QED BY <1>9, <1>10

\* An answer of two pages at most, of which the first has not exactly half of
\* the users, has no page that is taken for the last.
LEMMA ShortAnswers ==
    ASSUME usr_sizes \in Lists, PageCount <= 2, 2 * FirstAmount # Size
    PROVE  ~Early
<1> SUFFICES ASSUME NEW e \in Seq(Nat), Ends(e), ExitsAt(e, Len(e))
             PROVE  FALSE
  BY DEF Early
<1>1. /\ Size \in Nat /\ FirstAmount \in 0..Size
      /\ (FirstAmount = Size <=> total_size_needed < MAX_DATA_SIZE)
  BY ListsAreSeqs, FirstIsPage
<1>2. Len(e) \in Nat \ {0} /\ e[1] = FirstAmount
  BY DEF Ends
<1>3. CASE Len(e) = 1
  BY <1>1, <1>2, <1>3 DEF ExitsAt
<1>4. CASE Len(e) > 1
  <2>1. e[1] < Size /\ e[2] = NextAmount(e[1])
    <3>1. 1 \in 1..(Len(e) - 1)
      BY <1>2, <1>4
    <3> QED BY <3>1 DEF Ends
  <2>2. FirstAmount \in 0..(Size - 1) /\ NextAmount(FirstAmount) \in 0..Size
    BY <1>1, <1>2, <2>1, NextIsPage
  <2>3. PageCount = 1 + pageCount[FirstAmount]
    BY <1>1, <2>2 DEF PageCount
  <2>4. /\ pageCount[FirstAmount] = 1 + pageCount[NextAmount(FirstAmount)]
        /\ pageCount[NextAmount(FirstAmount)] \in Nat
    BY <1>1, <2>2, PagesAreCounted
  <2>5. pageCount[NextAmount(FirstAmount)] = 0
    BY <2>3, <2>4
  <2>6. NextAmount(FirstAmount) = Size
    <3>1. CASE NextAmount(FirstAmount) # Size
      <4>1. NextAmount(FirstAmount) \in 0..(Size - 1)
        BY <1>1, <2>2, <3>1
      <4>2. NextAmount(NextAmount(FirstAmount)) \in 0..Size
        BY <1>1, <4>1, NextIsPage
      <4>3. pageCount[NextAmount(NextAmount(FirstAmount))] \in Nat
        BY <4>2, PagesAreCounted
      <4> QED BY <2>2, <2>5, <3>1, <4>3, PagesAreCounted
    <3> QED BY <3>1
  <2>7. e[2] = Size
    BY <1>2, <2>1, <2>6
  <2>8. Len(e) = 2
    <3>1. CASE Len(e) > 2
      <4>1. 2 \in 1..(Len(e) - 1)
        BY <1>2, <3>1
      <4> QED BY <1>1, <2>7, <4>1 DEF Ends
    <3>2. \A n \in Nat : n > 1 => n > 2 \/ n = 2
      OBVIOUS
    <3> QED BY <1>2, <1>4, <3>1, <3>2
  <2> QED BY <1>1, <2>7, <2>8 DEF ExitsAt
<1>5. \A n \in Nat \ {0} : n = 1 \/ n > 1
  OBVIOUS
<1> QED BY <1>2, <1>3, <1>4, <1>5

\* Nobody changes the list while it is searched.
LEMMA ListStays ==
    ASSUME UNCHANGED usr_sizes
    PROVE  /\ Size' = Size /\ FirstAmount' = FirstAmount
           /\ PageCount' = PageCount
           /\ total_size_needed' = total_size_needed
           /\ (Early)' = Early
           /\ \A a : NextAmount(a)' = NextAmount(a)
           /\ \A e : Ends(e)' = Ends(e)
           /\ \A e, i : ExitsAt(e, i)' = ExitsAt(e, i)
           /\ \A p : IsPage(p)' = IsPage(p)
<1> USE DEF FirstAmount, NextAmount, total_size_needed, CountSize, Size, Max,
            Sum, MapThenSumSet, MapThenFoldSet
<1>1. Size' = Size
  OBVIOUS
<1>2. FirstAmount' = FirstAmount
  OBVIOUS
<1>3. total_size_needed' = total_size_needed
  OBVIOUS
<1>4. \A a : NextAmount(a)' = NextAmount(a)
  OBVIOUS
<1>5. PageCount' = PageCount
  BY DEF PageCount, pageCount
<1>6. \A e : Ends(e)' = Ends(e)
  BY DEF Ends
<1>7. \A e, i : ExitsAt(e, i)' = ExitsAt(e, i)
  BY DEF ExitsAt
<1>8. \A p : IsPage(p)' = IsPage(p)
  BY DEF IsPage
<1>9. (Early)' = Early
  BY DEF Early, ExitsAt, Ends
<1> QED BY <1>1, <1>2, <1>3, <1>4, <1>5, <1>6, <1>7, <1>8, <1>9

----------------------------------------------------------------------------
(* The stream of pages.                                                    *)

Pages == [total : -1..Size, from : 1..(Size + 1), to : 0..Size, used : Nat]

\* A page goes to the end of the stream.
LEMMA StreamGrows ==
    ASSUME usr_sizes \in Lists, pages \in Seq(Pages), Stream, NEW p \in Pages,
           IsPage(p), UNCHANGED usr_sizes, pages' = Append(pages, p),
           pages # <<>> => IF p.total = -1
                           THEN p.from = pages[Len(pages)].to + 1
                           ELSE pages[Len(pages)].to = Size,
           srv' = "pages" => amount' \in 1..(Size - 1),
           p.to = IF srv' = "pages" THEN amount' ELSE Size
    PROVE  Stream' /\ pages' \in Seq(Pages)
<1>1. /\ pages' \in Seq(Pages) /\ Len(pages') = Len(pages) + 1
      /\ \A i \in 1..Len(pages) : pages'[i] = pages[i]
      /\ pages'[Len(pages')] = p
  OBVIOUS
<1>2. \A i \in DOMAIN pages' : IsPage(pages'[i])
  BY <1>1 DEF Stream
<1>3. ASSUME NEW i \in DOMAIN pages', i + 1 \in DOMAIN pages'
      PROVE  IF pages'[i + 1].total = -1
             THEN pages'[i + 1].from = pages'[i].to + 1
             ELSE pages'[i].to = Size
  <2>1. CASE i = Len(pages)
    BY <1>1, <2>1
  <2>2. CASE i # Len(pages)
    <3>1. i \in DOMAIN pages /\ i + 1 \in DOMAIN pages
      BY <1>1, <1>3, <2>2
    <3>2. pages'[i + 1] = pages[i + 1] /\ pages'[i] = pages[i]
      BY <1>1, <3>1
    <3> QED BY <3>1, <3>2 DEF Stream
  <2> QED BY <2>1, <2>2
<1> QED BY <1>1, <1>2, <1>3, ListStays DEF Stream

\* A page is taken from its head.
LEMMA StreamShrinks ==
    ASSUME usr_sizes \in Lists, pages \in Seq(Pages), Stream, pages # <<>>,
           pages' = Tail(pages), UNCHANGED <<usr_sizes, srv, amount>>
    PROVE  /\ Stream' /\ pages' \in Seq(Pages)
           /\ Len(pages') = Len(pages) - 1
           /\ \A i \in 1..Len(pages') : pages'[i] = pages[i + 1]
<1>1. /\ pages' \in Seq(Pages) /\ Len(pages') = Len(pages) - 1
      /\ \A i \in 1..Len(pages') : pages'[i] = pages[i + 1]
  OBVIOUS
<1>2. \A i \in DOMAIN pages' : IsPage(pages'[i])
  BY <1>1 DEF Stream
<1>3. ASSUME NEW i \in DOMAIN pages', i + 1 \in DOMAIN pages'
      PROVE  IF pages'[i + 1].total = -1
             THEN pages'[i + 1].from = pages'[i].to + 1
             ELSE pages'[i].to = Size
  <2>1. i + 1 \in DOMAIN pages /\ (i + 1) + 1 \in DOMAIN pages
    BY <1>1, <1>3
  <2>2. pages'[i + 1] = pages[(i + 1) + 1] /\ pages'[i] = pages[i + 1]
    BY <1>1, <1>3
  <2> QED BY <2>1, <2>2 DEF Stream
<1>4. pages' # <<>> =>
         pages'[Len(pages')].to = IF srv' = "pages" THEN amount' ELSE Size
  <2> SUFFICES ASSUME pages' # <<>>
               PROVE  pages'[Len(pages')] = pages[Len(pages)]
    BY DEF Stream
  <2>1. Len(pages') \in 1..Len(pages')
    BY <1>1
  <2>2. Len(pages') + 1 = Len(pages)
    BY <1>1
  <2> QED BY <1>1, <2>1, <2>2
<1>5. srv' = "pages" => amount' \in 1..(Size - 1)
  BY DEF Stream
<1> QED BY <1>1, <1>2, <1>3, <1>4, <1>5, ListStays DEF Stream

\* A sequence that is not empty has a head, and behind it a sequence.
LEMMA HeadAndTail ==
    ASSUME NEW S, NEW s \in Seq(S), s # <<>>
    PROVE  /\ Len(s) \in Nat \ {0} /\ Head(s) = s[1]
           /\ Len(s) = 1 => Tail(s) = <<>>
           /\ Len(s) > 1 => Tail(s) # <<>> /\ Head(Tail(s)) = s[2]
<1>1. Len(s) \in Nat \ {0}
  BY EmptySeq
<1>2. /\ Tail(s) \in Seq(S) /\ Len(Tail(s)) = Len(s) - 1
      /\ \A i \in 1..Len(Tail(s)) : Tail(s)[i] = s[i + 1]
  BY HeadTailProperties
<1>3. \A t \in Seq(S) : t = <<>> <=> Len(t) = 0
  BY EmptySeq
<1>4. Tail(s) = <<>> <=> Len(s) = 1
  <2>1. Tail(s) = <<>> <=> Len(Tail(s)) = 0
    BY <1>2, <1>3
  <2>2. Len(s) - 1 = 0 <=> Len(s) = 1
    BY <1>1
  <2> QED BY <1>2, <2>1, <2>2
<1>5. Len(s) > 1 => Head(Tail(s)) = s[2]
  BY <1>1, <1>2
<1> QED BY <1>1, <1>4, <1>5

LEMMA FunctionIsSeq ==
    ASSUME NEW S, NEW k \in Nat, NEW f \in [1..k -> S]
    PROVE  f \in Seq(S) /\ Len(f) = k
  OBVIOUS

\* What goes to the end of a sequence is its head only if there was none.
LEMMA HeadOfAppend ==
    ASSUME NEW S, NEW s \in Seq(S), NEW x \in S, NEW t, t = Append(s, x)
    PROVE  /\ t # <<>> /\ (s = <<>> => t = <<x>> /\ Head(t) = x)
           /\ s # <<>> => Head(t) = Head(s)
<1>1. Len(t) = Len(s) + 1 /\ t \in Seq(S) /\ \A i \in 1..Len(s) : t[i] = s[i]
  OBVIOUS
<1>2. t # <<>>
  BY <1>1
<1>3. s = <<>> => t = <<x>> /\ Head(t) = x
  OBVIOUS
<1>4. ASSUME s # <<>> PROVE Head(t) = Head(s)
  <2>1. Len(s) \in Nat \ {0}
    BY <1>4, EmptySeq
  <2>2. Head(s) = s[1] /\ Head(t) = t[1]
    BY <1>1, <1>2, <1>4, HeadAndTail
  <2> QED BY <1>1, <2>1, <2>2
<1> QED BY <1>2, <1>3, <1>4

\* What is behind the head of the stream: the page after it, or the server at
\* the place where the head ends.
LEMMA BehindHead ==
    ASSUME usr_sizes \in Lists, pages \in Seq(Pages), Stream, pages # <<>>
    PROVE  /\ Head(pages) \in Pages /\ IsPage(Head(pages))
           /\ Head(pages).to < Size =>
                 IF Tail(pages) = <<>>
                 THEN srv = "pages" /\ amount = Head(pages).to
                 ELSE /\ Head(Tail(pages)).total = -1
                      /\ Head(Tail(pages)).from = Head(pages).to + 1
           /\ Head(pages).to = Size =>
                 IF Tail(pages) = <<>> THEN srv # "pages"
                 ELSE Head(Tail(pages)).total # -1
           /\ /\ Head(pages).to = Size
              /\ \A i \in DOMAIN pages : i > 1 => pages[i].total = -1
              => Tail(pages) = <<>> /\ srv # "pages"
<1>1. /\ Head(pages) = pages[1] /\ pages[1] \in Pages /\ Len(pages) \in Nat
      /\ 1 \in DOMAIN pages
  OBVIOUS
<1>2. IsPage(pages[1]) /\ Size \in Nat
  BY <1>1, ListsAreSeqs DEF Stream
<1>3. CASE Len(pages) = 1
  <2>1. Tail(pages) = <<>>
    BY <1>3, HeadAndTail
  <2>2. pages[1].to = IF srv = "pages" THEN amount ELSE Size
    BY <1>3 DEF Stream
  <2>3. srv = "pages" => amount \in 1..(Size - 1)
    BY DEF Stream
  <2> QED BY <1>1, <1>2, <2>1, <2>2, <2>3
<1>4. CASE Len(pages) > 1
  <2>1. Tail(pages) # <<>> /\ Head(Tail(pages)) = pages[2] /\ 2 \in DOMAIN pages
    BY <1>4, HeadAndTail
  <2>2. pages[2] \in Pages /\ IsPage(pages[2])
    BY <2>1 DEF Stream
  <2>3. IF pages[2].total = -1 THEN pages[2].from = pages[1].to + 1
        ELSE pages[1].to = Size
    BY <1>1, <2>1 DEF Stream
  <2>4. pages[1].to = Size => pages[2].total # -1
    BY <1>2, <2>2, <2>3 DEF IsPage
  <2>5. pages[1].to \in 0..Size
    BY <1>1 DEF Pages
  <2> QED BY <1>1, <1>2, <2>1, <2>3, <2>4, <2>5
<1>5. Len(pages) = 1 \/ Len(pages) > 1
  <2>1. \A n \in Nat \ {0} : n = 1 \/ n > 1
    OBVIOUS
  <2> QED BY <2>1, HeadAndTail
<1> QED BY <1>3, <1>4, <1>5

\* The page that is sent has a part of the list.
LEMMA FirstPageIsPage ==
    ASSUME usr_sizes \in Lists, NEW p,
           p = Page(Size, 1, FirstAmount, CountSize + Sum(1, FirstAmount))
    PROVE  p \in Pages /\ IsPage(p)
<1>1. Size \in Nat /\ FirstAmount \in 0..Size
      /\ CountSize + Sum(1, FirstAmount) \in Nat
      /\ CountSize + Sum(1, FirstAmount) < MAX_DATA_SIZE
  BY ListsAreSeqs, FirstIsPage
<1> DEFINE used == CountSize + Sum(1, FirstAmount)
<1> HIDE DEF used
<1>2. p = [total |-> Size, from |-> 1, to |-> FirstAmount, used |-> used]
  BY DEF Page, used
<1>3. used \in Nat /\ used < MAX_DATA_SIZE
  BY <1>1 DEF used
<1> QED BY <1>1, <1>2, <1>3 DEF Pages, IsPage

LEMMA NextPageIsPage ==
    ASSUME usr_sizes \in Lists, NEW a \in 1..(Size - 1), NEW p,
           p = Page(-1, a + 1, NextAmount(a), Sum(a + 1, NextAmount(a)))
    PROVE  p \in Pages /\ IsPage(p)
<1>1. /\ Size \in Nat /\ NextAmount(a) \in (a + 1)..Size
      /\ Sum(a + 1, NextAmount(a)) \in Nat
      /\ Sum(a + 1, NextAmount(a)) < MAX_DATA_SIZE \/ NextAmount(a) = Size
  BY ListsAreSeqs, NextIsPage
<1> DEFINE used == Sum(a + 1, NextAmount(a))
<1> HIDE DEF used
<1>2. p = [total |-> -1, from |-> a + 1, to |-> NextAmount(a), used |-> used]
  BY DEF Page, used
<1>3. used \in Nat /\ (used < MAX_DATA_SIZE \/ NextAmount(a) = Size)
  BY <1>1 DEF used
<1>4. (a + 1) - 1 = a
  OBVIOUS
<1> QED BY <1>1, <1>2, <1>3, <1>4 DEF Pages, IsPage

----------------------------------------------------------------------------
(* The steps of the server and the request of the client.                  *)

\* The list is printed as it was, and under the same identifiers.
LEMMA PrintedStays ==
    ASSUME PrintedInOrder, UNCHANGED <<list, printed, misnamed>>,
           shifted' => ~instep'
    PROVE  PrintedInOrder'
<1>1. id_digits' = id_digits /\ printed' = printed /\ misnamed' = misnamed
  BY DEF list
<1>2. ASSUME NEW i \in misnamed PROVE i <= Len(printed) /\ LongerBefore(i)'
  BY <1>1, <1>2 DEF PrintedInOrder, LongerBefore
<1>3. printed' = [i \in 1..Len(printed') |-> i]
  BY <1>1 DEF PrintedInOrder
<1> QED BY <1>1, <1>2, <1>3 DEF PrintedInOrder

\* Types of a step that leaves the list alone.
LEMMA TypesStay ==
    ASSUME TypeOK, UNCHANGED list, pages' \in Seq(Pages),
           srv' \in {"idle", "pages"}, amount' \in 0..Size,
           asked' \in 0..MaxSearches, searches' \in 0..MaxSearches,
           cli' \in {"idle", "first", "more", "lost"}, instep' \in BOOLEAN,
           total_usrs' \in Nat, before_usrs_read' \in 0..Size,
           usrs_read' \in 0..Size, printed' \in Seq(1..Size),
           misnamed' \subseteq 1..Size, shifted' \in BOOLEAN
    PROVE  TypeOK'
<1>1. usr_sizes' = usr_sizes /\ id_digits' = id_digits
  BY DEF list
<1>2. Size' = Size
  BY <1>1, ListStays
<1>3. id_digits' \in Identifiers(Size')
  BY <1>1, <1>2 DEF TypeOK
<1> QED BY <1>1, <1>2, <1>3 DEF TypeOK, Pages

\* What a step of the server leaves of the client.
LEMMA ClientStays ==
    ASSUME SearchIInv, UNCHANGED <<list, clientVars, searches>>
    PROVE  /\ UNCHANGED usr_sizes /\ Size' = Size
           /\ UNCHANGED <<cli, instep, total_usrs, before_usrs_read, usrs_read,
                          printed, searches>>
           /\ cli = "more" /\ instep =>
                 /\ total_usrs' = Size' /\ before_usrs_read' = FirstAmount'
                 /\ \E e \in Seq(Nat) : Printed(e)'
           /\ PrintedInOrder'
<1>1. /\ UNCHANGED usr_sizes
      /\ UNCHANGED <<cli, instep, total_usrs, before_usrs_read, usrs_read,
                     printed, searches, shifted>>
  BY DEF list, clientVars
<1>2. Size' = Size
  BY <1>1, ListStays
<1>3. ASSUME cli = "more", instep
      PROVE  /\ total_usrs' = Size' /\ before_usrs_read' = FirstAmount'
             /\ \E e \in Seq(Nat) : Printed(e)'
  <2>1. PICK e \in Seq(Nat) : Printed(e)
    BY <1>3 DEF SearchIInv, Reading
  <2>2. Printed(e)'
    BY <1>1, <2>1, ListStays DEF Printed
  <2> QED BY <1>1, <1>3, <2>2, ListStays DEF SearchIInv, Reading
<1>4. PrintedInOrder'
  <2>1. UNCHANGED <<list, printed, misnamed>>
    BY DEF clientVars
  <2>2. shifted' => ~instep'
    BY <1>1 DEF SearchIInv, PrintedInOrder
  <2> QED BY <2>1, <2>2, PrintedStays DEF SearchIInv
<1> QED BY <1>1, <1>2, <1>3, <1>4

LEMMA ServerTypes ==
    ASSUME SearchIInv, UNCHANGED <<list, clientVars, searches>>,
           pages' \in Seq(Pages), srv' \in {"idle", "pages"},
           amount' \in 0..Size, asked' \in 0..asked
    PROVE  TypeOK' /\ asked' <= searches'
<1>1. asked' \in 0..MaxSearches /\ asked' <= searches'
  BY SizesAssumption DEF SearchIInv, TypeOK
<1>2. /\ searches' \in 0..MaxSearches
      /\ cli' \in {"idle", "first", "more", "lost"} /\ instep' \in BOOLEAN
      /\ total_usrs' \in Nat /\ before_usrs_read' \in 0..Size
      /\ usrs_read' \in 0..Size /\ printed' \in Seq(1..Size)
      /\ misnamed' \subseteq 1..Size /\ shifted' \in BOOLEAN
  BY DEF SearchIInv, TypeOK, clientVars
<1> QED BY <1>1, <1>2, TypesStay DEF SearchIInv

\* The first page of an answer goes to the end of what was sent before.
LEMMA ServerSearchKeeps ==
    ASSUME SearchIInv, ServerSearch
    PROVE  SearchIInv'
<1> DEFINE p == Page(Size, 1, FirstAmount, CountSize + Sum(1, FirstAmount))
<1>1. /\ usr_sizes \in Lists /\ pages \in Seq(Pages) /\ Size \in Nat
      /\ UNCHANGED <<list, clientVars, searches>>
      /\ srv = "idle" /\ asked > 0 /\ asked' = asked - 1
  BY ListsAreSeqs DEF SearchIInv, TypeOK, ServerSearch, Pages
<1>2. /\ UNCHANGED usr_sizes /\ Size' = Size
      /\ UNCHANGED <<cli, instep, total_usrs, before_usrs_read, usrs_read,
                     printed, searches>>
      /\ PrintedInOrder'
  BY <1>1, ClientStays
<1>3. /\ FirstAmount \in 0..Size /\ (Size > 0 => FirstAmount > 0)
      /\ (FirstAmount = Size <=> total_size_needed < MAX_DATA_SIZE)
      /\ total_size_needed \in Nat /\ MAX_DATA_SIZE \in Nat
  BY <1>1, FirstIsPage, SizesAssumption
<1>4. p \in Pages /\ IsPage(p) /\ p.total = Size /\ p.to = FirstAmount
  BY <1>1, FirstPageIsPage DEF Page
<1>5. /\ pages' = Append(pages, p)
      /\ IF FirstAmount = Size THEN srv' = srv /\ amount' = amount
         ELSE srv' = "pages" /\ amount' = FirstAmount
  <2>1. CASE total_size_needed < MAX_DATA_SIZE
    <3>1. pages' = Append(pages, Page(Size, 1, Size, total_size_needed))
          /\ srv' = srv /\ amount' = amount
      BY <1>3, <2>1 DEF ServerSearch
    <3>2. p = Page(Size, 1, Size, total_size_needed)
      BY <1>3, <2>1 DEF total_size_needed
    <3> QED BY <1>3, <2>1, <3>1, <3>2
  <2>2. CASE total_size_needed >= MAX_DATA_SIZE
    BY <1>3, <2>2 DEF ServerSearch
  <2> QED BY <1>3, <2>1, <2>2
<1> HIDE DEF p
<1>6. Stream' /\ pages' \in Seq(Pages)
  <2>1. pages # <<>> => pages[Len(pages)].to = Size
    BY <1>1 DEF SearchIInv, Stream
  <2>2. srv' = "pages" => amount' \in 1..(Size - 1)
    BY <1>1, <1>3, <1>5
  <2>3. p.to = IF srv' = "pages" THEN amount' ELSE Size
    BY <1>1, <1>4, <1>5
  <2>4. p.total # -1
    BY <1>1, <1>4
  <2> QED BY <1>1, <1>2, <1>4, <1>5, <2>1, <2>2, <2>3, <2>4, StreamGrows
          DEF SearchIInv
<1>7. TypeOK' /\ asked' <= searches'
  <2>1. asked' \in 0..asked /\ amount' \in 0..Size /\ srv' \in {"idle", "pages"}
    BY <1>1, <1>3, <1>5 DEF SearchIInv, TypeOK
  <2> QED BY <1>1, <1>6, <2>1, ServerTypes
<1>8. /\ pages' # <<>>
      /\ pages = <<>> => pages' = <<p>> /\ Head(pages').total # -1
      /\ pages # <<>> => Head(pages') = Head(pages)
  <2>1. p.total # -1
    BY <1>1, <1>4
  <2>2. pages \in Seq(Pages) /\ p \in Pages /\ pages' = Append(pages, p)
    BY <1>1, <1>4, <1>5
  <2>3. pages = <<>> => pages' = <<p>>
    BY <2>2
  <2>4. /\ pages' # <<>> /\ (pages = <<>> => Head(pages') = p)
        /\ pages # <<>> => Head(pages') = Head(pages)
    BY <2>2, HeadOfAppend
  <2> QED BY <2>1, <2>3, <2>4
<1>9. Reading'
  <2> SUFFICES ASSUME cli = "more" PROVE Reading'
    BY <1>2 DEF Reading
  <2>1. /\ Len(printed) \in 1..Size /\ usrs_read <= Len(printed)
        /\ IF Len(printed) < Size
           THEN pages # <<>> /\ Head(pages).total = -1
                /\ Head(pages).from = Len(printed) + 1
           ELSE pages = <<>> \/ Head(pages).total # -1
    BY <1>1 DEF SearchIInv, Reading
  <2>2. instep => /\ total_usrs' = Size' /\ before_usrs_read' = FirstAmount'
                  /\ \E e \in Seq(Nat) : Printed(e)'
    BY <1>1, ClientStays
  <2> QED BY <1>2, <1>8, <2>1, <2>2 DEF Reading
<1>10. NothingLeft'
  <2> SUFFICES ASSUME instep PROVE NothingLeft'
    BY <1>2 DEF NothingLeft
  <2>1. /\ ~(cli = "idle" /\ ~Early) /\ cli # "more"
        /\ cli = "first" => asked = 1 /\ pages = <<>>
    BY <1>1 DEF SearchIInv, NothingLeft, Quiet, OneAnswer, RestOfAnswer
  <2>2. cli = "first" => OneAnswer'
    <3> SUFFICES ASSUME cli = "first" PROVE OneAnswer'
      OBVIOUS
    <3>1. /\ asked' = 0 /\ pages' # <<>> /\ Head(pages').total # -1
          /\ pages' = <<p>>
      BY <1>1, <1>8, <2>1
    <3>2. \A i \in DOMAIN pages' : i > 1 => pages'[i].total = -1
      BY <3>1
    <3> QED BY <3>1, <3>2 DEF OneAnswer
  <2> QED BY <1>2, <2>1, <2>2, ListStays DEF NothingLeft
<1> QED BY <1>2, <1>6, <1>7, <1>9, <1>10 DEF SearchIInv

\* The next page goes on where the last one ended.
LEMMA ServerPageKeeps ==
    ASSUME SearchIInv, ServerPage
    PROVE  SearchIInv'
<1> DEFINE to == NextAmount(amount)
           p == Page(-1, amount + 1, to, Sum(amount + 1, to))
<1>1. /\ usr_sizes \in Lists /\ pages \in Seq(Pages) /\ Size \in Nat
      /\ UNCHANGED <<list, clientVars, searches>>
      /\ srv = "pages" /\ asked' = asked
  BY ListsAreSeqs DEF SearchIInv, TypeOK, ServerPage, Pages
<1>2. /\ UNCHANGED usr_sizes /\ Size' = Size
      /\ UNCHANGED <<cli, instep, total_usrs, before_usrs_read, usrs_read,
                     printed, searches>>
      /\ PrintedInOrder'
  BY <1>1, ClientStays
<1>3. amount \in 1..(Size - 1)
  BY <1>1 DEF SearchIInv, Stream
<1>4. /\ p \in Pages /\ IsPage(p)
      /\ p.total = -1 /\ p.to = to /\ p.from = amount + 1
  BY <1>1, <1>3, NextPageIsPage DEF Page
<1>5. /\ pages' = Append(pages, p) /\ amount' = to
      /\ srv' = IF to = Size THEN "idle" ELSE "pages"
  BY DEF ServerPage
<1>6. to \in (amount + 1)..Size
  BY <1>1, <1>3, NextIsPage
<1> HIDE DEF p, to
<1>7. Stream' /\ pages' \in Seq(Pages)
  <2>1. pages # <<>> => pages[Len(pages)].to = amount
    BY <1>1 DEF SearchIInv, Stream
  <2>2. srv' = "pages" => amount' \in 1..(Size - 1)
    BY <1>1, <1>3, <1>5, <1>6
  <2>3. p.to = IF srv' = "pages" THEN amount' ELSE Size
    BY <1>4, <1>5
  <2> QED BY <1>1, <1>2, <1>4, <1>5, <2>1, <2>2, <2>3, StreamGrows
          DEF SearchIInv
<1>8. TypeOK' /\ asked' <= searches'
  <2>1. asked' \in 0..asked /\ amount' \in 0..Size /\ srv' \in {"idle", "pages"}
    BY <1>1, <1>3, <1>5, <1>6 DEF SearchIInv, TypeOK
  <2> QED BY <1>1, <1>7, <2>1, ServerTypes
<1>9. /\ Len(pages') = Len(pages) + 1 /\ pages' # <<>>
      /\ pages'[Len(pages')] = p
      /\ \A i \in 1..Len(pages) : pages'[i] = pages[i]
      /\ pages = <<>> => Head(pages') = p
      /\ pages # <<>> => Head(pages') = Head(pages)
  <2>1. /\ Len(pages') = Len(pages) + 1 /\ pages'[Len(pages')] = p
        /\ \A i \in 1..Len(pages) : pages'[i] = pages[i]
    BY <1>1, <1>4, <1>5
  <2> QED BY <1>1, <1>4, <1>5, <2>1, HeadOfAppend
<1>10. Reading'
  <2> SUFFICES ASSUME cli = "more" PROVE Reading'
    BY <1>2 DEF Reading
  <2>1. /\ Len(printed) \in 1..Size /\ usrs_read <= Len(printed)
        /\ IF Len(printed) < Size
           THEN IF pages = <<>> THEN amount = Len(printed)
                ELSE /\ Head(pages).total = -1
                     /\ Head(pages).from = Len(printed) + 1
           ELSE pages # <<>> /\ Head(pages).total # -1
    BY <1>1 DEF SearchIInv, Reading
  <2>2. instep => /\ total_usrs' = Size' /\ before_usrs_read' = FirstAmount'
                  /\ \E e \in Seq(Nat) : Printed(e)'
    BY <1>1, ClientStays
  <2> QED BY <1>2, <1>4, <1>9, <2>1, <2>2 DEF Reading
<1>11. NothingLeft'
  <2> SUFFICES ASSUME instep PROVE NothingLeft'
    BY <1>2 DEF NothingLeft
  <2>1. ~(cli = "idle" /\ ~Early) /\ (cli = "more" => Len(printed) # Size)
    BY <1>1 DEF SearchIInv, NothingLeft, Quiet, RestOfAnswer
  <2>2. cli = "first" => OneAnswer'
    <3> SUFFICES ASSUME cli = "first" PROVE OneAnswer'
      OBVIOUS
    <3>1. /\ asked = 0 /\ pages # <<>> /\ Head(pages).total # -1
          /\ \A i \in DOMAIN pages : i > 1 => pages[i].total = -1
      BY <1>1 DEF SearchIInv, NothingLeft, OneAnswer
    <3>2. \A i \in DOMAIN pages' : i > 1 => pages'[i].total = -1
      BY <1>4, <1>9, <3>1
    <3> QED BY <1>1, <1>9, <3>1, <3>2 DEF OneAnswer
  <2>3. cli = "more" => RestOfAnswer'
    <3> SUFFICES ASSUME cli = "more" PROVE RestOfAnswer'
      OBVIOUS
    <3>1. asked = 0 /\ \A i \in DOMAIN pages : pages[i].total = -1
      BY DEF SearchIInv, NothingLeft, RestOfAnswer
    <3>2. \A i \in DOMAIN pages' : pages'[i].total = -1
      BY <1>4, <1>9, <3>1
    <3> QED BY <1>1, <1>2, <2>1, <3>1, <3>2 DEF RestOfAnswer
  <2> QED BY <1>2, <2>1, <2>2, <2>3, ListStays DEF NothingLeft
<1> QED BY <1>2, <1>7, <1>8, <1>10, <1>11 DEF SearchIInv

\* A search is one request more.
LEMMA TypeSearchKeeps ==
    ASSUME SearchIInv, TypeSearch
    PROVE  SearchIInv'
<1>1. /\ cli = "idle" /\ cli' = "first" /\ searches < MaxSearches
      /\ searches' = searches + 1 /\ asked' = asked + 1
      /\ printed' = <<>> /\ misnamed' = {} /\ shifted' = FALSE
      /\ UNCHANGED <<list, usr_sizes, srv, amount, pages, total_usrs,
                     before_usrs_read, usrs_read>>
      /\ instep' <=> srv = "idle" /\ asked = 0 /\ pages = <<>>
      /\ instep' \in BOOLEAN
  BY DEF TypeSearch, list
<1>2. TypeOK' /\ asked' <= searches'
  <2>1. /\ searches' \in 0..MaxSearches /\ asked' \in 0..MaxSearches
        /\ asked' <= searches'
    BY <1>1, SizesAssumption DEF SearchIInv, TypeOK
  <2>2. /\ pages' \in Seq(Pages) /\ srv' \in {"idle", "pages"}
        /\ amount' \in 0..Size /\ total_usrs' \in Nat
        /\ before_usrs_read' \in 0..Size /\ usrs_read' \in 0..Size
        /\ printed' \in Seq(1..Size) /\ misnamed' \subseteq 1..Size
    BY <1>1 DEF SearchIInv, TypeOK, Pages
  <2> QED BY <1>1, <2>1, <2>2, TypesStay DEF SearchIInv
<1>3. Stream'
  BY <1>1, ListStays DEF SearchIInv, Stream
<1>4. Reading'
  BY <1>1 DEF Reading
<1>5. NothingLeft'
  <2> SUFFICES ASSUME instep' PROVE OneAnswer'
    BY <1>1 DEF NothingLeft
  <2>1. srv = "idle" /\ asked = 0 /\ pages = <<>>
    BY <1>1
  <2> QED BY <1>1, <2>1 DEF OneAnswer
<1>6. PrintedInOrder'
  BY <1>1 DEF PrintedInOrder
<1> QED BY <1>2, <1>3, <1>4, <1>5, <1>6 DEF SearchIInv

----------------------------------------------------------------------------
(* The steps of the client.                                                *)

\* What a page tells of the pages behind it, once it has been read.
LEMMA PageIsRead ==
    ASSUME SearchIInv, pages # <<>>, pages' = Tail(pages),
           UNCHANGED <<list, serverVars, searches>>,
           NEW p, p = Head(pages), NEW n, n = p.to - p.from + 1
    PROVE  /\ usr_sizes \in Lists /\ Size \in Nat /\ Size' = Size
           /\ UNCHANGED usr_sizes /\ asked' = asked /\ srv' = srv
           /\ p \in Pages /\ IsPage(p) /\ n \in 0..Size
           /\ p.from..p.to \subseteq 1..Size
           /\ Stream' /\ pages' \in Seq(Pages)
           /\ \A i \in DOMAIN pages' : i + 1 \in DOMAIN pages
                                       /\ pages'[i] = pages[i + 1]
           /\ IF p.to < Size
              THEN IF pages' = <<>> THEN srv' = "pages" /\ amount' = p.to
                   ELSE Head(pages').total = -1 /\ Head(pages').from = p.to + 1
              ELSE IF pages' = <<>> THEN srv' # "pages"
                   ELSE Head(pages').total # -1
           /\ /\ p.to = Size
              /\ \A i \in DOMAIN pages : i > 1 => pages[i].total = -1
              => pages' = <<>> /\ srv' = "idle"
<1>1. /\ usr_sizes \in Lists /\ pages \in Seq(Pages) /\ Size \in Nat
      /\ UNCHANGED <<usr_sizes, srv, amount, asked>> /\ Stream
  BY ListsAreSeqs DEF SearchIInv, TypeOK, Pages, list, serverVars
<1>2. Size' = Size
  BY <1>1, ListStays
<1>3. /\ Stream' /\ pages' \in Seq(Pages) /\ Len(pages') = Len(pages) - 1
      /\ \A i \in 1..Len(pages') : pages'[i] = pages[i + 1]
  BY <1>1, StreamShrinks
<1>4. /\ p \in Pages /\ IsPage(p)
      /\ p.to < Size =>
            IF Tail(pages) = <<>> THEN srv = "pages" /\ amount = p.to
            ELSE /\ Head(Tail(pages)).total = -1
                 /\ Head(Tail(pages)).from = p.to + 1
      /\ p.to = Size => IF Tail(pages) = <<>> THEN srv # "pages"
                        ELSE Head(Tail(pages)).total # -1
      /\ /\ p.to = Size
         /\ \A i \in DOMAIN pages : i > 1 => pages[i].total = -1
         => Tail(pages) = <<>> /\ srv # "pages"
  BY <1>1, BehindHead
<1>5. /\ p.to \in 0..Size /\ p.from \in 1..(Size + 1)
      /\ p.total # -1 => p.from = 1
      /\ p.total = -1 => p.from <= p.to
  <2>1. p.to \in 0..Size /\ p.from \in 1..(Size + 1)
    BY <1>4 DEF Pages
  <2>2. ASSUME p.total = -1 PROVE p.from <= p.to
    <3>1. p.from \in 2..Size /\ p.to = NextAmount(p.from - 1)
      BY <1>4, <2>2 DEF IsPage
    <3>2. p.from - 1 \in 0..(Size - 1)
      BY <1>1, <3>1
    <3>3. p.to \in ((p.from - 1) + 1)..Size
      BY <1>1, <3>1, <3>2, NextIsPage
    <3> QED BY <1>1, <3>1, <3>3
  <2> QED BY <1>4, <2>1, <2>2 DEF IsPage
<1>6. n \in 0..Size /\ p.from..p.to \subseteq 1..Size
  BY <1>1, <1>5
<1>7. srv \in {"idle", "pages"}
  BY DEF SearchIInv, TypeOK
<1>8. \A i \in DOMAIN pages' : i + 1 \in DOMAIN pages
                               /\ pages'[i] = pages[i + 1]
  BY <1>1, <1>3
<1>9. IF p.to < Size
      THEN IF pages' = <<>> THEN srv' = "pages" /\ amount' = p.to
           ELSE Head(pages').total = -1 /\ Head(pages').from = p.to + 1
      ELSE IF pages' = <<>> THEN srv' # "pages" ELSE Head(pages').total # -1
  <2>1. p.to < Size \/ p.to = Size
    BY <1>1, <1>5
  <2> QED BY <1>1, <1>4, <2>1
<1>10. /\ p.to = Size
       /\ \A i \in DOMAIN pages : i > 1 => pages[i].total = -1
       => pages' = <<>> /\ srv' = "idle"
  BY <1>1, <1>4, <1>7
<1> QED BY <1>1, <1>2, <1>3, <1>4, <1>6, <1>8, <1>9, <1>10

\* The number that is read is one.
LEMMA ParsedIsNat ==
    ASSUME NEW n \in Nat, NEW t \in Tails
    PROVE  Parsed(n, t) \in Nat
<1>1. t.scale \in Nat /\ t.rest \in Nat
  BY SizesAssumption
<1>2. \A a, b \in Nat : a * b \in Nat
  OBVIOUS
<1>3. n * t.scale \in Nat
  BY <1>1, <1>2
<1> QED BY <1>1, <1>3 DEF Parsed

LEMMA MisnamedAreUsers ==
    ASSUME NEW p, NEW r, p.from..p.to \subseteq 1..Size
    PROVE  Misnamed(p, r) \subseteq 1..Size
  BY DEF Misnamed

\* Those of a page are on it, and have a longer identifier before them.
LEMMA MisnamedHaveLonger ==
    ASSUME UNCHANGED list, NEW p, p.from..p.to \subseteq 1..Size, Size \in Nat,
           p.from \in Nat \ {0}, NEW r \in Stack, NEW i \in Misnamed(p, r)
    PROVE  i \in p.from..p.to /\ LongerBefore(i)'
<1>1. id_digits' = id_digits
  BY DEF list
<1>2. i \in p.from..p.to /\ i \in 1..Size
  BY DEF Misnamed
<1>3. ASSUME NEW j \in p.from..(i - 1) PROVE j \in 1..(i - 1)
  BY <1>2, <1>3
<1>4. \/ id_digits[i] < r
      \/ \E j \in p.from..(i - 1) : id_digits[i] < id_digits[j]
  BY DEF Misnamed
<1> QED BY <1>1, <1>2, <1>3, <1>4 DEF LongerBefore

\* The types of a step of the client, and what it leaves of the server.
LEMMA ClientTypes ==
    ASSUME SearchIInv, UNCHANGED <<list, serverVars, searches>>,
           pages' \in Seq(Pages), cli' \in {"idle", "more", "lost"},
           instep' \in BOOLEAN, total_usrs' \in Nat,
           before_usrs_read' \in 0..Size, usrs_read' \in 0..Size,
           printed' \in Seq(1..Size), misnamed' \subseteq 1..Size,
           shifted' \in BOOLEAN
    PROVE  TypeOK' /\ asked' <= searches'
<1>1. /\ srv' \in {"idle", "pages"} /\ amount' \in 0..Size
      /\ asked' \in 0..MaxSearches /\ searches' \in 0..MaxSearches
      /\ asked' <= searches'
  BY DEF SearchIInv, TypeOK, serverVars
<1>2. cli' \in {"idle", "first", "more", "lost"}
  OBVIOUS
<1> QED BY <1>1, <1>2, TypesStay DEF SearchIInv

\* A page that is not the first of an answer is read by a search that began
\* with something in the connection.
LEMMA LeftoverKeeps ==
    ASSUME SearchIInv, cli = "first", pages # <<>>, pages' = Tail(pages),
           UNCHANGED <<list, serverVars, searches>>, Head(pages).total = -1,
           NEW lead \in Leads, Leftover(Head(pages), lead)
    PROVE  SearchIInv'
<1>1. Stream' /\ pages' \in Seq(Pages)
  BY PageIsRead
<1>2. ~instep
  BY DEF SearchIInv, NothingLeft, OneAnswer
<1>3. /\ cli' \in {"idle", "lost"} /\ shifted' \in BOOLEAN
      /\ total_usrs' = lead
      /\ UNCHANGED <<instep, usrs_read, before_usrs_read, printed, misnamed>>
  <2> DEFINE n == Head(pages).to - Head(pages).from + 1
             whole == IF Head(pages).used > MAX_DATA_SIZE THEN n - 1 ELSE n
  <2>1. \/ cli' = "idle" /\ shifted' = (lead > 0)
        \/ cli' = "lost" /\ shifted' = TRUE
    <3>1. \/ /\ lead < n /\ cli' = "idle" /\ shifted' = (lead > 0)
          \/ /\ lead >= whole /\ lead > 0 /\ cli' = "lost" /\ shifted' = TRUE
      BY DEF Leftover
    <3> QED BY <3>1
  <2>2. /\ total_usrs' = lead
        /\ UNCHANGED <<instep, usrs_read, before_usrs_read, printed, misnamed>>
    BY DEF Leftover
  <2>3. (lead > 0) \in BOOLEAN
    OBVIOUS
  <2> QED BY <2>1, <2>2, <2>3
<1>4. TypeOK' /\ asked' <= searches'
  <2>1. /\ total_usrs' \in Nat /\ instep' \in BOOLEAN
        /\ before_usrs_read' \in 0..Size /\ usrs_read' \in 0..Size
        /\ printed' \in Seq(1..Size) /\ misnamed' \subseteq 1..Size
    BY <1>3, SizesAssumption DEF SearchIInv, TypeOK
  <2> QED BY <1>1, <1>3, <2>1, ClientTypes
<1>5. Reading'
  BY <1>3 DEF Reading
<1>6. NothingLeft'
  BY <1>2, <1>3 DEF NothingLeft
<1>7. PrintedInOrder'
  BY <1>2, <1>3, PrintedStays DEF SearchIInv
<1> QED BY <1>1, <1>4, <1>5, <1>6, <1>7 DEF SearchIInv

\* The first page of an answer begins the list.
LEMMA CountedKeeps ==
    ASSUME SearchIInv, cli = "first", pages # <<>>, pages' = Tail(pages),
           UNCHANGED <<list, serverVars, searches, shifted>>,
           Head(pages).total # -1,
           NEW total \in Nat, Counted(Head(pages), total)
    PROVE  SearchIInv'
<1> DEFINE p == Head(pages)
           n == p.to - p.from + 1
<1>1. /\ usr_sizes \in Lists /\ Size \in Nat /\ Size' = Size
      /\ UNCHANGED usr_sizes /\ asked' = asked
      /\ p \in Pages /\ IsPage(p) /\ n \in 0..Size
      /\ p.from..p.to \subseteq 1..Size
      /\ Stream' /\ pages' \in Seq(Pages)
  BY PageIsRead
<1>2. /\ \A i \in DOMAIN pages' : i + 1 \in DOMAIN pages
                                  /\ pages'[i] = pages[i + 1]
      /\ IF p.to < Size
         THEN IF pages' = <<>> THEN srv' = "pages" /\ amount' = p.to
              ELSE Head(pages').total = -1 /\ Head(pages').from = p.to + 1
         ELSE IF pages' = <<>> THEN srv' # "pages" ELSE Head(pages').total # -1
      /\ /\ p.to = Size
         /\ \A i \in DOMAIN pages : i > 1 => pages[i].total = -1
         => pages' = <<>> /\ srv' = "idle"
  BY PageIsRead
<1>3. FirstAmount \in 0..Size /\ (Size > 0 => FirstAmount > 0)
  BY <1>1, FirstIsPage
<1>4. p.total = Size /\ p.from = 1 /\ p.to = FirstAmount /\ n = FirstAmount
  <2>1. p.total = Size /\ p.from = 1 /\ p.to = FirstAmount
    BY <1>1 DEF IsPage
  <2> QED BY <1>3, <2>1
<1>5. instep => /\ asked = 0
                /\ \A i \in DOMAIN pages : i > 1 => pages[i].total = -1
  BY DEF SearchIInv, NothingLeft, OneAnswer
<1>6. /\ instep /\ p.to = Size => Quiet'
      /\ instep => \A i \in DOMAIN pages' : pages'[i].total = -1
  <2>1. ASSUME instep, NEW i \in DOMAIN pages' PROVE pages'[i].total = -1
    <3>1. i + 1 \in DOMAIN pages /\ i + 1 > 1 /\ pages'[i] = pages[i + 1]
      <4>1. i \in 1..Len(pages')
        BY <1>1
      <4> QED BY <1>2, <4>1
    <3> QED BY <1>5, <2>1, <3>1
  <2> QED BY <1>1, <1>2, <1>5, <2>1 DEF Quiet
<1>7. /\ total_usrs' = total /\ instep' \in BOOLEAN
      /\ instep' => instep /\ total = Size
      /\ shifted' = shifted /\ shifted \in BOOLEAN
  BY <1>4 DEF Counted, SearchIInv, TypeOK
<1>8. \/ /\ UNCHANGED <<usrs_read, before_usrs_read, printed, misnamed>>
         /\ cli' = "lost" \/ (cli' = "idle" /\ total = 0)
      \/ /\ total # 0 /\ n > 0 /\ printed' = Users(p)
         /\ \E r \in Stack : misnamed' = Misnamed(p, r)
         /\ usrs_read' = n /\ before_usrs_read' = n
         /\ IF n < total THEN LoopHead(n, n, total) ELSE cli' = "idle"
  BY DEF Counted
<1> HIDE DEF p, n
<1>9. CASE /\ UNCHANGED <<usrs_read, before_usrs_read, printed, misnamed>>
           /\ cli' = "lost" \/ (cli' = "idle" /\ total = 0)
  <2>1. TypeOK' /\ asked' <= searches'
    <3>1. /\ before_usrs_read' \in 0..Size /\ usrs_read' \in 0..Size
          /\ printed' \in Seq(1..Size) /\ misnamed' \subseteq 1..Size
      BY <1>9 DEF SearchIInv, TypeOK
    <3>2. cli' \in {"idle", "more", "lost"} /\ total_usrs' \in Nat
      BY <1>7, <1>9
    <3> QED BY <1>1, <1>7, <3>1, <3>2, ClientTypes
  <2>2. Reading'
    BY <1>9 DEF Reading
  <2>3. PrintedInOrder'
    <3>1. shifted' => ~instep'
      BY <1>7 DEF SearchIInv, PrintedInOrder
    <3> QED BY <1>9, <3>1, PrintedStays DEF SearchIInv
  <2>4. NothingLeft'
    <3> SUFFICES ASSUME instep', cli' = "idle"
                 PROVE  Quiet' /\ Len(printed') = Size'
      BY <1>9 DEF NothingLeft
    <3>1. instep /\ Size = 0
      BY <1>7, <1>9
    <3>2. p.to = Size
      BY <1>3, <1>4, <3>1
    <3>3. Len(printed) = 0
      <4>1. printed \in Seq(1..0)
        BY <3>1 DEF SearchIInv, TypeOK
      <4>2. Len(printed) \in Nat /\ (Len(printed) > 0 => printed[1] \in 1..0)
        BY <4>1
      <4> QED BY <4>2
    <3> QED BY <1>1, <1>6, <1>9, <3>1, <3>2, <3>3
  <2> QED BY <1>1, <2>1, <2>2, <2>3, <2>4 DEF SearchIInv
<1>10. CASE /\ total # 0 /\ n > 0 /\ printed' = Users(p)
            /\ \E r \in Stack : misnamed' = Misnamed(p, r)
            /\ usrs_read' = n /\ before_usrs_read' = n
            /\ IF n < total THEN LoopHead(n, n, total) ELSE cli' = "idle"
  <2>1. /\ cli' = IF FirstAmount < total /\ 2 * FirstAmount # total
                  THEN "more" ELSE "idle"
        /\ FirstAmount > 0
    <3>1. 2 * FirstAmount = FirstAmount + FirstAmount
      BY <1>3
    <3> QED BY <1>4, <1>10, <3>1 DEF LoopHead
  <2>2. /\ printed' = [i \in 1..FirstAmount |-> i]
        /\ printed' \in Seq(1..Size) /\ Len(printed') = FirstAmount
    <3>1. printed' = [i \in 1..FirstAmount |-> i]
      <4>1. p.to - p.from + 1 = FirstAmount /\ p.from = 1
        BY <1>4 DEF n
      <4>2. \A i \in 1..FirstAmount : p.from + i - 1 = i
        BY <1>3, <1>4
      <4> QED BY <1>10, <4>1, <4>2 DEF Users
    <3>2. \A i \in 1..FirstAmount : i \in 1..Size
      BY <1>1, <1>3
    <3>3. printed' \in [1..FirstAmount -> 1..Size]
      BY <3>1, <3>2
    <3> QED BY <1>3, <3>1, <3>3, FunctionIsSeq
  <2>3. TypeOK' /\ asked' <= searches'
    <3>1. misnamed' \subseteq 1..Size
      BY <1>1, <1>10, MisnamedAreUsers
    <3>2. cli' \in {"idle", "more", "lost"} /\ total_usrs' \in Nat
          /\ usrs_read' \in 0..Size /\ before_usrs_read' \in 0..Size
      BY <1>1, <1>7, <1>10, <2>1
    <3> QED BY <1>1, <1>7, <2>2, <3>1, <3>2, ClientTypes
  <2>4. PrintedInOrder'
    <3>1. shifted' => ~instep'
      BY <1>7 DEF SearchIInv, PrintedInOrder
    <3>2. printed' = [i \in 1..Len(printed') |-> i]
      BY <2>2
    <3>3. ASSUME NEW i \in misnamed'
          PROVE  i <= Len(printed') /\ LongerBefore(i)'
      <4>1. PICK r \in Stack : misnamed' = Misnamed(p, r)
        BY <1>10
      <4>2. i \in p.from..p.to /\ LongerBefore(i)'
        BY <1>1, <1>4, <3>3, <4>1, MisnamedHaveLonger
      <4> QED BY <1>3, <1>4, <2>2, <4>2
    <3> QED BY <3>1, <3>2, <3>3 DEF PrintedInOrder
  <2>5. PICK e \in Seq(Nat) : e = <<FirstAmount>>
    <3>1. FirstAmount \in Nat
      BY <1>3
    <3>2. <<FirstAmount>> \in Seq(Nat)
      BY <3>1
    <3> QED BY <3>2
  <2>6. Ends(e) /\ Len(e) = 1 /\ e[1] = FirstAmount
    BY <1>3, <2>5 DEF Ends
  <2>7. ExitsAt(e, 1) <=> FirstAmount < Size /\ 2 * FirstAmount = Size
    BY <1>1, <1>3, <2>6 DEF ExitsAt
  <2>8. Reading'
    <3> SUFFICES ASSUME cli' = "more" PROVE Reading'
      BY DEF Reading
    <3>1. ASSUME instep'
          PROVE  /\ total_usrs' = Size' /\ before_usrs_read' = FirstAmount'
                 /\ Printed(e)'
      <4>1. FirstAmount < Size /\ 2 * FirstAmount # Size
        BY <1>7, <2>1, <3>1
      <4>2. Ends(e)' /\ \A i \in 1..Len(e) : ~ExitsAt(e, i)'
        BY <1>1, <2>6, <2>7, <4>1, ListStays
      <4>3. /\ Len(printed') = e[Len(e)]
            /\ usrs_read' = e[Len(e)] - (Len(e) - 1)
        BY <1>3, <1>4, <1>10, <2>2, <2>6
      <4>4. total_usrs' = Size' /\ before_usrs_read' = FirstAmount'
        BY <1>1, <1>4, <1>7, <1>10, <3>1, ListStays
      <4> QED BY <4>2, <4>3, <4>4 DEF Printed
    <3>2. Len(printed') \in 1..Size' /\ usrs_read' <= Len(printed')
      BY <1>1, <1>3, <1>4, <1>10, <2>1, <2>2
    <3>3. IF Len(printed') < Size'
          THEN IF pages' = <<>> THEN srv' = "pages" /\ amount' = Len(printed')
               ELSE /\ Head(pages').total = -1
                    /\ Head(pages').from = Len(printed') + 1
          ELSE IF pages' = <<>> THEN srv' # "pages" ELSE Head(pages').total # -1
      BY <1>1, <1>2, <1>4, <2>2
    <3> QED BY <3>1, <3>2, <3>3 DEF Reading
  <2>9. NothingLeft'
    <3> SUFFICES ASSUME instep' PROVE NothingLeft'
      BY DEF NothingLeft
    <3>1. cli' = IF FirstAmount < Size /\ 2 * FirstAmount # Size
                 THEN "more" ELSE "idle"
      BY <1>7, <2>1
    <3>2. asked' = 0 /\ \A i \in DOMAIN pages' : pages'[i].total = -1
      BY <1>1, <1>5, <1>6, <1>7
    <3>3. cli' = "more" => RestOfAnswer'
      BY <1>1, <1>3, <2>2, <3>1, <3>2 DEF RestOfAnswer
    <3>4. ASSUME ~Early, cli' = "idle" PROVE Quiet' /\ Len(printed') = Size'
      <4>1. ~ExitsAt(e, 1)
        BY <2>6, <3>4 DEF Early
      <4>2. FirstAmount = Size
        BY <1>1, <1>3, <2>7, <3>1, <3>4, <4>1
      <4> QED BY <1>1, <1>4, <1>6, <1>7, <2>2, <4>2
    <3>5. cli' # "first"
      BY <3>1
    <3> QED BY <1>1, <3>3, <3>4, <3>5, ListStays DEF NothingLeft
  <2> QED BY <1>1, <2>3, <2>4, <2>8, <2>9 DEF SearchIInv
<1> QED BY <1>8, <1>9, <1>10

LEMMA FirstPageKeeps ==
    ASSUME SearchIInv, FirstPage
    PROVE  SearchIInv'
<1>1. /\ cli = "first" /\ pages # <<>> /\ pages' = Tail(pages)
      /\ UNCHANGED <<list, serverVars, searches>>
  BY DEF FirstPage
<1>2. CASE Head(pages).total = -1
  <2>1. PICK lead \in Leads : Leftover(Head(pages), lead)
    BY <1>2 DEF FirstPage
  <2> QED BY <1>1, <1>2, <2>1, LeftoverKeeps
<1>3. CASE Head(pages).total # -1
  <2>1. /\ UNCHANGED shifted
        /\ \E t \in Tails : Counted(Head(pages), Parsed(Head(pages).total, t))
    BY <1>3 DEF FirstPage
  <2>2. Head(pages).total \in Nat
    <3>1. Head(pages) \in Pages /\ Size \in Nat
      BY <1>1, PageIsRead
    <3> QED BY <1>3, <3>1 DEF Pages
  <2> QED BY <1>1, <1>3, <2>1, <2>2, ParsedIsNat, CountedKeeps
<1> QED BY <1>2, <1>3

\* A page that is lost, with whoever reads it.
LEMMA LostKeeps ==
    ASSUME SearchIInv, cli = "more", pages # <<>>, pages' = Tail(pages),
           UNCHANGED <<list, serverVars, searches, instep, total_usrs, shifted,
                       before_usrs_read, usrs_read, printed, misnamed>>,
           cli' = "lost"
    PROVE  SearchIInv'
<1>1. Stream' /\ pages' \in Seq(Pages)
  BY PageIsRead
<1>2. TypeOK' /\ asked' <= searches'
  <2>1. /\ total_usrs' \in Nat /\ instep' \in BOOLEAN /\ shifted' \in BOOLEAN
        /\ before_usrs_read' \in 0..Size /\ usrs_read' \in 0..Size
        /\ printed' \in Seq(1..Size) /\ misnamed' \subseteq 1..Size
    BY DEF SearchIInv, TypeOK
  <2> QED BY <1>1, <2>1, ClientTypes
<1>3. Reading' /\ NothingLeft'
  BY DEF Reading, NothingLeft
<1>4. PrintedInOrder'
  <2>1. shifted' => ~instep'
    BY DEF SearchIInv, PrintedInOrder
  <2> QED BY <2>1, PrintedStays DEF SearchIInv
<1> QED BY <1>1, <1>2, <1>3, <1>4 DEF SearchIInv

LEMMA SeqOfNumbers ==
    ASSUME NEW S, NEW s \in Seq(S), \A i \in 1..Len(s) : s[i] = i
    PROVE  s = [i \in 1..Len(s) |-> i]
  OBVIOUS

\* Another page goes on where the list printed so far ends.
LEMMA NextPageKeeps ==
    ASSUME SearchIInv, cli = "more", pages # <<>>, pages' = Tail(pages),
           UNCHANGED <<list, serverVars, searches, instep, total_usrs,
                       before_usrs_read, shifted>>,
           NEW p, p = Head(pages), p.total = -1,
           printed' = printed \o Users(p),
           \E r \in Stack : misnamed' = misnamed \cup Misnamed(p, r),
           NEW n \in Reads(p), usrs_read' = usrs_read + n,
           IF usrs_read + n + 1 = total_usrs THEN cli' = "idle"
           ELSE LoopHead(usrs_read + n, before_usrs_read, total_usrs)
    PROVE  SearchIInv'
<1> DEFINE l == Len(printed)
           t == NextAmount(l)
<1>1. /\ usr_sizes \in Lists /\ Size \in Nat /\ Size' = Size
      /\ UNCHANGED usr_sizes /\ asked' = asked /\ srv' = srv
      /\ p \in Pages /\ IsPage(p)
      /\ p.from..p.to \subseteq 1..Size
      /\ Stream' /\ pages' \in Seq(Pages)
  BY PageIsRead
<1>2. /\ \A i \in DOMAIN pages' : i + 1 \in DOMAIN pages
                                  /\ pages'[i] = pages[i + 1]
      /\ IF p.to < Size
         THEN IF pages' = <<>> THEN srv' = "pages" /\ amount' = p.to
              ELSE Head(pages').total = -1 /\ Head(pages').from = p.to + 1
         ELSE IF pages' = <<>> THEN srv' # "pages" ELSE Head(pages').total # -1
      /\ /\ p.to = Size
         /\ \A i \in DOMAIN pages : i > 1 => pages[i].total = -1
         => pages' = <<>> /\ srv' = "idle"
  BY PageIsRead
<1>3. l \in 1..Size /\ l < Size /\ p.from = l + 1 /\ usrs_read \in 0..l
  <2>1. /\ l \in 1..Size /\ usrs_read <= l
        /\ IF l < Size THEN p.from = l + 1 ELSE p.total # -1
    BY DEF SearchIInv, Reading
  <2>2. usrs_read \in 0..Size
    BY DEF SearchIInv, TypeOK
  <2> QED BY <1>1, <2>1, <2>2
<1>4. t \in (l + 1)..Size
  <2>1. l \in 0..(Size - 1)
    BY <1>1, <1>3
  <2> QED BY <1>1, <2>1, NextIsPage
<1>5. p.to = t /\ p.used \in Nat /\ (p.used < MAX_DATA_SIZE \/ t = Size)
      /\ MAX_DATA_SIZE \in Nat
  <2>1. p.from - 1 = l
    BY <1>1, <1>3
  <2>2. p.to = t
    BY <1>1, <2>1 DEF IsPage
  <2> QED BY <1>1, <2>2, SizesAssumption DEF IsPage, Pages
<1>6. instep => /\ asked = 0
                /\ \A i \in DOMAIN pages : pages[i].total = -1
  BY DEF SearchIInv, NothingLeft, RestOfAnswer
<1>7. /\ instep /\ t = Size => Quiet'
      /\ instep => \A i \in DOMAIN pages' : pages'[i].total = -1
  BY <1>1, <1>2, <1>5, <1>6 DEF Quiet
<1>8. FirstAmount \in 0..Size
  BY <1>1, FirstIsPage
<1> HIDE DEF t, l
<1>9. /\ n \in {t - (l + 1), t - (l + 1) + 1}
      /\ t < Size => n = t - (l + 1)
  <2>1. n = p.to - p.from \/ n = p.to - p.from + 1
    BY DEF Reads
  <2>2. p.used < MAX_DATA_SIZE => n = p.to - p.from
    BY <1>5 DEF Reads
  <2>3. l \in Int /\ t \in Int /\ Size \in Int /\ p.from = l + 1 /\ p.to = t
        /\ (p.used < MAX_DATA_SIZE \/ t = Size)
    BY <1>1, <1>3, <1>4, <1>5
  <2>4. p.to - p.from = t - (l + 1)
    BY <2>3
  <2>5. t < Size => p.used < MAX_DATA_SIZE
    BY <2>3
  <2> QED BY <2>1, <2>2, <2>4, <2>5
<1>10. usrs_read' \in 0..t
  BY <1>1, <1>3, <1>4, <1>9
<1>11. /\ printed' \in Seq(1..Size) /\ Len(printed') = t
       /\ printed' = [i \in 1..Len(printed') |-> i]
  <2> DEFINE u == Users(p)
  <2>1. p.to - p.from + 1 = t - l /\ t - l \in Nat
    BY <1>3, <1>4, <1>5
  <2>2. u = [i \in 1..(t - l) |-> l + i]
    <3>1. \A i \in 1..(t - l) : p.from + i - 1 = l + i
      BY <1>3, <1>4
    <3> QED BY <2>1, <3>1 DEF Users
  <2>3. \A i \in 1..(t - l) : l + i \in 1..Size
    BY <1>1, <1>3, <1>4
  <2>4. u \in [1..(t - l) -> 1..Size]
    BY <2>2, <2>3
  <2>5. u \in Seq(1..Size) /\ Len(u) = t - l
    <3>1. PICK k \in Nat : k = t - l
      BY <2>1
    <3> HIDE DEF u
    <3>2. u \in [1..k -> 1..Size]
      BY <2>4, <3>1
    <3>3. u \in Seq(1..Size) /\ Len(u) = k
      BY <3>2, FunctionIsSeq
    <3> QED BY <3>1, <3>3
  <2>6. printed \in Seq(1..Size) /\ printed = [i \in 1..l |-> i]
        /\ Len(printed) = l
    BY DEF SearchIInv, TypeOK, PrintedInOrder, l
  <2>7. \A i \in 1..(t - l) : u[i] = l + i
    BY <2>2
  <2> HIDE DEF u
  <2>8. /\ printed' \in Seq(1..Size) /\ Len(printed') = l + (t - l)
        /\ \A i \in 1..(l + (t - l)) :
              printed'[i] = IF i <= l THEN printed[i] ELSE u[i - l]
    <3>1. printed' = printed \o u
      BY DEF u
    <3>2. /\ printed \o u \in Seq(1..Size)
          /\ Len(printed \o u) = Len(printed) + Len(u)
          /\ \A i \in 1..(Len(printed) + Len(u)) :
                (printed \o u)[i] = IF i <= Len(printed) THEN printed[i]
                                    ELSE u[i - Len(printed)]
      BY <2>5, <2>6, ConcatProperties
    <3>3. Len(printed) = l /\ Len(u) = t - l
      BY <2>5, <2>6
    <3> QED BY <3>1, <3>2, <3>3
  <2>9. l + (t - l) = t
    BY <1>3, <1>4
  <2>10. \A i \in 1..t : printed'[i] = i
    <3> TAKE i \in 1..t
    <3>1. CASE i <= l
      BY <1>3, <1>4, <2>6, <2>8, <2>9, <3>1
    <3>2. CASE i > l
      <4>1. i - l \in 1..(t - l) /\ l + (i - l) = i /\ ~(i <= l)
        BY <1>1, <1>3, <1>4, <3>2
      <4> QED BY <2>7, <2>8, <2>9, <4>1
    <3>3. i <= l \/ i > l
      BY <1>1, <1>3, <1>4
    <3> QED BY <3>1, <3>2, <3>3
  <2>11. printed' = [i \in 1..Len(printed') |-> i]
    BY <2>8, <2>9, <2>10, SeqOfNumbers
  <2> QED BY <2>8, <2>9, <2>11
<1>12. cli' = IF usrs_read' + 1 = total_usrs
                 \/ usrs_read' + before_usrs_read = total_usrs
              THEN "idle" ELSE "more"
  BY DEF LoopHead
<1>13. TypeOK' /\ asked' <= searches'
  <2>1. /\ total_usrs' \in Nat /\ instep' \in BOOLEAN /\ shifted' \in BOOLEAN
        /\ before_usrs_read' \in 0..Size /\ misnamed \subseteq 1..Size
    BY DEF SearchIInv, TypeOK
  <2>2. misnamed' \subseteq 1..Size
    <3>1. PICK r \in Stack : misnamed' = misnamed \cup Misnamed(p, r)
      OBVIOUS
    <3>2. Misnamed(p, r) \subseteq 1..Size
      BY <1>1, MisnamedAreUsers
    <3> QED BY <2>1, <3>1, <3>2
  <2>3. usrs_read' \in 0..Size /\ cli' \in {"idle", "more", "lost"}
    BY <1>1, <1>3, <1>4, <1>10, <1>12
  <2> QED BY <1>1, <1>11, <2>1, <2>2, <2>3, ClientTypes
<1>14. PrintedInOrder'
  <2>1. shifted' => ~instep'
    BY DEF SearchIInv, PrintedInOrder
  <2>2. PICK r \in Stack : misnamed' = misnamed \cup Misnamed(p, r)
    OBVIOUS
  <2>3. l \in Nat /\ t \in Nat /\ l <= t /\ p.from \in Nat \ {0}
    BY <1>1, <1>3, <1>4
  <2>4. ASSUME NEW i \in misnamed PROVE i <= t /\ LongerBefore(i)'
    <3>1. i <= l /\ LongerBefore(i) /\ i \in Nat
      BY <1>1, <2>4 DEF SearchIInv, TypeOK, PrintedInOrder, l
    <3>2. id_digits' = id_digits
      BY DEF list
    <3> QED BY <2>3, <3>1, <3>2 DEF LongerBefore
  <2>5. ASSUME NEW i \in Misnamed(p, r) PROVE i <= t /\ LongerBefore(i)'
    <3>1. i \in p.from..p.to /\ LongerBefore(i)'
      BY <1>1, <2>3, <2>5, MisnamedHaveLonger
    <3> QED BY <1>5, <2>3, <3>1
  <2>6. \A i \in misnamed' : i <= Len(printed') /\ LongerBefore(i)'
    BY <1>11, <2>2, <2>4, <2>5
  <2> QED BY <1>11, <2>1, <2>6 DEF PrintedInOrder
<1>15. ASSUME instep
       PROVE  /\ total_usrs = Size /\ before_usrs_read = FirstAmount
              /\ \E d \in Seq(Nat) :
                    /\ Ends(d) /\ d[Len(d)] = t /\ Len(d) > 1
                    /\ t < Size => usrs_read' = t - (Len(d) - 1)
                    /\ \A i \in 1..Len(d) :
                          ExitsAt(d, i) =>
                              i = Len(d) /\ t < Size /\ cli' = "idle"
  <2>1. total_usrs = Size /\ before_usrs_read = FirstAmount
    BY <1>15 DEF SearchIInv, Reading
  <2>2. PICK e \in Seq(Nat) : Printed(e)
    BY <1>15 DEF SearchIInv, Reading
  <2>3. /\ Ends(e) /\ l = e[Len(e)] /\ Len(e) \in Nat \ {0}
        /\ \A i \in 1..Len(e) : ~ExitsAt(e, i)
        /\ usrs_read = l - (Len(e) - 1)
    <3>1. Ends(e) /\ Len(e) \in Nat \ {0}
      BY <2>2, EmptySeq DEF Printed, Ends
    <3> QED BY <1>1, <1>3, <2>2, <3>1 DEF Printed, l
  <2>4. PICK d \in Seq(Nat) :
           /\ Ends(d) /\ Len(d) = Len(e) + 1 /\ d[Len(d)] = t
           /\ \A i \in 1..Len(e) : d[i] = e[i]
    <3>1. e[Len(e)] < Size
      BY <1>3, <2>3
    <3> DEFINE c == Append(e, NextAmount(e[Len(e)]))
    <3>2. /\ c \in Seq(Nat) /\ Ends(c) /\ Len(c) = Len(e) + 1
          /\ c[Len(c)] = NextAmount(e[Len(e)])
          /\ \A i \in 1..Len(e) : c[i] = e[i]
      BY <1>1, <2>3, <3>1, EndsExtend
    <3>3. t = NextAmount(e[Len(e)])
      BY <2>3 DEF t
    <3> HIDE DEF c
    <3> QED BY <3>2, <3>3
  <2>5. d[1] = e[1] /\ d[1] = FirstAmount
    BY <2>3, <2>4 DEF Ends
  <2>6. t < Size => usrs_read' = t - (Len(d) - 1)
    <3>1. PICK k \in Nat : k = Len(e) - 1 /\ Len(d) - 1 = k + 1
      <4>1. \A j \in Nat \ {0} : j - 1 \in Nat /\ (j + 1) - 1 = (j - 1) + 1
        OBVIOUS
      <4> QED BY <2>3, <2>4, <4>1
    <3>2. usrs_read = l - k
      BY <2>3, <3>1
    <3>3. t < Size => usrs_read' = t - (k + 1)
      BY <1>3, <1>4, <1>9, <3>2
    <3> QED BY <3>1, <3>3
  <2>7. ExitsAt(d, Len(d)) => t < Size /\ cli' = "idle"
    <3>1. Len(d) > 1 /\ Len(d) \in Nat
      BY <2>3, <2>4
    <3> QED BY <1>12, <2>1, <2>4, <2>5, <2>6, <3>1 DEF ExitsAt
  <2>8. \A i \in 1..Len(e) : ~ExitsAt(d, i)
    BY <2>3, <2>4, <2>5 DEF ExitsAt
  <2>9. \A i \in 1..Len(d) : i \in 1..Len(e) \/ i = Len(d)
    BY <2>3, <2>4
  <2>10. Len(d) > 1
    BY <2>3, <2>4
  <2> QED BY <2>1, <2>4, <2>6, <2>7, <2>8, <2>9, <2>10
<1>16. Reading'
  <2> SUFFICES ASSUME cli' = "more" PROVE Reading'
    BY DEF Reading
  <2>1. ASSUME instep'
        PROVE  /\ total_usrs' = Size' /\ before_usrs_read' = FirstAmount'
               /\ \E e \in Seq(Nat) : Printed(e)'
    <3>1. instep
      BY <2>1
    <3>2. PICK d \in Seq(Nat) :
             /\ Ends(d) /\ d[Len(d)] = t
             /\ t < Size => usrs_read' = t - (Len(d) - 1)
             /\ \A i \in 1..Len(d) : ~ExitsAt(d, i)
      BY <1>15, <3>1
    <3>3. Printed(d)'
      <4>1. Ends(d)' /\ \A i \in 1..Len(d) : ~ExitsAt(d, i)'
        BY <1>1, <3>2, ListStays
      <4>2. usrs_read' = d[Len(d)] - (Len(d) - 1) \/ Len(printed') = Size'
        BY <1>1, <1>4, <1>3, <1>11, <3>2
      <4> QED BY <1>11, <3>2, <4>1, <4>2 DEF Printed
    <3>4. total_usrs' = Size' /\ before_usrs_read' = FirstAmount'
      BY <1>1, <1>15, <3>1, ListStays
    <3> QED BY <3>3, <3>4
  <2>2. Len(printed') \in 1..Size' /\ usrs_read' <= Len(printed')
    BY <1>1, <1>3, <1>4, <1>10, <1>11
  <2>3. IF Len(printed') < Size'
        THEN IF pages' = <<>> THEN srv' = "pages" /\ amount' = Len(printed')
             ELSE /\ Head(pages').total = -1
                  /\ Head(pages').from = Len(printed') + 1
        ELSE IF pages' = <<>> THEN srv' # "pages" ELSE Head(pages').total # -1
    <3>1. p.to = Len(printed') /\ Size' = Size
      BY <1>1, <1>5, <1>11
    <3> QED BY <1>2, <3>1
  <2> QED BY <2>1, <2>2, <2>3 DEF Reading
<1>17. NothingLeft'
  <2> SUFFICES ASSUME instep' PROVE NothingLeft'
    BY DEF NothingLeft
  <2>1. asked' = 0 /\ \A i \in DOMAIN pages' : pages'[i].total = -1
    BY <1>1, <1>6, <1>7
  <2>2. cli' = "more" => RestOfAnswer'
    BY <1>1, <1>7, <1>11, <2>1 DEF RestOfAnswer
  <2>3. ASSUME ~Early, cli' = "idle" PROVE Quiet' /\ Len(printed') = Size'
    <3>1. PICK d \in Seq(Nat) :
             /\ Ends(d) /\ d[Len(d)] = t /\ Len(d) > 1
             /\ t < Size => usrs_read' = t - (Len(d) - 1)
      BY <1>15
    <3>2. ~ExitsAt(d, Len(d)) /\ d[1] = FirstAmount
      BY <2>3, <3>1 DEF Early, Ends
    <3>3. usrs_read' + 1 = Size \/ usrs_read' + FirstAmount = Size
      BY <1>12, <1>15, <2>3
    <3>4. ~(t < Size)
      BY <3>1, <3>2, <3>3 DEF ExitsAt
    <3>5. t = Size
      BY <1>1, <1>3, <1>4, <3>4
    <3> QED BY <1>1, <1>7, <1>11, <3>5
  <2>4. cli' # "first"
    BY <1>12
  <2> QED BY <1>1, <2>2, <2>3, <2>4, ListStays DEF NothingLeft
<1> QED BY <1>1, <1>13, <1>14, <1>16, <1>17 DEF SearchIInv

LEMMA MorePageKeeps ==
    ASSUME SearchIInv, MorePage
    PROVE  SearchIInv'
<1> DEFINE p == Head(pages)
<1>1. /\ cli = "more" /\ pages # <<>> /\ pages' = Tail(pages)
      /\ UNCHANGED <<list, serverVars, searches, instep, total_usrs,
                     before_usrs_read, shifted>>
  BY DEF MorePage
<1>2. CASE cli' = "lost" /\ UNCHANGED <<usrs_read, printed, misnamed>>
  BY <1>1, <1>2, LostKeeps
<1>3. CASE /\ p.used <= MAX_DATA_SIZE /\ p.total = -1
           /\ printed' = printed \o Users(p)
           /\ \E r \in Stack : misnamed' = misnamed \cup Misnamed(p, r)
           /\ \E n \in Reads(p) :
                 /\ usrs_read' = usrs_read + n
                 /\ IF usrs_read + n + 1 = total_usrs THEN cli' = "idle"
                    ELSE LoopHead(usrs_read + n, before_usrs_read, total_usrs)
  BY <1>1, <1>3, NextPageKeeps
<1> QED BY <1>2, <1>3 DEF MorePage

----------------------------------------------------------------------------
(* The theorems.                                                           *)

\* What holds of a search at every step: the pages are in order, the client
\* prints a part of the list, and if no page is taken for the last one, nothing
\* is left of an answer when it is over (NETWORK_sendSearch, network.c:238).
THEOREM SearchInvariant == Spec => []SearchIInv
<1>1. Init => SearchIInv
  <2> SUFFICES ASSUME Init PROVE SearchIInv
    OBVIOUS
  <2>1. Size \in Nat
    BY ListsAreSeqs DEF Init
  <2>2. TypeOK /\ asked <= searches
    <3>1. \A S : <<>> \in Seq(S)
      OBVIOUS
    <3>2. /\ amount \in 0..Size /\ asked \in 0..MaxSearches
          /\ before_usrs_read \in 0..Size /\ usrs_read \in 0..Size
          /\ searches \in 0..MaxSearches /\ asked <= searches
      BY <2>1, SizesAssumption DEF Init
    <3> QED BY <3>1, <3>2 DEF Init, TypeOK
  <2>3. Stream /\ Reading /\ NothingLeft
    BY DEF Init, Stream, Reading, NothingLeft, Quiet
  <2>4. PrintedInOrder
    BY DEF Init, PrintedInOrder
  <2> QED BY <2>2, <2>3, <2>4 DEF SearchIInv
<1>2. SearchIInv /\ [Next]_vars => SearchIInv'
  <2> SUFFICES ASSUME SearchIInv, [Next]_vars PROVE SearchIInv'
    OBVIOUS
  <2>1. CASE ServerSearch
    BY <2>1, ServerSearchKeeps
  <2>2. CASE ServerPage
    BY <2>2, ServerPageKeeps
  <2>3. CASE TypeSearch
    BY <2>3, TypeSearchKeeps
  <2>4. CASE FirstPage
    BY <2>4, FirstPageKeeps
  <2>5. CASE MorePage
    BY <2>5, MorePageKeeps
  <2>6. CASE UNCHANGED vars
    <3>1. /\ UNCHANGED usr_sizes /\ Size' = Size
          /\ UNCHANGED <<cli, instep, total_usrs, before_usrs_read, usrs_read,
                         printed, searches>>
          /\ UNCHANGED <<pages, srv, amount, asked>>
          /\ PrintedInOrder'
      BY <2>6, ClientStays DEF vars, serverVars
    <3>2. TypeOK' /\ asked' <= searches'
      <4>1. pages' \in Seq(Pages)
        BY <3>1 DEF SearchIInv, TypeOK, Pages
      <4>2. asked' \in 0..asked /\ amount' \in 0..Size
            /\ srv' \in {"idle", "pages"}
        BY <3>1 DEF SearchIInv, TypeOK
      <4> QED BY <2>6, <4>1, <4>2, ServerTypes DEF vars
    <3>3. Stream'
      BY <3>1, ListStays DEF SearchIInv, Stream
    <3>4. Reading'
      <4>1. cli = "more" /\ instep =>
               /\ total_usrs' = Size' /\ before_usrs_read' = FirstAmount'
               /\ \E e \in Seq(Nat) : Printed(e)'
        BY <2>6, ClientStays DEF vars
      <4> QED BY <3>1, <4>1 DEF SearchIInv, Reading
    <3>5. NothingLeft'
      BY <3>1, ListStays
      DEF SearchIInv, NothingLeft, Quiet, OneAnswer, RestOfAnswer
    <3> QED BY <3>1, <3>2, <3>3, <3>4, <3>5 DEF SearchIInv
  <2> QED BY <2>1, <2>2, <2>3, <2>4, <2>5, <2>6
          DEF Next, ServerStep, ClientStep
<1> QED BY <1>1, <1>2, PTL DEF Spec

\* Every variable keeps its type: the users that the client counts never exceed
\* the list, whatever number of them it was told or misread.
THEOREM SearchTypes == Spec => []TypeOK
<1>1. SearchIInv => TypeOK
  BY DEF SearchIInv
<1> QED BY <1>1, SearchInvariant, PTL

\* The server splits a list of any length into pages that follow one another,
\* and only the last may hold more than a packet can.
THEOREM PagesAreInOrder == Spec => []PagesFollow
<1>1. SearchIInv => PagesFollow
  <2> SUFFICES ASSUME SearchIInv PROVE PagesFollow
    OBVIOUS
  <2>1. usr_sizes \in Lists /\ Size \in Nat /\ Stream
    BY ListsAreSeqs DEF SearchIInv, TypeOK
  <2>2. ASSUME NEW i \in DOMAIN pages
        PROVE  /\ Size > 0 => pages[i].from <= pages[i].to
               /\ pages[i].used < MAX_DATA_SIZE \/ pages[i].to = Size
    <3>1. IsPage(pages[i])
      BY <2>1 DEF Stream
    <3>2. CASE pages[i].total = -1
      <4>1. /\ pages[i].from \in 2..Size
            /\ pages[i].to = NextAmount(pages[i].from - 1)
        BY <3>1, <3>2 DEF IsPage
      <4>2. pages[i].from - 1 \in 0..(Size - 1)
        BY <2>1, <4>1
      <4>3. pages[i].to \in ((pages[i].from - 1) + 1)..Size
        BY <2>1, <4>1, <4>2, NextIsPage
      <4> QED BY <2>1, <3>1, <4>1, <4>3 DEF IsPage
    <3>3. CASE pages[i].total # -1
      BY <2>1, <3>1, <3>3, FirstIsPage DEF IsPage
    <3> QED BY <3>2, <3>3
  <2> QED BY <2>1, <2>2 DEF Stream, PagesFollow
<1> QED BY <1>1, SearchInvariant, PTL

\* The client prints the first users of the list, each once and in order,
\* whatever searches came before and whatever they left in the connection, and
\* each under its own identifier if none before it was longer; and it prints
\* logins for identifiers only in a search that was out of step.
THEOREM ListPrintedInOrder == Spec => []PrintedInOrder
<1>1. SearchIInv => PrintedInOrder
  BY DEF SearchIInv
<1> QED BY <1>1, SearchInvariant, PTL

\* A search whose answer took one page, or two that the client can tell from
\* the whole, printed every user and left nothing in the connection.
THEOREM SearchesComplete == Spec => []SearchComplete
<1>1. SearchIInv => SearchComplete
  <2> SUFFICES ASSUME SearchIInv, cli = "idle", searches > 0, instep,
                      PageCount <= 2,
                      2 * FirstAmount # Size
               PROVE  /\ Len(printed) = Size
                      /\ pages = <<>> /\ asked = 0 /\ srv = "idle"
    BY DEF SearchComplete
  <2>1. ~Early
    BY ShortAnswers DEF SearchIInv, TypeOK
  <2> QED BY <2>1 DEF SearchIInv, NothingLeft, Quiet
<1> QED BY <1>1, SearchInvariant, PTL
=============================================================================
